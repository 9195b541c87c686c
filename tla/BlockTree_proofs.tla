-------------------------- MODULE BlockTree_proofs --------------------------
(***************************************************************************)
(* Theorems about BlockTree, for every tree of blocks and every world of   *)
(* certificates: what is finalized is one chain that execution knows, and  *)
(* requests are worked on; where commits are extended no assertion of the  *)
(* block tree fails and gaps are requested.                                *)
(***************************************************************************)
EXTENDS BlockTree, FiniteSetTheorems, WellFoundedInduction, TLAPS

-----------------------------------------------------------------------------
(* Blocks and their ancestors.                                             *)

(* A set of numbers has a least one.                                       *)
LEMMA LeastNumber ==
    ASSUME NEW T \in SUBSET Nat, T # {}
    PROVE  \E n \in T : \A m \in T : n <= m
  <1>1. \E n \in T : \A m \in T : ~ (<<m, n>> \in OpToRel(<, Nat))
    BY NatLessThanWellFounded, WFMin
  <1>2. OpToRel(<, Nat) = {ss \in Nat \X Nat : ss[1] < ss[2]}
    BY Zenon DEF OpToRel
  <1>3. \E n \in T : \A m \in T : ~ (<<m, n>> \in {ss \in Nat \X Nat : ss[1] < ss[2]})
    BY <1>1, <1>2, Zenon
  <1>4. \A n, m \in Nat : ~ (<<m, n>> \in {ss \in Nat \X Nat : ss[1] < ss[2]}) => n <= m
    OBVIOUS
  <1> QED BY <1>3, <1>4, Zenon

LEMMA Rounds ==
    ASSUME BlocksOk, NEW b \in Block
    PROVE  /\ block_round[b] \in Nat /\ qc_round[b] \in Nat /\ seq_num[b] \in Nat
           /\ parent[b] \in Block /\ ancestors[b] \subseteq Block
           /\ b # Genesis => /\ ancestors[b] = {b} \cup ancestors[parent[b]]
                             /\ block_round[parent[b]] <= qc_round[b] /\ qc_round[b] < block_round[b]
                             /\ block_round[parent[b]] < block_round[b]
  BY DEF BlocksOk

(* What holds of genesis, and of each block whose parent has it, holds of  *)
(* every block.                                                            *)
LEMMA ChainInduction ==
    ASSUME BlocksOk, NEW T, Genesis \in T, \A b \in Block \ {Genesis} : parent[b] \in T => b \in T
    PROVE  \A b \in Block : b \in T
  <1> DEFINE Bad == {b \in Block : b \notin T}
             R == {block_round[b] : b \in Bad}
  <1>1. SUFFICES ASSUME Bad # {} PROVE FALSE
    OBVIOUS
  <1>2. R \in SUBSET Nat /\ R # {}
    BY <1>1, Rounds
  <1>3. PICK n \in R : \A m \in R : n <= m
    BY <1>2, LeastNumber
  <1>4. PICK b \in Bad : block_round[b] = n
    BY <1>3
  <1>5. b \in Block \ {Genesis} /\ parent[b] \in Bad
    BY <1>4, Rounds
  <1>6. block_round[parent[b]] < block_round[b] /\ block_round[parent[b]] \in R
    BY <1>5, Rounds
  <1>7. block_round[parent[b]] \in Nat /\ block_round[b] \in Nat
    BY <1>5, Rounds
  <1> QED BY <1>3, <1>4, <1>6, <1>7

LEMMA SelfAncestor == ASSUME BlocksOk, NEW b \in Block PROVE b \in ancestors[b]
  BY DEF BlocksOk

LEMMA GenesisAncestor == ASSUME BlocksOk PROVE \A b \in Block : Genesis \in ancestors[b]
  <1> DEFINE T == {b \in Block : Genesis \in ancestors[b]}
  <1>1. Genesis \in T
    BY DEF BlocksOk
  <1>2. \A b \in Block \ {Genesis} : parent[b] \in T => b \in T
    BY Rounds
  <1> HIDE DEF T
  <1>3. \A b \in Block : b \in T
    BY <1>1, <1>2, ChainInduction
  <1> QED BY <1>3 DEF T

LEMMA AncestorsFinite == ASSUME BlocksOk PROVE \A b \in Block : IsFiniteSet(ancestors[b])
  <1> DEFINE T == {b \in Block : IsFiniteSet(ancestors[b])}
  <1>1. Genesis \in T
    <2>1. ancestors[Genesis] = {Genesis} /\ Genesis \in Block
      BY DEF BlocksOk
    <2> QED BY <2>1, FS_Singleton
  <1>2. \A b \in Block \ {Genesis} : parent[b] \in T => b \in T
    <2> TAKE b \in Block \ {Genesis}
    <2> HAVE parent[b] \in T
    <2>1. ancestors[b] = ancestors[parent[b]] \cup {b}
      BY Rounds
    <2> QED BY <2>1, FS_AddElement
  <1> HIDE DEF T
  <1>3. \A b \in Block : b \in T
    BY <1>1, <1>2, ChainInduction
  <1> QED BY <1>3 DEF T

LEMMA Transitive ==
    ASSUME BlocksOk PROVE \A z \in Block : \A y \in ancestors[z] : ancestors[y] \subseteq ancestors[z]
  <1> DEFINE T == {z \in Block : \A y \in ancestors[z] : ancestors[y] \subseteq ancestors[z]}
  <1>1. Genesis \in T
    BY DEF BlocksOk
  <1>2. \A b \in Block \ {Genesis} : parent[b] \in T => b \in T
    BY Rounds
  <1> HIDE DEF T
  <1>3. \A b \in Block : b \in T
    BY <1>1, <1>2, ChainInduction
  <1> QED BY <1>3 DEF T

LEMMA Linear ==
    ASSUME BlocksOk
    PROVE  \A z \in Block : \A x, y \in ancestors[z] : x \in ancestors[y] \/ y \in ancestors[x]
  <1> DEFINE T == {z \in Block : \A x, y \in ancestors[z] : x \in ancestors[y] \/ y \in ancestors[x]}
  <1>1. Genesis \in T
    BY DEF BlocksOk
  <1>2. \A b \in Block \ {Genesis} : parent[b] \in T => b \in T
    BY Rounds
  <1> HIDE DEF T
  <1>3. \A b \in Block : b \in T
    BY <1>1, <1>2, ChainInduction
  <1> QED BY <1>3 DEF T

(* A proper ancestor is of an earlier round, not after that of the QC.     *)
LEMMA AncestorRounds ==
    ASSUME BlocksOk
    PROVE  \A z \in Block : \A x \in ancestors[z] : x # z =>
              /\ z # Genesis /\ x \in ancestors[parent[z]]
              /\ block_round[x] <= qc_round[z] /\ block_round[x] < block_round[z]
  <1> DEFINE P(z) == \A x \in ancestors[z] : x # z =>
              /\ z # Genesis /\ x \in ancestors[parent[z]]
              /\ block_round[x] <= qc_round[z] /\ block_round[x] < block_round[z]
             T == {z \in Block : P(z)}
  <1>1. Genesis \in T
    BY DEF BlocksOk
  <1>2. ASSUME NEW b \in Block \ {Genesis}, parent[b] \in T PROVE b \in T
    <2> SUFFICES ASSUME NEW x \in ancestors[b], x # b
                 PROVE  /\ b # Genesis /\ x \in ancestors[parent[b]]
                        /\ block_round[x] <= qc_round[b] /\ block_round[x] < block_round[b]
      OBVIOUS
    <2>1. x \in ancestors[parent[b]] /\ x \in Block /\ parent[b] \in Block
      BY Rounds
    <2>2. block_round[x] <= block_round[parent[b]]
      BY <1>2, <2>1, Rounds
    <2>3. /\ block_round[parent[b]] <= qc_round[b] /\ qc_round[b] < block_round[b]
          /\ block_round[x] \in Nat /\ block_round[parent[b]] \in Nat /\ qc_round[b] \in Nat /\ block_round[b] \in Nat
      BY <2>1, Rounds
    <2> QED BY <2>1, <2>2, <2>3
  <1> HIDE DEF T
  <1>3. \A b \in Block : b \in T
    BY <1>1, <1>2, ChainInduction
  <1> QED BY <1>3 DEF T

LEMMA Antisymmetric ==
    ASSUME BlocksOk, NEW x \in Block, NEW y \in Block, x \in ancestors[y], y \in ancestors[x]
    PROVE  x = y
  <1> SUFFICES ASSUME x # y PROVE FALSE
    OBVIOUS
  <1>1. block_round[x] < block_round[y] /\ block_round[y] < block_round[x]
    BY AncestorRounds
  <1>2. block_round[x] \in Nat /\ block_round[y] \in Nat
    BY Rounds
  <1> QED BY <1>1, <1>2

-----------------------------------------------------------------------------
(* Certified blocks.                                                       *)

(* The ancestors of a certified block are certified.                       *)
LEMMA CertifiedAncestors ==
    ASSUME BlocksOk, NEW w, WorldOk(w)
    PROVE  \A b \in Block : (\E q \in w.qcs : q.id = b) =>
              \A x \in ancestors[b] : /\ \E q \in w.qcs : q.id = x
                                      /\ x # Genesis => BlockQc(x) \in w.qcs
                                      /\ seq_num[x] <= seq_num[b]
                                      /\ x # Genesis => qc_round[x] < block_round[b]
  <1> DEFINE P(b) == (\E q \in w.qcs : q.id = b) =>
              \A x \in ancestors[b] : /\ \E q \in w.qcs : q.id = x
                                      /\ x # Genesis => BlockQc(x) \in w.qcs
                                      /\ seq_num[x] <= seq_num[b]
                                      /\ x # Genesis => qc_round[x] < block_round[b]
             T == {b \in Block : P(b)}
  <1>1. Genesis \in T
    BY DEF BlocksOk
  <1>2. ASSUME NEW b \in Block \ {Genesis}, parent[b] \in T PROVE b \in T
    <2> SUFFICES ASSUME \E q \in w.qcs : q.id = b, NEW x \in ancestors[b]
                 PROVE  /\ \E q \in w.qcs : q.id = x
                        /\ x # Genesis => BlockQc(x) \in w.qcs
                        /\ seq_num[x] <= seq_num[b]
                        /\ x # Genesis => qc_round[x] < block_round[b]
      OBVIOUS
    <2>1. BlockQc(b) \in w.qcs /\ BlockQc(b).id = parent[b] /\ seq_num[b] = seq_num[parent[b]] + 1
      BY DEF WorldOk, BlockQc
    <2>2. /\ x \in Block /\ parent[b] \in Block /\ seq_num[x] \in Nat /\ seq_num[b] \in Nat /\ seq_num[parent[b]] \in Nat
          /\ qc_round[x] \in Nat /\ block_round[b] \in Nat /\ block_round[parent[b]] \in Nat
          /\ block_round[parent[b]] < block_round[b] /\ qc_round[b] < block_round[b]
      BY Rounds
    <2>3. CASE x = b
      BY <2>1, <2>2, <2>3
    <2>4. CASE x \in ancestors[parent[b]]
      BY <1>2, <2>1, <2>2, <2>4
    <2> QED BY <2>3, <2>4, Rounds
  <1> HIDE DEF T
  <1>3. \A b \in Block : b \in T
    BY <1>1, <1>2, ChainInduction
  <1> QED BY <1>3 DEF T

(* The same of a block that is accepted; its ancestors' QCs are not later. *)
LEMMA KnownAncestors ==
    ASSUME BlocksOk, WorldOk(world), NEW b \in Known, NEW x \in ancestors[b] \ {Genesis}
    PROVE  x \in Known /\ qc_round[x] <= qc_round[b]
  <1>1. b \in Block \ {Genesis} /\ BlockQc(b) \in world.qcs /\ BlockQc(b).id = parent[b] /\ x \in Block
    BY Rounds DEF Known, BlockQc
  <1>2. CASE x = b
    BY <1>1, <1>2, Rounds
  <1>3. CASE x # b
    <2>1. x \in ancestors[parent[b]] /\ parent[b] \in Block
      BY <1>1, <1>3, Rounds
    <2>2. BlockQc(x) \in world.qcs /\ qc_round[x] < block_round[parent[b]]
      BY <1>1, <2>1, CertifiedAncestors
    <2> QED BY <1>1, <2>1, <2>2, Rounds DEF Known
  <1> QED BY <1>2, <1>3

-----------------------------------------------------------------------------
(* The path from the root to a block.                                      *)

LEMMA PathStep ==
    ASSUME BlocksOk, NEW st, st.root \in Block, NEW x \in Block
    PROVE  /\ Cardinality(Path(st, x)) \in Nat /\ IsFiniteSet(Path(st, x))
           /\ x \in ancestors[st.root] => Cardinality(Path(st, x)) = 0
           /\ x \notin ancestors[st.root] =>
                /\ x # Genesis /\ x \in Path(st, x)
                /\ Path(st, x) = Path(st, parent[x]) \cup {x}
                /\ Cardinality(Path(st, x)) = Cardinality(Path(st, parent[x])) + 1
  <1>1. \A y \in Block : IsFiniteSet(Path(st, y)) /\ Cardinality(Path(st, y)) \in Nat
    BY AncestorsFinite, FS_Subset, FS_CardinalityType DEF Path
  <1>2. ASSUME x \in ancestors[st.root] PROVE Cardinality(Path(st, x)) = 0
    <2>1. Path(st, x) = {}
      BY <1>2, Transitive DEF Path
    <2> QED BY <2>1, FS_EmptySet
  <1>3. ASSUME x \notin ancestors[st.root]
        PROVE  /\ x # Genesis /\ x \in Path(st, x)
               /\ Path(st, x) = Path(st, parent[x]) \cup {x}
               /\ Cardinality(Path(st, x)) = Cardinality(Path(st, parent[x])) + 1
    <2>1. x # Genesis
      BY <1>3, GenesisAncestor
    <2>2. parent[x] \in Block /\ ancestors[x] = {x} \cup ancestors[parent[x]]
      BY <2>1, Rounds
    <2>3. x \notin ancestors[parent[x]]
      <3> SUFFICES ASSUME x \in ancestors[parent[x]] PROVE FALSE
        OBVIOUS
      <3>1. block_round[parent[x]] < block_round[x] /\ x # parent[x]
        BY <2>1, Rounds
      <3>2. block_round[x] < block_round[parent[x]]
        BY <2>2, <3>1, AncestorRounds
      <3> QED BY <2>2, <3>1, <3>2, Rounds
    <2>4. Path(st, x) = Path(st, parent[x]) \cup {x} /\ x \notin Path(st, parent[x])
      BY <1>3, <2>2, <2>3 DEF Path
    <2>5. Cardinality(Path(st, x)) = Cardinality(Path(st, parent[x])) + 1
      BY <1>1, <2>2, <2>4, FS_AddElement
    <2> QED BY <2>1, <2>4, <2>5
  <1> QED BY <1>1, <1>2, <1>3

LEMMA PathHas ==
    ASSUME BlocksOk, NEW st, st.root \in Block
    PROVE  \A b \in Block : \A n \in 1..Cardinality(Path(st, b)) :
              \E x \in Path(st, b) : Cardinality(Path(st, x)) = n
  <1> DEFINE P(b) == \A n \in 1..Cardinality(Path(st, b)) :
                        \E x \in Path(st, b) : Cardinality(Path(st, x)) = n
             T == {b \in Block : P(b)}
  <1>1. ASSUME NEW b \in Block, b \in ancestors[st.root] PROVE b \in T
    BY <1>1, PathStep
  <1>2. Genesis \in T
    BY <1>1, GenesisAncestor DEF BlocksOk
  <1>3. ASSUME NEW b \in Block \ {Genesis}, parent[b] \in T PROVE b \in T
    <2>1. CASE b \in ancestors[st.root]
      BY <1>1, <2>1
    <2>2. CASE b \notin ancestors[st.root]
      <3>1. /\ parent[b] \in Block /\ b \in Path(st, b)
            /\ Path(st, parent[b]) \subseteq Path(st, b)
            /\ Cardinality(Path(st, parent[b])) \in Nat
            /\ Cardinality(Path(st, b)) = Cardinality(Path(st, parent[b])) + 1
        BY <2>2, PathStep, Rounds
      <3>2. P(parent[b])
        BY <1>3
      <3> SUFFICES ASSUME NEW n \in 1..Cardinality(Path(st, b))
                   PROVE  \E x \in Path(st, b) : Cardinality(Path(st, x)) = n
        OBVIOUS
      <3>3. CASE n = Cardinality(Path(st, b))
        BY <3>1, <3>3
      <3>4. CASE n # Cardinality(Path(st, b))
        <4>1. n \in 1..Cardinality(Path(st, parent[b]))
          BY <3>1, <3>4
        <4> QED BY <3>1, <3>2, <4>1
      <3> QED BY <3>3, <3>4
    <2> QED BY <2>1, <2>2
  <1> HIDE DEF T
  <1>4. \A b \in Block : b \in T
    BY <1>2, <1>3, ChainInduction
  <1> QED BY <1>4 DEF T

LEMMA PathUnique ==
    ASSUME BlocksOk, NEW st, st.root \in Block, NEW b \in Block, NEW x \in Path(st, b), NEW y \in Path(st, b),
           Cardinality(Path(st, x)) = Cardinality(Path(st, y))
    PROVE  x = y
  <1>0. ASSUME NEW u \in Path(st, b), NEW v \in Path(st, b), u \in ancestors[v], u # v
        PROVE  Cardinality(Path(st, u)) < Cardinality(Path(st, v))
    <2>1. u \in Block /\ v \in Block /\ v \notin ancestors[st.root]
      BY Rounds DEF Path
    <2>2. Path(st, u) \subseteq Path(st, v)
      BY <1>0, <2>1, Transitive DEF Path
    <2>3. v \in Path(st, v) /\ v \notin Path(st, u)
      BY <1>0, <2>1, PathStep, Antisymmetric DEF Path
    <2>4. Path(st, u) # Path(st, v) /\ IsFiniteSet(Path(st, v))
      BY <2>1, <2>3, PathStep
    <2>5. /\ Cardinality(Path(st, u)) <= Cardinality(Path(st, v))
          /\ Cardinality(Path(st, u)) = Cardinality(Path(st, v)) => Path(st, u) = Path(st, v)
      BY <2>2, <2>4, FS_Subset
    <2>6. Cardinality(Path(st, u)) \in Nat /\ Cardinality(Path(st, v)) \in Nat
      BY <2>1, PathStep
    <2> QED BY <2>4, <2>5, <2>6
  <1>1. x \in Block /\ y \in Block /\ (x \in ancestors[y] \/ y \in ancestors[x])
    BY Rounds, Linear DEF Path
  <1>2. Cardinality(Path(st, x)) \in Nat
    BY <1>1, PathStep
  <1> QED BY <1>0, <1>1, <1>2

(* The path in order begins above the root, ends in the block, and each    *)
(* of its blocks follows its parent.                                       *)
LEMMA PathSequenceOk ==
    ASSUME BlocksOk, NEW st, st.root \in Block, NEW b \in Block, st.root \in ancestors[b], b # st.root
    PROVE  LET s == PathSequence(st, b)
               k == Cardinality(Path(st, b)) IN
           /\ k \in Nat /\ k >= 1 /\ s = [n \in 1..k |-> s[n]]
           /\ \A n \in 1..k : s[n] \in Path(st, b) /\ s[n] \in Block
           /\ s[k] = b /\ parent[s[1]] = st.root
           /\ \A n \in 2..k : parent[s[n]] = s[n - 1]
  <1> DEFINE s == PathSequence(st, b)
             k == Cardinality(Path(st, b))
  <1>1. b \notin ancestors[st.root]
    BY Antisymmetric
  <1>2. k \in Nat /\ k >= 1 /\ b \in Path(st, b)
    BY <1>1, PathStep, Rounds
  <1>3. s = [n \in 1..k |-> CHOOSE x \in Path(st, b) : Cardinality(Path(st, x)) = n]
    BY DEF PathSequence
  <1>4. ASSUME NEW n \in 1..k PROVE s[n] \in Path(st, b) /\ Cardinality(Path(st, s[n])) = n
    BY <1>3, PathHas
  <1>5. \A x \in Path(st, b) : x \in Block /\ x \notin ancestors[st.root]
    BY Rounds DEF Path
  <1>6. s[k] = b
    BY <1>2, <1>4, PathUnique
  <1>7. ASSUME NEW n \in 1..k
        PROVE  /\ s[n] \in ancestors[b] /\ s[n] # Genesis /\ parent[s[n]] \in Block
               /\ Cardinality(Path(st, parent[s[n]])) = n - 1
               /\ parent[s[n]] \in ancestors[b]
    <2>1. s[n] \in Block /\ s[n] \notin ancestors[st.root] /\ s[n] \in ancestors[b]
      BY <1>4, <1>5 DEF Path
    <2>2. s[n] # Genesis /\ Cardinality(Path(st, s[n])) = Cardinality(Path(st, parent[s[n]])) + 1
      BY <2>1, PathStep
    <2>3. parent[s[n]] \in Block /\ parent[s[n]] \in ancestors[s[n]]
      BY <2>1, <2>2, Rounds, SelfAncestor
    <2>4. Cardinality(Path(st, parent[s[n]])) \in Nat
      BY <2>3, PathStep
    <2> QED BY <1>4, <2>1, <2>2, <2>3, <2>4, Transitive
  <1>8. ASSUME NEW n \in 2..k PROVE parent[s[n]] = s[n - 1]
    <2>1. n \in 1..k /\ n - 1 \in 1..k /\ n - 1 # 0
      BY <1>2
    <2>2. parent[s[n]] \notin ancestors[st.root]
      BY <1>7, <2>1, PathStep
    <2>3. parent[s[n]] \in Path(st, b)
      BY <1>7, <2>1, <2>2 DEF Path
    <2> QED BY <1>4, <1>7, <2>1, <2>3, PathUnique
  <1>9. parent[s[1]] = st.root
    <2>1. 1 \in 1..k
      BY <1>2
    <2>2. s[1] \in Block /\ s[1] \notin ancestors[st.root] /\ s[1] \in ancestors[b] /\ s[1] # Genesis
      BY <1>4, <1>5, <1>7, <2>1
    <2>3. parent[s[1]] \in Block /\ Cardinality(Path(st, parent[s[1]])) = 0
      BY <1>7, <2>1
    <2>4. parent[s[1]] \in ancestors[st.root]
      <3> SUFFICES ASSUME parent[s[1]] \notin ancestors[st.root] PROVE FALSE
        OBVIOUS
      <3>1. /\ Cardinality(Path(st, parent[s[1]])) = Cardinality(Path(st, parent[parent[s[1]]])) + 1
            /\ parent[parent[s[1]]] \in Block
        BY <2>3, PathStep, Rounds
      <3>2. Cardinality(Path(st, parent[parent[s[1]]])) \in Nat
        BY <3>1, PathStep
      <3> QED BY <2>3, <3>1, <3>2
    <2>5. st.root \in ancestors[s[1]] /\ st.root # s[1]
      BY <2>2, Linear, SelfAncestor
    <2>6. st.root \in ancestors[parent[s[1]]]
      BY <2>2, <2>5, AncestorRounds
    <2> QED BY <2>3, <2>4, <2>6, Antisymmetric
  <1> QED BY <1>2, <1>3, <1>4, <1>5, <1>6, <1>8, <1>9

-----------------------------------------------------------------------------
(* The inductive invariant.                                                *)

BlockRange == [last : Block, num : Nat]
StateType ==
    [root : Block, tree : SUBSET Block, coherent : SUBSET Block, children : [Block -> SUBSET Block],
     round : Nat, high : [id : Block, round : Nat], tc : BOOLEAN, tip : Block \cup {None},
     requests : SUBSET [last : Block, num : Nat, cancel : Nat],
     given : SUBSET Block, chain : Seq(Block), sync : SUBSET BlockRange, cancel : SUBSET BlockRange,
     stopped : BOOLEAN, panicked : BOOLEAN]

(* The coherent blocks are closed under ancestors above the root.          *)
TreeOk(st) ==
    /\ st.tree \subseteq Known /\ st.coherent \subseteq st.tree /\ st.coherent \subseteq st.given
    /\ \A x \in st.tree : block_round[st.root] < block_round[x] /\ qc_round[x] < st.round
    /\ \A x \in st.coherent : st.root \in ancestors[x] => Path(st, x) \subseteq st.coherent
    /\ \A x \in Block : \A y \in st.children[x] : y \in st.tree /\ parent[y] = x

ChainOk(st) ==
    /\ Len(st.chain) >= 1 /\ st.chain[Len(st.chain)] = st.root
    /\ \A i \in 2..Len(st.chain) : parent[st.chain[i]] = st.chain[i - 1]

(* A block that may be added: its QC is of a round that has ended.  Of two *)
(* chains of commits one may be asked for down to genesis.                 *)
CanAdd(st, b) == b \in Known /\ qc_round[b] < st.round
CanAsk(st, b) == b = Genesis \/ CanAdd(st, b)
RequestsOk(st) ==
    /\ \A r \in st.requests \cup st.sync : CanAsk(st, r.last) /\ r.num >= 1
    /\ \A r, p \in st.requests : r.last = p.last => r = p
TipOk(st) == st.tip # None => CanAdd(st, st.tip) /\ st.high = BlockQc(st.tip)

(* The blocks the world commits, with the round of the QC on them.         *)
Commitments == {BlockQc(q.id) : q \in {p \in world.qcs : p.id # Genesis /\ Commits(p)}}

HighOk(st) == st.high \in world.qcs /\ st.high.round < st.round
(* The root was committed in one of the earlier rounds.                    *)
RootOk(b, r) == b # Genesis => \E c \in Commitments : c.id = b /\ c.round + 1 < r

(* Where commits are extended, the highest QC is above every block         *)
(* committed before its round, and so above the root.                      *)
HighAbove(st) == \A c \in Commitments : c.round + 1 < st.round => c.id \in ancestors[st.high.id]
Calm(st) == ~st.panicked /\ HighAbove(st)

Fit(st) == st \in StateType /\ TreeOk(st) /\ ChainOk(st) /\ RequestsOk(st)
Good(st) ==
    Fit(st) /\ TipOk(st) /\ HighOk(st) /\ RootOk(st.root, st.round) /\ (Safe(world) => Calm(st))

GapOk(st) == Safe(world) /\ ~st.tc /\ ~NoGap(st) => Requested(st, Gap(st).last)
(* With the ranges L in the loopback, and the commands of st sent.         *)
Alive(st, L) ==
    \A r \in st.requests : \E g \in (syncing \ st.cancel) \cup L \cup st.sync : g.last = r.last

IInv ==
    /\ world \in Worlds
    /\ Good(node) /\ node.sync = {} /\ node.cancel = {}
    /\ GapOk(node) /\ Alive(node, loopback)
    /\ \A g \in syncing \cup loopback : g \in BlockRange /\ CanAsk(node, g.last) /\ g.num >= 1

(* What one handler may do to the chain and to what execution was given.   *)
Grows(s, t) ==
    /\ s.given \subseteq t.given /\ Len(s.chain) <= Len(t.chain)
    /\ \A i \in 1..Len(s.chain) : t.chain[i] = s.chain[i]
    /\ \A i \in Len(s.chain) + 1..Len(t.chain) : t.chain[i] \in t.given

(* The block is in the tree or needed no longer.                           *)
Settled(st, b) ==
    b \in st.tree \/ block_round[b] <= block_round[st.root] \/ qc_round[b] < block_round[st.root]


(* What one call in a handler may do: requests stay known to block sync.   *)
Step(s, t) ==
    /\ Grows(s, t) /\ s.round <= t.round
    /\ \A b \in Block : Settled(s, b) => Settled(t, b)
    /\ \A L : Alive(s, L) => Alive(t, L)

(* Of a safe world: it does not panic.                                     *)
StaysCalm(s, t) == Safe(world) /\ ~s.panicked => ~t.panicked

Untouched(s, t) ==
    /\ t.round = s.round /\ t.high = s.high /\ t.tc = s.tc /\ t.tip = s.tip
    /\ t.requests = s.requests /\ t.sync = s.sync /\ t.cancel = s.cancel

Whole(t) ==
    t = [root |-> t.root, tree |-> t.tree, coherent |-> t.coherent, children |-> t.children,
         round |-> t.round, high |-> t.high, tc |-> t.tc, tip |-> t.tip, requests |-> t.requests,
         given |-> t.given, chain |-> t.chain, sync |-> t.sync, cancel |-> t.cancel,
         stopped |-> t.stopped, panicked |-> t.panicked]

-----------------------------------------------------------------------------
(* Blocks of one chain: the lowest and the highest.                        *)

LEMMA ChainMin ==
    ASSUME BlocksOk, NEW z \in Block, NEW S \in SUBSET ancestors[z], S # {}
    PROVE  \E x \in S : \A y \in S : x \in ancestors[y]
  <1> DEFINE R == {block_round[x] : x \in S}
  <1>1. R \in SUBSET Nat /\ R # {}
    BY Rounds
  <1>2. PICK n \in R : \A m \in R : n <= m
    BY <1>1, LeastNumber
  <1>3. PICK x \in S : block_round[x] = n
    BY <1>2
  <1>4. ASSUME NEW y \in S PROVE x \in ancestors[y]
    <2>1. x \in Block /\ y \in Block /\ block_round[x] <= block_round[y]
      BY <1>2, <1>3, Rounds
    <2>2. block_round[x] \in Nat /\ block_round[y] \in Nat
      BY <2>1, Rounds
    <2>3. x \in ancestors[y] \/ y \in ancestors[x]
      BY Linear
    <2> QED BY <2>1, <2>2, <2>3, AncestorRounds
  <1> QED BY <1>4

LEMMA ChainMax ==
    ASSUME BlocksOk, NEW z \in Block, NEW S \in SUBSET ancestors[z], S # {}
    PROVE  \E x \in S : \A y \in S : y \in ancestors[x]
  <1> DEFINE R == {block_round[z] - block_round[x] : x \in S}
  <1>0. ASSUME NEW x \in S
        PROVE x \in Block /\ block_round[x] \in Nat /\ block_round[z] \in Nat /\ block_round[x] <= block_round[z]
    BY Rounds, AncestorRounds
  <1>1. R \in SUBSET Nat /\ R # {}
    BY <1>0
  <1>2. PICK n \in R : \A m \in R : n <= m
    BY <1>1, LeastNumber
  <1>3. PICK x \in S : block_round[z] - block_round[x] = n
    BY <1>2
  <1>4. ASSUME NEW y \in S PROVE y \in ancestors[x]
    <2>1. block_round[z] - block_round[x] <= block_round[z] - block_round[y]
      BY <1>2, <1>3
    <2>2. block_round[y] <= block_round[x]
      BY <1>0, <2>1
    <2>3. x \in ancestors[y] \/ y \in ancestors[x]
      BY Linear
    <2> QED BY <1>0, <2>2, <2>3, AncestorRounds
  <1> QED BY <1>4

-----------------------------------------------------------------------------
(* Committing a block.                                                     *)

LEMMA PruneFields ==
    ASSUME NEW st \in StateType, NEW b, b # st.root, HasPath(st, b), Path(st, b) \subseteq st.coherent,
           NEW t, t = Prune(st, b)
    PROVE  /\ t.root = b /\ t.tree = Rest(st, b) /\ t.coherent = st.coherent \cap Rest(st, b)
           /\ t.children = ChildrenLeft(st, b) /\ t.chain = st.chain \o PathSequence(st, b)
           /\ t.panicked = st.panicked
           /\ t.round = st.round /\ t.high = st.high /\ t.tc = st.tc /\ t.tip = st.tip
           /\ t.requests = st.requests /\ t.given = st.given /\ t.sync = st.sync
           /\ t.cancel = st.cancel /\ t.stopped = st.stopped
           /\ Whole(t)
  BY DEF Prune, StateType, Whole

LEMMA StateFields ==
    ASSUME NEW st \in StateType
    PROVE  /\ st.root \in Block /\ st.tree \subseteq Block /\ st.coherent \subseteq Block
           /\ st.children \in [Block -> SUBSET Block] /\ st.round \in Nat
           /\ st.high \in [id : Block, round : Nat] /\ st.tc \in BOOLEAN /\ st.tip \in Block \cup {None}
           /\ st.requests \subseteq [last : Block, num : Nat, cancel : Nat] /\ st.given \subseteq Block
           /\ st.chain \in Seq(Block) /\ st.sync \subseteq BlockRange /\ st.cancel \subseteq BlockRange
           /\ st.stopped \in BOOLEAN /\ st.panicked \in BOOLEAN
  BY DEF StateType

LEMMA StateFrom ==
    ASSUME NEW t, Whole(t),
           t.root \in Block, t.tree \subseteq Block, t.coherent \subseteq Block,
           t.children \in [Block -> SUBSET Block], t.round \in Nat,
           t.high \in [id : Block, round : Nat], t.tc \in BOOLEAN, t.tip \in Block \cup {None},
           t.requests \subseteq [last : Block, num : Nat, cancel : Nat], t.given \subseteq Block,
           t.chain \in Seq(Block), t.sync \subseteq BlockRange, t.cancel \subseteq BlockRange,
           t.stopped \in BOOLEAN, t.panicked \in BOOLEAN
    PROVE  t \in StateType
  <1>1. [root |-> t.root, tree |-> t.tree, coherent |-> t.coherent, children |-> t.children,
         round |-> t.round, high |-> t.high, tc |-> t.tc, tip |-> t.tip, requests |-> t.requests,
         given |-> t.given, chain |-> t.chain, sync |-> t.sync, cancel |-> t.cancel,
         stopped |-> t.stopped, panicked |-> t.panicked] \in StateType
    BY DEF StateType
  <1> QED BY <1>1, Zenon DEF Whole

LEMMA StepTransitive ==
    ASSUME NEW r \in StateType, NEW s \in StateType, NEW t \in StateType, Step(r, s), Step(s, t)
    PROVE  Step(r, t)
  <1>1. Len(r.chain) \in Nat /\ Len(s.chain) \in Nat /\ Len(t.chain) \in Nat
    BY StateFields
  <1>2. r.round <= t.round
    BY StateFields DEF Step
  <1>3. Grows(r, t)
    <2>1. r.given \subseteq t.given /\ Len(r.chain) <= Len(t.chain)
      BY <1>1 DEF Step, Grows
    <2>2. \A i \in 1..Len(r.chain) : t.chain[i] = r.chain[i]
      BY <1>1 DEF Step, Grows
    <2>3. ASSUME NEW i \in Len(r.chain) + 1..Len(t.chain) PROVE t.chain[i] \in t.given
      <3>1. CASE i > Len(s.chain)
        BY <1>1, <3>1 DEF Step, Grows
      <3>2. CASE i <= Len(s.chain)
        <4>1. i \in Len(r.chain) + 1..Len(s.chain) /\ i \in 1..Len(s.chain)
          BY <1>1, <3>2
        <4> QED BY <4>1 DEF Step, Grows
      <3> QED BY <1>1, <3>1, <3>2
    <2> QED BY <2>1, <2>2, <2>3 DEF Grows
  <1> QED BY <1>2, <1>3, Zenon DEF Step

(* A call that leaves chain, root, tree and requests as they are.          *)
LEMMA StepFrom ==
    ASSUME NEW s \in StateType, NEW t, s.given \subseteq t.given, t.chain = s.chain, s.round <= t.round,
           t.root = s.root, s.tree \subseteq t.tree,
           \A L : Alive(s, L) => Alive(t, L)
    PROVE  Step(s, t)
  <1>1. Grows(s, t)
    BY StateFields DEF Grows
  <1>2. \A b \in Block : Settled(s, b) => Settled(t, b)
    BY DEF Settled
  <1> QED BY <1>1, <1>2 DEF Step

LEMMA StepSelf == ASSUME NEW s \in StateType PROVE Step(s, s)
  BY StateFields, StepFrom

LEMMA AliveUntouched ==
    ASSUME NEW s, NEW t, Untouched(s, t) PROVE \A L : Alive(s, L) => Alive(t, L)
  BY DEF Untouched, Alive

LEMMA PruneTree ==
    ASSUME BlocksOk, NEW st \in StateType, TreeOk(st), NEW b \in st.coherent, st.root \in ancestors[b],
           NEW t, t = Prune(st, b)
    PROVE  TreeOk(t)
  <1>1. b \in Block /\ b # st.root /\ b \in st.tree
    BY StateFields, Rounds DEF TreeOk
  <1>p. HasPath(st, b) /\ Path(st, b) \subseteq st.coherent
    BY DEF TreeOk, HasPath
  <1>2. /\ t.root = b /\ t.tree = Rest(st, b) /\ t.coherent = st.coherent \cap Rest(st, b)
        /\ t.children = ChildrenLeft(st, b) /\ t.round = st.round /\ t.given = st.given
    BY <1>1, <1>p, PruneFields
  <1>3. \A x \in Rest(st, b) : /\ x \in st.tree /\ x \in Block /\ x # Genesis /\ x \notin Path(st, b)
                              /\ block_round[b] <= qc_round[x]
                              /\ block_round[b] < block_round[x]
    <2> TAKE x \in Rest(st, b)
    <2>1. x \in st.tree /\ x \in Block /\ x # Genesis /\ x \notin Path(st, b) /\ block_round[b] <= qc_round[x]
      BY StateFields, Rounds, <1>1 DEF Rest, TreeOk, Known
    <2> QED BY <1>1, <2>1, Rounds
  <1>4. t.tree \subseteq Known /\ t.coherent \subseteq t.tree /\ t.coherent \subseteq t.given
    BY <1>2 DEF TreeOk, Rest
  <1>5. \A x \in t.tree : block_round[t.root] < block_round[x] /\ qc_round[x] < t.round
    BY <1>2, <1>3 DEF TreeOk
  <1>6. ASSUME NEW x \in t.coherent, t.root \in ancestors[x] PROVE Path(t, x) \subseteq t.coherent
    <2>1. x \in st.coherent /\ x \in Block /\ b \in ancestors[x]
      BY <1>2, <1>6, StateFields
    <2>2. st.root \in ancestors[x]
      BY <1>1, <2>1, Transitive
    <2>3. Path(st, x) \subseteq st.coherent
      BY <2>1, <2>2 DEF TreeOk
    <2> SUFFICES ASSUME NEW y \in Path(t, x) PROVE y \in st.coherent /\ y \in Rest(st, b)
      BY <1>2
    <2>4. y \in ancestors[x] /\ y \notin ancestors[b] /\ y \in Block
      BY <1>2, <2>1, Rounds DEF Path
    <2>5. b \in ancestors[y] /\ b # y
      BY <1>1, <2>1, <2>4, Linear, SelfAncestor
    <2>6. y \notin ancestors[st.root] /\ y \notin Path(st, b)
      BY <1>1, <2>4, Transitive DEF Path
    <2>7. y \in st.coherent
      BY <2>3, <2>4, <2>6 DEF Path
    <2>8. qc_round[y] >= block_round[b]
      BY <1>1, <2>4, <2>5, AncestorRounds, Rounds
    <2> QED BY <2>6, <2>7, <2>8 DEF Rest, TreeOk
  <1>7. ASSUME NEW x \in Block, NEW y \in t.children[x] PROVE y \in t.tree /\ parent[y] = x
    <2>1. x \in Rest(st, b) \cup {b} /\ y \in st.children[x]
      BY <1>2 DEF ChildrenLeft
    <2>2. y \in st.tree /\ parent[y] = x /\ y \in Block /\ y # Genesis
      BY <2>1, StateFields DEF TreeOk, Known
    <2>3. block_round[b] <= block_round[x] /\ block_round[x] <= qc_round[y] /\ block_round[x] < block_round[y]
          /\ block_round[b] \in Nat /\ block_round[x] \in Nat /\ block_round[y] \in Nat /\ qc_round[y] \in Nat
      BY <1>1, <1>3, <2>1, <2>2, Rounds
    <2>4. y \notin ancestors[b]
      BY <1>1, <2>2, <2>3, AncestorRounds
    <2> QED BY <1>2, <2>2, <2>3, <2>4 DEF Rest, Path
  <1> QED BY <1>4, <1>5, <1>6, <1>7 DEF TreeOk

LEMMA PruneChain ==
    ASSUME BlocksOk, NEW st \in StateType, TreeOk(st), ChainOk(st), NEW b \in st.coherent,
           st.root \in ancestors[b], NEW t, t = Prune(st, b)
    PROVE  t.chain \in Seq(Block) /\ ChainOk(t) /\ Grows(st, t)
  <1> DEFINE k == Cardinality(Path(st, b))
             s == PathSequence(st, b)
             n == Len(st.chain)
  <1>1. b \in Block /\ b # st.root /\ st.root \in Block
    BY StateFields, Rounds DEF TreeOk
  <1>p. HasPath(st, b) /\ Path(st, b) \subseteq st.coherent
    BY DEF TreeOk, HasPath
  <1>2. t.root = b /\ t.chain = st.chain \o s /\ t.given = st.given
    BY <1>1, <1>p, PruneFields
  <1>3. /\ k \in Nat /\ k >= 1 /\ s = [i \in 1..k |-> s[i]]
        /\ \A i \in 1..k : s[i] \in Path(st, b) /\ s[i] \in Block
        /\ s[k] = b /\ parent[s[1]] = st.root
        /\ \A i \in 2..k : parent[s[i]] = s[i - 1]
    BY <1>1, PathSequenceOk
  <1>4. Path(st, b) \subseteq st.given
    BY DEF TreeOk
  <1>5. st.chain \in Seq(Block) /\ n \in Nat /\ n >= 1 /\ st.chain[n] = st.root
    BY StateFields DEF ChainOk
  <1> HIDE DEF s, k
  <1>6. s \in Seq(Block) /\ Len(s) = k
    BY <1>3
  <1>7. /\ t.chain \in Seq(Block) /\ Len(t.chain) = n + k
        /\ \A i \in 1..n : t.chain[i] = st.chain[i]
        /\ \A i \in n + 1..n + k : t.chain[i] = s[i - n]
    BY <1>2, <1>3, <1>5, <1>6
  <1> HIDE DEF n
  <1>8. /\ k \in Nat /\ k >= 1 /\ n \in Nat /\ n >= 1
        /\ \A i \in 1..k : s[i] \in Path(st, b)
        /\ s[k] = b /\ parent[s[1]] = st.root
        /\ \A i \in 2..k : parent[s[i]] = s[i - 1]
    BY <1>3, <1>5
  <1>9. ChainOk(t)
    <2>1. Len(t.chain) >= 1 /\ t.chain[Len(t.chain)] = t.root
      <3>1. n + k \in n + 1..n + k /\ (n + k) - n = k
        BY <1>8
      <3>2. t.chain[n + k] = s[k]
        BY <1>7, <3>1
      <3>3. Len(t.chain) >= 1
        BY <1>7, <1>8
      <3> QED BY <1>2, <1>7, <1>8, <3>2, <3>3
    <2>2. ASSUME NEW i \in 2..Len(t.chain) PROVE parent[t.chain[i]] = t.chain[i - 1]
      <3>1. CASE i <= n
        <4>1. i \in 2..Len(st.chain) /\ i \in 1..n /\ i - 1 \in 1..n
          BY <1>5, <3>1 DEF n
        <4> QED BY <1>7, <4>1 DEF ChainOk
      <3>2. CASE i = n + 1
        <4>1. i \in n + 1..n + k /\ i - n = 1 /\ i - 1 = n /\ n \in 1..n
          BY <1>8, <3>2
        <4> QED BY <1>5, <1>7, <1>8, <4>1
      <3>3. CASE i > n + 1
        <4>1. i \in n + 1..n + k /\ i - 1 \in n + 1..n + k /\ i - n \in 2..k /\ (i - 1) - n = (i - n) - 1
          BY <1>8, <1>7, <3>3
        <4>2. t.chain[i] = s[i - n] /\ t.chain[i - 1] = s[(i - n) - 1]
          BY <1>7, <4>1
        <4> QED BY <1>8, <4>1, <4>2
      <3> QED BY <1>7, <1>8, <3>1, <3>2, <3>3
    <2> QED BY <2>1, <2>2 DEF ChainOk
  <1>10. Grows(st, t)
    <2>1. ASSUME NEW i \in n + 1..n + k PROVE t.chain[i] \in t.given
      <3>1. i - n \in 1..k
        BY <1>8
      <3> QED BY <1>2, <1>4, <1>7, <1>8, <3>1
    <2>2. n = Len(st.chain) /\ Len(st.chain) <= Len(t.chain)
      BY <1>7, <1>8 DEF n
    <2> QED BY <1>2, <1>7, <2>1, <2>2 DEF Grows
  <1> QED BY <1>7, <1>9, <1>10

(* A failed assertion.                                                     *)
LEMMA PanicOk ==
    ASSUME NEW st, Fit(st), NEW p \in BOOLEAN, NEW t, t = [st EXCEPT !.panicked = p]
    PROVE  /\ Fit(t) /\ Step(st, t) /\ Untouched(st, t) /\ t.root = st.root /\ t.tree = st.tree
           /\ t.coherent = st.coherent /\ t.stopped = st.stopped /\ t.panicked = p
  <1>1. st \in StateType /\ TreeOk(st) /\ ChainOk(st) /\ RequestsOk(st)
    BY DEF Fit
  <1>2. /\ t.panicked = p /\ Untouched(st, t) /\ t.root = st.root /\ t.tree = st.tree
        /\ t.coherent = st.coherent /\ t.children = st.children /\ t.chain = st.chain
        /\ t.given = st.given /\ t.stopped = st.stopped
    BY <1>1 DEF Untouched, StateType
  <1>3. t \in StateType
    BY <1>1 DEF StateType
  <1>4. TreeOk(t) /\ ChainOk(t) /\ RequestsOk(t)
    BY <1>1, <1>2 DEF TreeOk, Path, ChainOk, RequestsOk, CanAsk, CanAdd, Untouched
  <1>5. Step(st, t)
    <2>1. st.round <= t.round
      BY <1>1, <1>2, StateFields DEF Untouched
    <2> QED BY <1>1, <1>2, <2>1, AliveUntouched, StepFrom
  <1> QED BY <1>2, <1>3, <1>4, <1>5 DEF Fit

LEMMA PruneOk ==
    ASSUME BlocksOk, NEW st, Fit(st), NEW b \in st.coherent, st.root \in ancestors[b],
           NEW t, t = Prune(st, b)
    PROVE  /\ Fit(t) /\ Step(st, t) /\ Untouched(st, t) /\ t.root = b /\ t.stopped = st.stopped
           /\ t.panicked = st.panicked /\ t.tree \subseteq st.tree
  <1>1. st \in StateType /\ TreeOk(st) /\ ChainOk(st) /\ RequestsOk(st) /\ st.panicked \in BOOLEAN
    BY StateFields DEF Fit
  <1>2. b \in Block /\ b # st.root /\ st.root \in Block
    BY <1>1, StateFields, Rounds DEF TreeOk
  <1>4. Path(st, b) \subseteq st.coherent /\ HasPath(st, b)
    BY <1>1 DEF TreeOk, HasPath
  <1>3. /\ t.root = b /\ t.tree = Rest(st, b) /\ t.coherent = st.coherent \cap Rest(st, b)
        /\ t.children = ChildrenLeft(st, b) /\ t.chain = st.chain \o PathSequence(st, b)
        /\ t.panicked = st.panicked
        /\ t.given = st.given /\ t.stopped = st.stopped
        /\ Untouched(st, t) /\ Whole(t)
    BY <1>1, <1>2, <1>4, PruneFields DEF Untouched
  <1>5. t.panicked = st.panicked /\ t.panicked \in BOOLEAN /\ t.tree \subseteq st.tree
    BY <1>1, <1>3 DEF Rest
  <1>6. TreeOk(t) /\ t.chain \in Seq(Block) /\ ChainOk(t) /\ Grows(st, t)
    BY <1>1, PruneTree, PruneChain
  <1>7. t \in StateType
    <2>1. /\ t.root \in Block /\ t.tree \subseteq Block /\ t.coherent \subseteq Block
          /\ t.children \in [Block -> SUBSET Block]
      BY <1>1, <1>2, <1>3, StateFields DEF Rest, ChildrenLeft
    <2>2. /\ t.round \in Nat /\ t.high \in [id : Block, round : Nat] /\ t.tc \in BOOLEAN
          /\ t.tip \in Block \cup {None} /\ t.requests \subseteq [last : Block, num : Nat, cancel : Nat]
          /\ t.sync \subseteq BlockRange /\ t.cancel \subseteq BlockRange /\ t.given \subseteq Block
          /\ t.stopped \in BOOLEAN
      BY <1>1, <1>3, StateFields, Zenon DEF Untouched
    <2> QED BY <1>3, <1>5, <1>6, <2>1, <2>2, StateFrom
  <1>8. RequestsOk(t)
    BY <1>1, <1>3 DEF RequestsOk, CanAsk, CanAdd, Untouched
  <1>9. ASSUME NEW x \in Block, Settled(st, x) PROVE Settled(t, x)
    <2>1. block_round[st.root] < block_round[b]
      BY <1>1 DEF TreeOk
    <2>2. block_round[x] \in Nat /\ qc_round[x] \in Nat /\ block_round[b] \in Nat /\ block_round[st.root] \in Nat
      BY <1>2, Rounds
    <2>3. CASE x \in st.tree
      <3>1. CASE x \in Path(st, b)
        <4>1. block_round[x] <= block_round[b]
          BY <1>2, <2>2, <3>1, AncestorRounds DEF Path
        <4> QED BY <1>3, <4>1 DEF Settled
      <3>2. CASE x \notin Path(st, b)
        BY <1>3, <2>2, <2>3, <3>2 DEF Settled, Rest
      <3> QED BY <3>1, <3>2
    <2>4. CASE x \notin st.tree
      BY <1>3, <1>9, <2>1, <2>2, <2>4 DEF Settled
    <2> QED BY <2>3, <2>4
  <1>10. Step(st, t)
    <2>1. st.round <= t.round
      BY <1>1, <1>3, StateFields DEF Untouched
    <2>2. \A L : Alive(st, L) => Alive(t, L)
      BY <1>3, AliveUntouched
    <2> QED BY <1>6, <1>9, <2>1, <2>2 DEF Step
  <1> QED BY <1>3, <1>5, <1>6, <1>7, <1>8, <1>10 DEF Fit

(* The root is below every coherent block that a QC commits: of two        *)
(* commitments one extends the other.                                      *)
LEMMA RootBelow ==
    ASSUME BlocksOk, WorldOk(world), Safe(world), NEW root \in Block, NEW R, RootOk(root, R), NEW q \in world.qcs,
           q.id # Genesis, Commits(q), block_round[root] < block_round[parent[q.id]]
    PROVE  root \in ancestors[parent[q.id]]
  <1>1. q.id \in Block /\ parent[q.id] \in Block
    BY Rounds DEF WorldOk
  <1>2. CASE root = Genesis
    BY <1>1, <1>2, GenesisAncestor
  <1>3. CASE root # Genesis
    <2>1. PICK c \in Commitments : c.id = root
      BY <1>3 DEF RootOk
    <2>2. PICK p \in world.qcs : p.id # Genesis /\ Commits(p) /\ c = BlockQc(p.id)
      BY <2>1 DEF Commitments
    <2>3. p.id \in Block /\ parent[p.id] = root /\ BlockQc(p.id) \in world.qcs /\ BlockQc(q.id) \in world.qcs
      BY <2>1, <2>2 DEF WorldOk, BlockQc
    <2>4. qc_round[p.id] \in Nat /\ qc_round[q.id] \in Nat
      BY <1>1, <2>3, Rounds
    <2>5. CASE qc_round[q.id] >= qc_round[p.id]
      <3>1. BlockQc(q.id).round = qc_round[q.id] /\ BlockQc(q.id).id = parent[q.id]
        BY DEF BlockQc
      <3> QED BY <2>2, <2>3, <2>5, <3>1 DEF Safe
    <2>6. CASE qc_round[p.id] >= qc_round[q.id]
      <3>1. BlockQc(p.id).round = qc_round[p.id] /\ BlockQc(p.id).id = root
        BY <2>3 DEF BlockQc
      <3>2. parent[q.id] \in ancestors[root]
        BY <2>3, <2>6, <3>1 DEF Safe
      <3> QED BY <1>1, <3>2, AncestorRounds, Rounds, SelfAncestor
    <2> QED BY <2>4, <2>5, <2>6
  <1> QED BY <1>2, <1>3

LEMMA TryCommitOk ==
    ASSUME BlocksOk, WorldOk(world), NEW st, Fit(st), NEW R \in Nat, RootOk(st.root, R),
           NEW q \in world.qcs, q.round < R, NEW t, t = TryCommit(st, q)
    PROVE  /\ Fit(t) /\ Step(st, t) /\ Untouched(st, t) /\ t.stopped = st.stopped /\ RootOk(t.root, R)
           /\ t.tree \subseteq st.tree /\ StaysCalm(st, t)
  <1>1. st \in StateType /\ TreeOk(st)
    BY DEF Fit
  <1>2. CASE ~(q.id \in st.tree /\ Commits(q) /\ IsCoherent(st, parent[q.id]) /\ parent[q.id] # st.root)
    <2>1. t = st
      BY <1>2 DEF TryCommit, Prune
    <2> QED BY <1>1, <2>1, StepSelf DEF Untouched, StaysCalm
  <1>3. CASE q.id \in st.tree /\ Commits(q) /\ IsCoherent(st, parent[q.id]) /\ parent[q.id] # st.root
    <2> DEFINE b == parent[q.id]
    <2>1. b \in st.coherent /\ q.id # Genesis /\ q.id \in Block /\ t = Prune(st, b)
      BY <1>1, <1>3, StateFields DEF IsCoherent, TreeOk, Known, TryCommit
    <2>2. block_round[st.root] < block_round[b]
      BY <1>1, <2>1 DEF TreeOk
    <2>3. CASE st.root \in ancestors[b]
      <3>1. /\ Fit(t) /\ Step(st, t) /\ Untouched(st, t) /\ t.root = b /\ t.stopped = st.stopped
            /\ t.panicked = st.panicked /\ t.tree \subseteq st.tree
        BY <2>1, <2>3, PruneOk
      <3>2. BlockQc(q.id) \in Commitments /\ BlockQc(q.id).id = b /\ BlockQc(q.id).round + 1 = q.round
        BY <1>3, <2>1 DEF Commitments, BlockQc, Commits
      <3>3. RootOk(t.root, R)
        BY <3>1, <3>2 DEF RootOk
      <3> QED BY <3>1, <3>3 DEF StaysCalm
    <2>4. CASE st.root \notin ancestors[b]
      <3>1. ~Safe(world)
        BY <1>1, <1>3, <2>1, <2>2, <2>4, RootBelow, StateFields
      <3>2. t = [st EXCEPT !.panicked = TRUE]
        BY <1>3, <2>1, <2>4 DEF Prune, HasPath
      <3>3. Fit(t) /\ Step(st, t) /\ Untouched(st, t) /\ t.root = st.root /\ t.stopped = st.stopped /\ t.tree = st.tree
        BY <3>2, PanicOk
      <3> QED BY <3>1, <3>3 DEF StaysCalm
    <2> QED BY <2>3, <2>4
  <1> QED BY <1>2, <1>3

LEMMA GoodKept ==
    ASSUME NEW s, NEW t, Good(s), Fit(t), Untouched(s, t), RootOk(t.root, s.round), StaysCalm(s, t)
    PROVE  Good(t)
  BY DEF Good, Untouched, TipOk, CanAdd, HighOk, Calm, HighAbove, StaysCalm

(* A failed assertion, which there is none of in a safe world.             *)
LEMMA PanicGood ==
    ASSUME NEW st, Good(st), NEW bad \in BOOLEAN, Safe(world) => ~bad,
           NEW t, t = [st EXCEPT !.panicked = @ \/ bad]
    PROVE  /\ Good(t) /\ Step(st, t) /\ Untouched(st, t) /\ t.root = st.root /\ t.tree = st.tree
           /\ t.coherent = st.coherent
  <1>1. Fit(st) /\ st \in StateType /\ st.panicked \in BOOLEAN /\ RootOk(st.root, st.round)
    BY StateFields DEF Good, Fit
  <1> DEFINE p == st.panicked \/ bad
  <1>2. p \in BOOLEAN /\ t = [st EXCEPT !.panicked = p]
    BY <1>1
  <1> HIDE DEF p
  <1>3. /\ Fit(t) /\ Step(st, t) /\ Untouched(st, t) /\ t.root = st.root /\ t.tree = st.tree
        /\ t.coherent = st.coherent /\ t.panicked = p
    BY <1>1, <1>2, PanicOk
  <1>4. StaysCalm(st, t)
    BY <1>3 DEF StaysCalm, p
  <1> QED BY <1>1, <1>3, <1>4, GoodKept

-----------------------------------------------------------------------------
(* Adding a block, and checking what it completes.                         *)

LEMMA AddOk ==
    ASSUME BlocksOk, NEW st, Fit(st), NEW b, CanAdd(st, b), NEW t, t = Add(st, b)
    PROVE  /\ Fit(t) /\ Step(st, t) /\ Untouched(st, t) /\ t.root = st.root /\ t.panicked = st.panicked
           /\ Settled(t, b)
  <1>1. st \in StateType /\ TreeOk(st) /\ ChainOk(st) /\ RequestsOk(st)
    BY DEF Fit
  <1>2. b \in Known /\ b \in Block /\ b # Genesis /\ qc_round[b] < st.round /\ block_round[b] \in Nat
        /\ block_round[st.root] \in Nat /\ st.root \in Block
    BY <1>1, Rounds, StateFields DEF CanAdd, Known
  <1>3. CASE ~IsValidToInsert(st, b)
    <2>1. t = st
      BY <1>3 DEF Add
    <2> QED BY <1>1, <1>2, <1>3, <2>1, StepSelf DEF Untouched, Settled, IsValidToInsert
  <1>4. CASE IsValidToInsert(st, b)
    <2>1. t = [st EXCEPT !.tree = st.tree \cup {b}, !.children = ChildrenWith(st, b)]
      BY <1>4 DEF Add
    <2>2. /\ t.tree = st.tree \cup {b} /\ t.children = ChildrenWith(st, b)
          /\ Untouched(st, t) /\ t.root = st.root /\ t.coherent = st.coherent /\ t.given = st.given
          /\ t.chain = st.chain /\ t.stopped = st.stopped /\ t.panicked = st.panicked /\ Whole(t)
      BY <1>1, <2>1 DEF Untouched, StateType, Whole
    <2>3. t \in StateType
      <3>1. t.tree \subseteq Block /\ t.children \in [Block -> SUBSET Block]
        BY <1>1, <1>2, <2>2, StateFields DEF ChildrenWith
      <3>2. /\ t.round \in Nat /\ t.high \in [id : Block, round : Nat] /\ t.tc \in BOOLEAN
            /\ t.tip \in Block \cup {None} /\ t.requests \subseteq [last : Block, num : Nat, cancel : Nat]
            /\ t.sync \subseteq BlockRange /\ t.cancel \subseteq BlockRange
        BY <1>1, <2>2, StateFields, Zenon DEF Untouched
      <3>3. /\ t.root \in Block /\ t.coherent \subseteq Block /\ t.given \subseteq Block
            /\ t.chain \in Seq(Block) /\ t.stopped \in BOOLEAN /\ t.panicked \in BOOLEAN
        BY <1>1, <2>2, StateFields, Zenon
      <3> QED BY <2>2, <3>1, <3>2, <3>3, StateFrom
    <2>4. TreeOk(t)
      <3>1. t.tree \subseteq Known /\ t.coherent \subseteq t.tree /\ t.coherent \subseteq t.given
        BY <1>1, <1>2, <2>2 DEF TreeOk
      <3>2. \A x \in t.tree : block_round[t.root] < block_round[x] /\ qc_round[x] < t.round
        BY <1>1, <1>2, <1>4, <2>2 DEF TreeOk, IsValidToInsert, Untouched
      <3>3. \A x \in t.coherent : t.root \in ancestors[x] => Path(t, x) \subseteq t.coherent
        BY <1>1, <2>2 DEF TreeOk, Path
      <3>4. ASSUME NEW x \in Block, NEW y \in t.children[x] PROVE y \in t.tree /\ parent[y] = x
        BY <1>1, <2>2 DEF TreeOk, ChildrenWith
      <3> QED BY <3>1, <3>2, <3>3, <3>4 DEF TreeOk
    <2>5. ChainOk(t) /\ RequestsOk(t)
      BY <1>1, <2>2 DEF ChainOk, RequestsOk, CanAsk, CanAdd, Untouched
    <2>6. Step(st, t)
      <3>1. st.round <= t.round
        BY <1>1, <2>2, StateFields DEF Untouched
      <3> QED BY <1>1, <2>2, <3>1, AliveUntouched, StepFrom
    <2> QED BY <2>2, <2>3, <2>4, <2>5, <2>6 DEF Fit, Settled
  <1> QED BY <1>3, <1>4

(* Checked blocks hang together down to the first of them.                 *)
LEMMA CheckedClosed ==
    ASSUME BlocksOk, NEW st, NEW first \in Block, NEW S \in SUBSET Below(st, first), Checked(st, first, S)
    PROVE  \A x \in Block : x \in S => \A y \in ancestors[x] : first \in ancestors[y] => y \in S
  <1> DEFINE P(x) == x \in S => \A y \in ancestors[x] : first \in ancestors[y] => y \in S
             T == {x \in Block : P(x)}
  <1>1. Genesis \in T
    BY DEF BlocksOk
  <1>2. ASSUME NEW x \in Block \ {Genesis}, parent[x] \in T PROVE x \in T
    <2> SUFFICES ASSUME x \in S, NEW y \in ancestors[x], first \in ancestors[y] PROVE y \in S
      OBVIOUS
    <2>1. Reached(st, first, S, x)
      BY DEF Checked
    <2>2. CASE y = x
      BY <2>2
    <2>3. CASE y # x
      <3>1. y \in ancestors[parent[x]] /\ y \in Block
        BY <2>3, Rounds
      <3>2. x # first
        BY <2>3, Antisymmetric, <3>1
      <3>3. parent[x] \in S
        BY <2>1, <3>2 DEF Reached
      <3> QED BY <1>2, <3>1, <3>3
    <2> QED BY <2>2, <2>3
  <1> HIDE DEF T
  <1>3. \A x \in Block : x \in T
    BY <1>1, <1>2, ChainInduction
  <1> QED BY <1>3 DEF T

LEMMA UpdateCoherencyOk ==
    ASSUME BlocksOk, NEW st, Fit(st), NEW b \in Block, NEW t \in UpdateCoherency(st, b)
    PROVE  /\ Fit(t) /\ Step(st, t) /\ Untouched(st, t) /\ t.root = st.root /\ t.tree = st.tree
           /\ t.panicked = st.panicked
  <1>1. st \in StateType /\ TreeOk(st) /\ ChainOk(st) /\ RequestsOk(st)
    BY DEF Fit
  <1>2. CASE ~HasPath(st, b) \/ Path(st, b) \subseteq st.coherent
    <2>1. t = st
      BY <1>2 DEF UpdateCoherency
    <2> QED BY <1>1, <2>1, StepSelf DEF Untouched
  <1>3. CASE ~(~HasPath(st, b) \/ Path(st, b) \subseteq st.coherent)
    <2> DEFINE first == FirstIncoherent(st, b)
    <2>1. PICK S \in SUBSET Below(st, first) :
            /\ Checked(st, first, S)
            /\ t = [st EXCEPT
                      !.coherent = @ \cup S,
                      !.given = @ \cup S,
                      !.panicked = @ \/ \E x \in S : ~(st.children[x] \subseteq st.tree)]
      BY <1>3 DEF UpdateCoherency
    <2>2. \A x \in S : x \in st.tree /\ x \in Block /\ first \in ancestors[x]
      BY <1>1, <2>1, StateFields DEF Below
    <2>3. ~ \E x \in S : ~(st.children[x] \subseteq st.tree)
      BY <1>1, <2>2 DEF TreeOk
    <2>4. /\ t.coherent = st.coherent \cup S /\ t.given = st.given \cup S
          /\ t.panicked = (st.panicked \/ \E x \in S : ~(st.children[x] \subseteq st.tree))
          /\ Untouched(st, t) /\ t.root = st.root /\ t.tree = st.tree /\ t.children = st.children
          /\ t.chain = st.chain /\ t.stopped = st.stopped /\ Whole(t)
      BY <1>1, <2>1 DEF Untouched, StateType, Whole
    <2>5. t.panicked = st.panicked /\ t.panicked \in BOOLEAN
      BY <1>1, <2>3, <2>4, StateFields
    <2>6. t \in StateType
      <3>1. t.coherent \subseteq Block /\ t.given \subseteq Block
        BY <1>1, <2>2, <2>4, StateFields
      <3>2. /\ t.round \in Nat /\ t.high \in [id : Block, round : Nat] /\ t.tc \in BOOLEAN
            /\ t.tip \in Block \cup {None} /\ t.requests \subseteq [last : Block, num : Nat, cancel : Nat]
            /\ t.sync \subseteq BlockRange /\ t.cancel \subseteq BlockRange
        BY <1>1, <2>4, StateFields, Zenon DEF Untouched
      <3>3. /\ t.root \in Block /\ t.tree \subseteq Block /\ t.children \in [Block -> SUBSET Block]
            /\ t.chain \in Seq(Block) /\ t.stopped \in BOOLEAN
        BY <1>1, <2>4, StateFields, Zenon
      <3> QED BY <2>4, <2>5, <3>1, <3>2, <3>3, StateFrom
    <2>7. st.root \in ancestors[b] /\ Path(st, b) \subseteq st.tree /\ Path(st, b) \ st.coherent # {}
          /\ Path(st, b) \ st.coherent \in SUBSET ancestors[b]
      BY <1>3 DEF HasPath, Path
    <2>8. first \in Path(st, b) \ st.coherent /\ \A y \in Path(st, b) \ st.coherent : first \in ancestors[y]
      BY <2>7, ChainMin DEF FirstIncoherent
    <2>9. first \in Block /\ first \in ancestors[b] /\ first \notin ancestors[st.root] /\ st.root \in Block
      BY <1>1, <2>8, Rounds, StateFields DEF Path
    <2> HIDE DEF first
    <2>10. ASSUME NEW x \in t.coherent, t.root \in ancestors[x] PROVE Path(t, x) \subseteq t.coherent
      <3>1. CASE x \in st.coherent
        BY <1>1, <2>4, <2>10, <3>1 DEF TreeOk, Path
      <3>2. CASE x \in S
        <4> SUFFICES ASSUME NEW y \in Path(st, x) PROVE y \in st.coherent \cup S
          BY <2>4 DEF Path
        <4>1. x \in Block /\ first \in ancestors[x] /\ y \in ancestors[x] /\ y \in Block /\ y \notin ancestors[st.root]
          BY <2>2, <3>2, Rounds DEF Path
        <4>2. CASE first \in ancestors[y]
          BY <2>1, <2>9, <3>2, <4>1, <4>2, CheckedClosed
        <4>3. CASE first \notin ancestors[y]
          <5>1. y \in ancestors[first]
            BY <4>1, <4>3, Linear
          <5>2. y \in Path(st, b)
            BY <2>9, <4>1, <5>1, Transitive DEF Path
          <5> QED BY <2>8, <4>3, <5>2
        <4> QED BY <4>2, <4>3
      <3> QED BY <2>4, <3>1, <3>2
    <2>11. TreeOk(t)
      <3>1. t.tree \subseteq Known /\ t.coherent \subseteq t.tree /\ t.coherent \subseteq t.given
        BY <1>1, <2>2, <2>4 DEF TreeOk
      <3>2. \A x \in t.tree : block_round[t.root] < block_round[x] /\ qc_round[x] < t.round
        BY <1>1, <2>4 DEF TreeOk, Untouched
      <3>3. \A x \in Block : \A y \in t.children[x] : y \in t.tree /\ parent[y] = x
        BY <1>1, <2>4 DEF TreeOk
      <3> QED BY <2>10, <3>1, <3>2, <3>3 DEF TreeOk
    <2>12. ChainOk(t) /\ RequestsOk(t)
      BY <1>1, <2>4 DEF ChainOk, RequestsOk, CanAsk, CanAdd, Untouched
    <2>13. Step(st, t)
      <3>1. st.round <= t.round
        BY <1>1, <2>4, StateFields DEF Untouched
      <3> QED BY <1>1, <2>4, <3>1, AliveUntouched, StepFrom
    <2> QED BY <2>4, <2>5, <2>6, <2>11, <2>12, <2>13 DEF Fit
  <1> QED BY <1>2, <1>3

LEMMA UpdateProposedHeadOk ==
    ASSUME BlocksOk, NEW st, Fit(st), NEW t \in UpdateProposedHead(st)
    PROVE  /\ Fit(t) /\ Step(st, t) /\ Untouched(st, t) /\ t.root = st.root /\ t.tree = st.tree
           /\ t.panicked = st.panicked
  <1>1. st \in StateType /\ TreeOk(st) /\ ChainOk(st) /\ RequestsOk(st)
    BY DEF Fit
  <1>2. PICK x : t = IF x \in st.tree THEN [st EXCEPT !.given = @ \cup {x}] ELSE st
    BY DEF UpdateProposedHead
  <1>3. CASE x \notin st.tree
    <2>1. t = st
      BY <1>2, <1>3
    <2> QED BY <1>1, <2>1, StepSelf DEF Untouched
  <1>4. CASE x \in st.tree
    <2>1. /\ t.given = st.given \cup {x} /\ Untouched(st, t) /\ t.root = st.root /\ t.tree = st.tree
          /\ t.coherent = st.coherent /\ t.children = st.children /\ t.chain = st.chain
          /\ t.stopped = st.stopped /\ t.panicked = st.panicked /\ Whole(t)
      BY <1>1, <1>2, <1>4 DEF Untouched, StateType, Whole
    <2>2. t \in StateType
      <3>1. t.given \subseteq Block
        BY <1>1, <1>4, <2>1, StateFields
      <3>2. /\ t.round \in Nat /\ t.high \in [id : Block, round : Nat] /\ t.tc \in BOOLEAN
            /\ t.tip \in Block \cup {None} /\ t.requests \subseteq [last : Block, num : Nat, cancel : Nat]
            /\ t.sync \subseteq BlockRange /\ t.cancel \subseteq BlockRange
        BY <1>1, <2>1, StateFields, Zenon DEF Untouched
      <3>3. /\ t.root \in Block /\ t.tree \subseteq Block /\ t.children \in [Block -> SUBSET Block]
            /\ t.coherent \subseteq Block /\ t.chain \in Seq(Block)
            /\ t.stopped \in BOOLEAN /\ t.panicked \in BOOLEAN
        BY <1>1, <2>1, StateFields, Zenon
      <3> QED BY <2>1, <3>1, <3>2, <3>3, StateFrom
    <2>3. TreeOk(t)
      BY <1>1, <2>1 DEF TreeOk, Path, Untouched
    <2>4. ChainOk(t) /\ RequestsOk(t)
      BY <1>1, <2>1 DEF ChainOk, RequestsOk, CanAsk, CanAdd, Untouched
    <2>5. Step(st, t)
      <3>1. st.round <= t.round
        BY <1>1, <2>1, StateFields DEF Untouched
      <3> QED BY <1>1, <2>1, <3>1, AliveUntouched, StepFrom
    <2> QED BY <2>1, <2>2, <2>3, <2>4, <2>5 DEF Fit
  <1> QED BY <1>3, <1>4

(* get_high_committable_qc finds a QC of the latest round.                 *)
LEMMA HighestCommittable ==
    ASSUME BlocksOk, NEW st, Fit(st), Committable(st) # {},
           NEW q, q = CHOOSE c \in Committable(st) : \A p \in Committable(st) : p.round <= c.round
    PROVE  q \in world.qcs /\ q.round < st.round
  <1> DEFINE D == {st.round - p.round : p \in Committable(st)}
  <1>1. st \in StateType /\ TreeOk(st) /\ st.round \in Nat
    BY StateFields DEF Fit
  <1>2. ASSUME NEW p \in Committable(st)
        PROVE  p \in world.qcs /\ p.round \in Nat /\ p.round < st.round
    <2>1. PICK x \in st.tree : p = BlockQc(x)
      BY DEF Committable
    <2>2. x \in Known /\ x \in Block /\ qc_round[x] < st.round
      BY <1>1, <2>1, StateFields DEF TreeOk
    <2>3. p.round = qc_round[x] /\ p \in world.qcs
      BY <2>1, <2>2 DEF Known, BlockQc
    <2> QED BY <2>2, <2>3, Rounds
  <1>3. D \in SUBSET Nat /\ D # {}
    BY <1>1, <1>2
  <1>4. PICK n \in D : \A m \in D : n <= m
    BY <1>3, LeastNumber
  <1>5. PICK c \in Committable(st) : n = st.round - c.round
    BY <1>4
  <1>6. ASSUME NEW p \in Committable(st) PROVE p.round <= c.round
    <2>1. st.round - c.round <= st.round - p.round
      BY <1>4, <1>5
    <2> QED BY <1>1, <1>2, <2>1
  <1>7. q \in Committable(st)
    BY <1>5, <1>6
  <1> QED BY <1>2, <1>7

LEMMA TryCommitHighOk ==
    ASSUME BlocksOk, WorldOk(world), NEW st, Good(st), NEW t, t = TryCommitHigh(st)
    PROVE  Good(t) /\ Step(st, t) /\ Untouched(st, t) /\ t.tree \subseteq st.tree
  <1>1. Fit(st) /\ st \in StateType /\ TreeOk(st) /\ st.round \in Nat
    BY StateFields DEF Fit, Good
  <1> DEFINE bad == \E x \in st.tree \cup {st.root} : HasPath(st, x) /\ ~(st.children[x] \subseteq st.tree)
             s2 == [st EXCEPT !.panicked = @ \/ bad]
             q == CHOOSE q \in Committable(st) : \A p \in Committable(st) : p.round <= q.round
  <1>2. bad \in BOOLEAN /\ ~bad
    BY <1>1, StateFields DEF TreeOk
  <1>3. t = IF Committable(st) = {} THEN s2 ELSE TryCommit(s2, q)
    BY DEF TryCommitHigh
  <1>4. /\ Good(s2) /\ Step(st, s2) /\ Untouched(st, s2) /\ s2.tree = st.tree
    <2> HIDE DEF bad
    <2> QED BY <1>2, PanicGood
  <1> HIDE DEF s2, q
  <1>5. CASE Committable(st) = {}
    BY <1>3, <1>4, <1>5
  <1>6. CASE Committable(st) # {}
    <2>1. t = TryCommit(s2, q)
      BY <1>3, <1>6
    <2>2. q \in world.qcs /\ q.round < st.round
      BY <1>1, <1>6, HighestCommittable DEF q
    <2>3. Fit(s2) /\ RootOk(s2.root, st.round) /\ s2.round = st.round /\ s2 \in StateType
      BY <1>4 DEF Good, Fit, Untouched
    <2>4. /\ Fit(t) /\ Step(s2, t) /\ Untouched(s2, t) /\ RootOk(t.root, st.round)
          /\ t.tree \subseteq s2.tree /\ StaysCalm(s2, t)
      BY <1>1, <2>1, <2>2, <2>3, TryCommitOk
    <2>5. Good(t) /\ t \in StateType
      BY <1>4, <2>3, <2>4, GoodKept DEF Good, Fit
    <2>6. Step(st, t)
      BY <1>1, <1>4, <2>3, <2>4, <2>5, StepTransitive
    <2> QED BY <1>4, <2>4, <2>5, <2>6 DEF Untouched
  <1> QED BY <1>5, <1>6

(* The coherency of a block, the proposed head and what can be committed.  *)
LEMMA TryUpdateCoherencyOk ==
    ASSUME BlocksOk, WorldOk(world), NEW st, Good(st), NEW b \in Block, NEW t \in TryUpdateCoherency(st, b)
    PROVE  Good(t) /\ Step(st, t) /\ Untouched(st, t) /\ t.tree \subseteq st.tree
  <1>1. Fit(st) /\ st \in StateType
    BY DEF Good, Fit
  <1>2. PICK c \in UpdateCoherency(st, b) : \E s \in UpdateProposedHead(c) : t = TryCommitHigh(s)
    BY DEF TryUpdateCoherency
  <1>3. PICK s \in UpdateProposedHead(c) : t = TryCommitHigh(s)
    BY <1>2
  <1>4. /\ Fit(c) /\ Step(st, c) /\ Untouched(st, c) /\ c.root = st.root /\ c.tree = st.tree
        /\ c.panicked = st.panicked
    BY <1>1, <1>2, UpdateCoherencyOk
  <1>5. Good(c)
    BY <1>4, GoodKept DEF Good, StaysCalm
  <1>6. /\ Fit(s) /\ Step(c, s) /\ Untouched(c, s) /\ s.root = c.root /\ s.tree = c.tree
        /\ s.panicked = c.panicked
    BY <1>3, <1>4, UpdateProposedHeadOk
  <1>7. Good(s)
    BY <1>5, <1>6, GoodKept DEF Good, StaysCalm
  <1>8. Good(t) /\ Step(s, t) /\ Untouched(s, t) /\ t.tree \subseteq s.tree
    BY <1>3, <1>7, TryCommitHighOk
  <1>9. c \in StateType /\ s \in StateType /\ t \in StateType
    BY <1>4, <1>6, <1>8 DEF Good, Fit
  <1>10. Step(c, t)
    BY <1>6, <1>8, <1>9, StepTransitive
  <1>11. Step(st, t)
    BY <1>1, <1>4, <1>9, <1>10, StepTransitive
  <1> QED BY <1>4, <1>6, <1>8, <1>11 DEF Untouched

-----------------------------------------------------------------------------
(* Requests.                                                               *)

LEMMA RequestOk ==
    ASSUME BlocksOk, NEW st, Fit(st), NEW range \in BlockRange, CanAsk(st, range.last), range.num >= 1,
           NEW c \in Nat, ~Requested(st, range.last), NEW t, t = Request(st, range, c)
    PROVE  /\ Fit(t) /\ Step(st, t) /\ Requested(t, range.last)
           /\ t.round = st.round /\ t.high = st.high /\ t.tc = st.tc /\ t.tip = st.tip
           /\ t.root = st.root /\ t.tree = st.tree /\ t.panicked = st.panicked
           /\ st.requests \subseteq t.requests
  <1> DEFINE new == [last |-> range.last, num |-> range.num, cancel |-> c]
  <1>1. st \in StateType /\ TreeOk(st) /\ ChainOk(st) /\ RequestsOk(st)
    BY DEF Fit
  <1>2. /\ t.requests = st.requests \cup {new} /\ t.sync = st.sync \cup {range}
        /\ t.round = st.round /\ t.high = st.high /\ t.tc = st.tc /\ t.tip = st.tip /\ t.cancel = st.cancel
        /\ t.root = st.root /\ t.tree = st.tree /\ t.coherent = st.coherent /\ t.children = st.children
        /\ t.given = st.given /\ t.chain = st.chain
        /\ t.stopped = st.stopped /\ t.panicked = st.panicked /\ Whole(t)
    BY <1>1 DEF Request, StateType, Whole
  <1>3. /\ range.last \in Block /\ range.num \in Nat /\ new.last = range.last /\ new.num = range.num
        /\ new \in [last : Block, num : Nat, cancel : Nat]
    BY DEF BlockRange
  <1> HIDE DEF new
  <1>4. t \in StateType
    <2>1. t.requests \subseteq [last : Block, num : Nat, cancel : Nat] /\ t.sync \subseteq BlockRange
      <3>1. st.requests \subseteq [last : Block, num : Nat, cancel : Nat] /\ st.sync \subseteq BlockRange
        BY <1>1, StateFields
      <3> QED BY <1>2, <1>3, <3>1, Zenon
    <2>2. /\ t.round \in Nat /\ t.high \in [id : Block, round : Nat] /\ t.tc \in BOOLEAN
          /\ t.tip \in Block \cup {None} /\ t.cancel \subseteq BlockRange /\ t.given \subseteq Block
      BY <1>1, <1>2, StateFields, Zenon
    <2>3. /\ t.root \in Block /\ t.tree \subseteq Block /\ t.children \in [Block -> SUBSET Block]
          /\ t.coherent \subseteq Block /\ t.chain \in Seq(Block)
          /\ t.stopped \in BOOLEAN /\ t.panicked \in BOOLEAN
      BY <1>1, <1>2, StateFields, Zenon
    <2> QED BY <1>2, <2>1, <2>2, <2>3, StateFrom
  <1>5. TreeOk(t) /\ ChainOk(t)
    BY <1>1, <1>2 DEF TreeOk, ChainOk, Path
  <1>6. RequestsOk(t)
    <2>1. \A r \in t.requests \cup t.sync : CanAsk(t, r.last) /\ r.num >= 1
      BY <1>1, <1>2, <1>3 DEF RequestsOk, CanAsk, CanAdd
    <2>2. \A r, p \in t.requests : r.last = p.last => r = p
      BY <1>1, <1>2, <1>3 DEF RequestsOk, Requested
    <2> QED BY <2>1, <2>2 DEF RequestsOk
  <1>7. \A L : Alive(st, L) => Alive(t, L)
    BY <1>2, <1>3 DEF Alive
  <1>8. Step(st, t)
    <2>1. st.round <= t.round
      BY <1>1, <1>2, StateFields
    <2> QED BY <1>1, <1>2, <1>7, <2>1, StepFrom
  <1>9. Requested(t, range.last)
    BY <1>2, <1>3 DEF Requested
  <1> QED BY <1>2, <1>4, <1>5, <1>6, <1>8, <1>9 DEF Fit

LEMMA HighType ==
    ASSUME WorldOk(world), NEW st, Good(st)
    PROVE  /\ st \in StateType /\ st.root \in Block /\ st.high.id \in Block /\ st.high.round \in Nat
           /\ st.high \in world.qcs /\ block_round[st.high.id] <= st.high.round
           /\ st.round \in Nat /\ st.high.round < st.round
  <1>1. st \in StateType /\ st.high \in world.qcs /\ st.high.round < st.round
    BY DEF Good, Fit, HighOk
  <1> QED BY <1>1, StateFields DEF WorldOk

(* Where commits are extended, the root is below the block of the highest  *)
(* QC.                                                                     *)
LEMMA RootBelowHigh ==
    ASSUME BlocksOk, WorldOk(world), Safe(world), NEW st, Good(st)
    PROVE  st.root \in ancestors[st.high.id]
  <1>1. st.high.id \in Block
    BY HighType
  <1> QED BY <1>1, GenesisAncestor DEF Good, RootOk, Calm, HighAbove

(* The block that would be asked for: not in the tree, and of the chain of *)
(* certified blocks; above the root where commits are extended.            *)
LEMMA LastMissingOk ==
    ASSUME BlocksOk, WorldOk(world), NEW st, Good(st), ~NoGap(st)
    PROVE  LET x == LastMissing(st) IN
           /\ CanAsk(st, x) /\ x \in ancestors[st.high.id] /\ x \notin st.tree /\ x \in Certified
           /\ x \in Missing(st) /\ \A z \in Missing(st) : z \in ancestors[x]
           /\ Safe(world) => st.root \in ancestors[x] /\ x # st.root
  <1> DEFINE x == LastMissing(st)
  <1>1. /\ st \in StateType /\ st.high.id \in Block /\ st.root \in Block /\ Genesis \in Block
        /\ st.high \in world.qcs /\ block_round[st.high.id] <= st.high.round
        /\ st.high.round < st.round /\ st.round \in Nat /\ st.high.round \in Nat
    BY HighType DEF BlocksOk
  <1>2. Missing(st) \in SUBSET ancestors[st.high.id]
    BY DEF Missing
  <1>3. ASSUME st.root \in ancestors[st.high.id]
        PROVE  \E y \in Missing(st) : y \notin ancestors[st.root]
    BY <1>1, <1>3, SelfAncestor DEF NoGap, HasPath, Missing, Path
  <1>4. ASSUME st.root \notin ancestors[st.high.id] PROVE Genesis \in Missing(st)
    <2>1. Genesis \in ancestors[st.high.id]
      BY <1>1, GenesisAncestor
    <2>2. Genesis \notin st.tree
      BY DEF Good, Fit, TreeOk, Known
    <2> QED BY <1>4, <2>1, <2>2 DEF Missing
  <1>5. x \in Missing(st) /\ \A z \in Missing(st) : z \in ancestors[x]
    <2>1. Missing(st) # {}
      BY <1>3, <1>4
    <2> QED BY <1>1, <1>2, <2>1, ChainMax DEF LastMissing
  <1>6. x \in ancestors[st.high.id] /\ x \notin st.tree /\ x # st.root /\ x \in Block
    BY <1>1, <1>5, Rounds DEF Missing
  <1>7. ASSUME Safe(world) PROVE st.root \in ancestors[x]
    <2>1. st.root \in ancestors[st.high.id]
      BY <1>7, RootBelowHigh
    <2>2. PICK y \in Missing(st) : y \notin ancestors[st.root]
      BY <1>3, <2>1
    <2>3. x \notin ancestors[st.root]
      BY <1>1, <1>5, <2>2, Transitive
    <2> QED BY <1>1, <1>6, <2>1, <2>3, Linear
  <1> HIDE DEF x
  <1>8. x \in Certified /\ (x # Genesis => BlockQc(x) \in world.qcs /\ qc_round[x] < block_round[st.high.id])
    <2>1. \E q \in world.qcs : q.id = st.high.id
      BY <1>1
    <2>2. /\ \E q \in world.qcs : q.id = x
          /\ x # Genesis => BlockQc(x) \in world.qcs /\ qc_round[x] < block_round[st.high.id]
      BY <1>1, <1>6, <2>1, CertifiedAncestors
    <2> QED BY <2>2 DEF Certified
  <1>9. CanAsk(st, x)
    <2> SUFFICES ASSUME x # Genesis PROVE CanAdd(st, x)
      BY DEF CanAsk
    <2>1. qc_round[x] \in Nat /\ block_round[st.high.id] \in Nat
      BY <1>1, <1>6, Rounds
    <2>2. qc_round[x] < st.round
      BY <1>1, <1>8, <2>1
    <2> QED BY <1>6, <1>8, <2>2 DEF CanAdd, Known
  <1> QED BY <1>5, <1>6, <1>7, <1>8, <1>9 DEF x

(* The distance to the root is no less than one.                           *)
LEMMA GapFits ==
    ASSUME BlocksOk, WorldOk(world), NEW st, Good(st), ~NoGap(st)
    PROVE  /\ Gap(st) \in BlockRange /\ Gap(st).last = LastMissing(st) /\ Gap(st).num >= 1
           /\ Safe(world) => \A x \in Lowest(st) : seq_num[st.root] <= seq_num[x]
  <1>1. /\ CanAsk(st, LastMissing(st))
        /\ Safe(world) => st.root \in ancestors[LastMissing(st)]
    BY LastMissingOk
  <1>2. /\ st.high.id \in Block /\ st.root \in Block /\ st.high \in world.qcs
    BY HighType
  <1>3. LastMissing(st) \in Block
    BY <1>1 DEF CanAsk, CanAdd, Known, BlocksOk
  <1>4. ASSUME NEW x \in Lowest(st)
        PROVE  x \in Block /\ (Safe(world) => seq_num[st.root] <= seq_num[x])
    <2>1. x \in ancestors[st.high.id] /\ parent[x] = LastMissing(st) /\ x \in Block /\ x \in st.tree
      BY <1>2, Rounds DEF Lowest
    <2>2. x # Genesis
      BY <2>1 DEF Good, Fit, TreeOk, Known
    <2>3. Safe(world) => st.root \in ancestors[x]
      BY <1>1, <2>1, <2>2, Rounds
    <2>4. \E q \in world.qcs : q.id = st.high.id
      BY <1>2
    <2>5. \E q \in world.qcs : q.id = x
      BY <1>2, <2>1, <2>4, CertifiedAncestors
    <2> QED BY <2>1, <2>3, <2>5, CertifiedAncestors
  <1>5. CASE Lowest(st) = {}
    BY <1>3, <1>5 DEF Gap, BlockRange
  <1>6. CASE Lowest(st) # {}
    <2> DEFINE x == CHOOSE x \in Lowest(st) : TRUE
               a == seq_num[x] - seq_num[st.root]
               m == Max({a, 2})
    <2>1. x \in Lowest(st)
      BY <1>6
    <2>2. a \in Int
      BY <1>2, <1>4, <2>1, Rounds
    <2> HIDE DEF x, a
    <2>3. m = CHOOSE z \in {a, 2} : \A y \in {a, 2} : z >= y
      BY DEF Max
    <2>4. \E z \in {a, 2} : \A y \in {a, 2} : z >= y
      BY <2>2
    <2>5. m \in {a, 2} /\ m >= 2
      BY <2>3, <2>4
    <2> HIDE DEF m
    <2>6. m - 1 \in Nat /\ m - 1 >= 1
      BY <2>2, <2>5
    <2>7. Gap(st) = [last |-> LastMissing(st), num |-> m - 1]
      BY <1>6 DEF Gap, m, a, x
    <2> QED BY <1>3, <1>4, <2>6, <2>7 DEF BlockRange
  <1> QED BY <1>4, <1>5, <1>6

(* The two kinds of requests leave what GoodKept needs.                    *)
LEMMA GoodRequest ==
    ASSUME NEW s, NEW t, Good(s), Fit(t), t.round = s.round, t.high = s.high, t.tip = s.tip, t.root = s.root,
           t.panicked = s.panicked
    PROVE  Good(t)
  BY DEF Good, TipOk, CanAdd, HighOk, Calm, HighAbove

LEMMA RequestBlocksOk ==
    ASSUME BlocksOk, WorldOk(world), NEW st, Good(st), NEW t, t = RequestBlocksIfMissingAncestor(st)
    PROVE  Good(t) /\ Step(st, t) /\ GapOk(t)
  <1>1. Fit(st) /\ st \in StateType
    BY DEF Good, Fit
  <1>2. CASE NoGap(st)
    <2>1. t = st
      BY <1>2 DEF RequestBlocksIfMissingAncestor
    <2> QED BY <1>1, <1>2, <2>1, StepSelf DEF GapOk
  <1>3. CASE ~NoGap(st)
    <2> DEFINE bad == \E x \in Lowest(st) : seq_num[x] < seq_num[st.root]
               s2 == [st EXCEPT !.panicked = @ \/ bad]
    <2>1. /\ Gap(st) \in BlockRange /\ Gap(st).last = LastMissing(st) /\ Gap(st).num >= 1
          /\ Safe(world) => \A x \in Lowest(st) : seq_num[st.root] <= seq_num[x]
      BY <1>3, GapFits
    <2>2. bad \in BOOLEAN /\ (Safe(world) => ~bad)
      <3> SUFFICES ASSUME Safe(world), NEW x \in Lowest(st), seq_num[x] < seq_num[st.root] PROVE FALSE
        OBVIOUS
      <3>1. x \in Block /\ st.root \in Block
        BY <1>1, StateFields DEF Lowest
      <3>2. seq_num[x] \in Nat /\ seq_num[st.root] \in Nat
        BY <3>1, Rounds
      <3> QED BY <2>1, <3>2
    <2>3. Good(s2) /\ Step(st, s2) /\ Untouched(st, s2) /\ s2.root = st.root /\ s2.tree = st.tree
      <3> HIDE DEF bad
      <3> QED BY <2>2, PanicGood
    <2>4. t = IF Requested(st, Gap(st).last) THEN s2 ELSE Request(s2, Gap(st), st.high.round)
      BY <1>3 DEF RequestBlocksIfMissingAncestor
    <2> HIDE DEF s2
    <2>5. Fit(s2) /\ s2 \in StateType
      BY <2>3 DEF Good, Fit
    <2>6. CASE Requested(st, Gap(st).last)
      <3>1. t = s2
        BY <2>4, <2>6
      <3>2. LastMissing(s2) = LastMissing(st) /\ Gap(s2).last = LastMissing(s2) /\ s2.requests = st.requests
        BY <2>3 DEF LastMissing, Missing, Gap, Untouched
      <3>3. Requested(s2, Gap(s2).last)
        BY <2>1, <2>6, <3>2 DEF Requested
      <3> QED BY <2>3, <3>1, <3>3 DEF GapOk
    <2>7. CASE ~Requested(st, Gap(st).last)
      <3>1. t = Request(s2, Gap(st), st.high.round) /\ st.high.round \in Nat
        BY <2>4, <2>7, HighType
      <3>2. CanAsk(s2, Gap(st).last) /\ ~Requested(s2, Gap(st).last)
        BY <1>3, <2>1, <2>3, <2>7, LastMissingOk DEF CanAsk, CanAdd, Requested, Untouched
      <3>3. /\ Fit(t) /\ Step(s2, t) /\ Requested(t, Gap(st).last)
            /\ t.round = s2.round /\ t.high = s2.high /\ t.tc = s2.tc /\ t.tip = s2.tip
            /\ t.root = s2.root /\ t.tree = s2.tree /\ t.panicked = s2.panicked
        BY <2>1, <2>5, <3>1, <3>2, RequestOk
      <3>4. Good(t) /\ t \in StateType
        BY <2>3, <3>3, GoodRequest DEF Fit
      <3>5. LastMissing(t) = LastMissing(st) /\ Gap(t).last = LastMissing(t)
        BY <2>3, <3>3 DEF LastMissing, Missing, Gap, Untouched
      <3>6. Step(st, t)
        BY <1>1, <2>3, <2>5, <3>3, <3>4, StepTransitive
      <3> QED BY <2>1, <3>3, <3>4, <3>5, <3>6 DEF GapOk
    <2> QED BY <2>6, <2>7
  <1> QED BY <1>2, <1>3

(* Commits close no gap that is not on request: the block asked for stays  *)
(* the last one missing.                                                   *)
LEMMA GapKept ==
    ASSUME BlocksOk, WorldOk(world), NEW s, NEW t, Good(s), Good(t), Step(s, t), t.high = s.high, t.tc = s.tc,
           t.tree \subseteq s.tree, s.requests \subseteq t.requests, GapOk(s)
    PROVE  GapOk(t)
  <1> SUFFICES ASSUME Safe(world), ~t.tc, ~NoGap(t) PROVE Requested(t, Gap(t).last)
    BY DEF GapOk
  <1> DEFINE x == LastMissing(t)
  <1>1. /\ x \in ancestors[t.high.id] /\ x \notin t.tree /\ t.root \in ancestors[x] /\ x # t.root
        /\ x \in Missing(t) /\ \A z \in Missing(t) : z \in ancestors[x]
    BY LastMissingOk
  <1>2. Gap(t).last = x
    BY DEF Gap
  <1> HIDE DEF x
  <1>3. /\ t.high.id \in Block /\ t.root \in Block /\ s.root \in Block
        /\ block_round[t.high.id] <= t.high.round /\ t.high.round \in Nat
    BY HighType
  <1>4. x \in Block
    BY <1>1, <1>3, Rounds
  <1>5. /\ block_round[t.root] \in Nat /\ block_round[s.root] \in Nat /\ block_round[x] \in Nat
        /\ qc_round[x] \in Nat /\ block_round[t.high.id] \in Nat
    BY <1>3, <1>4, Rounds
  <1>6. block_round[t.root] <= qc_round[x] /\ block_round[t.root] < block_round[x]
    BY <1>1, <1>4, AncestorRounds
  <1>7. ~Settled(t, x)
    BY <1>1, <1>5, <1>6 DEF Settled
  <1>8. x \notin s.tree /\ block_round[s.root] < block_round[x]
    BY <1>4, <1>5, <1>7 DEF Step, Settled
  <1>9. block_round[x] <= block_round[t.high.id]
    BY <1>1, <1>3, <1>5, AncestorRounds
  <1>10. x \in Missing(s)
    BY <1>1, <1>5, <1>8 DEF Missing
  <1>11. ASSUME NEW y \in Missing(s) PROVE y \in ancestors[x]
    BY <1>1 DEF Missing
  <1>12. LastMissing(s) = x
    <2> DEFINE z == LastMissing(s)
    <2>1. z \in Missing(s) /\ \A y \in Missing(s) : y \in ancestors[z]
      BY <1>10, <1>11 DEF LastMissing
    <2> HIDE DEF z
    <2>2. z \in ancestors[x] /\ x \in ancestors[z] /\ z \in Block
      BY <1>4, <1>10, <1>11, <2>1, Rounds
    <2>3. z = x
      BY <1>4, <2>2, Antisymmetric
    <2> QED BY <2>3 DEF z
  <1>13. ~NoGap(s)
    <2>1. block_round[s.root] < s.high.round /\ s.root # s.high.id
      BY <1>3, <1>5, <1>8, <1>9
    <2>2. x \notin ancestors[s.root]
      BY <1>3, <1>5, <1>8, AncestorRounds
    <2>3. x \in Path(s, s.high.id)
      BY <1>1, <2>2 DEF Path
    <2>4. ~HasPath(s, s.high.id)
      BY <1>8, <2>3 DEF HasPath
    <2>5. ~(block_round[s.root] >= s.high.round)
      BY <1>3, <1>5, <2>1
    <2> QED BY <2>1, <2>4, <2>5 DEF NoGap
  <1>14. Requested(s, x)
    BY <1>12, <1>13 DEF GapOk, Gap
  <1> QED BY <1>2, <1>14 DEF Requested

LEMMA RequestTipOk ==
    ASSUME BlocksOk, WorldOk(world), NEW st, Good(st), NEW t, t = RequestTipIfMissing(st)
    PROVE  Good(t) /\ Step(st, t) /\ (GapOk(st) => GapOk(t)) /\ t.tip = st.tip
  <1>1. Fit(st) /\ st \in StateType
    BY DEF Good, Fit
  <1>2. CASE t = st
    BY <1>1, <1>2, StepSelf
  <1>3. CASE t # st
    <2> DEFINE range == [last |-> st.tip, num |-> 1]
    <2>1. t = Request(st, range, block_round[st.tip]) /\ st.tip # None /\ ~Requested(st, st.tip)
      BY <1>3 DEF RequestTipIfMissing
    <2>2. CanAsk(st, st.tip) /\ st.tip \in Block
      BY <2>1 DEF Good, TipOk, CanAsk, CanAdd, Known
    <2>3. range \in BlockRange /\ range.last = st.tip /\ range.num >= 1 /\ block_round[st.tip] \in Nat
      BY <2>2, Rounds DEF BlockRange
    <2> HIDE DEF range
    <2>4. /\ Fit(t) /\ Step(st, t)
          /\ t.round = st.round /\ t.high = st.high /\ t.tc = st.tc /\ t.tip = st.tip
          /\ t.root = st.root /\ t.tree = st.tree /\ t.panicked = st.panicked
          /\ st.requests \subseteq t.requests
      BY <1>1, <2>1, <2>2, <2>3, RequestOk
    <2>5. Good(t)
      BY <2>4, GoodRequest
    <2>6. GapOk(st) => GapOk(t)
      BY <2>4, <2>5, GapKept
    <2> QED BY <2>4, <2>5, <2>6
  <1> QED BY <1>2, <1>3

(* Proposing the tip of the TC again: the root is below its parent.        *)
LEMMA ProposeTipOk ==
    ASSUME BlocksOk, WorldOk(world), NEW st, Good(st), st.tip # None, NEW t \in ProposeTip(st)
    PROVE  Good(t) /\ Step(st, t) /\ (GapOk(st) => GapOk(t))
  <1> DEFINE b == st.tip
  <1>1. PICK s \in TryUpdateCoherency(st, b) : t = [s EXCEPT !.panicked = @ \/ (IsCoherent(s, b) /\ b \notin s.tree)]
    BY DEF ProposeTip
  <1>2. b \in Block /\ b # Genesis /\ st.high = BlockQc(b) /\ st \in StateType
    BY DEF Good, Fit, TipOk, CanAdd, Known
  <1> HIDE DEF b
  <1>3. Good(s) /\ Step(st, s) /\ Untouched(st, s) /\ s.tree \subseteq st.tree
    BY <1>1, <1>2, TryUpdateCoherencyOk
  <1> DEFINE bad == IsCoherent(s, b) /\ b \notin s.tree
  <1>4. bad \in BOOLEAN /\ (Safe(world) => ~bad)
    <2> SUFFICES ASSUME Safe(world), IsCoherent(s, b), b \notin s.tree PROVE FALSE
      BY DEF IsCoherent
    <2>1. s.coherent \subseteq s.tree
      BY <1>3 DEF Good, Fit, TreeOk
    <2>2. b = s.root
      BY <2>1 DEF IsCoherent
    <2>3. s.high.id = parent[b]
      BY <1>2, <1>3 DEF Untouched, BlockQc
    <2>4. b \in ancestors[parent[b]] /\ parent[b] \in Block /\ parent[b] \in ancestors[b]
      BY <1>2, <1>3, <2>2, <2>3, RootBelowHigh, Rounds, SelfAncestor
    <2>5. block_round[parent[b]] < block_round[b] /\ block_round[b] \in Nat
      BY <1>2, Rounds
    <2>6. parent[b] = b
      BY <1>2, <2>4, Antisymmetric
    <2> QED BY <2>5, <2>6
  <1>5. t = [s EXCEPT !.panicked = @ \/ bad]
    BY <1>1
  <1> HIDE DEF bad
  <1>6. Good(t) /\ Step(s, t) /\ Untouched(s, t) /\ t.tree = s.tree
    BY <1>3, <1>4, <1>5, PanicGood
  <1>7. s \in StateType /\ t \in StateType
    BY <1>3, <1>6 DEF Good, Fit
  <1>8. Step(st, t)
    BY <1>2, <1>3, <1>6, <1>7, StepTransitive
  <1>9. t.high = st.high /\ t.tc = st.tc /\ t.tree \subseteq st.tree /\ st.requests \subseteq t.requests
    BY <1>3, <1>6 DEF Untouched
  <1> QED BY <1>6, <1>8, <1>9, GapKept

(* Proposing on the highest QC: the path to a coherent block is in the     *)
(* tree.                                                                   *)
LEMMA ProposeQcOk ==
    ASSUME BlocksOk, WorldOk(world), NEW st, Good(st), NEW t \in ProposeQc(st)
    PROVE  Good(t) /\ Step(st, t) /\ (GapOk(st) => GapOk(t))
  <1> DEFINE b == st.high.id
  <1>1. PICK s \in TryUpdateCoherency(st, b) : t = [s EXCEPT !.panicked = @ \/ (IsCoherent(s, b) /\ ~HasPath(s, b))]
    BY DEF ProposeQc
  <1>2. b \in Block /\ st \in StateType
    BY HighType
  <1>3. Good(s) /\ Step(st, s) /\ Untouched(st, s) /\ s.tree \subseteq st.tree
    BY <1>1, <1>2, TryUpdateCoherencyOk
  <1>4. s.high.id = b
    BY <1>3 DEF Untouched
  <1> HIDE DEF b
  <1> DEFINE bad == IsCoherent(s, b) /\ ~HasPath(s, b)
  <1>5. bad \in BOOLEAN /\ (Safe(world) => ~bad)
    <2> SUFFICES ASSUME Safe(world), IsCoherent(s, b) PROVE HasPath(s, b)
      BY DEF IsCoherent, HasPath
    <2>1. s.root \in ancestors[b]
      BY <1>3, <1>4, RootBelowHigh
    <2>2. CASE b = s.root
      BY <2>1, <2>2 DEF HasPath, Path
    <2>3. CASE b \in s.coherent
      BY <1>3, <2>1, <2>3 DEF Good, Fit, TreeOk, HasPath
    <2> QED BY <2>2, <2>3 DEF IsCoherent
  <1>6. t = [s EXCEPT !.panicked = @ \/ bad]
    BY <1>1
  <1> HIDE DEF bad
  <1>7. Good(t) /\ Step(s, t) /\ Untouched(s, t) /\ t.tree = s.tree
    BY <1>3, <1>5, <1>6, PanicGood
  <1>8. s \in StateType /\ t \in StateType
    BY <1>3, <1>7 DEF Good, Fit
  <1>9. Step(st, t)
    BY <1>2, <1>3, <1>7, <1>8, StepTransitive
  <1>10. t.high = st.high /\ t.tc = st.tc /\ t.tree \subseteq st.tree /\ st.requests \subseteq t.requests
    BY <1>3, <1>7 DEF Untouched
  <1> QED BY <1>7, <1>9, <1>10, GapKept

LEMMA TryProposeOk ==
    ASSUME BlocksOk, WorldOk(world), NEW st, Good(st), NEW t \in TryPropose(st)
    PROVE  Good(t) /\ Step(st, t) /\ (GapOk(st) => GapOk(t))
  <1>1. st \in StateType
    BY DEF Good, Fit
  <1>2. CASE st.round \notin led
    <2>1. t = st
      BY <1>2 DEF TryPropose
    <2> QED BY <1>1, <2>1, StepSelf
  <1>3. CASE st.round \in led
    <2> DEFINE asked == RequestTipIfMissing(st)
    <2>1. t = asked \/ t \in ProposeQc(asked) \/ (st.tip # None /\ t \in ProposeTip(asked))
      BY <1>3 DEF TryPropose
    <2>2. Good(asked) /\ Step(st, asked) /\ (GapOk(st) => GapOk(asked)) /\ asked.tip = st.tip
      BY RequestTipOk
    <2> HIDE DEF asked
    <2>3. asked \in StateType
      BY <2>2 DEF Good, Fit
    <2>4. Good(t) /\ Step(asked, t) /\ (GapOk(asked) => GapOk(t))
      BY <2>1, <2>2, <2>3, StepSelf, ProposeQcOk, ProposeTipOk
    <2>5. t \in StateType
      BY <2>4 DEF Good, Fit
    <2> QED BY <1>1, <2>2, <2>3, <2>4, <2>5, StepTransitive
  <1> QED BY <1>2, <1>3

(* A request that is dropped takes no other range from block sync.         *)
LEMMA CancelObsoleteOk ==
    ASSUME BlocksOk, NEW st, Fit(st), NEW t, t = CancelObsolete(st)
    PROVE  /\ Fit(t) /\ Step(st, t) /\ t.root = st.root /\ t.panicked = st.panicked
           /\ t.round = st.round /\ t.high = st.high /\ t.tc = st.tc /\ t.tip = st.tip
  <1> DEFINE old == {r \in st.requests : r.cancel <= block_round[st.root]}
             gone == {[last |-> r.last, num |-> r.num] : r \in old}
  <1>1. st \in StateType /\ TreeOk(st) /\ ChainOk(st) /\ RequestsOk(st)
    BY DEF Fit
  <1>2. t = [st EXCEPT !.requests = st.requests \ old, !.cancel = st.cancel \cup gone]
    BY DEF CancelObsolete
  <1>3. gone \subseteq BlockRange
    BY <1>1, StateFields DEF BlockRange
  <1>4. \A g \in gone : \E r \in old : g.last = r.last
    OBVIOUS
  <1>5. old \subseteq st.requests
    OBVIOUS
  <1> HIDE DEF old, gone
  <1>6. /\ t.requests = st.requests \ old /\ t.cancel = st.cancel \cup gone /\ t.sync = st.sync
        /\ t.round = st.round /\ t.high = st.high /\ t.tc = st.tc /\ t.tip = st.tip
        /\ t.root = st.root /\ t.tree = st.tree /\ t.coherent = st.coherent /\ t.children = st.children
        /\ t.given = st.given /\ t.chain = st.chain
        /\ t.stopped = st.stopped /\ t.panicked = st.panicked /\ Whole(t)
    BY <1>1, <1>2 DEF StateType, Whole
  <1>7. t \in StateType
    <2>1. t.requests \subseteq [last : Block, num : Nat, cancel : Nat] /\ t.cancel \subseteq BlockRange
      <3>1. st.requests \subseteq [last : Block, num : Nat, cancel : Nat] /\ st.cancel \subseteq BlockRange
        BY <1>1, StateFields
      <3> QED BY <1>3, <1>6, <3>1, Zenon
    <2>2. /\ t.round \in Nat /\ t.high \in [id : Block, round : Nat] /\ t.tc \in BOOLEAN
          /\ t.tip \in Block \cup {None} /\ t.sync \subseteq BlockRange /\ t.given \subseteq Block
      BY <1>1, <1>6, StateFields, Zenon
    <2>3. /\ t.root \in Block /\ t.tree \subseteq Block /\ t.children \in [Block -> SUBSET Block]
          /\ t.coherent \subseteq Block /\ t.chain \in Seq(Block)
          /\ t.stopped \in BOOLEAN /\ t.panicked \in BOOLEAN
      BY <1>1, <1>6, StateFields, Zenon
    <2> QED BY <1>6, <2>1, <2>2, <2>3, StateFrom
  <1>8. TreeOk(t) /\ ChainOk(t)
    BY <1>1, <1>6 DEF TreeOk, ChainOk, Path
  <1>9. RequestsOk(t)
    BY <1>1, <1>6 DEF RequestsOk, CanAsk, CanAdd
  <1>10. ASSUME NEW L, Alive(st, L) PROVE Alive(t, L)
    <2> SUFFICES ASSUME NEW r \in t.requests
                 PROVE  \E g \in (syncing \ t.cancel) \cup L \cup t.sync : g.last = r.last
      BY DEF Alive
    <2>1. r \in st.requests /\ r \notin old
      BY <1>6
    <2>2. PICK g \in (syncing \ st.cancel) \cup L \cup st.sync : g.last = r.last
      BY <1>10, <2>1 DEF Alive
    <2>3. g \notin gone
      BY <1>1, <1>4, <1>5, <2>1, <2>2 DEF RequestsOk
    <2> QED BY <1>6, <2>2, <2>3
  <1>11. Step(st, t)
    <2>1. st.round <= t.round
      BY <1>1, <1>6, StateFields
    <2> QED BY <1>1, <1>6, <1>10, <2>1, StepFrom
  <1> QED BY <1>6, <1>7, <1>8, <1>9, <1>11 DEF Fit

(* Stopping for state sync leaves the rest as it is.                       *)
LEMMA MaybeStatesyncOk ==
    ASSUME NEW st, Fit(st), NEW t, t = MaybeStatesync(st)
    PROVE  /\ Fit(t) /\ Step(st, t) /\ Untouched(st, t) /\ t.root = st.root /\ t.tree = st.tree
           /\ t.panicked = st.panicked
  <1> DEFINE stop == st.stopped \/ (/\ st.high.id \in st.tree \cup {st.root}
                                   /\ seq_num[st.root] + live_to_statesync_threshold <= seq_num[st.high.id])
  <1>1. st \in StateType /\ TreeOk(st) /\ ChainOk(st) /\ RequestsOk(st)
    BY DEF Fit
  <1>2. t = [st EXCEPT !.stopped = stop] /\ stop \in BOOLEAN
    BY DEF MaybeStatesync
  <1> HIDE DEF stop
  <1>3. /\ t.stopped = stop /\ Untouched(st, t) /\ t.root = st.root /\ t.tree = st.tree
        /\ t.coherent = st.coherent /\ t.children = st.children /\ t.chain = st.chain
        /\ t.given = st.given /\ t.panicked = st.panicked /\ Whole(t)
    BY <1>1, <1>2 DEF Untouched, StateType, Whole
  <1>4. t \in StateType
    BY <1>1, <1>2 DEF StateType
  <1>5. TreeOk(t) /\ ChainOk(t) /\ RequestsOk(t)
    BY <1>1, <1>3 DEF TreeOk, Path, ChainOk, RequestsOk, CanAsk, CanAdd, Untouched
  <1>6. Step(st, t)
    <2>1. st.round <= t.round
      BY <1>1, <1>3, StateFields DEF Untouched
    <2> QED BY <1>1, <1>3, <2>1, AliveUntouched, StepFrom
  <1> QED BY <1>3, <1>4, <1>5, <1>6 DEF Fit

-----------------------------------------------------------------------------
(* Certificates.                                                           *)

LEMMA EnterRound ==
    ASSUME NEW st, Fit(st), NEW t, Whole(t), t.round \in Nat, st.round <= t.round,
           t.high \in [id : Block, round : Nat], t.tc \in BOOLEAN, t.tip \in Block \cup {None},
           t.root = st.root, t.tree = st.tree, t.coherent = st.coherent, t.children = st.children,
           t.requests = st.requests, t.given = st.given, t.chain = st.chain, t.sync = st.sync,
           t.cancel = st.cancel, t.stopped = st.stopped, t.panicked = st.panicked, BlocksOk
    PROVE  Fit(t) /\ Step(st, t)
  <1>1. st \in StateType /\ TreeOk(st) /\ ChainOk(st) /\ RequestsOk(st) /\ st.round \in Nat
    BY StateFields DEF Fit
  <1>2. t \in StateType
    <2>1. /\ t.requests \subseteq [last : Block, num : Nat, cancel : Nat] /\ t.cancel \subseteq BlockRange
          /\ t.sync \subseteq BlockRange /\ t.given \subseteq Block
      BY <1>1, StateFields, Zenon
    <2>2. /\ t.root \in Block /\ t.tree \subseteq Block /\ t.children \in [Block -> SUBSET Block]
          /\ t.coherent \subseteq Block /\ t.chain \in Seq(Block)
          /\ t.stopped \in BOOLEAN /\ t.panicked \in BOOLEAN
      BY <1>1, StateFields, Zenon
    <2> QED BY <2>1, <2>2, StateFrom
  <1>3. \A b \in Block : qc_round[b] < st.round => qc_round[b] < t.round
    BY <1>1, Rounds
  <1>4. TreeOk(t)
    BY <1>1, <1>3, StateFields DEF TreeOk, Path
  <1>5. ChainOk(t)
    BY <1>1 DEF ChainOk
  <1>6. \A b : CanAsk(st, b) => CanAsk(t, b)
    BY <1>3 DEF CanAsk, CanAdd, Known
  <1>7. RequestsOk(t)
    BY <1>1, <1>6 DEF RequestsOk
  <1>8. Step(st, t)
    <2>1. \A L : Alive(st, L) => Alive(t, L)
      BY DEF Alive
    <2> QED BY <1>1, <2>1, StepFrom
  <1> QED BY <1>2, <1>4, <1>5, <1>7, <1>8 DEF Fit

LEMMA CommitmentType ==
    ASSUME BlocksOk, WorldOk(world), NEW c \in Commitments
    PROVE  /\ c \in world.qcs /\ c.id \in Block /\ c.round \in Nat
           /\ Safe(world) => /\ \A p \in world.qcs : p.round >= c.round => c.id \in ancestors[p.id]
                             /\ \A tc \in world.tcs : tc.round > c.round => c.id \in ancestors[TcQc(tc).id]
  <1>1. PICK q \in world.qcs : q.id # Genesis /\ Commits(q) /\ c = BlockQc(q.id)
    BY DEF Commitments
  <1>2. q.id \in Block /\ c \in world.qcs /\ c.id = parent[q.id] /\ c.round = qc_round[q.id]
    BY <1>1 DEF WorldOk, BlockQc
  <1>3. c.id \in Block /\ c.round \in Nat
    BY <1>2, Rounds
  <1> QED BY <1>1, <1>2, <1>3 DEF Safe

LEMMA RootLater ==
    ASSUME BlocksOk, WorldOk(world), NEW b, NEW r \in Nat, NEW R \in Nat, r <= R, RootOk(b, r)
    PROVE  RootOk(b, R)
  BY CommitmentType DEF RootOk

LEMMA ProcessQcOk ==
    ASSUME BlocksOk, WorldOk(world), NEW st, Good(st), GapOk(st), NEW q \in world.qcs, NEW t \in ProcessQc(st, q)
    PROVE  Good(t) /\ Step(st, t) /\ GapOk(t) /\ q.round < t.round
  <1>1. Fit(st) /\ st \in StateType /\ st.round \in Nat /\ q \in [id : Block, round : Nat]
        /\ q.round \in Nat /\ q.id \in Block
    BY StateFields DEF Good, Fit, WorldOk
  <1>2. CASE q.round < st.round
    <2>1. t = st
      BY <1>2 DEF ProcessQc
    <2> QED BY <1>1, <1>2, <2>1, StepSelf
  <1>3. CASE ~(q.round < st.round)
    <2> DEFINE s1 == TryCommit(st, q)
               s2 == CancelObsolete(s1)
               s3 == MaybeStatesync(s2)
               s4 == [s3 EXCEPT !.high = q, !.round = q.round + 1, !.tc = FALSE, !.tip = None]
    <2>1. PICK s5 \in UpdateProposedHead(s4) : t \in TryPropose(RequestBlocksIfMissingAncestor(s5))
      BY <1>3 DEF ProcessQc
    <2>2. RootOk(st.root, q.round + 1)
      BY <1>1, <1>3, RootLater DEF Good
    <2>3. /\ Fit(s1) /\ Step(st, s1) /\ RootOk(s1.root, q.round + 1)
          /\ s1.round = st.round /\ StaysCalm(st, s1)
      BY <1>1, <2>2, TryCommitOk DEF Untouched
    <2> HIDE DEF s1
    <2>4. Fit(s2) /\ Step(s1, s2) /\ s2.root = s1.root /\ s2.round = s1.round /\ s2.panicked = s1.panicked
      BY <2>3, CancelObsoleteOk
    <2> HIDE DEF s2
    <2>5. Fit(s3) /\ Step(s2, s3) /\ s3.root = s2.root /\ s3.round = s2.round /\ s3.panicked = s2.panicked
      BY <2>4, MaybeStatesyncOk DEF Untouched
    <2> HIDE DEF s3
    <2>6. s3 \in StateType /\ s1 \in StateType /\ s2 \in StateType
      BY <2>3, <2>4, <2>5 DEF Fit
    <2>7. /\ s4.high = q /\ s4.round = q.round + 1 /\ s4.tc = FALSE /\ s4.tip = None /\ Whole(s4)
          /\ s4.root = s3.root /\ s4.tree = s3.tree /\ s4.coherent = s3.coherent /\ s4.children = s3.children
          /\ s4.requests = s3.requests /\ s4.given = s3.given /\ s4.chain = s3.chain /\ s4.sync = s3.sync
          /\ s4.cancel = s3.cancel /\ s4.stopped = s3.stopped /\ s4.panicked = s3.panicked
      <3> DEFINE r == q.round + 1
                 no == FALSE
      <3>1. s4 = [s3 EXCEPT !.high = q, !.round = r, !.tc = no, !.tip = None] /\ r = q.round + 1 /\ no = FALSE
        OBVIOUS
      <3> HIDE DEF s4, r, no
      <3>2. /\ s4.high = q /\ s4.round = r /\ s4.tc = no /\ s4.tip = None /\ Whole(s4)
            /\ s4.root = s3.root /\ s4.tree = s3.tree /\ s4.coherent = s3.coherent /\ s4.children = s3.children
            /\ s4.requests = s3.requests /\ s4.given = s3.given /\ s4.chain = s3.chain /\ s4.sync = s3.sync
            /\ s4.cancel = s3.cancel /\ s4.stopped = s3.stopped /\ s4.panicked = s3.panicked
        BY <2>6, <3>1 DEF StateType, Whole
      <3> QED BY <3>1, <3>2, Zenon
    <2> HIDE DEF s4
    <2>8. Fit(s4) /\ Step(s3, s4)
      <3>1. s4.round \in Nat /\ s3.round <= s4.round
        BY <1>1, <1>3, <2>3, <2>4, <2>5, <2>7
      <3> QED BY <1>1, <2>5, <2>7, <3>1, EnterRound
    <2>9. Good(s4)
      <3>1. HighOk(s4)
        BY <1>1, <2>7 DEF HighOk
      <3>2. TipOk(s4) /\ RootOk(s4.root, s4.round)
        BY <2>3, <2>4, <2>5, <2>7 DEF TipOk
      <3>3. ASSUME Safe(world) PROVE ~s4.panicked
        BY <2>3, <2>4, <2>5, <2>7, <3>3 DEF StaysCalm, Good, Calm
      <3>4. ASSUME Safe(world) PROVE HighAbove(s4)
        <4> SUFFICES ASSUME NEW c \in Commitments, c.round + 1 < q.round + 1 PROVE c.id \in ancestors[q.id]
          BY <2>7 DEF HighAbove
        <4>1. c.round \in Nat
          BY CommitmentType
        <4>2. q.round >= c.round
          BY <1>1, <4>1
        <4> QED BY <3>4, <4>2, CommitmentType
      <3> QED BY <2>8, <3>1, <3>2, <3>3, <3>4 DEF Good, Calm
    <2>10. Fit(s5) /\ Step(s4, s5) /\ Untouched(s4, s5) /\ s5.root = s4.root /\ s5.panicked = s4.panicked
      BY <2>1, <2>8, UpdateProposedHeadOk
    <2>11. Good(s5)
      BY <2>9, <2>10, GoodKept DEF Good, StaysCalm
    <2> DEFINE s6 == RequestBlocksIfMissingAncestor(s5)
    <2>12. Good(s6) /\ Step(s5, s6) /\ GapOk(s6)
      BY <2>11, RequestBlocksOk
    <2>13. t \in TryPropose(s6)
      BY <2>1
    <2> HIDE DEF s6
    <2>14. Good(t) /\ Step(s6, t) /\ GapOk(t)
      BY <2>12, <2>13, TryProposeOk
    <2>15. s4 \in StateType /\ s5 \in StateType /\ s6 \in StateType /\ t \in StateType
      BY <2>8, <2>10, <2>12, <2>14 DEF Good, Fit
    <2>16. Step(st, s3)
      BY <1>1, <2>3, <2>4, <2>5, <2>6, StepTransitive
    <2>17. Step(s3, s6)
      BY <2>6, <2>8, <2>10, <2>12, <2>15, StepTransitive
    <2>18. Step(s3, t)
      BY <2>6, <2>15, <2>14, <2>17, StepTransitive
    <2>19. Step(st, t)
      BY <1>1, <2>6, <2>15, <2>16, <2>18, StepTransitive
    <2>20. q.round < t.round
      <3>1. /\ s4.round <= s5.round /\ s5.round <= s6.round /\ s6.round <= t.round
            /\ s5.round \in Nat /\ s6.round \in Nat /\ t.round \in Nat
        BY <2>10, <2>12, <2>15, <2>14, StateFields DEF Step
      <3> QED BY <1>1, <2>7, <3>1
    <2> QED BY <2>19, <2>20, <2>14
  <1> QED BY <1>2, <1>3

LEMMA ProcessTcOk ==
    ASSUME BlocksOk, WorldOk(world), NEW st, Good(st), GapOk(st), NEW tc \in world.tcs, NEW t \in ProcessTc(st, tc)
    PROVE  Good(t) /\ Step(st, t) /\ GapOk(t)
  <1>1. Fit(st) /\ st \in StateType /\ st.round \in Nat
    BY StateFields DEF Good, Fit
  <1>2. CASE tc.round < st.round
    <2>1. t = st
      BY <1>2 DEF ProcessTc
    <2> QED BY <1>1, <2>1, StepSelf
  <1>3. CASE ~(tc.round < st.round)
    <2> DEFINE s == [st EXCEPT !.high = TcQc(tc), !.round = tc.round + 1, !.tc = TRUE, !.tip = tc.tip]
    <2>1. t \in TryPropose(s)
      BY <1>3 DEF ProcessTc
    <2>2. /\ tc.round \in Nat /\ tc.tip \in (Block \ {Genesis}) \cup {None}
          /\ TcQc(tc) \in world.qcs /\ TcQc(tc).round < tc.round
      BY DEF WorldOk
    <2>3. tc.tip \in Block \cup {None}
      BY <2>2
    <2>4. TcQc(tc) \in [id : Block, round : Nat]
      BY <2>2 DEF WorldOk
    <2>5. /\ s.round = tc.round + 1 /\ s.tc = TRUE /\ s.tip = tc.tip /\ s.high = TcQc(tc) /\ Whole(s)
          /\ s.root = st.root /\ s.tree = st.tree /\ s.coherent = st.coherent /\ s.children = st.children
          /\ s.requests = st.requests /\ s.given = st.given /\ s.chain = st.chain /\ s.sync = st.sync
          /\ s.cancel = st.cancel /\ s.stopped = st.stopped /\ s.panicked = st.panicked
      <3> DEFINE r == tc.round + 1
                 yes == TRUE
                 x == tc.tip
                 h == TcQc(tc)
      <3>1. /\ s = [st EXCEPT !.high = h, !.round = r, !.tc = yes, !.tip = x]
            /\ r = tc.round + 1 /\ yes = TRUE /\ x = tc.tip /\ h = TcQc(tc)
        OBVIOUS
      <3> HIDE DEF s, r, yes, x, h
      <3>2. /\ s.round = r /\ s.tc = yes /\ s.tip = x /\ s.high = h /\ Whole(s)
            /\ s.root = st.root /\ s.tree = st.tree /\ s.coherent = st.coherent /\ s.children = st.children
            /\ s.requests = st.requests /\ s.given = st.given /\ s.chain = st.chain /\ s.sync = st.sync
            /\ s.cancel = st.cancel /\ s.stopped = st.stopped /\ s.panicked = st.panicked
        BY <1>1, <3>1 DEF StateType, Whole
      <3> QED BY <3>1, <3>2, Zenon
    <2> HIDE DEF s
    <2>6. s.round \in Nat /\ st.round <= s.round /\ TcQc(tc).round \in Nat
      BY <1>1, <1>3, <2>2, <2>4, <2>5
    <2>7. Fit(s) /\ Step(st, s)
      BY <1>1, <2>3, <2>4, <2>5, <2>6, EnterRound
    <2>8. HighOk(s)
      BY <2>2, <2>5, <2>6 DEF HighOk
    <2>9. TipOk(s)
      <3> SUFFICES ASSUME tc.tip # None PROVE CanAdd(s, tc.tip) /\ s.high = BlockQc(tc.tip)
        BY <2>5 DEF TipOk
      <3>1. TcQc(tc) = BlockQc(tc.tip) /\ BlockQc(tc.tip).round = qc_round[tc.tip] /\ tc.tip \in Block \ {Genesis}
        BY <2>2 DEF TcQc, BlockQc
      <3>2. tc.tip \in Known
        BY <2>2, <3>1 DEF Known
      <3>3. qc_round[tc.tip] < s.round
        BY <2>2, <2>5, <2>6, <3>1
      <3> QED BY <2>5, <3>1, <3>2, <3>3 DEF CanAdd
    <2>10. RootOk(s.root, s.round)
      BY <1>1, <2>5, <2>6, RootLater DEF Good
    <2>11. ASSUME Safe(world) PROVE Calm(s)
      <3>1. ASSUME NEW c \in Commitments, c.round + 1 < s.round PROVE c.id \in ancestors[s.high.id]
        <4>1. c.round \in Nat
          BY CommitmentType
        <4>2. tc.round > c.round
          BY <2>2, <2>5, <3>1, <4>1
        <4> QED BY <2>5, <2>11, <4>2, CommitmentType
      <3> QED BY <2>5, <2>11, <3>1 DEF Calm, HighAbove, Good
    <2>12. Good(s) /\ GapOk(s)
      BY <2>5, <2>7, <2>8, <2>9, <2>10, <2>11 DEF Good, GapOk
    <2>13. Good(t) /\ Step(s, t) /\ GapOk(t)
      BY <2>1, <2>12, TryProposeOk
    <2>14. s \in StateType /\ t \in StateType
      BY <2>7, <2>13 DEF Good, Fit
    <2> QED BY <1>1, <2>7, <2>13, <2>14, StepTransitive
  <1> QED BY <1>2, <1>3

-----------------------------------------------------------------------------
(* Blocks.                                                                 *)

LEMMA TryAddOk ==
    ASSUME BlocksOk, WorldOk(world), NEW st, Good(st), GapOk(st), NEW b, CanAdd(st, b),
           NEW t \in TryAddAndCommitBlocktree(st, b)
    PROVE  Good(t) /\ Step(st, t) /\ GapOk(t) /\ Settled(t, b)
  <1> DEFINE s1 == Add(st, b)
  <1>1. PICK s2 \in TryUpdateCoherency(s1, b) : \E s \in TryPropose(s2) :
            t = RequestBlocksIfMissingAncestor(MaybeStatesync(s))
    BY DEF TryAddAndCommitBlocktree
  <1>2. PICK s3 \in TryPropose(s2) : t = RequestBlocksIfMissingAncestor(MaybeStatesync(s3))
    BY <1>1
  <1> DEFINE s4 == MaybeStatesync(s3)
  <1>3. t = RequestBlocksIfMissingAncestor(s4) /\ Fit(st) /\ st \in StateType /\ b \in Block
    BY <1>2 DEF Good, Fit, CanAdd, Known
  <1>4. /\ Fit(s1) /\ Step(st, s1) /\ Untouched(st, s1) /\ s1.root = st.root /\ s1.panicked = st.panicked
        /\ Settled(s1, b)
    BY <1>3, AddOk
  <1> HIDE DEF s1
  <1>5. Good(s1)
    BY <1>4, GoodKept DEF Good, StaysCalm
  <1>6. Good(s2) /\ Step(s1, s2)
    BY <1>1, <1>3, <1>5, TryUpdateCoherencyOk
  <1>7. Good(s3) /\ Step(s2, s3) /\ Fit(s3)
    BY <1>2, <1>6, TryProposeOk DEF Good
  <1>8. Fit(s4) /\ Step(s3, s4) /\ Untouched(s3, s4) /\ s4.root = s3.root /\ s4.panicked = s3.panicked
    BY <1>7, MaybeStatesyncOk
  <1> HIDE DEF s4
  <1>9. Good(s4)
    BY <1>7, <1>8, GoodKept DEF Good, StaysCalm
  <1>10. Good(t) /\ Step(s4, t) /\ GapOk(t)
    BY <1>3, <1>9, RequestBlocksOk
  <1>11. s1 \in StateType /\ s2 \in StateType /\ s3 \in StateType /\ s4 \in StateType /\ t \in StateType
    BY <1>5, <1>6, <1>7, <1>9, <1>10 DEF Good, Fit
  <1>12. Step(s1, s3)
    BY <1>6, <1>7, <1>11, StepTransitive
  <1>13. Step(s3, t)
    BY <1>8, <1>10, <1>11, StepTransitive
  <1>14. Step(s1, t)
    BY <1>11, <1>12, <1>13, StepTransitive
  <1>15. Step(st, t)
    BY <1>3, <1>4, <1>11, <1>14, StepTransitive
  <1> QED BY <1>3, <1>4, <1>10, <1>14, <1>15 DEF Step

(* The loop over a range: the function of AddRange exists.                 *)
LEMMA AddRangeLoop ==
    ASSUME BlocksOk, NEW st, NEW range, range.last \in Block
    PROVE  \E f : /\ AddRange(st, range) = f[range.last]
                  /\ f = [b \in ancestors[range.last] |->
                            IF b \in RangeBlocks(range) THEN AddEach(f[parent[b]], b) ELSE {st}]
  <1> DEFINE A == ancestors[range.last]
             Is(f, D) == f = [b \in D |-> IF b \in RangeBlocks(range) THEN AddEach(f[parent[b]], b) ELSE {st}]
             after == CHOOSE f : Is(f, A)
  <1>1. AddRange(st, range) = after[range.last]
    BY DEF AddRange
  <1>2. \A b \in Block : b \in A => \E f : Is(f, ancestors[b])
    <2> DEFINE T == {b \in Block : b \in A => \E f : Is(f, ancestors[b])}
    <2>1. Genesis \in T
      <3> DEFINE f == [b \in ancestors[Genesis] |-> {st}]
      <3>1. \A b \in ancestors[Genesis] : b \notin RangeBlocks(range)
        BY DEF BlocksOk, RangeBlocks
      <3>2. Is(f, ancestors[Genesis])
        BY <3>1, Zenon
      <3> QED BY <3>2 DEF BlocksOk
    <2>2. ASSUME NEW b \in Block \ {Genesis}, parent[b] \in T PROVE b \in T
      <3> SUFFICES ASSUME b \in A PROVE \E f : Is(f, ancestors[b])
        OBVIOUS
      <3>1. ancestors[b] = {b} \cup ancestors[parent[b]] /\ parent[b] \in Block /\ parent[b] \in ancestors[b]
        BY Rounds, SelfAncestor
      <3>2. parent[b] \in A
        BY <3>1, Transitive
      <3>3. PICK g : Is(g, ancestors[parent[b]])
        BY <2>2, <3>2
      <3>4. b \notin ancestors[parent[b]]
        BY <3>1, Antisymmetric, Rounds
      <3> DEFINE e == IF b \in RangeBlocks(range) THEN AddEach(g[parent[b]], b) ELSE {st}
                 f == [x \in ancestors[b] |-> IF x = b THEN e ELSE g[x]]
      <3> HIDE DEF e
      <3>5. ASSUME NEW x \in ancestors[b]
            PROVE  f[x] = IF x \in RangeBlocks(range) THEN AddEach(f[parent[x]], x) ELSE {st}
        <4>1. x \in Block
          BY Rounds
        <4>2. CASE x = b
          <5>1. f[parent[b]] = g[parent[b]] /\ f[b] = e
            BY <3>1, <3>4, SelfAncestor
          <5> QED BY <4>2, <5>1, Zenon DEF e
        <4>3. CASE x # b
          <5>1. x \in ancestors[parent[b]] /\ f[x] = g[x]
            BY <3>1, <4>3
          <5>2. g[x] = IF x \in RangeBlocks(range) THEN AddEach(g[parent[x]], x) ELSE {st}
            BY <3>3, <5>1, Zenon
          <5>3. CASE x \in RangeBlocks(range)
            <6>1. x # Genesis
              BY <5>3 DEF RangeBlocks
            <6>2. parent[x] \in ancestors[x] /\ parent[x] \in Block
              BY <4>1, <6>1, Rounds, SelfAncestor
            <6>3. parent[x] \in ancestors[parent[b]]
              BY <3>1, <5>1, <6>2, Transitive
            <6>4. f[parent[x]] = g[parent[x]]
              BY <3>1, <3>4, <6>3
            <6> QED BY <5>1, <5>2, <6>4, Zenon
          <5>4. CASE x \notin RangeBlocks(range)
            BY <5>1, <5>2, <5>4, Zenon
          <5> QED BY <5>3, <5>4
        <4> QED BY <4>2, <4>3
      <3>6. f = [x \in ancestors[b] |-> f[x]]
        OBVIOUS
      <3> HIDE DEF f
      <3>7. Is(f, ancestors[b])
        BY <3>5, <3>6, Zenon
      <3> QED BY <3>7
    <2> HIDE DEF T
    <2>3. \A b \in Block : b \in T
      BY <2>1, <2>2, ChainInduction
    <2> QED BY <2>3 DEF T
  <1>3. range.last \in A
    BY SelfAncestor
  <1>4. \E f : Is(f, A)
    BY <1>2, <1>3, Zenon
  <1>5. Is(after, A)
    BY <1>4, Zenon
  <1> QED BY <1>1, <1>5, Zenon

LEMMA AddRangeOk ==
    ASSUME BlocksOk, WorldOk(world), NEW st, Good(st), GapOk(st),
           NEW range \in BlockRange, CanAsk(st, range.last), range.num >= 1, NEW t \in AddRange(st, range)
    PROVE  Good(t) /\ Step(st, t) /\ GapOk(t) /\ (range.last \in Certified => Settled(t, range.last))
  <1>1. /\ range.last \in Block /\ range.num \in Nat /\ st \in StateType /\ st.round \in Nat
        /\ range.last # Genesis => range.last \in Known /\ qc_round[range.last] < st.round
    BY StateFields DEF BlockRange, CanAsk, CanAdd, Good, Fit
  <1>2. PICK f : /\ AddRange(st, range) = f[range.last]
                 /\ f = [b \in ancestors[range.last] |->
                           IF b \in RangeBlocks(range) THEN AddEach(f[parent[b]], b) ELSE {st}]
    BY <1>1, AddRangeLoop
  <1> DEFINE A == ancestors[range.last]
             P(b) == \A s \in f[b] : /\ Good(s) /\ Step(st, s) /\ GapOk(s)
                                     /\ b \in RangeBlocks(range) /\ b \in Certified => Settled(s, b)
             T == {b \in Block : b \in A => P(b)}
  <1>3. \A b \in A : f[b] = IF b \in RangeBlocks(range) THEN AddEach(f[parent[b]], b) ELSE {st}
    BY <1>2, Zenon
  <1>4. ASSUME NEW b \in A, b \notin RangeBlocks(range) PROVE P(b)
    <2>1. f[b] = {st}
      BY <1>3, <1>4
    <2> QED BY <1>1, <1>4, <2>1, StepSelf
  <1>5. Genesis \in T
    BY <1>4 DEF RangeBlocks, BlocksOk
  <1>6. ASSUME NEW b \in Block \ {Genesis}, parent[b] \in T PROVE b \in T
    <2> SUFFICES ASSUME b \in A, b \in RangeBlocks(range), NEW s \in f[b]
                 PROVE  Good(s) /\ Step(st, s) /\ GapOk(s) /\ (b \in Certified => Settled(s, b))
      BY <1>4
    <2>1. parent[b] \in A /\ range.last # Genesis
      BY <1>1, Rounds, SelfAncestor, Transitive DEF BlocksOk
    <2>2. P(parent[b])
      BY <1>6, <2>1
    <2>3. PICK p \in f[parent[b]] : s \in IF IsValidToInsert(p, b)
             THEN TryAddAndCommitBlocktree(p, b) \cup (IF b \in Certified THEN {} ELSE {p}) ELSE {p}
      <3>1. s \in AddEach(f[parent[b]], b)
        BY <1>3
      <3> QED BY <3>1 DEF AddEach
    <2>4. Good(p) /\ Step(st, p) /\ GapOk(p) /\ p \in StateType /\ st.round <= p.round /\ p.round \in Nat
      BY <2>2, <2>3, StateFields DEF Good, Fit, Step
    <2>5. b \in Known /\ qc_round[b] <= qc_round[range.last]
      BY <1>1, <2>1, KnownAncestors
    <2>6. CanAdd(p, b)
      BY <1>1, <2>1, <2>4, <2>5, Rounds DEF CanAdd
    <2>7. CASE s \in TryAddAndCommitBlocktree(p, b)
      <3>1. Good(s) /\ Step(p, s) /\ GapOk(s) /\ Settled(s, b)
        BY <2>4, <2>6, <2>7, TryAddOk
      <3>2. s \in StateType
        BY <3>1 DEF Good, Fit
      <3> QED BY <1>1, <2>4, <3>1, <3>2, StepTransitive
    <2>8. CASE s = p /\ ~(b \in Certified /\ IsValidToInsert(p, b))
      <3>1. ~IsValidToInsert(p, b) => Settled(p, b)
        BY <2>4, Rounds, StateFields DEF IsValidToInsert, Settled
      <3> QED BY <2>4, <2>8, <3>1
    <2> QED BY <2>3, <2>7, <2>8
  <1> HIDE DEF T
  <1>7. \A b \in Block : b \in T
    BY <1>5, <1>6, ChainInduction
  <1>8. range.last \in A
    BY <1>1, SelfAncestor
  <1>9. P(range.last)
    BY <1>1, <1>7, <1>8 DEF T
  <1>10. Good(t) /\ Step(st, t) /\ GapOk(t)
    BY <1>2, <1>9
  <1>11. CASE range.last = Genesis
    <2>1. t.root \in Block /\ Genesis \in Block
      BY <1>10, StateFields DEF Good, Fit, BlocksOk
    <2>2. block_round[Genesis] <= block_round[t.root]
      BY <2>1, GenesisAncestor, AncestorRounds, Rounds
    <2> QED BY <1>10, <1>11, <2>2 DEF Settled
  <1>12. CASE range.last # Genesis
    <2>1. seq_num[range.last] > seq_num[range.last] - range.num
      BY <1>1, Rounds
    <2>2. range.last \in RangeBlocks(range)
      BY <1>8, <1>12, <2>1 DEF RangeBlocks
    <2> QED BY <1>2, <1>9, <1>10, <2>2
  <1> QED BY <1>11, <1>12

(* The request that was answered leaves the record.                        *)
LEMMA AnsweredOk ==
    ASSUME BlocksOk, WorldOk(world), NEW st, Good(st), GapOk(st), NEW range \in BlockRange,
           range.last \in Certified => Settled(st, range.last), NEW L, Alive(st, L),
           NEW t, t = [st EXCEPT !.requests = {r \in @ : r.last # range.last}]
    PROVE  /\ Good(t) /\ GapOk(t) /\ Alive(t, L \ {range})
           /\ t.chain = st.chain /\ t.given = st.given /\ t.round = st.round
  <1> DEFINE left == {r \in st.requests : r.last # range.last}
  <1>1. st \in StateType /\ TreeOk(st) /\ ChainOk(st) /\ RequestsOk(st)
    BY DEF Good, Fit
  <1>2. /\ t = [st EXCEPT !.requests = left] /\ left \subseteq st.requests
        /\ \A r \in left : r.last # range.last
        /\ \A r \in st.requests : r.last # range.last => r \in left
    OBVIOUS
  <1> HIDE DEF left
  <1>3. /\ t.requests = left /\ t.cancel = st.cancel /\ t.sync = st.sync
        /\ t.round = st.round /\ t.high = st.high /\ t.tc = st.tc /\ t.tip = st.tip
        /\ t.root = st.root /\ t.tree = st.tree /\ t.coherent = st.coherent /\ t.children = st.children
        /\ t.given = st.given /\ t.chain = st.chain
        /\ t.stopped = st.stopped /\ t.panicked = st.panicked /\ Whole(t)
    BY <1>1, <1>2 DEF StateType, Whole
  <1>4. t \in StateType
    <2>1. t.requests \subseteq [last : Block, num : Nat, cancel : Nat]
      BY <1>1, <1>2, <1>3, StateFields, Zenon
    <2>2. /\ t.round \in Nat /\ t.high \in [id : Block, round : Nat] /\ t.tc \in BOOLEAN /\ t.cancel \subseteq BlockRange
          /\ t.tip \in Block \cup {None} /\ t.sync \subseteq BlockRange /\ t.given \subseteq Block
      BY <1>1, <1>3, StateFields, Zenon
    <2>3. /\ t.root \in Block /\ t.tree \subseteq Block /\ t.children \in [Block -> SUBSET Block]
          /\ t.coherent \subseteq Block /\ t.chain \in Seq(Block)
          /\ t.stopped \in BOOLEAN /\ t.panicked \in BOOLEAN
      BY <1>1, <1>3, StateFields, Zenon
    <2> QED BY <1>3, <2>1, <2>2, <2>3, StateFrom
  <1>5. TreeOk(t) /\ ChainOk(t)
    BY <1>1, <1>3 DEF TreeOk, ChainOk, Path
  <1>6. RequestsOk(t)
    BY <1>1, <1>2, <1>3 DEF RequestsOk, CanAsk, CanAdd
  <1>7. Good(t)
    BY <1>3, <1>4, <1>5, <1>6, GoodRequest DEF Fit
  <1>8. GapOk(t)
    <2> SUFFICES ASSUME Safe(world), ~t.tc, ~NoGap(t) PROVE Requested(t, Gap(t).last)
      BY DEF GapOk
    <2> DEFINE x == LastMissing(t)
    <2>1. ~st.tc /\ ~NoGap(st) /\ Gap(t).last = x /\ Gap(st).last = x
      BY <1>3 DEF NoGap, HasPath, Path, Gap, LastMissing, Missing
    <2>2. Requested(st, x)
      BY <2>1 DEF GapOk
    <2>3. CanAsk(t, x) /\ x \in Certified /\ x \notin t.tree /\ t.root \in ancestors[x] /\ x # t.root
      BY <1>7, LastMissingOk
    <2>4. x \in Block /\ t.root \in Block
      BY <1>4, <2>3, StateFields DEF CanAsk, CanAdd, Known, BlocksOk
    <2>5. block_round[t.root] <= qc_round[x] /\ block_round[t.root] < block_round[x]
      BY <2>3, <2>4, AncestorRounds
    <2>6. /\ block_round[t.root] \in Nat /\ block_round[x] \in Nat /\ qc_round[x] \in Nat
      BY <2>4, Rounds
    <2>7. ~Settled(st, x)
      BY <1>3, <2>3, <2>5, <2>6 DEF Settled
    <2>8. x # range.last
      BY <2>3, <2>7
    <2> HIDE DEF x
    <2>9. PICK r \in st.requests : r.last = x
      BY <2>2 DEF Requested
    <2>10. r \in t.requests
      BY <1>2, <1>3, <2>8, <2>9
    <2> QED BY <2>1, <2>9, <2>10 DEF Requested
  <1>9. Alive(t, L \ {range})
    BY <1>2, <1>3 DEF Alive
  <1> QED BY <1>3, <1>7, <1>8, <1>9

-----------------------------------------------------------------------------
(* The handlers.                                                           *)

(* Commands are sent: what was to be asked for is being worked on.         *)
LEMMA FinishOk ==
    ASSUME ConstantsOk, IInv, NEW st, Good(st), GapOk(st), NEW L, L \subseteq loopback, loopback' = L,
           Alive(st, L), node.round <= st.round, Finish(st)
    PROVE  IInv' /\ node'.chain = st.chain /\ node'.given = st.given
  <1>1. st \in StateType /\ TreeOk(st) /\ ChainOk(st) /\ RequestsOk(st)
        /\ node \in StateType
    BY DEF Good, Fit, IInv
  <1>2. world' = world /\ syncing' = (syncing \ st.cancel) \cup st.sync
        /\ node' = [st EXCEPT !.sync = {}, !.cancel = {}] /\ BlocksOk
    BY DEF Finish, ConstantsOk
  <1> DEFINE t == node'
  <1>3. /\ t.requests = st.requests /\ t.cancel = {} /\ t.sync = {}
        /\ t.round = st.round /\ t.high = st.high /\ t.tc = st.tc /\ t.tip = st.tip
        /\ t.root = st.root /\ t.tree = st.tree /\ t.coherent = st.coherent /\ t.children = st.children
        /\ t.given = st.given /\ t.chain = st.chain
        /\ t.stopped = st.stopped /\ t.panicked = st.panicked /\ Whole(t)
    BY <1>1, <1>2 DEF StateType, Whole
  <1>4. t \in StateType
    <2>1. /\ t.round \in Nat /\ t.high \in [id : Block, round : Nat] /\ t.tc \in BOOLEAN /\ t.cancel \subseteq BlockRange
          /\ t.tip \in Block \cup {None} /\ t.sync \subseteq BlockRange /\ t.given \subseteq Block
      BY <1>1, <1>3, StateFields, Zenon
    <2>2. /\ t.root \in Block /\ t.tree \subseteq Block /\ t.children \in [Block -> SUBSET Block]
          /\ t.coherent \subseteq Block /\ t.chain \in Seq(Block)
          /\ t.stopped \in BOOLEAN /\ t.panicked \in BOOLEAN
      BY <1>1, <1>3, StateFields, Zenon
    <2>3. t.requests \subseteq [last : Block, num : Nat, cancel : Nat]
      BY <1>1, <1>3, StateFields, Zenon
    <2> QED BY <1>3, <2>1, <2>2, <2>3, StateFrom
  <1>5. TreeOk(t) /\ ChainOk(t) /\ RequestsOk(t)
    BY <1>1, <1>3 DEF TreeOk, ChainOk, Path, RequestsOk, CanAsk, CanAdd
  <1>6. Good(t)
    BY <1>3, <1>4, <1>5, GoodRequest DEF Fit
  <1>7. GapOk(t)
    BY <1>3 DEF GapOk, NoGap, HasPath, Path, Gap, LastMissing, Missing, Requested
  <1>8. ASSUME NEW r \in t.requests PROVE \E g \in syncing' \cup L : g.last = r.last
    BY <1>2, <1>3 DEF Alive
  <1>9. ASSUME NEW g \in syncing' \cup loopback' PROVE g \in BlockRange /\ CanAsk(t, g.last) /\ g.num >= 1
    <2>1. CASE g \in st.sync
      BY <1>1, <1>3, <2>1, StateFields DEF RequestsOk, CanAsk, CanAdd
    <2>2. CASE g \in syncing \cup loopback
      <3>1. g \in BlockRange /\ CanAsk(node, g.last) /\ g.num >= 1
        BY <2>2 DEF IInv
      <3>2. node.round \in Nat /\ t.round \in Nat /\ node.round <= t.round
        BY <1>1, <1>3, <1>4, StateFields
      <3> QED BY <1>2, <3>1, <3>2, Rounds DEF CanAsk, CanAdd, Known
    <2> QED BY <1>2, <2>1, <2>2
  <1>10. Known' = Known /\ Commitments' = Commitments
    BY <1>2 DEF Known, Commitments
  <1>11. Good(node)'
    BY <1>2, <1>6, <1>10 DEF Good, Fit, TreeOk, ChainOk, RequestsOk, CanAsk, CanAdd, TipOk, HighOk, RootOk,
                             Calm, HighAbove
  <1>12. GapOk(node)' /\ Alive(node, loopback)'
    BY <1>2, <1>3, <1>7, <1>8 DEF GapOk, Alive
  <1>13. \A g \in syncing' \cup loopback' : g \in BlockRange /\ CanAsk(node, g.last)' /\ g.num >= 1
    BY <1>9, <1>10 DEF CanAsk, CanAdd
  <1>14. IInv'
    BY <1>2, <1>3, <1>11, <1>12, <1>13 DEF IInv
  <1> QED BY <1>3, <1>14

LEMMA InitOk ==
    ASSUME ConstantsOk, Init PROVE IInv
  <1>1. BlocksOk /\ world \in Worlds /\ WorldOk(world) /\ node = NewNode /\ syncing = {} /\ loopback = {}
    BY DEF Init, ConstantsOk
  <1>2. /\ node.root = Genesis /\ node.tree = {} /\ node.coherent = {} /\ node.children = [b \in Block |-> {}]
        /\ node.round = 1 /\ node.high = GenesisQc /\ node.tip = None /\ node.requests = {}
        /\ node.chain = <<Genesis>> /\ node.sync = {} /\ node.cancel = {} /\ node.panicked = FALSE
    BY <1>1 DEF NewNode
  <1>3. node \in StateType
    <2>1. Genesis \in Block
      BY <1>1 DEF BlocksOk
    <2>2. <<Genesis>> \in Seq(Block) /\ GenesisQc \in [id : Block, round : Nat]
      BY <2>1 DEF GenesisQc
    <2> QED BY <1>1, <2>1, <2>2 DEF NewNode, StateType
  <1>4. TreeOk(node) /\ RequestsOk(node)
    BY <1>2 DEF TreeOk, RequestsOk
  <1>5. ChainOk(node)
    BY <1>2 DEF ChainOk
  <1>6. TipOk(node) /\ RootOk(node.root, node.round)
    BY <1>2 DEF TipOk, RootOk
  <1>7. HighOk(node) /\ Calm(node)
    <2>1. node.high \in world.qcs /\ node.high.round < node.round
      BY <1>1, <1>2 DEF WorldOk, GenesisQc
    <2>2. \A c \in Commitments : ~(c.round + 1 < node.round)
      BY <1>1, <1>2, CommitmentType
    <2> QED BY <1>2, <2>1, <2>2 DEF HighOk, Calm, HighAbove
  <1>8. GapOk(node)
    BY <1>2 DEF GapOk, NoGap, GenesisQc
  <1>9. Alive(node, loopback)
    BY <1>2 DEF Alive
  <1> QED BY <1>1, <1>2, <1>3, <1>4, <1>5, <1>6, <1>7, <1>8, <1>9 DEF IInv, Good, Fit

(* The end of a handler that takes nothing from the loopback.              *)
LEMMA HandledOk ==
    ASSUME ConstantsOk, IInv, NEW st, Good(st), GapOk(st), Step(node, st), Finish(st), UNCHANGED loopback
    PROVE  IInv' /\ Grows(node, node')
  <1>1. Alive(st, loopback) /\ node.round <= st.round
    BY DEF IInv, Step
  <1>2. IInv' /\ node'.chain = st.chain /\ node'.given = st.given
    BY <1>1, FinishOk
  <1> QED BY <1>2 DEF Step, Grows

LEMMA ProposalOk ==
    ASSUME ConstantsOk, IInv, NEW b \in Known, NEW r, NEW tc, tc = None \/ tc \in world.tcs,
           HandleProposalMessage(b, r, tc)
    PROVE  IInv' /\ Grows(node, node')
  <1>1. /\ BlocksOk /\ WorldOk(world) /\ Good(node) /\ GapOk(node) /\ BlockQc(b) \in world.qcs
        /\ BlockQc(b).round = qc_round[b] /\ b \in Block /\ node \in StateType
    BY DEF ConstantsOk, IInv, Known, Good, Fit, BlockQc
  <1>2. PICK s1 \in ProcessQc(node, BlockQc(b)) :
            \E st2 \in IF tc = None THEN {s1} ELSE ProcessTc(s1, tc) :
               \/ Finish(st2)
               \/ /\ r <= st2.round
                  /\ \E st3 \in TryAddAndCommitBlocktree(st2, b) : Finish(st3)
    BY DEF HandleProposalMessage
  <1>3. PICK s2 \in IF tc = None THEN {s1} ELSE ProcessTc(s1, tc) :
            Finish(s2) \/ \E s3 \in TryAddAndCommitBlocktree(s2, b) : Finish(s3)
    BY <1>2
  <1>4. Good(s1) /\ Step(node, s1) /\ GapOk(s1) /\ qc_round[b] < s1.round
    BY <1>1, <1>2, ProcessQcOk
  <1>5. s1 \in StateType /\ s1.round \in Nat
    BY <1>4, StateFields DEF Good, Fit
  <1>6. Good(s2) /\ Step(s1, s2) /\ GapOk(s2)
    <2>1. CASE tc = None
      BY <1>3, <1>4, <1>5, <2>1, StepSelf
    <2>2. CASE tc # None
      BY <1>1, <1>3, <1>4, <2>2, ProcessTcOk
    <2> QED BY <2>1, <2>2
  <1>7. s2 \in StateType /\ s2.round \in Nat /\ s1.round <= s2.round
    BY <1>6, StateFields DEF Good, Fit, Step
  <1>8. Step(node, s2)
    BY <1>1, <1>4, <1>5, <1>6, <1>7, StepTransitive
  <1>9. UNCHANGED loopback
    BY DEF HandleProposalMessage
  <1>10. CASE Finish(s2)
    BY <1>6, <1>8, <1>9, <1>10, HandledOk
  <1>11. CASE \E s3 \in TryAddAndCommitBlocktree(s2, b) : Finish(s3)
    <2>1. PICK s3 \in TryAddAndCommitBlocktree(s2, b) : Finish(s3)
      BY <1>11
    <2>2. CanAdd(s2, b)
      BY <1>1, <1>4, <1>5, <1>7, Rounds DEF CanAdd
    <2>3. Good(s3) /\ Step(s2, s3) /\ GapOk(s3)
      BY <1>1, <1>6, <2>1, <2>2, TryAddOk
    <2>4. s3 \in StateType
      BY <2>3 DEF Good, Fit
    <2>5. Step(node, s3)
      BY <1>1, <1>7, <1>8, <2>3, <2>4, StepTransitive
    <2> QED BY <1>9, <2>1, <2>3, <2>5, HandledOk
  <1> QED BY <1>3, <1>10, <1>11

LEMMA BlockSyncOk ==
    ASSUME ConstantsOk, IInv, HandleBlockSync
    PROVE  IInv' /\ Grows(node, node')
  <1>1. /\ BlocksOk /\ WorldOk(world) /\ Good(node) /\ GapOk(node) /\ node \in StateType /\ Alive(node, loopback)
        /\ node.sync = {} /\ node.cancel = {} /\ world \in Worlds
    BY DEF ConstantsOk, IInv, Good, Fit
  <1>2. PICK range \in loopback :
         /\ loopback' = loopback \ {range}
         /\ IF Requested(node, range.last)
            THEN \E st \in AddRange(node, range) :
                   Finish([st EXCEPT !.requests = {r \in @ : r.last # range.last}])
            ELSE UNCHANGED <<world, node, syncing>>
    BY DEF HandleBlockSync
  <1>3. range \in BlockRange /\ CanAsk(node, range.last) /\ range.num >= 1
    BY DEF IInv
  <1>4. CASE Requested(node, range.last)
    <2>1. PICK st \in AddRange(node, range) : Finish([st EXCEPT !.requests = {r \in @ : r.last # range.last}])
      BY <1>2, <1>4
    <2>2. Good(st) /\ Step(node, st) /\ GapOk(st) /\ (range.last \in Certified => Settled(st, range.last))
      BY <1>1, <1>3, <2>1, AddRangeOk
    <2>3. Alive(st, loopback)
      BY <1>1, <2>2 DEF Step
    <2> DEFINE t == [st EXCEPT !.requests = {r \in @ : r.last # range.last}]
    <2>4. /\ Good(t) /\ GapOk(t) /\ Alive(t, loopback \ {range})
          /\ t.chain = st.chain /\ t.given = st.given /\ t.round = st.round
      BY <1>1, <1>3, <2>2, <2>3, AnsweredOk
    <2>5. Finish(t)
      BY <2>1
    <2> HIDE DEF t
    <2>6. node.round <= t.round
      BY <2>2, <2>4 DEF Step
    <2>7. IInv' /\ node'.chain = t.chain /\ node'.given = t.given
      BY <1>2, <2>4, <2>5, <2>6, FinishOk
    <2> QED BY <2>2, <2>4, <2>7 DEF Step, Grows
  <1>5. CASE ~Requested(node, range.last)
    <2>1. UNCHANGED <<world, node, syncing>>
      BY <1>2, <1>5
    <2>2. Alive(node, loopback \ {range})
      BY <1>1, <1>5 DEF Alive, Requested
    <2>3. Known' = Known /\ Commitments' = Commitments
      BY <2>1 DEF Known, Commitments
    <2>4. Good(node)' /\ GapOk(node)'
      BY <1>1, <2>1, <2>3 DEF Good, Fit, TreeOk, ChainOk, RequestsOk, CanAsk, CanAdd, TipOk, HighOk, RootOk,
                               Calm, HighAbove, GapOk
    <2>5. Alive(node, loopback)'
      BY <1>2, <2>1, <2>2 DEF Alive
    <2>6. \A g \in syncing' \cup loopback' : g \in BlockRange /\ CanAsk(node, g.last)' /\ g.num >= 1
      BY <1>2, <2>1, <2>3 DEF CanAsk, CanAdd, IInv
    <2>7. IInv'
      BY <1>1, <2>1, <2>4, <2>5, <2>6 DEF IInv
    <2>8. Grows(node, node)
      BY <1>1, StepSelf DEF Step
    <2> QED BY <2>1, <2>7, <2>8
  <1> QED BY <1>4, <1>5

LEMMA NextOk ==
    ASSUME ConstantsOk, IInv, Next PROVE IInv' /\ Grows(node, node')
  <1>1. BlocksOk /\ WorldOk(world) /\ Good(node) /\ GapOk(node) /\ node \in StateType /\ world \in Worlds
    BY DEF ConstantsOk, IInv, Good, Fit
  <1>2. CASE Proposal
    BY <1>2, ProposalOk DEF Proposal
  <1>3. CASE HandleQc
    <2>1. PICK q \in world.qcs : \E st \in ProcessQc(node, q) : Finish(st)
      BY <1>3 DEF HandleQc
    <2>2. PICK st \in ProcessQc(node, q) : Finish(st)
      BY <2>1
    <2>3. Good(st) /\ Step(node, st) /\ GapOk(st)
      BY <1>1, <2>2, ProcessQcOk
    <2> QED BY <1>3, <2>2, <2>3, HandledOk DEF HandleQc
  <1>4. CASE HandleTc
    <2>1. PICK tc \in world.tcs : \E st \in ProcessTc(node, tc) : Finish(st)
      BY <1>4 DEF HandleTc
    <2>2. PICK st \in ProcessTc(node, tc) : Finish(st)
      BY <2>1
    <2>3. Good(st) /\ Step(node, st) /\ GapOk(st)
      BY <1>1, <2>2, ProcessTcOk
    <2> QED BY <1>4, <2>2, <2>3, HandledOk DEF HandleTc
  <1>5. CASE HandleNoEndorsementMessage
    <2>1. PICK st \in TryPropose(node) : Finish(st)
      BY <1>5 DEF HandleNoEndorsementMessage
    <2>2. Good(st) /\ Step(node, st) /\ GapOk(st)
      BY <1>1, <2>1, TryProposeOk
    <2> QED BY <1>5, <2>1, <2>2, HandledOk DEF HandleNoEndorsementMessage
  <1>6. CASE Emit
    <2>1. PICK range \in syncing : /\ syncing' = syncing \ {range} /\ loopback' = loopback \cup {range}
                                   /\ UNCHANGED <<world, node>>
      BY <1>6 DEF Emit
    <2>2. Known' = Known /\ Commitments' = Commitments
      BY <2>1 DEF Known, Commitments
    <2>3. Good(node)' /\ GapOk(node)'
      BY <1>1, <2>1, <2>2 DEF Good, Fit, TreeOk, ChainOk, RequestsOk, CanAsk, CanAdd, TipOk, HighOk, RootOk,
                               Calm, HighAbove, GapOk
    <2>4. node.cancel = {} /\ node.sync = {} /\ Alive(node, loopback)
      BY DEF IInv
    <2>5. Alive(node, loopback)'
      BY <2>1, <2>4 DEF Alive
    <2>6. \A g \in syncing' \cup loopback' : g \in BlockRange /\ CanAsk(node, g.last)' /\ g.num >= 1
      BY <2>1, <2>2 DEF CanAsk, CanAdd, IInv
    <2>7. IInv'
      BY <1>1, <2>1, <2>3, <2>4, <2>5, <2>6 DEF IInv
    <2>8. Grows(node, node)
      BY <1>1, StepSelf DEF Step
    <2> QED BY <2>1, <2>7, <2>8
  <1>7. CASE HandleBlockSync
    BY <1>7, BlockSyncOk
  <1> QED BY <1>2, <1>3, <1>4, <1>5, <1>6, <1>7 DEF Next

LEMMA UnchangedOk ==
    ASSUME IInv, UNCHANGED vars PROVE IInv'
  <1>1. Known' = Known /\ Commitments' = Commitments
    BY DEF vars, Known, Commitments
  <1> QED BY <1>1 DEF vars, IInv, Good, Fit, TreeOk, ChainOk, RequestsOk, CanAsk, CanAdd, TipOk,
                     HighOk, RootOk, Calm, HighAbove, GapOk, Alive

(* Every handler that takes a step takes one of FinalizedChain.            *)
LEMMA NextRefines ==
    ASSUME ConstantsOk, IInv, Next PROVE Finalized!Next
  <1>1. IInv' /\ Grows(node, node')
    BY NextOk
  <1>2. node \in StateType /\ node' \in StateType /\ ChainOk(node)'
    BY <1>1 DEF IInv, Good, Fit
  <1>3. /\ node.chain \in Seq(Block) /\ node'.chain \in Seq(Block) /\ node'.given \subseteq Block
        /\ Len(node.chain) \in Nat /\ Len(node'.chain) \in Nat
    BY <1>2, StateFields
  <1>4. /\ node.given \subseteq node'.given /\ Len(node.chain) <= Len(node'.chain)
        /\ \A i \in 1..Len(node.chain) : node'.chain[i] = node.chain[i]
        /\ \A i \in Len(node.chain) + 1..Len(node'.chain) : node'.chain[i] \in node'.given
    BY <1>1 DEF Grows
  <1>5. \A i \in 2..Len(node'.chain) : parent[node'.chain[i]] = node'.chain[i - 1]
    BY <1>2 DEF ChainOk
  <1>6. SubSeq(node'.chain, 1, Len(node.chain)) = node.chain
    <2> DEFINE c == node.chain
               d == node'.chain
    <2>1. /\ c \in Seq(Block) /\ d \in Seq(Block) /\ Len(c) \in Nat /\ Len(d) \in Nat /\ Len(c) <= Len(d)
          /\ \A i \in 1..Len(c) : d[i] = c[i]
      BY <1>3, <1>4
    <2> HIDE DEF c, d
    <2>2. SubSeq(d, 1, Len(c)) = c
      BY <2>1
    <2> QED BY <2>2 DEF c, d
  <1> QED BY <1>3, <1>4, <1>5, <1>6 DEF Finalized!Next, Finalized!Give, Finalized!Extend, Finalized!Linked

-----------------------------------------------------------------------------
(* The theorems.                                                           *)

(* The tree holds accepted blocks above the root, coherent ones down to    *)
(* it; the root is committed and requests are known to block sync; in a    *)
(* safe world the root is below the highest QC, gaps are asked for and     *)
(* nothing has panicked.                                                   *)
THEOREM Invariance ==
    ASSUME ConstantsOk
    PROVE  Spec => []IInv
  <1>1. Init => IInv
    BY InitOk
  <1>2. IInv /\ [Next]_vars => IInv'
    BY NextOk, UnchangedOk
  <1> QED BY <1>1, <1>2, PTL DEF Spec

(* Where commits are extended no assertion fails, whatever arrives in      *)
(* whatever order: prune finds a coherent path to the block it commits,    *)
(* children are in the tree, the root is not above a block that is asked   *)
(* for, and a leader finds the tip or the path it proposes on.             *)
THEOREM TreeNeverPanics ==
    ASSUME ConstantsOk
    PROVE  Spec => []TreeNoPanic
  <1>1. IInv => TreeNoPanic
    BY DEF IInv, Good, Calm, TreeNoPanic
  <1> QED BY <1>1, Invariance, PTL

(* Where commits are extended, under a QC the last missing ancestor of its *)
(* block is on request, also after a leader's own commits.                 *)
THEOREM GapsAreRequested ==
    ASSUME ConstantsOk
    PROVE  Spec => []GapRequested
  <1>1. IInv => GapRequested
    BY DEF IInv, GapOk, GapRequested
  <1> QED BY <1>1, Invariance, PTL

(* No request is on record that block sync does not work on: cancelling    *)
(* an obsolete one takes no other away, and an answer removes only its own.*)
THEOREM RequestsStayAlive ==
    ASSUME ConstantsOk
    PROVE  Spec => []RequestsAlive
  <1>1. IInv => RequestsAlive
    BY DEF IInv, Alive, RequestsAlive
  <1> QED BY <1>1, Invariance, PTL

(* The handlers implement FinalizedChain, in any world: execution is told  *)
(* of one chain that only grows, of blocks it was given before.            *)
THEOREM ImplementsFinalizedChain ==
    ASSUME ConstantsOk
    PROVE  Spec => FinalizesOneChain
  <1>1. Init => Finalized!Init
    BY DEF Init, NewNode, Finalized!Init
  <1>2. IInv /\ [Next]_vars => [Finalized!Next]_<<node.chain, node.given>>
    BY NextRefines DEF vars
  <1> QED BY <1>1, <1>2, Invariance, PTL DEF Spec, FinalizesOneChain, Finalized!Spec
=============================================================================
