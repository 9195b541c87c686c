------------------------- MODULE SmallParts_proofs --------------------------
(***************************************************************************)
(* Theorems about the components of SmallParts, each for every value of    *)
(* its constants: the thresholds of ValidatorSet, the order of the files   *)
(* of Ledger, the QCs of VoteState, the ring of ReplayFilter, the votes of *)
(* VotePacing, the NECs of NoEndorsementState, the sessions of WireAuth,   *)
(* the epochs of Epochs and the requests of StateSync.                     *)
(***************************************************************************)
EXTENDS SmallParts, FiniteSetTheorems, SequenceTheorems, WellFoundedInduction, TLAPS

-----------------------------------------------------------------------------
(* Induction.  The library's principle in the form the provers can use: a  *)
(* set of numbers has a least one, so a set of finite sets that has every  *)
(* set whose smaller subsets it has, has them all.                         *)

LEMMA LeastNumber ==
    ASSUME NEW T \in SUBSET Nat, T # {}
    PROVE  \E n \in T : \A m \in T : n <= m
  <1>1. \E n \in T : \A m \in T : ~ (<<m, n>> \in OpToRel(<, Nat))
    BY NatLessThanWellFounded, WFMin
  <1>2. OpToRel(<, Nat) = {ss \in Nat \X Nat : ss[1] < ss[2]}
    BY Zenon DEF OpToRel
  <1>3. \E n \in T : \A m \in T : ~ (<<m, n>> \in {ss \in Nat \X Nat : ss[1] < ss[2]})
    BY <1>1, <1>2, Zenon
  <1>4. \A n, m \in Nat : ~ (<<m, n>> \in {ss \in Nat \X Nat : ss[1] < ss[2]}) => n <= m
    OBVIOUS
  <1> QED BY <1>3, <1>4, Zenon

LEMMA SubsetInduction ==
    ASSUME NEW M, IsFiniteSet(M), NEW T,
           \A S \in SUBSET M : (\A R \in SUBSET S : R # S => R \in T) => S \in T
    PROVE  \A S \in SUBSET M : S \in T
  <1> DEFINE Bad == {S \in SUBSET M : S \notin T}
             Sizes == {Cardinality(S) : S \in Bad}
  <1>1. SUFFICES ASSUME Bad # {} PROVE FALSE
    OBVIOUS
  <1>2. \A S \in SUBSET M : IsFiniteSet(S) /\ Cardinality(S) \in Nat
    BY FS_Subset, FS_CardinalityType
  <1>3. Sizes \in SUBSET Nat /\ Sizes # {}
    BY <1>1, <1>2
  <1>4. PICK n \in Sizes : \A m \in Sizes : n <= m
    BY <1>3, LeastNumber
  <1>5. PICK S \in Bad : n = Cardinality(S)
    BY <1>4
  <1>6. ASSUME NEW R \in SUBSET S, R # S PROVE R \in T
    <2>1. Cardinality(R) < Cardinality(S) /\ R \in SUBSET M
      BY <1>2, <1>6, FS_Subset
    <2>2. Cardinality(R) \in Nat /\ Cardinality(S) \in Nat
      BY <1>2, <2>1
    <2>3. ~ (Cardinality(S) <= Cardinality(R))
      BY <2>1, <2>2
    <2>4. Cardinality(R) \notin Sizes
      BY <1>4, <1>5, <2>3, Zenon
    <2> QED BY <2>1, <2>4
  <1> QED BY <1>5, <1>6

-----------------------------------------------------------------------------
(* Sums over finite sets.                                                  *)

Pick(S) == CHOOSE x \in S : TRUE
IsSumOn(g, f, S) ==
    g = [R \in SUBSET S |-> IF R = {} THEN 0 ELSE f[Pick(R)] + g[R \ {Pick(R)}]]
Sum(f, S) == LET g == CHOOSE h : IsSumOn(h, f, S) IN g[S]

LEMMA PickIn == \A S : S # {} => Pick(S) \in S /\ S \ {Pick(S)} # S
  BY DEF Pick

LEMMA SumUnique ==
    ASSUME NEW S, IsFiniteSet(S), NEW f, NEW g, NEW h, IsSumOn(g, f, S), IsSumOn(h, f, S)
    PROVE  g[S] = h[S]
  <1> DEFINE T == {R \in SUBSET S : g[R] = h[R]}
  <1>1. ASSUME NEW R \in SUBSET S, \A Q \in SUBSET R : Q # R => Q \in T
        PROVE  R \in T
    <2>1. /\ g[R] = IF R = {} THEN 0 ELSE f[Pick(R)] + g[R \ {Pick(R)}]
          /\ h[R] = IF R = {} THEN 0 ELSE f[Pick(R)] + h[R \ {Pick(R)}]
      BY DEF IsSumOn
    <2>2. R # {} => g[R \ {Pick(R)}] = h[R \ {Pick(R)}]
      BY <1>1, PickIn
    <2> QED BY <2>1, <2>2
  <1> HIDE DEF T
  <1>2. S \in T
    BY <1>1, SubsetInduction
  <1> QED BY <1>2 DEF T

(* The recursion of the fold: the element it picks, and the rest.          *)
LEMMA SumStep ==
    ASSUME NEW M, IsFiniteSet(M), NEW f
    PROVE  \A S \in SUBSET M : Sum(f, S) = IF S = {} THEN 0 ELSE f[Pick(S)] + Sum(f, S \ {Pick(S)})
  <1> DEFINE Value(S) == IF S = {} THEN 0 ELSE f[Pick(S)] + Sum(f, S \ {Pick(S)})
             T == {S \in SUBSET M : Sum(f, S) = Value(S)}
  <1>1. ASSUME NEW S \in SUBSET M, \A R \in SUBSET S : R # S => R \in T
        PROVE  S \in T
    <2> DEFINE g == [R \in SUBSET S |-> IF R = S THEN Value(S) ELSE Sum(f, R)]
               h == CHOOSE k : IsSumOn(k, f, S)
    <2>1. ASSUME NEW R \in SUBSET S
          PROVE  g[R] = IF R = {} THEN 0 ELSE f[Pick(R)] + g[R \ {Pick(R)}]
      <3>1. R # {} => g[R \ {Pick(R)}] = Sum(f, R \ {Pick(R)})
        <4>1. R # {} => R \ {Pick(R)} # S /\ R \ {Pick(R)} \in SUBSET S
          BY PickIn
        <4> QED BY <4>1
      <3>2. g[R] = Value(R)
        BY <1>1
      <3> QED BY <3>1, <3>2
    <2>2. IsSumOn(g, f, S)
      BY <2>1 DEF IsSumOn
    <2>3. IsSumOn(h, f, S)
      BY <2>2
    <2>4. h[S] = g[S]
      BY <2>2, <2>3, SumUnique, FS_Subset
    <2>5. Sum(f, S) = h[S]
      BY DEF Sum
    <2> QED BY <2>4, <2>5
  <1> HIDE DEF T
  <1>2. \A S \in SUBSET M : S \in T
    BY <1>1, SubsetInduction
  <1> QED BY <1>2 DEF T

LEMMA SumNat ==
    ASSUME NEW M, IsFiniteSet(M), NEW f \in [M -> Nat]
    PROVE  \A S \in SUBSET M : Sum(f, S) \in Nat
  <1> DEFINE T == {S \in SUBSET M : Sum(f, S) \in Nat}
  <1>1. ASSUME NEW S \in SUBSET M, \A R \in SUBSET S : R # S => R \in T
        PROVE  S \in T
    <2>1. Sum(f, S) = IF S = {} THEN 0 ELSE f[Pick(S)] + Sum(f, S \ {Pick(S)})
      BY SumStep
    <2>2. S # {} => f[Pick(S)] \in Nat /\ Sum(f, S \ {Pick(S)}) \in Nat
      BY <1>1, PickIn
    <2> QED BY <2>1, <2>2
  <1> HIDE DEF T
  <1>2. \A S \in SUBSET M : S \in T
    BY <1>1, SubsetInduction
  <1> QED BY <1>2 DEF T

(* The order in which the fold picks elements does not matter.             *)
LEMMA SumAny ==
    ASSUME NEW M, IsFiniteSet(M), NEW f \in [M -> Nat]
    PROVE  \A S \in SUBSET M : \A x \in S : Sum(f, S) = f[x] + Sum(f, S \ {x})
  <1> DEFINE T == {S \in SUBSET M : \A x \in S : Sum(f, S) = f[x] + Sum(f, S \ {x})}
  <1>1. ASSUME NEW S \in SUBSET M, \A R \in SUBSET S : R # S => R \in T
        PROVE  S \in T
    <2> SUFFICES ASSUME NEW x \in S, x # Pick(S)
                 PROVE  Sum(f, S) = f[x] + Sum(f, S \ {x})
      BY SumStep
    <2> DEFINE c == Pick(S)
               rest == (S \ {c}) \ {x}
    <2>1. c \in S /\ x \in S \ {c} /\ c \in S \ {x} /\ S \ {c} # S /\ S \ {x} # S
      BY PickIn
    <2>2. (S \ {x}) \ {c} = rest
      OBVIOUS
    <2> HIDE DEF c, rest
    <2>3. Sum(f, S) = f[c] + Sum(f, S \ {c})
      BY <2>1, SumStep DEF c
    <2>4. S \ {c} \in T /\ S \ {x} \in T
      BY <1>1, <2>1
    <2>5. Sum(f, S \ {c}) = f[x] + Sum(f, rest) /\ Sum(f, S \ {x}) = f[c] + Sum(f, rest)
      BY <2>1, <2>2, <2>4 DEF rest
    <2>6. f[c] \in Nat /\ f[x] \in Nat /\ Sum(f, rest) \in Nat
      BY <2>1, SumNat DEF rest
    <2> QED BY <2>3, <2>5, <2>6
  <1> HIDE DEF T
  <1>2. \A S \in SUBSET M : S \in T
    BY <1>1, SubsetInduction
  <1> QED BY <1>2 DEF T

LEMMA SumUnion ==
    ASSUME NEW M, IsFiniteSet(M), NEW f \in [M -> Nat]
    PROVE  \A B, A \in SUBSET M : A \cap B = {} => Sum(f, A \cup B) = Sum(f, A) + Sum(f, B)
  <1> DEFINE T == {B \in SUBSET M : \A A \in SUBSET M :
                        A \cap B = {} => Sum(f, A \cup B) = Sum(f, A) + Sum(f, B)}
  <1>1. ASSUME NEW B \in SUBSET M, \A R \in SUBSET B : R # B => R \in T
        PROVE  B \in T
    <2> SUFFICES ASSUME NEW A \in SUBSET M, A \cap B = {}
                 PROVE  Sum(f, A \cup B) = Sum(f, A) + Sum(f, B)
      OBVIOUS
    <2>1. CASE B = {}
      <3>1. A \cup B = A /\ Sum(f, B) = 0 /\ Sum(f, A) \in Nat
        BY <2>1, SumStep, SumNat
      <3> QED BY <3>1
    <2>2. CASE B # {}
      <3>1. PICK c \in B : TRUE
        BY <2>2
      <3>2. B \ {c} \in T /\ A \cap (B \ {c}) = {} /\ (A \cup B) \ {c} = A \cup (B \ {c})
        BY <1>1, <3>1
      <3>3. Sum(f, A \cup B) = f[c] + Sum(f, A \cup (B \ {c}))
        BY <3>2, SumAny
      <3>4. Sum(f, B) = f[c] + Sum(f, B \ {c})
        BY SumAny
      <3>5. Sum(f, A \cup (B \ {c})) = Sum(f, A) + Sum(f, B \ {c})
        BY <3>2
      <3>6. f[c] \in Nat /\ Sum(f, A) \in Nat /\ Sum(f, B \ {c}) \in Nat
        BY SumNat
      <3> QED BY <3>3, <3>4, <3>5, <3>6
    <2> QED BY <2>1, <2>2
  <1> HIDE DEF T
  <1>2. \A S \in SUBSET M : S \in T
    BY <1>1, SubsetInduction
  <1> QED BY <1>2 DEF T

-----------------------------------------------------------------------------
(* ValidatorSet                                                            *)

LEMMA StakeIsSum ==
    /\ \A S : Stakes!CalculateCurrentStake(S) = Sum(validators, S \cap Stakes!Members)
    /\ Stakes!TotalStake = Sum(validators, Stakes!Members)
  <1>1. \A S : Stakes!CalculateCurrentStake(S) = Sum(validators, S \cap Stakes!Members)
    BY DEF Stakes!CalculateCurrentStake, Stakes!FoldFunctionOnSet, Stakes!MapThenFoldSet, Sum, IsSumOn, Pick
  <1>2. Stakes!TotalStake = Sum(validators, Stakes!Members)
    BY DEF Stakes!TotalStake, Stakes!FoldFunctionOnSet, Stakes!MapThenFoldSet, Sum, IsSumOn, Pick
  <1> QED BY <1>1, <1>2

(* Two thirds and a little more, and a third and a little more, down to    *)
(* the rounding of the divisions.                                          *)
LEMMA Thirds ==
    \A t, s \in Nat : /\ s >= (t * 2) \div 3 + 1 <=> 3 * s > 2 * t
                      /\ s >= t \div 3 + 1 <=> 3 * s > t
  OBVIOUS

(* A validator set has members with stake, and faulty validators hold less *)
(* than a third of it.                                                     *)
SetOk ==
    /\ DOMAIN validators \subseteq Nodes /\ validators \in [DOMAIN validators -> Nat]
    /\ faulty \subseteq DOMAIN validators
    /\ 3 * Sum(validators, faulty) < Sum(validators, DOMAIN validators)

LEMMA SetsSound ==
    ASSUME IsFiniteSet(Nodes), SetOk
    PROVE  Stakes!ThresholdsSound
  <1> DEFINE M == Stakes!Members
             W(S) == Sum(validators, S)
             t == W(M)
             Loyal == M \ faulty
  <1>1. IsFiniteSet(M) /\ validators \in [M -> Nat] /\ faulty \subseteq M
    BY FS_Subset DEF SetOk, Stakes!Members
  <1>2. \A S \in SUBSET M : W(S) \in Nat
    BY <1>1, SumNat
  <1>3. \A A, B \in SUBSET M : A \cap B = {} => W(A \cup B) = W(A) + W(B)
    BY <1>1, SumUnion
  <1>5. 3 * W(faulty) < t
    BY DEF SetOk, Stakes!Members
  <1>6. \A S : /\ Stakes!HasSuperMajorityVotes(S) <=> 3 * W(S \cap M) > 2 * t
               /\ Stakes!HasHonestVote(S) <=> 3 * W(S \cap M) > t
    <2> TAKE S
    <2>1. W(S \cap M) \in Nat /\ t \in Nat
      BY <1>2
    <2>2. /\ Stakes!HasSuperMajorityVotes(S) <=> W(S \cap M) >= (t * 2) \div 3 + 1
          /\ Stakes!HasHonestVote(S) <=> W(S \cap M) >= t \div 3 + 1
      BY StakeIsSum DEF Stakes!HasSuperMajorityVotes, Stakes!HasHonestVote, Stakes!HasThresholdVotes
    <2> HIDE DEF W, t
    <2> QED BY <2>1, <2>2, Thirds
  <1> HIDE DEF M, W, t
  <1>7. t \in Nat /\ W(faulty) \in Nat
    BY <1>1, <1>2 DEF t
  <1>8. \A A, B \in SUBSET M : A \subseteq B => W(A) <= W(B)
    <2> SUFFICES ASSUME NEW A \in SUBSET M, NEW B \in SUBSET M, A \subseteq B PROVE W(A) <= W(B)
      OBVIOUS
    <2>1. W(B) = W(A) + W(B \ A)
      <3>1. A \cup (B \ A) = B /\ A \cap (B \ A) = {} /\ B \ A \in SUBSET M
        OBVIOUS
      <3> QED BY <1>3, <3>1
    <2>2. W(A) \in Nat /\ W(B \ A) \in Nat
      BY <1>2
    <2> QED BY <2>1, <2>2
  <1>9. ASSUME NEW Q1, NEW Q2, Stakes!HasSuperMajorityVotes(Q1), Stakes!HasSuperMajorityVotes(Q2)
        PROVE  (Q1 \cap Q2) \cap Loyal # {}
    <2> DEFINE A == Q1 \cap M
               B == Q2 \cap M
    <2>1. SUFFICES ASSUME (Q1 \cap Q2) \cap Loyal = {} PROVE FALSE
      OBVIOUS
    <2>2. A \in SUBSET M /\ B \in SUBSET M /\ A \cap B \subseteq faulty
      BY <2>1
    <2>3. 3 * W(A) > 2 * t /\ 3 * W(B) > 2 * t
      BY <1>6, <1>9
    <2> HIDE DEF A, B
    <2>4. W(A \cup B) = W(A) + W(B \ A)
      <3>1. A \cup (B \ A) = A \cup B /\ A \cap (B \ A) = {} /\ B \ A \in SUBSET M
        BY <2>2
      <3> QED BY <1>3, <2>2, <3>1
    <2>5. W(B) = W(A \cap B) + W(B \ A)
      <3>1. (A \cap B) \cup (B \ A) = B /\ (A \cap B) \cap (B \ A) = {} /\ A \cap B \in SUBSET M
        BY <2>2
      <3> QED BY <1>3, <2>2, <3>1
    <2>6. W(A \cup B) <= t /\ W(A \cap B) <= W(faulty)
      BY <1>1, <1>8, <2>2 DEF t
    <2>7. /\ W(A) \in Nat /\ W(B) \in Nat /\ W(B \ A) \in Nat
          /\ W(A \cup B) \in Nat /\ W(A \cap B) \in Nat
      BY <1>2, <2>2
    <2> QED BY <1>5, <1>7, <2>3, <2>4, <2>5, <2>6, <2>7
  <1>10. ASSUME NEW S, Stakes!HasHonestVote(S) PROVE S \cap Loyal # {}
    <2>1. SUFFICES ASSUME S \cap Loyal = {} PROVE FALSE
      OBVIOUS
    <2>2. W(S \cap M) <= W(faulty)
      BY <1>1, <1>8, <2>1
    <2>3. 3 * W(S \cap M) > t /\ W(S \cap M) \in Nat
      BY <1>2, <1>6, <1>10
    <2> QED BY <1>5, <1>7, <2>2, <2>3
  <1>11. ASSUME NEW Q, Stakes!HasSuperMajorityVotes(Q) PROVE Stakes!HasHonestVote(Q)
    <2>1. 3 * W(Q \cap M) > 2 * t /\ W(Q \cap M) \in Nat
      BY <1>2, <1>6, <1>11
    <2>2. 3 * W(Q \cap M) > t
      BY <1>7, <2>1
    <2> QED BY <1>6, <2>2
  <1>12. Stakes!HasSuperMajorityVotes(Loyal) /\ Loyal \in SUBSET Nodes
    <2>1. Loyal \cap M = Loyal /\ Loyal \cup faulty = M /\ Loyal \cap faulty = {} /\ Loyal \in SUBSET M
      BY <1>1
    <2>2. W(M) = W(Loyal) + W(faulty)
      BY <1>1, <1>3, <2>1
    <2>3. W(Loyal) \in Nat
      BY <1>2, <2>1
    <2>4. 3 * W(Loyal) > 2 * t
      BY <1>5, <1>7, <2>2, <2>3 DEF t
    <2> QED BY <1>6, <2>1, <2>4 DEF SetOk, M, Stakes!Members
  <1> QED BY <1>9, <1>10, <1>11, <1>12 DEF Stakes!ThresholdsSound, M

(* For every validator set and every distribution of stake, with less than *)
(* a third of it faulty: supermajorities overlap in an honest validator,   *)
(* and honest validators make one.  The assumptions about quorums in the   *)
(* other modules' theorems rest on it.                                     *)
THEOREM QuorumsIntersect ==
    ASSUME IsFiniteSet(Nodes), MaxStake \in Nat
    PROVE  Stakes!Spec => []Stakes!ThresholdsSound
  <1>1. Stakes!Init => SetOk
    <2> SUFFICES ASSUME Stakes!Init PROVE SetOk
      OBVIOUS
    <2>1. PICK S \in SUBSET Nodes : S # {} /\ validators \in [S -> 1..MaxStake]
      BY DEF Stakes!Init
    <2>2. Stakes!Members = S
      BY <2>1 DEF Stakes!Members
    <2>3. validators \in [S -> Nat]
      BY <2>1
    <2>4. faulty \subseteq S /\ faulty \cap S = faulty
      BY <2>2 DEF Stakes!Init
    <2>5. 3 * Sum(validators, faulty) < Sum(validators, S)
      BY <2>2, <2>4, StakeIsSum DEF Stakes!Init
    <2> QED BY <2>2, <2>3, <2>4, <2>5 DEF SetOk, Stakes!Members
  <1>2. SetOk /\ [Stakes!Next]_(Stakes!vars) => SetOk'
    <2> SUFFICES ASSUME SetOk, UNCHANGED <<validators, faulty>> PROVE SetOk'
      BY DEF Stakes!Next, Stakes!vars
    <2> QED BY DEF SetOk
  <1>3. SetOk => Stakes!ThresholdsSound
    BY SetsSound
  <1> QED BY <1>1, <1>2, <1>3, PTL DEF Stakes!Spec

-----------------------------------------------------------------------------
(* Ledger                                                                  *)

File == {"absent", "torn", "whole"}
BodyIds == {Body[b] : b \in DiskBlock}
OpType ==
    [op : {"create_body", "write_body", "create_header", "write_header", "symlink", "rename", "update_cache"},
     block : DiskBlock, link : Disk!Heads \cup {None}]

(* Every variable of the ledger that the argument needs has its type.      *)
DiskType ==
    /\ headers \in [DiskBlock -> File] /\ bodies \in [BodyIds -> File]
    /\ head \in [Disk!Heads -> DiskBlock \cup {None}]
    /\ block_cache \subseteq DiskBlock /\ block_cache_index \subseteq DiskBlock /\ payload_cache \subseteq BodyIds
    /\ todo \in Seq(OpType) /\ proposed \subseteq DiskBlock

(* The file exists, or an operation before the i-th creates it.            *)
BodyDue(b, i) ==
    \/ bodies[Body[b]] # "absent"
    \/ \E j \in 1..i - 1 : j <= Len(todo) /\ todo[j].op = "create_body" /\ todo[j].block = b
HeaderDue(b, i) ==
    \/ headers[b] # "absent"
    \/ \E j \in 1..i - 1 : j <= Len(todo) /\ todo[j].op = "create_header" /\ todo[j].block = b

(* The operations left to do are in an order that suits the files.         *)
TodoOk ==
    \A i \in 1..Len(todo) :
      /\ todo[i].op \in {"create_header", "write_header"} => BodyDue(todo[i].block, i)
      /\ todo[i].op \in {"rename", "update_cache"} => HeaderDue(todo[i].block, i)
      /\ todo[i].op = "rename" => todo[i].link \in Disk!Heads
      /\ todo[i].op = "create_body" => i < Len(todo) /\ todo[i + 1].op = "write_body"
      /\ todo[i].op = "create_header" => i < Len(todo) /\ todo[i + 1].op = "write_header"

ProposedOk == \A b \in proposed : HeaderDue(b, Len(todo) + 1)

DiskInv == DiskType /\ TodoOk /\ ProposedOk /\ Disk!DiskOrdered

(* k operations are done, and the files they create are there.             *)
LEMMA TodoShrinks ==
    ASSUME DiskInv, NEW k \in 1..2, k <= Len(todo),
           todo' \in Seq(OpType), Len(todo') = Len(todo) - k,
           \A i \in 1..Len(todo') : todo'[i] = todo[i + k],
           \A b \in DiskBlock : headers[b] # "absent" => headers'[b] # "absent",
           \A b \in DiskBlock : bodies[Body[b]] # "absent" => bodies'[Body[b]] # "absent",
           \A j \in 1..k : /\ todo[j].op = "create_header" => headers'[todo[j].block] # "absent"
                           /\ todo[j].op = "create_body" => bodies'[Body[todo[j].block]] # "absent",
           proposed' = proposed
    PROVE  TodoOk' /\ ProposedOk'
  <1>0. Len(todo) \in Nat /\ Len(todo') \in Nat /\ k \in {1, 2}
    BY DEF DiskInv, DiskType
  <1>1. ASSUME NEW b \in DiskBlock, NEW i \in 1..Len(todo') + 1, HeaderDue(b, i + k)
        PROVE  HeaderDue(b, i)'
    <2>1. CASE headers[b] # "absent"
      BY <2>1 DEF HeaderDue
    <2>2. CASE \E j \in 1..(i + k) - 1 : j <= Len(todo) /\ todo[j].op = "create_header" /\ todo[j].block = b
      <3>1. PICK j \in 1..(i + k) - 1 : j <= Len(todo) /\ todo[j].op = "create_header" /\ todo[j].block = b
        BY <2>2
      <3>2. CASE j <= k
        BY <1>0, <3>1, <3>2 DEF HeaderDue
      <3>3. CASE j > k
        <4>1. j - k \in 1..i - 1 /\ j - k \in 1..Len(todo') /\ (j - k) + k = j
          BY <1>0, <3>1, <3>3
        <4>2. todo'[j - k] = todo[j]
          BY <4>1
        <4> QED BY <1>0, <3>1, <4>1, <4>2 DEF HeaderDue
      <3> QED BY <1>0, <3>2, <3>3
    <2> QED BY <1>1, <2>1, <2>2 DEF HeaderDue
  <1>2. ASSUME NEW b \in DiskBlock, NEW i \in 1..Len(todo') + 1, BodyDue(b, i + k)
        PROVE  BodyDue(b, i)'
    <2>1. CASE bodies[Body[b]] # "absent"
      BY <2>1 DEF BodyDue
    <2>2. CASE \E j \in 1..(i + k) - 1 : j <= Len(todo) /\ todo[j].op = "create_body" /\ todo[j].block = b
      <3>1. PICK j \in 1..(i + k) - 1 : j <= Len(todo) /\ todo[j].op = "create_body" /\ todo[j].block = b
        BY <2>2
      <3>2. CASE j <= k
        BY <1>0, <3>1, <3>2 DEF BodyDue
      <3>3. CASE j > k
        <4>1. j - k \in 1..i - 1 /\ j - k \in 1..Len(todo') /\ (j - k) + k = j
          BY <1>0, <3>1, <3>3
        <4>2. todo'[j - k] = todo[j]
          BY <4>1
        <4> QED BY <1>0, <3>1, <4>1, <4>2 DEF BodyDue
      <3> QED BY <1>0, <3>2, <3>3
    <2> QED BY <1>2, <2>1, <2>2 DEF BodyDue
  <1>3. TodoOk'
    <2> SUFFICES ASSUME NEW i \in 1..Len(todo')
                 PROVE  /\ todo'[i].op \in {"create_header", "write_header"} => BodyDue(todo[i].block, i)'
                        /\ todo'[i].op \in {"rename", "update_cache"} => HeaderDue(todo[i].block, i)'
                        /\ todo'[i].op = "rename" => todo'[i].link \in Disk!Heads
                        /\ todo'[i].op = "create_body" => i < Len(todo') /\ todo'[i + 1].op = "write_body"
                        /\ todo'[i].op = "create_header" => i < Len(todo') /\ todo'[i + 1].op = "write_header"
      BY DEF TodoOk, Disk!Heads
    <2>1. i + k \in 1..Len(todo) /\ i \in 1..Len(todo') + 1 /\ todo'[i] = todo[i + k]
          /\ (i + k < Len(todo) => i + 1 \in 1..Len(todo') /\ (i + 1) + k = (i + k) + 1)
      BY <1>0
    <2>2. todo[i + k].block \in DiskBlock
      <3>1. todo[i + k] \in OpType
        BY <2>1 DEF DiskInv, DiskType
      <3> QED BY <3>1 DEF OpType
    <2>3. /\ todo[i + k].op \in {"create_header", "write_header"} => BodyDue(todo[i + k].block, i + k)
          /\ todo[i + k].op \in {"rename", "update_cache"} => HeaderDue(todo[i + k].block, i + k)
          /\ todo[i + k].op = "rename" => todo[i + k].link \in Disk!Heads
          /\ todo[i + k].op = "create_body" => i + k < Len(todo) /\ todo[(i + k) + 1].op = "write_body"
          /\ todo[i + k].op = "create_header" => i + k < Len(todo) /\ todo[(i + k) + 1].op = "write_header"
      BY <2>1 DEF DiskInv, TodoOk
    <2>4. todo'[i].op \in {"create_header", "write_header"} => BodyDue(todo[i].block, i)'
      BY <1>2, <2>1, <2>2, <2>3
    <2>5. todo'[i].op \in {"rename", "update_cache"} => HeaderDue(todo[i].block, i)'
      BY <1>1, <2>1, <2>2, <2>3
    <2>6. i + k < Len(todo) => todo'[i + 1] = todo[(i + k) + 1] /\ i < Len(todo')
      <3>1. i + k < Len(todo) => todo'[i + 1] = todo[(i + 1) + k]
        BY <2>1
      <3>2. (i + 1) + k = (i + k) + 1 /\ (i + k < Len(todo) => i < Len(todo'))
        BY <1>0
      <3> QED BY <3>1, <3>2
    <2> QED BY <2>1, <2>3, <2>4, <2>5, <2>6
  <1>4. ProposedOk'
    <2>1. \A b \in proposed : b \in DiskBlock /\ HeaderDue(b, Len(todo) + 1)
      BY DEF DiskInv, ProposedOk, DiskType
    <2>2. (Len(todo') + 1) + k = Len(todo) + 1 /\ Len(todo') + 1 \in 1..Len(todo') + 1
      BY <1>0
    <2> QED BY <1>1, <2>1, <2>2 DEF ProposedOk
  <1> QED BY <1>3, <1>4

(* Between commands a proposed block has its header file.                  *)
LEMMA IdleHeaders ==
    ASSUME DiskInv, Disk!Idle, NEW b \in proposed
    PROVE  b \in DiskBlock /\ headers[b] # "absent"
  <1>1. Len(todo) = 0 /\ b \in DiskBlock /\ HeaderDue(b, Len(todo) + 1)
    BY DEF DiskInv, DiskType, ProposedOk, Disk!Idle
  <1> QED BY <1>1 DEF HeaderDue

LEMMA OpTyped ==
    ASSUME NEW b \in DiskBlock, NEW link \in Disk!Heads
    PROVE  /\ \A op \in {"create_body", "write_body", "create_header", "write_header", "update_cache"} :
                /\ Disk!Op(op, b) \in OpType
                /\ Disk!Op(op, b).op = op /\ Disk!Op(op, b).block = b
           /\ \A op \in {"symlink", "rename"} :
                [op |-> op, block |-> b, link |-> link] \in OpType
  BY DEF Disk!Op, OpType

LEMMA CommitProposedOk ==
    ASSUME DiskInv, NEW b \in DiskBlock, NEW canonical \in BOOLEAN, Disk!CommitProposed(b, canonical)
    PROVE  DiskInv'
  <1> DEFINE cb == Disk!Op("create_body", b)
             wb == Disk!Op("write_body", b)
             ch == Disk!Op("create_header", b)
             wh == Disk!Op("write_header", b)
             uc == Disk!Op("update_cache", b)
             sl == [op |-> "symlink", block |-> b, link |-> "proposed"]
             rn == [op |-> "rename", block |-> b, link |-> "proposed"]
  <1>1. /\ Disk!Idle
        /\ todo' = Disk!WriteOps(b) \o (IF canonical THEN Disk!LinkOps("proposed", b) ELSE <<>>) \o <<uc>>
        /\ proposed' = proposed \cup {b}
        /\ UNCHANGED <<headers, bodies, head, block_cache, block_cache_index, payload_cache>>
    BY DEF Disk!CommitProposed, Disk!disk, Disk!cache
  <1>2. /\ Disk!WriteOps(b) = <<cb, wb, ch, wh>>
        /\ Disk!LinkOps("proposed", b) = <<sl, rn>>
    BY DEF Disk!WriteOps, Disk!LinkOps
  <1>3. /\ cb \in OpType /\ wb \in OpType /\ ch \in OpType /\ wh \in OpType /\ uc \in OpType
        /\ sl \in OpType /\ rn \in OpType
        /\ cb.op = "create_body" /\ wb.op = "write_body" /\ ch.op = "create_header" /\ wh.op = "write_header"
        /\ uc.op = "update_cache" /\ sl.op = "symlink" /\ rn.op = "rename"
        /\ cb.block = b /\ ch.block = b /\ wh.block = b /\ uc.block = b /\ rn.block = b
        /\ rn.link \in Disk!Heads
    BY OpTyped DEF Disk!Heads
  <1> HIDE DEF cb, wb, ch, wh, uc, sl, rn
  <1>4. /\ todo' \in Seq(OpType) /\ todo'[1] = cb /\ todo'[2] = wb /\ todo'[3] = ch /\ todo'[4] = wh
        /\ \/ Len(todo') = 5 /\ todo'[5] = uc
           \/ Len(todo') = 7 /\ todo'[5] = sl /\ todo'[6] = rn /\ todo'[7] = uc
    <2> DEFINE s1 == <<cb, wb, ch, wh>>
               s2 == IF canonical THEN <<sl, rn>> ELSE <<>>
               s3 == <<uc>>
    <2>1. /\ s1 \in Seq(OpType) /\ Len(s1) = 4 /\ s1[1] = cb /\ s1[2] = wb /\ s1[3] = ch /\ s1[4] = wh
          /\ s3 \in Seq(OpType) /\ Len(s3) = 1 /\ s3[1] = uc
      BY <1>3
    <2>2. /\ s2 \in Seq(OpType)
          /\ Len(s2) = 0 \/ (Len(s2) = 2 /\ s2[1] = sl /\ s2[2] = rn)
      BY <1>3
    <2>3. todo' = (s1 \o s2) \o s3
      BY <1>1, <1>2
    <2> HIDE DEF s1, s2, s3
    <2> DEFINE s12 == s1 \o s2
    <2>4. todo' = s12 \o s3
      BY <2>3
    <2>5. /\ s12 \in Seq(OpType) /\ Len(s12) = Len(s1) + Len(s2)
          /\ \A k \in 1..Len(s1) + Len(s2) : s12[k] = IF k <= Len(s1) THEN s1[k] ELSE s2[k - Len(s1)]
      <3>1. s1 \in Seq(OpType) /\ s2 \in Seq(OpType)
        BY <2>1, <2>2
      <3> QED BY <3>1
    <2> HIDE DEF s12
    <2>6. /\ todo' \in Seq(OpType) /\ Len(todo') = Len(s12) + Len(s3)
          /\ \A k \in 1..Len(s12) + Len(s3) : todo'[k] = IF k <= Len(s12) THEN s12[k] ELSE s3[k - Len(s12)]
      <3>1. s12 \in Seq(OpType) /\ s3 \in Seq(OpType)
        BY <2>1, <2>5
      <3> QED BY <2>4, <3>1
    <2>7. CASE Len(s2) = 0
      <3>1. Len(s12) = 4 /\ Len(todo') = 5 /\ \A k \in 1..4 : s12[k] = s1[k]
        BY <2>1, <2>5, <2>6, <2>7
      <3>2. todo'[5] = s3[1] /\ \A k \in 1..4 : todo'[k] = s12[k]
        BY <2>1, <2>6, <3>1
      <3> QED BY <2>1, <2>6, <3>1, <3>2
    <2>8. CASE Len(s2) = 2 /\ s2[1] = sl /\ s2[2] = rn
      <3>1. /\ Len(s12) = 6 /\ Len(todo') = 7 /\ s12[5] = s2[1] /\ s12[6] = s2[2]
            /\ \A k \in 1..4 : s12[k] = s1[k]
        BY <2>1, <2>5, <2>6, <2>8
      <3>2. todo'[7] = s3[1] /\ \A k \in 1..6 : todo'[k] = s12[k]
        BY <2>1, <2>6, <3>1
      <3> QED BY <2>1, <2>6, <2>8, <3>1, <3>2
    <2> QED BY <2>2, <2>7, <2>8
  <1>6. TodoOk'
    <2>1. CASE Len(todo') = 5 /\ todo'[5] = uc
      BY <1>3, <1>4, <2>1 DEF TodoOk, BodyDue, HeaderDue, Disk!Heads
    <2>2. CASE Len(todo') = 7 /\ todo'[5] = sl /\ todo'[6] = rn /\ todo'[7] = uc
      BY <1>3, <1>4, <2>2 DEF TodoOk, BodyDue, HeaderDue, Disk!Heads
    <2> QED BY <1>4, <2>1, <2>2
  <1>7. ProposedOk'
    <2>1. todo'[3] = ch /\ Len(todo') \in {5, 7}
      BY <1>4
    <2>2. HeaderDue(b, Len(todo) + 1)'
      BY <1>3, <2>1 DEF HeaderDue
    <2>3. \A x \in proposed : headers'[x] # "absent"
      BY <1>1, IdleHeaders
    <2> QED BY <1>1, <2>2, <2>3 DEF ProposedOk, HeaderDue
  <1>8. DiskType' /\ Disk!DiskOrdered'
    BY <1>1, <1>4 DEF DiskInv, DiskType, Disk!DiskOrdered, Disk!Heads
  <1> QED BY <1>6, <1>7, <1>8 DEF DiskInv

LEMMA CommitVotedOk ==
    ASSUME DiskInv, NEW b \in DiskBlock, Disk!CommitVoted(b) \/ Disk!CommitFinalized(b)
    PROVE  DiskInv'
  <1> DEFINE uc == Disk!Op("update_cache", b)
             Sl(link) == [op |-> "symlink", block |-> b, link |-> link]
             Rn(link) == [op |-> "rename", block |-> b, link |-> link]
  <1>1. /\ Disk!Idle /\ b \in proposed
        /\ \/ todo' = <<uc>> \o Disk!LinkOps("voted", b)
           \/ todo' = Disk!LinkOps("finalized", b)
        /\ UNCHANGED <<headers, bodies, head, block_cache, block_cache_index, payload_cache, proposed>>
    BY DEF Disk!CommitVoted, Disk!CommitFinalized, Disk!disk, Disk!cache
  <1>2. \A link : Disk!LinkOps(link, b) = <<Sl(link), Rn(link)>>
    BY DEF Disk!LinkOps
  <1>3. /\ uc \in OpType /\ uc.op = "update_cache" /\ uc.block = b
        /\ \A link \in Disk!Heads :
             /\ Sl(link) \in OpType /\ Rn(link) \in OpType
             /\ Sl(link).op = "symlink" /\ Rn(link).op = "rename"
             /\ Rn(link).block = b /\ Rn(link).link = link
        /\ "voted" \in Disk!Heads /\ "finalized" \in Disk!Heads
    BY OpTyped DEF Disk!Heads
  <1> HIDE DEF uc, Sl, Rn
  <1>4. /\ todo' \in Seq(OpType)
        /\ \/ /\ Len(todo') = 3
              /\ todo'[1] = uc /\ todo'[2] = Sl("voted") /\ todo'[3] = Rn("voted")
           \/ Len(todo') = 2 /\ todo'[1] = Sl("finalized") /\ todo'[2] = Rn("finalized")
    <2>1. CASE todo' = <<uc>> \o <<Sl("voted"), Rn("voted")>>
      <3> DEFINE s1 == <<uc>>
                 s2 == <<Sl("voted"), Rn("voted")>>
      <3>1. /\ s1 \in Seq(OpType) /\ Len(s1) = 1 /\ s1[1] = uc
            /\ s2 \in Seq(OpType) /\ Len(s2) = 2 /\ s2[1] = Sl("voted") /\ s2[2] = Rn("voted")
        BY <1>3
      <3>2. todo' = s1 \o s2
        BY <2>1
      <3> HIDE DEF s1, s2
      <3>3. s1 \in Seq(OpType) /\ s2 \in Seq(OpType)
        BY <3>1
      <3>4. /\ todo' \in Seq(OpType) /\ Len(todo') = Len(s1) + Len(s2)
            /\ \A k \in 1..Len(s1) + Len(s2) : todo'[k] = IF k <= Len(s1) THEN s1[k] ELSE s2[k - Len(s1)]
        BY <3>2, <3>3
      <3> QED BY <3>1, <3>4
    <2>2. CASE todo' = <<Sl("finalized"), Rn("finalized")>>
      BY <1>3, <2>2
    <2> QED BY <1>1, <1>2, <2>1, <2>2
  <1>6. headers'[b] # "absent" /\ \A x \in proposed' : headers'[x] # "absent"
    BY <1>1, IdleHeaders
  <1>7. TodoOk'
    BY <1>3, <1>4, <1>6 DEF TodoOk, HeaderDue, Disk!Heads
  <1>8. ProposedOk'
    BY <1>6 DEF ProposedOk, HeaderDue
  <1>9. DiskType' /\ Disk!DiskOrdered'
    BY <1>1, <1>4 DEF DiskInv, DiskType, Disk!DiskOrdered, Disk!Heads
  <1> QED BY <1>7, <1>8, <1>9 DEF DiskInv

(* The process dies between two operations.                                *)
LEMMA CrashOk ==
    ASSUME DiskInv, Disk!Crash
    PROVE  DiskInv'
  BY DEF DiskInv, DiskType, TodoOk, ProposedOk, Disk!DiskOrdered, Disk!Crash, Disk!disk, Disk!Heads

LEMMA StepOk ==
    ASSUME None \notin DiskBlock, DiskInv, Disk!Step
    PROVE  DiskInv'
  <1> DEFINE o == Head(todo)
             b == o.block
  <1>0. /\ todo # <<>> /\ proposed' = proposed
        /\ \/ o.op = "create_body" /\ Disk!CreateBody(b)
           \/ o.op = "write_body" /\ Disk!WriteBody(b)
           \/ o.op = "create_header" /\ Disk!CreateHeader(b)
           \/ o.op = "write_header" /\ Disk!WriteHeader(b)
           \/ o.op = "symlink" /\ Disk!Symlink(o.link)
           \/ o.op = "rename" /\ Disk!Rename(o.link, b)
           \/ o.op = "update_cache" /\ Disk!UpdateCache(b)
    BY DEF Disk!Step
  <1>1. todo \in Seq(OpType) /\ Len(todo) \in Nat /\ Len(todo) > 0
    BY <1>0 DEF DiskInv, DiskType
  <1>2. o = todo[1] /\ o \in OpType /\ b \in DiskBlock /\ 1 \in 1..Len(todo)
    <2>1. o = todo[1] /\ todo[1] \in OpType /\ 1 \in 1..Len(todo)
      BY <1>1
    <2> QED BY <2>1 DEF OpType
  <1>3. /\ Tail(todo) \in Seq(OpType) /\ Len(Tail(todo)) = Len(todo) - 1
        /\ \A i \in 1..Len(Tail(todo)) : Tail(todo)[i] = todo[i + 1]
    BY <1>1
  <1>4. o.op \in {"create_body", "create_header"} =>
           /\ Tail(Tail(todo)) \in Seq(OpType) /\ Len(Tail(Tail(todo))) = Len(todo) - 2
           /\ \A i \in 1..Len(Tail(Tail(todo))) : Tail(Tail(todo))[i] = todo[i + 2]
           /\ todo[2].op \in {"write_body", "write_header"} /\ 2 <= Len(todo)
    <2> SUFFICES ASSUME o.op \in {"create_body", "create_header"}
                 PROVE  /\ Tail(Tail(todo)) \in Seq(OpType) /\ Len(Tail(Tail(todo))) = Len(todo) - 2
                        /\ \A i \in 1..Len(Tail(Tail(todo))) : Tail(Tail(todo))[i] = todo[i + 2]
                        /\ todo[2].op \in {"write_body", "write_header"} /\ 2 <= Len(todo)
      OBVIOUS
    <2>1. 1 < Len(todo) /\ todo[1 + 1].op \in {"write_body", "write_header"}
      BY <1>2 DEF DiskInv, TodoOk
    <2>2. Tail(todo) # <<>>
      <3>1. Len(Tail(todo)) # 0
        BY <1>1, <1>3, <2>1
      <3>2. Len(<<>>) = 0
        OBVIOUS
      <3> QED BY <3>1, <3>2, Zenon
    <2> DEFINE s == Tail(todo)
    <2>3. s \in Seq(OpType) /\ s # <<>> /\ Len(s) = Len(todo) - 1
      BY <1>3, <2>2
    <2> HIDE DEF s
    <2>4. /\ Tail(s) \in Seq(OpType) /\ Len(Tail(s)) = Len(s) - 1
          /\ \A i \in 1..Len(Tail(s)) : Tail(s)[i] = s[i + 1]
      BY <2>3
    <2>5. \A i \in 1..Len(Tail(s)) : i + 1 \in 1..Len(s) /\ (i + 1) + 1 = i + 2
      BY <1>1, <2>3, <2>4
    <2>6. \A i \in 1..Len(Tail(s)) : Tail(s)[i] = todo[i + 2]
      BY <1>3, <2>4, <2>5 DEF s
    <2> QED BY SMTT(30), <1>1, <2>1, <2>3, <2>4, <2>6 DEF s
  <1>5. /\ headers \in [DiskBlock -> File] /\ bodies \in [BodyIds -> File] /\ Body[b] \in BodyIds
        /\ head \in [Disk!Heads -> DiskBlock \cup {None}]
    BY <1>2 DEF DiskInv, DiskType, BodyIds
  <1>6. /\ o.op \in {"create_header", "write_header"} => bodies[Body[b]] # "absent"
        /\ o.op \in {"rename", "update_cache"} => headers[b] # "absent"
        /\ o.op = "rename" => o.link \in Disk!Heads
    BY SMTT(30), <1>2 DEF DiskInv, TodoOk, BodyDue, HeaderDue
  <1> HIDE DEF o, b
  <1> DEFINE Kept ==
                /\ \A x \in DiskBlock : headers[x] # "absent" => headers'[x] # "absent"
                /\ \A x \in DiskBlock : bodies[Body[x]] # "absent" => bodies'[Body[x]] # "absent"
                /\ o.op = "create_header" => headers'[b] # "absent"
                /\ o.op = "create_body" => bodies'[Body[b]] # "absent"
  <1>7. ASSUME Kept, todo' = Tail(todo) PROVE TodoOk' /\ ProposedOk'
    <2>1. /\ 1 \in 1..2 /\ 1 <= Len(todo)
          /\ todo' \in Seq(OpType) /\ Len(todo') = Len(todo) - 1
          /\ \A i \in 1..Len(todo') : todo'[i] = todo[i + 1]
      BY <1>1, <1>3, <1>7
    <2>2. \A j \in 1..1 : /\ todo[j].op = "create_header" => headers'[todo[j].block] # "absent"
                          /\ todo[j].op = "create_body" => bodies'[Body[todo[j].block]] # "absent"
      BY <1>2, <1>7 DEF b
    <2> QED BY ZenonT(40), <1>0, <1>7, <2>1, <2>2, TodoShrinks
  <1>8. ASSUME Kept, todo' = Tail(Tail(todo)), o.op \in {"create_body", "create_header"}
         PROVE  TodoOk' /\ ProposedOk'
    <2>1. /\ 2 \in 1..2 /\ 2 <= Len(todo)
          /\ todo' \in Seq(OpType) /\ Len(todo') = Len(todo) - 2
          /\ \A i \in 1..Len(todo') : todo'[i] = todo[i + 2]
      BY <1>4, <1>8
    <2>2. \A j \in 1..2 : /\ todo[j].op = "create_header" => headers'[todo[j].block] # "absent"
                          /\ todo[j].op = "create_body" => bodies'[Body[todo[j].block]] # "absent"
      BY <1>2, <1>4, <1>8 DEF b
    <2> QED BY <1>0, <1>8, <2>1, <2>2, TodoShrinks
  <1>9. CASE o.op = "create_body" /\ Disk!CreateBody(b)
    <2>1. /\ bodies' = Disk!Create(bodies, Body[b])
          /\ todo' = IF bodies[Body[b]] = "absent" THEN Tail(todo) ELSE Tail(Tail(todo))
          /\ UNCHANGED <<headers, head, block_cache, block_cache_index, payload_cache>>
      BY <1>9 DEF Disk!CreateBody, Disk!AfterCreate, Disk!cache
    <2>2. bodies' \in [BodyIds -> File] /\ bodies'[Body[b]] # "absent"
          /\ \A x \in BodyIds : bodies[x] # "absent" => bodies'[x] # "absent"
      BY <1>5, <2>1 DEF Disk!Create, File
    <2>3. DiskType'
      BY <1>0, <1>3, <1>4, <1>9, <2>1, <2>2 DEF DiskInv, DiskType
    <2>4. \A x \in DiskBlock : Body[x] \in BodyIds
      BY DEF BodyIds
    <2>5. Disk!DiskOrdered'
      BY <2>1, <2>2, <2>4 DEF DiskInv, DiskType, Disk!DiskOrdered
    <2>6. TodoOk' /\ ProposedOk'
      <3>1. CASE bodies[Body[b]] = "absent"
        BY <1>9, <1>7, <2>1, <2>2, <2>4, <3>1
      <3>2. CASE bodies[Body[b]] # "absent"
        BY <1>9, <1>8, <2>1, <2>2, <2>4, <3>2
      <3> QED BY <3>1, <3>2
    <2> QED BY <2>3, <2>5, <2>6 DEF DiskInv
  <1>10. CASE o.op = "write_body" /\ Disk!WriteBody(b)
    <2>1. /\ bodies' = [bodies EXCEPT ![Body[b]] = "whole"]
          /\ todo' = Tail(todo)
          /\ UNCHANGED <<headers, head, block_cache, block_cache_index, payload_cache>>
      BY <1>10 DEF Disk!WriteBody, Disk!cache
    <2>2. bodies' \in [BodyIds -> File]
          /\ \A x \in BodyIds : bodies[x] # "absent" => bodies'[x] # "absent"
      BY <1>5, <2>1 DEF File
    <2>3. DiskType'
      BY <1>0, <1>3, <2>1, <2>2 DEF DiskInv, DiskType
    <2>4. \A x \in DiskBlock : Body[x] \in BodyIds
      BY DEF BodyIds
    <2>5. Disk!DiskOrdered'
      BY <2>1, <2>2, <2>4 DEF DiskInv, DiskType, Disk!DiskOrdered
    <2>6. TodoOk' /\ ProposedOk'
      BY <1>10, <1>7, <2>1, <2>2, <2>4
    <2> QED BY <2>3, <2>5, <2>6 DEF DiskInv
  <1>11. CASE o.op = "create_header" /\ Disk!CreateHeader(b)
    <2>1. /\ headers' = Disk!Create(headers, b)
          /\ todo' = IF headers[b] = "absent" THEN Tail(todo) ELSE Tail(Tail(todo))
          /\ UNCHANGED <<bodies, head, block_cache, block_cache_index, payload_cache>>
      BY <1>11 DEF Disk!CreateHeader, Disk!AfterCreate, Disk!cache
    <2>2. /\ headers' \in [DiskBlock -> File] /\ headers'[b] # "absent"
          /\ \A x \in DiskBlock : headers[x] # "absent" => headers'[x] # "absent"
          /\ \A x \in DiskBlock : x # b => headers'[x] = headers[x]
      BY <1>2, <1>5, <2>1 DEF Disk!Create, File
    <2>3. DiskType'
      BY <1>0, <1>3, <1>4, <1>11, <2>1, <2>2 DEF DiskInv, DiskType
    <2>5. Disk!DiskOrdered'
      BY <1>6, <1>11, <2>1, <2>2 DEF DiskInv, DiskType, Disk!DiskOrdered
    <2>6. TodoOk' /\ ProposedOk'
      <3>1. CASE headers[b] = "absent"
        BY <1>11, <1>7, <2>1, <2>2, <3>1
      <3>2. CASE headers[b] # "absent"
        BY <1>11, <1>8, <2>1, <2>2, <3>2
      <3> QED BY <3>1, <3>2
    <2> QED BY <2>3, <2>5, <2>6 DEF DiskInv
  <1>12. CASE o.op = "write_header" /\ Disk!WriteHeader(b)
    <2>1. /\ headers' = [headers EXCEPT ![b] = "whole"]
          /\ todo' = Tail(todo)
          /\ UNCHANGED <<bodies, head, block_cache, block_cache_index, payload_cache>>
      BY <1>12 DEF Disk!WriteHeader, Disk!cache
    <2>2. /\ headers' \in [DiskBlock -> File] /\ headers'[b] # "absent"
          /\ \A x \in DiskBlock : headers[x] # "absent" => headers'[x] # "absent"
          /\ \A x \in DiskBlock : x # b => headers'[x] = headers[x]
      BY <1>2, <1>5, <2>1 DEF File
    <2>3. DiskType'
      BY <1>0, <1>3, <2>1, <2>2 DEF DiskInv, DiskType
    <2>5. Disk!DiskOrdered'
      BY <1>6, <1>12, <2>1, <2>2 DEF DiskInv, DiskType, Disk!DiskOrdered
    <2>6. TodoOk' /\ ProposedOk'
      BY <1>12, <1>7, <2>1, <2>2
    <2> QED BY <2>3, <2>5, <2>6 DEF DiskInv
  <1>13. CASE o.op = "symlink" /\ Disk!Symlink(o.link)
    <2>1. todo' = Tail(todo) /\ UNCHANGED <<headers, bodies, head, block_cache, block_cache_index, payload_cache>>
      BY <1>13 DEF Disk!Symlink, Disk!cache
    <2>2. DiskType' /\ Disk!DiskOrdered'
      BY <1>0, <1>3, <2>1 DEF DiskInv, DiskType, Disk!DiskOrdered
    <2>3. TodoOk' /\ ProposedOk'
      BY <1>13, <1>7, <2>1
    <2> QED BY <2>2, <2>3 DEF DiskInv
  <1>14. CASE o.op = "rename" /\ Disk!Rename(o.link, b)
    <2>1. /\ head' = [head EXCEPT ![o.link] = b]
          /\ todo' = Tail(todo) /\ UNCHANGED <<headers, bodies, block_cache, block_cache_index, payload_cache>>
      BY <1>14 DEF Disk!Rename, Disk!cache
    <2>2. head' \in [Disk!Heads -> DiskBlock \cup {None}]
          /\ \A h \in Disk!Heads : head'[h] = IF h = o.link THEN b ELSE head[h]
      BY <1>2, <1>5, <1>6, <1>14, <2>1
    <2>3. DiskType'
      BY <1>0, <1>3, <2>1, <2>2 DEF DiskInv, DiskType, Disk!Heads
    <2>4. Disk!DiskOrdered'
      BY <1>6, <1>14, <2>1, <2>2 DEF DiskInv, DiskType, Disk!DiskOrdered, Disk!Heads
    <2>5. TodoOk' /\ ProposedOk'
      BY <1>14, <1>7, <2>1
    <2> QED BY <2>3, <2>4, <2>5 DEF DiskInv
  <1>15. CASE o.op = "update_cache" /\ Disk!UpdateCache(b)
    <2>1. /\ block_cache_index' \subseteq block_cache_index \cup {b}
          /\ block_cache' \subseteq block_cache \cup {b}
          /\ payload_cache' \subseteq payload_cache \cup {Body[b]}
          /\ todo' = Tail(todo) /\ UNCHANGED <<headers, bodies, head>>
      BY <1>15 DEF Disk!UpdateCache, Disk!disk
    <2>2. DiskType'
      BY <1>0, <1>2, <1>3, <1>5, <2>1 DEF DiskInv, DiskType
    <2>3. headers[b] # "absent" /\ bodies[Body[b]] # "absent"
      BY <1>2, <1>6, <1>15 DEF DiskInv, Disk!DiskOrdered
    <2>4. Disk!DiskOrdered'
      BY <2>1, <2>3 DEF DiskInv, DiskType, Disk!DiskOrdered
    <2>5. TodoOk' /\ ProposedOk'
      BY <1>15, <1>7, <2>1
    <2> QED BY <2>2, <2>4, <2>5 DEF DiskInv
  <1> QED BY <1>0, <1>9, <1>10, <1>11, <1>12, <1>13, <1>14, <1>15 DEF o, b

(* For every set of blocks, with bodies shared or not, every size of the   *)
(* cache and however often the process dies: a header file has a body      *)
(* file, a head names a header file, and what is cached is on disk.        *)
THEOREM FilesStayOrdered ==
    ASSUME None \notin DiskBlock
    PROVE  Disk!Spec => []Disk!DiskOrdered
  <1>1. Disk!Init => DiskInv
    <2> SUFFICES ASSUME Disk!Init PROVE DiskInv
      OBVIOUS
    <2>1. DiskType
      BY DEF Disk!Init, DiskType, File, BodyIds
    <2>2. TodoOk /\ ProposedOk
      BY DEF Disk!Init, TodoOk, ProposedOk
    <2>3. Disk!DiskOrdered
      BY DEF Disk!Init, Disk!DiskOrdered
    <2> QED BY <2>1, <2>2, <2>3 DEF DiskInv
  <1>2. DiskInv /\ [Disk!Next]_(Disk!vars) => DiskInv'
    <2> SUFFICES ASSUME DiskInv, [Disk!Next]_(Disk!vars) PROVE DiskInv'
      OBVIOUS
    <2>1. ASSUME NEW b \in DiskBlock, NEW is_canonical \in BOOLEAN, Disk!CommitProposed(b, is_canonical)
          PROVE  DiskInv'
      BY <2>1, CommitProposedOk
    <2>2. ASSUME NEW b \in DiskBlock, Disk!CommitVoted(b) \/ Disk!CommitFinalized(b) PROVE DiskInv'
      BY <2>2, CommitVotedOk
    <2>3. CASE Disk!Step
      BY <2>3, StepOk
    <2>4. CASE Disk!Crash
      BY <2>4, CrashOk
    <2>5. CASE UNCHANGED Disk!vars
      BY <2>5 DEF Disk!vars, DiskInv, DiskType, TodoOk, ProposedOk, BodyDue, HeaderDue, Disk!DiskOrdered
    <2> QED BY <2>1, <2>2, <2>3, <2>4, <2>5 DEF Disk!Next
  <1>3. DiskInv => Disk!DiskOrdered
    BY DEF DiskInv
  <1> QED BY <1>1, <1>2, <1>3, PTL DEF Disk!Spec

-----------------------------------------------------------------------------
(* Vote collection, for every set of validators and quorums, any number of *)
(* faulty validators and any bound on early votes.                         *)

Qc == [round : Nat, id : Id]

(* Types; votes are never collected for rounds that are over, and a QC is  *)
(* only built for a round below every round votes are still accepted for.  *)
VotesType ==
    /\ current_round \in Nat /\ earliest_round \in Nat
    /\ pending_votes \subseteq Vote
    /\ delivered \subseteq Vote
    /\ built \in Seq(Qc)

BuiltBelow ==
    /\ earliest_round <= current_round
    /\ \A i \in DOMAIN built : built[i].round < earliest_round
    /\ \A i, j \in DOMAIN built : i < j => built[i].round < built[j].round

(* What is known of honest validators' votes: they are well signed, one a  *)
(* round, and held as long as they can still count.                        *)
HonestVotes ==
    /\ \A w \in delivered : w.valid /\ w.node \in Honest
    /\ \A w \in pending_votes : w.node \in Honest => w.valid
    /\ \A i \in invalid_voters : i.node \notin Honest
    /\ \A w \in delivered : w.round >= current_round => w \in pending_votes

(* Who of a collection of votes has voted for a block in a round *)
Held(votes, r, id) == {w.node : w \in {x \in votes : x.round = r /\ x.id = id}}

(* No block's supermajority is sat on. *)
NoQuorumHeld ==
    \A r \in Nat, id \in Id :
        r >= earliest_round =>
            ~ HasSuperMajorityVotes(Held(pending_votes, r, id))

VotesInv == VotesType /\ BuiltBelow /\ HonestVotes /\ NoQuorumHeld
-----------------------------------------------------------------------------
(* A larger set of voters has a supermajority if a smaller one has. *)
LEMMA MoreVoters ==
    ASSUME NEW S, NEW T, S \subseteq T, HasSuperMajorityVotes(S)
    PROVE  HasSuperMajorityVotes(T)
  BY DEF HasSuperMajorityVotes

(* What process_vote returns, for a vote of a voter who is not barred.     *)
(* Honest votes stay, no honest validator is barred, and if no QC comes    *)
(* out the vote's bucket holds no supermajority.                           *)
LEMMA ProcessVoteOk ==
    ASSUME VotesType, HonestVotes, NEW v \in Vote, v.node \in Honest => v.valid
    PROVE  LET p == ProcessVote(v) IN
           /\ p.qc \in BOOLEAN
           /\ p.votes \subseteq Vote
           /\ \A w \in p.votes : w.node \in Honest => w.valid
           /\ \A i \in p.barred : i.node \notin Honest
           /\ v.node \in Honest => v \in p.votes
           /\ \A w \in pending_votes : w.node \in Honest => w \in p.votes
           /\ \A w \in p.votes : w \in pending_votes \/ w = v
           /\ ~ p.qc => ~ HasSuperMajorityVotes(Voters(Bucket(p.votes, v)))
  <1> DEFINE votes  == InsertVote(v)
             bad    == {w \in Bucket(votes, v) : ~ w.valid}
             barred == invalid_voters \cup {Voter(w) : w \in bad}
             good   == IF bad = {} THEN votes ELSE HandleInvalidVote(votes, v, barred)
  <1>1. /\ votes \subseteq Vote /\ v \in votes
        /\ \A w \in votes : w.node \in Honest => w.valid
        /\ \A w \in votes : w \in pending_votes \/ w = v
    BY DEF InsertVote, VotesType, HonestVotes
  <1>2. \A w \in pending_votes : w.node \in Honest => w \in votes
    <2> SUFFICES ASSUME NEW w \in pending_votes, w.node \in Honest, w \notin votes PROVE FALSE
      OBVIOUS
    <2>1. w.node = v.node /\ w.round = v.round /\ w.id = v.id
      BY DEF InsertVote, Bucket
    <2>2. w.valid = TRUE /\ v.valid = TRUE
      BY <2>1 DEF HonestVotes, VotesType, Vote
    <2>3. w = v
      BY <2>1, <2>2 DEF VotesType, Vote
    <2> QED BY <2>3 DEF InsertVote
  <1>3. \A i \in barred : i.node \notin Honest
    BY <1>1 DEF Bucket, Voter, HonestVotes
  <1>4. /\ good \subseteq votes
        /\ \A w \in votes : w.node \in Honest => w \in good
    BY <1>3 DEF HandleInvalidVote, Voter
  <1>5. ProcessVote(v) =
          IF ~ HasSuperMajorityVotes(Voters(Bucket(votes, v)))
          THEN [votes |-> votes, barred |-> invalid_voters, qc |-> FALSE]
          ELSE [votes |-> good, barred |-> barred,
                qc |-> HasSuperMajorityVotes(Voters(Bucket(good, v)))]
    BY DEF ProcessVote
  <1> HIDE DEF votes, barred, good
  <1>6. CASE ~ HasSuperMajorityVotes(Voters(Bucket(votes, v)))
    BY <1>1, <1>2, <1>5, <1>6 DEF HonestVotes
  <1>7. CASE HasSuperMajorityVotes(Voters(Bucket(votes, v)))
    <2>1. ProcessVote(v) = [votes |-> good, barred |-> barred,
                            qc |-> HasSuperMajorityVotes(Voters(Bucket(good, v)))]
      BY <1>5, <1>7
    <2>2. HasSuperMajorityVotes(Voters(Bucket(good, v))) \in BOOLEAN
      BY DEF HasSuperMajorityVotes
    <2> QED BY <1>1, <1>2, <1>3, <1>4, <2>1, <2>2
  <1> QED BY <1>6, <1>7

LEMMA HeldBucket ==
    ASSUME NEW votes, NEW v
    PROVE  Held(votes, v.round, v.id) = Voters(Bucket(votes, v))
  BY DEF Held, Voters, Bucket

(* start_new_round keeps every vote that can still count. *)
LEMMA NewRoundOk ==
    ASSUME NEW round \in Nat, NEW votes, NEW barred,
           votes \subseteq Vote,
           \A w \in votes : w.node \in Honest => w.valid,
           \A i \in barred : i.node \notin Honest,
           StartNewRound(round, votes, barred)
    PROVE  /\ earliest_round' = round
           /\ pending_votes' \subseteq votes
           /\ \A w \in pending_votes' : w.node \in Honest => w.valid
           /\ \A i \in invalid_voters' : i.node \notin Honest
           /\ \A w \in votes : w.round >= round => w \in pending_votes'
  BY DEF StartNewRound

LEMMA VotesInitOk == Init => VotesInv
  <1> SUFFICES ASSUME Init PROVE VotesInv
    OBVIOUS
  <1>1. VotesType /\ BuiltBelow /\ HonestVotes
    BY DEF Init, VotesType, BuiltBelow, HonestVotes
  <1>2. NoQuorumHeld
    <2> SUFFICES ASSUME NEW r, NEW id, HasSuperMajorityVotes(Held({}, r, id)) PROVE FALSE
      BY DEF Init, NoQuorumHeld
    <2> QED BY QuorumAssumption DEF Held, HasSuperMajorityVotes
  <1> QED BY <1>1, <1>2 DEF VotesInv

(* handle_vote_message preserves the invariant. *)
LEMMA VoteMessageOk ==
    ASSUME VotesInv, NEW v \in Vote, Sendable(v), HandleVoteMessage(v)
    PROVE  VotesInv'
  <1> USE DEF VotesInv
  <1> DEFINE p == ProcessVote(v)
  <1>1. /\ v.round \in Nat /\ v.id \in Id
        /\ v.node \in Honest => v.valid
        /\ v.round >= current_round
    BY BoundsAssumption DEF Vote, Sendable, HandleVoteMessage
  <1>2. /\ p.qc \in BOOLEAN
        /\ p.votes \subseteq Vote
        /\ \A w \in p.votes : w.node \in Honest => w.valid
        /\ \A i \in p.barred : i.node \notin Honest
        /\ v.node \in Honest => v \in p.votes
        /\ \A w \in pending_votes : w.node \in Honest => w \in p.votes
        /\ \A w \in p.votes : w \in pending_votes \/ w = v
        /\ ~ p.qc => ~ HasSuperMajorityVotes(Voters(Bucket(p.votes, v)))
    BY <1>1, ProcessVoteOk
  <1>2a. \/ /\ v.round < earliest_round \/ Voter(v) \in invalid_voters
           /\ UNCHANGED << current_round, earliest_round, pending_votes, invalid_voters, built >>
        \/ /\ v.round >= earliest_round
           /\ p.qc
           /\ built' = Append(built, [round |-> v.round, id |-> v.id])
           /\ current_round' = RoundAfter(v.round)
           /\ StartNewRound(current_round', p.votes, p.barred)
        \/ /\ v.round >= earliest_round
           /\ ~ p.qc
           /\ pending_votes' = p.votes /\ invalid_voters' = p.barred
           /\ UNCHANGED << current_round, earliest_round, built >>
    BY Zenon DEF HandleVoteMessage
  <1> HIDE DEF p
  <1>3. /\ delivered' \subseteq Vote
        /\ \A w \in delivered' : w.valid /\ w.node \in Honest
        /\ \A w \in delivered' : w \in delivered \/ (w = v /\ v.node \in Honest)
    BY <1>1 DEF HandleVoteMessage, VotesType, HonestVotes
  <1>4. CASE /\ v.round < earliest_round \/ Voter(v) \in invalid_voters
             /\ UNCHANGED << current_round, earliest_round, pending_votes, invalid_voters, built >>
    <2>1. UNCHANGED << current_round, earliest_round, pending_votes, invalid_voters, built >>
      BY <1>4
    <2>2. v.node \notin Honest
      BY <1>1, <1>4 DEF BuiltBelow, HonestVotes, VotesType, Voter
    <2>3. VotesType' /\ BuiltBelow' /\ NoQuorumHeld'
      BY <1>3, <2>1 DEF VotesType, BuiltBelow, NoQuorumHeld
    <2>4. HonestVotes'
      BY <1>3, <2>1, <2>2 DEF HonestVotes
    <2> QED BY <2>3, <2>4
  <1>5. CASE /\ v.round >= earliest_round
             /\ p.qc
             /\ built' = Append(built, [round |-> v.round, id |-> v.id])
             /\ current_round' = RoundAfter(v.round)
             /\ StartNewRound(current_round', p.votes, p.barred)
    <2> DEFINE round == v.round + 1
    <2>1. /\ built' = Append(built, [round |-> v.round, id |-> v.id])
          /\ current_round' = round
          /\ StartNewRound(round, p.votes, p.barred)
      BY <1>5 DEF RoundAfter
    <2>2. /\ earliest_round' = round
          /\ pending_votes' \subseteq p.votes
          /\ \A w \in pending_votes' : w.node \in Honest => w.valid
          /\ \A i \in invalid_voters' : i.node \notin Honest
          /\ \A w \in p.votes : w.round >= round => w \in pending_votes'
      BY <1>1, <1>2, <2>1, NewRoundOk
    <2>3. VotesType'
      <3>1. built' \in Seq(Qc)
        BY <1>1, <2>1 DEF VotesType, Qc
      <3> QED BY <1>1, <1>2, <1>3, <2>1, <2>2, <3>1 DEF VotesType
    <2>4. BuiltBelow'
      <3>1. /\ Len(built') = Len(built) + 1
            /\ DOMAIN built = 1..Len(built) /\ DOMAIN built' = 1..Len(built) + 1
            /\ \A i \in 1..Len(built) : built'[i] = built[i] /\ built[i] \in Qc
            /\ built'[Len(built) + 1].round = v.round
            /\ Len(built) \in Nat
        BY <2>1 DEF VotesType
      <3> QED BY <1>1, <1>5, <2>1, <2>2, <3>1 DEF BuiltBelow, VotesType, Qc
    <2>5. HonestVotes'
      <3> SUFFICES ASSUME NEW w \in delivered', w.round >= round PROVE w \in pending_votes'
        BY <1>3, <2>1, <2>2 DEF HonestVotes
      <3>1. w \in p.votes
        BY <1>1, <1>2, <1>3 DEF HonestVotes, VotesType, Vote
      <3> QED BY <2>2, <3>1
    <2>6. NoQuorumHeld'
      <3> SUFFICES ASSUME NEW r \in Nat, NEW id \in Id, r >= round,
                          HasSuperMajorityVotes(Held(pending_votes', r, id))
                   PROVE  FALSE
        BY <2>2 DEF NoQuorumHeld
      <3>1. Held(pending_votes', r, id) \subseteq Held(pending_votes, r, id)
        BY <1>1, <1>2, <2>2 DEF Held
      <3> QED BY <1>1, <1>5, <3>1, MoreVoters DEF NoQuorumHeld, VotesType
    <2> QED BY <2>3, <2>4, <2>5, <2>6
  <1>6. CASE /\ v.round >= earliest_round
             /\ ~ p.qc
             /\ pending_votes' = p.votes /\ invalid_voters' = p.barred
             /\ UNCHANGED << current_round, earliest_round, built >>
    <2>1. /\ pending_votes' = p.votes /\ invalid_voters' = p.barred
          /\ UNCHANGED << current_round, earliest_round, built >>
      BY <1>6
    <2>2. VotesType' /\ BuiltBelow'
      BY <1>2, <1>3, <2>1 DEF VotesType, BuiltBelow
    <2>3. HonestVotes'
      BY <1>2, <1>3, <2>1 DEF HonestVotes
    <2>4. NoQuorumHeld'
      <3> SUFFICES ASSUME NEW r \in Nat, NEW id \in Id, r >= earliest_round,
                          HasSuperMajorityVotes(Held(pending_votes', r, id))
                   PROVE  FALSE
        BY <2>1 DEF NoQuorumHeld
      <3>1. CASE r = v.round /\ id = v.id
        BY <1>2, <1>6, <2>1, <3>1, HeldBucket
      <3>2. CASE ~ (r = v.round /\ id = v.id)
        <4>1. Held(pending_votes', r, id) \subseteq Held(pending_votes, r, id)
          BY <1>2, <2>1, <3>2 DEF Held
        <4> QED BY <4>1, MoreVoters DEF NoQuorumHeld
      <3> QED BY <3>1, <3>2
    <2> QED BY <2>2, <2>3, <2>4
  <1> QED BY <1>2a, <1>4, <1>5, <1>6

(* A round entered by a QC or by a TC: the votes of later rounds stay. *)
LEMMA CertificateOk ==
    ASSUME VotesInv, NEW r \in 1..MaxRound, ProcessQc(r) \/ ProcessTc(r)
    PROVE  VotesInv'
  <1> USE DEF VotesInv
  <1>1. r \in Nat /\ r >= current_round /\ current_round' = r + 1
    BY BoundsAssumption DEF ProcessQc, ProcessTc, RoundAfter
  <1>2. UNCHANGED << delivered, built >>
    BY DEF ProcessQc, ProcessTc
  <1>3. CASE ProcessTc(r)
    <2>1. UNCHANGED << earliest_round, pending_votes, invalid_voters >>
      BY <1>3 DEF ProcessTc
    <2>2. VotesType' /\ BuiltBelow' /\ NoQuorumHeld'
      BY <1>1, <1>2, <2>1 DEF VotesType, BuiltBelow, NoQuorumHeld
    <2>3. HonestVotes'
      BY <1>1, <1>2, <2>1 DEF HonestVotes, VotesType, Vote
    <2> QED BY <2>2, <2>3
  <1>4. CASE ProcessQc(r)
    <2>1. StartNewRound(r + 1, pending_votes, invalid_voters)
      BY <1>4 DEF ProcessQc, RoundAfter
    <2>2. /\ earliest_round' = r + 1
          /\ pending_votes' \subseteq pending_votes
          /\ \A w \in pending_votes' : w.node \in Honest => w.valid
          /\ \A i \in invalid_voters' : i.node \notin Honest
          /\ \A w \in pending_votes : w.round >= r + 1 => w \in pending_votes'
      BY <1>1, <2>1, NewRoundOk DEF VotesType, HonestVotes
    <2>3. VotesType'
      BY <1>1, <1>2, <2>2 DEF VotesType
    <2>3a. BuiltBelow'
      <3>1. \A i \in DOMAIN built : built[i] \in Qc
        BY DEF VotesType
      <3> QED BY <1>1, <1>2, <2>2, <3>1 DEF VotesType, BuiltBelow, Qc
    <2>4. HonestVotes'
      <3> SUFFICES ASSUME NEW w \in delivered, w.round >= r + 1 PROVE w \in pending_votes'
        BY <1>1, <1>2, <2>2 DEF HonestVotes
      <3>1. w.round >= current_round
        BY <1>1 DEF VotesType, Vote
      <3> QED BY <2>2, <3>1 DEF HonestVotes
    <2>5. NoQuorumHeld'
      <3> SUFFICES ASSUME NEW q \in Nat, NEW id \in Id, q >= r + 1,
                          HasSuperMajorityVotes(Held(pending_votes', q, id))
                   PROVE  FALSE
        BY <2>2 DEF NoQuorumHeld
      <3>1. Held(pending_votes', q, id) \subseteq Held(pending_votes, q, id)
        BY <2>2 DEF Held
      <3>2. q >= earliest_round
        BY <1>1 DEF VotesType, BuiltBelow
      <3> QED BY <3>1, <3>2, MoreVoters DEF NoQuorumHeld
    <2> QED BY <2>3, <2>3a, <2>4, <2>5
  <1> QED BY <1>3, <1>4

LEMMA VotesNextOk == VotesInv /\ [Next]_vars => VotesInv'
  <1> SUFFICES ASSUME VotesInv, [Next]_vars PROVE VotesInv'
    OBVIOUS
  <1>1. CASE UNCHANGED vars
    BY <1>1 DEF VotesInv, vars, VotesType, BuiltBelow, HonestVotes, NoQuorumHeld
  <1>2. CASE Next
    BY <1>2, VoteMessageOk, CertificateOk DEF Next
  <1> QED BY <1>1, <1>2
-----------------------------------------------------------------------------
(* The inductive invariant holds in every reachable state. *)
THEOREM VotesInvariance == Spec => []VotesInv
  BY VotesInitOk, VotesNextOk, PTL DEF Spec

(* process_vote builds at most one QC for a round, whatever order votes,   *)
(* QCs and TCs come in and whoever signs badly: a QC's round is below      *)
(* earliest_round from then on, and earliest_round never falls, although   *)
(* process_tc leaves it behind.                                            *)
THEOREM OneQcIsBuilt == Spec => []OneQcBuilt
  <1>1. VotesInv => OneQcBuilt
    <2> SUFFICES ASSUME VotesInv, NEW i \in DOMAIN built, NEW j \in DOMAIN built,
                        built[i].round = built[j].round
                 PROVE  i = j
      BY DEF OneQcBuilt
    <2>1. i \in 1..Len(built) /\ j \in 1..Len(built) /\ built[i] \in Qc
      BY DEF VotesInv, VotesType
    <2>2. i \in Nat /\ j \in Nat /\ built[i].round \in Nat
      BY <2>1 DEF Qc, VotesInv, VotesType
    <2> QED BY <2>2 DEF VotesInv, BuiltBelow
  <1> QED BY <1>1, VotesInvariance, PTL

(* No honest vote is lost while it can count: a supermajority of honest    *)
(* votes for a block has made its QC and ended the round, however many     *)
(* faulty validators mixed in bad signatures.                              *)
THEOREM NoVoteIsLost == Spec => []NothingLost
  <1>1. VotesInv => NothingLost
    <2> SUFFICES ASSUME VotesInv, NEW r \in current_round..MaxRound, NEW id \in Id,
                        HasSuperMajorityVotes(Held(delivered, r, id))
                 PROVE  FALSE
      BY DEF NothingLost, Held
    <2>1. r \in Nat /\ r >= current_round /\ r >= earliest_round
      BY BoundsAssumption DEF VotesInv, VotesType, BuiltBelow
    <2>2. Held(delivered, r, id) \subseteq Held(pending_votes, r, id)
      BY <2>1 DEF Held, VotesInv, HonestVotes
    <2> QED BY <2>1, <2>2, MoreVoters DEF VotesInv, NoQuorumHeld
  <1> QED BY <1>1, VotesInvariance, PTL

-----------------------------------------------------------------------------
(* ReplayFilter, for every size of the window and every greatest counter.  *)
(* v1 is next, v2 the bitmap and v3 the counters accepted.                 *)

(* Every variable holds values of the source's types. *)
FilterType ==
    /\ v1 \in Filter!Counter /\ v3 \subseteq Filter!Counter
    /\ v2 \subseteq 0..window.REPLAY_WINDOW_BITS - 1

(* next follows the greatest counter accepted, and stops at the last one.  *)
NextFollows ==
    /\ \A c \in v3 : c < v1 \/ (c = window.MaxCounter /\ v1 = window.MaxCounter)
    /\ v1 = 0 \/ v1 = window.MaxCounter \/ v1 - 1 \in v3

(* The ring tells which of the last REPLAY_WINDOW_BITS counters came.      *)
RingExact ==
    v1 < window.MaxCounter =>
        \A i \in Filter!Counter : i < v1 /\ i + window.REPLAY_WINDOW_BITS >= v1 =>
            (Filter!Bit(i) \in v2 <=> i \in v3)

FilterInv == FilterType /\ NextFollows /\ RingExact

LEMMA Division ==
    ASSUME NEW w \in Nat \ {0}, NEW i \in Nat
    PROVE  i = w * (i \div w) + (i % w) /\ i % w \in 0..w - 1 /\ i \div w \in Nat
  OBVIOUS

LEMMA MultipleLarge ==
    ASSUME NEW w \in Nat \ {0}, NEW k \in Int, k > 0
    PROVE  w * k >= w
  OBVIOUS

(* Counters less than a window apart have different places in the ring.    *)
LEMMA PlacesDiffer ==
    ASSUME NEW w \in Nat \ {0}, NEW i \in Nat, NEW j \in Nat, i < j, j - i < w
    PROVE  i % w # j % w
  <1> DEFINE a == i \div w
             b == j \div w
             m == i % w
             n == j % w
  <1>1. i = w * a + m /\ m \in 0..w - 1 /\ a \in Nat
    BY Division
  <1>2. j = w * b + n /\ n \in 0..w - 1 /\ b \in Nat
    BY Division
  <1>3. SUFFICES ASSUME m = n PROVE FALSE
    OBVIOUS
  <1> HIDE DEF a, b, m, n
  <1>4. j - i = w * b - w * a
    <2>1. w * b \in Int /\ w * a \in Int
      BY <1>1, <1>2
    <2> QED BY <1>1, <1>2, <1>3, <2>1
  <1>5. w * b - w * a = w * (b - a)
    BY <1>1, <1>2
  <1>6. CASE b - a > 0
    BY <1>1, <1>2, <1>4, <1>5, <1>6, MultipleLarge
  <1>7. CASE b <= a
    <2>1. w * (a - b) >= 0
      BY <1>1, <1>2, <1>7
    <2>2. w * (b - a) = -(w * (a - b))
      BY <1>1, <1>2
    <2>3. w * (a - b) \in Int /\ w * (b - a) \in Int
      BY <1>1, <1>2
    <2> QED BY <1>4, <1>5, <2>1, <2>2, <2>3
  <1> QED BY <1>1, <1>2, <1>6, <1>7

LEMMA BitsDiffer ==
    ASSUME Filter!ConstantsOk
    PROVE  /\ \A i \in Filter!Counter : Filter!Bit(i) \in 0..window.REPLAY_WINDOW_BITS - 1
           /\ \A i, j \in Filter!Counter :
                 i < j /\ j - i < window.REPLAY_WINDOW_BITS => Filter!Bit(i) # Filter!Bit(j)
  <1>0. window.REPLAY_WINDOW_BITS \in Nat \ {0} /\ Filter!Counter \subseteq Nat
    BY DEF Filter!ConstantsOk, Filter!Counter
  <1>1. \A i \in Filter!Counter : Filter!Bit(i) \in 0..window.REPLAY_WINDOW_BITS - 1
    BY <1>0, Division DEF Filter!Bit
  <1>2. \A i, j \in Filter!Counter : i < j /\ j - i < window.REPLAY_WINDOW_BITS => Filter!Bit(i) # Filter!Bit(j)
    BY <1>0, PlacesDiffer DEF Filter!Bit
  <1> QED BY <1>1, <1>2

(* A packet is accepted: the window moves up to its counter, if it is      *)
(* ahead, over places of counters that have left the window.               *)
LEMMA DecryptOk ==
    ASSUME Filter!ConstantsOk, FilterInv, NEW counter \in Filter!Counter, Filter!Decrypt(counter)
    PROVE  FilterInv'
  <1> DEFINE W == window.REPLAY_WINDOW_BITS
  <1>0. /\ W \in Nat /\ W > 0 /\ window.MaxCounter \in Nat /\ window.MaxCounter > 0
        /\ counter \in Nat /\ counter <= window.MaxCounter
        /\ v1 \in Nat /\ v1 <= window.MaxCounter
    BY DEF Filter!ConstantsOk, FilterInv, FilterType, Filter!Counter
  <1>1. /\ Filter!CheckOk(counter)
        /\ v2' = Filter!Cleared(counter) \cup {Filter!Bit(counter)}
        /\ v1' = IF counter >= v1 THEN Filter!SaturatingAdd(counter, 1) ELSE v1
        /\ v3' = v3 \cup {counter}
    BY DEF Filter!Decrypt, Filter!Update
  <1>2. /\ Filter!Cleared(counter) \subseteq v2
        /\ Filter!Bit(counter) \in 0..W - 1
    BY BitsDiffer DEF Filter!Cleared
  <1>3. v1' \in Nat /\ v1' <= window.MaxCounter
        /\ (counter >= v1 => v1' = IF counter = window.MaxCounter THEN window.MaxCounter ELSE counter + 1)
        /\ (counter < v1 => v1' = v1)
    BY <1>0, <1>1 DEF Filter!SaturatingAdd
  <1>4. FilterType'
    <2>1. v1' \in Filter!Counter
      BY <1>0, <1>3 DEF Filter!Counter
    <2>2. v3' \subseteq Filter!Counter
      BY <1>1 DEF FilterInv, FilterType
    <2>3. v2 \subseteq 0..W - 1
      BY DEF FilterInv, FilterType
    <2>4. v2' \subseteq 0..W - 1
      BY <1>1, <1>2, <2>3, Zenon
    <2> QED BY <2>1, <2>2, <2>4 DEF FilterType, Filter!Counter
  <1>5. \A c \in v3 : c \in Nat /\ c <= window.MaxCounter
    BY DEF FilterInv, FilterType, Filter!Counter, Filter!ConstantsOk
  <1>6. NextFollows'
    <2>1. CASE counter >= v1
      BY <1>0, <1>1, <1>3, <1>5, <2>1 DEF FilterInv, NextFollows
    <2>2. CASE counter < v1
      BY <1>0, <1>1, <1>3, <1>5, <2>2 DEF FilterInv, NextFollows
    <2> QED BY <1>0, <2>1, <2>2
  <1>7. RingExact'
    <2> SUFFICES ASSUME v1' < window.MaxCounter, NEW i \in Filter!Counter, i < v1', i + W >= v1'
                 PROVE  Filter!Bit(i) \in v2' <=> i \in v3'
      BY DEF RingExact
    <2>0. i \in Nat /\ v1 < window.MaxCounter
      BY <1>0, <1>3 DEF Filter!Counter, Filter!ConstantsOk
    <2>1. CASE i = counter
      BY <1>1, <2>1
    <2>2. CASE i # counter /\ counter < v1
      <3>1. v1' = v1 /\ Filter!Cleared(counter) = v2
        BY <1>0, <1>3, <2>2 DEF Filter!Cleared
      <3>2. counter + W > v1
        BY <1>0, <1>1, <2>0, <2>2 DEF Filter!CheckOk, Filter!SaturatingAdd
      <3>3. Filter!Bit(i) # Filter!Bit(counter)
        BY <1>0, <2>0, <2>2, <3>1, <3>2, BitsDiffer
      <3>4. Filter!Bit(i) \in v2 <=> i \in v3
        BY <2>0, <3>1 DEF FilterInv, RingExact
      <3> QED BY <1>1, <2>2, <3>1, <3>3, <3>4
    <2>3. CASE i # counter /\ counter >= v1
      <3>1. v1' = counter + 1 /\ i < counter /\ counter - i < W
        BY <1>0, <1>3, <2>0, <2>3
      <3>2. Filter!Bit(i) # Filter!Bit(counter)
        BY <3>1, BitsDiffer
      <3>3. i >= v1 => i \notin v3
        BY <1>0, <1>5, <2>0 DEF FilterInv, NextFollows
      <3>4. CASE counter - v1 >= W
        <4>1. Filter!Cleared(counter) = {} /\ i >= v1
          BY <1>0, <2>0, <2>3, <3>1, <3>4 DEF Filter!Cleared
        <4> QED BY <1>1, <2>3, <3>2, <3>3, <4>1
      <3>5. CASE ~ (counter - v1 >= W)
        <4>1. Filter!Cleared(counter) = v2 \ {Filter!Bit(j) : j \in v1..counter - 1}
          BY <1>0, <2>3, <3>5 DEF Filter!Cleared
        <4>2. CASE i >= v1
          <5>1. i \in v1..counter - 1
            BY <1>0, <2>0, <3>1, <4>2
          <5>2. Filter!Bit(i) \notin Filter!Cleared(counter)
            BY <4>1, <5>1
          <5> QED BY <1>1, <2>3, <3>2, <3>3, <4>2, <5>2
        <4>3. CASE i < v1
          <5>1. \A j \in v1..counter - 1 : Filter!Bit(j) # Filter!Bit(i)
            <6> SUFFICES ASSUME NEW j \in v1..counter - 1 PROVE Filter!Bit(j) # Filter!Bit(i)
              OBVIOUS
            <6>1. j \in Filter!Counter /\ i < j /\ j - i < W
              BY <1>0, <2>0, <3>1, <4>3 DEF Filter!Counter
            <6> QED BY <6>1, BitsDiffer
          <5>2. Filter!Bit(i) \in Filter!Cleared(counter) <=> Filter!Bit(i) \in v2
            BY <4>1, <5>1
          <5>3. i + W >= v1
            BY <1>0, <2>0, <2>3, <3>1
          <5>4. Filter!Bit(i) \in v2 <=> i \in v3
            BY <2>0, <4>3, <5>3 DEF FilterInv, RingExact
          <5> QED BY <1>1, <2>3, <3>2, <5>2, <5>4
        <4> QED BY <1>0, <2>0, <4>2, <4>3
      <3> QED BY <3>4, <3>5
    <2> QED BY <1>0, <2>1, <2>2, <2>3
  <1> QED BY <1>4, <1>6, <1>7 DEF FilterInv

(* The inductive invariant holds, in whatever order counters arrive.       *)
THEOREM FilterInvariance ==
    ASSUME Filter!ConstantsOk
    PROVE  Filter!Spec => []FilterInv
  <1>1. Filter!Init => FilterInv
    BY DEF Filter!Init, FilterInv, FilterType, NextFollows, RingExact, Filter!ConstantsOk, Filter!Counter
  <1>2. FilterInv /\ [Filter!Next]_(Filter!vars) => FilterInv'
    <2> SUFFICES ASSUME FilterInv, [Filter!Next]_(Filter!vars) PROVE FilterInv'
      OBVIOUS
    <2>1. CASE Filter!Next
      BY <2>1, DecryptOk DEF Filter!Next
    <2>2. CASE UNCHANGED Filter!vars
      BY <2>2 DEF Filter!vars, FilterInv, FilterType, NextFollows, RingExact
    <2> QED BY <2>1, <2>2
  <1> QED BY <1>1, <1>2, PTL DEF Filter!Spec

(* A counter passes the filter if and only if it is new and in the window. *)
THEOREM ExactlyOnce ==
    ASSUME Filter!ConstantsOk
    PROVE  Filter!Spec => []Filter!FilterExact
  <1>1. FilterInv => Filter!FilterExact
    <2> SUFFICES ASSUME FilterInv, NEW counter \in Filter!Counter \ {window.MaxCounter}
                 PROVE  LET fresh == /\ counter \notin v3
                                     /\ \A c \in v3 : counter + window.REPLAY_WINDOW_BITS > c + 1
                        IN  /\ Filter!CheckOk(counter) => fresh
                            /\ fresh /\ v1 < window.MaxCounter => Filter!CheckOk(counter)
      BY DEF Filter!FilterExact
    <2> DEFINE W == window.REPLAY_WINDOW_BITS
               fresh == counter \notin v3 /\ \A c \in v3 : counter + W > c + 1
    <2>0. /\ W \in Nat /\ W > 0 /\ window.MaxCounter \in Nat
          /\ counter \in Nat /\ counter < window.MaxCounter
          /\ v1 \in Nat /\ v1 <= window.MaxCounter
      BY DEF Filter!ConstantsOk, FilterInv, FilterType, Filter!Counter
    <2>1. \A c \in v3 : c \in Nat
      BY DEF FilterInv, FilterType, Filter!Counter, Filter!ConstantsOk
    <2>2. v1 < window.MaxCounter => \A c \in v3 : c < v1
      BY <2>0 DEF FilterInv, NextFollows
    <2>3. ASSUME Filter!CheckOk(counter) PROVE fresh
      <3>1. CASE counter >= v1
        BY <2>0, <2>1, <2>2, <3>1
      <3>2. CASE counter < v1 /\ Filter!SaturatingAdd(counter, W) > v1 /\ Filter!Bit(counter) \notin v2
        <4>1. v1 < window.MaxCounter /\ counter + W > v1
          BY <2>0, <3>2 DEF Filter!SaturatingAdd
        <4>2. counter \notin v3
          BY <2>0, <3>2, <4>1 DEF FilterInv, RingExact
        <4> QED BY <2>0, <2>1, <2>2, <4>1, <4>2
      <3> QED BY <2>0, <2>3, <3>1, <3>2 DEF Filter!CheckOk
    <2>4. ASSUME fresh, v1 < window.MaxCounter, counter < v1 PROVE Filter!CheckOk(counter)
      <3>1. v1 - 1 \in v3
        BY <2>0, <2>4 DEF FilterInv, NextFollows
      <3>2. counter + W > v1
        BY <2>0, <2>4, <3>1
      <3>3. Filter!SaturatingAdd(counter, W) > v1
        BY <2>0, <2>4, <3>2 DEF Filter!SaturatingAdd
      <3>4. Filter!Bit(counter) \notin v2
        BY <2>0, <2>4, <3>2 DEF FilterInv, RingExact
      <3> QED BY <3>3, <3>4 DEF Filter!CheckOk
    <2>5. counter >= v1 => Filter!CheckOk(counter)
      BY DEF Filter!CheckOk
    <2> QED BY <2>0, <2>3, <2>4, <2>5
  <1> QED BY <1>1, FilterInvariance, PTL

-----------------------------------------------------------------------------
(* VotePacing, for every set of blocks and every number of rounds and      *)
(* restarts.  v1 is current_round, v2 highest_vote, v3 scheduled_vote,     *)
(* v4 timer, v5 expired, v6 sent, v7 restarts and v8 panicked.             *)

Scheduled_ == [round : Nat, id : Id \cup {"Nothing", "TimerFired"}]

(* Every variable holds values of the source's types. *)
PaceType ==
    /\ v1 \in Nat /\ v2 \in Nat /\ v7 \in Nat /\ v4 \in Nat
    /\ v3 \in Scheduled_
    /\ v5 \subseteq Nat
    /\ v6 \in Seq(Scheduled_)
    /\ v8 \in BOOLEAN

(* Safety's highest_vote, no later than the round, bounds every vote cast, *)
(* waiting or sent; one that waits is of a later round than those sent.    *)
VotesBounded ==
    /\ v2 <= v1
    /\ v3.round <= v2
    /\ \A i \in 1..Len(v6) : v6[i].round <= v2
    /\ Pacing!VoteReady => \A i \in 1..Len(v6) : v6[i].round < v3.round

InOrder == \A i, j \in 1..Len(v6) : i < j => v6[i].round < v6[j].round

(* Unless the pace has passed already, a SendVote timer is running or has  *)
(* expired and waits to be handled: no scheduled vote is left without one. *)
TimerRuns == v3 = Pacing!TimerFired \/ v4 > 0 \/ v5 # {}

PaceInv == PaceType /\ VotesBounded /\ InOrder /\ TimerRuns /\ Pacing!VotesNoPanic

LEMMA SentRounds ==
    ASSUME PaceType
    PROVE  \A i \in 1..Len(v6) : v6[i].round \in Nat
  <1>1. \A i \in 1..Len(v6) : v6[i] \in Scheduled_
    BY DEF PaceType
  <1> QED BY <1>1 DEF Scheduled_

(* send_vote_and_reset_timer of a vote above those sent before *)
LEMMA SendOk ==
    ASSUME PaceInv, NEW v \in Scheduled_, v.round > 0, Pacing!SendVoteAndResetTimer(v),
           \A i \in 1..Len(v6) : v6[i].round < v.round,
           v2' \in Nat, v2' >= v2, v.round <= v2',
           v2' <= v1'
    PROVE  /\ v6' \in Seq(Scheduled_) /\ v4' \in Nat /\ v3' \in Scheduled_
           /\ VotesBounded' /\ InOrder' /\ TimerRuns'
  <1>0. /\ v6' = Append(v6, v) /\ v4' = v.round + 1 /\ v3' = Pacing!Nothing
        /\ v6 \in Seq(Scheduled_) /\ v2 \in Nat /\ v.round \in Nat
    BY DEF Pacing!SendVoteAndResetTimer, PaceInv, PaceType, Scheduled_
  <1>1. /\ Len(v6') = Len(v6) + 1 /\ v6'[Len(v6) + 1] = v
        /\ \A i \in 1..Len(v6) : v6'[i] = v6[i]
        /\ Len(v6) \in Nat /\ v6' \in Seq(Scheduled_)
    BY <1>0
  <1>2. \A i \in 1..Len(v6) : v6[i].round \in Nat
    BY SentRounds DEF PaceInv
  <1>3. Pacing!Nothing \in Scheduled_ /\ Pacing!Nothing.round = 0
    BY DEF Pacing!Nothing, Scheduled_
  <1>4. \A i \in 1..Len(v6') : v6'[i].round <= v2'
    <2> SUFFICES ASSUME NEW i \in 1..Len(v6') PROVE v6'[i].round <= v2'
      OBVIOUS
    <2>1. CASE i = Len(v6) + 1
      BY <1>1, <2>1
    <2>2. CASE i \in 1..Len(v6)
      <3>1. v6[i].round <= v2 /\ v6'[i] = v6[i] /\ v6[i].round \in Nat
        BY <1>1, <1>2, <2>2 DEF PaceInv, VotesBounded
      <3> QED BY <1>0, <3>1
    <2> QED BY <1>1, <2>1, <2>2
  <1>5. VotesBounded'
    BY <1>0, <1>3, <1>4 DEF VotesBounded, Pacing!VoteReady
  <1>6. InOrder'
    <2> SUFFICES ASSUME NEW i \in 1..Len(v6'), NEW j \in 1..Len(v6'), i < j
                 PROVE  v6'[i].round < v6'[j].round
      BY DEF InOrder
    <2>1. i \in 1..Len(v6) /\ v6'[i] = v6[i]
      BY <1>1
    <2>2. CASE j = Len(v6) + 1
      BY <1>1, <2>1, <2>2
    <2>3. CASE j \in 1..Len(v6)
      BY <1>1, <2>1, <2>3 DEF PaceInv, InOrder
    <2> QED BY <1>1, <2>2, <2>3
  <1>7. TimerRuns' /\ v4' \in Nat
    BY <1>0 DEF TimerRuns
  <1> QED BY <1>0, <1>1, <1>3, <1>5, <1>6, <1>7

(* try_vote: the vote waiting, if any, is of an earlier round *)
LEMMA TryVoteOk ==
    ASSUME PaceInv, NEW id \in Id, NEW consecutive \in BOOLEAN, Pacing!TryVote(id, consecutive)
    PROVE  PaceInv'
  <1> DEFINE v == [round |-> v1, id |-> id]
  <1>0. /\ PaceType /\ v1 \in Nat /\ v2 \in Nat
        /\ v3.round \in Nat /\ v8 \in BOOLEAN
    BY DEF PaceInv, PaceType, Scheduled_
  <1>1. v \in Scheduled_ /\ v.round = v1
    BY <1>0 DEF Scheduled_
  <1>2. /\ v1 > v2 /\ v2' = v1
        /\ UNCHANGED << v1, v5, v7 >>
        /\ v8' = (v8 \/ v3.round >= v.round)
        /\ \/ Pacing!SendVoteAndResetTimer(v)
           \/ v3 # Pacing!TimerFired /\ v3' = v /\ UNCHANGED << v4, v6 >>
    BY DEF Pacing!TryVote, Pacing!IsSafeToVote
  <1> HIDE DEF v
  <1>3. Pacing!VotesNoPanic' /\ v8' \in BOOLEAN
    <2>1. ~ (v3.round >= v.round)
      BY <1>0, <1>1, <1>2 DEF PaceInv, VotesBounded
    <2> QED BY <1>2, <2>1 DEF PaceInv, Pacing!VotesNoPanic
  <1>4. /\ \A i \in 1..Len(v6) : v6[i].round \in Nat
        /\ \A i \in 1..Len(v6) : v6[i].round < v.round
    <2>1. \A i \in 1..Len(v6) : v6[i].round \in Nat
      BY <1>0, SentRounds
    <2> QED BY <1>0, <1>1, <1>2, <2>1 DEF PaceInv, VotesBounded
  <1>5. CASE Pacing!SendVoteAndResetTimer(v)
    <2>1. v.round > 0 /\ v2' \in Nat /\ v2' >= v2
          /\ v.round <= v2' /\ v2' <= v1'
      BY <1>0, <1>1, <1>2
    <2>2. /\ v6' \in Seq(Scheduled_) /\ v4' \in Nat /\ v3' \in Scheduled_
          /\ VotesBounded' /\ InOrder' /\ TimerRuns'
      BY <1>1, <1>4, <1>5, <2>1, SendOk
    <2>3. PaceType'
      BY <1>0, <1>2, <1>3, <2>1, <2>2 DEF PaceType
    <2> QED BY <1>3, <2>2, <2>3 DEF PaceInv
  <1>6. CASE v3 # Pacing!TimerFired /\ v3' = v /\ UNCHANGED << v4, v6 >>
    <2>1. PaceType'
      BY <1>0, <1>1, <1>2, <1>3, <1>6 DEF PaceType
    <2>2. VotesBounded'
      <3>1. \A i \in 1..Len(v6) : v6[i].round <= v1
        BY <1>0, <1>1, <1>4
      <3> QED BY <1>0, <1>1, <1>2, <1>4, <1>6, <3>1 DEF VotesBounded, Pacing!VoteReady
    <2>3. InOrder' /\ TimerRuns'
      BY <1>2, <1>6 DEF PaceInv, InOrder, TimerRuns
    <2> QED BY <1>3, <2>1, <2>2, <2>3 DEF PaceInv
  <1> QED BY <1>2, <1>5, <1>6

(* handle_vote_timer, late or not: what leaves is the vote that waits *)
LEMMA VoteTimerOk ==
    ASSUME PaceInv, NEW r \in v5, Pacing!HandleVoteTimer(r)
    PROVE  PaceInv'
  <1>0. PaceType /\ v2 \in Nat /\ v3 \in Scheduled_
    BY DEF PaceInv, PaceType
  <1>1. /\ v5' \subseteq v5
        /\ UNCHANGED << v1, v2, v7, v8 >>
    BY DEF Pacing!HandleVoteTimer
  <1>2. Pacing!VotesNoPanic'
    BY <1>1 DEF PaceInv, Pacing!VotesNoPanic
  <1>3. CASE Pacing!VoteReady /\ Pacing!SendVoteAndResetTimer(v3)
    <2>1. /\ v6' \in Seq(Scheduled_) /\ v4' \in Nat /\ v3' \in Scheduled_
          /\ VotesBounded' /\ InOrder' /\ TimerRuns'
      BY <1>0, <1>1, <1>3, SendOk DEF PaceInv, VotesBounded, Pacing!VoteReady
    <2>2. PaceType'
      BY <1>0, <1>1, <2>1 DEF PaceType
    <2> QED BY <1>2, <2>1, <2>2 DEF PaceInv
  <1>4. CASE ~ Pacing!VoteReady /\ v3' = Pacing!TimerFired /\ UNCHANGED << v4, v6 >>
    <2>1. Pacing!TimerFired \in Scheduled_ /\ Pacing!TimerFired.round = 0
      BY DEF Pacing!TimerFired, Scheduled_
    <2>2. PaceType'
      BY <1>0, <1>1, <1>4, <2>1 DEF PaceType
    <2>3. VotesBounded' /\ InOrder' /\ TimerRuns'
      BY <1>0, <1>1, <1>4, <2>1 DEF PaceInv, VotesBounded, InOrder, TimerRuns, Pacing!VoteReady
    <2> QED BY <1>2, <2>2, <2>3 DEF PaceInv
  <1> QED BY <1>3, <1>4 DEF Pacing!HandleVoteTimer

LEMMA PaceOthersOk ==
    ASSUME PaceInv,
           \/ Pacing!TimerExpires \/ (\E r \in 1..pacing.MaxRound : Pacing!EnterRound(r))
           \/ Pacing!HandleTimeoutExpiry \/ (\E r \in 1..v1 : Pacing!Restart(r)),
           pacing.MaxRound \in Nat
    PROVE  PaceInv'
  <1>0. /\ PaceType /\ v1 \in Nat /\ v2 \in Nat /\ v4 \in Nat
        /\ v3.round \in Nat
    BY DEF PaceInv, PaceType, Scheduled_
  <1>1. \A i \in 1..Len(v6) : v6[i].round \in Nat /\ v6[i].round <= v2
    BY <1>0, SentRounds DEF PaceInv, VotesBounded
  <1>2. CASE Pacing!TimerExpires
    BY <1>0, <1>2 DEF Pacing!TimerExpires, PaceInv, PaceType, VotesBounded, InOrder, TimerRuns,
                      Pacing!VotesNoPanic, Pacing!VoteReady
  <1>3. ASSUME NEW r \in 1..pacing.MaxRound, Pacing!EnterRound(r) PROVE PaceInv'
    BY <1>0, <1>3 DEF Pacing!EnterRound, PaceInv, PaceType, VotesBounded, InOrder, TimerRuns,
                      Pacing!VotesNoPanic, Pacing!VoteReady
  <1>4. CASE Pacing!HandleTimeoutExpiry
    <2>1. /\ v2 < v1 /\ v2' = v1
          /\ UNCHANGED << v1, v3, v4, v5, v6, v7, v8 >>
      BY <1>4 DEF Pacing!HandleTimeoutExpiry
    <2>2. VotesBounded'
      <3>1. \A i \in 1..Len(v6) : v6[i].round <= v1
        BY <1>0, <1>1, <2>1
      <3> QED BY <1>0, <2>1, <3>1 DEF PaceInv, VotesBounded, Pacing!VoteReady
    <2> QED BY <1>0, <2>1, <2>2 DEF PaceInv, PaceType, InOrder, TimerRuns, Pacing!VotesNoPanic
  <1>5. ASSUME NEW r \in 1..v1, Pacing!Restart(r) PROVE PaceInv'
    <2>1. /\ v7' = v7 + 1 /\ v1' = r /\ v2' = r /\ r \in Nat
          /\ v3' = Pacing!TimerFired /\ v4' = 0 /\ v5' = {} /\ v6' = << >>
          /\ UNCHANGED v8
      BY <1>0, <1>5 DEF Pacing!Restart
    <2>2. Pacing!TimerFired \in Scheduled_ /\ Pacing!TimerFired.round = 0
      BY DEF Pacing!TimerFired, Scheduled_
    <2>3. v6' \in Seq(Scheduled_) /\ Len(v6') = 0
      BY <2>1
    <2>4. 1..Len(v6') = {}
      BY <2>3
    <2>5. VotesBounded' /\ InOrder'
      BY <2>1, <2>2, <2>4 DEF VotesBounded, InOrder, Pacing!VoteReady
    <2> QED BY <1>0, <2>1, <2>2, <2>3, <2>5 DEF PaceInv, PaceType, TimerRuns, Pacing!VotesNoPanic
  <1> QED BY <1>2, <1>3, <1>4, <1>5

LEMMA PaceInitOk == Pacing!Init => PaceInv
  <1> SUFFICES ASSUME Pacing!Init PROVE PaceInv
    OBVIOUS
  <1>1. Pacing!TimerFired \in Scheduled_ /\ Pacing!TimerFired.round = 0
    BY DEF Pacing!TimerFired, Scheduled_
  <1>2. v6 \in Seq(Scheduled_) /\ Len(v6) = 0
    BY DEF Pacing!Init
  <1>3. 1..Len(v6) = {}
    BY <1>2
  <1>4. PaceType /\ TimerRuns /\ Pacing!VotesNoPanic
    BY <1>1, <1>2 DEF Pacing!Init, PaceType, TimerRuns, Pacing!VotesNoPanic
  <1>5. VotesBounded /\ InOrder
    BY <1>1, <1>3 DEF Pacing!Init, VotesBounded, InOrder, Pacing!VoteReady
  <1> QED BY <1>4, <1>5 DEF PaceInv

(* The inductive invariant holds whatever timers, rounds and restarts do.  *)
THEOREM PaceInvariance ==
    ASSUME Pacing!ConstantsOk
    PROVE  Pacing!Spec => []PaceInv
  <1>1. PaceInv /\ [Pacing!Next]_(Pacing!vars) => PaceInv'
    <2> SUFFICES ASSUME PaceInv, [Pacing!Next]_(Pacing!vars) PROVE PaceInv'
      OBVIOUS
    <2>1. CASE Pacing!Next
      <3>1. CASE \E id \in Id, consecutive \in BOOLEAN : Pacing!TryVote(id, consecutive)
        BY <3>1, TryVoteOk
      <3>2. CASE \E r \in v5 : Pacing!HandleVoteTimer(r)
        BY <3>2, VoteTimerOk
      <3>3. CASE \/ Pacing!TimerExpires \/ (\E r \in 1..pacing.MaxRound : Pacing!EnterRound(r))
                 \/ Pacing!HandleTimeoutExpiry \/ (\E r \in 1..v1 : Pacing!Restart(r))
        BY <3>3, PaceOthersOk DEF Pacing!ConstantsOk
      <3> QED BY <2>1, <3>1, <3>2, <3>3 DEF Pacing!Next
    <2>2. CASE UNCHANGED Pacing!vars
      BY <2>2 DEF Pacing!vars, PaceInv, PaceType, VotesBounded, InOrder, TimerRuns,
                  Pacing!VotesNoPanic, Pacing!VoteReady
    <2> QED BY <2>1, <2>2
  <1> QED BY <1>1, PaceInitOk, PTL DEF Pacing!Spec

(* "trying to schedule another vote in same round" is out of reach: a vote *)
(* that waits is no later than highest_vote, the next one is.              *)
THEOREM NoVoteWaitsTwice ==
    ASSUME Pacing!ConstantsOk
    PROVE  Pacing!Spec => []Pacing!VotesNoPanic
  <1>1. PaceInv => Pacing!VotesNoPanic
    BY DEF PaceInv
  <1> QED BY <1>1, PaceInvariance, PTL

(* The votes of one process leave in the order of their rounds, and none   *)
(* leaves twice.                                                           *)
THEOREM VotesLeaveInOrder ==
    ASSUME Pacing!ConstantsOk
    PROVE  Pacing!Spec => []Pacing!SentInOrder
  <1>1. PaceInv => Pacing!SentInOrder
    <2> SUFFICES ASSUME PaceInv PROVE Pacing!SentInOrder
      OBVIOUS
    <2>1. DOMAIN v6 = 1..Len(v6)
      BY DEF PaceInv, PaceType
    <2> QED BY <2>1 DEF PaceInv, InOrder, Pacing!SentInOrder
  <1> QED BY <1>1, PaceInvariance, PTL

(* A vote never waits without a timer that will send it.                   *)
THEOREM TimerIsRunning ==
    ASSUME Pacing!ConstantsOk
    PROVE  Pacing!Spec => []TimerRuns
  <1>1. PaceInv => TimerRuns
    BY DEF PaceInv
  <1> QED BY <1>1, PaceInvariance, PTL

-----------------------------------------------------------------------------
(* NoEndorsementState, for every set of validators, every quorums of which *)
(* none is all faulty, and every bound, provided that restarts find the    *)
(* forkpoint of the round they left (StaleForkpoint).  v1 is               *)
(* current_round, v2 earliest_round, v3 tip, v4 pending, v5                *)
(* invalid_senders, v6 certificate, v7 asked, v8 answered, v9 received,    *)
(* v10 panicked and v11 the forkpoint.                                     *)

Request_ == [round : Nat, qc : collection.TipQcRound]

(* Every variable holds values of the source's types. *)
NecType ==
    /\ v1 \in Nat /\ v2 \in Nat
    /\ v3 \in collection.TipQcRound \cup {NoTip}
    /\ v4 \subseteq Nec!NoEndorsement
    /\ v6 \subseteq Request_ /\ v7 \subseteq Request_
    /\ v9 \subseteq Nec!NoEndorsement
    /\ v10 \in BOOLEAN

(* No request is ahead of the round, and those of the round are about the  *)
(* tip the round was entered with.                                         *)
AskedInRound ==
    \A a \in v7 : a.round <= v1 /\ (a.round = v1 => a.qc = v3)

(* Honest no-endorsements are well signed and asked for, so their senders  *)
(* are never barred.                                                       *)
HonestOnRequest ==
    /\ \A w \in v4 \cup v9 : w.node \in Nec!Honest =>
          w.valid /\ [round |-> w.round, qc |-> w.qc] \in v7
    /\ \A w \in v9 : w.node \in Nec!Honest
    /\ \A i \in v5 : i.node \notin Nec!Honest

(* NECs are of rounds that were asked about and are closed, or past.       *)
NecsClosed ==
    \A c \in v6 :
        /\ [round |-> c.round, qc |-> c.qc] \in v7
        /\ c.round < v2 \/ c.round < v1

(* A round is closed only by its own NEC.  While the current one is open,  *)
(* every no-endorsement received for it is there, and they are too few.    *)
OpenOrDone ==
    /\ v2 <= v1 + 1
    /\ v2 = v1 + 1 => Nec!GetNec(v1) # {}
    /\ v2 <= v1 =>
          /\ \A w \in v9 : w.round = v1 => w \in v4
          /\ \A q \in collection.TipQcRound :
                ~ Nec!HasSuperMajorityVotes({w.node : w \in {x \in v9 :
                                            x.round = v1 /\ x.qc = q}})

(* The forkpoint is that of the current round.                             *)
UpToDate == v11 = [round |-> v1, tip |-> v3]

NecInv ==
    /\ NecType /\ AskedInRound /\ HonestOnRequest /\ NecsClosed /\ OpenOrDone /\ UpToDate
    /\ Nec!NoPanic

LEMMA MoreSenders ==
    ASSUME NEW S, NEW T, S \subseteq T, Nec!HasSuperMajorityVotes(S)
    PROVE  Nec!HasSuperMajorityVotes(T)
  BY DEF Nec!HasSuperMajorityVotes

LEMMA SomebodyHonest ==
    ASSUME Nec!ConstantsOk, NEW S, Nec!HasSuperMajorityVotes(S)
    PROVE  \E n \in S : n \in Nec!Honest
  BY DEF Nec!ConstantsOk, Nec!HasSuperMajorityVotes, Nec!Honest

LEMMA NecRoundIsNat == ASSUME Nec!ConstantsOk, NEW r \in 1..collection.MaxRound PROVE r \in Nat
  BY DEF Nec!ConstantsOk

(* process_no_endorsement: honest no-endorsements stay, their senders are  *)
(* not barred, and an NEC is of a round and tip that were asked about; if  *)
(* there is none, the bucket's honest no-endorsements are too few.         *)
LEMMA NoEndorsementProcessed ==
    ASSUME Nec!ConstantsOk, NecInv, NEW ne \in Nec!NoEndorsement, Nec!Sendable(ne)
    PROVE  LET p == Nec!ProcessNoEndorsement(ne) IN
           /\ p.nec \in BOOLEAN
           /\ p.nes \subseteq v4 \cup {ne}
           /\ \A w \in v4 \cup {ne} : w.node \in Nec!Honest => w \in p.nes
           /\ \A i \in p.barred : i.node \notin Nec!Honest
           /\ p.nec => \E w \in p.nes : w.node \in Nec!Honest /\ w.round = ne.round /\ w.qc = ne.qc
           /\ ~ p.nec => \A H \in SUBSET p.nes :
                 (\A w \in H : w.node \in Nec!Honest /\ w.round = ne.round /\ w.qc = ne.qc) =>
                    ~ Nec!HasSuperMajorityVotes({w.node : w \in H})
  <1> DEFINE nes    == Nec!Insert(ne)
             bad    == {w \in Nec!Bucket(nes, ne) : ~ w.valid}
             barred == v5 \cup {Nec!Sender(w) : w \in bad}
             good   == IF bad = {} THEN nes ELSE Nec!HandleInvalidNoEndorsement(nes, ne, barred)
             many   == Nec!HasSuperMajorityVotes(Nec!Senders(Nec!Bucket(nes, ne)))
             enough == Nec!HasSuperMajorityVotes(Nec!Senders(Nec!Bucket(good, ne)))
             p      == Nec!ProcessNoEndorsement(ne)
  <1>1. p = IF ~ many THEN [nes |-> nes, barred |-> v5, nec |-> FALSE]
                      ELSE [nes |-> good, barred |-> barred, nec |-> enough]
    BY DEF Nec!ProcessNoEndorsement
  <1>2. v4 \subseteq Nec!NoEndorsement /\ many \in BOOLEAN /\ enough \in BOOLEAN
    BY DEF NecInv, NecType, Nec!HasSuperMajorityVotes
  <1>3. nes \subseteq v4 \cup {ne} /\ ne \in nes
    BY DEF Nec!Insert
  <1>4. \A w \in v4 \cup {ne} : w.node \in Nec!Honest => w \in nes /\ w.valid = TRUE
    <2>1. \A w \in v4 \cup {ne} : w.node \in Nec!Honest => w.valid = TRUE
      BY <1>2 DEF NecInv, HonestOnRequest, Nec!Sendable, Nec!NoEndorsement
    <2>2. ASSUME NEW w \in v4, w.node \in Nec!Honest, w.node = ne.node, w \in Nec!Bucket(v4, ne)
          PROVE  w = ne
      <3>1. w.round = ne.round /\ w.qc = ne.qc /\ w.valid = ne.valid
        BY <2>1, <2>2 DEF Nec!Bucket
      <3> QED BY <1>2, <2>2, <3>1 DEF Nec!NoEndorsement
    <2> QED BY <2>1, <2>2 DEF Nec!Insert
  <1>5. \A w \in bad : w.node \notin Nec!Honest
    BY <1>3, <1>4 DEF Nec!Bucket
  <1>6. \A i \in barred : i.node \notin Nec!Honest
    BY <1>5 DEF Nec!Sender, NecInv, HonestOnRequest
  <1>7. good \subseteq nes /\ \A w \in nes : w.node \in Nec!Honest => w \in good
    BY <1>6 DEF Nec!HandleInvalidNoEndorsement, Nec!Sender
  <1> HIDE DEF nes, bad, barred, good, p
  <1>8. CASE ~ many
    <2>1. p.nes = nes /\ p.barred = v5 /\ p.nec = FALSE
      BY <1>1, <1>8
    <2>2. ASSUME NEW H \in SUBSET nes,
                 \A w \in H : w.node \in Nec!Honest /\ w.round = ne.round /\ w.qc = ne.qc
          PROVE  {w.node : w \in H} \subseteq Nec!Senders(Nec!Bucket(nes, ne))
      BY <2>2 DEF Nec!Senders, Nec!Bucket
    <2> QED BY <1>3, <1>4, <1>8, <2>1, <2>2, MoreSenders DEF NecInv, HonestOnRequest, p
  <1>9. CASE many
    <2>1. p.nes = good /\ p.barred = barred /\ p.nec = enough
      BY <1>1, <1>9
    <2>2. ASSUME NEW H \in SUBSET good,
                 \A w \in H : w.node \in Nec!Honest /\ w.round = ne.round /\ w.qc = ne.qc
          PROVE  {w.node : w \in H} \subseteq Nec!Senders(Nec!Bucket(good, ne))
      BY <2>2 DEF Nec!Senders, Nec!Bucket
    <2>3. enough => \E w \in good : w.node \in Nec!Honest /\ w.round = ne.round /\ w.qc = ne.qc
      BY SomebodyHonest DEF Nec!Senders, Nec!Bucket
    <2>4. good \subseteq v4 \cup {ne}
      BY <1>3, <1>7
    <2>5. \A w \in v4 \cup {ne} : w.node \in Nec!Honest => w \in good
      BY <1>4, <1>7
    <2> HIDE DEF enough, many
    <2> QED BY <1>2, <1>6, <2>1, <2>2, <2>3, <2>4, <2>5, MoreSenders DEF p, enough
  <1> QED BY <1>8, <1>9

(* handle_no_endorsement_message *)
LEMMA NoEndorsementOk ==
    ASSUME Nec!ConstantsOk, NecInv, NEW ne \in Nec!NoEndorsement, Nec!Sendable(ne),
           Nec!HandleNoEndorsementMessage(ne)
    PROVE  NecInv'
  <1> DEFINE mine == {w \in {ne} : w.node \in Nec!Honest}
             p == Nec!ProcessNoEndorsement(ne)
  <1>0. /\ NecType /\ ne.round \in Nat /\ ne.qc \in collection.TipQcRound /\ ne.round >= v1
        /\ v1 \in Nat /\ v2 \in Nat
    BY NecRoundIsNat DEF NecInv, NecType, Nec!NoEndorsement, Nec!HandleNoEndorsementMessage
  <1>1. /\ v9' = v9 \cup mine
        /\ v1' = v1 /\ v3' = v3 /\ v7' = v7 /\ v11' = v11
    BY DEF Nec!HandleNoEndorsementMessage
  <1>2. AskedInRound' /\ UpToDate'
    BY <1>1 DEF NecInv, AskedInRound, UpToDate
  <1>3. \A w \in mine : w = ne /\ w.node \in Nec!Honest /\ w.valid
                        /\ [round |-> w.round, qc |-> w.qc] \in v7
    BY DEF Nec!Sendable
  (* an honest answer is of the current round *)
  <1>4. \A a \in v7 : a.round \in Nat /\ a.round <= v1
    BY <1>0 DEF NecInv, AskedInRound, NecType, Request_
  <1>5. \A w \in mine : w.round = v1
    <2> SUFFICES ASSUME NEW w \in mine PROVE w.round = v1
      OBVIOUS
    <2>1. [round |-> w.round, qc |-> w.qc].round <= v1 /\ w = ne
      BY <1>3, <1>4
    <2> QED BY <1>0, <2>1
  <1> HIDE DEF mine
  <1>6. CASE /\ ne.round < v2 \/ Nec!Sender(ne) \in v5
             /\ UNCHANGED << v2, v4, v5, v6, v10 >>
    <2>1. v9' \subseteq Nec!NoEndorsement
      BY <1>0, <1>1, <1>3 DEF NecType
    <2>2. NecType'
      BY <1>0, <1>1, <1>6, <2>1 DEF NecType
    <2>3. HonestOnRequest'
      BY <1>1, <1>3, <1>6 DEF NecInv, HonestOnRequest
    <2>4. NecsClosed' /\ Nec!NoPanic'
      BY <1>1, <1>6 DEF NecInv, NecsClosed, Nec!NoPanic
    <2>5. v2 <= v1 => mine = {}
      <3> SUFFICES ASSUME v2 <= v1, NEW w \in mine PROVE FALSE
        OBVIOUS
      <3>1. w = ne /\ ne.node \in Nec!Honest /\ ne.round = v1
        BY <1>3, <1>5
      <3>2. Nec!Sender(ne) \in v5 /\ Nec!Sender(ne).node = ne.node
        BY <1>0, <1>6, <3>1 DEF Nec!Sender
      <3> QED BY <3>1, <3>2 DEF NecInv, HonestOnRequest
    <2>6. OpenOrDone'
      BY <1>0, <1>1, <1>6, <2>5 DEF NecInv, OpenOrDone, Nec!GetNec
    <2> QED BY <1>2, <2>2, <2>3, <2>4, <2>6 DEF NecInv
  <1>7. CASE /\ ne.round >= v2 /\ Nec!Sender(ne) \notin v5
             /\ v4' = p.nes /\ v5' = p.barred
             /\ \/ /\ p.nec
                   /\ v2' = Nec!RoundAfterNec(ne.round)
                   /\ v10' = (v10 \/ Nec!GetNec(ne.round) # {})
                   /\ v6' = v6 \cup {[round |-> ne.round, qc |-> ne.qc]}
                \/ /\ ~ p.nec
                   /\ UNCHANGED << v2, v6, v10 >>
    <2>1. /\ p.nec \in BOOLEAN
          /\ p.nes \subseteq v4 \cup {ne}
          /\ \A w \in v4 \cup {ne} : w.node \in Nec!Honest => w \in p.nes
          /\ \A i \in p.barred : i.node \notin Nec!Honest
          /\ p.nec => \E w \in p.nes : w.node \in Nec!Honest /\ w.round = ne.round /\ w.qc = ne.qc
          /\ ~ p.nec => \A H \in SUBSET p.nes :
                (\A w \in H : w.node \in Nec!Honest /\ w.round = ne.round /\ w.qc = ne.qc) =>
                   ~ Nec!HasSuperMajorityVotes({w.node : w \in H})
      BY NoEndorsementProcessed
    <2> HIDE DEF p
    <2>2. v4' \subseteq Nec!NoEndorsement /\ v9' \subseteq Nec!NoEndorsement
      BY <1>0, <1>1, <1>3, <1>7, <2>1 DEF NecType
    <2>3. HonestOnRequest'
      <3>1. \A w \in v4' \cup v9' : w \in v4 \/ w = ne \/ w \in v9
        BY <1>1, <1>3, <1>7, <2>1
      <3> QED BY <1>1, <1>3, <1>7, <2>1, <3>1 DEF NecInv, HonestOnRequest, Nec!Sendable
    <2>4. ASSUME p.nec PROVE [round |-> ne.round, qc |-> ne.qc] \in v7 /\ ne.round = v1
      <3>1. PICK w \in p.nes : w.node \in Nec!Honest /\ w.round = ne.round /\ w.qc = ne.qc
        BY <2>1, <2>4
      <3>2. [round |-> ne.round, qc |-> ne.qc] \in v7
        BY <1>1, <1>7, <2>3, <3>1 DEF HonestOnRequest
      <3> QED BY <1>0, <1>4, <3>2
    <2>5. CASE p.nec
      <3> DEFINE c == [round |-> ne.round, qc |-> ne.qc]
      <3>0. c \in v7 /\ c.round = v1 /\ c.qc = ne.qc
        BY <2>4, <2>5
      <3>1. /\ v2' = v1 + 1 /\ v6' = v6 \cup {c}
            /\ v10' = (v10 \/ Nec!GetNec(v1) # {})
            /\ v2 <= v1
        BY <1>7, <2>4, <2>5 DEF Nec!RoundAfterNec
      <3> HIDE DEF c
      <3>2. NecType' /\ v6' \subseteq Request_
        <4>1. v6' \subseteq Request_
          BY <1>0, <3>0, <3>1 DEF NecType
        <4>2. v10' \in BOOLEAN
          BY <3>1
        <4> QED BY <1>0, <1>1, <2>2, <3>1, <4>1, <4>2 DEF NecType
      <3>3. \A x \in v6 : x.round \in Nat /\ x.round < v1
        BY <1>0, <3>1 DEF NecInv, NecsClosed, NecType, Request_
      <3>4. NecsClosed'
        <4>1. c = [round |-> c.round, qc |-> c.qc]
          BY <3>0 DEF c
        <4>2. \A x \in v6' : x.round < v1 + 1
          BY <1>0, <3>0, <3>1, <3>3
        <4> QED BY <1>1, <3>0, <3>1, <4>1, <4>2 DEF NecInv, NecsClosed
      <3>5. Nec!NoPanic'
        <4>1. Nec!GetNec(v1) = {}
          BY <1>0, <3>3 DEF Nec!GetNec
        <4>2. ~ v10
          BY DEF NecInv, Nec!NoPanic
        <4> QED BY <3>1, <4>1, <4>2 DEF Nec!NoPanic
      <3>6. OpenOrDone'
        BY <1>0, <1>1, <3>0, <3>1 DEF OpenOrDone, Nec!GetNec
      <3> QED BY <1>2, <2>3, <3>2, <3>4, <3>5, <3>6 DEF NecInv
    <2>6. CASE ~ p.nec
      <3>1. UNCHANGED << v2, v6, v10 >>
        BY <1>7, <2>6
      <3>2. NecType'
        BY <1>0, <1>1, <2>2, <3>1 DEF NecType
      <3>3. NecsClosed' /\ Nec!NoPanic'
        BY <1>1, <3>1 DEF NecInv, NecsClosed, Nec!NoPanic
      <3>4. \A w \in v9' : w.round = v1 /\ v2 <= v1
                                  => w \in v4'
        BY <1>1, <1>3, <1>7, <2>1 DEF NecInv, OpenOrDone, HonestOnRequest
      <3>5. ASSUME NEW q \in collection.TipQcRound, v2 <= v1
            PROVE  ~ Nec!HasSuperMajorityVotes({w.node : w \in {x \in v9' :
                                              x.round = v1 /\ x.qc = q}})
        <4>1. CASE ne.round = v1 /\ ne.qc = q
          <5> DEFINE H == {x \in v9' : x.round = v1 /\ x.qc = q}
          <5>1. \A w \in H : w.node \in Nec!Honest /\ w.round = ne.round /\ w.qc = ne.qc
            BY <2>3, <4>1 DEF HonestOnRequest
          <5>2. H \in SUBSET p.nes
            BY <1>7, <3>4, <3>5
          <5> HIDE DEF H
          <5>3. ~ Nec!HasSuperMajorityVotes({w.node : w \in H})
            BY <2>1, <2>6, <5>1, <5>2
          <5> QED BY <5>3 DEF H
        <4>2. CASE ~ (ne.round = v1 /\ ne.qc = q)
          <5>1. {x \in v9' : x.round = v1 /\ x.qc = q}
                = {x \in v9 : x.round = v1 /\ x.qc = q}
            BY <1>1, <1>3, <1>5, <4>2
          <5> QED BY <3>5, <5>1 DEF NecInv, OpenOrDone
        <4> QED BY <4>1, <4>2
      <3>6. OpenOrDone'
        BY <1>1, <3>1, <3>4, <3>5 DEF NecInv, OpenOrDone, Nec!GetNec, Nec!HasSuperMajorityVotes
      <3> QED BY <1>2, <2>3, <3>2, <3>3, <3>6 DEF NecInv
    <2> QED BY <2>1, <2>5, <2>6
  <1> QED BY <1>6, <1>7 DEF Nec!HandleNoEndorsementMessage

(* A later round: nothing was received or certified for it yet.            *)
LEMMA NecNewRound ==
    ASSUME Nec!ConstantsOk, NecInv, v1' \in Nat, v1' > v1,
           v2' \in Nat, v2' <= v1',
           v9' = v9, v6' \subseteq v6,
           v7 \subseteq v7', NecType'
    PROVE  OpenOrDone' /\ NecsClosed'
  <1>0. NecType
    BY DEF NecInv
  <1>1. \A a \in v7 : a.round \in Nat /\ a.round < v1'
    BY <1>0 DEF NecInv, AskedInRound, NecType, Request_
  <1>2. \A w \in v9 : w.round # v1'
    <2> SUFFICES ASSUME NEW w \in v9 PROVE w.round # v1'
      OBVIOUS
    <2>1. [round |-> w.round, qc |-> w.qc] \in v7
      BY DEF NecInv, HonestOnRequest
    <2> QED BY <1>1, <2>1
  <1>3. \A q : {w.node : w \in {x \in v9' : x.round = v1' /\ x.qc = q}} = {}
    BY <1>2
  <1>4. ~ Nec!HasSuperMajorityVotes({})
    BY SomebodyHonest
  <1>5. OpenOrDone'
    <2>1. /\ v2' <= v1' + 1
          /\ v2' # v1' + 1
      <3>1. \A i, j \in Nat : i <= j => i <= j + 1 /\ i # j + 1
        OBVIOUS
      <3> QED BY <3>1
    <2>2. \A w \in v9' : w.round # v1'
      BY <1>2
    <2>3. \A q : ~ Nec!HasSuperMajorityVotes({w.node : w \in {x \in v9' :
                                             x.round = v1' /\ x.qc = q}})
      BY <1>3, <1>4
    <2> QED BY <2>1, <2>2, <2>3 DEF OpenOrDone, Nec!HasSuperMajorityVotes
  <1>6. NecsClosed'
    <2> SUFFICES ASSUME NEW c \in v6
                 PROVE  [round |-> c.round, qc |-> c.qc] \in v7' /\ c.round < v1'
      BY DEF NecsClosed
    <2>1. [round |-> c.round, qc |-> c.qc] \in v7
      BY DEF NecInv, NecsClosed
    <2> QED BY <1>1, <2>1
  <1> QED BY <1>5, <1>6

LEMMA NecQcOk ==
    ASSUME Nec!ConstantsOk, NecInv, NEW r \in 1..collection.MaxRound - 1, Nec!ProcessQc(r)
    PROVE  NecInv'
  <1>0. NecType /\ r \in Nat /\ v1 \in Nat
    BY DEF NecInv, NecType, Nec!ConstantsOk
  <1>1. /\ v1' = r + 1 /\ v1' > v1 /\ v3' = NoTip
        /\ v2' = v1'
        /\ v4' \subseteq v4 /\ v5' \subseteq v5
        /\ v6' \subseteq v6
        /\ v7' = v7 /\ v9' = v9 /\ v10' = v10
        /\ v11' = [round |-> v1', tip |-> v3']
    BY <1>0 DEF Nec!ProcessQc, Nec!EnterRound, Nec!StartNewRound
  <1>2. NecType'
    BY <1>0, <1>1 DEF NecType
  <1>3. OpenOrDone' /\ NecsClosed'
    BY <1>0, <1>1, <1>2, NecNewRound
  <1>4. AskedInRound'
    BY <1>0, <1>1 DEF NecInv, AskedInRound, NecType, Request_
  <1>5. HonestOnRequest' /\ Nec!NoPanic' /\ UpToDate'
    BY <1>1 DEF NecInv, HonestOnRequest, Nec!NoPanic, UpToDate
  <1> QED BY <1>2, <1>3, <1>4, <1>5 DEF NecInv

LEMMA NecTcOk ==
    ASSUME Nec!ConstantsOk, NecInv, NEW r \in 1..collection.MaxRound - 1,
           NEW q \in collection.TipQcRound \cup {NoTip}, Nec!ProcessTc(r, q)
    PROVE  NecInv'
  <1>0. NecType /\ r \in Nat /\ v1 \in Nat /\ v2 \in Nat
    BY DEF NecInv, NecType, Nec!ConstantsOk
  <1>1. /\ v1' = r + 1 /\ v1' > v1 /\ v3' = q
        /\ UNCHANGED << v2, v4, v5, v6, v9, v10 >>
        /\ v7' \in {v7, v7 \cup Nec!RecoveryRequest(r + 1, q)}
        /\ v11' = [round |-> v1', tip |-> v3']
    BY <1>0 DEF Nec!ProcessTc, Nec!EnterRound
  <1>2. \A a \in Nec!RecoveryRequest(r + 1, q) : a \in Request_ /\ a.round = r + 1 /\ a.qc = q
    BY <1>0 DEF Nec!RecoveryRequest, Request_
  <1>3. v7 \subseteq v7' /\ v7' \subseteq Request_
    BY <1>0, <1>1, <1>2 DEF NecType
  <1>4. NecType'
    BY <1>0, <1>1, <1>3 DEF NecType
  <1>5. v2' <= v1'
    BY <1>0, <1>1 DEF NecInv, OpenOrDone
  <1>6. OpenOrDone' /\ NecsClosed'
    BY <1>0, <1>1, <1>3, <1>4, <1>5, NecNewRound
  <1>7. AskedInRound'
    BY <1>0, <1>1, <1>2 DEF NecInv, AskedInRound, NecType, Request_
  <1>8. HonestOnRequest' /\ Nec!NoPanic' /\ UpToDate'
    BY <1>1, <1>3 DEF NecInv, HonestOnRequest, Nec!NoPanic, UpToDate
  <1> QED BY <1>4, <1>6, <1>7, <1>8 DEF NecInv

LEMMA AskAgainOk ==
    ASSUME NecInv, Nec!AskAgain
    PROVE  NecInv'
  <1>0. NecType
    BY DEF NecInv
  <1>1. /\ UNCHANGED << v1, v3, v2, v4, v5,
                        v6, v8, v9, v10, v11 >>
        /\ v7' = v7 \cup Nec!RecoveryRequest(v1, v3)
    BY DEF Nec!AskAgain
  <1>2. \A a \in Nec!RecoveryRequest(v1, v3) :
           a \in Request_ /\ a.round = v1 /\ a.qc = v3
    BY <1>0 DEF Nec!RecoveryRequest, Request_, NecType
  <1>3. NecType'
    BY <1>0, <1>1, <1>2 DEF NecType
  <1>4. AskedInRound'
    BY <1>0, <1>1, <1>2 DEF NecInv, AskedInRound, NecType
  <1>5. HonestOnRequest' /\ Nec!NoPanic' /\ NecsClosed' /\ UpToDate'
    BY <1>1 DEF NecInv, HonestOnRequest, Nec!NoPanic, NecsClosed, UpToDate
  <1>6. OpenOrDone'
    BY <1>1 DEF NecInv, OpenOrDone, Nec!GetNec
  <1> QED BY <1>3, <1>4, <1>5, <1>6 DEF NecInv

LEMMA NecRestartOk ==
    ASSUME Nec!ConstantsOk, NecInv, Nec!Restart
    PROVE  NecInv'
  <1>1. /\ UNCHANGED << v1, v3, v7, v8, v10, v11 >>
        /\ v2' = v1
        /\ v4' = {} /\ v5' = {} /\ v6' = {} /\ v9' = {}
    BY DEF Nec!Restart, Nec!NewNoEndorsementState, NecInv, UpToDate
  <1>2. NecType'
    BY <1>1 DEF NecInv, NecType
  <1>3. AskedInRound' /\ HonestOnRequest' /\ Nec!NoPanic' /\ NecsClosed' /\ UpToDate'
    BY <1>1 DEF NecInv, AskedInRound, HonestOnRequest, Nec!NoPanic, NecsClosed, UpToDate
  <1>4. ~ Nec!HasSuperMajorityVotes({})
    BY SomebodyHonest
  <1>5. \A q : {w.node : w \in {x \in v9' : x.round = v1' /\ x.qc = q}} = {}
    BY <1>1
  <1>6. OpenOrDone'
    <2>1. v1' \in Nat
      BY <1>2 DEF NecType
    <2> QED BY <1>1, <1>4, <1>5, <2>1 DEF OpenOrDone, Nec!HasSuperMajorityVotes
  <1> QED BY <1>2, <1>3, <1>6 DEF NecInv

LEMMA NecInitOk ==
    ASSUME Nec!ConstantsOk, Nec!Init
    PROVE  NecInv
  <1>1. NecType /\ AskedInRound /\ HonestOnRequest /\ NecsClosed /\ Nec!NoPanic /\ UpToDate
    BY DEF Nec!Init, NecType, AskedInRound, HonestOnRequest, NecsClosed, Nec!NoPanic, UpToDate
  <1>2. \A q : {w.node : w \in {x \in v9 : x.round = v1 /\ x.qc = q}} = {}
    BY DEF Nec!Init
  <1>3. ~ Nec!HasSuperMajorityVotes({})
    BY SomebodyHonest
  <1>4. OpenOrDone
    BY <1>2, <1>3 DEF Nec!Init, OpenOrDone
  <1> QED BY <1>1, <1>4 DEF NecInv

(* The inductive invariant holds of whatever interleaving of no-endorse-   *)
(* ments, round changes, requests and restarts.                            *)
THEOREM NecInvariance ==
    ASSUME Nec!ConstantsOk
    PROVE  Nec!Spec => []NecInv
  <1>1. Nec!Init => NecInv
    BY NecInitOk
  <1>2. NecInv /\ [Nec!Next]_(Nec!vars) => NecInv'
    <2> SUFFICES ASSUME NecInv, [Nec!Next]_(Nec!vars) PROVE NecInv'
      OBVIOUS
    <2>1. CASE Nec!Next
      BY <2>1, NoEndorsementOk, NecQcOk, NecTcOk, AskAgainOk, NecRestartOk DEF Nec!Next
    <2>2. CASE UNCHANGED Nec!vars
      BY <2>2 DEF Nec!vars, NecInv, NecType, AskedInRound, HonestOnRequest, NecsClosed, Nec!NoPanic,
                  OpenOrDone, UpToDate, Nec!GetNec, Nec!HasSuperMajorityVotes
    <2> QED BY <2>1, <2>2
  <1> QED BY <1>1, <1>2, PTL DEF Nec!Spec

(* The assertion that no NEC is built twice never fails, although          *)
(* start_new_round may lower earliest_round: the NECs it would reopen are  *)
(* of rounds already left, unless a restart found a stale forkpoint.       *)
THEOREM NoNecTwice ==
    ASSUME Nec!ConstantsOk
    PROVE  Nec!Spec => []Nec!NoPanic
  <1>1. NecInv => Nec!NoPanic
    BY DEF NecInv
  <1> QED BY <1>1, NecInvariance, PTL

(* The NEC a leader proposes with speaks of the tip its TC holds: some     *)
(* honest validator signed it, on a request made in this round.            *)
THEOREM NecIsOfTheTip ==
    ASSUME Nec!ConstantsOk
    PROVE  Nec!Spec => []Nec!NecMatchesTc
  <1>1. NecInv => Nec!NecMatchesTc
    <2> SUFFICES ASSUME NecInv, NEW c \in v6, c.round = v1 PROVE c.qc = v3
      BY DEF Nec!NecMatchesTc, Nec!GetNec
    <2>1. [round |-> c.round, qc |-> c.qc] \in v7
      BY DEF NecInv, NecsClosed
    <2> QED BY <2>1 DEF NecInv, AskedInRound
  <1> QED BY <1>1, NecInvariance, PTL

(* A supermajority of honest no-endorsements that has arrived has become   *)
(* an NEC, and the NEC is there as long as the round lasts.                *)
THEOREM NecIsKept ==
    ASSUME Nec!ConstantsOk
    PROVE  Nec!Spec => []Nec!NecKept
  <1>1. NecInv => Nec!NecKept
    <2> SUFFICES ASSUME NecInv, NEW q \in collection.TipQcRound,
                        Nec!HasSuperMajorityVotes({w.node : w \in {x \in v9 :
                                                  x.round = v1 /\ x.qc = q}})
                 PROVE  [round |-> v1, qc |-> q] \in v6
      BY DEF Nec!NecKept
    <2>1. v2 = v1 + 1
      <3>1. ~(v2 <= v1)
        BY Zenon DEF NecInv, OpenOrDone
      <3>2. v1 \in Nat /\ v2 \in Nat /\ v2 <= v1 + 1
        BY DEF NecInv, OpenOrDone, NecType
      <3> QED BY <3>1, <3>2
    <2>2. PICK c \in v6 : c.round = v1
      BY <2>1 DEF NecInv, OpenOrDone, Nec!GetNec
    <2>3. [round |-> c.round, qc |-> c.qc] \in v7 /\ c = [round |-> c.round, qc |-> c.qc]
      BY DEF NecInv, NecsClosed, NecType, Request_
    <2>4. c.qc = v3
      BY <2>2, <2>3 DEF NecInv, AskedInRound
    <2>5. PICK w \in v9 : w.round = v1 /\ w.qc = q
      BY SomebodyHonest
    <2>6. [round |-> w.round, qc |-> w.qc] \in v7
      BY <2>5 DEF NecInv, HonestOnRequest
    <2>7. q = v3
      BY <2>5, <2>6 DEF NecInv, AskedInRound
    <2> QED BY <2>2, <2>3, <2>4, <2>7
  <1> QED BY <1>1, NecInvariance, PTL

-----------------------------------------------------------------------------
(* WireAuth, for every set of configurations: any peers, number of session *)
(* indices, intervals and limits.  v1 is now, v2 begun, v3 the State, v4   *)
(* the timers and v5 the configuration.                                    *)

(* A session: only an established one has deadlines other than the timeout *)
(* of its handshake.                                                       *)
IsSession(s) ==
    /\ s = [kind |-> s.kind, key |-> s.key, addr |-> s.addr, created |-> s.created, initiator |-> s.initiator,
            retries |-> s.retries, keepalive |-> s.keepalive, rekey |-> s.rekey, timeout |-> s.timeout,
            max |-> s.max, gc |-> s.gc]
    /\ s.kind \in {"initiating", "responding", "transport"} /\ s.initiator \in BOOLEAN
    /\ s.key \in Wire!Key /\ s.addr \in Wire!Addr
    /\ s.keepalive \in Nat /\ s.rekey \in Nat /\ s.timeout \in Nat /\ s.max \in Nat /\ s.gc \in Nat
    /\ s.kind = "initiating" => s.initiator
    /\ s.kind = "responding" => ~s.initiator
    /\ s.kind # "transport" =>
         s.keepalive = Wire!Never /\ s.rekey = Wire!Never /\ s.max = Wire!Never /\ s.gc = Wire!Never /\ s.timeout < Wire!Never

(* The lists of RoleSessions.                                              *)
IsList(q) == q = <<>> \/ (\E a : q = <<a>>) \/ (\E a, b : q = <<a, b>>)

IsState(S) ==
    S = [sessions |-> S.sessions, by_key |-> S.by_key, by_socket |-> S.by_socket, allocated |-> S.allocated,
         next |-> S.next, initiated |-> S.initiated, accepted |-> S.accepted, ips |-> S.ips, total |-> S.total]

SessionsOk(S) ==
    /\ IsFiniteSet(DOMAIN S.sessions)
    /\ S.sessions = [id \in DOMAIN S.sessions |-> S.sessions[id]]
    /\ \A id \in DOMAIN S.sessions : IsSession(S.sessions[id])

(* The two tables of established sessions, which may lack those of ids.    *)
KeysOk(S, ids) ==
    /\ S.by_key = [k \in Wire!Key |-> [role \in Wire!Roles |-> S.by_key[k][role]]]
    /\ \A k \in Wire!Key, role \in Wire!Roles :
         /\ IsList(S.by_key[k][role])
         /\ Wire!ToSet(S.by_key[k][role]) \subseteq Wire!OfKey(S, k, role)
         /\ Wire!OfKey(S, k, role) \ ids \subseteq Wire!ToSet(S.by_key[k][role])

SocketsOk(S, ids) ==
    /\ S.by_socket = [a \in Wire!Addr |-> [role \in Wire!Roles |-> S.by_socket[a][role]]]
    /\ \A a \in Wire!Addr, role \in Wire!Roles :
         /\ IsList(S.by_socket[a][role])
         /\ Wire!ToSet(S.by_socket[a][role]) \subseteq Wire!OfSocket(S, a, role)
         /\ Wire!OfSocket(S, a, role) \ ids \subseteq Wire!ToSet(S.by_socket[a][role])

CountsOk(S) ==
    /\ S.allocated = DOMAIN S.sessions /\ S.total = Cardinality(DOMAIN S.sessions)
    /\ S.ips = [ip \in Wire!Ip |-> S.ips[ip]]
    /\ \A ip \in Wire!Ip : S.ips[ip] = Cardinality(Wire!OfIp(S, ip))

Responding(S) == {i \in DOMAIN S.sessions : S.sessions[i].kind = "responding"}
HandshakesOk(S) ==
    /\ S.accepted = {<<S.sessions[id].key, id>> : id \in Responding(S)}
    /\ S.initiated = [k \in DOMAIN S.initiated |-> S.initiated[k]]
    /\ \A k \in DOMAIN S.initiated :
         /\ S.initiated[k] \in DOMAIN S.sessions
         /\ S.sessions[S.initiated[k]].kind = "initiating" /\ S.sessions[S.initiated[k]].key = k

(* The tables agree, but for the established sessions ids, which the two   *)
(* tables may have lost.                                                   *)
Almost(S, ids) ==
    IsState(S) /\ SessionsOk(S) /\ KeysOk(S, ids) /\ SocketsOk(S, ids) /\ CountsOk(S) /\ HandshakesOk(S)

(* A timer of each session.  That of a handshake is set to its timeout:    *)
(* it is not set again when an older timer of its index goes off.          *)
Cov(s, id, ts) ==
    IF s.kind = "transport" THEN \E timer \in ts : timer[2] = id /\ timer[1] <= Wire!NextDeadline(s)
    ELSE <<s.timeout, id>> \in ts
Covered(S, ts) == \A id \in DOMAIN S.sessions : Cov(S.sessions[id], id, ts)

WireInv ==
    /\ v5 \in sockets /\ v1 \in 0..v5.MaxTime
    /\ Almost(v3, {}) /\ Covered(v3, v4)

LEMMA RoleLists ==
    ASSUME NEW q, IsList(q), NEW id, NEW ids
    PROVE  /\ IsList(Wire!Push(q, id)) /\ IsList(Wire!RemoveIds(q, ids))
           /\ Wire!ToSet(Wire!RemoveIds(q, ids)) = Wire!ToSet(q) \ ids
           /\ Wire!ToSet(Wire!Push(q, id)) \subseteq Wire!ToSet(q) \cup {id}
           /\ (Wire!ToSet(q) \ Wire!Evicted(q)) \cup {id} \subseteq Wire!ToSet(Wire!Push(q, id))
           /\ Wire!Current(q) \subseteq Wire!ToSet(q) /\ Wire!Evicted(q) \subseteq Wire!ToSet(q)
  <1>e. Wire!ToSet(<<>>) = {}
    BY DEF Wire!ToSet
  <1>1. \A a : Wire!ToSet(<<a>>) = {a}
    BY DEF Wire!ToSet
  <1>2. \A a, b : Wire!ToSet(<<a, b>>) = {a, b}
    BY DEF Wire!ToSet
  <1>3. CASE q = <<>>
    <2>1. Wire!Push(q, id) = <<id>> /\ Wire!RemoveIds(q, ids) = <<>> /\ Wire!Evicted(q) = {} /\ Wire!Current(q) = {}
      BY <1>3 DEF Wire!Push, Wire!RemoveIds, Wire!Evicted, Wire!Current
    <2> QED BY <2>1, <1>3, <1>e, <1>1 DEF IsList
  <1>4. CASE \E a : q = <<a>>
    <2>1. PICK a : q = <<a>>
      BY <1>4
    <2>2. Wire!Push(q, id) = <<id, a>> /\ Wire!Evicted(q) = {} /\ Wire!Current(q) = {a}
      BY <2>1 DEF Wire!Push, Wire!Evicted, Wire!Current
    <2>3. Wire!RemoveIds(q, ids) = IF a \in ids THEN <<>> ELSE <<a>>
      BY <2>1 DEF Wire!RemoveIds
    <2> QED BY <2>1, <2>2, <2>3, <1>e, <1>1, <1>2 DEF IsList
  <1>5. CASE \E a, b : q = <<a, b>>
    <2>1. PICK a, b : q = <<a, b>>
      BY <1>5
    <2>2. Wire!Push(q, id) = <<id, a>> /\ Wire!Evicted(q) = {b} /\ Wire!Current(q) = {a}
      BY <2>1 DEF Wire!Push, Wire!Evicted, Wire!Current
    <2>3. Wire!RemoveIds(q, ids) = IF a \in ids THEN IF b \in ids THEN <<>> ELSE <<b>>
                              ELSE IF b \in ids THEN <<a>> ELSE <<a, b>>
      <3> DEFINE A == IF a \in ids THEN <<>> ELSE <<a>>
                 B == IF b \in ids THEN <<>> ELSE <<b>>
      <3>1. Wire!RemoveIds(q, ids) = A \o B
        BY <2>1 DEF Wire!RemoveIds
      <3>2. <<>> \o <<>> = <<>>
        OBVIOUS
      <3>3. <<>> \o <<b>> = <<b>>
        OBVIOUS
      <3>4. <<a>> \o <<>> = <<a>>
        OBVIOUS
      <3>5. <<a>> \o <<b>> = <<a, b>>
        <4> DEFINE c == <<a>> \o <<b>>
        <4>1. c \in Seq({a, b}) /\ Len(c) = 2 /\ c[1] = a /\ c[2] = b
          OBVIOUS
        <4> HIDE DEF c
        <4>2. c = <<a, b>>
          BY <4>1
        <4> QED BY <4>2 DEF c
      <3> QED BY <3>1, <3>2, <3>3, <3>4, <3>5, Zenon
    <2> QED BY <2>1, <2>2, <2>3, <1>e, <1>1, <1>2 DEF IsList
  <1> QED BY <1>3, <1>4, <1>5 DEF IsList

(* The deadline of a session is one of its five, the earliest.             *)
LEMMA EarliestDeadline ==
    ASSUME NEW s, s.keepalive \in Nat, s.rekey \in Nat, s.timeout \in Nat, s.max \in Nat, s.gc \in Nat
    PROVE  Wire!NextDeadline(s) \in Nat /\ Wire!NextDeadline(s) <= s.timeout
  <1> DEFINE T == {s.keepalive, s.rekey, s.timeout, s.max, s.gc}
  <1>1. T \in SUBSET Nat /\ T # {} /\ s.timeout \in T
    OBVIOUS
  <1>2. Wire!NextDeadline(s) = CHOOSE n \in T : \A m \in T : n <= m
    BY Zenon DEF Wire!NextDeadline, Wire!Min
  <1> HIDE DEF T
  <1>3. Wire!NextDeadline(s) \in T /\ \A m \in T : Wire!NextDeadline(s) <= m
    BY <1>1, <1>2, LeastNumber
  <1> QED BY <1>1, <1>3

LEMMA HandshakeDeadline ==
    ASSUME NEW s, IsSession(s), s.kind # "transport"
    PROVE  Wire!NextDeadline(s) = s.timeout
  <1> DEFINE T == {s.keepalive, s.rekey, s.timeout, s.max, s.gc}
  <1>1. /\ s.keepalive \in Nat /\ s.rekey \in Nat /\ s.timeout \in Nat /\ s.max \in Nat /\ s.gc \in Nat
        /\ s.timeout <= s.keepalive /\ s.timeout <= s.rekey /\ s.timeout <= s.max /\ s.timeout <= s.gc
    BY DEF IsSession
  <1>2. T \in SUBSET Nat /\ T # {} /\ s.timeout \in T /\ \A m \in T : s.timeout <= m
    BY <1>1
  <1>3. Wire!NextDeadline(s) = CHOOSE n \in T : \A m \in T : n <= m
    BY Zenon DEF Wire!NextDeadline, Wire!Min
  <1> HIDE DEF T
  <1>4. Wire!NextDeadline(s) \in T /\ \A m \in T : Wire!NextDeadline(s) <= m
    BY <1>2, <1>3, LeastNumber
  <1>5. Wire!NextDeadline(s) \in Nat /\ Wire!NextDeadline(s) <= s.timeout /\ s.timeout <= Wire!NextDeadline(s)
    BY <1>2, <1>4
  <1> QED BY <1>1, <1>5

LEMMA FreeIndexFree ==
    ASSUME v5.Indices \in Nat \ {0}, NEW S, NEW id \in Wire!FreeIndex(S)
    PROVE  id \notin S.allocated
  <1> DEFINE after(k) == (S.next + k) % v5.Indices
             steps == {k \in 0..v5.Indices - 1 : after(k) \notin S.allocated}
  <1>1. steps # {} /\ id = after(Wire!Min(steps))
    BY DEF Wire!FreeIndex
  <1>2. steps \in SUBSET Nat
    OBVIOUS
  <1>3. Wire!Min(steps) = CHOOSE n \in steps : \A m \in steps : n <= m
    BY Zenon DEF Wire!Min
  <1>4. Wire!Min(steps) \in steps
    <2> HIDE DEF steps
    <2> QED BY <1>1, <1>2, <1>3, LeastNumber
  <1>5. after(Wire!Min(steps)) \notin S.allocated
    <2> HIDE DEF after
    <2> QED BY <1>4
  <1> QED BY <1>1, <1>5

(* terminate_session: the tables agree again on what is left.              *)
Terminated(T, S, ids) ==
    /\ IsState(T)
    /\ T.sessions = Wire!Without(S.sessions, ids) /\ T.allocated = S.allocated \ ids
    /\ T.by_key = [k \in Wire!Key |-> [role \in Wire!Roles |-> Wire!RemoveIds(S.by_key[k][role], ids \cap Wire!OfKey(S, k, role))]]
    /\ T.by_socket = [a \in Wire!Addr |-> [role \in Wire!Roles |-> Wire!RemoveIds(S.by_socket[a][role], ids \cap Wire!OfSocket(S, a, role))]]
    /\ T.initiated = Wire!Without(S.initiated,
                             {k \in DOMAIN S.initiated : S.initiated[k] \in ids /\ S.sessions[S.initiated[k]].key = k})
    /\ T.accepted = S.accepted \ {<<S.sessions[id].key, id>> : id \in ids}
    /\ T.ips = [ip \in Wire!Ip |-> Wire!SaturatingSub(S.ips[ip], Cardinality(ids \cap Wire!OfIp(S, ip)))]
    /\ T.total = Wire!SaturatingSub(S.total, Cardinality(ids))

(* The instance has a copy of Cardinality of its own.                      *)
LEMMA WireCardinality == ASSUME NEW D PROVE Wire!Cardinality(D) = Cardinality(D)
  <1>1. Wire!IsFiniteSet(D) = IsFiniteSet(D)
    BY Zenon DEF Wire!IsFiniteSet, IsFiniteSet
  <1> QED BY <1>1, Zenon DEF Wire!Cardinality, Cardinality

LEMMA TerminateFields ==
    ASSUME NEW S, IsState(S), NEW ids
    PROVE  Terminated(Wire!Terminate(S, ids), S, ids)
  <1> DEFINE a1 == Wire!Without(S.sessions, ids)
             a2 == S.allocated \ ids
             a3 == [k \in Wire!Key |-> [role \in Wire!Roles |-> Wire!RemoveIds(S.by_key[k][role], ids \cap Wire!OfKey(S, k, role))]]
             a4 == [a \in Wire!Addr |-> [role \in Wire!Roles |-> Wire!RemoveIds(S.by_socket[a][role], ids \cap Wire!OfSocket(S, a, role))]]
             a5 == Wire!Without(S.initiated,
                           {k \in DOMAIN S.initiated : S.initiated[k] \in ids /\ S.sessions[S.initiated[k]].key = k})
             a6 == S.accepted \ {<<S.sessions[id].key, id>> : id \in ids}
             a7 == [ip \in Wire!Ip |-> Wire!SaturatingSub(S.ips[ip], Cardinality(ids \cap Wire!OfIp(S, ip)))]
             a8 == Wire!SaturatingSub(S.total, Cardinality(ids))
             b7 == [ip \in Wire!Ip |-> Wire!SaturatingSub(S.ips[ip], Wire!Cardinality(ids \cap Wire!OfIp(S, ip)))]
             b8 == Wire!SaturatingSub(S.total, Wire!Cardinality(ids))
             T == Wire!Terminate(S, ids)
  <1>1. T = [S EXCEPT !.sessions = a1, !.allocated = a2, !.by_key = a3, !.by_socket = a4, !.initiated = a5,
                      !.accepted = a6, !.ips = a7, !.total = a8]
    <2>1. T = [S EXCEPT !.sessions = a1, !.allocated = a2, !.by_key = a3, !.by_socket = a4, !.initiated = a5,
                        !.accepted = a6, !.ips = b7, !.total = b8]
      BY Zenon DEF Wire!Terminate
    <2>2. a7 = b7 /\ a8 = b8
      BY WireCardinality, Zenon
    <2> HIDE DEF a1, a2, a3, a4, a5, a6, a7, a8, b7, b8, T
    <2> QED BY <2>1, <2>2, Zenon
  <1> HIDE DEF a1, a2, a3, a4, a5, a6, a7, a8, T
  <1>2. /\ T = [sessions |-> a1, by_key |-> a3, by_socket |-> a4, allocated |-> a2,
                next |-> S.next, initiated |-> a5, accepted |-> a6, ips |-> a7, total |-> a8]
    BY <1>1 DEF IsState
  <1>3. /\ T.sessions = a1 /\ T.allocated = a2 /\ T.by_key = a3 /\ T.by_socket = a4 /\ T.initiated = a5
        /\ T.accepted = a6 /\ T.ips = a7 /\ T.total = a8 /\ T.next = S.next
    BY <1>2
  <1>4. IsState(T)
    BY <1>2, <1>3 DEF IsState
  <1> QED BY <1>3, <1>4, Zenon DEF Terminated, a1, a2, a3, a4, a5, a6, a7, a8, T

LEMMA LessRemoved ==
    ASSUME NEW D, IsFiniteSet(D), NEW ids
    PROVE  Wire!SaturatingSub(Cardinality(D), Cardinality(ids \cap D)) = Cardinality(D \ ids)
  <1>1. IsFiniteSet(ids \cap D) /\ Cardinality(ids \cap D) <= Cardinality(D)
    BY FS_Subset
  <1>2. /\ Cardinality(D) \in Nat /\ Cardinality(ids \cap D) \in Nat
        /\ Cardinality(D \ ids) = Cardinality(D) - Cardinality(D \cap ids)
    BY <1>1, FS_CardinalityType, FS_Difference
  <1>3. D \cap ids = ids \cap D
    OBVIOUS
  <1> QED BY <1>1, <1>2, <1>3 DEF Wire!SaturatingSub

LEMMA TerminateAgrees ==
    ASSUME NEW S, NEW ids, Almost(S, ids), ids \subseteq DOMAIN S.sessions
    PROVE  Almost(Wire!Terminate(S, ids), {})
  <1> DEFINE T == Wire!Terminate(S, ids)
  <1>0. IsState(S) /\ SessionsOk(S) /\ KeysOk(S, ids) /\ SocketsOk(S, ids) /\ CountsOk(S) /\ HandshakesOk(S)
    BY DEF Almost
  <1>1. Terminated(T, S, ids)
    BY <1>0, TerminateFields
  <1> HIDE DEF T
  <1>2. /\ DOMAIN T.sessions = DOMAIN S.sessions \ ids
        /\ \A id \in DOMAIN S.sessions \ ids : T.sessions[id] = S.sessions[id]
        /\ T.sessions = [id \in DOMAIN T.sessions |-> T.sessions[id]]
    BY <1>1 DEF Wire!Without, Terminated
  <1>3. SessionsOk(T)
    BY <1>0, <1>2, FS_Subset DEF SessionsOk
  <1>4. ASSUME NEW k \in Wire!Key, NEW role \in Wire!Roles
        PROVE  /\ IsList(T.by_key[k][role])
               /\ Wire!ToSet(T.by_key[k][role]) = Wire!OfKey(T, k, role)
    <2> DEFINE q == S.by_key[k][role]
    <2>1. T.by_key[k][role] = Wire!RemoveIds(q, ids \cap Wire!OfKey(S, k, role))
      BY <1>1 DEF Terminated
    <2>2. IsList(q) /\ Wire!ToSet(q) \subseteq Wire!OfKey(S, k, role) /\ Wire!OfKey(S, k, role) \ ids \subseteq Wire!ToSet(q)
      BY <1>0 DEF KeysOk
    <2>3. Wire!OfKey(T, k, role) = Wire!OfKey(S, k, role) \ ids
      BY <1>2 DEF Wire!OfKey
    <2> HIDE DEF q
    <2>4. IsList(T.by_key[k][role]) /\ Wire!ToSet(T.by_key[k][role]) = Wire!ToSet(q) \ (ids \cap Wire!OfKey(S, k, role))
      BY <2>1, <2>2, RoleLists
    <2> QED BY <2>2, <2>3, <2>4
  <1>5. KeysOk(T, {})
    <2>1. T.by_key = [k \in Wire!Key |-> [role \in Wire!Roles |-> T.by_key[k][role]]]
      BY <1>1 DEF Terminated
    <2> QED BY <2>1, <1>4 DEF KeysOk
  <1>6. ASSUME NEW a \in Wire!Addr, NEW role \in Wire!Roles
        PROVE  /\ IsList(T.by_socket[a][role])
               /\ Wire!ToSet(T.by_socket[a][role]) = Wire!OfSocket(T, a, role)
    <2> DEFINE q == S.by_socket[a][role]
    <2>1. T.by_socket[a][role] = Wire!RemoveIds(q, ids \cap Wire!OfSocket(S, a, role))
      BY <1>1 DEF Terminated
    <2>2. IsList(q) /\ Wire!ToSet(q) \subseteq Wire!OfSocket(S, a, role) /\ Wire!OfSocket(S, a, role) \ ids \subseteq Wire!ToSet(q)
      BY <1>0 DEF SocketsOk
    <2>3. Wire!OfSocket(T, a, role) = Wire!OfSocket(S, a, role) \ ids
      BY <1>2 DEF Wire!OfSocket
    <2> HIDE DEF q
    <2>4. IsList(T.by_socket[a][role]) /\ Wire!ToSet(T.by_socket[a][role]) = Wire!ToSet(q) \ (ids \cap Wire!OfSocket(S, a, role))
      BY <2>1, <2>2, RoleLists
    <2> QED BY <2>2, <2>3, <2>4
  <1>7. SocketsOk(T, {})
    <2>1. T.by_socket = [a \in Wire!Addr |-> [role \in Wire!Roles |-> T.by_socket[a][role]]]
      BY <1>1 DEF Terminated
    <2> QED BY <2>1, <1>6 DEF SocketsOk
  <1>8. CountsOk(T)
    <2>1. T.allocated = DOMAIN T.sessions
      BY <1>0, <1>1, <1>2 DEF CountsOk, Terminated
    <2>2. T.total = Cardinality(DOMAIN T.sessions)
      <3>1. ids \cap DOMAIN S.sessions = ids /\ IsFiniteSet(DOMAIN S.sessions) /\ S.total = Cardinality(DOMAIN S.sessions)
        BY <1>0 DEF CountsOk, SessionsOk
      <3>2. Wire!SaturatingSub(Cardinality(DOMAIN S.sessions), Cardinality(ids \cap DOMAIN S.sessions)) =
              Cardinality(DOMAIN S.sessions \ ids)
        BY <3>1, LessRemoved
      <3> QED BY <3>1, <3>2, <1>1, <1>2, Zenon DEF Terminated
    <2>3. ASSUME NEW ip \in Wire!Ip PROVE T.ips[ip] = Cardinality(Wire!OfIp(T, ip))
      <3>1. T.ips[ip] = Wire!SaturatingSub(Cardinality(Wire!OfIp(S, ip)), Cardinality(ids \cap Wire!OfIp(S, ip)))
        BY <1>0, <1>1 DEF CountsOk, Terminated
      <3>2. Wire!OfIp(T, ip) = Wire!OfIp(S, ip) \ ids
        BY <1>2 DEF Wire!OfIp
      <3>3. IsFiniteSet(Wire!OfIp(S, ip))
        <4>1. Wire!OfIp(S, ip) \subseteq DOMAIN S.sessions
          BY DEF Wire!OfIp
        <4> QED BY <4>1, <1>0, FS_Subset DEF SessionsOk
      <3> QED BY <3>1, <3>2, <3>3, LessRemoved
    <2>4. T.ips = [ip \in Wire!Ip |-> T.ips[ip]]
      BY <1>1 DEF Terminated
    <2> QED BY <2>1, <2>2, <2>3, <2>4 DEF CountsOk
  <1>9. HandshakesOk(T)
    <2>1. Responding(T) = Responding(S) \ ids
      BY <1>2 DEF Responding
    <2>2. T.accepted = {<<T.sessions[id].key, id>> : id \in Responding(T)}
      <3>1. S.accepted = {<<S.sessions[id].key, id>> : id \in Responding(S)}
        BY <1>0 DEF HandshakesOk
      <3>2. Responding(S) \subseteq DOMAIN S.sessions
        BY DEF Responding
      <3>3. \A id \in Responding(T) : T.sessions[id] = S.sessions[id]
        BY <2>1, <3>2, <1>2
      <3>4. {<<T.sessions[id].key, id>> : id \in Responding(T)} = {<<S.sessions[id].key, id>> : id \in Responding(T)}
        BY <3>3
      <3>5. \A id1, id2, k1, k2 : <<k1, id1>> = <<k2, id2>> => id1 = id2
        OBVIOUS
      <3> QED BY <1>1, <2>1, <3>1, <3>4, <3>5 DEF Terminated
    <2>3. /\ DOMAIN T.initiated \subseteq DOMAIN S.initiated
          /\ T.initiated = [k \in DOMAIN T.initiated |-> T.initiated[k]]
          /\ \A k \in DOMAIN T.initiated : T.initiated[k] = S.initiated[k] /\ (S.initiated[k] \notin ids \/ S.sessions[S.initiated[k]].key # k)
      BY <1>1 DEF Wire!Without, Terminated
    <2>4. ASSUME NEW k \in DOMAIN T.initiated
          PROVE  /\ T.initiated[k] \in DOMAIN T.sessions
                 /\ T.sessions[T.initiated[k]].kind = "initiating" /\ T.sessions[T.initiated[k]].key = k
      <3>1. S.initiated[k] \in DOMAIN S.sessions /\ S.sessions[S.initiated[k]].kind = "initiating" /\ S.sessions[S.initiated[k]].key = k
        BY <2>3, <2>4, <1>0 DEF HandshakesOk
      <3> QED BY <3>1, <2>3, <1>2
    <2> QED BY <2>2, <2>3, <2>4 DEF HandshakesOk
  <1> QED BY <1>1, <1>3, <1>5, <1>7, <1>8, <1>9 DEF Almost, Terminated, T

(* insert_transport: an established session enters the two tables, and the *)
(* sessions it pushed out of either of them are terminated.                *)
PushedTo(T, S, id, s) ==
    /\ IsState(T)
    /\ T.sessions = Wire!Put(S.sessions, id, [s EXCEPT !.kind = "transport"])
    /\ T.by_key = Wire!Put(S.by_key, s.key, Wire!Put(S.by_key[s.key], Wire!Role(s), Wire!Push(S.by_key[s.key][Wire!Role(s)], id)))
    /\ T.by_socket = Wire!Put(S.by_socket, s.addr, Wire!Put(S.by_socket[s.addr], Wire!Role(s), Wire!Push(S.by_socket[s.addr][Wire!Role(s)], id)))
    /\ T.initiated = Wire!Without(S.initiated, {k \in DOMAIN S.initiated : k = s.key /\ S.initiated[k] = id})
    /\ T.accepted = S.accepted \ {<<s.key, id>>}
    /\ T.allocated = S.allocated /\ T.ips = S.ips /\ T.total = S.total

LEMMA PushedFields ==
    ASSUME NEW S, IsState(S), NEW id, NEW s
    PROVE  PushedTo(Wire!Pushed(S, id, s), S, id, s)
  <1> DEFINE a1 == Wire!Put(S.sessions, id, [s EXCEPT !.kind = "transport"])
             a3 == Wire!Put(S.by_key, s.key, Wire!Put(S.by_key[s.key], Wire!Role(s), Wire!Push(S.by_key[s.key][Wire!Role(s)], id)))
             a4 == Wire!Put(S.by_socket, s.addr, Wire!Put(S.by_socket[s.addr], Wire!Role(s), Wire!Push(S.by_socket[s.addr][Wire!Role(s)], id)))
             a5 == Wire!Without(S.initiated, {k \in DOMAIN S.initiated : k = s.key /\ S.initiated[k] = id})
             a6 == S.accepted \ {<<s.key, id>>}
             T == Wire!Pushed(S, id, s)
  <1>1. T = [S EXCEPT !.sessions = a1, !.by_key = a3, !.by_socket = a4, !.initiated = a5, !.accepted = a6]
    BY Zenon DEF Wire!Pushed
  <1> HIDE DEF a1, a3, a4, a5, a6, T
  <1>2. /\ T = [sessions |-> a1, by_key |-> a3, by_socket |-> a4, allocated |-> S.allocated,
                next |-> S.next, initiated |-> a5, accepted |-> a6, ips |-> S.ips, total |-> S.total]
    BY <1>1 DEF IsState
  <1>3. /\ T.sessions = a1 /\ T.allocated = S.allocated /\ T.by_key = a3 /\ T.by_socket = a4 /\ T.initiated = a5
        /\ T.accepted = a6 /\ T.ips = S.ips /\ T.total = S.total /\ T.next = S.next
    BY <1>2
  <1>4. IsState(T)
    BY <1>2, <1>3 DEF IsState
  <1> QED BY <1>3, <1>4, Zenon DEF PushedTo, a1, a3, a4, a5, a6, T

AsTransport(s) == [s EXCEPT !.kind = "transport"]

(* The session of a handshake, established.                                *)
Establishes(S, id, s) ==
    /\ id \in DOMAIN S.sessions /\ S.sessions[id].kind # "transport"
    /\ IsSession(AsTransport(s)) /\ DOMAIN s = DOMAIN S.sessions[id]
    /\ s.key = S.sessions[id].key /\ s.addr = S.sessions[id].addr /\ s.initiator = S.sessions[id].initiator

LEMMA PushedAgrees ==
    ASSUME NEW S, NEW id, NEW s, Almost(S, {}), Establishes(S, id, s)
    PROVE  LET T == Wire!Pushed(S, id, s)
           IN /\ Almost(T, Wire!Evicted(S.by_key[s.key][Wire!Role(s)]) \cup Wire!Evicted(S.by_socket[s.addr][Wire!Role(s)]))
              /\ DOMAIN T.sessions = DOMAIN S.sessions
              /\ \A i \in DOMAIN T.sessions :
                   T.sessions[i] = IF i = id THEN AsTransport(s) ELSE S.sessions[i]
  <1> DEFINE T == Wire!Pushed(S, id, s)
             t == AsTransport(s)
             r == Wire!Role(s)
             ids == Wire!Evicted(S.by_key[s.key][r]) \cup Wire!Evicted(S.by_socket[s.addr][r])
  <1>0. IsState(S) /\ SessionsOk(S) /\ KeysOk(S, {}) /\ SocketsOk(S, {}) /\ CountsOk(S) /\ HandshakesOk(S)
    BY DEF Almost
  <1>1. PushedTo(T, S, id, s)
    BY <1>0, PushedFields
  <1>s. /\ IsSession(S.sessions[id]) /\ IsSession(t) /\ r \in Wire!Roles
        /\ s.key = S.sessions[id].key /\ s.addr = S.sessions[id].addr /\ s.initiator = S.sessions[id].initiator
        /\ id \in DOMAIN S.sessions /\ S.sessions[id].kind # "transport" /\ DOMAIN s = DOMAIN S.sessions[id]
    BY <1>0 DEF SessionsOk, Establishes, Wire!Role, Wire!Roles
  <1>t. /\ t.kind = "transport" /\ t.key = s.key /\ t.addr = s.addr /\ Wire!Role(t) = r
        /\ s.key \in Wire!Key /\ s.addr \in Wire!Addr
    <2>1. DOMAIN s = {"kind", "key", "addr", "created", "initiator", "retries", "keepalive", "rekey", "timeout", "max", "gc"}
      BY <1>s DEF IsSession
    <2>2. t.kind = "transport" /\ t.key = s.key /\ t.addr = s.addr /\ t.initiator = s.initiator
      BY <2>1 DEF AsTransport
    <2>3. s.key \in Wire!Key /\ s.addr \in Wire!Addr
      BY SMTT(30), <1>s DEF IsSession
    <2> HIDE DEF t
    <2> QED BY <2>2, <2>3 DEF Wire!Role
  <1> HIDE DEF T, t, r
  <1>2. /\ DOMAIN T.sessions = DOMAIN S.sessions
        /\ \A i \in DOMAIN T.sessions : T.sessions[i] = IF i = id THEN t ELSE S.sessions[i]
        /\ T.sessions = [i \in DOMAIN T.sessions |-> T.sessions[i]]
    BY ZenonT(40), <1>1, <1>s DEF PushedTo, Wire!Put, t, AsTransport
  <1>3. SessionsOk(T)
    BY <1>0, <1>2, <1>s DEF SessionsOk
  <1>4. ASSUME NEW k \in Wire!Key, NEW role \in Wire!Roles
        PROVE  /\ IsList(T.by_key[k][role])
               /\ Wire!ToSet(T.by_key[k][role]) \subseteq Wire!OfKey(T, k, role)
               /\ Wire!OfKey(T, k, role) \ ids \subseteq Wire!ToSet(T.by_key[k][role])
    <2> DEFINE q == S.by_key[k][role]
    <2>1. T.by_key[k][role] = IF k = s.key /\ role = r THEN Wire!Push(q, id) ELSE q
      <3>1. S.by_key = [kk \in Wire!Key |-> [rr \in Wire!Roles |-> S.by_key[kk][rr]]]
        BY <1>0, Zenon DEF KeysOk
      <3> QED BY <3>1, <1>1, <1>t DEF PushedTo, Wire!Put, r
    <2>2. IsList(q) /\ Wire!ToSet(q) \subseteq Wire!OfKey(S, k, role) /\ Wire!OfKey(S, k, role) \ {} \subseteq Wire!ToSet(q)
      BY <1>0 DEF KeysOk
    <2>3. Wire!OfKey(T, k, role) = IF k = s.key /\ role = r THEN Wire!OfKey(S, k, role) \cup {id} ELSE Wire!OfKey(S, k, role)
      <3>1. \A i \in DOMAIN S.sessions : i # id => (i \in Wire!OfKey(T, k, role) <=> i \in Wire!OfKey(S, k, role))
        BY <1>2 DEF Wire!OfKey
      <3>2. id \notin Wire!OfKey(S, k, role) /\ (id \in Wire!OfKey(T, k, role) <=> k = s.key /\ role = r)
        BY <1>2, <1>s, <1>t DEF Wire!OfKey
      <3>3. Wire!OfKey(T, k, role) \subseteq DOMAIN S.sessions /\ Wire!OfKey(S, k, role) \subseteq DOMAIN S.sessions
        BY <1>2 DEF Wire!OfKey
      <3> QED BY <3>1, <3>2, <3>3, <1>s
    <2>4. k = s.key /\ role = r => Wire!Evicted(q) \subseteq ids
      OBVIOUS
    <2> HIDE DEF q, ids
    <2>5. IsList(Wire!Push(q, id)) /\ Wire!ToSet(Wire!Push(q, id)) \subseteq Wire!ToSet(q) \cup {id}
          /\ (Wire!ToSet(q) \ Wire!Evicted(q)) \cup {id} \subseteq Wire!ToSet(Wire!Push(q, id))
      BY <2>2, RoleLists
    <2>6. CASE k = s.key /\ role = r
      BY <2>1, <2>2, <2>3, <2>4, <2>5, <2>6
    <2>7. CASE ~ (k = s.key /\ role = r)
      BY <2>1, <2>2, <2>3, <2>7
    <2> QED BY <2>6, <2>7
  <1>5. KeysOk(T, ids)
    <2>1. T.by_key = [k \in Wire!Key |-> [role \in Wire!Roles |-> T.by_key[k][role]]]
      <3> DEFINE e == Wire!Put(S.by_key[s.key], r, Wire!Push(S.by_key[s.key][r], id))
      <3>1. S.by_key = [kk \in Wire!Key |-> [rr \in Wire!Roles |-> S.by_key[kk][rr]]]
        BY <1>0, Zenon DEF KeysOk
      <3>2. DOMAIN S.by_key = Wire!Key /\ \A k \in Wire!Key : S.by_key[k] = [rr \in Wire!Roles |-> S.by_key[k][rr]]
        BY <3>1
      <3>3. e = [rr \in Wire!Roles |-> e[rr]]
        BY <3>2, <1>t, <1>s DEF Wire!Put
      <3>4. T.by_key = Wire!Put(S.by_key, s.key, e)
        BY <1>1, Zenon DEF PushedTo, r
      <3> HIDE DEF e
      <3>5. T.by_key = [k \in Wire!Key |-> IF k = s.key THEN e ELSE S.by_key[k]]
        BY <3>2, <3>4, <1>t DEF Wire!Put
      <3>6. \A k \in Wire!Key : T.by_key[k] = [rr \in Wire!Roles |-> T.by_key[k][rr]]
        BY <3>2, <3>3, <3>5
      <3> QED BY <3>5, <3>6
    <2> HIDE DEF ids
    <2> QED BY <2>1, <1>4 DEF KeysOk
  <1>6. ASSUME NEW a \in Wire!Addr, NEW role \in Wire!Roles
        PROVE  /\ IsList(T.by_socket[a][role])
               /\ Wire!ToSet(T.by_socket[a][role]) \subseteq Wire!OfSocket(T, a, role)
               /\ Wire!OfSocket(T, a, role) \ ids \subseteq Wire!ToSet(T.by_socket[a][role])
    <2> DEFINE q == S.by_socket[a][role]
    <2>1. T.by_socket[a][role] = IF a = s.addr /\ role = r THEN Wire!Push(q, id) ELSE q
      <3>1. S.by_socket = [kk \in Wire!Addr |-> [rr \in Wire!Roles |-> S.by_socket[kk][rr]]]
        BY <1>0, Zenon DEF SocketsOk
      <3> QED BY <3>1, <1>1, <1>t DEF PushedTo, Wire!Put, r
    <2>2. IsList(q) /\ Wire!ToSet(q) \subseteq Wire!OfSocket(S, a, role) /\ Wire!OfSocket(S, a, role) \ {} \subseteq Wire!ToSet(q)
      BY <1>0 DEF SocketsOk
    <2>3. Wire!OfSocket(T, a, role) = IF a = s.addr /\ role = r THEN Wire!OfSocket(S, a, role) \cup {id} ELSE Wire!OfSocket(S, a, role)
      <3>1. \A i \in DOMAIN S.sessions : i # id => (i \in Wire!OfSocket(T, a, role) <=> i \in Wire!OfSocket(S, a, role))
        BY <1>2 DEF Wire!OfSocket
      <3>2. id \notin Wire!OfSocket(S, a, role) /\ (id \in Wire!OfSocket(T, a, role) <=> a = s.addr /\ role = r)
        BY <1>2, <1>s, <1>t DEF Wire!OfSocket
      <3>3. Wire!OfSocket(T, a, role) \subseteq DOMAIN S.sessions /\ Wire!OfSocket(S, a, role) \subseteq DOMAIN S.sessions
        BY <1>2 DEF Wire!OfSocket
      <3> QED BY <3>1, <3>2, <3>3, <1>s
    <2>4. a = s.addr /\ role = r => Wire!Evicted(q) \subseteq ids
      OBVIOUS
    <2> HIDE DEF q, ids
    <2>5. IsList(Wire!Push(q, id)) /\ Wire!ToSet(Wire!Push(q, id)) \subseteq Wire!ToSet(q) \cup {id}
          /\ (Wire!ToSet(q) \ Wire!Evicted(q)) \cup {id} \subseteq Wire!ToSet(Wire!Push(q, id))
      BY <2>2, RoleLists
    <2>6. CASE a = s.addr /\ role = r
      BY <2>1, <2>2, <2>3, <2>4, <2>5, <2>6
    <2>7. CASE ~ (a = s.addr /\ role = r)
      BY <2>1, <2>2, <2>3, <2>7
    <2> QED BY <2>6, <2>7
  <1>7. SocketsOk(T, ids)
    <2>1. T.by_socket = [a \in Wire!Addr |-> [role \in Wire!Roles |-> T.by_socket[a][role]]]
      <3> DEFINE e == Wire!Put(S.by_socket[s.addr], r, Wire!Push(S.by_socket[s.addr][r], id))
      <3>1. S.by_socket = [kk \in Wire!Addr |-> [rr \in Wire!Roles |-> S.by_socket[kk][rr]]]
        BY <1>0, Zenon DEF SocketsOk
      <3>2. DOMAIN S.by_socket = Wire!Addr /\ \A a \in Wire!Addr : S.by_socket[a] = [rr \in Wire!Roles |-> S.by_socket[a][rr]]
        BY <3>1
      <3>3. e = [rr \in Wire!Roles |-> e[rr]]
        BY <3>2, <1>t, <1>s DEF Wire!Put
      <3>4. T.by_socket = Wire!Put(S.by_socket, s.addr, e)
        BY <1>1, Zenon DEF PushedTo, r
      <3> HIDE DEF e
      <3>5. T.by_socket = [a \in Wire!Addr |-> IF a = s.addr THEN e ELSE S.by_socket[a]]
        BY <3>2, <3>4, <1>t DEF Wire!Put
      <3>6. \A a \in Wire!Addr : T.by_socket[a] = [rr \in Wire!Roles |-> T.by_socket[a][rr]]
        BY <3>2, <3>3, <3>5
      <3> QED BY <3>5, <3>6
    <2> HIDE DEF ids
    <2> QED BY <2>1, <1>6 DEF SocketsOk
  <1>8. CountsOk(T)
    <2>1. \A ip \in Wire!Ip : Wire!OfIp(T, ip) = Wire!OfIp(S, ip)
      <3>1. \A i \in DOMAIN S.sessions : T.sessions[i].addr = S.sessions[i].addr
        BY <1>2, <1>s, <1>t
      <3> QED BY <3>1, <1>2 DEF Wire!OfIp
    <2> QED BY <2>1, <1>0, <1>1, <1>2 DEF CountsOk, PushedTo
  <1>9. HandshakesOk(T)
    <2>1. Responding(T) = Responding(S) \ {id}
      BY <1>2, <1>t DEF Responding
    <2>2. T.accepted = {<<T.sessions[i].key, i>> : i \in Responding(T)}
      <3>1. S.accepted = {<<S.sessions[i].key, i>> : i \in Responding(S)}
        BY <1>0 DEF HandshakesOk
      <3>2. Responding(S) \subseteq DOMAIN S.sessions
        BY DEF Responding
      <3>3. \A i \in Responding(T) : T.sessions[i] = S.sessions[i]
        BY <2>1, <3>2, <1>2
      <3>4. {<<T.sessions[i].key, i>> : i \in Responding(T)} = {<<S.sessions[i].key, i>> : i \in Responding(T)}
        BY <3>3
      <3> QED BY <1>1, <1>s, <2>1, <3>1, <3>4 DEF PushedTo
    <2>3. /\ DOMAIN T.initiated \subseteq DOMAIN S.initiated
          /\ T.initiated = [k \in DOMAIN T.initiated |-> T.initiated[k]]
          /\ \A k \in DOMAIN T.initiated : T.initiated[k] = S.initiated[k] /\ ~ (k = s.key /\ S.initiated[k] = id)
      BY <1>1 DEF Wire!Without, PushedTo
    <2>4. ASSUME NEW k \in DOMAIN T.initiated
          PROVE  /\ T.initiated[k] \in DOMAIN T.sessions
                 /\ T.sessions[T.initiated[k]].kind = "initiating" /\ T.sessions[T.initiated[k]].key = k
      <3>1. S.initiated[k] \in DOMAIN S.sessions /\ S.sessions[S.initiated[k]].kind = "initiating" /\ S.sessions[S.initiated[k]].key = k
        BY <2>3, <2>4, <1>0 DEF HandshakesOk
      <3> QED BY <3>1, <2>3, <1>2, <1>s
    <2> QED BY <2>2, <2>3, <2>4 DEF HandshakesOk
  <1>10. Almost(T, ids)
    <2> HIDE DEF ids
    <2> QED BY <1>1, <1>3, <1>5, <1>7, <1>8, <1>9 DEF Almost, PushedTo
  <1> QED BY <1>2, <1>10 DEF T, t, r

LEMMA InsertTransportAgrees ==
    ASSUME NEW S, NEW id, NEW s, Almost(S, {}), Establishes(S, id, s)
    PROVE  LET T == Wire!InsertTransport(S, id, s)
           IN /\ Almost(T, {}) /\ DOMAIN T.sessions \subseteq DOMAIN S.sessions
              /\ \A i \in DOMAIN T.sessions :
                   T.sessions[i] = IF i = id THEN AsTransport(s) ELSE S.sessions[i]
  <1> DEFINE P == Wire!Pushed(S, id, s)
             t == AsTransport(s)
             k == s.key
             a == s.addr
             r == Wire!Role(s)
             ids == Wire!Evicted(S.by_key[k][r]) \cup Wire!Evicted(S.by_socket[a][r])
             T == Wire!Terminate(P, ids)
  <1>0. IsState(S) /\ SessionsOk(S) /\ KeysOk(S, {}) /\ SocketsOk(S, {})
    BY DEF Almost
  <1>1. k \in Wire!Key /\ a \in Wire!Addr /\ r \in Wire!Roles
    BY <1>0 DEF SessionsOk, IsSession, Establishes, Wire!Role, Wire!Roles
  <1>2. Almost(P, ids) /\ DOMAIN P.sessions = DOMAIN S.sessions
        /\ \A i \in DOMAIN P.sessions : P.sessions[i] = IF i = id THEN t ELSE S.sessions[i]
    BY PushedAgrees
  <1>3. ids \subseteq {i \in DOMAIN S.sessions : S.sessions[i].kind = "transport"}
    <2>1. /\ IsList(S.by_key[k][r]) /\ Wire!ToSet(S.by_key[k][r]) \subseteq Wire!OfKey(S, k, r)
          /\ IsList(S.by_socket[a][r]) /\ Wire!ToSet(S.by_socket[a][r]) \subseteq Wire!OfSocket(S, a, r)
      BY <1>0, <1>1, Zenon DEF KeysOk, SocketsOk
    <2>2. /\ Wire!Evicted(S.by_key[k][r]) \subseteq Wire!ToSet(S.by_key[k][r])
          /\ Wire!Evicted(S.by_socket[a][r]) \subseteq Wire!ToSet(S.by_socket[a][r])
      BY <2>1, RoleLists
    <2>3. /\ Wire!OfKey(S, k, r) \subseteq {i \in DOMAIN S.sessions : S.sessions[i].kind = "transport"}
          /\ Wire!OfSocket(S, a, r) \subseteq {i \in DOMAIN S.sessions : S.sessions[i].kind = "transport"}
      BY DEF Wire!OfKey, Wire!OfSocket
    <2> QED BY <2>1, <2>2, <2>3, Zenon
  <1>4. Wire!InsertTransport(S, id, s) = T
    <2>1. ids \cap {i \in DOMAIN S.sessions : S.sessions[i].kind = "transport"} = ids
      BY <1>3, Zenon
    <2> QED BY <2>1, Zenon DEF Wire!InsertTransport
  <1> HIDE DEF P, ids, t
  <1>5. ids \subseteq DOMAIN P.sessions
    BY <1>2, <1>3
  <1>6. Almost(T, {})
    BY <1>2, <1>5, TerminateAgrees
  <1>7. T.sessions = Wire!Without(P.sessions, ids)
    BY ZenonT(40), <1>2, TerminateFields DEF Almost, Terminated
  <1>8. /\ DOMAIN T.sessions \subseteq DOMAIN S.sessions
        /\ \A i \in DOMAIN T.sessions : T.sessions[i] = IF i = id THEN t ELSE S.sessions[i]
    BY <1>2, <1>7 DEF Wire!Without
  <1> QED BY <1>4, <1>6, <1>8 DEF t

(* A handshake begun or accepted at a free index.                          *)
InsertedTo(T, S, id, s) ==
    /\ IsState(T)
    /\ T.sessions = Wire!Put(S.sessions, id, s) /\ T.allocated = S.allocated \cup {id}
    /\ T.by_key = S.by_key /\ T.by_socket = S.by_socket
    /\ T.initiated = (IF s.initiator THEN Wire!Put(S.initiated, s.key, id) ELSE S.initiated)
    /\ T.accepted = (IF s.initiator THEN S.accepted ELSE S.accepted \cup {<<s.key, id>>})
    /\ T.ips = Wire!Put(S.ips, s.addr[1], S.ips[s.addr[1]] + 1)
    /\ T.total = S.total + 1

LEMMA InsertFields ==
    ASSUME NEW S, IsState(S), NEW id, NEW s
    PROVE  InsertedTo(Wire!InsertSession(S, id, s), S, id, s)
  <1> DEFINE a1 == Wire!Put(S.sessions, id, s)
             a2 == S.allocated \cup {id}
             a3 == (id + 1) % v5.Indices
             a5 == IF s.initiator THEN Wire!Put(S.initiated, s.key, id) ELSE S.initiated
             a6 == IF s.initiator THEN S.accepted ELSE S.accepted \cup {<<s.key, id>>}
             a7 == Wire!Put(S.ips, s.addr[1], S.ips[s.addr[1]] + 1)
             a8 == S.total + 1
             T == Wire!InsertSession(S, id, s)
  <1>1. T = [S EXCEPT !.sessions = a1, !.allocated = a2, !.next = a3, !.initiated = a5, !.accepted = a6, !.ips = a7, !.total = a8]
    BY Zenon DEF Wire!InsertSession
  <1> HIDE DEF a1, a2, a3, a5, a6, a7, a8, T
  <1>2. /\ T = [sessions |-> a1, by_key |-> S.by_key, by_socket |-> S.by_socket, allocated |-> a2,
                next |-> a3, initiated |-> a5, accepted |-> a6, ips |-> a7, total |-> a8]
    BY <1>1 DEF IsState
  <1>3. /\ T.sessions = a1 /\ T.allocated = a2 /\ T.by_key = S.by_key /\ T.by_socket = S.by_socket /\ T.initiated = a5
        /\ T.accepted = a6 /\ T.ips = a7 /\ T.total = a8 /\ T.next = a3
    BY <1>2
  <1>4. IsState(T)
    BY <1>2, <1>3 DEF IsState
  <1> QED BY <1>3, <1>4, Zenon DEF InsertedTo, a1, a2, a3, a5, a6, a7, a8, T

LEMMA InsertAgrees ==
    ASSUME NEW S, NEW id, NEW s, Almost(S, {}), id \notin S.allocated,
           IsSession(s), s.kind = IF s.initiator THEN "initiating" ELSE "responding"
    PROVE  LET T == Wire!InsertSession(S, id, s)
           IN /\ Almost(T, {}) /\ id \notin DOMAIN S.sessions /\ DOMAIN T.sessions = DOMAIN S.sessions \cup {id}
              /\ \A i \in DOMAIN T.sessions : T.sessions[i] = IF i = id THEN s ELSE S.sessions[i]
  <1> DEFINE T == Wire!InsertSession(S, id, s)
  <1>0. IsState(S) /\ SessionsOk(S) /\ KeysOk(S, {}) /\ SocketsOk(S, {}) /\ CountsOk(S) /\ HandshakesOk(S)
    BY DEF Almost
  <1>1. InsertedTo(T, S, id, s)
    BY <1>0, InsertFields
  <1> HIDE DEF T
  <1>2. /\ id \notin DOMAIN S.sessions
        /\ DOMAIN T.sessions = DOMAIN S.sessions \cup {id}
        /\ \A i \in DOMAIN T.sessions : T.sessions[i] = IF i = id THEN s ELSE S.sessions[i]
        /\ T.sessions = [i \in DOMAIN T.sessions |-> T.sessions[i]]
    BY <1>0, <1>1 DEF InsertedTo, Wire!Put, CountsOk
  <1>s. s.key \in Wire!Key /\ s.addr \in Wire!Addr /\ s.addr[1] \in Wire!Ip /\ s.initiator \in BOOLEAN
        /\ s.kind = (IF s.initiator THEN "initiating" ELSE "responding") /\ s.kind # "transport"
    BY DEF IsSession, Wire!Ip
  <1>3. SessionsOk(T)
    <2>1. IsFiniteSet(DOMAIN S.sessions \cup {id})
      BY <1>0, FS_AddElement DEF SessionsOk
    <2> QED BY <2>1, <1>0, <1>2 DEF SessionsOk
  <1>4. KeysOk(T, {})
    <2>1. \A k \in Wire!Key, role \in Wire!Roles : Wire!OfKey(T, k, role) = Wire!OfKey(S, k, role)
      BY <1>2, <1>s DEF Wire!OfKey
    <2>2. T.by_key = S.by_key
      BY <1>1 DEF InsertedTo
    <2> QED BY <1>0, <2>1, <2>2 DEF KeysOk
  <1>5. SocketsOk(T, {})
    <2>1. \A a \in Wire!Addr, role \in Wire!Roles : Wire!OfSocket(T, a, role) = Wire!OfSocket(S, a, role)
      BY <1>2, <1>s DEF Wire!OfSocket
    <2>2. T.by_socket = S.by_socket
      BY <1>1 DEF InsertedTo
    <2> QED BY <1>0, <2>1, <2>2 DEF SocketsOk
  <1>6. CountsOk(T)
    <2>1. T.allocated = DOMAIN T.sessions
      BY <1>0, <1>1, <1>2 DEF CountsOk, InsertedTo
    <2>2. T.total = Cardinality(DOMAIN T.sessions)
      <3>1. IsFiniteSet(DOMAIN S.sessions) /\ S.total = Cardinality(DOMAIN S.sessions)
        BY <1>0 DEF CountsOk, SessionsOk
      <3>2. Cardinality(DOMAIN S.sessions \cup {id}) = Cardinality(DOMAIN S.sessions) + 1
        BY <3>1, <1>2, FS_AddElement
      <3> QED BY <3>1, <3>2, <1>1, <1>2, Zenon DEF InsertedTo
    <2>3. ASSUME NEW ip \in Wire!Ip PROVE T.ips[ip] = Cardinality(Wire!OfIp(T, ip))
      <3>1. T.ips[ip] = IF ip = s.addr[1] THEN S.ips[ip] + 1 ELSE S.ips[ip]
        <4>1. DOMAIN S.ips = Wire!Ip
          BY <1>0 DEF CountsOk
        <4> QED BY <4>1, <1>1, <1>s DEF InsertedTo, Wire!Put
      <3>2. Wire!OfIp(T, ip) = IF ip = s.addr[1] THEN Wire!OfIp(S, ip) \cup {id} ELSE Wire!OfIp(S, ip)
        BY <1>2 DEF Wire!OfIp
      <3>3. IsFiniteSet(Wire!OfIp(S, ip)) /\ id \notin Wire!OfIp(S, ip)
        <4>1. Wire!OfIp(S, ip) \subseteq DOMAIN S.sessions
          BY DEF Wire!OfIp
        <4> QED BY <4>1, <1>0, <1>2, FS_Subset DEF SessionsOk
      <3>4. Cardinality(Wire!OfIp(S, ip) \cup {id}) = Cardinality(Wire!OfIp(S, ip)) + 1
        BY <3>3, FS_AddElement
      <3>5. S.ips[ip] = Cardinality(Wire!OfIp(S, ip))
        BY <1>0 DEF CountsOk
      <3> QED BY <3>1, <3>2, <3>4, <3>5, Zenon
    <2>4. T.ips = [ip \in Wire!Ip |-> T.ips[ip]]
      <3>1. S.ips = [ip \in Wire!Ip |-> S.ips[ip]]
        BY <1>0 DEF CountsOk
      <3>2. DOMAIN S.ips = Wire!Ip
        BY <3>1
      <3> QED BY <3>2, <1>1, <1>s DEF InsertedTo, Wire!Put
    <2> QED BY <2>1, <2>2, <2>3, <2>4 DEF CountsOk
  <1>7. HandshakesOk(T)
    <2>1. Responding(T) = IF s.initiator THEN Responding(S) ELSE Responding(S) \cup {id}
      BY <1>2, <1>s DEF Responding
    <2>2. T.accepted = {<<T.sessions[i].key, i>> : i \in Responding(T)}
      <3>1. S.accepted = {<<S.sessions[i].key, i>> : i \in Responding(S)}
        BY <1>0 DEF HandshakesOk
      <3>2. Responding(S) \subseteq DOMAIN S.sessions
        BY DEF Responding
      <3>3. \A i \in Responding(S) : T.sessions[i] = S.sessions[i]
        BY <3>2, <1>2
      <3>4. {<<T.sessions[i].key, i>> : i \in Responding(S)} = S.accepted
        BY <3>1, <3>3
      <3>5. T.sessions[id].key = s.key
        BY <1>2
      <3>6. T.accepted = IF s.initiator THEN S.accepted ELSE S.accepted \cup {<<s.key, id>>}
        BY <1>1 DEF InsertedTo
      <3>7. CASE s.initiator
        BY <2>1, <3>4, <3>6, <3>7
      <3>8. CASE ~s.initiator
        <4>1. {<<T.sessions[i].key, i>> : i \in Responding(S) \cup {id}} =
                {<<T.sessions[i].key, i>> : i \in Responding(S)} \cup {<<T.sessions[id].key, id>>}
          OBVIOUS
        <4> QED BY <4>1, <2>1, <3>4, <3>5, <3>6, <3>8, Zenon
      <3> QED BY <3>7, <3>8
    <2>3. /\ T.initiated = [k \in DOMAIN T.initiated |-> T.initiated[k]]
          /\ \A k \in DOMAIN T.initiated :
               \/ s.initiator /\ k = s.key /\ T.initiated[k] = id
               \/ k \in DOMAIN S.initiated /\ T.initiated[k] = S.initiated[k]
      <3>1. T.initiated = IF s.initiator THEN Wire!Put(S.initiated, s.key, id) ELSE S.initiated
        BY <1>1, Zenon DEF InsertedTo
      <3>2. S.initiated = [k \in DOMAIN S.initiated |-> S.initiated[k]]
        BY <1>0, Zenon DEF HandshakesOk
      <3>3. CASE s.initiator
        BY <3>1, <3>3 DEF Wire!Put
      <3>4. CASE ~s.initiator
        BY <3>1, <3>2, <3>4
      <3> QED BY <3>3, <3>4
    <2>4. ASSUME NEW k \in DOMAIN T.initiated
          PROVE  /\ T.initiated[k] \in DOMAIN T.sessions
                 /\ T.sessions[T.initiated[k]].kind = "initiating" /\ T.sessions[T.initiated[k]].key = k
      <3>1. CASE s.initiator /\ k = s.key /\ T.initiated[k] = id
        BY <3>1, <1>2, <1>s
      <3>2. CASE k \in DOMAIN S.initiated /\ T.initiated[k] = S.initiated[k]
        <4>1. S.initiated[k] \in DOMAIN S.sessions /\ S.sessions[S.initiated[k]].kind = "initiating" /\ S.sessions[S.initiated[k]].key = k
          BY <3>2, <1>0 DEF HandshakesOk
        <4> QED BY <4>1, <3>2, <1>2
      <3> QED BY <2>3, <2>4, <3>1, <3>2
    <2> QED BY <2>2, <2>3, <2>4 DEF HandshakesOk
  <1> QED BY <1>1, <1>2, <1>3, <1>4, <1>5, <1>6, <1>7 DEF Almost, InsertedTo, T

(* A deadline moved: nothing the tables are about changes.                 *)
Replaced(S, id, s) == [S EXCEPT !.sessions = Wire!Put(@, id, s)]

LEMMA ReplacedAgrees ==
    ASSUME NEW S, NEW id \in DOMAIN S.sessions, NEW s, Almost(S, {}), S.sessions[id].kind = "transport",
           IsSession(s), s.kind = "transport", s.key = S.sessions[id].key, s.addr = S.sessions[id].addr,
           s.initiator = S.sessions[id].initiator
    PROVE  /\ Almost(Replaced(S, id, s), {}) /\ DOMAIN Replaced(S, id, s).sessions = DOMAIN S.sessions
           /\ \A i \in DOMAIN S.sessions : Replaced(S, id, s).sessions[i] = IF i = id THEN s ELSE S.sessions[i]
  <1> DEFINE T == Replaced(S, id, s)
             a1 == Wire!Put(S.sessions, id, s)
  <1>0. IsState(S) /\ SessionsOk(S) /\ KeysOk(S, {}) /\ SocketsOk(S, {}) /\ CountsOk(S) /\ HandshakesOk(S)
    BY DEF Almost
  <1>1. T = [S EXCEPT !.sessions = a1]
    BY DEF Replaced
  <1> HIDE DEF T, a1
  <1>2. T = [sessions |-> a1, by_key |-> S.by_key, by_socket |-> S.by_socket, allocated |-> S.allocated,
             next |-> S.next, initiated |-> S.initiated, accepted |-> S.accepted, ips |-> S.ips, total |-> S.total]
    BY <1>0, <1>1 DEF IsState
  <1>3. /\ IsState(T) /\ T.sessions = a1 /\ T.allocated = S.allocated /\ T.by_key = S.by_key /\ T.by_socket = S.by_socket
        /\ T.initiated = S.initiated /\ T.accepted = S.accepted /\ T.ips = S.ips /\ T.total = S.total
    BY <1>2 DEF IsState
  <1>4. /\ DOMAIN T.sessions = DOMAIN S.sessions
        /\ \A i \in DOMAIN S.sessions : T.sessions[i] = IF i = id THEN s ELSE S.sessions[i]
        /\ T.sessions = [i \in DOMAIN T.sessions |-> T.sessions[i]]
    BY <1>3 DEF a1, Wire!Put
  <1>5. \A i \in DOMAIN S.sessions :
          /\ T.sessions[i].kind = S.sessions[i].kind /\ T.sessions[i].key = S.sessions[i].key
          /\ T.sessions[i].addr = S.sessions[i].addr /\ Wire!Role(T.sessions[i]) = Wire!Role(S.sessions[i])
    BY <1>4 DEF Wire!Role
  <1>6. SessionsOk(T)
    BY <1>0, <1>4 DEF SessionsOk
  <1>7. KeysOk(T, {})
    <2>1. \A k \in Wire!Key, role \in Wire!Roles : Wire!OfKey(T, k, role) = Wire!OfKey(S, k, role)
      BY <1>4, <1>5 DEF Wire!OfKey
    <2> QED BY <1>0, <1>3, <2>1 DEF KeysOk
  <1>8. SocketsOk(T, {})
    <2>1. \A a \in Wire!Addr, role \in Wire!Roles : Wire!OfSocket(T, a, role) = Wire!OfSocket(S, a, role)
      BY <1>4, <1>5 DEF Wire!OfSocket
    <2> QED BY <1>0, <1>3, <2>1 DEF SocketsOk
  <1>9. CountsOk(T)
    <2>1. \A ip \in Wire!Ip : Wire!OfIp(T, ip) = Wire!OfIp(S, ip)
      BY <1>4, <1>5 DEF Wire!OfIp
    <2> QED BY <1>0, <1>3, <1>4, <2>1 DEF CountsOk
  <1>10. HandshakesOk(T)
    <2>1. Responding(T) = Responding(S) /\ Responding(S) \subseteq DOMAIN S.sessions
      BY <1>4, <1>5 DEF Responding
    <2>2. {<<T.sessions[i].key, i>> : i \in Responding(S)} = {<<S.sessions[i].key, i>> : i \in Responding(S)}
      BY <2>1, <1>5
    <2>3. T.accepted = {<<T.sessions[i].key, i>> : i \in Responding(T)}
      BY <1>0, <1>3, <2>1, <2>2 DEF HandshakesOk
    <2> QED BY <1>0, <1>3, <1>4, <1>5, <2>3 DEF HandshakesOk
  <1> QED BY <1>3, <1>4, <1>6, <1>7, <1>8, <1>9, <1>10 DEF Almost, T

(* Timers.                                                                 *)
LEMMA WireNumbers ==
    ASSUME Wire!ConstantsOk, v5 \in sockets
    PROVE  /\ v5.Indices \in Nat \ {0} /\ v5.max_session_duration \in Nat /\ v5.MaxTime \in Nat
           /\ v5.keepalive_interval \in 1..v5.max_session_duration
           /\ v5.session_timeout \in 1..v5.max_session_duration
           /\ v5.gc_idle_timeout \in 1..v5.max_session_duration
           /\ v5.rekey_interval \in 1..v5.max_session_duration
           /\ Wire!Never \in Nat
  <1> DEFINE m == v5.max_session_duration
             t == v5.MaxTime
  <1>1. /\ v5.Indices \in Nat \ {0} /\ m \in Nat /\ t \in Nat
        /\ v5.keepalive_interval \in 1..m /\ v5.session_timeout \in 1..m
        /\ v5.gc_idle_timeout \in 1..m /\ v5.rekey_interval \in 1..m
    BY DEF Wire!ConstantsOk
  <1>2. Wire!Never = t + m + 1
    BY DEF Wire!Never
  <1> QED BY <1>1, <1>2

LEMMA CovMonotone ==
    ASSUME NEW s, NEW id, NEW ts, NEW more, ts \subseteq more, Cov(s, id, ts)
    PROVE  Cov(s, id, more)
  BY DEF Cov

LEMMA SessionIs ==
    ASSUME Wire!ConstantsOk, v5 \in sockets, v1 \in 0..v5.MaxTime,
           NEW key \in Wire!Key, NEW addr \in Wire!Addr, NEW initiator \in BOOLEAN, NEW retries
    PROVE  LET s == Wire!Session(key, addr, initiator, retries)
           IN /\ IsSession(s) /\ s.initiator = initiator /\ s.kind # "transport"
              /\ s.kind = IF s.initiator THEN "initiating" ELSE "responding"
  <1> DEFINE s == Wire!Session(key, addr, initiator, retries)
             kind == IF initiator THEN "initiating" ELSE "responding"
             out == v1 + v5.session_timeout
  <1>1. out \in Nat /\ out < Wire!Never /\ Wire!Never \in Nat
    <2> DEFINE m == v5.max_session_duration
               t == v5.MaxTime
    <2>1. m \in Nat /\ t \in Nat /\ v5.session_timeout \in 1..m /\ v1 \in 0..t /\ Wire!Never \in Nat
      BY WireNumbers
    <2>2. Wire!Never = t + m + 1
      BY DEF Wire!Never
    <2> QED BY <2>1, <2>2
  <1>2. s = [kind |-> kind, key |-> key, addr |-> addr, created |-> v1, initiator |-> initiator, retries |-> retries,
             keepalive |-> Wire!Never, rekey |-> Wire!Never, timeout |-> out, max |-> Wire!Never, gc |-> Wire!Never]
    BY Zenon DEF Wire!Session
  <1> HIDE DEF s, out
  <1>3. /\ s.kind = kind /\ s.key = key /\ s.addr = addr /\ s.created = v1 /\ s.initiator = initiator
        /\ s.retries = retries /\ s.keepalive = Wire!Never /\ s.rekey = Wire!Never /\ s.timeout = out /\ s.max = Wire!Never
        /\ s.gc = Wire!Never
    BY <1>2
  <1>4. IsSession(s)
    BY <1>1, <1>2, <1>3 DEF IsSession
  <1> QED BY <1>3, <1>4 DEF s

(* What StartSession leaves of the state S and the timers ts.              *)
Started(r, S, ts) ==
    /\ Almost(r.st, {}) /\ DOMAIN S.sessions \subseteq DOMAIN r.st.sessions /\ ts \subseteq r.timers
    /\ \A i \in DOMAIN S.sessions : r.st.sessions[i] = S.sessions[i]
    /\ \A i \in DOMAIN r.st.sessions \ DOMAIN S.sessions : Cov(r.st.sessions[i], i, r.timers)

LEMMA StartAgrees ==
    ASSUME Wire!ConstantsOk, v5 \in sockets, v1 \in 0..v5.MaxTime,
           NEW S, Almost(S, {}), NEW ts, NEW key \in Wire!Key, NEW addr \in Wire!Addr, NEW retries
    PROVE  Started(Wire!StartSession(S, ts, key, addr, retries), S, ts)
  <1> DEFINE s == Wire!Session(key, addr, TRUE, retries)
             id == CHOOSE i \in Wire!FreeIndex(S) : TRUE
             r == Wire!StartSession(S, ts, key, addr, retries)
             T == Wire!InsertSession(S, id, s)
             us == ts \cup {<<Wire!NextDeadline(s), id>>}
  <1>1. CASE Wire!FreeIndex(S) = {}
    <2>1. r = [st |-> S, timers |-> ts]
      BY <1>1, Zenon DEF Wire!StartSession
    <2> HIDE DEF r
    <2>2. r.st = S /\ r.timers = ts
      BY <2>1
    <2> QED BY <2>2 DEF Started, r
  <1>2. CASE Wire!FreeIndex(S) # {}
    <2>1. r = [st |-> T, timers |-> us]
      BY <1>2, Zenon DEF Wire!StartSession
    <2>2. id \in Wire!FreeIndex(S)
      BY <1>2
    <2>3. IsSession(s) /\ s.initiator = TRUE /\ s.kind = (IF s.initiator THEN "initiating" ELSE "responding") /\ s.kind # "transport"
      BY SessionIs
    <2> HIDE DEF s, id
    <2>5. id \notin S.allocated
      BY <2>2, WireNumbers, FreeIndexFree
    <2>6. /\ Almost(T, {}) /\ id \notin DOMAIN S.sessions /\ DOMAIN T.sessions = DOMAIN S.sessions \cup {id}
          /\ \A i \in DOMAIN T.sessions : T.sessions[i] = IF i = id THEN s ELSE S.sessions[i]
      BY <2>3, <2>5, InsertAgrees
    <2>7. Cov(s, id, us) /\ ts \subseteq us
      BY <2>3, HandshakeDeadline DEF Cov
    <2> HIDE DEF r, T, us
    <2>8. r.st = T /\ r.timers = us
      BY <2>1
    <2> QED BY <2>6, <2>7, <2>8 DEF Started, r
  <1> QED BY <1>1, <1>2

(* A timer renewed to the earliest deadline of its session.                *)
LEMMA RenewedCovers ==
    ASSUME NEW S, NEW ts, Covered(S, ts), NEW id, NEW previous, NEW s, NEW t, NEW T,
           IsSession(t), t.kind = "transport", Wire!NextDeadline(s) = Wire!NextDeadline(t),
           DOMAIN T.sessions \subseteq DOMAIN S.sessions,
           \A i \in DOMAIN T.sessions : T.sessions[i] = IF i = id THEN t ELSE S.sessions[i]
    PROVE  Covered(T, Wire!Renewed(ts, id, previous, s))
  <1>1. Wire!NextDeadline(t) \in Nat
    BY EarliestDeadline DEF IsSession
  <1> DEFINE us == Wire!Renewed(ts, id, previous, s)
             d == Wire!NextDeadline(t)
  <1>2. us = (ts \ {<<previous, id>>}) \cup {<<d, id>>}
    BY DEF Wire!Renewed
  <1> HIDE DEF us, d
  <1>3. ASSUME NEW i \in DOMAIN T.sessions PROVE Cov(T.sessions[i], i, us)
    <2>1. CASE i = id
      <3>1. T.sessions[i] = t /\ <<d, id>> \in us /\ <<d, id>>[2] = id /\ <<d, id>>[1] = d
        BY <1>2, <2>1
      <3> QED BY <3>1, <2>1, <1>1 DEF Cov, d
    <2>2. CASE i # id
      <3>1. T.sessions[i] = S.sessions[i] /\ Cov(S.sessions[i], i, ts)
        BY <2>2 DEF Covered
      <3>2. \A x \in ts : x[2] = i => x \in us
        BY <1>2, <2>2
      <3>3. \A e : <<e, i>>[2] = i
        OBVIOUS
      <3> QED BY <3>1, <3>2, <3>3 DEF Cov
    <2> QED BY <2>1, <2>2
  <1> QED BY <1>3 DEF Covered, us

LEMMA WireSteady ==
    ASSUME v5' = v5, Almost(v3', {})
    PROVE  Almost(v3, {})'
  <1>1. Wire!Key' = Wire!Key /\ Wire!Addr' = Wire!Addr /\ Wire!Never' = Wire!Never
    BY DEF Wire!Key, Wire!Addr, Wire!Never
  <1>2. Wire!Ip' = Wire!Ip
    BY <1>1 DEF Wire!Ip
  <1>3. IsState(v3') /\ SessionsOk(v3') /\ KeysOk(v3', {}) /\ SocketsOk(v3', {}) /\ CountsOk(v3') /\ HandshakesOk(v3')
    BY DEF Almost
  <1>4. SessionsOk(v3)'
    BY <1>1, <1>3 DEF SessionsOk, IsSession
  <1>5. KeysOk(v3, {})'
    BY <1>1, <1>3 DEF KeysOk
  <1>6. SocketsOk(v3, {})'
    BY <1>1, <1>3 DEF SocketsOk
  <1>7. CountsOk(v3)'
    BY <1>2, <1>3 DEF CountsOk
  <1> QED BY <1>3, <1>4, <1>5, <1>6, <1>7 DEF Almost

(* Each action.                                                            *)
LEMMA ConnectAgrees ==
    ASSUME Wire!ConstantsOk, WireInv, NEW key \in Wire!Key, NEW addr \in Wire!Addr, Wire!Connect(key, addr)
    PROVE  WireInv'
  <1> DEFINE r == Wire!StartSession(v3, v4, key, addr, v5.retry_attempts)
  <1>1. v3' = r.st /\ v4' = r.timers /\ v5' = v5 /\ v1' = v1
    BY DEF Wire!Connect
  <1>2. Started(r, v3, v4)
    BY StartAgrees DEF WireInv
  <1> HIDE DEF r
  <1>4. /\ Almost(v3', {}) /\ DOMAIN v3.sessions \subseteq DOMAIN v3'.sessions /\ v4 \subseteq v4'
        /\ \A i \in DOMAIN v3.sessions : v3'.sessions[i] = v3.sessions[i]
        /\ \A i \in DOMAIN v3'.sessions \ DOMAIN v3.sessions : Cov(v3'.sessions[i], i, v4')
    BY <1>1, <1>2 DEF Started
  <1>5. Covered(v3', v4')
    BY <1>4, CovMonotone DEF WireInv, Covered
  <1>6. Almost(v3, {})'
    BY <1>1, <1>4, WireSteady
  <1> QED BY <1>1, <1>5, <1>6 DEF WireInv

LEMMA AcceptAgrees ==
    ASSUME Wire!ConstantsOk, WireInv, NEW key \in Wire!Key, NEW addr \in Wire!Addr, Wire!AcceptHandshakeInit(key, addr)
    PROVE  WireInv'
  <1> DEFINE s == Wire!Session(key, addr, FALSE, 0)
  <1>1. PICK id \in Wire!FreeIndex(v3) : v3' = Wire!InsertSession(v3, id, s) /\ v4' = v4 \cup {<<Wire!NextDeadline(s), id>>}
    BY Zenon DEF Wire!AcceptHandshakeInit
  <1>2. v5' = v5 /\ v1' = v1
    BY DEF Wire!AcceptHandshakeInit
  <1>3. IsSession(s) /\ s.kind = (IF s.initiator THEN "initiating" ELSE "responding") /\ s.kind # "transport"
    BY SessionIs DEF WireInv
  <1> HIDE DEF s
  <1>4. id \notin v3.allocated
    BY WireNumbers, FreeIndexFree DEF WireInv
  <1>5. /\ Almost(v3', {}) /\ DOMAIN v3'.sessions = DOMAIN v3.sessions \cup {id}
        /\ \A i \in DOMAIN v3'.sessions : v3'.sessions[i] = IF i = id THEN s ELSE v3.sessions[i]
    BY <1>1, <1>3, <1>4, InsertAgrees DEF WireInv
  <1>6. Cov(s, id, v4')
    BY <1>1, <1>3, HandshakeDeadline DEF Cov
  <1>7. v4 \subseteq v4'
    BY <1>1
  <1>8. Covered(v3', v4')
    BY <1>5, <1>6, <1>7, CovMonotone DEF WireInv, Covered
  <1>9. Almost(v3, {})'
    BY <1>2, <1>5, WireSteady
  <1> QED BY <1>2, <1>8, <1>9 DEF WireInv

(* What the deadlines set by the API have in common.                       *)
LEMMA WireRenewals ==
    ASSUME Wire!ConstantsOk, WireInv
    PROVE  /\ v1 + v5.session_timeout \in Nat /\ v1 + v5.rekey_interval \in Nat
           /\ v1 + v5.max_session_duration \in Nat /\ v1 + v5.gc_idle_timeout \in Nat
           /\ v1 + v5.keepalive_interval \in Nat /\ Wire!Never \in Nat /\ v1 \in Nat
  <1>1. v1 \in Nat
    BY DEF WireInv
  <1> QED BY <1>1, WireNumbers DEF WireInv

(* A session with other deadlines.                                         *)
WithDeadlines(s, keepalive, rekey, timeout, max, gc) ==
    [kind |-> s.kind, key |-> s.key, addr |-> s.addr, created |-> s.created, initiator |-> s.initiator,
     retries |-> s.retries, keepalive |-> keepalive, rekey |-> rekey, timeout |-> timeout, max |-> max, gc |-> gc]

LEMMA Renew ==
    ASSUME NEW old, IsSession(old), NEW s,
           NEW keepalive \in Nat, NEW rekey \in Nat, NEW timeout \in Nat, NEW max \in Nat, NEW gc \in Nat,
           s = WithDeadlines(old, keepalive, rekey, timeout, max, gc)
    PROVE  /\ IsSession(AsTransport(s)) /\ DOMAIN s = DOMAIN old /\ s.kind = old.kind
           /\ s.key = old.key /\ s.addr = old.addr /\ s.initiator = old.initiator
           /\ Wire!NextDeadline(s) = Wire!NextDeadline(AsTransport(s)) /\ AsTransport(s).kind = "transport"
           /\ (old.kind = "transport" => AsTransport(s) = s)
  <1> DEFINE t == AsTransport(s)
  <1>1. s = [kind |-> old.kind, key |-> old.key, addr |-> old.addr, created |-> old.created, initiator |-> old.initiator,
             retries |-> old.retries, keepalive |-> keepalive, rekey |-> rekey, timeout |-> timeout,
             max |-> max, gc |-> gc]
    BY Zenon DEF WithDeadlines
  <1>2. t = [kind |-> "transport", key |-> old.key, addr |-> old.addr, created |-> old.created, initiator |-> old.initiator,
             retries |-> old.retries, keepalive |-> keepalive, rekey |-> rekey, timeout |-> timeout,
             max |-> max, gc |-> gc]
    BY <1>1 DEF AsTransport
  <1> HIDE DEF t
  <1>3. /\ t.kind = "transport" /\ t.key = old.key /\ t.addr = old.addr /\ t.created = old.created
        /\ t.initiator = old.initiator /\ t.retries = old.retries /\ t.keepalive = keepalive /\ t.rekey = rekey
        /\ t.timeout = timeout /\ t.max = max /\ t.gc = gc
    BY <1>2
  <1>4. IsSession(t)
    BY <1>2, <1>3 DEF IsSession
  <1>5. /\ s.kind = old.kind /\ s.key = old.key /\ s.addr = old.addr /\ s.initiator = old.initiator
        /\ s.keepalive = keepalive /\ s.rekey = rekey /\ s.timeout = timeout /\ s.max = max /\ s.gc = gc
    BY <1>1
  <1>6. DOMAIN s = DOMAIN old
    <2>1. DOMAIN old = {"kind", "key", "addr", "created", "initiator", "retries", "keepalive", "rekey", "timeout", "max", "gc"}
      BY DEF IsSession
    <2> QED BY <2>1, <1>1
  <1>7. Wire!NextDeadline(s) = Wire!NextDeadline(t)
    BY <1>3, <1>5 DEF Wire!NextDeadline
  <1>8. old.kind = "transport" => t = s
    BY <1>1, <1>2
  <1> QED BY <1>3, <1>4, <1>5, <1>6, <1>7, <1>8 DEF t

LEMMA CompleteAgrees ==
    ASSUME Wire!ConstantsOk, WireInv, NEW id \in DOMAIN v3.sessions, Wire!CompleteHandshake(id)
    PROVE  WireInv'
  <1> DEFINE old == v3.sessions[id]
             s == [old EXCEPT !.timeout = v1 + v5.session_timeout, !.rekey = v1 + v5.rekey_interval,
                              !.max = v1 + v5.max_session_duration, !.gc = v1 + v5.gc_idle_timeout,
                              !.keepalive = v1 + v5.keepalive_interval]
  <1>1. /\ old.kind = "initiating" /\ v3' = Wire!InsertTransport(v3, id, s) /\ v4' = Wire!Renewed(v4, id, Wire!Never, s)
        /\ v5' = v5 /\ v1' = v1
    BY Zenon DEF Wire!CompleteHandshake
  <1>2. Almost(v3, {}) /\ Covered(v3, v4) /\ IsSession(old)
    BY DEF WireInv, Almost, SessionsOk
  <1>3. /\ IsSession(AsTransport(s)) /\ DOMAIN s = DOMAIN old
        /\ s.key = old.key /\ s.addr = old.addr /\ s.initiator = old.initiator
        /\ Wire!NextDeadline(s) = Wire!NextDeadline(AsTransport(s)) /\ AsTransport(s).kind = "transport"
    <2> DEFINE a == v1 + v5.session_timeout
               b == v1 + v5.rekey_interval
               c == v1 + v5.max_session_duration
               d == v1 + v5.gc_idle_timeout
               e == v1 + v5.keepalive_interval
    <2>1. a \in Nat /\ b \in Nat /\ c \in Nat /\ d \in Nat /\ e \in Nat
      BY WireRenewals
    <2>2. s = [old EXCEPT !.timeout = a, !.rekey = b, !.max = c, !.gc = d, !.keepalive = e]
      OBVIOUS
    <2> HIDE DEF a, b, c, d, e, s, old
    <2>3. s = WithDeadlines(old, e, b, a, c, d)
      BY <1>2, <2>2 DEF WithDeadlines, IsSession
    <2> QED BY <1>2, <2>1, <2>3, Renew
  <1>4. Establishes(v3, id, s)
    <2> HIDE DEF s
    <2> QED BY <1>1, <1>3 DEF Establishes
  <1> HIDE DEF s, old
  <1>5. /\ Almost(v3', {}) /\ DOMAIN v3'.sessions \subseteq DOMAIN v3.sessions
        /\ \A i \in DOMAIN v3'.sessions : v3'.sessions[i] = IF i = id THEN AsTransport(s) ELSE v3.sessions[i]
    BY <1>1, <1>2, <1>4, InsertTransportAgrees
  <1>6. Covered(v3', v4')
    BY <1>1, <1>2, <1>3, <1>5, RenewedCovers
  <1>7. Almost(v3, {})'
    BY <1>1, <1>5, WireSteady
  <1> QED BY <1>1, <1>6, <1>7 DEF WireInv

LEMMA DecryptAgrees ==
    ASSUME Wire!ConstantsOk, WireInv, NEW id \in DOMAIN v3.sessions, NEW data \in BOOLEAN, Wire!Decrypt(id, data)
    PROVE  WireInv'
  <1> DEFINE old == v3.sessions[id]
             a == v1 + v5.session_timeout
             c == v1 + v5.max_session_duration
             d == v1 + v5.gc_idle_timeout
             e == v1 + v5.keepalive_interval
             g == IF data THEN d ELSE old.gc
             renewed == [old EXCEPT !.timeout = a, !.gc = g]
             established == [old EXCEPT !.timeout = a, !.keepalive = e, !.max = c, !.gc = d]
  <1>1. /\ v5' = v5 /\ v1' = v1
        /\ \/ /\ old.kind = "transport" /\ v3' = Replaced(v3, id, renewed)
              /\ v4' = Wire!Renewed(v4, id, old.timeout, renewed)
           \/ /\ old.kind = "responding" /\ v3' = Wire!InsertTransport(v3, id, established)
              /\ v4' = Wire!Renewed(v4, id, Wire!Never, established)
    BY Zenon DEF Wire!Decrypt, Replaced
  <1>2. Almost(v3, {}) /\ Covered(v3, v4) /\ IsSession(old)
    BY DEF WireInv, Almost, SessionsOk
  <1>3. a \in Nat /\ c \in Nat /\ d \in Nat /\ e \in Nat
    BY WireRenewals
  <1> HIDE DEF a, c, d, e, old
  <1>5. /\ old.keepalive \in Nat /\ old.rekey \in Nat /\ old.max \in Nat /\ old.gc \in Nat /\ g \in Nat
    BY <1>2, <1>3 DEF IsSession
  <1>f. /\ old = [kind |-> old.kind, key |-> old.key, addr |-> old.addr, created |-> old.created, initiator |-> old.initiator,
                  retries |-> old.retries, keepalive |-> old.keepalive, rekey |-> old.rekey, timeout |-> old.timeout,
                  max |-> old.max, gc |-> old.gc]
    BY <1>2, Zenon DEF IsSession
  <1>w. /\ renewed = [old EXCEPT !.timeout = a, !.gc = g]
        /\ established = [old EXCEPT !.timeout = a, !.keepalive = e, !.max = c, !.gc = d]
    BY Zenon
  <1> HIDE DEF g, renewed, established
  <1>4. renewed = WithDeadlines(old, old.keepalive, old.rekey, a, old.max, g)
    BY <1>f, <1>w DEF WithDeadlines
  <1>e. established = WithDeadlines(old, e, old.rekey, a, c, d)
    BY <1>f, <1>w DEF WithDeadlines
  <1>6. CASE /\ old.kind = "transport" /\ v3' = Replaced(v3, id, renewed)
             /\ v4' = Wire!Renewed(v4, id, old.timeout, renewed)
    <2>1. /\ IsSession(renewed) /\ renewed.kind = "transport"
          /\ renewed.key = old.key /\ renewed.addr = old.addr /\ renewed.initiator = old.initiator
      <3>1. /\ IsSession(AsTransport(renewed)) /\ renewed.kind = old.kind
            /\ renewed.key = old.key /\ renewed.addr = old.addr /\ renewed.initiator = old.initiator
            /\ (old.kind = "transport" => AsTransport(renewed) = renewed)
        BY <1>2, <1>3, <1>4, <1>5, Renew
      <3> QED BY <3>1, <1>6
    <2>2. /\ Almost(v3', {}) /\ DOMAIN v3'.sessions = DOMAIN v3.sessions
          /\ \A i \in DOMAIN v3.sessions : v3'.sessions[i] = IF i = id THEN renewed ELSE v3.sessions[i]
      BY <2>1, <1>2, <1>6, ReplacedAgrees DEF old
    <2>3. Covered(v3', v4')
      BY <2>1, <2>2, <1>2, <1>6, RenewedCovers
    <2> QED BY <1>1, <2>2, <2>3, WireSteady DEF WireInv
  <1>7. CASE /\ old.kind = "responding" /\ v3' = Wire!InsertTransport(v3, id, established)
             /\ v4' = Wire!Renewed(v4, id, Wire!Never, established)
    <2>1. /\ IsSession(AsTransport(established)) /\ DOMAIN established = DOMAIN old
          /\ established.key = old.key /\ established.addr = old.addr /\ established.initiator = old.initiator
          /\ Wire!NextDeadline(established) = Wire!NextDeadline(AsTransport(established))
          /\ AsTransport(established).kind = "transport"
      BY <1>2, <1>3, <1>e, <1>5, Renew
    <2>2. Establishes(v3, id, established)
      BY <1>7, <2>1 DEF Establishes, old
    <2>3. /\ Almost(v3', {}) /\ DOMAIN v3'.sessions \subseteq DOMAIN v3.sessions
          /\ \A i \in DOMAIN v3'.sessions : v3'.sessions[i] = IF i = id THEN AsTransport(established) ELSE v3.sessions[i]
      BY <1>7, <1>2, <2>2, InsertTransportAgrees
    <2>4. Covered(v3', v4')
      BY <1>7, <1>2, <2>1, <2>3, RenewedCovers
    <2> QED BY <1>1, <2>3, <2>4, WireSteady DEF WireInv
  <1> QED BY <1>1, <1>6, <1>7

LEMMA EncryptWithIs ==
    ASSUME Wire!ConstantsOk, WireInv, NEW old, IsSession(old), NEW data \in BOOLEAN
    PROVE  \E gc \in Nat :
             Wire!EncryptWith(old, data) =
               WithDeadlines(old, v1 + v5.keepalive_interval, old.rekey, old.timeout, old.max, gc)
  <1> DEFINE d == v1 + v5.gc_idle_timeout
             e == v1 + v5.keepalive_interval
             gc == IF data THEN d ELSE old.gc
  <1>1. d \in Nat /\ e \in Nat
    BY WireRenewals
  <1>2. Wire!EncryptWith(old, data) = [old EXCEPT !.keepalive = e, !.gc = gc]
    BY Zenon DEF Wire!EncryptWith
  <1> HIDE DEF d, e
  <1>3. gc \in Nat
    BY <1>1 DEF IsSession
  <1> HIDE DEF gc
  <1>4. Wire!EncryptWith(old, data) = WithDeadlines(old, e, old.rekey, old.timeout, old.max, gc)
    BY <1>2 DEF WithDeadlines, IsSession
  <1> QED BY <1>3, <1>4 DEF e

(* A table names established sessions only.                                *)
LEMMA LatestEstablished ==
    ASSUME Almost(v3, {}), NEW e, NEW id \in Wire!Latest(e),
           (\E k \in Wire!Key : e = v3.by_key[k]) \/ (\E a \in Wire!Addr : e = v3.by_socket[a])
    PROVE  id \in DOMAIN v3.sessions /\ v3.sessions[id].kind = "transport"
  <1>1. PICK role \in Wire!Roles : id \in Wire!Current(e[role])
    BY DEF Wire!Latest, Wire!Roles
  <1>2. IsList(e[role]) /\ \A i \in Wire!ToSet(e[role]) : i \in DOMAIN v3.sessions /\ v3.sessions[i].kind = "transport"
    BY DEF Almost, KeysOk, SocketsOk, Wire!OfKey, Wire!OfSocket
  <1>3. Wire!Current(e[role]) \subseteq Wire!ToSet(e[role])
    BY <1>2, RoleLists
  <1> QED BY <1>1, <1>2, <1>3

LEMMA EncryptAgrees ==
    ASSUME Wire!ConstantsOk, WireInv, NEW e, Wire!Encrypt(e),
           (\E k \in Wire!Key : e = v3.by_key[k]) \/ (\E a \in Wire!Addr : e = v3.by_socket[a])
    PROVE  WireInv'
  <1>1. PICK id \in Wire!Latest(e) :
          LET s == Wire!EncryptWith(v3.sessions[id], TRUE)
          IN /\ v3' = Replaced(v3, id, s) /\ v4' = Wire!Renewed(v4, id, v3.sessions[id].keepalive, s)
             /\ v5' = v5 /\ v1' = v1
    BY Zenon DEF Wire!Encrypt, Replaced
  <1> DEFINE old == v3.sessions[id]
             s == Wire!EncryptWith(old, TRUE)
             d == v1 + v5.keepalive_interval
  <1>2. Almost(v3, {}) /\ Covered(v3, v4)
    BY DEF WireInv
  <1>3. id \in DOMAIN v3.sessions /\ old.kind = "transport"
    BY <1>2, LatestEstablished
  <1>4. IsSession(old)
    BY <1>2, <1>3 DEF Almost, SessionsOk
  <1>5. PICK gc \in Nat : s = WithDeadlines(old, d, old.rekey, old.timeout, old.max, gc)
    BY <1>4, EncryptWithIs
  <1>6. d \in Nat /\ old.rekey \in Nat /\ old.timeout \in Nat /\ old.max \in Nat
    BY <1>4, WireRenewals DEF IsSession
  <1>r. /\ v3' = Replaced(v3, id, s) /\ v4' = Wire!Renewed(v4, id, old.keepalive, s)
        /\ v5' = v5 /\ v1' = v1
    BY <1>1, Zenon
  <1> HIDE DEF s, d
  <1>7. /\ IsSession(s) /\ s.kind = "transport" /\ s.key = old.key /\ s.addr = old.addr /\ s.initiator = old.initiator
    <2> HIDE DEF old
    <2>1. /\ IsSession(AsTransport(s)) /\ s.kind = old.kind
          /\ s.key = old.key /\ s.addr = old.addr /\ s.initiator = old.initiator
          /\ (old.kind = "transport" => AsTransport(s) = s)
      BY <1>4, <1>5, <1>6, Renew
    <2> QED BY <1>3, <2>1
  <1>8. /\ Almost(v3', {}) /\ DOMAIN v3'.sessions = DOMAIN v3.sessions
        /\ \A i \in DOMAIN v3.sessions : v3'.sessions[i] = IF i = id THEN s ELSE v3.sessions[i]
    BY <1>2, <1>3, <1>7, <1>r, ReplacedAgrees
  <1>9. Covered(v3', v4')
    <2> HIDE DEF old
    <2> QED BY <1>2, <1>7, <1>8, <1>r, RenewedCovers
  <1> QED BY <1>r, <1>8, <1>9, WireSteady DEF WireInv

LEMMA DisconnectAgrees ==
    ASSUME WireInv, NEW key \in Wire!Key, Wire!Disconnect(key)
    PROVE  WireInv'
  <1> DEFINE ids == Wire!SessionsOf(key) \cap DOMAIN v3.sessions
  <1>1. v3' = Wire!Terminate(v3, ids) /\ v5' = v5 /\ v1' = v1 /\ v4' = v4
    BY DEF Wire!Disconnect
  <1>2. ids \subseteq DOMAIN v3.sessions
    OBVIOUS
  <1> HIDE DEF ids
  <1>3. Almost(v3, ids) /\ Covered(v3, v4)
    BY DEF WireInv, Almost, KeysOk, SocketsOk
  <1>4. Almost(v3', {})
    BY <1>1, <1>2, <1>3, TerminateAgrees
  <1>5. v3'.sessions = Wire!Without(v3.sessions, ids)
    BY ZenonT(40), <1>1, <1>3, TerminateFields DEF Almost, Terminated
  <1>6. Covered(v3', v4')
    BY <1>1, <1>3, <1>5 DEF Covered, Wire!Without
  <1> QED BY <1>1, <1>4, <1>6, WireSteady DEF WireInv

LEMMA TickedIs ==
    ASSUME Wire!ConstantsOk, WireInv, NEW old, IsSession(old)
    PROVE  \E keepalive, rekey, gc \in Nat :
             Wire!Ticked(old) = WithDeadlines(old, keepalive, rekey, old.timeout, old.max, gc)
  <1> DEFINE sent == IF old.keepalive <= v1 THEN Wire!EncryptWith(old, FALSE) ELSE old
  <1>1. /\ old.keepalive \in Nat /\ old.rekey \in Nat /\ old.gc \in Nat /\ Wire!Never \in Nat
        /\ v1 + v5.keepalive_interval \in Nat
    BY WireRenewals DEF IsSession
  <1>2. old = WithDeadlines(old, old.keepalive, old.rekey, old.timeout, old.max, old.gc)
    BY Zenon DEF WithDeadlines, IsSession
  <1>3. PICK keepalive \in Nat, gc \in Nat : sent = WithDeadlines(old, keepalive, old.rekey, old.timeout, old.max, gc)
    <2>1. CASE old.keepalive <= v1
      BY <2>1, <1>1, EncryptWithIs
    <2>2. CASE ~ (old.keepalive <= v1)
      BY <2>2, <1>1, <1>2
    <2> QED BY <2>1, <2>2
  <1> HIDE DEF sent
  <1>4. Wire!Ticked(old) = IF old.rekey <= v1 THEN [sent EXCEPT !.rekey = Wire!Never] ELSE sent
    BY Zenon DEF Wire!Ticked, sent
  <1>5. CASE old.rekey <= v1
    <2> DEFINE x == Wire!Ticked(old)
    <2>1. x = [sent EXCEPT !.rekey = Wire!Never]
      BY <1>4, <1>5
    <2> HIDE DEF x
    <2>2. x = WithDeadlines(old, keepalive, Wire!Never, old.timeout, old.max, gc)
      BY <2>1, <1>3 DEF WithDeadlines
    <2> QED BY <2>2, <1>1 DEF x
  <1>6. CASE ~ (old.rekey <= v1)
    BY <1>6, <1>4, <1>3, <1>1
  <1> QED BY <1>5, <1>6

LEMMA TickAgrees ==
    ASSUME Wire!ConstantsOk, WireInv, Wire!Tick
    PROVE  WireInv'
  <1>0. Almost(v3, {}) /\ Covered(v3, v4) /\ v5 \in sockets /\ v1 \in 0..v5.MaxTime
    BY DEF WireInv
  <1>1. PICK timer \in v4 :
          LET id == timer[2]
              rest == v4 \ {timer}
              s == v3.sessions[id]
              rekeyed(retries) == Wire!StartSession(v3, rest, s.key, s.addr, retries)
              kept == [st |-> v3, timers |-> rest]
          IN /\ timer[1] <= v1 /\ v5' = v5 /\ v1' = v1
             /\ \/ id \notin DOMAIN v3.sessions /\ v4' = rest /\ v3' = v3
                \/ /\ id \in DOMAIN v3.sessions
                   /\ LET r == IF Wire!RekeysAtEnd(s) THEN rekeyed(s.retries - 1) ELSE kept
                      IN v3' = Wire!Terminate(r.st, {id}) /\ v4' = r.timers
                \/ id \in DOMAIN v3.sessions /\ ~Wire!Ends(s) /\ s.kind # "transport" /\ v4' = rest /\ v3' = v3
                \/ /\ id \in DOMAIN v3.sessions /\ s.kind = "transport"
                   /\ LET r == IF s.rekey <= v1 THEN rekeyed(s.retries) ELSE kept
                      IN /\ v3' = Replaced(r.st, id, Wire!Ticked(s))
                         /\ v4' = r.timers \cup {<<Wire!NextDeadline(Wire!Ticked(s)), id>>}
    BY Zenon DEF Wire!Tick, Replaced
  <1> DEFINE id == timer[2]
             rest == v4 \ {timer}
             s == v3.sessions[id]
  <1>2. \A i \in DOMAIN v3.sessions : i # id => Cov(v3.sessions[i], i, rest)
    <2>1. SUFFICES ASSUME NEW i \in DOMAIN v3.sessions, i # id PROVE Cov(v3.sessions[i], i, rest)
      OBVIOUS
    <2>2. Cov(v3.sessions[i], i, v4)
      BY <1>0 DEF Covered
    <2>3. \A x \in v4 : x[2] = i => x \in rest
      BY <2>1
    <2>4. \A e : <<e, i>>[2] = i
      OBVIOUS
    <2> HIDE DEF rest
    <2> QED BY <2>2, <2>3, <2>4 DEF Cov
  <1>3. v5' = v5 /\ v1' = v1 /\ timer[1] <= v1
    BY <1>1
  <1>4. SUFFICES Almost(v3', {}) /\ Covered(v3', v4')
    BY <1>0, <1>3, WireSteady DEF WireInv
  <1>5. ASSUME NEW retries, id \in DOMAIN v3.sessions
        PROVE  /\ IsSession(s)
               /\ Started(Wire!StartSession(v3, rest, s.key, s.addr, retries), v3, rest)
               /\ Started([st |-> v3, timers |-> rest], v3, rest)
    <2>1. IsSession(s)
      BY <1>0, <1>5 DEF Almost, SessionsOk
    <2>2. s.key \in Wire!Key /\ s.addr \in Wire!Addr
      BY <2>1 DEF IsSession
    <2>3. Started(Wire!StartSession(v3, rest, s.key, s.addr, retries), v3, rest)
      <3> HIDE DEF rest, s, id
      <3> QED BY <1>0, <2>2, StartAgrees
    <2> HIDE DEF rest
    <2>4. Started([st |-> v3, timers |-> rest], v3, rest)
      BY <1>0 DEF Started
    <2> QED BY <2>1, <2>3, <2>4
  <1>6. CASE id \notin DOMAIN v3.sessions /\ v4' = rest /\ v3' = v3
    BY <1>0, <1>2, <1>6 DEF Covered
  <1>7. CASE /\ id \in DOMAIN v3.sessions
             /\ LET r == IF Wire!RekeysAtEnd(s) THEN Wire!StartSession(v3, rest, s.key, s.addr, s.retries - 1)
                         ELSE [st |-> v3, timers |-> rest]
                IN v3' = Wire!Terminate(r.st, {id}) /\ v4' = r.timers
    <2>1. PICK r : Started(r, v3, rest) /\ v3' = Wire!Terminate(r.st, {id}) /\ v4' = r.timers
      BY <1>5, <1>7, Zenon
    <2> HIDE DEF rest, s, id
    <2>2. /\ Almost(r.st, {}) /\ DOMAIN v3.sessions \subseteq DOMAIN r.st.sessions /\ rest \subseteq r.timers
          /\ \A i \in DOMAIN v3.sessions : r.st.sessions[i] = v3.sessions[i]
          /\ \A i \in DOMAIN r.st.sessions \ DOMAIN v3.sessions : Cov(r.st.sessions[i], i, r.timers)
      BY <2>1 DEF Started
    <2>3. Almost(r.st, {id})
      BY <2>2 DEF Almost, KeysOk, SocketsOk
    <2>4. Almost(v3', {})
      BY <2>1, <2>2, <2>3, <1>7, TerminateAgrees
    <2>5. v3'.sessions = Wire!Without(r.st.sessions, {id})
      BY ZenonT(40), <2>1, <2>3, TerminateFields DEF Almost, Terminated
    <2>6. \A i \in DOMAIN r.st.sessions : i # id => Cov(r.st.sessions[i], i, r.timers)
      BY <2>2, <1>2, CovMonotone
    <2>7. Covered(v3', v4')
      BY <2>1, <2>5, <2>6 DEF Covered, Wire!Without
    <2> QED BY <2>4, <2>7
  <1>8. CASE id \in DOMAIN v3.sessions /\ ~Wire!Ends(s) /\ s.kind # "transport" /\ v4' = rest /\ v3' = v3
    <2>1. <<s.timeout, id>> \in v4
      BY <1>0, <1>8 DEF Covered, Cov
    <2>2. ~ (s.timeout <= v1)
      BY <1>8 DEF Wire!Ends, Wire!TimedOut
    <2>3. <<s.timeout, id>>[1] = s.timeout
      OBVIOUS
    <2>4. <<s.timeout, id>> # timer
      BY <2>2, <2>3, <1>3, Zenon
    <2>5. Cov(s, id, rest)
      BY <2>1, <2>4, <1>8 DEF Cov
    <2> QED BY <1>0, <1>2, <1>8, <2>5 DEF Covered
  <1>9. CASE /\ id \in DOMAIN v3.sessions /\ s.kind = "transport"
             /\ LET r == IF s.rekey <= v1 THEN Wire!StartSession(v3, rest, s.key, s.addr, s.retries)
                         ELSE [st |-> v3, timers |-> rest]
                IN /\ v3' = Replaced(r.st, id, Wire!Ticked(s))
                   /\ v4' = r.timers \cup {<<Wire!NextDeadline(Wire!Ticked(s)), id>>}
    <2> DEFINE after == Wire!Ticked(s)
    <2>1. PICK r : Started(r, v3, rest) /\ v3' = Replaced(r.st, id, after) /\ v4' = r.timers \cup {<<Wire!NextDeadline(after), id>>}
      BY <1>5, <1>9, Zenon
    <2>2. IsSession(s)
      BY <1>5, <1>9
    <2>3. PICK keepalive, rekey, gc \in Nat : after = WithDeadlines(s, keepalive, rekey, s.timeout, s.max, gc)
      BY <2>2, TickedIs
    <2>4. s.timeout \in Nat /\ s.max \in Nat
      BY <2>2 DEF IsSession
    <2> HIDE DEF rest, after
    <2>5. /\ IsSession(after) /\ after.kind = "transport" /\ after.key = s.key /\ after.addr = s.addr
          /\ after.initiator = s.initiator
      <3> HIDE DEF s
      <3>1. /\ IsSession(AsTransport(after)) /\ after.kind = s.kind
            /\ after.key = s.key /\ after.addr = s.addr /\ after.initiator = s.initiator
            /\ (s.kind = "transport" => AsTransport(after) = after)
        BY <2>2, <2>3, <2>4, Renew
      <3> QED BY <3>1, <1>9
    <2>6. /\ Almost(r.st, {}) /\ DOMAIN v3.sessions \subseteq DOMAIN r.st.sessions /\ rest \subseteq r.timers
          /\ \A i \in DOMAIN v3.sessions : r.st.sessions[i] = v3.sessions[i]
          /\ \A i \in DOMAIN r.st.sessions \ DOMAIN v3.sessions : Cov(r.st.sessions[i], i, r.timers)
      BY <2>1 DEF Started
    <2>7. id \in DOMAIN r.st.sessions /\ r.st.sessions[id] = s /\ s.kind = "transport"
      BY <2>6, <1>9
    <2> HIDE DEF s, id
    <2>8. /\ Almost(v3', {}) /\ DOMAIN v3'.sessions = DOMAIN r.st.sessions
          /\ \A i \in DOMAIN r.st.sessions : v3'.sessions[i] = IF i = id THEN after ELSE r.st.sessions[i]
      BY <2>1, <2>5, <2>6, <2>7, ReplacedAgrees
    <2>9. \A i \in DOMAIN r.st.sessions : i # id => Cov(r.st.sessions[i], i, v4')
      BY <2>1, <2>6, <1>2, CovMonotone
    <2>10. Cov(after, id, v4')
      <3> DEFINE d == Wire!NextDeadline(after)
      <3>1. d \in Nat
        BY <2>5, EarliestDeadline DEF IsSession
      <3> HIDE DEF d
      <3>2. <<d, id>> \in v4' /\ <<d, id>>[2] = id /\ <<d, id>>[1] = d
        BY <2>1 DEF d
      <3> QED BY <3>1, <3>2, <2>5 DEF Cov, d
    <2>11. Covered(v3', v4')
      BY <2>8, <2>9, <2>10 DEF Covered
    <2> QED BY <2>8, <2>11
  <1> QED BY <1>1, <1>6, <1>7, <1>8, <1>9, Zenon

LEMMA WireInitAgrees ==
    ASSUME Wire!ConstantsOk, Wire!Init
    PROVE  WireInv
  <1>1. v5 \in sockets /\ v1 = 0 /\ v4 = {}
    BY DEF Wire!Init
  <1>2. v1 \in 0..v5.MaxTime
    BY <1>1, WireNumbers
  <1> DEFINE byk == [k \in Wire!Key |-> Wire!Established]
             bys == [a \in Wire!Addr |-> Wire!Established]
             ips == [ip \in Wire!Ip |-> 0]
  <1>3. v3 = [sessions |-> <<>>, by_key |-> byk, by_socket |-> bys, allocated |-> {}, next |-> 0, initiated |-> <<>>,
              accepted |-> {}, ips |-> ips, total |-> 0]
    BY Zenon DEF Wire!Init
  <1> HIDE DEF byk, bys, ips
  <1>4. /\ v3.sessions = <<>> /\ v3.by_key = byk /\ v3.by_socket = bys /\ v3.allocated = {} /\ v3.initiated = <<>>
        /\ v3.accepted = {} /\ v3.ips = ips /\ v3.total = 0 /\ v3.next = 0
    BY <1>3
  <1>5. IsState(v3)
    BY <1>3, <1>4 DEF IsState
  <1>6. DOMAIN v3.sessions = {} /\ DOMAIN v3.initiated = {}
    BY <1>4
  <1>7. SessionsOk(v3)
    <2>1. v3.sessions = [id \in DOMAIN v3.sessions |-> v3.sessions[id]]
      BY <1>4
    <2> QED BY <2>1, <1>6, FS_EmptySet DEF SessionsOk
  <1>8. \A role \in Wire!Roles : Wire!Established[role] = <<>>
    BY DEF Wire!Established
  <1>9. Wire!ToSet(<<>>) = {} /\ IsList(<<>>)
    BY DEF Wire!ToSet, IsList
  <1>10. KeysOk(v3, {})
    <2>1. \A k \in Wire!Key, role \in Wire!Roles : v3.by_key[k][role] = <<>>
      BY <1>4, <1>8 DEF byk
    <2>2. v3.by_key = [k \in Wire!Key |-> [role \in Wire!Roles |-> v3.by_key[k][role]]]
      BY <1>4 DEF byk, Wire!Established
    <2>3. \A k \in Wire!Key, role \in Wire!Roles : Wire!OfKey(v3, k, role) = {}
      BY <1>6 DEF Wire!OfKey
    <2> QED BY <2>1, <2>2, <2>3, <1>9 DEF KeysOk
  <1>11. SocketsOk(v3, {})
    <2>1. \A a \in Wire!Addr, role \in Wire!Roles : v3.by_socket[a][role] = <<>>
      BY <1>4, <1>8 DEF bys
    <2>2. v3.by_socket = [a \in Wire!Addr |-> [role \in Wire!Roles |-> v3.by_socket[a][role]]]
      BY <1>4 DEF bys, Wire!Established
    <2>3. \A a \in Wire!Addr, role \in Wire!Roles : Wire!OfSocket(v3, a, role) = {}
      BY <1>6 DEF Wire!OfSocket
    <2> QED BY <2>1, <2>2, <2>3, <1>9 DEF SocketsOk
  <1>12. CountsOk(v3)
    <2>1. \A ip \in Wire!Ip : Wire!OfIp(v3, ip) = {}
      BY <1>6 DEF Wire!OfIp
    <2>2. Cardinality({}) = 0
      BY FS_EmptySet
    <2> QED BY <2>1, <2>2, <1>4, <1>6 DEF CountsOk, ips
  <1>13. HandshakesOk(v3)
    <2>1. Responding(v3) = {}
      BY <1>6 DEF Responding
    <2> QED BY <2>1, <1>4, <1>6 DEF HandshakesOk
  <1>14. Covered(v3, v4)
    BY <1>6 DEF Covered
  <1> QED BY <1>1, <1>2, <1>5, <1>7, <1>10, <1>11, <1>12, <1>13, <1>14 DEF WireInv, Almost

(* The invariant of the sessions of a socket, for every configuration.     *)
THEOREM WireInvariance ==
    ASSUME Wire!ConstantsOk
    PROVE  Wire!Spec => []WireInv
  <1>1. Wire!Init => WireInv
    BY WireInitAgrees
  <1>2. WireInv /\ [Wire!Next]_(Wire!vars) => WireInv'
    <2> SUFFICES ASSUME WireInv, [Wire!Next]_(Wire!vars) PROVE WireInv'
      OBVIOUS
    <2>1. ASSUME NEW peer \in v5.Peer PROVE peer[1] \in Wire!Key /\ peer[2] \in Wire!Addr
      BY DEF Wire!Key, Wire!Addr
    <2>2. CASE \E peer \in v5.Peer : Wire!Connect(peer[1], peer[2])
      BY <2>1, <2>2, ConnectAgrees
    <2>3. CASE \E peer \in v5.Peer : Wire!AcceptHandshakeInit(peer[1], peer[2])
      BY <2>1, <2>3, AcceptAgrees
    <2>4. CASE \E id \in DOMAIN v3.sessions : Wire!CompleteHandshake(id)
      BY <2>4, CompleteAgrees
    <2>5. CASE \E id \in DOMAIN v3.sessions, data \in BOOLEAN : Wire!Decrypt(id, data)
      BY <2>5, DecryptAgrees
    <2>6. CASE \E key \in Wire!Key : Wire!Encrypt(v3.by_key[key])
      BY <2>6, EncryptAgrees, Zenon
    <2>7. CASE \E addr \in Wire!Addr : Wire!Encrypt(v3.by_socket[addr])
      BY <2>7, EncryptAgrees, Zenon
    <2>8. CASE \E key \in Wire!Key : Wire!Disconnect(key)
      BY <2>8, DisconnectAgrees
    <2>9. CASE Wire!Tick
      BY <2>9, TickAgrees
    <2>10. CASE Wire!TimePasses
      <3>1. v5' = v5 /\ v3' = v3 /\ v4' = v4 /\ v1 < v5.MaxTime /\ v1' = v1 + 1
        BY <2>10 DEF Wire!TimePasses
      <3>2. v1' \in 0..v5.MaxTime
        BY <3>1, WireNumbers DEF WireInv
      <3> QED BY <3>1, <3>2, WireSteady DEF WireInv
    <2>11. CASE UNCHANGED Wire!vars
      BY <2>11, WireSteady DEF Wire!vars, WireInv
    <2> QED BY <2>2, <2>3, <2>4, <2>5, <2>6, <2>7, <2>8, <2>9, <2>10, <2>11, Zenon DEF Wire!Next
  <1> QED BY <1>1, <1>2, PTL DEF Wire!Spec

(* Whatever is evicted, timed out, rekeyed or disconnected, the tables of  *)
(* sessions and the counters of the filter describe the same sessions.     *)
THEOREM TablesAgree ==
    ASSUME Wire!ConstantsOk
    PROVE  Wire!Spec => []Wire!SessionsIndexed
  <1>1. WireInv => Wire!SessionsIndexed
    <2> SUFFICES ASSUME WireInv PROVE Wire!SessionsIndexed
      OBVIOUS
    <2>0. KeysOk(v3, {}) /\ SocketsOk(v3, {}) /\ CountsOk(v3) /\ HandshakesOk(v3)
      BY DEF WireInv, Almost
    <2>1. \A key \in Wire!Key, role \in Wire!Roles : Wire!ToSet(v3.by_key[key][role]) = Wire!OfKey(v3, key, role)
      BY <2>0 DEF KeysOk
    <2>2. \A addr \in Wire!Addr, role \in Wire!Roles : Wire!ToSet(v3.by_socket[addr][role]) = Wire!OfSocket(v3, addr, role)
      BY <2>0 DEF SocketsOk
    <2>3. v3.accepted = {<<v3.sessions[id].key, id>> : id \in {i \in DOMAIN v3.sessions : v3.sessions[i].kind = "responding"}}
      BY <2>0, Zenon DEF HandshakesOk, Responding
    <2>4. /\ v3.allocated = DOMAIN v3.sessions /\ v3.total = Wire!Cardinality(DOMAIN v3.sessions)
          /\ \A ip \in Wire!Ip : v3.ips[ip] = Wire!Cardinality(Wire!OfIp(v3, ip))
      BY <2>0, WireCardinality DEF CountsOk
    <2> QED BY <2>0, <2>1, <2>2, <2>3, <2>4, Zenon DEF HandshakesOk, Wire!SessionsIndexed
  <1> QED BY <1>1, WireInvariance, PTL

(* However deadlines move, every session has a timer no later than the     *)
(* next of them.                                                           *)
THEOREM NoDeadlineMissed ==
    ASSUME Wire!ConstantsOk
    PROVE  Wire!Spec => []Wire!TimersCover
  <1>1. WireInv => Wire!TimersCover
    <2> SUFFICES ASSUME WireInv, NEW id \in DOMAIN v3.sessions
                 PROVE  \E timer \in v4 : timer[2] = id /\ timer[1] <= Wire!NextDeadline(v3.sessions[id])
      BY DEF Wire!TimersCover
    <2>1. IsSession(v3.sessions[id]) /\ Cov(v3.sessions[id], id, v4)
      BY DEF WireInv, Almost, SessionsOk, Covered
    <2> DEFINE s == v3.sessions[id]
    <2>2. CASE s.kind = "transport"
      BY <2>1, <2>2 DEF Cov
    <2>3. CASE s.kind # "transport"
      <3> DEFINE t == <<s.timeout, id>>
      <3>1. t \in v4
        BY <2>1, <2>3 DEF Cov
      <3>2. Wire!NextDeadline(s) = s.timeout /\ s.timeout \in Nat
        BY <2>1, <2>3, HandshakeDeadline DEF IsSession
      <3>3. t[2] = id /\ t[1] = s.timeout /\ s.timeout <= s.timeout
        BY <3>2
      <3> HIDE DEF s, t
      <3> QED BY <3>1, <3>2, <3>3, Zenon DEF s
    <2> QED BY <2>2, <2>3
  <1> QED BY <1>1, WireInvariance, PTL
-----------------------------------------------------------------------------
(* Epochs, for every chain of blocks, length of epochs, delay and epoch in *)
(* which staking is activated.  v1 is the mode, v2 the root, v3 the epoch  *)
(* starts, v4 the validator sets, v5 the requests, v6 the sets read, v8    *)
(* the commands of ConfigFile, v9 its last epoch, v10 the forkpoint and    *)
(* v11 validators.toml.                                                    *)

ChainBlock == 0..Len(chain.block_round)
EpochNumber == Nat \ {0}

(* Candidates for the epoch of a block.                                    *)
Begun(n) ==
    {e \in 1..Epoch!get_locked_epoch(n) : Epoch!BoundaryBefore(e) < n /\ Epoch!StartOf(e) <= Epoch!Round(n)}

LEMMA EpochConstants ==
    ASSUME Epoch!ConstantsOk
    PROVE  /\ chain.epoch_length \in Nat \ {0} /\ chain.epoch_start_delay \in 0..chain.epoch_length
           /\ chain.execution_delay \in Nat /\ 2 * chain.execution_delay <= chain.epoch_length
           /\ chain.staking_activation \in Nat
           /\ \A n \in ChainBlock : n \in Nat /\ Epoch!Round(n) \in Nat
           /\ \A m, n \in ChainBlock : m <= n => Epoch!Round(m) + (n - m) <= Epoch!Round(n)
           /\ Len(chain.block_round) \in Nat
  <1>1. Len(chain.block_round) \in Nat /\ chain.block_round \in Seq(Nat)
    BY DEF Epoch!ConstantsOk
  <1>2. \A n \in ChainBlock : n \in Nat /\ Epoch!Round(n) \in Nat
    BY <1>1 DEF ChainBlock, Epoch!Round
  <1>3. \A m, n \in ChainBlock : m < n => Epoch!Round(m) + (n - m) <= Epoch!Round(n)
    BY <1>1 DEF ChainBlock, Epoch!ConstantsOk
  <1>4. \A m, n \in ChainBlock : m <= n => Epoch!Round(m) + (n - m) <= Epoch!Round(n)
    BY <1>2, <1>3
  <1> QED BY <1>1, <1>2, <1>4 DEF Epoch!ConstantsOk

(* A bounded set of numbers has a greatest one.                            *)
LEMMA GreatestNumber ==
    ASSUME NEW S \in SUBSET Nat, S # {}, NEW k \in Nat, \A x \in S : x <= k
    PROVE  Epoch!Max(S) \in S /\ \A y \in S : y <= Epoch!Max(S)
  <1> DEFINE T == {k - x : x \in S}
  <1>0. \A x \in S : x \in Nat /\ k - x \in Nat
    OBVIOUS
  <1>1. T \in SUBSET Nat /\ T # {}
    BY <1>0
  <1>2. PICK t \in T : \A m \in T : t <= m
    BY <1>1, LeastNumber
  <1>3. PICK x \in S : t = k - x
    OBVIOUS
  <1>4. \A y \in S : x >= y
    <2> TAKE y \in S
    <2>1. k - x <= k - y
      BY <1>2, <1>3
    <2> QED BY <1>0, <2>1
  <1>5. Epoch!Max(S) \in S /\ \A y \in S : Epoch!Max(S) >= y
    BY <1>3, <1>4, Zenon DEF Epoch!Max
  <1> QED BY <1>5

LEMMA SmallestNumber ==
    ASSUME NEW S \in SUBSET Nat, NEW x \in S, \A y \in S : x <= y
    PROVE  Epoch!Min(S) = x
  <1>1. Epoch!Min(S) \in S /\ \A y \in S : Epoch!Min(S) =< y
    BY Zenon DEF Epoch!Min
  <1>2. Epoch!Min(S) \in Nat /\ x \in Nat /\ Epoch!Min(S) <= x /\ x <= Epoch!Min(S)
    BY <1>1
  <1> QED BY <1>2

LEMMA GreatestOfTwo == ASSUME NEW a \in Int, NEW b \in Int PROVE Epoch!Max({a, b}) = IF a >= b THEN a ELSE b
  <1>1. \E x \in {a, b} : \A y \in {a, b} : x >= y
    OBVIOUS
  <1>2. Epoch!Max({a, b}) \in {a, b} /\ \A y \in {a, b} : Epoch!Max({a, b}) >= y
    BY <1>1, Zenon DEF Epoch!Max
  <1> QED BY <1>2

LEMMA SmallestOfTwo == ASSUME NEW a \in Int, NEW b \in Int PROVE Epoch!Min({a, b}) = IF a <= b THEN a ELSE b
  <1>1. \E x \in {a, b} : \A y \in {a, b} : x <= y
    OBVIOUS
  <1>2. Epoch!Min({a, b}) \in {a, b} /\ \A y \in {a, b} : Epoch!Min({a, b}) <= y
    BY <1>1, Zenon DEF Epoch!Min
  <1> QED BY <1>2

LEMMA Multiples ==
    ASSUME NEW w \in Nat \ {0}, NEW j \in Int, NEW k \in Int
    PROVE  /\ j <= k => j * w <= k * w
           /\ j < k => j * w + w <= k * w
           /\ j * w \in Int /\ (j + 1) * w = j * w + w /\ (j - 1) * w = j * w - w
  OBVIOUS

(* The last block of an epoch.                                             *)
LEMMA BoundaryIs ==
    ASSUME Epoch!ConstantsOk, NEW n \in Nat, Epoch!is_boundary_block(n)
    PROVE  Epoch!get_locked_epoch(n) \in EpochNumber \ {1} /\ Epoch!BoundaryBefore(Epoch!get_locked_epoch(n)) = n
  <1> DEFINE w == chain.epoch_length
             q == n \div w
  <1>1. w \in Nat \ {0}
    BY EpochConstants
  <1>2. n = w * q + (n % w) /\ q \in Nat /\ n % w = w - 1
    BY <1>1, Division DEF Epoch!is_boundary_block
  <1>3. (q + 1) * w = w * q + w
    BY <1>1, <1>2, Multiples
  <1> QED BY <1>1, <1>2, <1>3 DEF Epoch!get_locked_epoch, Epoch!BoundaryBefore, EpochNumber

LEMMA BoundaryOrder ==
    ASSUME Epoch!ConstantsOk, NEW d \in EpochNumber, NEW e \in EpochNumber
    PROVE  /\ Epoch!BoundaryBefore(d) \in Int
           /\ d <= e => Epoch!BoundaryBefore(d) <= Epoch!BoundaryBefore(e)
           /\ d < e => Epoch!BoundaryBefore(d) + chain.epoch_length <= Epoch!BoundaryBefore(e)
           /\ d # 1 => Epoch!BoundaryBefore(d) \in Nat
  <1> DEFINE w == chain.epoch_length
  <1>1. w \in Nat \ {0} /\ d - 1 \in Nat /\ e - 1 \in Nat
    BY EpochConstants DEF EpochNumber
  <1>2. /\ d - 1 <= e - 1 => (d - 1) * w <= (e - 1) * w
        /\ d - 1 < e - 1 => (d - 1) * w + w <= (e - 1) * w
        /\ (d - 1) * w \in Int /\ (e - 1) * w \in Int
    BY <1>1, Multiples
  <1>3. d # 1 => 1 * w <= (d - 1) * w
    BY <1>1, Multiples DEF EpochNumber
  <1> QED BY <1>1, <1>2, <1>3 DEF Epoch!BoundaryBefore, EpochNumber

LEMMA EpochIsBegun ==
    ASSUME Epoch!ConstantsOk, NEW n \in ChainBlock, NEW e \in EpochNumber,
           Epoch!BoundaryBefore(e) < n, Epoch!StartOf(e) <= Epoch!Round(n)
    PROVE  e \in Begun(n)
  <1> DEFINE w == chain.epoch_length
             q == n \div w
  <1>1. w \in Nat \ {0} /\ n \in Nat
    BY EpochConstants
  <1>2. n = w * q + (n % w) /\ q \in Nat /\ n % w \in 0..w - 1
    BY <1>1, Division
  <1>3. (e - 1) * w <= n /\ e - 1 \in Nat
    <2>1. (e - 1) * w \in Int
      BY <1>1, Multiples DEF EpochNumber
    <2> QED BY <1>1, <2>1 DEF Epoch!BoundaryBefore, EpochNumber
  <1>4. q < e - 1 => q * w + w <= (e - 1) * w
    <2>1. q \in Int /\ e - 1 \in Int
      BY <1>2, <1>3
    <2> HIDE DEF q, w
    <2> QED BY <1>1, <2>1, Multiples
  <1>5. q * w = w * q
    BY <1>1, <1>2
  <1>6. e - 1 <= q
    BY <1>1, <1>2, <1>3, <1>4, <1>5
  <1> QED BY <1>2, <1>6 DEF Begun, Epoch!get_locked_epoch, EpochNumber

LEMMA EpochOfIs ==
    ASSUME Epoch!ConstantsOk, NEW n \in ChainBlock
    PROVE  /\ Epoch!EpochOf(n) \in Begun(n) /\ \A e \in Begun(n) : e <= Epoch!EpochOf(n)
           /\ Epoch!EpochOf(n) \in EpochNumber
           /\ Epoch!BoundaryBefore(Epoch!EpochOf(n)) < n
           /\ Epoch!StartOf(Epoch!EpochOf(n)) <= Epoch!Round(n)
  <1>1. n \in Nat /\ Epoch!Round(n) \in Nat /\ n \div chain.epoch_length \in Nat /\ chain.epoch_length \in Nat \ {0}
    BY EpochConstants
  <1>2. Epoch!BoundaryBefore(1) = -1 /\ Epoch!StartOf(1) = 0
    BY <1>1 DEF Epoch!BoundaryBefore, Epoch!StartOf
  <1>3. 1 \in Begun(n)
    BY <1>1, <1>2, EpochIsBegun DEF EpochNumber
  <1>4. Begun(n) \in SUBSET Nat /\ Epoch!get_locked_epoch(n) \in Nat /\ \A e \in Begun(n) : e <= Epoch!get_locked_epoch(n)
    BY <1>1 DEF Begun, Epoch!get_locked_epoch
  <1>5. Epoch!Max(Begun(n)) \in Begun(n) /\ \A e \in Begun(n) : e <= Epoch!Max(Begun(n))
    BY <1>3, <1>4, GreatestNumber
  <1>6. Epoch!EpochOf(n) = Epoch!Max(Begun(n))
    BY DEF Epoch!EpochOf, Begun
  <1> QED BY <1>5, <1>6 DEF Begun, EpochNumber

LEMMA StartIsNumber ==
    ASSUME Epoch!ConstantsOk, NEW n \in ChainBlock, NEW e \in EpochNumber, Epoch!BoundaryBefore(e) <= n
    PROVE  Epoch!StartOf(e) \in Nat
  <1>1. CASE e = 1
    BY <1>1 DEF Epoch!StartOf
  <1>2. CASE e # 1
    <2>1. Epoch!BoundaryBefore(e) \in Nat /\ n \in Nat
      BY <1>2, BoundaryOrder, EpochConstants
    <2>2. Epoch!BoundaryBefore(e) \in ChainBlock
      BY <2>1 DEF ChainBlock
    <2>3. Epoch!Round(Epoch!BoundaryBefore(e)) \in Nat /\ chain.epoch_start_delay \in Nat
      BY <2>2, EpochConstants
    <2> QED BY <1>2, <2>3 DEF Epoch!StartOf
  <1> QED BY <1>1, <1>2

LEMMA EpochsIncrease ==
    ASSUME Epoch!ConstantsOk, NEW m \in ChainBlock, NEW n \in ChainBlock, m <= n
    PROVE  Epoch!EpochOf(m) <= Epoch!EpochOf(n)
  <1> DEFINE e == Epoch!EpochOf(m)
  <1>1. e \in EpochNumber /\ Epoch!BoundaryBefore(e) < m /\ Epoch!StartOf(e) <= Epoch!Round(m)
    BY EpochOfIs
  <1>2. m \in Nat /\ n \in Nat /\ Epoch!Round(m) \in Nat /\ Epoch!Round(n) \in Nat /\ Epoch!Round(m) + (n - m) <= Epoch!Round(n)
    BY EpochConstants
  <1>3. Epoch!BoundaryBefore(e) \in Int
    BY <1>1, BoundaryOrder
  <1>4. Epoch!StartOf(e) \in Int
    BY <1>1, <1>2, <1>3, StartIsNumber
  <1>5. e \in Begun(n)
    <2>1. Epoch!BoundaryBefore(e) < n /\ Epoch!StartOf(e) <= Epoch!Round(n)
      BY <1>1, <1>2, <1>3, <1>4
    <2> QED BY <1>1, <2>1, EpochIsBegun
  <1> QED BY <1>5, EpochOfIs

(* By the last block of an epoch the epoch has begun.                      *)
LEMMA EpochBeforeBoundary ==
    ASSUME Epoch!ConstantsOk, NEW n \in ChainBlock, NEW e \in EpochNumber \ {1}, Epoch!BoundaryBefore(e) <= n
    PROVE  e - 1 <= Epoch!EpochOf(n)
  <1> DEFINE d == e - 1
             b == Epoch!BoundaryBefore(d)
  <1>1. d \in EpochNumber /\ n \in Nat /\ chain.epoch_length \in Nat \ {0} /\ Epoch!Round(n) \in Nat
    BY EpochConstants DEF EpochNumber
  <1>2. b \in Int /\ b + chain.epoch_length <= n
    <2>1. b \in Int /\ Epoch!BoundaryBefore(e) \in Int /\ b + chain.epoch_length <= Epoch!BoundaryBefore(e)
      BY <1>1, BoundaryOrder DEF EpochNumber
    <2> QED BY <1>1, <2>1
  <1>3. Epoch!StartOf(d) <= Epoch!Round(n)
    <2>1. CASE d = 1
      BY <1>1, <2>1 DEF Epoch!StartOf
    <2>2. CASE d # 1
      <3>1. b \in Nat
        BY <1>1, <2>2, BoundaryOrder
      <3>2. b \in ChainBlock /\ b <= n
        BY <1>1, <1>2, <3>1 DEF ChainBlock
      <3>3. Epoch!Round(b) \in Nat /\ Epoch!Round(b) + (n - b) <= Epoch!Round(n)
        BY <3>2, EpochConstants
      <3>4. chain.epoch_start_delay \in 0..chain.epoch_length
        BY EpochConstants
      <3> HIDE DEF b
      <3> QED BY <1>1, <1>2, <2>2, <3>1, <3>3, <3>4 DEF Epoch!StartOf, b
    <2> QED BY <2>1, <2>2
  <1>4. d \in Begun(n)
    BY <1>1, <1>2, <1>3, EpochIsBegun
  <1> QED BY <1>4, EpochOfIs

-----------------------------------------------------------------------------
Activation == chain.staking_activation

(* What the updater may be asked for and what it may answer once r is      *)
(* committed.                                                              *)
Due(r) == {n \in 0..r : Epoch!is_boundary_block(n)}
Locked(r) == {e \in EpochNumber : Epoch!BoundaryBefore(e) <= r}
Right(r) == {[epoch |-> e, set |-> Epoch!SetOf(e)] : e \in Locked(r)}

(* The epochs a node knows are the chain's, and so are those of a          *)
(* forkpoint, which has the epoch of its root and at most the next.        *)
StartsOk(starts, r) ==
    /\ Epoch!EpochOf(r) \in DOMAIN starts
    /\ \A e \in DOMAIN starts : e \in Locked(r) /\ starts[e] = Epoch!StartOf(e)
ForkpointOk(f) ==
    /\ f.root \in ChainBlock /\ StartsOk(f.sets, f.root)
    /\ \A e \in DOMAIN f.sets : e \in {Epoch!EpochOf(f.root), Epoch!EpochOf(f.root) + 1}

(* A set from before staking is right wherever it is written; a later one  *)
(* in validators.toml may be wrong.  The file has a set to take for every  *)
(* epoch of the forkpoint.                                                 *)
EarlyOk(sets) == \A e \in DOMAIN sets : e \in EpochNumber /\ (e < Activation => sets[e] = 1)
FilesOk ==
    /\ ForkpointOk(v10)
    /\ EarlyOk(v11) /\ \E e \in DOMAIN v11 : e <= Epoch!EpochOf(v10.root)

SetCommands(map) == {Epoch!ConfigSet(e, map[e]) : e \in DOMAIN map}
SyncOk ==
    /\ v2 = v10.root /\ v3 = v10.sets /\ DOMAIN v4 = DOMAIN v10.sets /\ EarlyOk(v4)
    /\ v5 = <<>> /\ v6 = <<>> /\ v8 \in Seq(SetCommands(v4))
    /\ v9 \in DOMAIN v4 \/ (v9 = 0 /\ v8 # <<>> /\ Head(v8).epoch = Epoch!EpochOf(v2))

(* A live node has written a set before, and each command to the files     *)
(* before the next comes.                                                  *)
QueueOk ==
    \/ v8 = <<>> /\ v10.root = v2
    \/ \E f : v8 = <<Epoch!ConfigCheckpoint(f)>> /\ ForkpointOk(f) /\ f.root = v2
    \/ \E e \in DOMAIN v4 : v8 = <<Epoch!ConfigSet(e, v4[e])>> /\ e \in Locked(v2) /\ v10.root = v2
LiveOk ==
    /\ v2 \in ChainBlock /\ v10.root <= v2
    /\ StartsOk(v3, v2)
    /\ Epoch!EpochOf(v2) \in DOMAIN v4 /\ v9 \in DOMAIN v4
    /\ \A e \in DOMAIN v4 : e \in EpochNumber /\ v4[e] = Epoch!SetOf(e)
    /\ v5 \in Seq(Due(v2)) /\ v6 \in Seq(Right(v2))
    /\ QueueOk

EpochInv ==
    /\ FilesOk
    /\ \A e \in DOMAIN v3 : v3[e] = Epoch!StartOf(e)
    /\ v1 \in {"sync", "live", "validator set out of order", "unexpected locked epoch valset"}
    /\ v1 = "sync" => SyncOk
    /\ v1 = "live" => LiveOk

LEMMA ModuloIs ==
    ASSUME NEW w \in Nat \ {0}, NEW k \in Nat, NEW x \in 0..w - 1
    PROVE  (w * k + x) % w = x /\ (w * k + x) \div w = k
  <1> DEFINE b == w * k + x
             q == b \div w
             y == b % w
  <1>0. w * k \in Nat
    OBVIOUS
  <1>1. b \in Nat
    BY <1>0
  <1>2. b = w * q + y /\ y \in 0..w - 1 /\ q \in Nat
    BY <1>1, Division
  <1>3. b = w * k + x
    OBVIOUS
  <1> HIDE DEF b, q, y
  <1>4. w * q = q * w /\ w * k = k * w /\ q * w \in Int /\ k * w \in Int
    BY <1>2
  <1>5. /\ q < k => q * w + w <= k * w
        /\ k < q => k * w + w <= q * w
    BY <1>2, Multiples
  <1>6. q = k
    BY <1>2, <1>3, <1>4, <1>5
  <1>7. y = x
    BY <1>2, <1>3, <1>4, <1>6
  <1> QED BY <1>6, <1>7 DEF b, q, y

LEMMA LastOfMultiple ==
    ASSUME NEW w \in Nat \ {0}, NEW j \in Nat
    PROVE  j * w - 1 = w * (j - 1) + (w - 1)
  <1>1. w * (j - 1) = j * w - w /\ j * w \in Int
    OBVIOUS
  <1> QED BY <1>1

LEMMA BoundaryBlocksAre ==
    ASSUME Epoch!ConstantsOk, NEW first \in Nat, NEW last \in Int, last + 1 \in Nat
    PROVE  \A i \in DOMAIN Epoch!BoundaryBlocks(first, last) :
             /\ Epoch!BoundaryBlocks(first, last)[i] \in first..last
             /\ Epoch!is_boundary_block(Epoch!BoundaryBlocks(first, last)[i])
  <1> DEFINE w == chain.epoch_length
             q == first \div w
             p == (last + 1) \div w
  <1>1. w \in Nat \ {0}
    BY EpochConstants
  <1>2. first = w * q + (first % w) /\ q \in Nat /\ first % w \in 0..w - 1
    BY <1>1, Division
  <1>3. last + 1 = w * p + ((last + 1) % w) /\ p \in Nat /\ (last + 1) % w \in 0..w - 1
    BY <1>1, Division
  <1>4. DOMAIN Epoch!BoundaryBlocks(first, last) = 1..(p - q)
        /\ \A i \in 1..(p - q) : Epoch!BoundaryBlocks(first, last)[i] = (q + i) * w - 1
    BY DEF Epoch!BoundaryBlocks
  <1> DEFINE x == first % w
             y == (last + 1) % w
  <1> HIDE DEF w, q, p, x, y
  <1> SUFFICES ASSUME NEW i \in 1..(p - q)
               PROVE  (q + i) * w - 1 \in first..last /\ Epoch!is_boundary_block((q + i) * w - 1)
    BY <1>4
  <1>5. q + i \in Nat /\ (q + i) - 1 \in Nat /\ q + 1 \in Nat /\ q + 1 <= q + i /\ q + i <= p
    BY <1>2, <1>3
  <1>6. (q + 1) * w <= (q + i) * w /\ (q + i) * w <= p * w /\ (q + i) * w \in Int /\ (q + 1) * w = q * w + w
    BY <1>1, <1>2, <1>3, <1>5, Multiples
  <1>7. q * w = w * q /\ p * w = w * p /\ q * w \in Int /\ p * w \in Int
    BY <1>1, <1>2, <1>3
  <1>8. (q + i) * w - 1 \in first..last
    BY <1>1, <1>2, <1>3, <1>6, <1>7 DEF x, y
  <1>9. (q + i) * w - 1 = w * ((q + i) - 1) + (w - 1)
    BY <1>1, <1>5, LastOfMultiple
  <1>10. (w * ((q + i) - 1) + (w - 1)) % w = w - 1
    <2> DEFINE j == (q + i) - 1
    <2>1. j \in Nat /\ w - 1 \in 0..w - 1
      BY <1>1, <1>5
    <2> HIDE DEF j
    <2>2. (w * j + (w - 1)) % w = w - 1
      BY <1>1, <2>1, ModuloIs
    <2> QED BY <2>2 DEF j
  <1> QED BY <1>8, <1>9, <1>10 DEF Epoch!is_boundary_block, w

(* Before staking is activated every set in validators.toml is the first.  *)
LEMMA EarlySet ==
    ASSUME Epoch!ConstantsOk, EarlyOk(v11), NEW e \in EpochNumber, \E f \in DOMAIN v11 : f <= e, e < Activation
    PROVE  Epoch!get_validator_set(e) = 1 /\ Epoch!SetOf(e) = 1
  <1> DEFINE S == {f \in DOMAIN v11 : f <= e}
  <1>1. S \in SUBSET Nat /\ S # {} /\ e \in Nat /\ \A f \in S : f <= e
    BY DEF EarlyOk, EpochNumber
  <1>2. Epoch!Max(S) \in S
    BY <1>1, GreatestNumber
  <1>3. Epoch!Max(S) \in Nat /\ Epoch!Max(S) <= e /\ Epoch!Max(S) \in DOMAIN v11 /\ Activation \in Nat
    BY <1>1, <1>2, EpochConstants DEF Activation
  <1>4. v11[Epoch!Max(S)] = 1
    BY <1>1, <1>3 DEF EarlyOk
  <1> QED BY <1>4 DEF Epoch!get_validator_set, Epoch!SetOf, Activation

LEMMA EpochSequences ==
    ASSUME NEW S, NEW T, S \subseteq T
    PROVE  \A s \in Seq(S) : s \in Seq(T)
  OBVIOUS

LEMMA MoreIsDue ==
    ASSUME Epoch!ConstantsOk, NEW r \in ChainBlock, NEW n \in ChainBlock, r <= n
    PROVE  Locked(r) \subseteq Locked(n) /\ Due(r) \subseteq Due(n) /\ Right(r) \subseteq Right(n)
  <1>1. r \in Nat /\ n \in Nat
    BY EpochConstants
  <1>2. \A e \in EpochNumber : Epoch!BoundaryBefore(e) \in Int
    BY BoundaryOrder
  <1>3. Locked(r) \subseteq Locked(n)
    BY <1>1, <1>2 DEF Locked
  <1>4. Due(r) \subseteq Due(n)
    BY <1>1 DEF Due
  <1> QED BY <1>3, <1>4 DEF Right

LEMMA NotifyOk ==
    ASSUME Epoch!ConstantsOk, NEW first \in Nat, NEW last \in ChainBlock, NEW r \in ChainBlock, r <= last,
           v5 \in Seq(Due(r)), v6 \in Seq(Right(r)), EarlyOk(v11),
           \A e \in EpochNumber \ {1} : Epoch!BoundaryBefore(e) \in first..last => \E f \in DOMAIN v11 : f <= e,
           Epoch!Notify(first, last)
    PROVE  v5' \in Seq(Due(last)) /\ v6' \in Seq(Right(last))
  <1> DEFINE w == chain.epoch_length
             c == (chain.staking_activation - 2) * w
             staked == Epoch!Max({0, c})
             low == Epoch!Max({first, staked})
             high == Epoch!Min({last, staked - 1})
             toml == Epoch!BoundaryBlocks(first, high)
             db == Epoch!BoundaryBlocks(low, last)
             FromToml(e) == [epoch |-> e, set |-> Epoch!get_validator_set(e)]
             read == [i \in DOMAIN toml |-> FromToml(Epoch!get_locked_epoch(toml[i]))]
  <1>1. w \in Nat \ {0} /\ chain.staking_activation \in Nat /\ last \in Nat /\ c \in Int
    <2>1. w \in Nat \ {0} /\ chain.staking_activation \in Nat /\ last \in Nat
      BY EpochConstants
    <2>2. chain.staking_activation - 2 \in Int
      BY <2>1
    <2> QED BY <2>1, <2>2, Multiples
  <1>2. staked \in Nat /\ staked = IF c <= 0 THEN 0 ELSE c
    BY <1>1, GreatestOfTwo
  <1>3. low \in Nat /\ first <= low
    <2> HIDE DEF staked
    <2>1. low = IF first >= staked THEN first ELSE staked
      BY <1>2, GreatestOfTwo
    <2> QED BY <1>2, <2>1
  <1>4. high \in Int /\ high + 1 \in Nat /\ high <= last /\ high <= staked - 1
    <2> HIDE DEF staked
    <2>0. last \in Int /\ staked - 1 \in Int
      BY <1>1, <1>2
    <2>1. high = IF last <= staked - 1 THEN last ELSE staked - 1
      BY <2>0, SmallestOfTwo
    <2> QED BY SMTT(30), <1>1, <1>2, <2>1
  <1>5. v5' = v5 \o db /\ v6' = v6 \o read
    BY DEF Epoch!Notify
  <1>6. /\ \E k \in Int : DOMAIN toml = 1..k
        /\ \E k \in Int : DOMAIN db = 1..k
    <2> HIDE DEF w, low, high
    <2>1. first \div w \in Nat /\ low \div w \in Nat /\ (last + 1) \div w \in Nat /\ (high + 1) \div w \in Nat
      <3>1. last + 1 \in Nat
        BY <1>1
      <3> QED BY <1>1, <1>3, <1>4, <3>1, Division
    <2> QED BY <2>1 DEF Epoch!BoundaryBlocks, w
  <1>7. \A i \in DOMAIN db : db[i] \in Due(last)
    <2>1. \A i \in DOMAIN db : db[i] \in low..last /\ Epoch!is_boundary_block(db[i])
      BY <1>1, <1>3, BoundaryBlocksAre
    <2> HIDE DEF db, low
    <2> QED BY <1>1, <1>3, <2>1 DEF Due
  <1>8. \A i \in DOMAIN toml : read[i] \in Right(last)
    <2> SUFFICES ASSUME NEW i \in DOMAIN toml PROVE read[i] \in Right(last)
      OBVIOUS
    <2> DEFINE b == toml[i]
               e == Epoch!get_locked_epoch(b)
    <2>1. b \in first..high /\ Epoch!is_boundary_block(b)
      BY <1>4, BoundaryBlocksAre
    <2>2. read[i] = FromToml(e)
      OBVIOUS
    <2> HIDE DEF b, toml, high, read, staked
    <2>3. b \in Nat /\ b <= last /\ b < c /\ b \in first..last
      BY <1>1, <1>2, <1>4, <2>1
    <2>4. e \in EpochNumber \ {1} /\ Epoch!BoundaryBefore(e) = b
      BY <2>1, <2>3, BoundaryIs
    <2>5. \E f \in DOMAIN v11 : f <= e
      BY <2>3, <2>4
    <2>6. e < Activation
      <3> DEFINE q == b \div w
                 a == chain.staking_activation - 2
      <3>1. b = w * q + (b % w) /\ q \in Nat /\ b % w \in 0..w - 1
        BY <1>1, <2>3, Division
      <3>2. a \in Int /\ e = q + 2
        BY <1>1 DEF Epoch!get_locked_epoch
      <3>3. w * q <= b
        BY <1>1, <3>1, <2>3
      <3>0. c = a * w
        OBVIOUS
      <3> HIDE DEF q, w, a, c
      <3>4. a <= q => a * w <= q * w
        BY <1>1, <3>1, <3>2, Multiples
      <3>5. q * w = w * q /\ q * w \in Int
        BY <1>1, <3>1
      <3>6. ~(a <= q)
        <4> DEFINE m == q * w
        <4>1. a <= q => c <= m
          BY <3>0, <3>4
        <4>2. m <= b /\ m \in Int
          BY <3>3, <3>5
        <4> HIDE DEF m
        <4> QED BY <1>1, <2>3, <4>1, <4>2
      <3>7. q < a
        BY <3>1, <3>2, <3>6
      <3>8. q < chain.staking_activation - 2
        BY <3>7 DEF a
      <3>9. q + 2 < chain.staking_activation
        <4>1. q \in Nat
          BY <3>1
        <4>2. chain.staking_activation \in Nat
          BY <1>1
        <4> QED BY <3>8, <4>1, <4>2
      <3> QED BY <3>2, <3>9 DEF Activation
    <2>7. Epoch!get_validator_set(e) = Epoch!SetOf(e)
      BY <2>4, <2>5, <2>6, EarlySet
    <2>8. e \in Locked(last)
      BY <2>3, <2>4 DEF Locked
    <2> QED BY <2>2, <2>7, <2>8 DEF Right
  <1>9. db \in Seq(Due(last))
    <2>1. db = [i \in DOMAIN db |-> db[i]]
      BY DEF Epoch!BoundaryBlocks
    <2> HIDE DEF db
    <2> QED BY <1>6, <1>7, <2>1
  <1>10. read \in Seq(Right(last))
    <2>1. read = [i \in DOMAIN toml |-> read[i]]
      OBVIOUS
    <2>2. PICK k \in Int : DOMAIN toml = 1..k
      BY <1>6
    <2> HIDE DEF read, toml
    <2>3. read = [i \in 1..k |-> read[i]] /\ \A i \in 1..k : read[i] \in Right(last)
      BY <1>8, <2>1, <2>2
    <2> QED BY <2>3
  <1>11. v5 \in Seq(Due(last)) /\ v6 \in Seq(Right(last))
    BY MoreIsDue, EpochSequences
  <1> HIDE DEF db, read
  <1> QED BY <1>5, <1>9, <1>10, <1>11

LEMMA FilesSteady ==
    ASSUME FilesOk, UNCHANGED <<v10, v11>>
    PROVE  FilesOk'
  BY DEF FilesOk, ForkpointOk, StartsOk, EarlyOk, Locked, ChainBlock, Activation, EpochNumber

LEMMA EpochSteady ==
    ASSUME EpochInv, UNCHANGED <<v1, v2, v3, v4, v5, v6, v8, v9, v10, v11>>
    PROVE  EpochInv'
  <1>1. FilesOk'
    BY FilesSteady DEF EpochInv
  <1>2. SyncOk => SyncOk'
    BY DEF SyncOk, EarlyOk, SetCommands
  <1>3. QueueOk => QueueOk'
    BY DEF QueueOk, ForkpointOk, StartsOk, Locked
  <1>4. LiveOk => LiveOk'
    BY <1>3 DEF LiveOk, StartsOk, Locked, Due, Right
  <1> QED BY <1>1, <1>2, <1>4 DEF EpochInv

LEMMA LoadOk ==
    ASSUME Epoch!ConstantsOk, FilesOk, Epoch!Load(v10), UNCHANGED <<v10, v11>>
    PROVE  EpochInv'
  <1> DEFINE E == Epoch!EpochOf(v10.root)
             sets == v10.sets
             first == Epoch!Min(DOMAIN sets)
             last == Epoch!Max(DOMAIN sets)
  <1>1. /\ v1' = "sync" /\ v2' = v10.root /\ v3' = sets /\ v5' = <<>> /\ v6' = <<>> /\ v9' = 0
        /\ v4' = [e \in DOMAIN sets |-> Epoch!get_validator_set(e)]
        /\ v8' = [i \in 1..last - first + 1 |->
                    Epoch!ConfigSet(first + i - 1, Epoch!get_validator_set(first + i - 1))]
    BY DEF Epoch!Load
  <1>2. /\ v10.root \in ChainBlock /\ E \in DOMAIN sets /\ DOMAIN sets \subseteq {E, E + 1}
        /\ \A e \in DOMAIN sets : sets[e] = Epoch!StartOf(e)
    BY DEF FilesOk, ForkpointOk, StartsOk
  <1>3. E \in EpochNumber /\ E \in Nat
    BY <1>2, EpochOfIs DEF EpochNumber
  <1> HIDE DEF E, sets
  <1>4. DOMAIN sets \in SUBSET Nat /\ (\A e \in DOMAIN sets : E <= e /\ e <= E + 1 /\ e \in EpochNumber) /\ E + 1 \in Nat
    BY <1>2, <1>3 DEF EpochNumber
  <1>5. first = E
    BY <1>2, <1>4, SmallestNumber
  <1>6. last \in DOMAIN sets
    BY <1>2, <1>4, GreatestNumber
  <1>7. \A i \in 1..last - first + 1 : first + i - 1 \in DOMAIN sets
    <2>1. last = E \/ last = E + 1
      BY <1>2, <1>6
    <2> QED BY <1>2, <1>3, <1>5, <1>6, <2>1
  <1>8. last - first + 1 \in Nat \ {0}
    BY <1>2, <1>3, <1>5, <1>6
  <1>9. EarlyOk(v11) /\ \A e \in DOMAIN sets : \E f \in DOMAIN v11 : f <= e
    <2>1. EarlyOk(v11)
      BY DEF FilesOk
    <2>2. PICK f \in DOMAIN v11 : f <= E
      BY DEF FilesOk, E
    <2>3. f \in Nat
      BY <2>1, <2>2 DEF EarlyOk, EpochNumber
    <2>4. \A e \in DOMAIN sets : f <= e
      BY <1>3, <1>4, <2>2, <2>3
    <2> QED BY <2>1, <2>2, <2>4
  <1>10. EarlyOk(v4')
    <2> SUFFICES ASSUME NEW e \in DOMAIN sets PROVE e \in EpochNumber /\ (e < Activation => v4'[e] = 1)
      BY <1>1 DEF EarlyOk, Activation
    <2>1. v4'[e] = Epoch!get_validator_set(e) /\ e \in EpochNumber
      BY <1>1, <1>4
    <2>2. e < Activation => Epoch!get_validator_set(e) = 1
      BY <1>9, <2>1, EarlySet
    <2> QED BY <2>1, <2>2
  <1>11. v8' \in Seq(SetCommands(v4')) /\ v8' # <<>> /\ Head(v8').epoch = E
    <2> DEFINE k == last - first + 1
               Cmd(i) == Epoch!ConfigSet(first + i - 1, Epoch!get_validator_set(first + i - 1))
    <2>1. v8' = [i \in 1..k |-> Cmd(i)] /\ k \in Nat \ {0}
      BY <1>1, <1>8
    <2>2. \A i \in 1..k : Cmd(i) \in SetCommands(v4')
      <3> SUFFICES ASSUME NEW i \in 1..k PROVE Cmd(i) \in SetCommands(v4')
        OBVIOUS
      <3>1. first + i - 1 \in DOMAIN sets
        BY <1>7
      <3>2. v4'[first + i - 1] = Epoch!get_validator_set(first + i - 1) /\ first + i - 1 \in DOMAIN v4'
        BY <1>1, <3>1
      <3> QED BY <3>2 DEF SetCommands
    <2>3. Cmd(1).epoch = E
      BY <1>3, <1>5 DEF Epoch!ConfigSet
    <2> HIDE DEF k, Cmd
    <2>4. v8' \in Seq(SetCommands(v4'))
      BY <2>1, <2>2
    <2>5. Len(v8') = k /\ v8'[1] = Cmd(1)
      BY <2>1
    <2> QED BY <2>1, <2>3, <2>4, <2>5
  <1>12. FilesOk'
    BY FilesSteady
  <1>13. SyncOk'
    <2>1. v2' = v10'.root /\ v3' = v10'.sets /\ DOMAIN v4' = DOMAIN v10'.sets
      BY <1>1 DEF sets
    <2>2. v5' = <<>> /\ v6' = <<>> /\ v9' = 0 /\ Head(v8').epoch = Epoch!EpochOf(v2')
      BY <1>1, <1>11 DEF E
    <2> QED BY <1>10, <1>11, <2>1, <2>2 DEF SyncOk, SetCommands, EarlyOk
  <1> QED BY <1>1, <1>2, <1>12, <1>13 DEF EpochInv

(* The round of a block to commit belongs to an epoch the node knows.      *)
LEMMA GetEpochKnown ==
    ASSUME Epoch!ConstantsOk, NEW r \in ChainBlock, NEW n \in ChainBlock, r <= n, StartsOk(v3, r)
    PROVE  Epoch!get_epoch(Epoch!Round(n)) \in DOMAIN v3
  <1> DEFINE S == {e \in DOMAIN v3 : v3[e] <= Epoch!Round(n)}
             E == Epoch!EpochOf(r)
  <1>1. E \in DOMAIN v3 /\ v3[E] = Epoch!StartOf(E)
    BY DEF StartsOk
  <1>2. Epoch!StartOf(E) <= Epoch!Round(r) /\ Epoch!Round(r) \in Nat /\ Epoch!Round(n) \in Nat /\ r \in Nat /\ n \in Nat
        /\ Epoch!Round(r) + (n - r) <= Epoch!Round(n)
    BY EpochOfIs, EpochConstants
  <1>3. Epoch!StartOf(E) \in Int
    <2>1. E \in EpochNumber /\ Epoch!BoundaryBefore(E) < r
      BY EpochOfIs
    <2>2. Epoch!BoundaryBefore(E) \in Int
      BY <2>1, BoundaryOrder
    <2> QED BY <1>2, <2>1, <2>2, StartIsNumber
  <1>4. E \in S
    BY <1>1, <1>2, <1>3
  <1>5. S \in SUBSET Nat /\ \A e \in S : e <= r + 2
    <2> SUFFICES ASSUME NEW e \in DOMAIN v3 PROVE e \in Nat /\ e <= r + 2
      OBVIOUS
    <2>1. e \in EpochNumber /\ Epoch!BoundaryBefore(e) <= r
      BY DEF StartsOk, Locked
    <2>2. chain.epoch_length \in Nat \ {0} /\ e - 1 \in Nat
      BY <2>1, EpochConstants DEF EpochNumber
    <2>3. e - 1 <= (e - 1) * chain.epoch_length
      BY <2>2
    <2>4. (e - 1) * chain.epoch_length \in Int
      BY <2>2
    <2> QED BY <1>2, <2>1, <2>2, <2>3, <2>4 DEF Epoch!BoundaryBefore, EpochNumber
  <1>6. Epoch!Max(S) \in S
    <2>1. r + 2 \in Nat
      BY <1>2
    <2> HIDE DEF S
    <2> QED BY <1>4, <1>5, <2>1, GreatestNumber
  <1> QED BY <1>6 DEF Epoch!get_epoch

(* A forkpoint the node takes is right, and has the epoch of its root.     *)
LEMMA CheckpointOk ==
    ASSUME Epoch!ConstantsOk, NEW n \in ChainBlock, NEW starts, StartsOk(starts, n), Epoch!EpochOf(n) \in DOMAIN v4
    PROVE  /\ ForkpointOk(Epoch!Checkpoint(n, starts)) /\ Epoch!Checkpoint(n, starts).root = n
           /\ Epoch!EpochOf(n) \in DOMAIN Epoch!Checkpoint(n, starts).sets
  <1> DEFINE E == Epoch!EpochOf(n)
             D == {E, E + 1} \cap DOMAIN starts \cap DOMAIN v4
             f == Epoch!Checkpoint(n, starts)
  <1>1. f.root = n /\ f.sets = [e \in D |-> starts[e]]
    BY DEF Epoch!Checkpoint
  <1>2. E \in D
    BY DEF StartsOk
  <1>3. \A e \in D : e \in {E, E + 1} /\ e \in Locked(n) /\ starts[e] = Epoch!StartOf(e)
    BY DEF StartsOk
  <1> HIDE DEF D, f
  <1>4. StartsOk(f.sets, n)
    BY <1>1, <1>2, <1>3 DEF StartsOk
  <1>5. ForkpointOk(f)
    BY <1>1, <1>3, <1>4 DEF ForkpointOk
  <1> QED BY <1>1, <1>2, <1>5 DEF f

LEMMA GoLiveOk ==
    ASSUME Epoch!ConstantsOk, EpochInv, Epoch!GoLive
    PROVE  EpochInv'
  <1> DEFINE d == chain.execution_delay
             first == Epoch!Max({1, v2 - 2 * d + 1})
             E == Epoch!EpochOf(v2)
  <1>1. /\ v1 = "sync" /\ v8 = <<>> /\ Epoch!Notify(first, v2)
        /\ v1' \in {"live", "unexpected locked epoch valset"}
        /\ v1' = "live" => \A e \in DOMAIN v10.sets : e >= Activation => v4[e] = Epoch!SetOf(e)
        /\ UNCHANGED <<v2, v3, v4, v7, v8, v9, v10, v11, v12>>
    BY DEF Epoch!GoLive, Epoch!files, Activation
  <1>2. FilesOk /\ SyncOk
    BY <1>1 DEF EpochInv
  <1>3. v2 \in ChainBlock /\ v2 \in Nat /\ d \in Nat /\ 2 * d <= chain.epoch_length /\ chain.epoch_length \in Nat /\ StartsOk(v3, v2)
    BY <1>2, EpochConstants DEF SyncOk, FilesOk, ForkpointOk
  <1>4. first \in Nat /\ v2 - 2 * d + 1 <= first
    <2>1. v2 - 2 * d + 1 \in Int
      BY <1>3
    <2>2. first = IF 1 >= v2 - 2 * d + 1 THEN 1 ELSE v2 - 2 * d + 1
      BY <2>1, GreatestOfTwo
    <2> HIDE DEF first, d
    <2> QED BY <1>3, <2>1, <2>2
  <1>5. ASSUME NEW e \in EpochNumber \ {1}, Epoch!BoundaryBefore(e) \in first..v2
        PROVE  \E f \in DOMAIN v11 : f <= e
    <2>1. E \in EpochNumber /\ Epoch!BoundaryBefore(E) < v2
      BY <1>3, EpochOfIs
    <2>2. e < E => Epoch!BoundaryBefore(e) + chain.epoch_length <= Epoch!BoundaryBefore(E)
      BY <2>1, BoundaryOrder
    <2>3. Epoch!BoundaryBefore(E) \in Int
      BY <2>1, BoundaryOrder
    <2> HIDE DEF first, d, E
    <2>4. ~(e < E)
      BY <1>3, <1>4, <1>5, <2>1, <2>2, <2>3
    <2>5. PICK f \in DOMAIN v11 : f <= E
      BY <1>2 DEF FilesOk, SyncOk, E
    <2>6. f \in Nat /\ E \in Nat /\ e \in Nat
      BY <1>2, <2>1, <2>5 DEF FilesOk, EarlyOk, EpochNumber
    <2>7. f <= e
      BY <2>4, <2>5, <2>6
    <2> QED BY <2>5, <2>7
  <1>6. v5' \in Seq(Due(v2)) /\ v6' \in Seq(Right(v2))
    <2>1. v5 \in Seq(Due(v2)) /\ v6 \in Seq(Right(v2)) /\ EarlyOk(v11)
      BY <1>2 DEF SyncOk, FilesOk
    <2>2. v2 <= v2
      BY <1>3
    <2> HIDE DEF first
    <2> QED BY <1>1, <1>3, <1>4, <1>5, <2>1, <2>2, NotifyOk
  <1>7. ASSUME v1' = "live" PROVE LiveOk'
    <2>1. \A e \in DOMAIN v4 : e \in EpochNumber /\ v4[e] = Epoch!SetOf(e)
      <3> SUFFICES ASSUME NEW e \in DOMAIN v4 PROVE e \in EpochNumber /\ v4[e] = Epoch!SetOf(e)
        OBVIOUS
      <3>1. e \in EpochNumber /\ e \in DOMAIN v10.sets /\ (e < Activation => v4[e] = 1)
        BY <1>2 DEF SyncOk, EarlyOk
      <3>2. CASE e < Activation
        BY <3>1, <3>2 DEF Epoch!SetOf, Activation
      <3>3. CASE ~(e < Activation)
        <4>1. e >= Activation
          BY <3>1, <3>3, EpochConstants DEF Activation, EpochNumber
        <4> QED BY <1>1, <1>7, <3>1, <4>1
      <3> QED BY <3>2, <3>3
    <2>2. v9 \in DOMAIN v4 /\ v10.root = v2 /\ Epoch!EpochOf(v2) \in DOMAIN v4
      BY <1>1, <1>2 DEF SyncOk, FilesOk, ForkpointOk, StartsOk
    <2>3. QueueOk'
      BY <1>1, <2>2 DEF QueueOk
    <2>4. v10'.root <= v2'
      <3>1. v10'.root = v2 /\ v2' = v2
        BY <1>1, <2>2
      <3>2. v2 <= v2
        BY <1>3
      <3> QED BY <3>1, <3>2
    <2>5. StartsOk(v3', v2') /\ v2' \in ChainBlock
      BY <1>1, <1>3
    <2>6. v5' \in Seq(Due(v2')) /\ v6' \in Seq(Right(v2'))
      BY <1>1, <1>6
    <2>7. Epoch!EpochOf(v2') \in DOMAIN v4' /\ v9' \in DOMAIN v4' /\ \A e \in DOMAIN v4' : e \in EpochNumber /\ v4'[e] = Epoch!SetOf(e)
      BY <1>1, <2>1, <2>2
    <2> QED BY <2>3, <2>4, <2>5, <2>6, <2>7 DEF LiveOk, StartsOk, Due, Right, Locked, ChainBlock, EpochNumber
  <1>8. FilesOk'
    BY <1>1, <1>2, FilesSteady
  <1> QED BY <1>1, <1>7, <1>8 DEF EpochInv

LEMMA ReadValsetOk ==
    ASSUME Epoch!ConstantsOk, EpochInv, Epoch!ReadValset
    PROVE  EpochInv'
  <1> DEFINE b == Head(v5)
             e == Epoch!get_locked_epoch(b)
             x == [epoch |-> e, set |-> Epoch!SetOf(e)]
  <1>1. /\ v1 \in {"sync", "live"} /\ v5 # <<>> /\ v6' = Append(v6, x) /\ v5' = Tail(v5)
        /\ UNCHANGED <<v1, v2, v3, v4, v7, v8, v9, v10, v11, v12>>
    BY DEF Epoch!ReadValset, Epoch!Running, Epoch!files
  <1>2. v1 = "live" /\ LiveOk
    BY <1>1 DEF EpochInv, SyncOk
  <1>3. b \in Due(v2) /\ v5' \in Seq(Due(v2)) /\ v2 \in ChainBlock
    BY <1>1, <1>2 DEF LiveOk
  <1>4. b \in Nat /\ b <= v2 /\ Epoch!is_boundary_block(b)
    BY <1>3, EpochConstants DEF Due
  <1> HIDE DEF b
  <1>5. e \in EpochNumber /\ Epoch!BoundaryBefore(e) = b
    BY <1>4, BoundaryIs
  <1>6. x \in Right(v2)
    BY <1>4, <1>5 DEF Right, Locked
  <1> HIDE DEF x
  <1>7. v6' \in Seq(Right(v2))
    BY <1>1, <1>2, <1>6 DEF LiveOk
  <1>8. LiveOk'
    <2>1. QueueOk'
      BY <1>1, <1>2 DEF LiveOk, QueueOk, ForkpointOk, StartsOk, Locked
    <2> QED BY <1>1, <1>2, <1>3, <1>7, <2>1 DEF LiveOk, StartsOk, Due, Right, Locked
  <1>9. FilesOk'
    BY <1>1, FilesSteady DEF EpochInv
  <1> QED BY <1>1, <1>2, <1>8, <1>9 DEF EpochInv

LEMMA UpdateValidatorsOk ==
    ASSUME Epoch!ConstantsOk, EpochInv, Epoch!UpdateValidators
    PROVE  EpochInv'
  <1> DEFINE v == Head(v6)
  <1>1. /\ v1 \in {"sync", "live"} /\ v6 # <<>> /\ v8 = <<>>
        /\ v1' = IF v.epoch \in DOMAIN v4 /\ v4[v.epoch] # v.set THEN "validator set mismatch" ELSE v1
        /\ v4' = Epoch!With(v4, v.epoch, v.set) /\ v8' = <<Epoch!ConfigSet(v.epoch, v.set)>> /\ v6' = Tail(v6)
        /\ UNCHANGED <<v2, v3, v5, v7, v9, v10, v11, v12>>
    BY DEF Epoch!UpdateValidators, Epoch!Running, Epoch!files
  <1>2. v1 = "live" /\ LiveOk
    BY <1>1 DEF EpochInv, SyncOk
  <1>3. v \in Right(v2) /\ v6' \in Seq(Right(v2))
    <2>1. v6 \in Seq(Right(v2)) /\ v6 # <<>> /\ v6' = Tail(v6)
      BY <1>1, <1>2 DEF LiveOk
    <2>2. \A S : \A s \in Seq(S) : s # <<>> => Head(s) \in S /\ Tail(s) \in Seq(S)
      OBVIOUS
    <2> QED BY <2>1, <2>2, Zenon
  <1> HIDE DEF v
  <1>4. PICK e \in Locked(v2) : v = [epoch |-> e, set |-> Epoch!SetOf(e)]
    BY <1>3 DEF Right
  <1>5. v.epoch = e /\ v.set = Epoch!SetOf(e) /\ e \in EpochNumber
    BY <1>4 DEF Locked
  <1>6. v1' = "live"
    BY <1>1, <1>2, <1>5 DEF LiveOk
  <1>7. DOMAIN v4' = DOMAIN v4 \cup {e} /\ v4'[e] = Epoch!SetOf(e) /\ \A x \in DOMAIN v4 : v4'[x] = IF x = e THEN Epoch!SetOf(e) ELSE v4[x]
    BY <1>1, <1>5 DEF Epoch!With
  <1>8. \A x \in DOMAIN v4' : x \in EpochNumber /\ v4'[x] = Epoch!SetOf(x)
    BY <1>2, <1>5, <1>7 DEF LiveOk
  <1>9. QueueOk'
    <2>1. v8' = <<Epoch!ConfigSet(e, v4'[e])>> /\ e \in DOMAIN v4' /\ e \in Locked(v2') /\ v10'.root = v2'
      BY <1>1, <1>2, <1>4, <1>5, <1>7 DEF LiveOk, QueueOk
    <2> QED BY <2>1 DEF QueueOk, Locked
  <1>10. LiveOk'
    <2>1. Epoch!EpochOf(v2') \in DOMAIN v4' /\ v9' \in DOMAIN v4'
      BY <1>1, <1>2, <1>7 DEF LiveOk
    <2> QED BY <1>1, <1>2, <1>3, <1>8, <1>9, <2>1 DEF LiveOk, StartsOk, Due, Right, Locked
  <1>11. FilesOk'
    BY <1>1, FilesSteady DEF EpochInv
  <1> QED BY <1>1, <1>6, <1>10, <1>11 DEF EpochInv

LEMMA EnterRoundOk ==
    ASSUME Epoch!ConstantsOk, EpochInv, Epoch!EnterRound
    PROVE  EpochInv'
  <1> DEFINE f == Epoch!Checkpoint(v2, v3)
  <1>1. /\ v1 = "live" /\ v8 = <<>> /\ v8' = <<Epoch!ConfigCheckpoint(f)>>
        /\ v1' = IF Epoch!EpochOf(v2) \notin DOMAIN f.sets THEN "no validator set for base epoch" ELSE v1
        /\ UNCHANGED <<v2, v3, v4, v5, v6, v7, v9, v10, v11, v12>>
    BY DEF Epoch!EnterRound, Epoch!Live, Epoch!files
  <1>2. LiveOk
    BY <1>1 DEF EpochInv
  <1>3. ForkpointOk(f) /\ f.root = v2 /\ Epoch!EpochOf(v2) \in DOMAIN f.sets
    BY <1>2, CheckpointOk DEF LiveOk
  <1> HIDE DEF f
  <1>4. v1' = "live"
    BY <1>1, <1>3
  <1>5. QueueOk'
    BY <1>1, <1>3 DEF QueueOk
  <1>6. LiveOk'
    BY <1>1, <1>2, <1>5 DEF LiveOk, StartsOk, Due, Right, Locked
  <1>7. FilesOk'
    BY <1>1, FilesSteady DEF EpochInv
  <1> QED BY <1>1, <1>4, <1>6, <1>7 DEF EpochInv

LEMMA CommitOk ==
    ASSUME Epoch!ConstantsOk, EpochInv, NEW n \in Epoch!Block, Epoch!Commit(n)
    PROVE  EpochInv'
  <1> DEFINE f == Epoch!Checkpoint(n, v3')
             E == Epoch!EpochOf(n)
  <1>1. /\ v1 = "live" /\ v8 = <<>> /\ n > v2 /\ v2' = n /\ v3' = Epoch!Schedule(v2 + 1, n)
        /\ Epoch!Notify(v2 + 1, n) /\ v8' = <<Epoch!ConfigCheckpoint(f)>>
        /\ v1' = IF Epoch!Conflicting(v2 + 1, n) THEN "conflicting epoch start round"
                 ELSE IF E \notin DOMAIN f.sets THEN "no validator set for base epoch" ELSE v1
        /\ UNCHANGED <<v4, v7, v9, v10, v11, v12>>
    BY DEF Epoch!Commit, Epoch!Live, Epoch!files
  <1>2. LiveOk /\ FilesOk
    BY <1>1 DEF EpochInv
  <1>3. v2 \in ChainBlock /\ n \in ChainBlock /\ v2 \in Nat /\ n \in Nat /\ v2 <= n /\ v10.root = v2
    <2>1. v2 \in ChainBlock /\ v10.root = v2
      BY <1>1, <1>2 DEF LiveOk, QueueOk
    <2>2. n \in ChainBlock
      BY EpochConstants DEF Epoch!Block, ChainBlock
    <2>3. v2 \in Nat /\ n \in Nat
      BY <2>1, <2>2, EpochConstants
    <2>4. n > v2
      BY <1>1
    <2>5. v2 <= n
      BY <2>3, <2>4
    <2> QED BY <2>1, <2>2, <2>3, <2>5
  <1>4. E \in DOMAIN v3 /\ E \in DOMAIN v4
    <2>0. n > v2
      BY <1>1
    <2>1. n \in (v2 + 1)..n
      BY <1>3, <2>0
    <2>2. Epoch!get_epoch(Epoch!Round(n)) = E /\ E \in DOMAIN v4
      BY <2>1 DEF Epoch!Commit
    <2>3. StartsOk(v3, v2)
      BY <1>2 DEF LiveOk
    <2> QED BY <1>3, <2>2, <2>3, GetEpochKnown
  <1> HIDE DEF E
  <1>5. \A b \in (v2 + 1)..n : Epoch!is_boundary_block(b) =>
           /\ Epoch!get_locked_epoch(b) \in Locked(n)
           /\ Epoch!Round(b) + chain.epoch_start_delay = Epoch!StartOf(Epoch!get_locked_epoch(b))
           /\ Epoch!BoundaryBefore(Epoch!get_locked_epoch(b)) = b
    <2> SUFFICES ASSUME NEW b \in (v2 + 1)..n, Epoch!is_boundary_block(b)
                 PROVE  /\ Epoch!get_locked_epoch(b) \in Locked(n)
                        /\ Epoch!Round(b) + chain.epoch_start_delay = Epoch!StartOf(Epoch!get_locked_epoch(b))
                        /\ Epoch!BoundaryBefore(Epoch!get_locked_epoch(b)) = b
      OBVIOUS
    <2>1. b \in Nat /\ b <= n
      BY <1>3
    <2>2. Epoch!get_locked_epoch(b) \in EpochNumber \ {1} /\ Epoch!BoundaryBefore(Epoch!get_locked_epoch(b)) = b
      BY <2>1, BoundaryIs
    <2> QED BY <2>1, <2>2 DEF Locked, Epoch!StartOf
  <1>6. \A e \in DOMAIN v3 : e \in Locked(n) /\ v3[e] = Epoch!StartOf(e)
    BY <1>2, <1>3, MoreIsDue DEF LiveOk, StartsOk
  <1>7. StartsOk(v3', n)
    <2> DEFINE next == {Epoch!get_locked_epoch(b) : b \in {b \in (v2 + 1)..n : Epoch!is_boundary_block(b)}}
               Start(e) == Epoch!Round(Epoch!BoundaryBefore(e)) + chain.epoch_start_delay
    <2>1. v3' = [e \in DOMAIN v3 \cup next |-> IF e \in DOMAIN v3 THEN v3[e] ELSE Start(e)]
      BY <1>1 DEF Epoch!Schedule
    <2>2. \A e \in next : e \in Locked(n) /\ Start(e) = Epoch!StartOf(e)
      BY <1>5
    <2> HIDE DEF next, Start
    <2>3. DOMAIN v3' = DOMAIN v3 \cup next /\ \A e \in DOMAIN v3' : v3'[e] = IF e \in DOMAIN v3 THEN v3[e] ELSE Start(e)
      BY <2>1
    <2> QED BY <1>4, <1>6, <2>2, <2>3 DEF StartsOk, E
  <1>8. ~ Epoch!Conflicting(v2 + 1, n)
    BY <1>5, <1>6 DEF Epoch!Conflicting
  <1>9. ForkpointOk(f) /\ f.root = n /\ E \in DOMAIN f.sets
    BY <1>3, <1>4, <1>7, CheckpointOk DEF E
  <1> HIDE DEF f
  <1>10. v1' = "live"
    BY <1>1, <1>8, <1>9
  <1>11. ASSUME NEW e \in EpochNumber \ {1}, Epoch!BoundaryBefore(e) \in (v2 + 1)..n
         PROVE  \E g \in DOMAIN v11 : g <= e
    <2> DEFINE R == Epoch!EpochOf(v2)
    <2>1. R \in EpochNumber /\ Epoch!BoundaryBefore(R) < v2
      BY <1>3, EpochOfIs
    <2>2. e <= R => Epoch!BoundaryBefore(e) <= Epoch!BoundaryBefore(R)
      BY <2>1, BoundaryOrder
    <2>3. Epoch!BoundaryBefore(R) \in Int
      BY <2>1, BoundaryOrder
    <2>4. PICK g \in DOMAIN v11 : g <= R
      BY <1>2, <1>3 DEF FilesOk
    <2>5. g \in Nat /\ R \in Nat /\ e \in Nat
      BY <1>2, <2>1, <2>4 DEF FilesOk, EarlyOk, EpochNumber
    <2> HIDE DEF R
    <2>6. ~(e <= R)
      BY <1>3, <1>11, <2>2, <2>1, <2>3
    <2>7. g <= e
      BY <2>4, <2>5, <2>6
    <2> QED BY <2>4, <2>7
  <1>12. v5' \in Seq(Due(n)) /\ v6' \in Seq(Right(n))
    <2>1. v5 \in Seq(Due(v2)) /\ v6 \in Seq(Right(v2)) /\ EarlyOk(v11)
      BY <1>2 DEF LiveOk, FilesOk
    <2>2. v2 + 1 \in Nat
      BY <1>3
    <2> QED BY <1>1, <1>3, <1>11, <2>1, <2>2, NotifyOk
  <1>13. LiveOk'
    <2>1. QueueOk'
      BY <1>1, <1>9 DEF QueueOk
    <2>2. v2' \in ChainBlock /\ v10'.root <= v2'
      BY <1>1, <1>3
    <2>3. StartsOk(v3', v2')
      BY <1>1, <1>7
    <2>4. v5' \in Seq(Due(v2')) /\ v6' \in Seq(Right(v2'))
      BY <1>1, <1>12
    <2>5. Epoch!EpochOf(v2') \in DOMAIN v4' /\ v9' \in DOMAIN v4' /\ \A e \in DOMAIN v4' : e \in EpochNumber /\ v4'[e] = Epoch!SetOf(e)
      BY <1>1, <1>2, <1>4 DEF LiveOk, E
    <2> QED BY <2>1, <2>2, <2>3, <2>4, <2>5 DEF LiveOk, StartsOk, Due, Right, Locked, ChainBlock, EpochNumber
  <1>14. FilesOk'
    BY <1>1, <1>2, FilesSteady
  <1>15. \A e \in DOMAIN v3' : v3'[e] = Epoch!StartOf(e)
    BY <1>7 DEF StartsOk
  <1> QED BY <1>10, <1>13, <1>14, <1>15 DEF EpochInv

(* What writing a set makes of validators.toml.                            *)
LEMMA WrittenSets ==
    ASSUME v1 \in {"sync", "live"}, EarlyOk(v11), NEW r \in Nat, \E d \in DOMAIN v11 : d <= r,
           NEW e \in EpochNumber, v9 = 0 => e <= r, v9 # 0 => v9 \in EpochNumber /\ (v9 = e - 1 => v9 <= r),
           v9 < Activation => v9 = 0 \/ v4[v9] = 1, Activation \in Nat,
           NEW set, Epoch!WriteValidatorSet(e, set)
    PROVE  /\ EarlyOk(v11') /\ \E d \in DOMAIN v11' : d <= r
           /\ v9' = e /\ v10' = v10 /\ v1' \in {v1, "validator set out of order"}
  <1>1. /\ v9' = e /\ v10' = v10
        /\ v1' = IF v9 \in {0, e - 1} THEN v1 ELSE "validator set out of order"
        /\ v11' = IF v1' # v1 \/ e < Activation THEN v11
                  ELSE IF v9 = 0 THEN Epoch!Only(e, set) ELSE Epoch!With(Epoch!Only(e, set), e - 1, v4[e - 1])
    BY DEF Epoch!WriteValidatorSet, Activation
  <1>0. v1' \in {v1, "validator set out of order"}
    BY <1>1, Zenon
  <1>2. CASE v11' = v11
    <2>1. EarlyOk(v11') /\ \E d \in DOMAIN v11' : d <= r
      BY <1>2 DEF EarlyOk
    <2> QED BY <1>0, <1>1, <2>1
  <1>3. CASE v11' = Epoch!Only(e, set) /\ v9 = 0 /\ ~(e < Activation)
    <2>1. DOMAIN v11' = {e}
      BY <1>3 DEF Epoch!Only
    <2> QED BY <1>1, <1>3, <2>1 DEF EarlyOk, Activation
  <1>4. CASE v11' = Epoch!With(Epoch!Only(e, set), e - 1, v4[e - 1]) /\ v9 # 0 /\ v9 = e - 1 /\ ~(e < Activation)
    <2>1. DOMAIN v11' = {e, v9} /\ v11'[v9] = v4[v9] /\ v9 \in EpochNumber
      BY <1>4 DEF Epoch!Only, Epoch!With
    <2> QED BY <1>1, <1>4, <2>1 DEF EarlyOk, Activation
  <1>5. v1' = v1 => v9 = 0 \/ v9 = e - 1
    BY <1>1
  <1>6. \/ v11' = v11
        \/ v11' = Epoch!Only(e, set) /\ v9 = 0 /\ ~(e < Activation)
        \/ v11' = Epoch!With(Epoch!Only(e, set), e - 1, v4[e - 1]) /\ v9 # 0 /\ v9 = e - 1 /\ ~(e < Activation)
    BY <1>1, <1>5, Zenon
  <1> QED BY <1>2, <1>3, <1>4, <1>6

LEMMA ExecConfigOk ==
    ASSUME Epoch!ConstantsOk, EpochInv, Epoch!ExecConfig
    PROVE  EpochInv'
  <1> DEFINE c == Head(v8)
  <1>1. /\ v1 \in {"sync", "live"} /\ v8 # <<>> /\ v8' = Tail(v8)
        /\ \/ c.command = "checkpoint" /\ Epoch!WriteCheckpoint(c.value)
           \/ c.command = "set" /\ Epoch!WriteValidatorSet(c.epoch, c.value)
        /\ UNCHANGED <<v2, v3, v4, v5, v6, v7, v12>>
    BY DEF Epoch!ExecConfig, Epoch!Running
  <1>2. FilesOk /\ EarlyOk(v11) /\ ForkpointOk(v10) /\ Activation \in Nat
    BY EpochConstants DEF EpochInv, FilesOk, Activation
  <1>3. CASE v1 = "sync"
    <2> DEFINE E == Epoch!EpochOf(v2)
    <2>1. SyncOk /\ v2 = v10.root /\ v2 \in ChainBlock /\ DOMAIN v4 = DOMAIN v10.sets /\ v8 \in Seq(SetCommands(v4))
      BY <1>2, <1>3 DEF EpochInv, SyncOk, ForkpointOk
    <2>2. c \in SetCommands(v4) /\ v8' \in Seq(SetCommands(v4))
      <3>1. \A S : \A s \in Seq(S) : s # <<>> => Head(s) \in S /\ Tail(s) \in Seq(S)
        OBVIOUS
      <3> QED BY <1>1, <2>1, <3>1, Zenon
    <2>3. PICK e \in DOMAIN v4 : c = Epoch!ConfigSet(e, v4[e])
      BY <2>2 DEF SetCommands
    <2>4. c.command = "set" /\ c.epoch = e /\ c.value = v4[e]
      BY <2>3 DEF Epoch!ConfigSet
    <2>5. Epoch!WriteValidatorSet(e, v4[e])
      BY <1>1, <2>4
    <2>6. E \in EpochNumber /\ E \in Nat /\ (\A x \in DOMAIN v4 : x \in {E, E + 1} /\ x \in EpochNumber /\ (x < Activation => v4[x] = 1))
      BY <1>2, <2>1, EpochOfIs DEF ForkpointOk, SyncOk, EarlyOk, EpochNumber
    <2>7. v9 \in DOMAIN v4 \/ (v9 = 0 /\ e = E)
      BY <2>1, <2>4 DEF SyncOk
    <2>8. \E d \in DOMAIN v11 : d <= E
      BY <1>2, <2>1 DEF FilesOk
    <2> HIDE DEF E, c
    <2>9. v9 = 0 => e <= E
      BY <2>6, <2>7 DEF EpochNumber
    <2>10. v9 # 0 => v9 \in EpochNumber /\ (v9 = e - 1 => v9 <= E)
      BY <2>6, <2>7
    <2>11. v9 < Activation => v9 = 0 \/ v4[v9] = 1
      BY <2>6, <2>7
    <2>12. /\ EarlyOk(v11') /\ \E d \in DOMAIN v11' : d <= E
           /\ v9' = e /\ v10' = v10 /\ v1' \in {v1, "validator set out of order"}
      BY <1>1, <1>2, <2>5, <2>6, <2>8, <2>9, <2>10, <2>11, WrittenSets
    <2>13. FilesOk'
      BY <1>1, <1>2, <2>1, <2>12 DEF FilesOk, ForkpointOk, StartsOk, EarlyOk, Locked, ChainBlock, Activation, EpochNumber, E
    <2>14. SyncOk'
      BY <1>1, <2>1, <2>2, <2>12 DEF SyncOk, EarlyOk, SetCommands, Activation, EpochNumber
    <2> QED BY <1>1, <1>3, <2>12, <2>13, <2>14 DEF EpochInv
  <1>4. CASE v1 = "live"
    <2>1. LiveOk /\ QueueOk
      BY <1>4 DEF EpochInv, LiveOk
    <2>2. v2 \in ChainBlock /\ v10.root \in ChainBlock /\ v10.root <= v2
      BY <1>2, <2>1 DEF LiveOk, ForkpointOk
    <2>3. ASSUME v1' = v1, v8' = <<>>, v10'.root = v2, v9' \in DOMAIN v4
          PROVE  LiveOk'
      <3>1. QueueOk'
        BY <1>1, <2>3 DEF QueueOk
      <3>2. v10'.root <= v2'
        <4>1. v2 \in Nat
          BY <2>2, EpochConstants
        <4> QED BY <1>1, <2>3, <4>1
      <3> QED BY <1>1, <2>1, <2>3, <3>1, <3>2 DEF LiveOk, StartsOk, Due, Right, Locked
    <2>4. ASSUME NEW f, v8 = <<Epoch!ConfigCheckpoint(f)>>, ForkpointOk(f), f.root = v2
          PROVE  EpochInv'
      <3>1. c = Epoch!ConfigCheckpoint(f) /\ v8' = <<>>
        BY <1>1, <2>4
      <3>2. c.command = "checkpoint" /\ c.value = f
        BY <3>1 DEF Epoch!ConfigCheckpoint
      <3>3. v10' = f /\ v1' = v1 /\ v9' = v9 /\ v11' = v11
        BY <1>1, <3>2 DEF Epoch!WriteCheckpoint
      <3>4. PICK d \in DOMAIN v11 : d <= Epoch!EpochOf(v10.root)
        BY <1>2 DEF FilesOk
      <3>5. Epoch!EpochOf(v10.root) <= Epoch!EpochOf(v2)
        BY <2>2, EpochsIncrease
      <3>6. d <= Epoch!EpochOf(v10'.root)
        <4>1. d \in Nat /\ Epoch!EpochOf(v10.root) \in Nat /\ Epoch!EpochOf(v2) \in Nat
          BY <1>2, <2>2, <3>4, EpochOfIs DEF EarlyOk, EpochNumber
        <4>2. d <= Epoch!EpochOf(v2)
          BY <3>4, <3>5, <4>1
        <4> QED BY <2>4, <3>3, <4>2
      <3>7. FilesOk'
        BY <1>2, <2>4, <3>3, <3>4, <3>6 DEF FilesOk, ForkpointOk, StartsOk, EarlyOk, Locked, ChainBlock, Activation, EpochNumber
      <3>8. LiveOk'
        BY <2>1, <2>3, <2>4, <3>1, <3>3 DEF LiveOk
      <3> QED BY <1>1, <1>4, <3>3, <3>7, <3>8 DEF EpochInv
    <2>5. ASSUME NEW e \in DOMAIN v4, v8 = <<Epoch!ConfigSet(e, v4[e])>>, e \in Locked(v2), v10.root = v2
          PROVE  EpochInv'
      <3> DEFINE E == Epoch!EpochOf(v2)
      <3>1. c = Epoch!ConfigSet(e, v4[e]) /\ v8' = <<>>
        BY <1>1, <2>5
      <3>2. c.command = "set" /\ c.epoch = e /\ c.value = v4[e]
        BY <3>1 DEF Epoch!ConfigSet
      <3>3. Epoch!WriteValidatorSet(e, v4[e])
        BY <1>1, <3>2
      <3>4. E \in Nat /\ e \in EpochNumber /\ Epoch!BoundaryBefore(e) <= v2
        BY <2>2, <2>5, EpochOfIs DEF EpochNumber, Locked
      <3>5. v9 \in DOMAIN v4 /\ v9 \in EpochNumber /\ v4[v9] = Epoch!SetOf(v9)
        BY <2>1 DEF LiveOk
      <3>6. v9 = e - 1 => v9 <= E
        <4> SUFFICES ASSUME v9 = e - 1 PROVE v9 <= E
          OBVIOUS
        <4>1. e \in EpochNumber \ {1}
          BY <3>4, <3>5 DEF EpochNumber
        <4> QED BY <2>2, <3>4, <4>1, EpochBeforeBoundary
      <3>7. v9 < Activation => v4[v9] = 1
        BY <3>5 DEF Epoch!SetOf, Activation
      <3>8. \E d \in DOMAIN v11 : d <= E
        BY <1>2, <2>5 DEF FilesOk
      <3>9. v9 # 0
        BY <3>5 DEF EpochNumber
      <3> HIDE DEF E, c
      <3>10. /\ EarlyOk(v11') /\ \E d \in DOMAIN v11' : d <= E
             /\ v9' = e /\ v10' = v10 /\ v1' \in {v1, "validator set out of order"}
        BY <1>1, <1>2, <3>3, <3>4, <3>5, <3>6, <3>7, <3>8, <3>9, WrittenSets
      <3>11. FilesOk'
        BY <1>2, <2>5, <3>10 DEF FilesOk, ForkpointOk, StartsOk, EarlyOk, Locked, ChainBlock, Activation, EpochNumber, E
      <3>12. v1' = v1 => LiveOk'
        BY <2>3, <2>5, <3>1, <3>10
      <3>13. \A x \in DOMAIN v3' : v3'[x] = Epoch!StartOf(x)
        BY <1>1 DEF EpochInv
      <3> QED BY <1>4, <3>10, <3>11, <3>12, <3>13 DEF EpochInv
    <2> QED BY <1>1, <2>1, <2>4, <2>5 DEF QueueOk
  <1> QED BY <1>1, <1>3, <1>4

LEMMA EpochInit ==
    ASSUME Epoch!ConstantsOk, Epoch!Init
    PROVE  EpochInv
  <1>1. 0 \in ChainBlock
    BY EpochConstants DEF ChainBlock
  <1>2. Epoch!EpochOf(0) = 1
    <2>1. Epoch!EpochOf(0) \in EpochNumber /\ Epoch!BoundaryBefore(Epoch!EpochOf(0)) < 0
      BY <1>1, EpochOfIs
    <2>2. Epoch!EpochOf(0) # 1 => Epoch!BoundaryBefore(Epoch!EpochOf(0)) \in Nat
      BY <2>1, BoundaryOrder
    <2> QED BY <2>1, <2>2
  <1>3. Epoch!StartOf(1) = 0 /\ 1 \in Locked(0)
    <2>1. Epoch!BoundaryBefore(1) = -1
      BY EpochConstants DEF Epoch!BoundaryBefore
    <2> QED BY <2>1 DEF Epoch!StartOf, Locked, EpochNumber
  <1>4. /\ v10 = [root |-> 0, sets |-> Epoch!Only(1, 0)] /\ v11 = Epoch!Only(1, 1) /\ v1 = "sync" /\ v2 = 0
        /\ v3 = Epoch!Only(1, 0) /\ v4 = Epoch!Only(1, 1) /\ v8 = <<Epoch!ConfigSet(1, 1)>>
        /\ v5 = <<>> /\ v6 = <<>> /\ v9 = 0
    BY DEF Epoch!Init
  <1>5. \A x : DOMAIN Epoch!Only(1, x) = {1} /\ Epoch!Only(1, x)[1] = x
    BY DEF Epoch!Only
  <1>6. FilesOk
    <2>1. ForkpointOk(v10)
      BY <1>1, <1>2, <1>3, <1>4, <1>5 DEF ForkpointOk, StartsOk
    <2> QED BY <1>2, <1>4, <1>5, <2>1 DEF FilesOk, EarlyOk, EpochNumber
  <1>7. SyncOk
    <2>1. EarlyOk(v4)
      BY <1>4, <1>5 DEF EarlyOk, EpochNumber
    <2>2. Epoch!ConfigSet(1, 1) \in SetCommands(v4)
      BY <1>4, <1>5 DEF SetCommands
    <2>3. v8 \in Seq(SetCommands(v4)) /\ v8 # <<>> /\ Head(v8) = Epoch!ConfigSet(1, 1)
      BY <1>4, <2>2
    <2>4. Head(v8).epoch = 1
      BY <2>3 DEF Epoch!ConfigSet
    <2> QED BY <1>2, <1>4, <1>5, <2>1, <2>3, <2>4 DEF SyncOk
  <1> QED BY <1>3, <1>4, <1>5, <1>6, <1>7 DEF EpochInv

(* The invariant of the epochs of a node and of its files.                 *)
THEOREM EpochInvariance == ASSUME Epoch!ConstantsOk PROVE Epoch!Spec => []EpochInv
  <1>1. Epoch!Init => EpochInv
    BY EpochInit
  <1>2. EpochInv /\ [Epoch!Next]_(Epoch!vars) => EpochInv'
    <2> SUFFICES ASSUME EpochInv, [Epoch!Next]_(Epoch!vars) PROVE EpochInv'
      OBVIOUS
    <2>1. CASE Epoch!GoLive
      BY <2>1, GoLiveOk
    <2>2. CASE Epoch!EnterRound
      BY <2>2, EnterRoundOk
    <2>3. CASE Epoch!ReadValset
      BY <2>3, ReadValsetOk
    <2>4. CASE Epoch!UpdateValidators
      BY <2>4, UpdateValidatorsOk
    <2>5. CASE Epoch!ExecConfig
      BY <2>5, ExecConfigOk
    <2>6. CASE Epoch!DbFinalizes
      BY <2>6, EpochSteady DEF Epoch!DbFinalizes, Epoch!files
    <2>7. CASE Epoch!Restart
      <3>1. FilesOk /\ Epoch!Load(v10) /\ UNCHANGED <<v10, v11>>
        BY <2>7 DEF EpochInv, Epoch!Restart, Epoch!files
      <3> QED BY <3>1, LoadOk
    <2>8. ASSUME NEW n \in Epoch!Block, Epoch!Commit(n) PROVE EpochInv'
      BY <2>8, CommitOk
    <2>9. CASE UNCHANGED Epoch!vars
      BY <2>9, EpochSteady DEF Epoch!vars
    <2> QED BY <2>1, <2>2, <2>3, <2>4, <2>5, <2>6, <2>7, <2>8, <2>9 DEF Epoch!Next
  <1> QED BY <1>1, <1>2, PTL DEF Epoch!Spec

(* The epochs of a node are the chain's, whatever is committed, read,      *)
(* crashed and reloaded.                                                   *)
THEOREM EpochsAreRight == ASSUME Epoch!ConstantsOk PROVE Epoch!Spec => []Epoch!EpochsRight
  <1>1. EpochInv => Epoch!EpochsRight
    BY DEF EpochInv, FilesOk, ForkpointOk, StartsOk, LiveOk, Epoch!EpochsRight, Epoch!Live, Epoch!Running
  <1> QED BY <1>1, EpochInvariance, PTL

-----------------------------------------------------------------------------
(* StateSync, for every number of prefixes, however requests are answered. *)
(* v1 is the node, v2 the loopback, v3 the client, v4 the target, v5 and   *)
(* v6 the thread's inbox and outbox, v7 the thread, v8 the answers on      *)
(* their way, v9 the number of requests sent and v10 the assertion that    *)
(* failed.                                                                 *)

(* What is asked for a target t as long as the prefixes in L are left, and *)
(* what is sent to the thread.                                             *)
AskedFor(t, L) == [prefix : L, target : {t}, version : Nat]
NewTargets == [target : Nat]
Pieces(t, L) == [response : AskedFor(t, L), last : BOOLEAN]
LastPieces(t, L) == [response : AskedFor(t, L), last : {TRUE}]
Dones == [done : Nat]

(* The way of a target t and its prefixes L through the client, which asks *)
(* for U, the outbox and the inbox, before the targets that follow it:     *)
(* next and the ones in the inbox, up to top.                              *)
Following(in, t, next, top) ==
    /\ \A i \in DOMAIN in : in[i] \in NewTargets => in[i].target > t /\ in[i].target > next /\ in[i].target <= top
    /\ \A i, j \in DOMAIN in : i < j /\ in[i] \in NewTargets /\ in[j] \in NewTargets => in[i].target < in[j].target
    /\ t <= top /\ next <= top /\ (next # 0 => t < next)

(* A DoneSync the client has not seen is the first in the outbox, and all  *)
(* that was asked for before it has been answered.                         *)
DoneAt(U, out, in, t, top) ==
    \A i \in DOMAIN out : out[i] \in Dones =>
       /\ i = 1 /\ out[i].done <= top /\ (t # 0 => out[i].done < t) /\ U = {}
       /\ \A j \in DOMAIN in : in[j] \in NewTargets /\ out[i].done < in[j].target

(* Nothing is asked for twice, and nothing after its last piece.           *)
Once(U, out, in, t, L) ==
    /\ \A r, s \in U : r.prefix = s.prefix => r = s
    /\ \A i, j \in DOMAIN out : out[i] \in AskedFor(t, L) /\ out[j] \in AskedFor(t, L) /\ out[i].prefix = out[j].prefix => i = j
    /\ \A i \in DOMAIN out, r \in U : out[i] \in AskedFor(t, L) => out[i].prefix # r.prefix
    /\ \A j \in DOMAIN in : in[j] \in LastPieces(t, L) =>
         /\ \A i \in DOMAIN in : in[i] \in Pieces(t, L) /\ in[i].response.prefix = in[j].response.prefix => i <= j
         /\ \A r \in U : r.prefix # in[j].response.prefix
         /\ \A i \in DOMAIN out : out[i] \in AskedFor(t, L) => out[i].prefix # in[j].response.prefix

(* Everything that is left is asked for or answered.                       *)
AllAsked(U, out, in, t, L) ==
    \A p \in L : \/ \E r \in U : r.prefix = p
                 \/ \E i \in DOMAIN out : out[i] \in AskedFor(t, L) /\ out[i].prefix = p
                 \/ \E j \in DOMAIN in : in[j] \in LastPieces(t, L) /\ in[j].response.prefix = p

OnItsWay(U, out, in, t, next, L, top) ==
    /\ t \in Nat /\ next \in Nat /\ top \in Nat /\ L \subseteq State!Prefix
    /\ U \subseteq AskedFor(t, L) /\ out \in Seq(AskedFor(t, L) \cup Dones) /\ in \in Seq(NewTargets \cup Pieces(t, L))
    /\ t = 0 => next = 0 /\ L = {}
    /\ Following(in, t, next, top)
    /\ DoneAt(U, out, in, t, top)
    /\ Once(U, out, in, t, L)
    /\ AllAsked(U, out, in, t, L)

(* The node starts a target only above the last.                           *)
NodeStates ==
    [mode : {"Sync", "Live"}, root : Nat, blocks : BOOLEAN, db_status : {"Waiting", "Started"}, updating_target : BOOLEAN]
NodeOk ==
    /\ v1 \in NodeStates
    /\ v4 <= v1.root /\ (v1.db_status = "Waiting" => v4 < v1.root)
    /\ v2 = <<>> \/ (v1.mode = "Sync" /\ v2 \in Seq(Nat) /\ Len(v2) = 1 /\ v2[1] > v1.root)

(* Responses: the nonce and the index tell them apart, the last of a nonce *)
(* has its highest index, and one that is kept is not on its way any more. *)
(* What a request keeps has one nonce.                                     *)
Kept(flying) == UNION {flying[r].responses : r \in DOMAIN flying}
AnswersOk(flying, sent, n) ==
    /\ n \in Nat
    /\ \A x \in sent : x \notin Kept(flying) /\ x.index \in 0..behind.Chunks - 1
    /\ \A x, y \in sent \cup Kept(flying) :
         /\ x.nonce \in Nat /\ x.nonce < n /\ x.last \in BOOLEAN
         /\ x.nonce = y.nonce => (x.index = y.index => x = y) /\ (x.last => y.index <= x.index)

OneNonce(S) == \A x, y \in S : x.nonce = y.nonce
FlightShape(f) ==
    /\ f = [peer |-> f.peer, responses |-> f.responses, index |-> f.index, seen |-> f.seen]
    /\ OneNonce(f.responses)
ClientShape(c) ==
    /\ c = [peers |-> c.peers, pruned |-> c.pruned, pending |-> c.pending, in_flight |-> c.in_flight, prefix_peers |-> c.prefix_peers]
    /\ \A p \in DOMAIN c.peers : c.peers[p] \in Nat
    /\ c.pending \cap DOMAIN c.in_flight = {}
    /\ c.in_flight = [r \in DOMAIN c.in_flight |-> c.in_flight[r]]
    /\ \A r \in DOMAIN c.in_flight : FlightShape(c.in_flight[r])

ClientOk == ClientShape(v3) /\ AnswersOk(v3.in_flight, v8, v9)

ThreadOk == v7 = [target |-> v7.target, next |-> v7.next, left |-> v7.left]

(* While no assertion has failed.                                          *)
StateSyncOk ==
    /\ NodeOk /\ ClientOk /\ ThreadOk
    /\ OnItsWay(v3.pending \cup DOMAIN v3.in_flight, v6, v5, v7.target, v7.next, v7.left, v4)
NotFound == "peer not found"
SyncInv == v10 \in {None, NotFound} /\ (v10 = None => StateSyncOk)

-----------------------------------------------------------------------------
LEMMA TailIs ==
    ASSUME NEW S, NEW s \in Seq(S), s # <<>>
    PROVE  /\ Head(s) = s[1] /\ 1 \in DOMAIN s /\ Tail(s) \in Seq(S)
           /\ \A i \in DOMAIN Tail(s) : i \in Nat \ {0} /\ i + 1 \in DOMAIN s /\ Tail(s)[i] = s[i + 1]
           /\ \A i \in DOMAIN s : i \in Nat \ {0} /\ (i # 1 => i - 1 \in DOMAIN Tail(s) /\ Tail(s)[i - 1] = s[i])
  OBVIOUS

LEMMA AppendIs ==
    ASSUME NEW S, NEW s \in Seq(S), NEW m \in S
    PROVE  /\ Append(s, m) \in Seq(S) /\ Len(s) \in Nat
           /\ \A i \in DOMAIN s : i \in 1..Len(s) /\ i \in DOMAIN Append(s, m) /\ Append(s, m)[i] = s[i]
           /\ Len(s) + 1 \in DOMAIN Append(s, m) /\ Append(s, m)[Len(s) + 1] = m
           /\ \A i \in DOMAIN Append(s, m) : i \in DOMAIN s \/ i = Len(s) + 1
  OBVIOUS

LEMMA ConcatIs ==
    ASSUME NEW S, NEW s \in Seq(S), NEW u \in Seq(S)
    PROVE  /\ s \o u \in Seq(S) /\ Len(s) \in Nat
           /\ \A i \in DOMAIN s : i \in 1..Len(s) /\ i \in DOMAIN (s \o u) /\ (s \o u)[i] = s[i]
           /\ \A i \in DOMAIN u : i \in Nat \ {0} /\ Len(s) + i \in DOMAIN (s \o u) /\ (s \o u)[Len(s) + i] = u[i]
           /\ \A i \in DOMAIN (s \o u) : i \in Nat /\ (i \in DOMAIN s \/ (i > Len(s) /\ i - Len(s) \in DOMAIN u /\ (s \o u)[i] = u[i - Len(s)]))
  OBVIOUS

LEMMA SeqOver ==
    ASSUME NEW S, NEW s \in Seq(S)
    PROVE  /\ \A i \in DOMAIN s : s[i] \in S
           /\ \A T : (\A i \in DOMAIN s : s[i] \in T) => s \in Seq(T)
  OBVIOUS

LEMMA SyncKinds ==
    ASSUME NEW t, NEW L
    PROVE  /\ \A m \in AskedFor(t, L) : /\ m \notin Dones /\ "done" \notin DOMAIN m /\ "prefix" \in DOMAIN m
                                        /\ m.prefix \in L /\ m.target = t /\ m.version \in Nat
           /\ \A m \in Dones : m \notin AskedFor(t, L) /\ "done" \in DOMAIN m /\ "prefix" \notin DOMAIN m /\ m.done \in Nat
           /\ \A m \in NewTargets : m \notin Pieces(t, L) /\ "target" \in DOMAIN m /\ "last" \notin DOMAIN m /\ m.target \in Nat
           /\ \A m \in Pieces(t, L) : /\ m \notin NewTargets /\ "target" \notin DOMAIN m /\ "last" \in DOMAIN m
                                      /\ m.response \in AskedFor(t, L) /\ m.last \in BOOLEAN
                                      /\ (m \in LastPieces(t, L) <=> m.last)
           /\ LastPieces(t, L) \subseteq Pieces(t, L)
  <1>1. \A m \in AskedFor(t, L) : /\ DOMAIN m = {"prefix", "target", "version"}
                                  /\ m.prefix \in L /\ m.target = t /\ m.version \in Nat
    BY DEF AskedFor
  <1>2. \A m \in Dones : DOMAIN m = {"done"} /\ m.done \in Nat
    BY DEF Dones
  <1>3. \A m \in NewTargets : DOMAIN m = {"target"} /\ m.target \in Nat
    BY DEF NewTargets
  <1>4. \A m \in Pieces(t, L) : /\ DOMAIN m = {"response", "last"}
                                /\ m.response \in AskedFor(t, L) /\ m.last \in BOOLEAN
                                /\ (m \in LastPieces(t, L) <=> m.last)
    BY DEF Pieces, LastPieces
  <1>5. LastPieces(t, L) \subseteq Pieces(t, L)
    BY DEF Pieces, LastPieces
  <1> QED BY <1>1, <1>2, <1>3, <1>4, <1>5

(* A target is sent to the thread.                                         *)
LEMMA TargetSent ==
    ASSUME State!ConstantsOk, NEW U, NEW out, NEW in, NEW t, NEW next, NEW L, NEW top,
           OnItsWay(U, out, in, t, next, L, top), NEW n \in Nat, n > top
    PROVE  OnItsWay(U, out, Append(in, [target |-> n]), t, next, L, n)
  <1> DEFINE m == [target |-> n]
             in2 == Append(in, m)
             M == NewTargets \cup Pieces(t, L)
  <1>1. /\ t \in Nat /\ next \in Nat /\ top \in Nat /\ L \subseteq State!Prefix
        /\ U \subseteq AskedFor(t, L) /\ out \in Seq(AskedFor(t, L) \cup Dones) /\ in \in Seq(M)
        /\ t = 0 => next = 0 /\ L = {}
    BY DEF OnItsWay
  <1>2. m \in NewTargets /\ m.target = n
    BY DEF NewTargets
  <1> HIDE DEF m
  <1>3. m \in M /\ m \notin Pieces(t, L) /\ m \notin LastPieces(t, L)
    <2>1. m \notin Pieces(t, L)
      BY <1>2, SyncKinds
    <2>2. LastPieces(t, L) \subseteq Pieces(t, L)
      BY SyncKinds DEF State!ConstantsOk
    <2> QED BY <1>2, <2>1, <2>2
  <1> HIDE DEF M
  <1>4. /\ in2 \in Seq(M) /\ Len(in) \in Nat
        /\ \A i \in DOMAIN in : i \in 1..Len(in) /\ i \in DOMAIN in2 /\ in2[i] = in[i]
        /\ Len(in) + 1 \in DOMAIN in2 /\ in2[Len(in) + 1] = m
        /\ \A i \in DOMAIN in2 : i \in DOMAIN in \/ i = Len(in) + 1
    BY <1>1, <1>3, AppendIs
  <1> HIDE DEF in2
  <1>5. Following(in2, t, next, n)
    <2>1. Following(in, t, next, top)
      BY DEF OnItsWay
    <2>2. \A i \in DOMAIN in : in[i] \in NewTargets => in[i].target \in Nat
      BY SyncKinds
    <2>3. \A i \in DOMAIN in2 : in2[i] \in NewTargets =>
             in2[i].target > t /\ in2[i].target > next /\ in2[i].target <= n /\ (i \in DOMAIN in => in2[i].target < n)
      <3> SUFFICES ASSUME NEW i \in DOMAIN in2, in2[i] \in NewTargets
                   PROVE  in2[i].target > t /\ in2[i].target > next /\ in2[i].target <= n /\ (i \in DOMAIN in => in2[i].target < n)
        OBVIOUS
      <3>1. CASE i \in DOMAIN in
        <4>1. in2[i] = in[i] /\ in[i].target \in Nat /\ in[i].target > t /\ in[i].target > next /\ in[i].target <= top
          BY <1>4, <2>1, <2>2, <3>1 DEF Following
        <4> QED BY <1>1, <4>1
      <3>2. CASE i = Len(in) + 1
        <4>1. in2[i].target = n /\ t <= top /\ next <= top /\ i \notin DOMAIN in
          BY <1>2, <1>4, <2>1, <3>2 DEF Following
        <4> QED BY <1>1, <4>1
      <3> QED BY <1>4, <3>1, <3>2
    <2>4. \A i, j \in DOMAIN in2 : i < j /\ in2[i] \in NewTargets /\ in2[j] \in NewTargets => in2[i].target < in2[j].target
      <3> SUFFICES ASSUME NEW i \in DOMAIN in2, NEW j \in DOMAIN in2, i < j, in2[i] \in NewTargets, in2[j] \in NewTargets
                   PROVE  in2[i].target < in2[j].target
        OBVIOUS
      <3>1. i \in DOMAIN in
        BY <1>4
      <3>2. CASE j \in DOMAIN in
        BY <1>4, <2>1, <3>1, <3>2 DEF Following
      <3>3. CASE j = Len(in) + 1
        <4>1. in2[j].target = n
          BY <1>2, <1>4, <3>3
        <4> QED BY <2>3, <3>1, <4>1
      <3> QED BY <1>4, <3>2, <3>3
    <2>5. t <= n /\ next <= n /\ (next # 0 => t < next)
      BY <1>1, <2>1 DEF Following
    <2> QED BY <2>3, <2>4, <2>5 DEF Following
  <1>6. DoneAt(U, out, in2, t, n)
    <2>1. DoneAt(U, out, in, t, top)
      BY DEF OnItsWay
    <2> SUFFICES ASSUME NEW i \in DOMAIN out, out[i] \in Dones
                 PROVE  /\ i = 1 /\ out[i].done <= n /\ (t # 0 => out[i].done < t) /\ U = {}
                        /\ \A j \in DOMAIN in2 : in2[j] \in NewTargets /\ out[i].done < in2[j].target
      BY DEF DoneAt
    <2>2. /\ i = 1 /\ out[i].done <= top /\ (t # 0 => out[i].done < t) /\ U = {}
          /\ \A j \in DOMAIN in : in[j] \in NewTargets /\ out[i].done < in[j].target
      BY <2>1 DEF DoneAt
    <2>3. out[i].done \in Nat
      BY SyncKinds
    <2>4. out[i].done < n
      BY <1>1, <2>2, <2>3
    <2>5. \A j \in DOMAIN in2 : in2[j] \in NewTargets /\ out[i].done < in2[j].target
      BY <1>2, <1>4, <2>2, <2>4
    <2> QED BY <2>2, <2>3, <2>4, <2>5
  <1>7. Once(U, out, in2, t, L)
    <2>1. Once(U, out, in, t, L)
      BY DEF OnItsWay
    <2> QED BY <1>3, <1>4, <2>1 DEF Once
  <1>8. AllAsked(U, out, in2, t, L)
    <2>1. AllAsked(U, out, in, t, L)
      BY DEF OnItsWay
    <2> QED BY <1>4, <2>1 DEF AllAsked
  <1>9. OnItsWay(U, out, in2, t, next, L, n)
    BY <1>1, <1>4, <1>5, <1>6, <1>7, <1>8 DEF OnItsWay, M
  <1> QED BY <1>9 DEF in2, m

(* The client takes a request.                                             *)
LEMMA RequestPolled ==
    ASSUME NEW U, NEW out, NEW in, NEW t, NEW next, NEW L, NEW top,
           OnItsWay(U, out, in, t, next, L, top), out # <<>>, Head(out) \in AskedFor(t, L)
    PROVE  /\ OnItsWay(U \cup {Head(out)}, Tail(out), in, t, next, L, top)
           /\ \A r \in U : r.prefix # Head(out).prefix /\ r.target = Head(out).target
  <1> DEFINE m == Head(out)
             out2 == Tail(out)
             U2 == U \cup {m}
             M == AskedFor(t, L) \cup Dones
  <1>1. /\ t \in Nat /\ next \in Nat /\ top \in Nat /\ L \subseteq State!Prefix
        /\ U \subseteq AskedFor(t, L) /\ out \in Seq(M) /\ in \in Seq(NewTargets \cup Pieces(t, L))
        /\ t = 0 => next = 0 /\ L = {}
    BY DEF OnItsWay
  <1> HIDE DEF M
  <1>2. /\ m = out[1] /\ 1 \in DOMAIN out /\ out2 \in Seq(M)
        /\ \A i \in DOMAIN out2 : i \in Nat \ {0} /\ i + 1 \in DOMAIN out /\ out2[i] = out[i + 1]
        /\ \A i \in DOMAIN out : i \in Nat \ {0} /\ (i # 1 => i - 1 \in DOMAIN out2 /\ out2[i - 1] = out[i])
    BY <1>1, TailIs
  <1>3. m \in AskedFor(t, L) /\ m \notin Dones
    BY SyncKinds
  <1>4. Once(U, out, in, t, L) /\ AllAsked(U, out, in, t, L) /\ DoneAt(U, out, in, t, top) /\ Following(in, t, next, top)
    BY DEF OnItsWay
  <1> HIDE DEF m, out2
  <1>5. DoneAt(U2, out2, in, t, top)
    <2>1. \A i \in DOMAIN out2 : out2[i] \notin Dones
      BY <1>2, <1>4 DEF DoneAt
    <2> QED BY <2>1 DEF DoneAt
  <1>6. Once(U2, out2, in, t, L)
    <2>1. \A r, s \in U2 : r.prefix = s.prefix => r = s
      BY <1>2, <1>3, <1>4 DEF Once
    <2>2. \A i, j \in DOMAIN out2 : out2[i] \in AskedFor(t, L) /\ out2[j] \in AskedFor(t, L) /\ out2[i].prefix = out2[j].prefix => i = j
      <3> SUFFICES ASSUME NEW i \in DOMAIN out2, NEW j \in DOMAIN out2, out2[i] \in AskedFor(t, L), out2[j] \in AskedFor(t, L),
                          out2[i].prefix = out2[j].prefix
                   PROVE  i = j
        OBVIOUS
      <3>1. i + 1 = j + 1
        BY <1>2, <1>4 DEF Once
      <3> QED BY <1>2, <3>1
    <2>3. \A i \in DOMAIN out2, r \in U2 : out2[i] \in AskedFor(t, L) => out2[i].prefix # r.prefix
      <3> SUFFICES ASSUME NEW i \in DOMAIN out2, NEW r \in U2, out2[i] \in AskedFor(t, L), out2[i].prefix = r.prefix
                   PROVE  FALSE
        OBVIOUS
      <3>1. i + 1 \in DOMAIN out /\ out[i + 1] \in AskedFor(t, L) /\ out[i + 1].prefix = r.prefix /\ i \in Nat \ {0}
        BY <1>2
      <3>2. CASE r \in U
        BY <1>4, <3>1, <3>2 DEF Once
      <3>3. CASE r = m
        <4>1. i + 1 = 1
          BY <1>2, <1>3, <1>4, <3>1, <3>3 DEF Once
        <4> QED BY <3>1, <4>1
      <3> QED BY <3>2, <3>3
    <2>4. ASSUME NEW j \in DOMAIN in, in[j] \in LastPieces(t, L)
          PROVE  /\ \A i \in DOMAIN in : in[i] \in Pieces(t, L) /\ in[i].response.prefix = in[j].response.prefix => i <= j
                 /\ \A r \in U2 : r.prefix # in[j].response.prefix
                 /\ \A i \in DOMAIN out2 : out2[i] \in AskedFor(t, L) => out2[i].prefix # in[j].response.prefix
      BY <1>2, <1>3, <1>4, <2>4 DEF Once
    <2> QED BY <2>1, <2>2, <2>3, <2>4 DEF Once
  <1>7. AllAsked(U2, out2, in, t, L)
    <2> SUFFICES ASSUME NEW p \in L
                 PROVE  \/ \E r \in U2 : r.prefix = p
                        \/ \E i \in DOMAIN out2 : out2[i] \in AskedFor(t, L) /\ out2[i].prefix = p
                        \/ \E j \in DOMAIN in : in[j] \in LastPieces(t, L) /\ in[j].response.prefix = p
      BY DEF AllAsked
    <2>1. ASSUME NEW i \in DOMAIN out, out[i] \in AskedFor(t, L) /\ out[i].prefix = p
          PROVE  (\E r \in U2 : r.prefix = p) \/ \E k \in DOMAIN out2 : out2[k] \in AskedFor(t, L) /\ out2[k].prefix = p
      <3>1. CASE i = 1
        BY <1>2, <2>1, <3>1
      <3>2. CASE i # 1
        BY <1>2, <2>1, <3>2
      <3> QED BY <3>1, <3>2
    <2> QED BY <1>4, <2>1 DEF AllAsked
  <1>8. OnItsWay(U2, out2, in, t, next, L, top)
    BY <1>1, <1>2, <1>3, <1>4, <1>5, <1>6, <1>7 DEF OnItsWay, M
  <1>9. \A r \in U : r.prefix # m.prefix /\ r.target = m.target
    <2>1. \A r \in U : r.target = t /\ m.target = t
      BY <1>1, <1>3, SyncKinds
    <2> QED BY <1>2, <1>3, <1>4, <2>1 DEF Once
  <1> QED BY <1>8, <1>9 DEF m, out2

(* The client takes a DoneSync.                                            *)
LEMMA DonePolled ==
    ASSUME NEW U, NEW out, NEW in, NEW t, NEW next, NEW L, NEW top,
           OnItsWay(U, out, in, t, next, L, top), out # <<>>, Head(out) \in Dones
    PROVE  /\ OnItsWay(U, Tail(out), in, t, next, L, top)
           /\ U = {} /\ Head(out).done \in Nat /\ Head(out).done <= top
           /\ Head(out).done = top => t = 0 /\ in = <<>>
  <1> DEFINE m == Head(out)
             out2 == Tail(out)
             M == AskedFor(t, L) \cup Dones
  <1>1. /\ t \in Nat /\ next \in Nat /\ top \in Nat /\ L \subseteq State!Prefix
        /\ U \subseteq AskedFor(t, L) /\ out \in Seq(M) /\ in \in Seq(NewTargets \cup Pieces(t, L))
        /\ t = 0 => next = 0 /\ L = {}
    BY DEF OnItsWay
  <1> HIDE DEF M
  <1>2. /\ m = out[1] /\ 1 \in DOMAIN out /\ out2 \in Seq(M)
        /\ \A i \in DOMAIN out2 : i \in Nat \ {0} /\ i + 1 \in DOMAIN out /\ out2[i] = out[i + 1]
        /\ \A i \in DOMAIN out : i \in Nat \ {0} /\ (i # 1 => i - 1 \in DOMAIN out2 /\ out2[i - 1] = out[i])
    BY <1>1, TailIs
  <1>3. m \in Dones /\ m \notin AskedFor(t, L) /\ m.done \in Nat
    BY SyncKinds
  <1>4. Once(U, out, in, t, L) /\ AllAsked(U, out, in, t, L) /\ DoneAt(U, out, in, t, top) /\ Following(in, t, next, top)
    BY DEF OnItsWay
  <1> HIDE DEF m, out2
  <1>5. DoneAt(U, out2, in, t, top)
    <2>1. \A i \in DOMAIN out2 : out2[i] \notin Dones
      BY <1>2, <1>4 DEF DoneAt
    <2> QED BY <2>1 DEF DoneAt
  <1>6. Once(U, out2, in, t, L)
    <2>1. \A r, s \in U : r.prefix = s.prefix => r = s
      BY <1>4 DEF Once
    <2>2. \A i, j \in DOMAIN out2 : out2[i] \in AskedFor(t, L) /\ out2[j] \in AskedFor(t, L) /\ out2[i].prefix = out2[j].prefix => i = j
      <3> SUFFICES ASSUME NEW i \in DOMAIN out2, NEW j \in DOMAIN out2, out2[i] \in AskedFor(t, L), out2[j] \in AskedFor(t, L),
                          out2[i].prefix = out2[j].prefix
                   PROVE  i = j
        OBVIOUS
      <3>1. i + 1 = j + 1
        BY <1>2, <1>4 DEF Once
      <3> QED BY <1>2, <3>1
    <2>3. \A i \in DOMAIN out2, r \in U : out2[i] \in AskedFor(t, L) => out2[i].prefix # r.prefix
      BY <1>2, <1>4 DEF Once
    <2>4. ASSUME NEW j \in DOMAIN in, in[j] \in LastPieces(t, L)
          PROVE  /\ \A i \in DOMAIN in : in[i] \in Pieces(t, L) /\ in[i].response.prefix = in[j].response.prefix => i <= j
                 /\ \A r \in U : r.prefix # in[j].response.prefix
                 /\ \A i \in DOMAIN out2 : out2[i] \in AskedFor(t, L) => out2[i].prefix # in[j].response.prefix
      BY <1>2, <1>4, <2>4 DEF Once
    <2> QED BY <2>1, <2>2, <2>3, <2>4 DEF Once
  <1>7. AllAsked(U, out2, in, t, L)
    <2>1. \A i \in DOMAIN out : out[i] \in AskedFor(t, L) => i # 1
      BY <1>2, <1>3
    <2> QED BY <1>2, <1>4, <2>1 DEF AllAsked
  <1>8. OnItsWay(U, out2, in, t, next, L, top)
    BY <1>1, <1>2, <1>4, <1>5, <1>6, <1>7 DEF OnItsWay, M
  <1>9. U = {} /\ m.done <= top /\ (t # 0 => m.done < t) /\ \A j \in DOMAIN in : in[j] \in NewTargets /\ m.done < in[j].target
    BY <1>2, <1>3, <1>4 DEF DoneAt
  <1>10. m.done = top => t = 0 /\ in = <<>>
    <2> SUFFICES ASSUME m.done = top PROVE t = 0 /\ in = <<>>
      OBVIOUS
    <2>1. t = 0
      BY <1>1, <1>3, <1>4, <1>9 DEF Following
    <2>2. DOMAIN in = {}
      <3> SUFFICES ASSUME NEW j \in DOMAIN in PROVE FALSE
        OBVIOUS
      <3>1. in[j] \in NewTargets /\ m.done < in[j].target /\ in[j].target <= top
        BY <1>4, <1>9 DEF Following
      <3>2. in[j].target \in Nat
        BY <3>1, SyncKinds
      <3> QED BY <1>1, <1>3, <3>1, <3>2
    <2>3. in = <<>>
      BY <1>1, <2>2
    <2> QED BY <2>1, <2>3
  <1> QED BY <1>3, <1>8, <1>9, <1>10 DEF m, out2

(* A request is asked again, perhaps of another version.                   *)
LEMMA RequestExchanged ==
    ASSUME NEW U, NEW out, NEW in, NEW t, NEW next, NEW L, NEW top,
           OnItsWay(U, out, in, t, next, L, top), NEW r \in U, NEW q \in AskedFor(t, L), q.prefix = r.prefix
    PROVE  OnItsWay((U \ {r}) \cup {q}, out, in, t, next, L, top)
  <1> DEFINE U2 == (U \ {r}) \cup {q}
  <1>1. \A x \in U2 : x \in AskedFor(t, L) /\ \E y \in U : y.prefix = x.prefix
    BY DEF OnItsWay
  <1>2. \A y \in U : \E x \in U2 : x.prefix = y.prefix
    OBVIOUS
  <1>3. \A x, y \in U2 : x.prefix = y.prefix => x = y
    BY DEF OnItsWay, Once
  <1>4. U # {}
    OBVIOUS
  <1> HIDE DEF U2
  <1>5. Once(U2, out, in, t, L)
    BY <1>1, <1>3 DEF OnItsWay, Once
  <1>6. AllAsked(U2, out, in, t, L)
    BY <1>2 DEF OnItsWay, AllAsked
  <1>7. DoneAt(U2, out, in, t, top)
    BY <1>4 DEF OnItsWay, DoneAt
  <1>8. OnItsWay(U2, out, in, t, next, L, top)
    BY <1>1, <1>5, <1>6, <1>7 DEF OnItsWay
  <1> QED BY <1>8 DEF U2

(* Responses are handed to the thread; the last one ends the request.      *)
LEMMA PiecesReceived ==
    ASSUME State!ConstantsOk, NEW U, NEW out, NEW in, NEW t, NEW next, NEW L, NEW top,
           OnItsWay(U, out, in, t, next, L, top), NEW r \in U, NEW add \in Seq(Pieces(t, L)),
           \A i \in DOMAIN add : add[i].response = r /\ (add[i].last => i = Len(add)),
           NEW U2, \/ U2 = U /\ \A i \in DOMAIN add : ~add[i].last
                   \/ U2 = U \ {r} /\ \E i \in DOMAIN add : add[i].last
    PROVE  OnItsWay(U2, out, in \o add, t, next, L, top)
  <1> DEFINE in2 == in \o add
             M == NewTargets \cup Pieces(t, L)
  <1>1. /\ t \in Nat /\ next \in Nat /\ top \in Nat /\ L \subseteq State!Prefix
        /\ U \subseteq AskedFor(t, L) /\ out \in Seq(AskedFor(t, L) \cup Dones) /\ in \in Seq(M)
        /\ t = 0 => next = 0 /\ L = {}
    BY DEF OnItsWay
  <1>2. add \in Seq(M) /\ \A i \in DOMAIN add : add[i] \in Pieces(t, L) /\ i <= Len(add) /\ i \in Nat /\ Len(add) \in Nat
    OBVIOUS
  <1> HIDE DEF M
  <1>3. /\ in2 \in Seq(M) /\ Len(in) \in Nat
        /\ \A i \in DOMAIN in : i \in 1..Len(in) /\ i \in DOMAIN in2 /\ in2[i] = in[i]
        /\ \A i \in DOMAIN add : i \in Nat \ {0} /\ Len(in) + i \in DOMAIN in2 /\ in2[Len(in) + i] = add[i]
        /\ \A i \in DOMAIN in2 : i \in Nat /\ (i \in DOMAIN in \/ (i > Len(in) /\ i - Len(in) \in DOMAIN add /\ in2[i] = add[i - Len(in)]))
    BY <1>1, <1>2, ConcatIs
  <1>4. \A i \in DOMAIN add : add[i] \notin NewTargets /\ (add[i] \in LastPieces(t, L) <=> add[i].last)
    BY <1>2, SyncKinds
  <1>5. Once(U, out, in, t, L) /\ AllAsked(U, out, in, t, L) /\ DoneAt(U, out, in, t, top) /\ Following(in, t, next, top)
    BY DEF OnItsWay
  <1> HIDE DEF in2
  <1>6. Following(in2, t, next, top)
    <2>1. \A i \in DOMAIN in2 : in2[i] \in NewTargets => i \in DOMAIN in /\ in2[i] = in[i]
      BY <1>3, <1>4
    <2> QED BY <1>5, <2>1 DEF Following
  <1>7. DoneAt(U2, out, in2, t, top)
    <2>1. \A i \in DOMAIN out : out[i] \notin Dones
      BY <1>5 DEF DoneAt
    <2> QED BY <2>1 DEF DoneAt
  <1>8. U2 \subseteq U
    OBVIOUS
  <1>9. Once(U2, out, in2, t, L)
    <2>1. ASSUME NEW j \in DOMAIN in2, in2[j] \in LastPieces(t, L)
          PROVE  /\ \A i \in DOMAIN in2 : in2[i] \in Pieces(t, L) /\ in2[i].response.prefix = in2[j].response.prefix => i <= j
                 /\ \A x \in U2 : x.prefix # in2[j].response.prefix
                 /\ \A i \in DOMAIN out : out[i] \in AskedFor(t, L) => out[i].prefix # in2[j].response.prefix
      <3>1. CASE j \in DOMAIN in
        <4>1. in2[j] = in[j] /\ in[j].response.prefix # r.prefix
          BY <1>3, <1>5, <2>1, <3>1 DEF Once
        <4>2. \A i \in DOMAIN in2 : in2[i].response.prefix = in2[j].response.prefix => i \in DOMAIN in /\ in2[i] = in[i]
          BY <1>3, <4>1
        <4> QED BY <1>5, <1>8, <2>1, <3>1, <4>1, <4>2 DEF Once
      <3>2. CASE j \notin DOMAIN in
        <4> DEFINE k == j - Len(in)
        <4>1. j > Len(in) /\ k \in DOMAIN add /\ in2[j] = add[k] /\ j \in Nat
          BY <1>3, <3>2
        <4>2. add[k].last /\ add[k].response = r
          BY <1>4, <2>1, <4>1
        <4>3. k = Len(add)
          BY <4>1, <4>2
        <4>4. U2 = U \ {r}
          BY <4>1, <4>2
        <4>5. \A i \in DOMAIN in2 : i <= j
          <5> SUFFICES ASSUME NEW i \in DOMAIN in2 PROVE i <= j
            OBVIOUS
          <5>1. CASE i \in DOMAIN in
            BY <1>3, <4>1, <5>1
          <5>2. CASE i \notin DOMAIN in
            <6>1. i - Len(in) \in DOMAIN add /\ i \in Nat
              BY <1>3, <5>2
            <6>2. i - Len(in) <= Len(add) /\ Len(add) = j - Len(in) /\ Len(add) \in Nat
              BY <1>2, <4>3, <6>1
            <6> QED BY <1>3, <4>1, <6>1, <6>2
          <5> QED BY <5>1, <5>2
        <4>6. \A x \in U2 : x.prefix # r.prefix
          BY <1>5, <4>4 DEF Once
        <4>7. \A i \in DOMAIN out : out[i] \in AskedFor(t, L) => out[i].prefix # r.prefix
          BY <1>5 DEF Once
        <4> QED BY <4>1, <4>2, <4>5, <4>6, <4>7
      <3> QED BY <3>1, <3>2
    <2> QED BY <1>5, <1>8, <2>1 DEF Once
  <1>10. AllAsked(U2, out, in2, t, L)
    <2> SUFFICES ASSUME NEW p \in L
                 PROVE  \/ \E x \in U2 : x.prefix = p
                        \/ \E i \in DOMAIN out : out[i] \in AskedFor(t, L) /\ out[i].prefix = p
                        \/ \E j \in DOMAIN in2 : in2[j] \in LastPieces(t, L) /\ in2[j].response.prefix = p
      BY DEF AllAsked
    <2>1. CASE \E x \in U : x.prefix = p
      <3>1. PICK x \in U : x.prefix = p
        BY <2>1
      <3>2. CASE x \in U2
        BY <3>1, <3>2
      <3>3. CASE x \notin U2
        <4>1. x = r /\ \E i \in DOMAIN add : add[i].last
          BY <3>3
        <4>2. PICK i \in DOMAIN add : add[i].last
          BY <4>1
        <4>3. Len(in) + i \in DOMAIN in2 /\ in2[Len(in) + i] \in LastPieces(t, L) /\ in2[Len(in) + i].response = r
          BY <1>3, <1>4, <4>2
        <4> QED BY <3>1, <4>1, <4>3
      <3> QED BY <3>2, <3>3
    <2>2. CASE \E j \in DOMAIN in : in[j] \in LastPieces(t, L) /\ in[j].response.prefix = p
      BY <1>3, <2>2
    <2> QED BY <1>5, <2>1, <2>2 DEF AllAsked
  <1>11. OnItsWay(U2, out, in2, t, next, L, top)
    BY <1>1, <1>3, <1>6, <1>7, <1>8, <1>9, <1>10 DEF OnItsWay, M
  <1> QED BY <1>11 DEF in2

(* The thread takes a target: the ones that follow are greater.            *)
LEMMA TargetTaken ==
    ASSUME State!ConstantsOk, NEW U, NEW out, NEW in, NEW t, NEW next, NEW L, NEW top,
           OnItsWay(U, out, in, t, next, L, top), in # <<>>, Head(in) \in NewTargets
    PROVE  /\ OnItsWay(U, out, Tail(in), t, next, L, top)
           /\ Head(in).target \in Nat /\ Head(in).target > t /\ Head(in).target > next /\ Head(in).target <= top
           /\ \A j \in DOMAIN Tail(in) : Tail(in)[j] \in NewTargets => Head(in).target < Tail(in)[j].target
           /\ \A i \in DOMAIN out : out[i] \in Dones => out[i].done < Head(in).target
  <1> DEFINE m == Head(in)
             in2 == Tail(in)
             M == NewTargets \cup Pieces(t, L)
  <1>1. /\ t \in Nat /\ next \in Nat /\ top \in Nat /\ L \subseteq State!Prefix
        /\ U \subseteq AskedFor(t, L) /\ out \in Seq(AskedFor(t, L) \cup Dones) /\ in \in Seq(M)
        /\ t = 0 => next = 0 /\ L = {}
    BY DEF OnItsWay
  <1> HIDE DEF M
  <1>2. /\ m = in[1] /\ 1 \in DOMAIN in /\ in2 \in Seq(M)
        /\ \A i \in DOMAIN in2 : i \in Nat \ {0} /\ i + 1 \in DOMAIN in /\ in2[i] = in[i + 1]
        /\ \A i \in DOMAIN in : i \in Nat \ {0} /\ (i # 1 => i - 1 \in DOMAIN in2 /\ in2[i - 1] = in[i])
    BY <1>1, TailIs
  <1>3. m \in NewTargets /\ m.target \in Nat /\ m \notin Pieces(t, L) /\ m \notin LastPieces(t, L)
    BY SyncKinds DEF State!ConstantsOk
  <1>4. Once(U, out, in, t, L) /\ AllAsked(U, out, in, t, L) /\ DoneAt(U, out, in, t, top) /\ Following(in, t, next, top)
    BY DEF OnItsWay
  <1> HIDE DEF m, in2
  <1>5. Following(in2, t, next, top)
    <2>1. \A i, j \in DOMAIN in2 : i < j => i + 1 < j + 1
      BY <1>2
    <2> QED BY <1>2, <1>4, <2>1 DEF Following
  <1>6. DoneAt(U, out, in2, t, top)
    BY <1>2, <1>4 DEF DoneAt
  <1>7. Once(U, out, in2, t, L)
    <2>1. ASSUME NEW j \in DOMAIN in2, in2[j] \in LastPieces(t, L)
          PROVE  /\ \A i \in DOMAIN in2 : in2[i] \in Pieces(t, L) /\ in2[i].response.prefix = in2[j].response.prefix => i <= j
                 /\ \A r \in U : r.prefix # in2[j].response.prefix
                 /\ \A i \in DOMAIN out : out[i] \in AskedFor(t, L) => out[i].prefix # in2[j].response.prefix
      <3>1. j + 1 \in DOMAIN in /\ in[j + 1] = in2[j] /\ j \in Nat
        BY <1>2
      <3>2. \A i \in DOMAIN in2 : in2[i] \in Pieces(t, L) /\ in2[i].response.prefix = in2[j].response.prefix => i + 1 <= j + 1
        BY <1>2, <1>4, <2>1, <3>1 DEF Once
      <3>3. \A i \in DOMAIN in2 : i + 1 <= j + 1 => i <= j
        BY <1>2, <3>1
      <3>4. (\A r \in U : r.prefix # in2[j].response.prefix) /\ \A i \in DOMAIN out : out[i] \in AskedFor(t, L) => out[i].prefix # in2[j].response.prefix
        BY <1>4, <2>1, <3>1 DEF Once
      <3> QED BY <3>2, <3>3, <3>4
    <2> QED BY <1>4, <2>1 DEF Once
  <1>8. AllAsked(U, out, in2, t, L)
    <2>1. \A i \in DOMAIN in : in[i] \in LastPieces(t, L) => i # 1
      BY <1>2, <1>3
    <2> QED BY <1>2, <1>4, <2>1 DEF AllAsked
  <1>9. OnItsWay(U, out, in2, t, next, L, top)
    BY <1>1, <1>2, <1>4, <1>5, <1>6, <1>7, <1>8 DEF OnItsWay, M
  <1>10. m.target > t /\ m.target > next /\ m.target <= top
    BY <1>2, <1>3, <1>4 DEF Following
  <1>11. \A j \in DOMAIN in2 : in2[j] \in NewTargets => m.target < in2[j].target
    <2>1. \A j \in DOMAIN in2 : 1 < j + 1
      BY <1>2
    <2> QED BY <1>2, <1>3, <1>4, <2>1 DEF Following
  <1>12. \A i \in DOMAIN out : out[i] \in Dones => out[i].done < m.target
    BY <1>2, <1>4 DEF DoneAt
  <1> QED BY <1>3, <1>9, <1>10, <1>11, <1>12 DEF m, in2

(* The thread keeps a target for later.                                    *)
LEMMA TargetKept ==
    ASSUME NEW U, NEW out, NEW in, NEW t, NEW next, NEW L, NEW top,
           OnItsWay(U, out, in, t, next, L, top), t # 0, NEW n \in Nat, n > t, n <= top,
           \A j \in DOMAIN in : in[j] \in NewTargets => n < in[j].target
    PROVE  OnItsWay(U, out, in, t, n, L, top)
  <1>1. Following(in, t, n, top)
    <2>1. Following(in, t, next, top)
      BY DEF OnItsWay
    <2>2. \A j \in DOMAIN in : in[j] \in NewTargets => in[j].target > n
      <3> SUFFICES ASSUME NEW j \in DOMAIN in, in[j] \in NewTargets PROVE in[j].target > n
        OBVIOUS
      <3>1. in[j].target \in Nat /\ n < in[j].target
        BY SyncKinds
      <3> QED BY <3>1
    <2>3. t \in Nat
      BY DEF OnItsWay
    <2>4. t < n
      BY <2>3
    <2> QED BY <2>1, <2>2, <2>4 DEF Following
  <1> QED BY <1>1 DEF OnItsWay

(* The thread takes a response.                                            *)
LEMMA PieceTaken ==
    ASSUME State!ConstantsOk, NEW U, NEW out, NEW in, NEW t, NEW next, NEW L, NEW top,
           OnItsWay(U, out, in, t, next, L, top), in # <<>>, Head(in) \in Pieces(t, L),
           NEW left, left = IF Head(in).last THEN L \ {Head(in).response.prefix} ELSE L
    PROVE  /\ OnItsWay(U, out, Tail(in), t, next, left, top)
           /\ t # 0 /\ \A i \in DOMAIN out : out[i] \notin Dones
  <1> DEFINE m == Head(in)
             p == m.response.prefix
             in2 == Tail(in)
             M == NewTargets \cup Pieces(t, L)
  <1>1. /\ t \in Nat /\ next \in Nat /\ top \in Nat /\ L \subseteq State!Prefix
        /\ U \subseteq AskedFor(t, L) /\ out \in Seq(AskedFor(t, L) \cup Dones) /\ in \in Seq(M)
        /\ t = 0 => next = 0 /\ L = {}
    BY DEF OnItsWay
  <1>2. /\ m = in[1] /\ 1 \in DOMAIN in /\ in2 \in Seq(M)
        /\ \A i \in DOMAIN in2 : i \in Nat \ {0} /\ i + 1 \in DOMAIN in /\ in2[i] = in[i + 1]
        /\ \A i \in DOMAIN in : i \in Nat \ {0} /\ (i # 1 => i - 1 \in DOMAIN in2 /\ in2[i - 1] = in[i])
    <2> HIDE DEF M
    <2> QED BY <1>1, TailIs
  <1>3. /\ m \in Pieces(t, L) /\ m \notin NewTargets /\ m.response \in AskedFor(t, L) /\ p \in L
        /\ m \in LastPieces(t, L) <=> m.last
    BY SyncKinds
  <1>4. Once(U, out, in, t, L) /\ AllAsked(U, out, in, t, L) /\ DoneAt(U, out, in, t, top) /\ Following(in, t, next, top)
    BY DEF OnItsWay
  <1>5. left = IF m.last THEN L \ {p} ELSE L
    OBVIOUS
  <1> HIDE DEF m, in2, p
  <1>6. t # 0 /\ \A i \in DOMAIN out : out[i] \notin Dones
    BY <1>1, <1>2, <1>3, <1>4 DEF DoneAt
  <1>7. /\ left \subseteq L /\ AskedFor(t, left) = {q \in AskedFor(t, L) : q.prefix \in left}
        /\ Pieces(t, left) = {x \in Pieces(t, L) : x.response.prefix \in left}
        /\ LastPieces(t, left) = {x \in LastPieces(t, L) : x.response.prefix \in left}
    <2>1. left \subseteq L
      BY <1>5
    <2> QED BY <2>1 DEF AskedFor, Pieces, LastPieces
  <1>8. /\ \A r \in U : r.prefix \in left
        /\ \A i \in DOMAIN out : out[i] \in AskedFor(t, left)
        /\ \A i \in DOMAIN in2 : in2[i] \in Pieces(t, L) => in2[i] \in Pieces(t, left)
        /\ \A i \in DOMAIN in2 : in2[i] \in LastPieces(t, L) => in2[i] \in LastPieces(t, left)
    <2>0. /\ \A r \in U : r.prefix \in L
          /\ \A i \in DOMAIN out : out[i] \in AskedFor(t, L) /\ out[i].prefix \in L
          /\ \A i \in DOMAIN in2 : in2[i] \in Pieces(t, L) => in2[i].response.prefix \in L
          /\ LastPieces(t, L) \subseteq Pieces(t, L)
      <3>1. \A i \in DOMAIN out : out[i] \in AskedFor(t, L)
        BY <1>1, <1>6, SeqOver
      <3>2. LastPieces(t, L) \subseteq Pieces(t, L)
        BY SyncKinds DEF State!ConstantsOk
      <3>3. \A r \in U : r.prefix \in L
        BY <1>1, SyncKinds
      <3>4. \A i \in DOMAIN out : out[i].prefix \in L
        BY <3>1, SyncKinds
      <3>5. \A i \in DOMAIN in2 : in2[i] \in Pieces(t, L) => in2[i].response.prefix \in L
        BY SyncKinds
      <3> QED BY <3>1, <3>2, <3>3, <3>4, <3>5
    <2>1. CASE m.last
      <3>1. in[1] \in LastPieces(t, L) /\ in[1].response.prefix = p
        BY <1>2, <1>3, <2>1 DEF p
      <3>2. /\ \A i \in DOMAIN in : in[i] \in Pieces(t, L) /\ in[i].response.prefix = p => i <= 1
            /\ \A r \in U : r.prefix # p
            /\ \A i \in DOMAIN out : out[i] \in AskedFor(t, L) => out[i].prefix # p
        BY <1>2, <1>4, <3>1 DEF Once
      <3>3. \A i \in DOMAIN in2 : in2[i] \in Pieces(t, L) => in2[i].response.prefix # p
        BY <1>2, <3>2
      <3>4. left = L \ {p}
        BY <1>5, <2>1
      <3> QED BY <1>7, <2>0, <3>2, <3>3, <3>4
    <2>2. CASE ~m.last
      <3>1. left = L
        BY <1>5, <2>2
      <3> QED BY <2>0, <3>1
    <2> QED BY <2>1, <2>2
  <1>9. /\ U \subseteq AskedFor(t, left) /\ out \in Seq(AskedFor(t, left) \cup Dones) /\ in2 \in Seq(NewTargets \cup Pieces(t, left))
    <2>1. U \subseteq AskedFor(t, left)
      BY <1>1, <1>7, <1>8
    <2>2. out \in Seq(AskedFor(t, left) \cup Dones)
      <3>1. \A i \in DOMAIN out : out[i] \in AskedFor(t, left) \cup Dones
        BY <1>8
      <3> QED BY <1>1, <3>1, SeqOver
    <2>3. in2 \in Seq(NewTargets \cup Pieces(t, left))
      <3>1. \A i \in DOMAIN in2 : in2[i] \in M
        BY <1>2, SeqOver
      <3>2. \A i \in DOMAIN in2 : in2[i] \in NewTargets \cup Pieces(t, left)
        BY <1>8, <3>1
      <3> QED BY <1>2, <3>2, SeqOver
    <2> QED BY <2>1, <2>2, <2>3
  <1>10. Following(in2, t, next, top)
    <2>1. \A i, j \in DOMAIN in2 : i < j => i + 1 < j + 1
      BY <1>2
    <2> QED BY <1>2, <1>4, <2>1 DEF Following
  <1>11. DoneAt(U, out, in2, t, top)
    BY <1>6 DEF DoneAt
  <1>12. Once(U, out, in2, t, left)
    <2>1. ASSUME NEW j \in DOMAIN in2, in2[j] \in LastPieces(t, left)
          PROVE  /\ \A i \in DOMAIN in2 : in2[i] \in Pieces(t, left) /\ in2[i].response.prefix = in2[j].response.prefix => i <= j
                 /\ \A r \in U : r.prefix # in2[j].response.prefix
                 /\ \A i \in DOMAIN out : out[i] \in AskedFor(t, left) => out[i].prefix # in2[j].response.prefix
      <3>1. j + 1 \in DOMAIN in /\ in[j + 1] = in2[j] /\ j \in Nat /\ in2[j] \in LastPieces(t, L)
        BY <1>2, <1>7, <2>1
      <3>2. \A i \in DOMAIN in2 : in2[i] \in Pieces(t, left) /\ in2[i].response.prefix = in2[j].response.prefix => i + 1 <= j + 1
        BY <1>2, <1>4, <1>7, <3>1 DEF Once
      <3>3. \A i \in DOMAIN in2 : i + 1 <= j + 1 => i <= j
        BY <1>2, <3>1
      <3>4. (\A r \in U : r.prefix # in2[j].response.prefix) /\ \A i \in DOMAIN out : out[i] \in AskedFor(t, left) => out[i].prefix # in2[j].response.prefix
        BY <1>4, <1>7, <3>1 DEF Once
      <3> QED BY <3>2, <3>3, <3>4
    <2> QED BY <1>4, <1>7, <2>1 DEF Once
  <1>13. AllAsked(U, out, in2, t, left)
    <2> SUFFICES ASSUME NEW q \in left
                 PROVE  \/ \E r \in U : r.prefix = q
                        \/ \E i \in DOMAIN out : out[i] \in AskedFor(t, left) /\ out[i].prefix = q
                        \/ \E j \in DOMAIN in2 : in2[j] \in LastPieces(t, left) /\ in2[j].response.prefix = q
      BY DEF AllAsked
    <2>1. \/ \E r \in U : r.prefix = q
          \/ \E i \in DOMAIN out : out[i] \in AskedFor(t, L) /\ out[i].prefix = q
          \/ \E j \in DOMAIN in : in[j] \in LastPieces(t, L) /\ in[j].response.prefix = q
      BY <1>4, <1>7 DEF AllAsked
    <2>2. ASSUME NEW j \in DOMAIN in, in[j] \in LastPieces(t, L), in[j].response.prefix = q
          PROVE  \E k \in DOMAIN in2 : in2[k] \in LastPieces(t, left) /\ in2[k].response.prefix = q
      <3>1. j # 1
        BY <1>2, <1>3, <1>5, <2>2 DEF p
      <3> QED BY <1>2, <1>7, <2>2, <3>1
    <2> QED BY <1>8, <2>1, <2>2
  <1>14. OnItsWay(U, out, in2, t, next, left, top)
    BY <1>1, <1>6, <1>7, <1>9, <1>10, <1>11, <1>12, <1>13 DEF OnItsWay
  <1> QED BY <1>6, <1>14 DEF in2

(* Once no prefix is left nothing is asked for and no response is waiting. *)
LEMMA NothingLeft ==
    ASSUME State!ConstantsOk, NEW U, NEW out, NEW in, NEW t, NEW next, NEW top, OnItsWay(U, out, in, t, next, {}, top)
    PROVE  /\ U = {} /\ out \in Seq(Dones) /\ in \in Seq(NewTargets)
           /\ \A i \in DOMAIN out : out[i] \in Dones
           /\ \A i \in DOMAIN in : in[i] \in NewTargets
  <1>1. AskedFor(t, {}) = {}
    BY DEF AskedFor
  <1>2. Pieces(t, {}) = {}
    BY <1>1 DEF Pieces
  <1>3. AskedFor(t, {}) \cup Dones = Dones /\ NewTargets \cup Pieces(t, {}) = NewTargets
    BY <1>1, <1>2
  <1>4. U = {} /\ out \in Seq(Dones) /\ in \in Seq(NewTargets)
    BY <1>1, <1>3, Zenon DEF OnItsWay
  <1> QED BY <1>4

(* The thread begins a target.                                             *)
LEMMA TargetBegun ==
    ASSUME State!ConstantsOk, NEW U, NEW out, NEW in, NEW t, NEW next, NEW top, OnItsWay(U, out, in, t, next, {}, top),
           NEW n \in Nat \ {0}, n <= top, \A j \in DOMAIN in : in[j] \in NewTargets => n < in[j].target,
           \A i \in DOMAIN out : out[i] \in Dones => out[i].done < n
    PROVE  OnItsWay(U, out \o [i \in 1..behind.num_prefixes |-> State!Request(i - 1, n)], in, n, 0, State!Prefix, top)
  <1> DEFINE L == State!Prefix
             k == behind.num_prefixes
             new == [i \in 1..k |-> State!Request(i - 1, n)]
             out2 == out \o new
             M == AskedFor(n, L) \cup Dones
  <1>1. U = {} /\ out \in Seq(Dones) /\ in \in Seq(NewTargets) /\ (\A i \in DOMAIN out : out[i] \in Dones) /\ \A i \in DOMAIN in : in[i] \in NewTargets
    BY NothingLeft
  <1>2. k \in Nat /\ L = 0..k - 1
    BY DEF State!ConstantsOk, State!Prefix
  <1>3. \A i \in 1..k : State!Request(i - 1, n) \in AskedFor(n, L) /\ State!Request(i - 1, n).prefix = i - 1
    BY <1>2 DEF AskedFor, State!Request, State!SELF_STATESYNC_VERSION
  <1>4. DOMAIN new = 1..k /\ \A i \in 1..k : new[i] \in AskedFor(n, L) /\ new[i].prefix = i - 1
    BY <1>3
  <1>5. new \in Seq(M) /\ out \in Seq(M)
    <2> HIDE DEF L, k
    <2>1. new \in Seq(AskedFor(n, L))
      BY <1>2, <1>3 DEF k
    <2> HIDE DEF new
    <2> QED BY <1>1, <2>1
  <1> HIDE DEF L, k, new, M
  <1>6. /\ out2 \in Seq(M) /\ Len(out) \in Nat
        /\ \A i \in DOMAIN out : i \in 1..Len(out) /\ i \in DOMAIN out2 /\ out2[i] = out[i]
        /\ \A i \in DOMAIN new : i \in Nat \ {0} /\ Len(out) + i \in DOMAIN out2 /\ out2[Len(out) + i] = new[i]
        /\ \A i \in DOMAIN out2 : i \in Nat /\ (i \in DOMAIN out \/ (i > Len(out) /\ i - Len(out) \in DOMAIN new /\ out2[i] = new[i - Len(out)]))
    BY <1>5, ConcatIs
  <1> HIDE DEF out2
  <1>7. top \in Nat /\ Following(in, t, next, top) /\ DoneAt(U, out, in, t, top)
    BY DEF OnItsWay
  <1>8. \A i \in DOMAIN out2 : out2[i] \in AskedFor(n, L) => i > Len(out) /\ i - Len(out) \in 1..k /\ out2[i].prefix = (i - Len(out)) - 1 /\ i \in Nat
    <2>1. \A i \in DOMAIN out : out2[i] \notin AskedFor(n, L)
      BY <1>1, <1>6, SyncKinds
    <2> QED BY <1>4, <1>6, <2>1
  <1>9. \A i \in DOMAIN out2 : out2[i] \in Dones => i \in DOMAIN out /\ out2[i] = out[i]
    <2>1. \A i \in DOMAIN new : new[i] \notin Dones
      BY <1>4, SyncKinds
    <2> QED BY <1>6, <2>1
  <1>10. Following(in, n, 0, top)
    <2>1. \A i \in DOMAIN in : in[i].target > n /\ in[i].target > 0 /\ in[i].target <= top
      <3> SUFFICES ASSUME NEW i \in DOMAIN in PROVE in[i].target > n /\ in[i].target > 0 /\ in[i].target <= top
        OBVIOUS
      <3>1. in[i].target \in Nat /\ n < in[i].target /\ in[i].target <= top
        BY <1>1, <1>7, SyncKinds DEF Following
      <3> QED BY <3>1
    <2>2. 0 <= top
      BY <1>7
    <2> QED BY <1>7, <2>1, <2>2 DEF Following
  <1>11. DoneAt(U, out2, in, n, top)
    BY <1>1, <1>7, <1>9 DEF DoneAt
  <1>12. \A i \in DOMAIN in : in[i] \notin LastPieces(n, L)
    <2>1. LastPieces(n, L) \subseteq Pieces(n, L) /\ \A m \in NewTargets : m \notin Pieces(n, L)
      BY SyncKinds, Zenon
    <2> QED BY <1>1, <2>1, Zenon
  <1>13. Once(U, out2, in, n, L)
    <2>1. \A i, j \in DOMAIN out2 : out2[i] \in AskedFor(n, L) /\ out2[j] \in AskedFor(n, L) /\ out2[i].prefix = out2[j].prefix => i = j
      <3> SUFFICES ASSUME NEW i \in DOMAIN out2, NEW j \in DOMAIN out2, out2[i] \in AskedFor(n, L), out2[j] \in AskedFor(n, L),
                          out2[i].prefix = out2[j].prefix
                   PROVE  i = j
        OBVIOUS
      <3>1. i \in Nat /\ j \in Nat /\ (i - Len(out)) - 1 = (j - Len(out)) - 1
        BY <1>8
      <3> QED BY <1>6, <3>1
    <2> QED BY <1>1, <1>12, <2>1 DEF Once
  <1>14. AllAsked(U, out2, in, n, L)
    <2> SUFFICES ASSUME NEW p \in L
                 PROVE  \E i \in DOMAIN out2 : out2[i] \in AskedFor(n, L) /\ out2[i].prefix = p
      BY DEF AllAsked
    <2>1. p + 1 \in 1..k /\ (p + 1) - 1 = p
      BY <1>2
    <2>2. new[p + 1] \in AskedFor(n, L) /\ new[p + 1].prefix = p /\ p + 1 \in DOMAIN new
      BY <1>4, <2>1
    <2>3. Len(out) + (p + 1) \in DOMAIN out2 /\ out2[Len(out) + (p + 1)] = new[p + 1]
      BY <1>6, <2>2
    <2> QED BY <2>2, <2>3
  <1>15. in \in Seq(NewTargets \cup Pieces(n, L))
    BY <1>1
  <1>16. OnItsWay(U, out2, in, n, 0, L, top)
    BY <1>1, <1>6, <1>7, <1>10, <1>11, <1>13, <1>14, <1>15 DEF OnItsWay, M, L
  <1> QED BY <1>16 DEF out2, new, L, k

(* The thread is done with a target.                                       *)
LEMMA TargetDone ==
    ASSUME State!ConstantsOk, NEW U, NEW in, NEW t, NEW top, OnItsWay(U, <<>>, in, t, 0, {}, top), t # 0
    PROVE  OnItsWay(U, <<[done |-> t]>>, in, 0, 0, {}, top)
  <1> DEFINE m == [done |-> t]
             out == <<m>>
  <1>1. U = {} /\ in \in Seq(NewTargets) /\ \A i \in DOMAIN in : in[i] \in NewTargets
    BY NothingLeft
  <1>2. t \in Nat /\ top \in Nat /\ Following(in, t, 0, top)
    BY DEF OnItsWay
  <1>3. m \in Dones /\ m.done = t
    BY <1>2 DEF Dones
  <1> HIDE DEF m
  <1>4. DOMAIN out = {1} /\ out[1] = m /\ out \in Seq(AskedFor(0, {}) \cup Dones)
    BY <1>3
  <1> HIDE DEF out
  <1>5. \A i \in DOMAIN in : in[i].target \in Nat /\ in[i].target > t /\ in[i].target <= top
    BY <1>1, <1>2, SyncKinds DEF Following
  <1>6. Following(in, 0, 0, top)
    <2>1. \A i \in DOMAIN in : in[i].target > 0
      BY <1>2, <1>5
    <2>2. 0 <= top
      BY <1>2
    <2> QED BY <1>2, <2>1, <2>2 DEF Following
  <1>7. DoneAt(U, out, in, 0, top)
    <2>1. t <= top
      BY <1>2 DEF Following
    <2>2. \A j \in DOMAIN in : t < in[j].target
      BY <1>2, <1>5
    <2> QED BY <1>1, <1>3, <1>4, <2>1, <2>2 DEF DoneAt
  <1>8. \A x : x \notin AskedFor(0, {}) /\ x \notin LastPieces(0, {})
    BY DEF AskedFor, LastPieces
  <1>9. Once(U, out, in, 0, {}) /\ AllAsked(U, out, in, 0, {})
    BY <1>1, <1>8 DEF Once, AllAsked
  <1>10. in \in Seq(NewTargets \cup Pieces(0, {}))
    BY <1>1
  <1>11. OnItsWay(U, out, in, 0, 0, {}, top)
    BY <1>1, <1>2, <1>4, <1>6, <1>7, <1>9, <1>10 DEF OnItsWay
  <1> QED BY <1>11 DEF out, m

-----------------------------------------------------------------------------
LEMMA EmptyMap == ASSUME NEW f, f = [x \in DOMAIN f |-> f[x]], DOMAIN f = {} PROVE f = <<>>
  OBVIOUS

LEMMA WithoutIs ==
    ASSUME NEW f, NEW S
    PROVE  /\ DOMAIN State!Without(f, S) = DOMAIN f \ S /\ \A x \in DOMAIN f \ S : State!Without(f, S)[x] = f[x]
           /\ State!Without(f, S) = [x \in DOMAIN State!Without(f, S) |-> State!Without(f, S)[x]]
           /\ Kept(State!Without(f, S)) \subseteq Kept(f)
  <1>1. /\ DOMAIN State!Without(f, S) = DOMAIN f \ S /\ \A x \in DOMAIN f \ S : State!Without(f, S)[x] = f[x]
        /\ State!Without(f, S) = [x \in DOMAIN State!Without(f, S) |-> State!Without(f, S)[x]]
    BY DEF State!Without, State!Restrict
  <1>2. Kept(State!Without(f, S)) \subseteq Kept(f)
    BY <1>1 DEF Kept
  <1> QED BY <1>1, <1>2

LEMMA PutIs ==
    ASSUME NEW f, NEW k, NEW v
    PROVE  /\ DOMAIN State!Put(f, k, v) = DOMAIN f \cup {k} /\ \A x \in DOMAIN f \cup {k} : State!Put(f, k, v)[x] = IF x = k THEN v ELSE f[x]
           /\ State!Put(f, k, v) = [x \in DOMAIN State!Put(f, k, v) |-> State!Put(f, k, v)[x]]
           /\ Kept(State!Put(f, k, v)) \subseteq Kept(f) \cup v.responses
  <1>1. /\ DOMAIN State!Put(f, k, v) = DOMAIN f \cup {k} /\ \A x \in DOMAIN f \cup {k} : State!Put(f, k, v)[x] = IF x = k THEN v ELSE f[x]
        /\ State!Put(f, k, v) = [x \in DOMAIN State!Put(f, k, v) |-> State!Put(f, k, v)[x]]
    BY DEF State!Put
  <1>2. Kept(State!Put(f, k, v)) \subseteq Kept(f) \cup v.responses
    BY <1>1 DEF Kept
  <1> QED BY <1>1, <1>2

LEMMA AnswersKept ==
    ASSUME NEW f, NEW f2, NEW sent, NEW sent2, NEW n, AnswersOk(f, sent, n), sent2 \subseteq sent,
           Kept(f2) \subseteq Kept(f) \cup (sent \ sent2)
    PROVE  AnswersOk(f2, sent2, n)
  BY DEF AnswersOk

LEMMA SyncNumbers == State!ConstantsOk => behind.num_prefixes \in Nat /\ behind.Chunks \in Nat \ {0}
  BY Zenon DEF State!ConstantsOk

(* The responses to one request.                                           *)
OneAnswer(A, n) ==
    /\ \A x \in A : x.nonce = n /\ x.index \in 0..behind.Chunks - 1 /\ x.last \in BOOLEAN
    /\ \A x, y \in A : (x.index = y.index => x = y) /\ (x.last => y.index <= x.index)

LEMMA AnswersAre ==
    ASSUME State!ConstantsOk, NEW peer, NEW q, NEW k \in 1..behind.Chunks
    PROVE  OneAnswer(State!Answers(peer, q, k), v9)
  <1> DEFINE c == behind.Chunks
             A == State!Answers(peer, q, k)
             P(i) == [from |-> peer, request |-> q, nonce |-> v9, index |-> i, last |-> i = k - 1]
  <1>1. c \in Nat /\ k \in 1..c
    BY SyncNumbers
  <1> HIDE DEF c
  <1>2. \A i \in 0..k - 1 : i \in 0..c - 1 /\ \A j \in 0..k - 1 : i = k - 1 => j <= i
    BY <1>1
  <1>3. \A i \in 0..k - 1 : P(i).nonce = v9 /\ P(i).index = i /\ P(i).last = (i = k - 1)
    OBVIOUS
  <1>4. \A x \in A : \E i \in 0..k - 1 : x = P(i)
    BY Zenon DEF State!Answers
  <1> HIDE DEF A, P
  <1>5. \A x \in A : x.index \in 0..k - 1 /\ x = P(x.index)
    <2> SUFFICES ASSUME NEW x \in A PROVE x.index \in 0..k - 1 /\ x = P(x.index)
      OBVIOUS
    <2>1. PICK i \in 0..k - 1 : x = P(i)
      BY <1>4
    <2>2. P(i).index = i
      BY <1>3, Zenon
    <2>3. x.index = i
      BY <2>1, <2>2, Zenon
    <2> QED BY <2>1, <2>3, Zenon
  <1>6. \A x \in A : x.nonce = v9 /\ x.last = (x.index = k - 1)
    BY <1>3, <1>5, Zenon
  <1>7. \A x \in A : x.nonce = v9 /\ x.index \in 0..c - 1 /\ x.last \in BOOLEAN
    BY <1>2, <1>5, <1>6, Zenon
  <1>8. \A x, y \in A : (x.index = y.index => x = y) /\ (x.last => y.index <= x.index)
    BY <1>2, <1>5, <1>6, Zenon
  <1> QED BY <1>7, <1>8 DEF OneAnswer, c, A

LEMMA AnswersSent ==
    ASSUME NEW f, NEW f2, NEW sent, NEW n, AnswersOk(f, sent, n), Kept(f2) \subseteq Kept(f), NEW A, OneAnswer(A, n)
    PROVE  AnswersOk(f2, sent \cup A, n + 1)
  <1>1. \A x \in A : x.nonce = n /\ x.index \in 0..behind.Chunks - 1 /\ x.last \in BOOLEAN
    BY DEF OneAnswer
  <1>2. \A x, y \in A : (x.index = y.index => x = y) /\ (x.last => y.index <= x.index)
    BY DEF OneAnswer
  <1>3. n \in Nat /\ n + 1 \in Nat /\ n < n + 1 /\ \A k \in Nat : k < n => k # n /\ k < n + 1
    BY DEF AnswersOk
  <1>4. \A x \in sent \cup Kept(f) : x.nonce \in Nat /\ x.nonce < n
    BY DEF AnswersOk
  <1>5. \A x \in sent \cup A : x \notin Kept(f2) /\ x.index \in 0..behind.Chunks - 1
    BY <1>1, <1>3, <1>4 DEF AnswersOk
  <1>6. ASSUME NEW x \in sent \cup A \cup Kept(f2), NEW y \in sent \cup A \cup Kept(f2)
        PROVE  /\ x.nonce \in Nat /\ x.nonce < n + 1 /\ x.last \in BOOLEAN
               /\ x.nonce = y.nonce => (x.index = y.index => x = y) /\ (x.last => y.index <= x.index)
    <2>1. x.nonce \in Nat /\ x.nonce < n + 1
      BY <1>1, <1>3, <1>4
    <2>2. CASE x \in A
      <3>1. x.nonce = y.nonce => y \in A
        BY <1>1, <1>3, <1>4, <2>2
      <3> QED BY <1>1, <1>2, <2>1, <2>2, <3>1, Zenon
    <2>3. CASE x \in sent \cup Kept(f)
      <3>1. x.nonce = y.nonce => y \in sent \cup Kept(f)
        BY <1>1, <1>3, <1>4, <2>3
      <3>2. x.last \in BOOLEAN /\ \A z \in sent \cup Kept(f) : x.nonce = z.nonce => (x.index = z.index => x = z) /\ (x.last => z.index <= x.index)
        BY <2>3, Zenon DEF AnswersOk
      <3> QED BY <2>1, <3>1, <3>2, Zenon
    <2> QED BY <2>2, <2>3
  <1> QED BY <1>3, <1>5, <1>6 DEF AnswersOk

LEMMA ClientExcept ==
    ASSUME NEW c, ClientShape(c), NEW X
    PROVE  /\ [c EXCEPT !.pending = X] = [peers |-> c.peers, pruned |-> c.pruned, pending |-> X, in_flight |-> c.in_flight, prefix_peers |-> c.prefix_peers]
           /\ [c EXCEPT !.in_flight = X] = [peers |-> c.peers, pruned |-> c.pruned, pending |-> c.pending, in_flight |-> X, prefix_peers |-> c.prefix_peers]
           /\ [c EXCEPT !.prefix_peers = X] = [peers |-> c.peers, pruned |-> c.pruned, pending |-> c.pending, in_flight |-> c.in_flight, prefix_peers |-> X]
           /\ [c EXCEPT !.peers = X] = [peers |-> X, pruned |-> c.pruned, pending |-> c.pending, in_flight |-> c.in_flight, prefix_peers |-> c.prefix_peers]
  <1>1. c = [peers |-> c.peers, pruned |-> c.pruned, pending |-> c.pending, in_flight |-> c.in_flight, prefix_peers |-> c.prefix_peers]
    BY DEF ClientShape
  <1> DEFINE a == c.peers b == c.pruned p == c.pending f == c.in_flight q == c.prefix_peers
  <1>2. c = [peers |-> a, pruned |-> b, pending |-> p, in_flight |-> f, prefix_peers |-> q]
    BY <1>1
  <1> HIDE DEF a, b, p, f, q
  <1>3. /\ [c EXCEPT !.pending = X] = [peers |-> a, pruned |-> b, pending |-> X, in_flight |-> f, prefix_peers |-> q]
        /\ [c EXCEPT !.in_flight = X] = [peers |-> a, pruned |-> b, pending |-> p, in_flight |-> X, prefix_peers |-> q]
        /\ [c EXCEPT !.prefix_peers = X] = [peers |-> a, pruned |-> b, pending |-> p, in_flight |-> f, prefix_peers |-> X]
        /\ [c EXCEPT !.peers = X] = [peers |-> X, pruned |-> b, pending |-> p, in_flight |-> f, prefix_peers |-> q]
    BY <1>2
  <1> QED BY <1>3 DEF a, b, p, f, q

(* A response that is not among the ones kept, and what is handed over in  *)
(* order when it comes: only the end of it can be the last response.       *)
IsNew(f, m) ==
    /\ m.index \in 0..behind.Chunks - 1 /\ \A x \in f.responses : ~(x.nonce = m.nonce /\ x.index = m.index)
    /\ \A x, y \in f.responses \cup {m} : x.last \in BOOLEAN /\ (x.nonce = y.nonce /\ x.last => y.index <= x.index)
HandsOver(add, m) ==
    add \in Seq([response : {m.request}, last : BOOLEAN]) /\ \A i \in DOMAIN add : add[i].last => i = Len(add)
PiecesInOrder(add, r) == \A i \in DOMAIN add : add[i].response = r /\ (add[i].last => i = Len(add))
Whole(add) == \E i \in DOMAIN add : add[i].last
Flights(f) == f = [x \in DOMAIN f |-> f[x]] /\ \A x \in DOMAIN f : FlightShape(f[x])

LEMMA FlightExcept ==
    ASSUME NEW f, NEW a, NEW b, NEW c, NEW d, f = [peer |-> a, responses |-> b, index |-> c, seen |-> d], NEW x
    PROVE  /\ [f EXCEPT !.index = x] = [peer |-> a, responses |-> b, index |-> x, seen |-> d]
           /\ [f EXCEPT !.responses = x] = [peer |-> a, responses |-> x, index |-> c, seen |-> d]
           /\ [f EXCEPT !.seen = x] = [peer |-> a, responses |-> b, index |-> c, seen |-> x]
  OBVIOUS

LEMMA FlightIs ==
    ASSUME NEW f, NEW a, NEW b, NEW c, NEW d, f = [peer |-> a, responses |-> b, index |-> c, seen |-> d], OneNonce(b)
    PROVE  FlightShape(f) /\ f.responses = b
  BY DEF FlightShape

(* How far the responses in G go on from the one of index d.               *)
Reached(d, c, G) == State!Max({k \in d + 1..c : \A i \in d + 1..k - 1 : \E x \in G : x.index = i})

LEMMA MaxIs ==
    ASSUME NEW d \in Nat, NEW c \in Nat, d < c, NEW G
    PROVE  Reached(d, c, G) \in d + 1..c /\ \A i \in d + 1..Reached(d, c, G) - 1 : \E x \in G : x.index = i
  <1> DEFINE P(k) == \A i \in d + 1..k - 1 : \E x \in G : x.index = i
             K == {k \in d + 1..c : P(k)}
  <1>1. d + 1 \in d + 1..c /\ d + 1..(d + 1) - 1 = {}
    OBVIOUS
  <1>2. d + 1 \in K
    BY <1>1
  <1> HIDE DEF P
  <1>3. K \in SUBSET (d + 1..c)
    OBVIOUS
  <1> HIDE DEF K
  <1>4. K \in SUBSET Nat /\ \A x \in K : x <= c
    BY <1>3
  <1> DEFINE T == {c - x : x \in K}
  <1>5. T \in SUBSET Nat /\ T # {}
    BY <1>2, <1>4
  <1>6. PICK t \in T : \A y \in T : t <= y
    BY <1>5, LeastNumber
  <1>7. PICK x \in K : t = c - x
    OBVIOUS
  <1>8. \A y \in K : x >= y
    <2> SUFFICES ASSUME NEW y \in K PROVE x >= y
      OBVIOUS
    <2>1. c - x <= c - y
      BY <1>6, <1>7
    <2>2. x \in Nat /\ y \in Nat
      BY <1>4
    <2> QED BY <2>1, <2>2
  <1>9. State!Max(K) \in K
    BY <1>7, <1>8, Zenon DEF State!Max
  <1>10. State!Max(K) \in d + 1..c /\ P(State!Max(K))
    BY <1>9 DEF K
  <1> QED BY <1>10, Zenon DEF K, P, Reached

LEMMA SeqIs ==
    ASSUME NEW S, NEW n \in Nat, n >= 1, NEW s \in [1..n -> S]
    PROVE  s \in Seq(S) /\ Len(s) = n /\ s # <<>>
  OBVIOUS

(* What the client makes of a response.                                    *)
LEMMA ApplyIs ==
    ASSUME State!ConstantsOk, NEW f, FlightShape(f), NEW m, IsNew(f, m), NEW late, NEW z, z = State!ApplyResponse(f, m, late)
    PROVE  FlightShape(z.f) /\ z.f.responses \subseteq f.responses \cup {m} /\ ~z.duplicate /\ HandsOver(z.out, m)
  <1>0. m.index \in 0..behind.Chunks - 1 /\ \A x \in f.responses : ~(x.nonce = m.nonce /\ x.index = m.index)
    BY DEF IsNew
  <1> DEFINE other == f.responses # {} /\ \E x \in f.responses : x.nonce # m.nonce
             first == m.nonce \notin f.seen
             g == [f EXCEPT !.seen = f.seen \cup {m.nonce}, !.responses = IF other THEN {} ELSE f.responses]
             Consecutive(k) == \A i \in m.index + 1..k - 1 : \E x \in g.responses : x.index = i
             K == {k \in m.index + 1..behind.Chunks : Consecutive(k)}
             upto == State!Max(K)
             a == State!ApplyResponse(f, m, late)
             h == [g EXCEPT !.index = upto, !.responses = {x \in g.responses : x.index >= upto}]
             Piece(i) == CHOOSE x \in g.responses \cup {m} : x.index = i
             o == [i \in 1..upto - m.index |-> [response |-> m.request, last |-> Piece(m.index + i - 1).last]]
  <1>1. a = IF other /\ ~(late /\ first) THEN [f |-> [f EXCEPT !.seen = f.seen \cup {m.nonce}], out |-> <<>>, duplicate |-> FALSE]
            ELSE IF m.index < g.index THEN [f |-> g, out |-> <<>>, duplicate |-> FALSE]
            ELSE IF m.index = g.index THEN [f |-> h, out |-> o, duplicate |-> FALSE]
            ELSE [f |-> [g EXCEPT !.responses = g.responses \cup {m}], out |-> <<>>, duplicate |-> \E x \in g.responses : x.index = m.index]
    BY DEF State!ApplyResponse
  <1> DEFINE f1 == f.peer f2 == f.responses f3 == f.index f4 == f.seen y == IF other THEN {} ELSE f2 w == f4 \cup {m.nonce}
  <1>2. f = [peer |-> f1, responses |-> f2, index |-> f3, seen |-> f4]
    BY DEF FlightShape
  <1>3. y \subseteq f2 /\ (\A x \in y : x.index # m.index) /\ OneNonce(f2) /\ OneNonce(y \cup {m}) /\ OneNonce(y)
    BY <1>0 DEF FlightShape, OneNonce
  <1>4. g = [f EXCEPT !.seen = w, !.responses = y] /\ [f EXCEPT !.seen = f.seen \cup {m.nonce}] = [f EXCEPT !.seen = w]
    BY Zenon
  <1> DEFINE e == [f EXCEPT !.seen = f.seen \cup {m.nonce}]
             j == [g EXCEPT !.responses = g.responses \cup {m}]
             y2 == {x \in y : x.index >= upto}
  <1> HIDE DEF other, K, upto
  <1>5. g = [peer |-> f1, responses |-> y, index |-> f3, seen |-> w] /\ e = [peer |-> f1, responses |-> f2, index |-> f3, seen |-> w]
    <2> DEFINE e2 == [f EXCEPT !.seen = w]
    <2>1. e = e2 /\ g = [e2 EXCEPT !.responses = y]
      BY <1>4, Zenon
    <2> HIDE DEF f1, f2, f3, f4, y, w, g, e
    <2>2. e2 = [peer |-> f1, responses |-> f2, index |-> f3, seen |-> w]
      BY <1>2, FlightExcept
    <2> HIDE DEF e2
    <2>3. [e2 EXCEPT !.responses = y] = [peer |-> f1, responses |-> y, index |-> f3, seen |-> w]
      BY <2>2, FlightExcept
    <2> QED BY <2>1, <2>2, <2>3, Zenon
  <1> HIDE DEF f1, f3, f4, y, w, g
  <1>6. g.responses = y /\ FlightShape(g) /\ e.responses = f2 /\ FlightShape(e)
    BY <1>3, <1>5, FlightIs
  <1>7. h = [g EXCEPT !.index = upto, !.responses = y2] /\ j = [g EXCEPT !.responses = y \cup {m}]
    BY <1>6, Zenon
  <1>8. h = [peer |-> f1, responses |-> y2, index |-> upto, seen |-> w] /\ j = [peer |-> f1, responses |-> y \cup {m}, index |-> f3, seen |-> w]
    <2> DEFINE g2 == [g EXCEPT !.index = upto]
    <2>1. h = [g2 EXCEPT !.responses = y2]
      BY <1>7, Zenon
    <2> HIDE DEF y2, j, h
    <2>2. g2 = [peer |-> f1, responses |-> y, index |-> upto, seen |-> w]
      BY SMTT(30), <1>5, FlightExcept
    <2>3. j = [peer |-> f1, responses |-> y \cup {m}, index |-> f3, seen |-> w]
      BY <1>5, <1>7, FlightExcept
    <2> HIDE DEF g2
    <2>4. [g2 EXCEPT !.responses = y2] = [peer |-> f1, responses |-> y2, index |-> upto, seen |-> w]
      BY <2>2, FlightExcept
    <2> QED BY <2>1, <2>3, <2>4, Zenon
  <1> HIDE DEF h, j, e
  <1>9. h.responses = y2 /\ FlightShape(h) /\ j.responses = y \cup {m} /\ FlightShape(j)
    <2>1. OneNonce(y2)
      BY <1>3 DEF OneNonce
    <2> HIDE DEF y2
    <2> QED BY <1>3, <1>8, <2>1, FlightIs
  <1>10. HandsOver(o, m)
    <2> DEFINE d == m.index c == behind.Chunks n == upto - d
               R == [response : {m.request}, last : BOOLEAN]
    <2>1. d \in Nat /\ c \in Nat /\ d < c
      BY <1>0, SyncNumbers
    <2>2. upto = Reached(d, c, g.responses)
      BY Zenon DEF upto, K, Reached
    <2>3. o = [i \in 1..n |-> [response |-> m.request, last |-> Piece(d + i - 1).last]]
      BY Zenon
    <2>4. m \in y \cup {m} /\ m.index = d /\ \A x, piece \in y \cup {m} : x.last \in BOOLEAN /\ (x.last => piece.index <= x.index)
      BY <1>3 DEF IsNew, OneNonce
    <2> HIDE DEF d
    <2>5. \A i : Piece(i) = CHOOSE x \in y \cup {m} : x.index = i
      BY <1>6
    <2> HIDE DEF c, o, Piece
    <2>6. upto \in d + 1..c /\ \A i \in d + 1..upto - 1 : \E x \in g.responses : x.index = i
      BY <2>1, <2>2, MaxIs
    <2>7. upto \in Nat /\ n \in Nat /\ n >= 1 /\ d + n - 1 = upto - 1 /\ \A i \in 1..n : d + i - 1 \in d..upto - 1
      BY <2>1, <2>6
    <2>8. \A i \in d..upto - 1 : \E x \in y \cup {m} : x.index = i
      <3> SUFFICES ASSUME NEW i \in d..upto - 1 PROVE \E x \in y \cup {m} : x.index = i
        OBVIOUS
      <3>1. i = d \/ i \in d + 1..upto - 1
        BY <2>1, <2>7
      <3> QED BY <1>6, <2>4, <2>6, <3>1
    <2>9. \A i \in d..upto - 1 : Piece(i) \in y \cup {m} /\ Piece(i).index = i
      BY <2>5, <2>8
    <2>10. ASSUME NEW i \in 1..n
           PROVE  Piece(d + i - 1).last \in BOOLEAN /\ (Piece(d + i - 1).last => i = n)
      <3> DEFINE k == d + i - 1 l == upto - 1
      <3>1. k \in d..upto - 1 /\ l \in d..upto - 1 /\ (l <= k => i = n)
        BY <2>1, <2>7
      <3> HIDE DEF k, l
      <3>2. Piece(k) \in y \cup {m} /\ Piece(k).index = k /\ Piece(l) \in y \cup {m} /\ Piece(l).index = l
        BY <2>9, <3>1
      <3>3. Piece(k).last \in BOOLEAN /\ (Piece(k).last => Piece(l).index <= Piece(k).index)
        BY <2>4, <3>2, Zenon
      <3>4. Piece(k).last \in BOOLEAN /\ (Piece(k).last => i = n)
        BY <3>1, <3>2, <3>3
      <3> QED BY <3>4 DEF k
    <2> HIDE DEF n
    <2>11. \A i \in 1..n : o[i] = [response |-> m.request, last |-> Piece(d + i - 1).last]
      BY <2>3
    <2>12. \A i \in 1..n : o[i] \in R /\ o[i].last = Piece(d + i - 1).last
      <3> SUFFICES ASSUME NEW i \in 1..n PROVE o[i] \in R /\ o[i].last = Piece(d + i - 1).last
        OBVIOUS
      <3> DEFINE b == Piece(d + i - 1).last
      <3>1. o[i] = [response |-> m.request, last |-> b] /\ b \in BOOLEAN
        BY <2>10, <2>11, Zenon
      <3> HIDE DEF b
      <3>2. o[i] \in R /\ o[i].last = b
        BY <3>1
      <3> QED BY <3>2 DEF b
    <2> HIDE DEF R
    <2>13. o \in [1..n -> R]
      BY <2>3, <2>12
    <2>14. o \in Seq(R) /\ Len(o) = n /\ DOMAIN o = 1..n
      BY <2>7, <2>13, SeqIs
    <2>15. \A i \in DOMAIN o : o[i].last => i = Len(o)
      BY <2>10, <2>12, <2>14, Zenon
    <2> QED BY <2>14, <2>15, Zenon DEF HandsOver, R
  <1>11. HandsOver(<<>>, m)
    BY DEF HandsOver
  <1> HIDE DEF o, a, first
  <1>12. \/ a.f = e /\ a.out = <<>> /\ ~a.duplicate
         \/ a.f = g /\ a.out = <<>> /\ ~a.duplicate
         \/ a.f = h /\ a.out = o /\ ~a.duplicate
         \/ a.f = j /\ a.out = <<>> /\ ~a.duplicate
    BY <1>1, <1>3, <1>6 DEF e, j
  <1>13. FlightShape(a.f) /\ a.f.responses \subseteq f.responses \cup {m} /\ ~a.duplicate
    BY <1>3, <1>6, <1>9, <1>12
  <1>14. a.out = <<>> \/ a.out = o
    BY <1>12
  <1>15. z = a
    BY Zenon DEF a
  <1>16. HandsOver(a.out, m)
    BY <1>10, <1>11, <1>14, Zenon
  <1> QED BY <1>13, <1>15, <1>16

(* insert_request: the request stays with the client, in the version of    *)
(* the peer it is sent to, or stays pending.                               *)
LEMMA Inserted ==
    ASSUME State!ConstantsOk, StateSyncOk, NEW request \in v3.pending \cup DOMAIN v3.in_flight, NEW P, NEW F, NEW st,
           st = [peers |-> v3.peers, pruned |-> v3.pruned, pending |-> P, in_flight |-> F, prefix_peers |-> v3.prefix_peers],
           F = [r \in DOMAIN F |-> F[r]], \A r \in DOMAIN F : FlightShape(F[r]), P \cap DOMAIN F = {},
           P \cup DOMAIN F = (v3.pending \cup DOMAIN v3.in_flight) \ {request}, Kept(F) \subseteq Kept(v3.in_flight),
           State!InsertRequest(request, st)
    PROVE  \/ v10' = NotFound
           \/ /\ v10' = v10 /\ ClientOk'
              /\ OnItsWay(v3'.pending \cup DOMAIN v3'.in_flight, v6, v5, v7.target, v7.next, v7.left, v4)
  <1> DEFINE U == v3.pending \cup DOMAIN v3.in_flight
             t == v7.target
             L == v7.left
  <1>1. ClientShape(v3) /\ AnswersOk(v3.in_flight, v8, v9) /\ OnItsWay(U, v6, v5, t, v7.next, L, v4)
    BY DEF StateSyncOk, ClientOk
  <1>2. /\ \A p \in DOMAIN v3.peers : v3.peers[p] \in Nat
        /\ U \subseteq AskedFor(t, L) /\ request \in AskedFor(t, L)
        /\ \A r \in U : r.prefix = request.prefix => r = request
    BY <1>1 DEF ClientShape, OnItsWay, Once
  <1>3. CASE v3' = [st EXCEPT !.pending = @ \cup {request}] /\ v8' = v8 /\ v9' = v9 /\ v10' = v10
    <2>1. v3' = [peers |-> v3.peers, pruned |-> v3.pruned, pending |-> P \cup {request}, in_flight |-> F, prefix_peers |-> v3.prefix_peers]
      BY <1>3
    <2>2. v3'.pending = P \cup {request} /\ v3'.in_flight = F /\ v3'.peers = v3.peers
      BY <2>1
    <2>3. (P \cup {request}) \cup DOMAIN F = U /\ request \notin DOMAIN F
      OBVIOUS
    <2>4. ClientShape(v3')
      BY <1>2, <2>1, <2>2, <2>3 DEF ClientShape
    <2>5. AnswersOk(F, v8, v9)
      BY <1>1, AnswersKept
    <2> QED BY <1>1, <1>3, <2>2, <2>3, <2>4, <2>5 DEF ClientOk
  <1>4. ASSUME NEW peer \in DOMAIN v3.peers, NEW r, r = [request EXCEPT !.version = v3.peers[peer]], v9' = v9 + 1, v10' = v10,
               v3' = [st EXCEPT !.in_flight = State!Put(@, r, [peer |-> peer, responses |-> {}, index |-> 0, seen |-> {}])],
               NEW k \in 1..behind.Chunks, v8' = v8 \cup State!Answers(peer, r, k)
        PROVE  v10' = v10 /\ ClientOk' /\ OnItsWay(v3'.pending \cup DOMAIN v3'.in_flight, v6, v5, t, v7.next, L, v4)
    <2> DEFINE f == [peer |-> peer, responses |-> {}, index |-> 0, seen |-> {}]
               G == State!Put(F, r, f)
    <2>1. r \in AskedFor(t, L) /\ r.prefix = request.prefix
      <3> DEFINE v == v3.peers[peer]
      <3>1. v \in Nat /\ r = [request EXCEPT !.version = v] /\ request \in AskedFor(t, L)
        BY <1>2, <1>4
      <3> HIDE DEF v, t, L
      <3> QED BY <3>1 DEF AskedFor
    <2>2. FlightShape(f) /\ f.responses = {}
      <3>1. OneNonce({})
        BY DEF OneNonce
      <3> QED BY <3>1, FlightIs
    <2> HIDE DEF f
    <2>3. v3' = [peers |-> v3.peers, pruned |-> v3.pruned, pending |-> P, in_flight |-> G, prefix_peers |-> v3.prefix_peers]
      <3>1. v3' = [st EXCEPT !.in_flight = G]
        BY <1>4 DEF f
      <3> HIDE DEF G
      <3> QED BY <3>1
    <2>4. /\ DOMAIN G = DOMAIN F \cup {r} /\ \A x \in DOMAIN F \cup {r} : G[x] = IF x = r THEN f ELSE F[x]
          /\ G = [x \in DOMAIN G |-> G[x]] /\ Kept(G) \subseteq Kept(F) \cup f.responses
      BY PutIs
    <2> HIDE DEF G
    <2>5. v3'.pending = P /\ v3'.in_flight = G /\ v3'.peers = v3.peers
      BY <2>3
    <2>6. r \notin P
      BY <1>2, <2>1
    <2>7. ClientShape(v3')
      BY <1>2, <2>2, <2>3, <2>4, <2>5, <2>6 DEF ClientShape
    <2>8. AnswersOk(G, v8', v9')
      <3>1. Kept(G) \subseteq Kept(v3.in_flight)
        BY <2>2, <2>4
      <3> DEFINE A == State!Answers(peer, r, k)
      <3>2. OneAnswer(A, v9)
        BY AnswersAre, Zenon
      <3> HIDE DEF A
      <3>3. AnswersOk(G, v8 \cup A, v9 + 1)
        BY <1>1, <3>1, <3>2, AnswersSent
      <3> QED BY <1>4, <3>3 DEF A
    <2>9. v3'.pending \cup DOMAIN v3'.in_flight = (U \ {request}) \cup {r}
      BY <2>4, <2>5
    <2>10. OnItsWay((U \ {request}) \cup {r}, v6, v5, t, v7.next, L, v4)
      BY <1>1, <2>1, RequestExchanged
    <2> QED BY <1>4, <2>5, <2>7, <2>8, <2>9, <2>10 DEF ClientOk
  <1>5. \/ v3' = [st EXCEPT !.pending = @ \cup {request}] /\ v8' = v8 /\ v9' = v9 /\ v10' = v10
        \/ \E peer : v10' = NotFound
        \/ \E peer \in DOMAIN v3.peers, k \in 1..behind.Chunks :
             /\ v9' = v9 + 1 /\ v10' = v10 /\ v8' = v8 \cup State!Answers(peer, [request EXCEPT !.version = v3.peers[peer]], k)
             /\ v3' = [st EXCEPT !.in_flight = State!Put(@, [request EXCEPT !.version = v3.peers[peer]],
                                                        [peer |-> peer, responses |-> {}, index |-> 0, seen |-> {}])]
    BY Zenon DEF State!InsertRequest, NotFound
  <1> QED BY <1>3, <1>4, <1>5
-----------------------------------------------------------------------------
(* The steps of the node.                                                  *)
LEMMA SyncPrefixes == State!Prefix \subseteq Nat
  BY DEF State!Prefix

LEMMA Checked == ASSUME NEW ok, ok, NEW which, State!Check(ok, which) PROVE v10' = v10
  BY Zenon DEF State!Check

LEMMA SyncStarted ==
    ASSUME State!ConstantsOk, StateSyncOk, NEW st \in NodeStates, v4 <= st.root, st.db_status = "Waiting" => v4 < st.root,
           v2' = <<>> \/ (st.mode = "Sync" /\ v2' \in Seq(Nat) /\ Len(v2') = 1 /\ v2'[1] > st.root),
           State!StartSync(st), UNCHANGED <<v3, v6, v7, v8, v9>>
    PROVE  v10' = v10 /\ StateSyncOk'
  <1> DEFINE U == v3.pending \cup DOMAIN v3.in_flight
  <1>1. OnItsWay(U, v6, v5, v7.target, v7.next, v7.left, v4) /\ v4 \in Nat /\ ClientOk' /\ ThreadOk'
    BY DEF StateSyncOk, OnItsWay, ClientOk, ThreadOk
  <1>2. CASE st.blocks /\ st.db_status = "Waiting"
    <2>1. v1' = [st EXCEPT !.db_status = "Started"] /\ v4' = st.root /\ v5' = Append(v5, [target |-> st.root])
      BY <1>2, Zenon DEF State!StartSync
    <2>2. State!Check(v4 < st.root, "old target < target")
      BY <1>2, Zenon DEF State!StartSync
    <2>3. v10' = v10
      BY <1>2, <2>2, Checked
    <2>4. v1' \in NodeStates /\ v1'.root = st.root /\ v1'.db_status = "Started" /\ v1'.mode = st.mode /\ st.root \in Nat
      BY <2>1 DEF NodeStates
    <2>5. NodeOk'
      BY <2>1, <2>4 DEF NodeOk
    <2>6. OnItsWay(U, v6, v5', v7.target, v7.next, v7.left, v4')
      BY <1>1, <1>2, <2>1, <2>4, TargetSent
    <2>7. (v3.pending \cup DOMAIN v3.in_flight)' = U
      BY Zenon
    <2> QED BY <1>1, <2>3, <2>5, <2>6, <2>7 DEF StateSyncOk
  <1>3. CASE ~(st.blocks /\ st.db_status = "Waiting")
    <2>1. v1' = st /\ v4' = v4 /\ v5' = v5 /\ v10' = v10
      BY <1>3, Zenon DEF State!StartSync
    <2>2. NodeOk'
      BY <2>1 DEF NodeOk
    <2> QED BY <1>1, <2>1, <2>2 DEF StateSyncOk
  <1> QED BY <1>2, <1>3

LEMMA NodeIs ==
    ASSUME StateSyncOk
    PROVE  /\ v1 \in NodeStates /\ v4 \in Nat /\ v4 <= v1.root /\ v1.root \in Nat
           /\ v1.db_status = "Waiting" => v4 < v1.root
           /\ v2 = <<>> \/ (v1.mode = "Sync" /\ v2 \in Seq(Nat) /\ Len(v2) = 1 /\ v2[1] > v1.root)
  BY DEF StateSyncOk, NodeOk, NodeStates, OnItsWay

LEMMA SyncBlocks ==
    ASSUME State!ConstantsOk, StateSyncOk, State!BlocksArrive
    PROVE  v10' = v10 /\ StateSyncOk'
  <1> DEFINE st == [v1 EXCEPT !.blocks = TRUE]
  <1>1. State!StartSync(st) /\ UNCHANGED <<v2, v3, v6, v7, v8, v9>>
    BY Zenon DEF State!BlocksArrive
  <1>2. st \in NodeStates /\ st.root = v1.root /\ st.db_status = v1.db_status /\ st.mode = v1.mode
    BY NodeIs DEF NodeStates
  <1> HIDE DEF st
  <1> QED BY <1>1, <1>2, NodeIs, SyncStarted

LEMMA SyncProposal ==
    ASSUME State!ConstantsOk, StateSyncOk, NEW r \in 1..behind.Targets, State!HandleProposal(r)
    PROVE  v10' = v10 /\ StateSyncOk'
  <1>1. /\ v1.mode = "Sync" /\ v2 = <<>> /\ r > v1.root /\ v1' = [v1 EXCEPT !.updating_target = TRUE] /\ v2' = Append(v2, r)
        /\ UNCHANGED <<v3, v4, v5, v6, v7, v8, v9, v10>>
    BY Zenon DEF State!HandleProposal, State!Syncing
  <1>2. v1' \in NodeStates /\ v1'.root = v1.root /\ v1'.db_status = v1.db_status /\ v1'.mode = v1.mode
    BY <1>1, NodeIs DEF NodeStates
  <1>3. r \in Nat /\ v2' \in Seq(Nat) /\ Len(v2') = 1 /\ v2'[1] = r
    BY <1>1
  <1>4. NodeOk'
    BY <1>1, <1>2, <1>3, NodeIs DEF NodeOk
  <1>5. ClientOk' /\ ThreadOk' /\ OnItsWay(v3.pending \cup DOMAIN v3.in_flight, v6, v5, v7.target, v7.next, v7.left, v4)'
    BY <1>1 DEF StateSyncOk, ClientOk, ThreadOk
  <1> QED BY <1>1, <1>4, <1>5 DEF StateSyncOk

LEMMA OnlyOne ==
    ASSUME NEW s \in Seq(Nat), Len(s) = 1
    PROVE  s # <<>> /\ Head(s) = s[1] /\ s[1] \in Nat /\ Tail(s) = <<>>
  <1>1. s # <<>> /\ Head(s) = s[1] /\ s[1] \in Nat
    OBVIOUS
  <1>2. Tail(s) \in Seq(Nat) /\ Len(Tail(s)) = 0
    BY <1>1, HeadTailProperties
  <1> QED BY <1>1, <1>2, EmptySeq

LEMMA SyncRequested ==
    ASSUME State!ConstantsOk, StateSyncOk, NEW blocks \in BOOLEAN, State!RequestSync(blocks)
    PROVE  v10' = v10 /\ StateSyncOk'
  <1> DEFINE st == [v1 EXCEPT !.root = Head(v2), !.blocks = blocks, !.db_status = "Waiting", !.updating_target = FALSE]
  <1>1. v2 # <<>> /\ v2' = Tail(v2) /\ UNCHANGED <<v3, v6, v7, v8, v9>>
    BY Zenon DEF State!RequestSync
  <1>2. v1.mode = "Sync" /\ v2 \in Seq(Nat) /\ Len(v2) = 1 /\ v2[1] > v1.root
    BY <1>1, NodeIs
  <1> DEFINE r == v2[1]
  <1>3. State!StartSync(st)
    <2>1. v1.mode # "Live"
      BY <1>2
    <2> QED BY <2>1, Zenon DEF State!RequestSync
  <1>4. v2' = <<>> /\ Head(v2) = v2[1]
    BY <1>1, <1>2, OnlyOne
  <1>5. st = [v1 EXCEPT !.root = r, !.blocks = blocks, !.db_status = "Waiting", !.updating_target = FALSE]
    BY <1>4, Zenon
  <1>6. r \in Nat /\ r > v1.root /\ v1 \in NodeStates /\ v4 \in Nat /\ v4 <= v1.root /\ v1.root \in Nat
    <2>1. v2[1] \in Nat
      BY <1>2, OnlyOne
    <2> QED BY <1>2, <2>1, NodeIs
  <1> HIDE DEF st, r
  <1>7. st \in NodeStates /\ st.root = r /\ st.db_status = "Waiting"
    BY <1>5, <1>6 DEF NodeStates
  <1>8. v4 <= st.root /\ v4 < st.root
    BY <1>6, <1>7
  <1> QED BY <1>1, <1>3, <1>4, <1>7, <1>8, SyncStarted
-----------------------------------------------------------------------------
(* The steps of the client.                                                *)
LEMMA ClientIs ==
    ASSUME StateSyncOk
    PROVE  /\ ClientShape(v3) /\ AnswersOk(v3.in_flight, v8, v9) /\ NodeOk /\ ThreadOk
           /\ OnItsWay(v3.pending \cup DOMAIN v3.in_flight, v6, v5, v7.target, v7.next, v7.left, v4)
           /\ v6 \in Seq(AskedFor(v7.target, v7.left) \cup Dones)
           /\ v3.pending \subseteq AskedFor(v7.target, v7.left) /\ v3.pending \cap DOMAIN v3.in_flight = {}
           /\ v3 = [peers |-> v3.peers, pruned |-> v3.pruned, pending |-> v3.pending, in_flight |-> v3.in_flight, prefix_peers |-> v3.prefix_peers]
           /\ v3.in_flight = [r \in DOMAIN v3.in_flight |-> v3.in_flight[r]]
           /\ \A r \in DOMAIN v3.in_flight : FlightShape(v3.in_flight[r])
           /\ \A p \in DOMAIN v3.peers : v3.peers[p] \in Nat
  BY DEF StateSyncOk, ClientOk, ClientShape, OnItsWay

LEMMA DonesPolled ==
    ASSUME StateSyncOk, v10 = None, v6 # <<>>, Head(v6) \in Dones, State!PollThread
    PROVE  v10' = v10 /\ StateSyncOk'
  <1> DEFINE U == v3.pending \cup DOMAIN v3.in_flight
             n == Head(v6).done
  <1>1. /\ OnItsWay(U, Tail(v6), v5, v7.target, v7.next, v7.left, v4)
        /\ U = {} /\ n \in Nat /\ n <= v4 /\ (n = v4 => v7.target = 0 /\ v5 = <<>>)
    BY ClientIs, DonePolled
  <1>2. v2 = <<>> /\ v6' = Tail(v6) /\ UNCHANGED <<v2, v4, v5, v7, v8, v9>>
    BY Zenon DEF State!PollThread
  <1>3. v3' = [v3 EXCEPT !.prefix_peers = <<>>] /\ State!DoneSync(n)
    <2>1. "done" \in DOMAIN Head(v6)
      BY SyncKinds
    <2>2. State!Outstanding = {}
      BY <1>1 DEF State!Outstanding
    <2> QED BY <2>1, <2>2, Zenon DEF State!PollThread
  <1>4. v3' = [peers |-> v3.peers, pruned |-> v3.pruned, pending |-> v3.pending, in_flight |-> v3.in_flight, prefix_peers |-> <<>>]
    BY <1>3, ClientIs, ClientExcept
  <1>5. v3'.peers = v3.peers /\ v3'.pending = v3.pending /\ v3'.in_flight = v3.in_flight
    BY <1>4
  <1>6. ClientOk'
    <2>1. ClientShape(v3')
      BY <1>4, <1>5, ClientIs DEF ClientShape
    <2> QED BY <1>2, <1>5, <2>1, ClientIs DEF ClientOk
  <1>7. v10' = v10 /\ NodeOk'
    <2>1. CASE ~v1.blocks \/ n < v1.root
      <3>1. v1' = v1 /\ v10' = v10
        BY <1>3, <2>1, Zenon DEF State!DoneSync
      <3> QED BY <1>2, <3>1, ClientIs DEF NodeOk
    <2>2. CASE ~(~v1.blocks \/ n < v1.root)
      <3>1. v1' = [v1 EXCEPT !.mode = "Live"]
        BY <1>3, <2>2, Zenon DEF State!DoneSync
      <3>2. State!Check(n = v1.root /\ v1.db_status = "Started" /\ v3.pending = {} /\ v3.in_flight = <<>> /\ v5 = <<>> /\ v7.target = 0, "done")
        BY <1>3, <2>2, Zenon DEF State!DoneSync
      <3>3. n = v1.root /\ n = v4
        BY <1>1, <2>2, NodeIs
      <3>4. v1.db_status = "Started"
        BY <3>3, NodeIs DEF NodeStates
      <3>5. v3.in_flight = <<>> /\ v3.pending = {}
        BY <1>1, ClientIs, EmptyMap
      <3>6. v10' = v10
        BY <1>1, <3>2, <3>3, <3>4, <3>5, Checked
      <3>7. v1' \in NodeStates /\ v1'.root = v1.root /\ v1'.db_status = v1.db_status
        BY <3>1, NodeIs DEF NodeStates
      <3> QED BY <1>2, <3>6, <3>7, NodeIs DEF NodeOk
    <2> QED BY <2>1, <2>2
  <1>8. ThreadOk' /\ OnItsWay(v3.pending \cup DOMAIN v3.in_flight, v6, v5, v7.target, v7.next, v7.left, v4)'
    BY <1>1, <1>2, <1>5, ClientIs DEF ThreadOk
  <1> QED BY <1>6, <1>7, <1>8 DEF StateSyncOk

LEMMA RequestsPolled ==
    ASSUME StateSyncOk, v10 = None, v6 # <<>>, Head(v6) \in AskedFor(v7.target, v7.left), State!PollThread
    PROVE  v10' = v10 /\ StateSyncOk'
  <1> DEFINE U == v3.pending \cup DOMAIN v3.in_flight
             m == Head(v6)
  <1>1. /\ OnItsWay(U \cup {m}, Tail(v6), v5, v7.target, v7.next, v7.left, v4)
        /\ \A r \in U : r.prefix # m.prefix /\ r.target = m.target
    BY ClientIs, RequestPolled
  <1>2. v2 = <<>> /\ v6' = Tail(v6) /\ UNCHANGED <<v2, v4, v5, v7, v8, v9>>
    BY Zenon DEF State!PollThread
  <1>3. "done" \notin DOMAIN m
    BY SyncKinds
  <1>4. v3' = [v3 EXCEPT !.pending = @ \cup {m}] /\ v1' = v1
    BY <1>3, Zenon DEF State!PollThread
  <1>5. State!Check(\A r \in U : r.target = m.target, "current_target = request.target")
    BY <1>3, Zenon DEF State!PollThread, State!Outstanding
  <1>6. v10' = v10
    BY <1>1, <1>5, Checked
  <1>7. v3' = [peers |-> v3.peers, pruned |-> v3.pruned, pending |-> v3.pending \cup {m}, in_flight |-> v3.in_flight, prefix_peers |-> v3.prefix_peers]
    BY <1>4, ClientIs, ClientExcept
  <1> HIDE DEF m
  <1>8. v3'.peers = v3.peers /\ v3'.pending = v3.pending \cup {m} /\ v3'.in_flight = v3.in_flight
    BY <1>7
  <1>9. ClientOk'
    <2>1. (v3.pending \cup {m}) \cap DOMAIN v3.in_flight = {}
      BY <1>1, ClientIs
    <2>2. ClientShape(v3')
      BY <1>7, <1>8, <2>1, ClientIs DEF ClientShape
    <2> QED BY <1>2, <1>8, <2>2, ClientIs DEF ClientOk
  <1>10. NodeOk' /\ ThreadOk'
    BY <1>2, <1>4, ClientIs DEF NodeOk, ThreadOk
  <1>11. (v3.pending \cup DOMAIN v3.in_flight)' = U \cup {m}
    BY <1>8
  <1> QED BY <1>1, <1>2, <1>6, <1>9, <1>10, <1>11 DEF StateSyncOk
(* pending is a BTreeSet: it has a first request.                          *)
LEMMA FirstRequest ==
    ASSUME NEW S, S # {}, \A r \in S : r.version \in Nat /\ r.prefix \in Nat
    PROVE  (CHOOSE r \in S : \A s \in S : r.version < s.version \/ (r.version = s.version /\ r.prefix <= s.prefix)) \in S
  <1> DEFINE V == {r.version : r \in S}
  <1>1. V \in SUBSET Nat /\ V # {}
    OBVIOUS
  <1>2. PICK n \in V : \A v \in V : n <= v
    BY <1>1, LeastNumber
  <1> DEFINE T == {r.prefix : r \in {r \in S : r.version = n}}
  <1>3. T \in SUBSET Nat /\ T # {}
    BY <1>2
  <1>4. PICK p \in T : \A q \in T : p <= q
    BY <1>3, LeastNumber
  <1>5. PICK r \in S : r.version = n /\ r.prefix = p
    BY <1>4
  <1>6. \A s \in S : r.version < s.version \/ (r.version = s.version /\ r.prefix <= s.prefix)
    <2> SUFFICES ASSUME NEW s \in S PROVE r.version < s.version \/ (r.version = s.version /\ r.prefix <= s.prefix)
      OBVIOUS
    <2>1. n \in Nat /\ s.version \in Nat /\ n <= s.version
      BY <1>1, <1>2
    <2>2. s.version = n => p <= s.prefix
      BY <1>4
    <2> QED BY <1>5, <2>1, <2>2
  <1> QED BY <1>5, <1>6, Zenon

(* What is common to the steps that leave node, inbox, outbox and thread.  *)
LEMMA ClientSteps ==
    ASSUME StateSyncOk, ClientOk', UNCHANGED <<v1, v2, v4, v5, v6, v7>>,
           OnItsWay(v3'.pending \cup DOMAIN v3'.in_flight, v6, v5, v7.target, v7.next, v7.left, v4)
    PROVE  StateSyncOk'
  <1>1. NodeOk' /\ ThreadOk'
    BY ClientIs DEF NodeOk, ThreadOk
  <1> QED BY <1>1 DEF StateSyncOk

LEMMA SyncPending ==
    ASSUME State!ConstantsOk, StateSyncOk, v10 = None, State!PollPending
    PROVE  v10' = NotFound \/ (v10' = v10 /\ StateSyncOk')
  <1> DEFINE first == CHOOSE r \in v3.pending : \A s \in v3.pending : r.version < s.version \/ (r.version = s.version /\ r.prefix <= s.prefix)
             P == v3.pending \ {first}
             F == v3.in_flight
             st == [v3 EXCEPT !.pending = P]
  <1>1. v3.pending # {} /\ UNCHANGED <<v1, v2, v4, v5, v6, v7>> /\ State!InsertRequest(first, st)
    BY Zenon DEF State!PollPending
  <1>2. first \in v3.pending
    <2>1. \A r \in v3.pending : r \in AskedFor(v7.target, v7.left)
      BY ClientIs
    <2>2. v7.left \subseteq Nat
      BY ClientIs, SyncPrefixes DEF OnItsWay
    <2>3. \A r \in v3.pending : r.version \in Nat /\ r.prefix \in Nat
      BY <2>1, <2>2, SyncKinds
    <2> QED BY <1>1, <2>3, FirstRequest
  <1> HIDE DEF first
  <1>3. st = [peers |-> v3.peers, pruned |-> v3.pruned, pending |-> P, in_flight |-> F, prefix_peers |-> v3.prefix_peers]
    BY ClientIs, ClientExcept
  <1>4. P \cap DOMAIN F = {} /\ P \cup DOMAIN F = (v3.pending \cup DOMAIN v3.in_flight) \ {first} /\ first \in v3.pending \cup DOMAIN v3.in_flight
    BY <1>2, ClientIs
  <1> HIDE DEF st, P
  <1>5. \/ v10' = NotFound
        \/ v10' = v10 /\ ClientOk' /\ OnItsWay(v3'.pending \cup DOMAIN v3'.in_flight, v6, v5, v7.target, v7.next, v7.left, v4)
    BY <1>1, <1>3, <1>4, ClientIs, Inserted
  <1> QED BY <1>1, <1>5, ClientSteps

LEMMA SyncTimeout ==
    ASSUME State!ConstantsOk, StateSyncOk, v10 = None, NEW request, State!PollTimeout(request)
    PROVE  v10' = NotFound \/ (v10' = v10 /\ StateSyncOk')
  <1> DEFINE P == v3.pending
             F == State!Without(v3.in_flight, {request})
             st == [v3 EXCEPT !.in_flight = F]
  <1>1. request \in DOMAIN v3.in_flight /\ UNCHANGED <<v1, v2, v4, v5, v6, v7>> /\ State!InsertRequest(request, st)
    BY Zenon DEF State!PollTimeout
  <1>2. /\ DOMAIN F = DOMAIN v3.in_flight \ {request} /\ F = [r \in DOMAIN F |-> F[r]] /\ Kept(F) \subseteq Kept(v3.in_flight)
        /\ \A r \in DOMAIN F : F[r] = v3.in_flight[r]
    <2>1. /\ DOMAIN F = DOMAIN v3.in_flight \ {request} /\ \A r \in DOMAIN v3.in_flight \ {request} : F[r] = v3.in_flight[r]
          /\ F = [r \in DOMAIN F |-> F[r]] /\ Kept(F) \subseteq Kept(v3.in_flight)
      BY WithoutIs
    <2> HIDE DEF F
    <2> QED BY <2>1
  <1> HIDE DEF F
  <1>3. st = [peers |-> v3.peers, pruned |-> v3.pruned, pending |-> P, in_flight |-> F, prefix_peers |-> v3.prefix_peers]
    BY ClientIs, ClientExcept
  <1>4. /\ P \cap DOMAIN F = {} /\ P \cup DOMAIN F = (v3.pending \cup DOMAIN v3.in_flight) \ {request}
        /\ request \in v3.pending \cup DOMAIN v3.in_flight /\ \A r \in DOMAIN F : FlightShape(F[r])
    BY <1>1, <1>2, ClientIs
  <1>5. F = [r \in DOMAIN F |-> F[r]] /\ Kept(F) \subseteq Kept(v3.in_flight) /\ State!InsertRequest(request, st)
    BY <1>1, <1>2
  <1> HIDE DEF st, P
  <1>6. \/ v10' = NotFound
        \/ v10' = v10 /\ ClientOk' /\ OnItsWay(v3'.pending \cup DOMAIN v3'.in_flight, v6, v5, v7.target, v7.next, v7.left, v4)
    BY <1>3, <1>4, <1>5, Inserted
  <1> QED BY <1>1, <1>6, ClientSteps
(* What a peer was asked for goes back to pending, or more peers are       *)
(* known: the same requests stay with the client.                          *)
LEMMA SyncRequeued ==
    ASSUME StateSyncOk, NEW S \in SUBSET DOMAIN v3.in_flight, NEW A, \A p \in DOMAIN A : A[p] \in Nat, NEW B,
           v3' = [peers |-> A, pruned |-> B, pending |-> v3.pending \cup S, in_flight |-> State!Without(v3.in_flight, S),
                  prefix_peers |-> v3.prefix_peers],
           UNCHANGED <<v1, v2, v4, v5, v6, v7, v8, v9, v10>>
    PROVE  v10' = v10 /\ StateSyncOk'
  <1> DEFINE F == State!Without(v3.in_flight, S)
             P == v3.pending \cup S
  <1>1. /\ DOMAIN F = DOMAIN v3.in_flight \ S /\ \A r \in DOMAIN v3.in_flight \ S : F[r] = v3.in_flight[r]
        /\ F = [r \in DOMAIN F |-> F[r]] /\ Kept(F) \subseteq Kept(v3.in_flight)
    BY WithoutIs
  <1>2. v3'.peers = A /\ v3'.pending = P /\ v3'.in_flight = F /\ v3'.pruned = B /\ v3'.prefix_peers = v3.prefix_peers
    OBVIOUS
  <1>3. v3' = [peers |-> v3'.peers, pruned |-> v3'.pruned, pending |-> v3'.pending, in_flight |-> v3'.in_flight, prefix_peers |-> v3'.prefix_peers]
    BY <1>2
  <1> HIDE DEF F
  <1>4. P \cap DOMAIN F = {} /\ P \cup DOMAIN F = v3.pending \cup DOMAIN v3.in_flight /\ \A r \in DOMAIN F : FlightShape(F[r])
    BY <1>1, ClientIs
  <1> HIDE DEF P
  <1>5. ClientShape(v3')
    BY <1>1, <1>2, <1>3, <1>4 DEF ClientShape
  <1>6. AnswersOk(F, v8, v9)
    BY <1>1, ClientIs, AnswersKept
  <1>7. ClientOk'
    BY <1>2, <1>5, <1>6 DEF ClientOk
  <1> QED BY <1>2, <1>4, <1>7, ClientIs, ClientSteps

LEMMA RequeuedIs ==
    ASSUME StateSyncOk, NEW S, NEW A, NEW B
    PROVE  LET P == v3.pending \cup S F == State!Without(v3.in_flight, S) IN
           /\ [State!Requeue(v3, S) EXCEPT !.peers = A] =
                [peers |-> A, pruned |-> v3.pruned, pending |-> P, in_flight |-> F, prefix_peers |-> v3.prefix_peers]
           /\ [State!Requeue(v3, S) EXCEPT !.peers = A, !.pruned = B] =
                [peers |-> A, pruned |-> B, pending |-> P, in_flight |-> F, prefix_peers |-> v3.prefix_peers]
           /\ State!Requeue(v3, S).peers = v3.peers /\ State!Requeue(v3, S).pruned = v3.pruned
  <1> DEFINE P == v3.pending \cup S
             F == State!Without(v3.in_flight, S)
             a == v3.peers b == v3.pruned p == v3.pending f == v3.in_flight q == v3.prefix_peers
             c == State!Requeue(v3, S)
             w == [v3 EXCEPT !.in_flight = F]
             x == [c EXCEPT !.peers = A]
  <1>1. c = [w EXCEPT !.pending = P] /\ [c EXCEPT !.peers = A, !.pruned = B] = [x EXCEPT !.pruned = B]
    <2>1. c = [v3 EXCEPT !.in_flight = State!Without(v3.in_flight, S), !.pending = v3.pending \cup S]
      BY Zenon DEF State!Requeue
    <2> QED BY <2>1, Zenon
  <1>2. v3 = [peers |-> a, pruned |-> b, pending |-> p, in_flight |-> f, prefix_peers |-> q]
    BY ClientIs
  <1> HIDE DEF a, b, p, f, q, F, P, c
  <1>3. w = [peers |-> a, pruned |-> b, pending |-> p, in_flight |-> F, prefix_peers |-> q]
    BY <1>2
  <1> HIDE DEF w
  <1>4. c = [peers |-> a, pruned |-> b, pending |-> P, in_flight |-> F, prefix_peers |-> q]
    BY <1>1, <1>3
  <1>5. x = [peers |-> A, pruned |-> b, pending |-> P, in_flight |-> F, prefix_peers |-> q]
    BY <1>4
  <1>6. c.peers = a /\ c.pruned = b
    BY <1>4
  <1> HIDE DEF x
  <1>7. [x EXCEPT !.pruned = B] = [peers |-> A, pruned |-> B, pending |-> P, in_flight |-> F, prefix_peers |-> q]
    BY <1>5
  <1> QED BY <1>1, <1>5, <1>6, <1>7, Zenon DEF x, c, P, F, a, b, q
LEMMA SyncRefused ==
    ASSUME StateSyncOk, NEW peer, \/ State!HandleNotWhitelisted(peer)
                             \/ \E v \in Nat : State!HandleBadVersion(peer, v, v)
    PROVE  v10' = v10 /\ StateSyncOk'
  <1> DEFINE Less == State!Without(v3.peers, {peer})
             Known(A) == \A p \in DOMAIN A : A[p] \in Nat
  <1>1. Known(Less)
    <2>1. DOMAIN Less = DOMAIN v3.peers \ {peer} /\ \A p \in DOMAIN v3.peers \ {peer} : Less[p] = v3.peers[p]
      BY WithoutIs
    <2> HIDE DEF Less
    <2> QED BY <2>1, ClientIs
  <1>2. ASSUME NEW v PROVE State!AskedOf(peer, v) \in SUBSET DOMAIN v3.in_flight
    BY DEF State!AskedOf
  <1>3. ASSUME NEW v, v3' = [State!Requeue(v3, State!AskedOf(peer, v)) EXCEPT !.peers = State!Without(@, {peer}), !.pruned = @ \cup {peer}],
               UNCHANGED <<v1, v2, v4, v5, v6, v7, v8, v9, v10>>
        PROVE  v10' = v10 /\ StateSyncOk'
    <2> DEFINE S == State!AskedOf(peer, v)
               B == v3.pruned \cup {peer}
    <2>1. State!Requeue(v3, S).peers = v3.peers /\ State!Requeue(v3, S).pruned = v3.pruned
      BY RequeuedIs
    <2>2. v3' = [State!Requeue(v3, S) EXCEPT !.peers = Less, !.pruned = B]
      BY <1>3, <2>1, Zenon
    <2> HIDE DEF Less, B, S
    <2>3. v3' = [peers |-> Less, pruned |-> B, pending |-> v3.pending \cup S, in_flight |-> State!Without(v3.in_flight, S),
                 prefix_peers |-> v3.prefix_peers]
      BY <2>2, RequeuedIs
    <2>4. S \in SUBSET DOMAIN v3.in_flight
      BY <1>2 DEF S
    <2> QED BY <1>1, <1>3, <2>3, <2>4, SyncRequeued
  <1>4. ASSUME NEW v \in Nat, v3' = [State!Requeue(v3, State!AskedOf(peer, v)) EXCEPT !.peers = State!Put(@, peer, v)],
               UNCHANGED <<v1, v2, v4, v5, v6, v7, v8, v9, v10>>
        PROVE  v10' = v10 /\ StateSyncOk'
    <2> DEFINE S == State!AskedOf(peer, v)
               A == State!Put(v3.peers, peer, v)
    <2>1. State!Requeue(v3, S).peers = v3.peers
      BY RequeuedIs
    <2>2. v3' = [State!Requeue(v3, S) EXCEPT !.peers = A]
      BY <1>4, <2>1, Zenon
    <2>3. Known(A)
      <3>1. DOMAIN A = DOMAIN v3.peers \cup {peer} /\ \A p \in DOMAIN v3.peers \cup {peer} : A[p] = IF p = peer THEN v ELSE v3.peers[p]
        BY DEF State!Put
      <3> HIDE DEF A
      <3> QED BY <3>1, ClientIs
    <2> HIDE DEF A, S
    <2>4. v3' = [peers |-> A, pruned |-> v3.pruned, pending |-> v3.pending \cup S, in_flight |-> State!Without(v3.in_flight, S),
                 prefix_peers |-> v3.prefix_peers]
      BY <2>2, RequeuedIs
    <2>5. S \in SUBSET DOMAIN v3.in_flight
      BY <1>2 DEF S
    <2> QED BY <1>4, <2>3, <2>4, <2>5, SyncRequeued
  <1>5. CASE State!HandleNotWhitelisted(peer)
    <2>1. /\ v3' = [State!Requeue(v3, State!AskedOf(peer, 0)) EXCEPT !.peers = State!Without(@, {peer}), !.pruned = @ \cup {peer}]
          /\ UNCHANGED <<v1, v2, v4, v5, v6, v7, v8, v9, v10>>
      BY <1>5, Zenon DEF State!HandleNotWhitelisted
    <2> QED BY <1>3, <2>1
  <1>6. ASSUME NEW v \in Nat, State!HandleBadVersion(peer, v, v)
        PROVE  v10' = v10 /\ StateSyncOk'
    <2>1. /\ \/ v3' = [State!Requeue(v3, State!AskedOf(peer, v)) EXCEPT !.peers = State!Without(@, {peer}), !.pruned = @ \cup {peer}]
             \/ v3' = [State!Requeue(v3, State!AskedOf(peer, v)) EXCEPT !.peers = State!Put(@, peer, v)]
          /\ UNCHANGED <<v1, v2, v4, v5, v6, v7, v8, v9, v10>>
      BY <1>6, Zenon DEF State!HandleBadVersion
    <2> QED BY <1>3, <1>4, <2>1
  <1> QED BY <1>5, <1>6

LEMMA SyncExpanded ==
    ASSUME StateSyncOk, NEW S, State!ExpandUpstreamPeers(S)
    PROVE  v10' = v10 /\ StateSyncOk'
  <1> DEFINE new == S \ (DOMAIN v3.peers \cup v3.pruned)
             A == [p \in DOMAIN v3.peers \cup new |-> IF p \in new THEN State!SELF_STATESYNC_VERSION ELSE v3.peers[p]]
  <1>1. v3' = [v3 EXCEPT !.peers = A] /\ UNCHANGED <<v1, v2, v4, v5, v6, v7, v8, v9, v10>>
    BY Zenon DEF State!ExpandUpstreamPeers
  <1>2. \A p \in DOMAIN A : A[p] \in Nat
    BY ClientIs DEF State!SELF_STATESYNC_VERSION
  <1> HIDE DEF A
  <1>3. v3' = [peers |-> A, pruned |-> v3.pruned, pending |-> v3.pending, in_flight |-> v3.in_flight, prefix_peers |-> v3.prefix_peers]
    BY <1>1, ClientIs, ClientExcept
  <1>4. v3'.peers = A /\ v3'.pending = v3.pending /\ v3'.in_flight = v3.in_flight /\ v3'.pruned = v3.pruned /\ v3'.prefix_peers = v3.prefix_peers
    BY <1>3
  <1>5. ClientShape(v3')
    BY <1>2, <1>3, <1>4, ClientIs DEF ClientShape
  <1>6. ClientOk'
    BY <1>1, <1>4, <1>5, ClientIs DEF ClientOk
  <1> QED BY <1>1, <1>4, <1>6, ClientIs, ClientSteps
(* What is handed over for a request.                                      *)
LEMMA HandedOver ==
    ASSUME NEW t, NEW L, NEW m, m.request \in AskedFor(t, L), NEW add, HandsOver(add, m)
    PROVE  /\ add \in Seq(Pieces(t, L)) /\ PiecesInOrder(add, m.request)
           /\ (add # <<>> /\ add[Len(add)].last) <=> Whole(add)
  <1> DEFINE r == m.request
             R == [response : {r}, last : BOOLEAN]
  <1>1. add \in Seq(R) /\ (\A i \in DOMAIN add : add[i].last => i = Len(add)) /\ r \in AskedFor(t, L)
    BY Zenon DEF HandsOver
  <1> HIDE DEF r
  <1>2. \A x \in R : x.response = r /\ x \in Pieces(t, L)
    BY <1>1 DEF Pieces
  <1> HIDE DEF R
  <1>3. \A i \in DOMAIN add : add[i] \in R
    BY <1>1, SeqOver
  <1>4. \A i \in DOMAIN add : add[i].response = r /\ add[i] \in Pieces(t, L)
    BY <1>2, <1>3
  <1>5. add \in Seq(Pieces(t, L))
    BY <1>1, <1>4, SeqOver
  <1>6. PiecesInOrder(add, r)
    BY <1>1, <1>4, Zenon DEF PiecesInOrder
  <1>7. add # <<>> => Len(add) \in DOMAIN add
    BY <1>1
  <1>8. add = <<>> => DOMAIN add = {}
    OBVIOUS
  <1>9. (add # <<>> /\ add[Len(add)].last) <=> Whole(add)
    BY <1>1, <1>7, <1>8, Zenon DEF Whole
  <1> QED BY <1>5, <1>6, <1>9 DEF r

LEMMA SyncAnswered ==
    ASSUME State!ConstantsOk, StateSyncOk, NEW m \in v8, NEW r \in v3.pending \cup DOMAIN v3.in_flight, NEW q, NEW f2,
           DOMAIN f2 \subseteq DOMAIN v3.in_flight, Flights(f2), Kept(f2) \subseteq Kept(v3.in_flight) \cup {m},
           NEW add \in Seq(Pieces(v7.target, v7.left)), PiecesInOrder(add, r),
           v3.pending \cup DOMAIN f2 = IF Whole(add) THEN (v3.pending \cup DOMAIN v3.in_flight) \ {r} ELSE v3.pending \cup DOMAIN v3.in_flight,
           v3' = [peers |-> v3.peers, pruned |-> v3.pruned, pending |-> v3.pending, in_flight |-> f2, prefix_peers |-> q],
           v5' = v5 \o add, v8' = v8 \ {m}, UNCHANGED <<v1, v2, v4, v6, v7, v9>>
    PROVE  StateSyncOk'
  <1> DEFINE U2 == v3.pending \cup DOMAIN f2
  <1>1. OnItsWay(U2, v6, v5 \o add, v7.target, v7.next, v7.left, v4)
    <2> DEFINE U == v3.pending \cup DOMAIN v3.in_flight
    <2>1. OnItsWay(U, v6, v5, v7.target, v7.next, v7.left, v4)
      BY ClientIs
    <2>2. /\ r \in U /\ \A i \in DOMAIN add : add[i].response = r /\ (add[i].last => i = Len(add))
          /\ \/ U2 = U /\ \A i \in DOMAIN add : ~add[i].last
             \/ U2 = U \ {r} /\ \E i \in DOMAIN add : add[i].last
      BY Zenon DEF PiecesInOrder, Whole
    <2> HIDE DEF U, U2
    <2> QED BY <2>1, <2>2, PiecesReceived, Zenon
  <1>2. v3'.peers = v3.peers /\ v3'.pending = v3.pending /\ v3'.in_flight = f2 /\ v3'.pruned = v3.pruned /\ v3'.prefix_peers = q
    OBVIOUS
  <1>3. ClientShape(v3')
    <2>1. v3.pending \cap DOMAIN f2 = {}
      BY ClientIs
    <2> QED BY <1>2, <2>1, ClientIs DEF ClientShape, Flights
  <1>4. AnswersOk(f2, v8', v9)
    <2>1. v8' \subseteq v8 /\ v8 \ v8' = {m}
      OBVIOUS
    <2> QED BY <2>1, ClientIs, AnswersKept
  <1>5. ClientOk'
    BY <1>2, <1>3, <1>4 DEF ClientOk
  <1>6. NodeOk' /\ ThreadOk'
    BY ClientIs DEF NodeOk, ThreadOk
  <1>7. OnItsWay(v3.pending \cup DOMAIN v3.in_flight, v6, v5, v7.target, v7.next, v7.left, v4)'
    BY SMTT(30), <1>1, <1>2
  <1> QED BY <1>5, <1>6, <1>7 DEF StateSyncOk

LEMMA SyncResponse ==
    ASSUME State!ConstantsOk, StateSyncOk, NEW m, NEW late, State!HandleResponse(m, late)
    PROVE  v10' = v10 /\ StateSyncOk'
  <1> DEFINE q == State!Put(v3.prefix_peers, m.request.prefix, m.from)
             a == State!ApplyResponse(v3.in_flight[m.request], m, late)
             finished == a.out # <<>> /\ State!Last(a.out).last
             f2 == IF finished THEN State!Without(v3.in_flight, {m.request}) ELSE State!Put(v3.in_flight, m.request, a.f)
  <1>1. m \in v8 /\ v8' = v8 \ {m} /\ UNCHANGED <<v1, v2, v4, v6, v7, v9>>
    BY Zenon DEF State!HandleResponse
  <1>2. \/ v3' = v3 /\ v5' = v5 /\ v10' = v10
        \/ v3' = [v3 EXCEPT !.prefix_peers = q] /\ v5' = v5 /\ v10' = v10
        \/ /\ m.request \in DOMAIN v3.in_flight /\ v3' = [v3 EXCEPT !.prefix_peers = q, !.in_flight = f2] /\ v5' = v5 \o a.out
           /\ State!Check(~a.duplicate, "server sent duplicate response_index")
    BY Zenon DEF State!HandleResponse
  <1>3. ASSUME NEW x, v3' = v3 \/ v3' = [v3 EXCEPT !.prefix_peers = x], v5' = v5
        PROVE  StateSyncOk'
    <2>1. \/ v3' = v3
          \/ v3' = [peers |-> v3.peers, pruned |-> v3.pruned, pending |-> v3.pending, in_flight |-> v3.in_flight, prefix_peers |-> x]
      BY <1>3, ClientIs, ClientExcept
    <2>2. v3'.peers = v3.peers /\ v3'.pending = v3.pending /\ v3'.in_flight = v3.in_flight
      BY <2>1
    <2>3. ClientShape(v3')
      BY <2>1, <2>2, ClientIs DEF ClientShape
    <2>4. AnswersOk(v3.in_flight, v8', v9)
      BY <1>1, ClientIs, AnswersKept
    <2>5. ClientOk'
      BY <1>1, <2>2, <2>3, <2>4 DEF ClientOk
    <2> QED BY <1>1, <1>3, <2>2, <2>5, ClientIs, ClientSteps
  <1>4. ASSUME m.request \in DOMAIN v3.in_flight, v3' = [v3 EXCEPT !.prefix_peers = q, !.in_flight = f2], v5' = v5 \o a.out,
               State!Check(~a.duplicate, "server sent duplicate response_index")
        PROVE  v10' = v10 /\ StateSyncOk'
    <2> DEFINE w == [v3 EXCEPT !.prefix_peers = q]
               r == m.request
               f == v3.in_flight[r]
               U == v3.pending \cup DOMAIN v3.in_flight
               t == v7.target
               L == v7.left
               add == a.out
               fl == a.f
               done == add # <<>> /\ add[Len(add)].last
    <2>1. v3' = [w EXCEPT !.in_flight = f2] /\ v5' = v5 \o add
      BY <1>4, Zenon
    <2>2. IF done THEN f2 = State!Without(v3.in_flight, {r}) ELSE f2 = State!Put(v3.in_flight, r, fl)
      BY Zenon DEF State!Last
    <2>3. a = State!ApplyResponse(f, m, late)
      BY Zenon
    <2> HIDE DEF a, f2, q
    <2>4. v3' = [peers |-> v3.peers, pruned |-> v3.pruned, pending |-> v3.pending, in_flight |-> f2, prefix_peers |-> q]
      <3>1. w = [peers |-> v3.peers, pruned |-> v3.pruned, pending |-> v3.pending, in_flight |-> v3.in_flight, prefix_peers |-> q]
        BY ClientIs, ClientExcept
      <3> HIDE DEF w
      <3> QED BY <2>1, <3>1
    <2>5. FlightShape(f) /\ f.responses \subseteq Kept(v3.in_flight) /\ r \in U
      BY <1>4, ClientIs DEF Kept
    <2>6. IsNew(f, m)
      <3>1. AnswersOk(v3.in_flight, v8, v9) /\ f.responses \cup {m} \subseteq v8 \cup Kept(v3.in_flight)
        BY <1>1, <2>5, ClientIs
      <3> HIDE DEF f
      <3> QED BY <1>1, <2>5, <3>1 DEF AnswersOk, IsNew
    <2>7. r \in AskedFor(t, L)
      BY <2>5, ClientIs DEF OnItsWay
    <2>8. FlightShape(fl) /\ fl.responses \subseteq f.responses \cup {m} /\ ~a.duplicate /\ HandsOver(add, m)
      <3> HIDE DEF f
      <3> QED BY <2>3, <2>5, <2>6, ApplyIs
    <2> HIDE DEF f, fl, add, w
    <2>9. add \in Seq(Pieces(t, L)) /\ PiecesInOrder(add, r) /\ (done <=> Whole(add))
      BY <2>7, <2>8, HandedOver
    <2>10. r \in DOMAIN v3.in_flight
      BY <1>4
    <2> HIDE DEF r
    <2>11. /\ v3.pending \cup DOMAIN f2 = (IF Whole(add) THEN U \ {r} ELSE U) /\ DOMAIN f2 \subseteq DOMAIN v3.in_flight
           /\ Kept(f2) \subseteq Kept(v3.in_flight) \cup {m} /\ Flights(f2)
      <3>1. CASE done
        <4> DEFINE W == State!Without(v3.in_flight, {r})
        <4>1. f2 = W /\ Whole(add)
          BY <2>2, <2>9, <3>1, Zenon
        <4>2. /\ DOMAIN W = DOMAIN v3.in_flight \ {r} /\ \A x \in DOMAIN v3.in_flight \ {r} : W[x] = v3.in_flight[x]
              /\ W = [x \in DOMAIN W |-> W[x]] /\ Kept(W) \subseteq Kept(v3.in_flight)
          BY WithoutIs
        <4> HIDE DEF W
        <4> QED BY <2>10, <4>1, <4>2, ClientIs DEF Flights
      <3>2. CASE ~done
        <4> DEFINE W == State!Put(v3.in_flight, r, fl)
        <4>1. f2 = W /\ ~Whole(add)
          BY <2>2, <2>9, <3>2, Zenon
        <4>2. /\ DOMAIN W = DOMAIN v3.in_flight \cup {r} /\ \A x \in DOMAIN v3.in_flight \cup {r} : W[x] = IF x = r THEN fl ELSE v3.in_flight[x]
              /\ W = [x \in DOMAIN W |-> W[x]] /\ Kept(W) \subseteq Kept(v3.in_flight) \cup fl.responses
          BY PutIs
        <4> HIDE DEF W, done
        <4> QED BY <2>5, <2>8, <2>10, <4>1, <4>2, ClientIs DEF Flights
      <3> QED BY <3>1, <3>2
    <2>13. StateSyncOk'
      BY <1>1, <2>1, <2>4, <2>5, <2>9, <2>11, SyncAnswered, Zenon
    <2>14. v10' = v10
      BY <1>4, <2>8, Checked
    <2> QED BY <2>13, <2>14
  <1> QED BY <1>2, <1>3, <1>4
-----------------------------------------------------------------------------
(* The steps of the thread.                                                *)
LEMMA ThreadSteps ==
    ASSUME StateSyncOk, NEW t, NEW next, NEW L, v7' = [target |-> t, next |-> next, left |-> L], UNCHANGED <<v1, v2, v3, v4, v8, v9>>,
           OnItsWay(v3.pending \cup DOMAIN v3.in_flight, v6', v5', t, next, L, v4)
    PROVE  StateSyncOk'
  <1>1. v7'.target = t /\ v7'.next = next /\ v7'.left = L
    OBVIOUS
  <1>2. NodeOk' /\ ClientOk'
    BY ClientIs DEF NodeOk, ClientOk
  <1>3. ThreadOk'
    BY <1>1 DEF ThreadOk
  <1> QED BY <1>1, <1>2, <1>3 DEF StateSyncOk

LEMMA ThreadBegins ==
    ASSUME State!ConstantsOk, StateSyncOk, NEW t, NEW next, NEW n \in Nat \ {0}, n <= v4, State!Begin(n), UNCHANGED <<v1, v2, v3, v4, v8, v9>>,
           OnItsWay(v3.pending \cup DOMAIN v3.in_flight, v6, v5', t, next, {}, v4),
           \A j \in DOMAIN v5' : v5'[j] \in NewTargets => n < v5'[j].target,
           \A i \in DOMAIN v6 : v6[i] \in Dones => v6[i].done < n
    PROVE  StateSyncOk'
  <1> DEFINE U == v3.pending \cup DOMAIN v3.in_flight
             new == [i \in 1..behind.num_prefixes |-> State!Request(i - 1, n)]
  <1>1. v7' = [target |-> n, next |-> 0, left |-> State!Prefix] /\ v6' = v6 \o new
    BY Zenon DEF State!Begin
  <1>2. OnItsWay(U, v6 \o new, v5', n, 0, State!Prefix, v4)
    BY TargetBegun
  <1> HIDE DEF new
  <1> QED BY <1>1, <1>2, ThreadSteps

LEMMA SyncTargets ==
    ASSUME State!ConstantsOk, StateSyncOk, State!ThreadTakes, Head(v5) \in NewTargets
    PROVE  v10' = v10 /\ StateSyncOk'
  <1> DEFINE U == v3.pending \cup DOMAIN v3.in_flight
             n == Head(v5).target
  <1>1. v5 # <<>> /\ v5' = Tail(v5) /\ UNCHANGED <<v1, v2, v3, v4, v8, v9>>
    BY Zenon DEF State!ThreadTakes
  <1>2. /\ v10' = v10
        /\ IF v7.target = 0 THEN State!Begin(n) ELSE v7' = [v7 EXCEPT !.next = n] /\ v6' = v6
    <2>1. "target" \in DOMAIN Head(v5)
      BY SyncKinds
    <2> QED BY <2>1, Zenon DEF State!ThreadTakes
  <1>3. /\ OnItsWay(U, v6, Tail(v5), v7.target, v7.next, v7.left, v4)
        /\ n \in Nat /\ n > v7.target /\ n > v7.next /\ n <= v4
        /\ \A j \in DOMAIN Tail(v5) : Tail(v5)[j] \in NewTargets => n < Tail(v5)[j].target
        /\ \A i \in DOMAIN v6 : v6[i] \in Dones => v6[i].done < n
    BY <1>1, ClientIs, TargetTaken
  <1> HIDE DEF n
  <1>4. v7.target \in Nat /\ (v7.target = 0 => v7.left = {})
    BY <1>3 DEF OnItsWay
  <1>5. CASE v7.target = 0
    <2>1. n \in Nat \ {0} /\ v7.left = {}
      BY <1>3, <1>4, <1>5
    <2>2. OnItsWay(U, v6, v5', v7.target, v7.next, {}, v4)
      BY <1>1, <1>3, <2>1
    <2>3. State!Begin(n)
      BY <1>2, <1>5, Zenon
    <2> HIDE DEF U
    <2>4. /\ \A j \in DOMAIN v5' : v5'[j] \in NewTargets => n < v5'[j].target
          /\ \A i \in DOMAIN v6 : v6[i] \in Dones => v6[i].done < n
      BY <1>1, <1>3, Zenon
    <2> USE DEF U
    <2> QED BY <1>1, <1>2, <1>3, <2>1, <2>2, <2>3, <2>4, ThreadBegins
  <1>6. CASE v7.target # 0
    <2>1. v7' = [v7 EXCEPT !.next = n] /\ v6' = v6
      BY <1>2, <1>6, Zenon
    <2> DEFINE t == v7.target o == v7.next L == v7.left
    <2>2. v7 = [target |-> t, next |-> o, left |-> L]
      BY ClientIs DEF ThreadOk
    <2>3. OnItsWay(U, v6, Tail(v5), t, n, L, v4)
      BY <1>3, <1>6, TargetKept
    <2> HIDE DEF t, o, L
    <2>4. v7' = [target |-> t, next |-> n, left |-> L]
      BY <2>1, <2>2
    <2>5. OnItsWay(U, v6', v5', t, n, L, v4)
      BY <1>1, <2>1, <2>3
    <2> QED BY <1>1, <1>2, <2>4, <2>5, ThreadSteps
  <1> QED BY <1>5, <1>6

LEMMA SyncPieces ==
    ASSUME State!ConstantsOk, StateSyncOk, State!ThreadTakes, Head(v5) \in Pieces(v7.target, v7.left)
    PROVE  v10' = v10 /\ StateSyncOk'
  <1> DEFINE U == v3.pending \cup DOMAIN v3.in_flight
             m == Head(v5)
             t == v7.target
             o == v7.next
             left == IF m.last THEN v7.left \ {m.response.prefix} ELSE v7.left
  <1>1. v5 # <<>> /\ v5' = Tail(v5) /\ UNCHANGED <<v1, v2, v3, v4, v8, v9>>
    BY Zenon DEF State!ThreadTakes
  <1>2. "target" \notin DOMAIN m /\ m.response.target = t
    BY SyncKinds
  <1>3. State!Check(t = m.response.target, "response without target")
    BY <1>2, Zenon DEF State!ThreadTakes
  <1>4. v10' = v10
    BY <1>2, <1>3, Checked
  <1>5. IF left # {} THEN v7' = [v7 EXCEPT !.left = left] /\ v6' = v6
        ELSE IF o # 0 THEN State!Begin(o)
        ELSE v7' = [target |-> 0, next |-> 0, left |-> {}] /\ v6' = Append(v6, [done |-> t])
    BY <1>2, Zenon DEF State!ThreadTakes
  <1>6. OnItsWay(U, v6, Tail(v5), t, o, left, v4) /\ t # 0 /\ \A i \in DOMAIN v6 : v6[i] \notin Dones
    <2> DEFINE L == v7.left
    <2>1. OnItsWay(U, v6, v5, t, o, L, v4) /\ Head(v5) \in Pieces(t, L)
      BY ClientIs
    <2>2. left = IF Head(v5).last THEN L \ {Head(v5).response.prefix} ELSE L
      BY Zenon
    <2> HIDE DEF U, t, o, L, left
    <2> QED BY <1>1, <2>1, <2>2, PieceTaken, Zenon
  <1>7. v7 = [target |-> t, next |-> o, left |-> v7.left]
    BY ClientIs DEF ThreadOk
  <1> HIDE DEF left, t, o, m
  <1>8. OnItsWay(U, v6, v5', t, o, left, v4)
    BY <1>1, <1>6
  <1>9. CASE left # {}
    <2>1. v7' = [v7 EXCEPT !.left = left] /\ v6' = v6
      BY <1>5, <1>9, Zenon
    <2>2. v7' = [target |-> t, next |-> o, left |-> left]
      BY <1>7, <2>1
    <2>3. OnItsWay(U, v6', v5', t, o, left, v4)
      BY <1>8, <2>1
    <2> QED BY <1>1, <1>4, <2>2, <2>3, ThreadSteps
  <1>10. CASE left = {} /\ o # 0
    <2>1. State!Begin(o)
      BY <1>5, <1>10, Zenon
    <2>2. OnItsWay(U, v6, v5', t, o, {}, v4)
      BY <1>8, <1>10
    <2>3. o \in Nat \ {0} /\ o <= v4 /\ Following(v5', t, o, v4)
      BY <1>10, <2>2 DEF OnItsWay, Following
    <2>4. \A j \in DOMAIN v5' : v5'[j] \in NewTargets => o < v5'[j].target
      <3> SUFFICES ASSUME NEW j \in DOMAIN v5', v5'[j] \in NewTargets PROVE o < v5'[j].target
        OBVIOUS
      <3>1. v5'[j].target > o
        BY <2>3 DEF Following
      <3>2. v5'[j].target \in Nat
        BY SyncKinds
      <3> QED BY <2>3, <3>1, <3>2
    <2>5. \A i \in DOMAIN v6 : v6[i] \in Dones => v6[i].done < o
      BY <1>6
    <2> QED BY <1>1, <1>4, <2>1, <2>2, <2>3, <2>4, <2>5, ThreadBegins
  <1>11. CASE left = {} /\ o = 0
    <2>1. v7' = [target |-> 0, next |-> 0, left |-> {}] /\ v6' = Append(v6, [done |-> t])
      BY <1>5, <1>11, Zenon
    <2>2. v6 = <<>>
      <3>1. v6 \in Seq(Dones) /\ \A i \in DOMAIN v6 : v6[i] \in Dones
        BY <1>8, <1>11, NothingLeft
      <3>2. DOMAIN v6 = {}
        BY <1>6, <3>1
      <3> QED BY <3>1, <3>2, TailIs
    <2>3. OnItsWay(U, <<>>, v5', t, 0, {}, v4)
      BY <1>8, <1>11, <2>2
    <2>4. OnItsWay(U, <<[done |-> t]>>, v5', 0, 0, {}, v4)
      BY <1>6, <2>3, TargetDone
    <2>5. v6' = <<[done |-> t]>>
      BY <2>1, <2>2
    <2>6. OnItsWay(U, v6', v5', 0, 0, {}, v4)
      BY <2>4, <2>5, Zenon
    <2> QED BY <1>1, <1>4, <2>1, <2>6, ThreadSteps
  <1> QED BY <1>9, <1>10, <1>11
-----------------------------------------------------------------------------
LEMMA SyncUnchanged == ASSUME SyncInv, UNCHANGED <<v1, v2, v3, v4, v5, v6, v7, v8, v9, v10>> PROVE SyncInv'
  <1>1. CASE v10 = None
    <2>1. StateSyncOk
      BY <1>1 DEF SyncInv
    <2>2. NodeOk' /\ ClientOk' /\ ThreadOk'
      BY <2>1, ClientIs DEF NodeOk, ClientOk, ThreadOk
    <2>3. OnItsWay(v3.pending \cup DOMAIN v3.in_flight, v6, v5, v7.target, v7.next, v7.left, v4)'
      BY <2>1, ClientIs
    <2>4. StateSyncOk'
      BY <2>2, <2>3 DEF StateSyncOk
    <2> QED BY <1>1, <2>4 DEF SyncInv
  <1>2. CASE v10 # None
    BY <1>2 DEF SyncInv
  <1> QED BY <1>1, <1>2

LEMMA SyncInit == State!ConstantsOk /\ State!Init => SyncInv
  <1> SUFFICES ASSUME State!Init PROVE SyncInv
    OBVIOUS
  <1> DEFINE peers == [p \in behind.Peer |-> State!SELF_STATESYNC_VERSION]
  <1>1. /\ v1 = [mode |-> "Sync", root |-> 1, blocks |-> FALSE, db_status |-> "Waiting", updating_target |-> FALSE]
        /\ v2 = <<>> /\ v4 = 0 /\ v5 = <<>> /\ v6 = <<>> /\ v8 = {} /\ v9 = 0 /\ v10 = None
        /\ v3 = [peers |-> peers, pruned |-> {}, pending |-> {}, in_flight |-> <<>>, prefix_peers |-> <<>>]
        /\ v7 = [target |-> 0, next |-> 0, left |-> {}]
    BY Zenon DEF State!Init
  <1>2. NodeOk /\ ThreadOk
    BY <1>1 DEF NodeOk, NodeStates, ThreadOk
  <1>3. \A p \in DOMAIN peers : peers[p] \in Nat
    BY DEF State!SELF_STATESYNC_VERSION
  <1> HIDE DEF peers
  <1>4. v3.peers = peers /\ v3.pending = {} /\ v3.in_flight = <<>> /\ v3.pruned = {} /\ v3.prefix_peers = <<>>
    BY <1>1
  <1>5. DOMAIN v3.in_flight = {} /\ v3.in_flight = [r \in DOMAIN v3.in_flight |-> v3.in_flight[r]]
    BY <1>4
  <1>6. ClientShape(v3)
    BY <1>1, <1>3, <1>4, <1>5 DEF ClientShape
  <1>7. AnswersOk(v3.in_flight, v8, v9)
    BY <1>1, <1>5 DEF AnswersOk, Kept
  <1>8. OnItsWay({}, <<>>, <<>>, 0, 0, {}, 0)
    BY DEF OnItsWay, Following, DoneAt, Once, AllAsked
  <1>9. OnItsWay(v3.pending \cup DOMAIN v3.in_flight, v6, v5, v7.target, v7.next, v7.left, v4)
    <2>1. v7.target = 0 /\ v7.next = 0 /\ v7.left = {} /\ v3.pending \cup DOMAIN v3.in_flight = {}
      BY <1>1, <1>4, <1>5
    <2> QED BY <1>1, <1>8, <2>1
  <1> QED BY <1>1, <1>2, <1>6, <1>7, <1>9 DEF SyncInv, StateSyncOk, ClientOk

LEMMA SyncNext == ASSUME State!ConstantsOk, SyncInv, State!Next PROVE SyncInv'
  <1>1. v10 = None
    BY Zenon DEF State!Next, State!BlocksArrive, State!HandleProposal, State!RequestSync, State!PollThread, State!PollPending,
                 State!PollTimeout, State!HandleResponse, State!HandleNotWhitelisted, State!HandleBadVersion, State!ExpandUpstreamPeers,
                 State!ThreadTakes, State!Syncing, State!Running
  <1>2. StateSyncOk
    BY <1>1 DEF SyncInv
  <1>3. SUFFICES v10' = NotFound \/ (v10' = v10 /\ StateSyncOk')
    <2>1. NotFound # None
      BY Zenon DEF NotFound, State!ConstantsOk
    <2> QED BY <1>1, <1>3, <2>1 DEF SyncInv
  <1>4. CASE State!BlocksArrive
    BY <1>2, <1>4, SyncBlocks
  <1>5. CASE \E r \in 1..behind.Targets : State!HandleProposal(r)
    BY <1>2, <1>5, SyncProposal
  <1>6. CASE \E blocks \in BOOLEAN : State!RequestSync(blocks)
    BY <1>2, <1>6, SyncRequested
  <1>7. CASE State!PollThread
    <2>1. v6 # <<>>
      BY <1>7, Zenon DEF State!PollThread
    <2>2. Head(v6) \in AskedFor(v7.target, v7.left) \cup Dones
      BY <1>2, <2>1, ClientIs, HeadTailProperties
    <2> QED BY <1>1, <1>2, <1>7, <2>1, <2>2, DonesPolled, RequestsPolled
  <1>8. CASE State!PollPending
    BY <1>1, <1>2, <1>8, SyncPending
  <1>9. CASE \E r \in DOMAIN v3.in_flight : State!PollTimeout(r)
    BY <1>1, <1>2, <1>9, SyncTimeout
  <1>10. CASE \E m \in v8, late \in BOOLEAN : State!HandleResponse(m, late)
    BY <1>2, <1>10, SyncResponse
  <1>11. CASE \E p \in behind.Peer : State!HandleNotWhitelisted(p)
    BY <1>2, <1>11, SyncRefused
  <1>12. CASE \E p \in behind.Peer, v \in {0, 1, State!SELF_STATESYNC_VERSION + 1} : State!HandleBadVersion(p, v, v)
    <2>1. {0, 1, State!SELF_STATESYNC_VERSION + 1} \subseteq Nat
      BY DEF State!SELF_STATESYNC_VERSION
    <2> QED BY <1>2, <1>12, <2>1, SyncRefused
  <1>13. CASE \E S \in SUBSET behind.Peer : State!ExpandUpstreamPeers(S)
    BY <1>2, <1>13, SyncExpanded
  <1>14. CASE State!ThreadTakes
    <2>1. v5 # <<>>
      BY <1>14, Zenon DEF State!ThreadTakes
    <2>2. v5 \in Seq(NewTargets \cup Pieces(v7.target, v7.left))
      BY <1>2, ClientIs DEF OnItsWay
    <2>3. Head(v5) \in NewTargets \cup Pieces(v7.target, v7.left)
      BY <2>1, <2>2, HeadTailProperties
    <2> QED BY <1>2, <1>14, <2>3, SyncTargets, SyncPieces
  <1> QED BY <1>4, <1>5, <1>6, <1>7, <1>8, <1>9, <1>10, <1>11, <1>12, <1>13, <1>14, Zenon DEF State!Next

(* State sync is somewhere on this way for every number of peers,          *)
(* prefixes, responses and targets.                                        *)
THEOREM SyncInvariance == ASSUME State!ConstantsOk PROVE State!Spec => []SyncInv
  <1>1. State!Init => SyncInv
    BY SyncInit
  <1>2. SyncInv /\ [State!Next]_State!vars => SyncInv'
    <2>1. SyncInv /\ State!Next => SyncInv'
      BY SyncNext
    <2>2. SyncInv /\ UNCHANGED State!vars => SyncInv'
      BY SyncUnchanged DEF State!vars
    <2> QED BY <2>1, <2>2
  <1> QED BY <1>1, <1>2, PTL DEF State!Spec

LEMMA InOnePlace ==
    ASSUME State!ConstantsOk, StateSyncOk, NEW p \in v7.left
    PROVE  \E x \in State!Places(p) : State!Places(p) = {x}
  <1> DEFINE U == v3.pending \cup DOMAIN v3.in_flight
             t == v7.target
             L == v7.left
             Pe == {r \in v3.pending : r.prefix = p}
             Fl == {r \in DOMAIN v3.in_flight : r.prefix = p}
             Ou == {i \in DOMAIN v6 : "prefix" \in DOMAIN v6[i] /\ v6[i].prefix = p}
             In == {i \in DOMAIN v5 : "last" \in DOMAIN v5[i] /\ v5[i].last /\ v5[i].response.prefix = p}
  <1>1. State!Places(p) = {<<"pending", r>> : r \in Pe} \cup {<<"in_flight", r>> : r \in Fl} \cup {<<"outbox", i>> : i \in Ou}
                          \cup {<<"inbox", i>> : i \in In}
    BY Zenon DEF State!Places
  <1>2. /\ v6 \in Seq(AskedFor(t, L) \cup Dones) /\ v5 \in Seq(NewTargets \cup Pieces(t, L))
        /\ Once(U, v6, v5, t, L) /\ AllAsked(U, v6, v5, t, L)
    BY ClientIs DEF OnItsWay
  <1>3. \A i \in DOMAIN v6 : v6[i] \in AskedFor(t, L) \/ v6[i] \in Dones
    BY <1>2, SeqOver
  <1>4. \A i \in DOMAIN v5 : i \in Nat /\ (v5[i] \in NewTargets \/ v5[i] \in Pieces(t, L))
    BY <1>2
  <1> HIDE DEF t, L
  <1>5. Ou = {i \in DOMAIN v6 : v6[i] \in AskedFor(t, L) /\ v6[i].prefix = p}
    BY <1>3, SyncKinds
  <1>6. In = {i \in DOMAIN v5 : v5[i] \in LastPieces(t, L) /\ v5[i].response.prefix = p}
    <2>1. LastPieces(t, L) \subseteq Pieces(t, L)
      BY SyncKinds, SyncNumbers
    <2> QED BY <1>4, <2>1, SyncKinds
  <1> HIDE DEF Ou, In
  <1>7. Pe \cap Fl = {} /\ Pe \cup Fl = {r \in U : r.prefix = p}
    BY ClientIs
  <1>8. \A r, s \in Pe \cup Fl : r = s
    BY <1>2, <1>7 DEF Once
  <1>9. \A i, j \in Ou : i = j
    BY <1>2, <1>5 DEF Once
  <1>10. \A i, j \in In : i = j
    <2> SUFFICES ASSUME NEW i \in In, NEW j \in In PROVE i = j
      OBVIOUS
    <2>1. LastPieces(t, L) \subseteq Pieces(t, L)
      BY SyncKinds, SyncNumbers
    <2>2. i \in Nat /\ j \in Nat
      BY <1>4, <1>6
    <2>3. i <= j /\ j <= i
      BY <1>2, <1>6, <2>1 DEF Once
    <2> QED BY <2>2, <2>3
  <1>11. (\A i \in Ou : Pe \cup Fl = {}) /\ (\A j \in In : Pe \cup Fl = {} /\ Ou = {})
    BY <1>2, <1>5, <1>6, <1>7 DEF Once
  <1>12. Pe \cup Fl # {} \/ Ou # {} \/ In # {}
    <2>1. p \in L
      BY DEF L
    <2> QED BY <1>2, <1>5, <1>6, <1>7, <2>1 DEF AllAsked
  <1> HIDE DEF Pe, Fl, U
  <1>13. CASE \E r \in Pe : TRUE
    <2> PICK r \in Pe : TRUE
      BY <1>13
    <2>1. Pe = {r} /\ Fl = {} /\ Ou = {} /\ In = {}
      BY <1>7, <1>8, <1>11
    <2>2. State!Places(p) = {<<"pending", r>>}
      BY <1>1, <2>1
    <2> QED BY <2>2
  <1>14. CASE \E r \in Fl : TRUE
    <2> PICK r \in Fl : TRUE
      BY <1>14
    <2>1. Fl = {r} /\ Pe = {} /\ Ou = {} /\ In = {}
      BY <1>7, <1>8, <1>11
    <2>2. State!Places(p) = {<<"in_flight", r>>}
      BY <1>1, <2>1
    <2> QED BY <2>2
  <1>15. CASE \E i \in Ou : TRUE
    <2> PICK i \in Ou : TRUE
      BY <1>15
    <2>1. Ou = {i} /\ Fl = {} /\ Pe = {} /\ In = {}
      BY <1>9, <1>11
    <2>2. State!Places(p) = {<<"outbox", i>>}
      BY <1>1, <2>1
    <2> QED BY <2>2
  <1>16. CASE \E i \in In : TRUE
    <2> PICK i \in In : TRUE
      BY <1>16
    <2>1. In = {i} /\ Fl = {} /\ Pe = {} /\ Ou = {}
      BY <1>10, <1>11
    <2>2. State!Places(p) = {<<"inbox", i>>}
      BY <1>1, <2>1
    <2> QED BY <2>2
  <1> QED BY <1>12, <1>13, <1>14, <1>15, <1>16

(* Whatever is timed out, refused, answered late or twice, and however     *)
(* often the root moves, every prefix the thread waits for is in exactly   *)
(* one place, and no assertion of node, client and thread fails but the    *)
(* one on a peer that is not known.                                        *)
THEOREM NothingIsForgotten == ASSUME State!ConstantsOk PROVE State!Spec => []State!NothingForgotten
  <1>1. SyncInv => State!NothingForgotten
    <2> SUFFICES ASSUME SyncInv PROVE State!NothingForgotten
      OBVIOUS
    <2>1. v10 \in {None, "peer not found"}
      BY Zenon DEF SyncInv, NotFound
    <2>2. ASSUME State!Running PROVE \A p \in v7.left : \E x \in State!Places(p) : State!Places(p) = {x}
      BY <2>2, InOnePlace DEF SyncInv, State!Running
    <2> QED BY <2>1, <2>2, Zenon DEF State!NothingForgotten
  <1> QED BY <1>1, SyncInvariance, PTL
=============================================================================
