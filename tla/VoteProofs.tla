----------------------------- MODULE VoteProofs -----------------------------
(***************************************************************************)
(* Proofs about Vote for every set of nodes and every T with N > 3T: the   *)
(* results of a round fit together, follow from the bits, and the round    *)
(* implements the graded vote that ABA builds on.  The faulty nodes may    *)
(* stop in any phase; that all this holds needs that they are no liars,    *)
(* that is, that what they cast is what checkProgress could have cast.     *)
(* What is left of it among liars is BitsAreSafe.                          *)
(***************************************************************************)
EXTENDS Vote, FiniteSetTheorems, TLAPS

\* Unless the node lies, sets are frozen from what was cast, and bits follow from
\* them.
Cast ==
    \A j \in Nodes \ Liars :
        /\ vote1[j] # NoVote => /\ vote1[j].set \subseteq Inputs
                                /\ Quorum(vote1[j].set)
                                /\ vote1[j].bit = MajorityInput(vote1[j].set)
        /\ revote[j] # NoVote => /\ revote[j].set \subseteq Vote1s
                                 /\ Quorum(revote[j].set)
                                 /\ revote[j].bit = MajorityVote1(revote[j].set)

\* What a node has received was cast.
Received ==
    \A i \in Honest :
        gotInput[i] \subseteq Inputs /\ gotVote1[i] \subseteq Vote1s /\ gotRevote[i] \subseteq Revotes

\* A set of votes all with bit b.
AllVote1(B, b) == \A j \in B : vote1[j].bit = b
AllRevote(C, b) == \A j \in C : revote[j].bit = b

\* The result p is the one for the sets B and C.
Explains(p, B, C) ==
    \/ p.conf = 2 /\ p.value \in Bits /\ AllVote1(B, p.value)
    \/ p.conf = 1 /\ p.value \in Bits /\ AllRevote(C, p.value) /\ \A b \in Bits : ~AllVote1(B, b)
    \/ p.conf = 0 /\ \A b \in Bits : ~AllVote1(B, b) /\ ~AllRevote(C, b)

\* Sets a node may decide on.
Frozen(B, C) == B \subseteq Vote1s /\ Quorum(B) /\ C \subseteq Revotes /\ Quorum(C)

Explained ==
    \A i \in Honest :
        result[i] # NoResult =>
            result[i] \in VoteResult /\ \E B, C \in SUBSET Nodes : Frozen(B, C) /\ Explains(result[i], B, C)

Inv == TypeOK /\ Cast /\ Received /\ Explained /\ NothingIsDue

-----------------------------------------------------------------------------

\* The arithmetic of the thresholds.
LEMMA Thresholds == N \in Nat /\ T \in Nat /\ N > 3 * T
  BY VoteAssumption, FS_CardinalityType, Zenon DEF N

\* Two quorums have a node in common, and a quorum leaves out at most T nodes.
LEMMA Quorums ==
    ASSUME NEW X, X \subseteq Nodes, NEW Y, Y \subseteq Nodes, Quorum(X), Quorum(Y)
    PROVE  X \intersect Y # {} /\ Cardinality(Nodes \ X) <= T
  <1>1. IsFiniteSet(Nodes) /\ IsFiniteSet(X) /\ IsFiniteSet(Y)
    BY VoteAssumption, FS_Subset, Zenon
  <1>2. Cardinality(X) \in Nat /\ Cardinality(Y) \in Nat
    BY <1>1, FS_CardinalityType, Zenon
  <1>3. Cardinality(X) >= N - T /\ Cardinality(Y) >= N - T
    BY Zenon DEF Quorum
  <1>4. Cardinality(X) + Cardinality(Y) > N
    <2> HIDE DEF N
    <2> QED
      BY <1>2, <1>3, Thresholds
  <1>5. X \intersect Y # {}
    BY <1>1, <1>4, FS_MajoritiesIntersect, Zenon DEF N
  <1>6. Cardinality(Nodes \ X) = N - Cardinality(X)
    <2>1. Nodes \intersect X = X
      BY Zenon
    <2> QED
      BY <1>1, <2>1, FS_Difference, ZenonT(30) DEF N
  <1>7. Cardinality(Nodes \ X) <= T
    <2> HIDE DEF N
    <2> QED
      BY <1>2, <1>3, <1>6, Thresholds
  <1> QED
    BY <1>5, <1>7, Zenon

\* A quorum is not empty.
LEMMA QuorumHasNode ==
    ASSUME NEW X, X \subseteq Nodes, Quorum(X)
    PROVE  X # {}
  BY Quorums, Zenon

\* Two quorums have an honest node in common.
LEMMA QuorumsShareHonest ==
    ASSUME NEW X, X \subseteq Nodes, NEW Y, Y \subseteq Nodes, Quorum(X), Quorum(Y)
    PROVE  \E k \in Honest : k \in X /\ k \in Y
  <1> DEFINE H == Y \ Faulty
             F == Y \intersect Faulty
  <1>1. /\ IsFiniteSet(Nodes) /\ IsFiniteSet(X) /\ IsFiniteSet(Y) /\ IsFiniteSet(Faulty)
        /\ H \subseteq Nodes
    BY VoteAssumption, FS_Subset, Zenon
  <1>2. IsFiniteSet(H) /\ Cardinality(H) = Cardinality(Y) - Cardinality(F)
    BY <1>1, FS_Difference, FS_Subset, Zenon
  <1>3. IsFiniteSet(F) /\ Cardinality(F) <= Cardinality(Faulty)
    BY <1>1, FS_Subset, Zenon
  <1>4. /\ Cardinality(X) \in Nat /\ Cardinality(Y) \in Nat /\ Cardinality(H) \in Nat
        /\ Cardinality(F) \in Nat /\ Cardinality(Faulty) \in Nat
    BY <1>1, <1>2, <1>3, FS_CardinalityType, Zenon
  <1>5. Cardinality(X) >= N - T /\ Cardinality(Y) >= N - T
    BY Zenon DEF Quorum
  <1>6. Cardinality(X) + Cardinality(H) > N
    <2> HIDE DEF N, H, F
    <2> QED
      BY <1>2, <1>3, <1>4, <1>5, Thresholds, VoteAssumption
  <1>7. X \intersect H # {}
    BY <1>1, <1>6, FS_MajoritiesIntersect, ZenonT(30) DEF N
  <1> QED
    BY <1>7, Zenon DEF Honest

\* In a quorum of bits, a bit that at most T nodes differ from is the majority.
LEMMA MajorityOf ==
    ASSUME NEW O, O \subseteq Nodes, NEW Z, Z \subseteq Nodes, Quorum(O \union Z)
    PROVE  /\ Cardinality(Z) <= T => MajorityBit(O, Z) = 1
           /\ Cardinality(O) <= T => MajorityBit(O, Z) = 0
  <1>1. IsFiniteSet(O) /\ IsFiniteSet(Z)
    BY VoteAssumption, FS_Subset, Zenon
  <1>2. /\ Cardinality(O) \in Nat /\ Cardinality(Z) \in Nat
        /\ Cardinality(O \intersect Z) \in Nat
    BY <1>1, FS_CardinalityType, FS_Intersection, Zenon
  <1>3. Cardinality(O \union Z) = Cardinality(O) + Cardinality(Z) - Cardinality(O \intersect Z)
    BY <1>1, FS_Union, Zenon
  <1>4. Cardinality(O) + Cardinality(Z) >= N - T
    <2>1. Cardinality(O \union Z) >= N - T
      BY Zenon DEF Quorum
    <2> HIDE DEF N
    <2> QED
      BY <1>2, <1>3, <2>1, Thresholds
  <1> HIDE DEF N
  <1> QED
    BY <1>2, <1>4, Thresholds DEF MajorityBit

\* A subset of a set of at most T nodes has at most T nodes.
LEMMA AtMostT ==
    ASSUME NEW X, X \subseteq Nodes, Cardinality(X) <= T, NEW Y, Y \subseteq X
    PROVE  Cardinality(Y) <= T
  <1>1. IsFiniteSet(X) /\ IsFiniteSet(Y)
    BY VoteAssumption, FS_Subset, Zenon
  <1>2. Cardinality(Y) <= Cardinality(X)
    BY <1>1, FS_Subset, Zenon
  <1>3. Cardinality(X) \in Nat /\ Cardinality(Y) \in Nat
    BY <1>1, FS_CardinalityType, Zenon
  <1> QED
    BY <1>2, <1>3, Thresholds

\* A larger set of nodes is a quorum if the smaller one is.
LEMMA QuorumGrows ==
    ASSUME NEW X, Quorum(X), NEW Y, X \subseteq Y, Y \subseteq Nodes
    PROVE  Quorum(Y)
  <1>1. IsFiniteSet(Y) /\ IsFiniteSet(X)
    BY VoteAssumption, FS_Subset, Zenon
  <1>2. Cardinality(X) <= Cardinality(Y)
    BY <1>1, FS_Subset, Zenon
  <1>3. Cardinality(X) \in Nat /\ Cardinality(Y) \in Nat
    BY <1>1, FS_CardinalityType, Zenon
  <1> HIDE DEF N
  <1> QED
    BY <1>2, <1>3, Thresholds DEF Quorum

-----------------------------------------------------------------------------

\* checkProgress's decision is explained by its sets.
LEMMA DecisionExplained ==
    ASSUME NEW B, NEW C
    PROVE  Explains(Decision(B, C), B, C) /\ Decision(B, C) \in VoteResult
  <1>1. CASE \E b \in Bits : AllVote1(B, b)
    <2> DEFINE v == CHOOSE b \in Bits : \A j \in B : vote1[j].bit = b
    <2>1. v \in Bits /\ AllVote1(B, v)
      BY <1>1, Zenon DEF AllVote1
    <2>2. Decision(B, C) = [value |-> v, conf |-> 2]
      BY <1>1, Zenon DEF Decision, AllVote1
    <2> HIDE DEF v
    <2> QED
      BY <2>1, <2>2 DEF Explains, VoteResult
  <1>2. CASE (\A b \in Bits : ~AllVote1(B, b)) /\ \E b \in Bits : AllRevote(C, b)
    <2> DEFINE v == CHOOSE b \in Bits : \A j \in C : revote[j].bit = b
    <2>1. v \in Bits /\ AllRevote(C, v)
      BY <1>2, Zenon DEF AllRevote
    <2>2. Decision(B, C) = [value |-> v, conf |-> 1]
      BY <1>2, Zenon DEF Decision, AllVote1, AllRevote
    <2> HIDE DEF v
    <2> QED
      BY <1>2, <2>1, <2>2 DEF Explains, VoteResult
  <1>3. CASE \A b \in Bits : ~AllVote1(B, b) /\ ~AllRevote(C, b)
    <2>1. Decision(B, C) = [value |-> Null, conf |-> 0]
      BY <1>3, Zenon DEF Decision, AllVote1, AllRevote
    <2> QED
      BY <1>3, <2>1 DEF Explains, VoteResult
  <1> QED
    BY <1>1, <1>2, <1>3, Zenon

\* If at most T of the inputs differ from b, every honest VOTE1 is for b.
LEMMA Vote1Follows ==
    ASSUME TypeOK, Cast, NEW b \in Bits, Cardinality({j \in Inputs : input[j] # b}) <= T,
           NEW k \in Vote1s, k \notin Liars
    PROVE  vote1[k].bit = b
  <1> DEFINE A == vote1[k].set
             O == {j \in A : input[j] = 1}
             Z == {j \in A : input[j] = 0}
             D == {j \in Inputs : input[j] # b}
  <1>1. A \subseteq Inputs /\ Quorum(A) /\ vote1[k].bit = MajorityBit(O, Z)
    BY Zenon DEF Cast, Vote1s, MajorityInput
  <1>2. O \union Z = A
    BY <1>1, Zenon DEF Inputs, TypeOK, Bits
  <1>3. A \subseteq Nodes /\ O \subseteq Nodes /\ Z \subseteq Nodes /\ D \subseteq Nodes
    BY <1>1, Zenon DEF Inputs
  <1>4. CASE b = 1
    <2>1. Z \subseteq D
      BY <1>1, <1>4
    <2>2. Cardinality(Z) <= T
      BY <1>3, <2>1, AtMostT, Zenon
    <2> QED
      BY <1>1, <1>2, <1>3, <1>4, <2>2, MajorityOf, Zenon
  <1>5. CASE b = 0
    <2>1. O \subseteq D
      BY <1>1, <1>5
    <2>2. Cardinality(O) <= T
      BY <1>3, <2>1, AtMostT, Zenon
    <2> QED
      BY <1>1, <1>2, <1>3, <1>5, <2>2, MajorityOf, Zenon
  <1> QED
    BY <1>4, <1>5, Zenon DEF Bits

\* If all VOTE1s but those of at most T nodes are for b, every honest REVOTE is
\* for b.
LEMMA RevoteFollows ==
    ASSUME TypeOK, Cast, NEW b \in Bits, NEW X, X \subseteq Nodes, Cardinality(X) <= T,
           AllVote1(Vote1s \ X, b), NEW k \in Revotes, k \notin Liars
    PROVE  revote[k].bit = b
  <1> DEFINE A == revote[k].set
             O == {j \in A : vote1[j].bit = 1}
             Z == {j \in A : vote1[j].bit = 0}
  <1>1. A \subseteq Vote1s /\ Quorum(A) /\ revote[k].bit = MajorityBit(O, Z)
    BY Zenon DEF Cast, Revotes, MajorityVote1
  <1>2. O \union Z = A
    BY <1>1, Zenon DEF Vote1s, TypeOK, Vote, Bits
  <1>3. A \subseteq Nodes /\ O \subseteq Nodes /\ Z \subseteq Nodes
    BY <1>1, Zenon DEF Vote1s
  <1>4. CASE b = 1
    <2>1. Z \subseteq X
      BY <1>1, <1>4 DEF AllVote1
    <2>2. Cardinality(Z) <= T
      BY <2>1, AtMostT, Zenon
    <2> QED
      BY <1>1, <1>2, <1>3, <1>4, <2>2, MajorityOf, Zenon
  <1>5. CASE b = 0
    <2>1. O \subseteq X
      BY <1>1, <1>5 DEF AllVote1
    <2>2. Cardinality(O) <= T
      BY <2>1, AtMostT, Zenon
    <2> QED
      BY <1>1, <1>2, <1>3, <1>5, <2>2, MajorityOf, Zenon
  <1> QED
    BY <1>4, <1>5, Zenon DEF Bits

\* If a quorum of VOTE1s is for b, every honest REVOTE is for b.
LEMMA RevoteFollowsQuorum ==
    ASSUME TypeOK, Cast, NEW b \in Bits, NEW B, B \subseteq Vote1s, Quorum(B), AllVote1(B, b),
           NEW k \in Revotes, k \notin Liars
    PROVE  revote[k].bit = b
  <1>1. B \subseteq Nodes
    BY Zenon DEF Vote1s
  <1>2. Cardinality(Nodes \ B) <= T
    BY <1>1, Quorums, Zenon
  <1>3. AllVote1(Vote1s \ (Nodes \ B), b)
    BY ZenonT(30) DEF AllVote1, Vote1s
  <1> QED
    BY <1>2, <1>3, RevoteFollows, Zenon

\* Results explained by sets of one round are compatible.
LEMMA ExplainedCompatible ==
    ASSUME TypeOK, Cast, Liars = {},
           NEW p \in VoteResult, NEW B, NEW C, Frozen(B, C), Explains(p, B, C),
           NEW q \in VoteResult, NEW D, NEW E, Frozen(D, E), Explains(q, D, E)
    PROVE  Compatible(p, q)
  <1>1. /\ B \subseteq Nodes /\ C \subseteq Nodes /\ D \subseteq Nodes /\ E \subseteq Nodes
        /\ Quorum(B) /\ Quorum(C) /\ Quorum(D) /\ Quorum(E)
    BY Zenon DEF Frozen, Vote1s, Revotes
  <1>2. ASSUME NEW v \in Bits, AllVote1(B, v) PROVE AllRevote(E, v)
    BY <1>2, RevoteFollowsQuorum, Zenon DEF AllRevote, Frozen
  <1>3. ASSUME NEW v \in Bits, AllVote1(D, v) PROVE AllRevote(C, v)
    BY <1>3, RevoteFollowsQuorum, Zenon DEF AllRevote, Frozen
  <1>4. PICK j : j \in B /\ j \in D
    BY <1>1, Quorums, Zenon
  <1>5. PICK k : k \in C /\ k \in E
    BY <1>1, Quorums, Zenon
  <1>6. \A v, w \in Bits : AllVote1(B, v) /\ AllVote1(D, w) => v = w
    BY <1>4, Zenon DEF AllVote1
  <1>7. \A v, w \in Bits : AllRevote(C, v) /\ AllRevote(E, w) => v = w
    BY <1>5, Zenon DEF AllRevote
  <1>8. p.conf \in {0, 1, 2} /\ q.conf \in {0, 1, 2}
    BY DEF VoteResult
  <1>9. p.conf >= 1 /\ q.conf >= 1 => p.value = q.value
    <2>1. CASE p.conf = 2 /\ q.conf = 2
      BY <2>1, <1>6 DEF Explains
    <2>2. CASE p.conf = 2 /\ q.conf = 1
      <3>1. p.value \in Bits /\ AllRevote(E, p.value)
        BY <2>2, <1>2 DEF Explains
      <3>2. q.value \in Bits /\ AllRevote(E, q.value)
        BY <2>2 DEF Explains
      <3> QED
        BY <3>1, <3>2, <1>5 DEF AllRevote
    <2>3. CASE p.conf = 1 /\ q.conf = 2
      <3>1. q.value \in Bits /\ AllRevote(C, q.value)
        BY <2>3, <1>3 DEF Explains
      <3>2. p.value \in Bits /\ AllRevote(C, p.value)
        BY <2>3 DEF Explains
      <3> QED
        BY <3>1, <3>2, <1>5 DEF AllRevote
    <2>4. CASE p.conf = 1 /\ q.conf = 1
      BY <2>4, <1>7 DEF Explains
    <2> QED
      BY <1>8, <2>1, <2>2, <2>3, <2>4
  <1>10. p.conf = 2 => q.conf >= 1
    BY <1>2, <1>8 DEF Explains
  <1>11. q.conf = 2 => p.conf >= 1
    BY <1>3, <1>8 DEF Explains
  <1> QED
    BY <1>9, <1>10, <1>11, Zenon DEF Compatible

\* A result is the one that all but at most T inputs call for.
LEMMA ExplainedJustified ==
    ASSUME TypeOK, Cast, Liars = {}, NEW p \in VoteResult, NEW B, NEW C, Frozen(B, C),
           Explains(p, B, C)
    PROVE  Justified(p, input)
  <1>0. B \subseteq Nodes /\ B \subseteq Vote1s /\ Quorum(B)
    BY Zenon DEF Frozen, Vote1s
  <1>1. PICK k : k \in B
    BY <1>0, QuorumHasNode, Zenon
  <1>2. Inputs = Started(input) /\ Inputs \subseteq Nodes
    BY Zenon DEF Inputs, Started
  <1>3. Quorum(Started(input))
    <2>1. Quorum(vote1[k].set) /\ vote1[k].set \subseteq Inputs
      BY <1>0, <1>1, Zenon DEF Cast, Vote1s
    <2> QED
      BY <1>2, <2>1, QuorumGrows, Zenon
  <1>4. ASSUME NEW b \in Bits, Cardinality({i \in Inputs : input[i] # b}) <= T
        PROVE  p = [value |-> b, conf |-> 2]
    <2>1. AllVote1(B, b)
      BY <1>0, <1>4, Vote1Follows, Zenon DEF AllVote1
    <2>2. p.conf = 2 /\ p.value \in Bits /\ AllVote1(B, p.value)
      BY <2>1, Zenon DEF Explains
    <2>3. p.value = b
      BY <1>1, <2>1, <2>2, Zenon DEF AllVote1
    <2> QED
      BY <2>2, <2>3, Zenon DEF VoteResult
  <1> QED
    BY <1>2, <1>3, <1>4, Zenon DEF Justified

\* Honest nodes do not lie.
LEMMA HonestIsNoLiar == \A k \in Honest : k \notin Liars
  BY VoteAssumption, Zenon DEF Honest

\* Bits of results explained by sets of one round are the same, even among liars.
LEMMA ExplainedBits ==
    ASSUME TypeOK, Cast,
           NEW p \in VoteResult, NEW B, NEW C, Frozen(B, C), Explains(p, B, C), p.conf >= 1,
           NEW q \in VoteResult, NEW D, NEW E, Frozen(D, E), Explains(q, D, E), q.conf >= 1
    PROVE  p.value = q.value
  <1>1. /\ B \subseteq Nodes /\ C \subseteq Nodes /\ D \subseteq Nodes /\ E \subseteq Nodes
        /\ Quorum(B) /\ Quorum(C) /\ Quorum(D) /\ Quorum(E)
        /\ C \subseteq Revotes /\ E \subseteq Revotes /\ B \subseteq Vote1s /\ D \subseteq Vote1s
    BY Zenon DEF Frozen, Vote1s, Revotes
  <1>2. PICK j \in Honest : j \in B /\ j \in D
    BY <1>1, QuorumsShareHonest, Zenon
  <1>3. PICK k \in Honest : k \in C /\ k \in E
    BY <1>1, QuorumsShareHonest, Zenon
  <1>4. ASSUME NEW v \in Bits, AllVote1(B, v) \/ AllVote1(D, v) PROVE revote[k].bit = v
    BY <1>1, <1>3, <1>4, HonestIsNoLiar, RevoteFollowsQuorum, Zenon
  <1>5. \/ p.conf = 2 /\ p.value \in Bits /\ AllVote1(B, p.value)
        \/ p.conf = 1 /\ p.value \in Bits /\ AllRevote(C, p.value)
    BY DEF Explains, VoteResult
  <1>6. \/ q.conf = 2 /\ q.value \in Bits /\ AllVote1(D, q.value)
        \/ q.conf = 1 /\ q.value \in Bits /\ AllRevote(E, q.value)
    BY DEF Explains, VoteResult
  <1>7. revote[k].bit = p.value
    BY <1>3, <1>4, <1>5, Zenon DEF AllRevote
  <1>8. revote[k].bit = q.value
    BY <1>3, <1>4, <1>6, Zenon DEF AllRevote
  <1> QED
    BY <1>7, <1>8, Zenon

\* The bit of a result is one that an honest node has started with, even among
\* liars.
LEMMA ExplainedHonest ==
    ASSUME TypeOK, Cast, NEW b \in Bits, \A j \in Honest : input[j] \in {b, Null},
           NEW p \in VoteResult, NEW B, NEW C, Frozen(B, C), Explains(p, B, C), p.conf >= 1
    PROVE  p.value = b
  <1>1. /\ B \subseteq Nodes /\ C \subseteq Nodes /\ Quorum(B) /\ Quorum(C)
        /\ C \subseteq Revotes /\ B \subseteq Vote1s
    BY Zenon DEF Frozen, Vote1s, Revotes
  <1>2. Faulty \subseteq Nodes /\ Cardinality(Faulty) <= T
    BY VoteAssumption, Zenon
  <1>3. Cardinality({j \in Inputs : input[j] # b}) <= T
    <2>1. {j \in Inputs : input[j] # b} \subseteq Faulty
      BY Zenon DEF Inputs, Honest
    <2> QED
      BY <1>2, <2>1, AtMostT, Zenon
  <1>4. AllVote1(Vote1s \ Faulty, b)
    <2>1. \A k \in Vote1s \ Faulty : k \in Vote1s /\ k \notin Liars
      BY VoteAssumption, Zenon
    <2> QED
      BY <1>3, <2>1, Vote1Follows, Zenon DEF AllVote1
  <1>5. PICK j \in Honest : j \in B
    BY <1>1, QuorumsShareHonest, Zenon
  <1>6. PICK k \in Honest : k \in C
    BY <1>1, QuorumsShareHonest, Zenon
  <1>7. vote1[j].bit = b
    BY <1>1, <1>4, <1>5, Zenon DEF AllVote1, Honest
  <1>8. revote[k].bit = b
    BY <1>1, <1>2, <1>4, <1>6, HonestIsNoLiar, RevoteFollows, Zenon
  <1>9. \/ p.conf = 2 /\ p.value \in Bits /\ AllVote1(B, p.value)
        \/ p.conf = 1 /\ p.value \in Bits /\ AllRevote(C, p.value)
    BY SMTT(30) DEF Explains, VoteResult
  <1> QED
    BY <1>5, <1>6, <1>7, <1>8, <1>9, Zenon DEF AllVote1, AllRevote

-----------------------------------------------------------------------------

\* What has been cast stays as it is.
Stable ==
    /\ \A j \in Inputs : input'[j] = input[j]
    /\ \A j \in Vote1s : vote1'[j] = vote1[j]
    /\ \A j \in Revotes : revote'[j] = revote[j]

\* While it does, what was said of it stays true.
LEMMA StableFacts ==
    ASSUME TypeOK, Stable
    PROVE  /\ Inputs \subseteq Inputs' /\ Vote1s \subseteq Vote1s' /\ Revotes \subseteq Revotes'
           /\ \A A : A \subseteq Inputs => MajorityInput(A)' = MajorityInput(A)
           /\ \A B : B \subseteq Vote1s => MajorityVote1(B)' = MajorityVote1(B)
           /\ \A I, V : V \subseteq Vote1s => ValidVote1s(I, V)' = ValidVote1s(I, V)
           /\ \A V, R : R \subseteq Revotes => ValidRevotes(V, R)' = ValidRevotes(V, R)
           /\ \A B, C : Frozen(B, C) => Frozen(B, C)'
           /\ \A p, B, C : Frozen(B, C) /\ Explains(p, B, C) => Explains(p, B, C)'
  <1>1. Inputs \subseteq Inputs' /\ Vote1s \subseteq Vote1s' /\ Revotes \subseteq Revotes'
    BY Zenon DEF Inputs, Vote1s, Revotes, Stable
  <1>2. ASSUME NEW A, A \subseteq Inputs PROVE MajorityInput(A)' = MajorityInput(A)
    <2>1. \A b : {j \in A : input'[j] = b} = {j \in A : input[j] = b}
      BY <1>2, Zenon DEF Stable
    <2> QED
      BY <2>1, Zenon DEF MajorityInput
  <1>3. ASSUME NEW B, B \subseteq Vote1s PROVE MajorityVote1(B)' = MajorityVote1(B)
    <2>1. \A b : {j \in B : vote1'[j].bit = b} = {j \in B : vote1[j].bit = b}
      BY <1>3, Zenon DEF Stable
    <2> QED
      BY <2>1, Zenon DEF MajorityVote1
  <1>4. ASSUME NEW I, NEW V, V \subseteq Vote1s PROVE ValidVote1s(I, V)' = ValidVote1s(I, V)
    BY <1>4, Zenon DEF ValidVote1s, Stable
  <1>5. ASSUME NEW V, NEW R, R \subseteq Revotes PROVE ValidRevotes(V, R)' = ValidRevotes(V, R)
    BY <1>5, Zenon DEF ValidRevotes, Stable
  <1>6. ASSUME NEW B, NEW C, Frozen(B, C) PROVE Frozen(B, C)'
    BY <1>1, <1>6, Zenon DEF Frozen
  <1>7. ASSUME NEW p, NEW B, NEW C, Frozen(B, C), Explains(p, B, C) PROVE Explains(p, B, C)'
    <2>1. \A b : AllVote1(B, b)' = AllVote1(B, b) /\ AllRevote(C, b)' = AllRevote(C, b)
      BY <1>7, Zenon DEF Frozen, AllVote1, AllRevote, Stable
    <2> QED
      BY <1>7, <2>1, Zenon DEF Explains
  <1> QED
    BY <1>1, <1>2, <1>3, <1>4, <1>5, <1>6, <1>7, Zenon

\* What Cast says of one node.
RightVote1(j) ==
    vote1[j] # NoVote => /\ vote1[j].set \subseteq Inputs
                         /\ Quorum(vote1[j].set)
                         /\ vote1[j].bit = MajorityInput(vote1[j].set)
RightRevote(j) ==
    revote[j] # NoVote => /\ revote[j].set \subseteq Vote1s
                          /\ Quorum(revote[j].set)
                          /\ revote[j].bit = MajorityVote1(revote[j].set)

\* Votes that are cast stay rightly cast; new ones are looked at one by one.
LEMMA CastStaysRight ==
    ASSUME TypeOK, Cast, Stable, NEW j \in Nodes \ Liars
    PROVE  /\ vote1'[j] = vote1[j] => RightVote1(j)'
           /\ revote'[j] = revote[j] => RightRevote(j)'
  <1>1. ASSUME vote1'[j] = vote1[j] PROVE RightVote1(j)'
    <2>1. RightVote1(j)
      BY Zenon DEF Cast, RightVote1
    <2> SUFFICES ASSUME vote1[j] # NoVote
                 PROVE  /\ vote1'[j].set \subseteq Inputs'
                        /\ Quorum(vote1'[j].set)
                        /\ vote1'[j].bit = MajorityInput(vote1[j].set)'
      BY <1>1, Zenon DEF RightVote1, Quorum, NoVote
    <2> DEFINE A == vote1[j].set
    <2>2. A \subseteq Inputs /\ Quorum(A) /\ vote1[j].bit = MajorityInput(A)
      BY <2>1, Zenon DEF RightVote1
    <2>3. MajorityInput(vote1[j].set)' = MajorityBit({k \in A : input[k] = 1}, {k \in A : input[k] = 0})
      <3>1. vote1'[j].set = A
        BY <1>1, Zenon
      <3>2. \A b : {k \in A : input'[k] = b} = {k \in A : input[k] = b}
        BY <2>2, Zenon DEF Stable
      <3> QED
        BY <3>1, <3>2, Zenon DEF MajorityInput
    <2> QED
      BY <1>1, <2>2, <2>3, StableFacts, Zenon DEF MajorityInput
  <1>2. ASSUME revote'[j] = revote[j] PROVE RightRevote(j)'
    <2>1. RightRevote(j)
      BY Zenon DEF Cast, RightRevote
    <2> SUFFICES ASSUME revote[j] # NoVote
                 PROVE  /\ revote'[j].set \subseteq Vote1s'
                        /\ Quorum(revote'[j].set)
                        /\ revote'[j].bit = MajorityVote1(revote[j].set)'
      BY <1>2, Zenon DEF RightRevote, Quorum, NoVote
    <2> DEFINE B == revote[j].set
    <2>2. B \subseteq Vote1s /\ Quorum(B) /\ revote[j].bit = MajorityVote1(B)
      BY <2>1, Zenon DEF RightRevote
    <2>3. MajorityVote1(revote[j].set)' = MajorityBit({k \in B : vote1[k].bit = 1}, {k \in B : vote1[k].bit = 0})
      <3>1. revote'[j].set = B
        BY <1>2, Zenon
      <3>2. \A b : {k \in B : vote1'[k].bit = b} = {k \in B : vote1[k].bit = b}
        BY <2>2, Zenon DEF Stable
      <3> QED
        BY <3>1, <3>2, Zenon DEF MajorityVote1
    <2> QED
      BY <1>2, <2>2, <2>3, StableFacts, Zenon DEF MajorityVote1
  <1> QED
    BY <1>1, <1>2, Zenon

\* What NothingIsDue excludes of one node.
Due(i) ==
    LET valid == ValidVote1s(gotInput[i], gotVote1[i])
    IN  \/ vote1[i] = NoVote /\ Quorum(gotInput[i])
        \/ vote1[i] # NoVote /\ revote[i] = NoVote /\ Quorum(valid)
        \/ revote[i] # NoVote /\ result[i] = NoResult /\ Quorum(ValidRevotes(valid, gotRevote[i]))

\* Nothing is due at a node that the step leaves alone.
LEMMA DueElsewhere ==
    ASSUME TypeOK, Received, NothingIsDue, Stable, NEW k \in Honest,
           vote1'[k] = vote1[k], revote'[k] = revote[k], result'[k] = result[k],
           gotInput'[k] = gotInput[k], gotVote1'[k] = gotVote1[k], gotRevote'[k] = gotRevote[k]
    PROVE  ~Due(k)'
  <1> DEFINE valid == ValidVote1s(gotInput[k], gotVote1[k])
  <1>1. ~Due(k)
    BY Zenon DEF NothingIsDue, Due
  <1>2. ValidVote1s(gotInput[k], gotVote1[k])' = valid
    BY Zenon DEF ValidVote1s, Stable, Received
  <1>3. ValidRevotes(ValidVote1s(gotInput[k], gotVote1[k]), gotRevote[k])'
            = ValidRevotes(valid, gotRevote[k])
    BY <1>2 DEF ValidRevotes, Stable, Received
  <1> QED
    BY <1>1, <1>2, <1>3, Zenon DEF Due, Quorum, NoVote, NoResult

-----------------------------------------------------------------------------

\* A result that checkProgress may give to node i.
Decides(i) ==
    \E p \in VoteResult, B, C \in SUBSET Nodes :
        Frozen(B, C) /\ Explains(p, B, C) /\ result' = [result EXCEPT ![i] = p]

\* checkProgress takes the phases as far as they go: what it casts is right, its
\* result is explained, and afterwards nothing is due.
LEMMA ProgressKeepsInv ==
    ASSUME Inv, NEW i \in Honest, result[i] = NoResult,
           input' \in [Nodes -> Bits \union {Null}], \A j \in Inputs : input'[j] = input[j],
           NEW inputs, inputs \subseteq Inputs,
           NEW vote1s, vote1s \subseteq Vote1s,
           NEW revotes, revotes \subseteq Revotes,
           CheckProgress(i, inputs, vote1s, revotes)
    PROVE  Inv' /\ (result' = result \/ Decides(i))
  <1> DEFINE sendVote1  == vote1[i] = NoVote /\ Quorum(inputs)
             valid      == ValidVote1s(inputs, vote1s)
             sendRevote == /\ vote1[i] # NoVote \/ sendVote1
                           /\ revote[i] = NoVote
                           /\ Quorum(valid)
             B          == IF sendRevote THEN valid ELSE revote[i].set
             C          == ValidRevotes(valid, revotes)
             decide     == (revote[i] # NoVote \/ sendRevote) /\ Quorum(C)
             newVote1   == [set |-> inputs, bit |-> MajorityInput(inputs)]
             newRevote  == [set |-> B, bit |-> MajorityVote1(B)]
  <1>1. /\ gotInput' = [gotInput EXCEPT ![i] = inputs]
        /\ gotVote1' = [gotVote1 EXCEPT ![i] = vote1s]
        /\ gotRevote' = [gotRevote EXCEPT ![i] = revotes]
        /\ vote1' = IF sendVote1 THEN [vote1 EXCEPT ![i] = newVote1] ELSE vote1
        /\ revote' = IF sendRevote THEN [revote EXCEPT ![i] = newRevote] ELSE revote
        /\ result' = IF decide THEN [result EXCEPT ![i] = Decision(B, C)] ELSE result
    BY Zenon DEF CheckProgress
  <1>2. /\ i \in Nodes \ Liars
        /\ inputs \subseteq Nodes /\ vote1s \subseteq Nodes /\ revotes \subseteq Nodes
    BY VoteAssumption, Zenon DEF Honest, Inputs, Vote1s, Revotes
  <1>3. MajorityInput(inputs) \in Bits /\ MajorityVote1(B) \in Bits
    BY Zenon DEF MajorityInput, MajorityVote1, MajorityBit, Bits
  <1>4. valid \subseteq vote1s /\ C \subseteq revotes
    BY Zenon DEF ValidVote1s, ValidRevotes
  <1>5. revote[i] # NoVote \/ sendRevote => B \subseteq Vote1s /\ Quorum(B)
    <2>1. CASE sendRevote
      BY <2>1, <1>4, Zenon
    <2>2. CASE ~sendRevote /\ revote[i] # NoVote
      BY <2>2, <1>2, Zenon DEF Inv, Cast
    <2> QED
      BY <2>1, <2>2, Zenon
  <1>6. /\ newVote1 \in Vote /\ newVote1 # NoVote
        /\ sendRevote => newRevote \in Vote
        /\ newRevote # NoVote
    <2>1. Vote1s \subseteq Nodes /\ Null \notin Bits
      BY DEF Vote1s, Null, Bits
    <2> QED
      BY <1>2, <1>3, <1>5, <2>1, Zenon DEF Vote, NoVote
  <1>7. decide => Frozen(B, C)
    BY <1>4, <1>5, Zenon DEF Frozen
  <1>8. Explains(Decision(B, C), B, C) /\ Decision(B, C) \in VoteResult
    BY DecisionExplained, Zenon
  <1> DEFINE p == Decision(B, C)
  <1>9. p # NoResult
    BY <1>8 DEF VoteResult, NoResult
  <1> HIDE DEF sendVote1, valid, sendRevote, B, C, decide, newVote1, newRevote, p
  <1>10. /\ vote1 \in [Nodes -> Vote \union {NoVote}] /\ revote \in [Nodes -> Vote \union {NoVote}]
         /\ result \in [Honest -> VoteResult \union {NoResult}]
         /\ gotInput \in [Honest -> SUBSET Nodes] /\ gotVote1 \in [Honest -> SUBSET Nodes]
         /\ gotRevote \in [Honest -> SUBSET Nodes]
    BY Zenon DEF Inv, TypeOK
  <1>11. /\ \A j \in Nodes : vote1'[j] = IF j = i /\ sendVote1 THEN newVote1 ELSE vote1[j]
         /\ vote1' \in [Nodes -> Vote \union {NoVote}]
    BY <1>1, <1>2, <1>6, <1>10, Zenon
  <1>12. /\ \A j \in Nodes : revote'[j] = IF j = i /\ sendRevote THEN newRevote ELSE revote[j]
         /\ revote' \in [Nodes -> Vote \union {NoVote}]
    <2>1. CASE sendRevote
      BY <1>1, <1>2, <1>6, <1>10, <2>1, Zenon
    <2>2. CASE ~sendRevote
      BY <1>1, <1>10, <2>2, Zenon
    <2> QED
      BY <2>1, <2>2, Zenon
  <1>13. /\ \A k \in Honest : gotInput'[k] = IF k = i THEN inputs ELSE gotInput[k]
         /\ \A k \in Honest : gotVote1'[k] = IF k = i THEN vote1s ELSE gotVote1[k]
         /\ \A k \in Honest : gotRevote'[k] = IF k = i THEN revotes ELSE gotRevote[k]
         /\ gotInput' \in [Honest -> SUBSET Nodes] /\ gotVote1' \in [Honest -> SUBSET Nodes]
         /\ gotRevote' \in [Honest -> SUBSET Nodes]
    BY <1>1, <1>2, <1>10, Zenon
  <1>14. /\ \A k \in Honest : result'[k] = IF k = i /\ decide THEN p ELSE result[k]
         /\ result' \in [Honest -> VoteResult \union {NoResult}]
    BY <1>1, <1>8, <1>10, Zenon DEF p
  <1>15. sendVote1 => vote1[i] = NoVote
    BY Zenon DEF sendVote1
  <1>16. sendRevote => revote[i] = NoVote
    BY Zenon DEF sendRevote
  <1>17. Stable
    BY <1>11, <1>12, <1>15, <1>16, Zenon DEF Stable, Vote1s, Revotes
  <1>18. TypeOK'
    BY <1>11, <1>12, <1>13, <1>14, Zenon DEF TypeOK
  <1>19. Cast'
    <2>1. ASSUME NEW j \in Nodes \ Liars PROVE RightVote1(j)'
      <3>1. CASE vote1'[j] = vote1[j]
        BY <1>17, <3>1, CastStaysRight, Zenon DEF Inv
      <3>2. CASE vote1'[j] # vote1[j]
        <4>1. j = i /\ sendVote1 /\ vote1'[j] = newVote1
          BY <1>11, <3>2, Zenon
        <4>2. /\ vote1'[j].set = inputs /\ vote1'[j].bit = MajorityInput(inputs)
              /\ Quorum(inputs)
          BY <4>1 DEF newVote1, sendVote1
        <4>3. /\ inputs \subseteq Inputs'
              /\ MajorityInput(inputs) = MajorityBit({k \in inputs : input'[k] = 1},
                                                     {k \in inputs : input'[k] = 0})
          BY <1>17, StableFacts, Zenon DEF Inv, MajorityInput
        <4> QED
          BY <4>2, <4>3, Zenon DEF RightVote1, Quorum, MajorityInput
      <3> QED
        BY <3>1, <3>2, Zenon
    <2>2. ASSUME NEW j \in Nodes \ Liars PROVE RightRevote(j)'
      <3>1. CASE revote'[j] = revote[j]
        BY <1>17, <3>1, CastStaysRight, Zenon DEF Inv
      <3>2. CASE revote'[j] # revote[j]
        <4>1. j = i /\ sendRevote /\ revote'[j] = newRevote
          BY <1>12, <3>2, Zenon
        <4>2. /\ revote'[j].set = B /\ revote'[j].bit = MajorityVote1(B)
              /\ B \subseteq Vote1s /\ Quorum(B)
          BY <4>1, <1>5 DEF newRevote
        <4>3. /\ B \subseteq Vote1s'
              /\ MajorityVote1(B) = MajorityBit({k \in B : vote1'[k].bit = 1},
                                                {k \in B : vote1'[k].bit = 0})
          <5>1. \A b : {k \in B : vote1'[k].bit = b} = {k \in B : vote1[k].bit = b}
            BY <1>17, <4>2, Zenon DEF Stable
          <5> QED
            BY <1>17, <4>2, <5>1, StableFacts, Zenon DEF Inv, MajorityVote1
        <4> QED
          BY <4>2, <4>3, Zenon DEF RightRevote, Quorum, MajorityVote1
      <3> QED
        BY <3>1, <3>2, Zenon
    <2> QED
      BY <2>1, <2>2, Zenon DEF Cast, RightVote1, RightRevote
  <1>20. Received'
    <2>1. Inputs \subseteq Inputs' /\ Vote1s \subseteq Vote1s' /\ Revotes \subseteq Revotes'
      BY <1>17, StableFacts, Zenon DEF Inv
    <2> QED
      BY <1>13, <2>1, Zenon DEF Inv, Received
  <1>21. Explained'
    <2> SUFFICES ASSUME NEW k \in Honest, result'[k] # NoResult
                 PROVE  /\ result'[k] \in VoteResult
                        /\ \E X, Y \in SUBSET Nodes : Frozen(X, Y)' /\ Explains(result[k], X, Y)'
      BY Zenon DEF Explained, NoResult
    <2>1. PICK q \in VoteResult, X \in SUBSET Nodes, Y \in SUBSET Nodes :
              result'[k] = q /\ Frozen(X, Y) /\ Explains(q, X, Y)
      <3>1. CASE k = i /\ decide
        <4>1. B \in SUBSET Nodes /\ C \in SUBSET Nodes /\ Frozen(B, C)
          BY <1>7, <3>1, Zenon DEF Frozen, Vote1s, Revotes
        <4> QED
          BY <1>8, <1>14, <3>1, <4>1, Zenon DEF p
      <3>2. CASE ~(k = i /\ decide)
        BY <1>14, <3>2, Zenon DEF Inv, Explained
      <3> QED
        BY <3>1, <3>2, Zenon
    <2>2. Frozen(X, Y)' /\ Explains(q, X, Y)'
      BY <1>17, <2>1, StableFacts, Zenon DEF Inv
    <2>3. Explains(result[k], X, Y)'
      BY <2>1, <2>2, Zenon DEF Explains
    <2> QED
      BY <2>1, <2>2, <2>3, Zenon
  <1>22. NothingIsDue'
    <2>1. ASSUME NEW k \in Honest, k # i PROVE ~Due(k)'
      <3>1. k \in Nodes
        BY Zenon DEF Honest
      <3> QED
        BY <1>11, <1>12, <1>13, <1>14, <1>17, <2>1, <3>1, DueElsewhere, Zenon DEF Inv
    <2>2. ~Due(i)'
      <3>1. gotInput'[i] = inputs /\ gotVote1'[i] = vote1s /\ gotRevote'[i] = revotes
        BY <1>13, Zenon
      <3>2. ValidVote1s(gotInput[i], gotVote1[i])' = valid
        BY <1>17, <3>1, Zenon DEF ValidVote1s, Stable, valid
      <3>3. ValidRevotes(ValidVote1s(gotInput[i], gotVote1[i]), gotRevote[i])' = C
        BY <1>17, <3>1, <3>2, Zenon DEF ValidRevotes, Stable, C
      <3>4. vote1'[i] = NoVote => ~Quorum(inputs)
        BY <1>2, <1>6, <1>11, Zenon DEF sendVote1
      <3>5. vote1'[i] # NoVote /\ revote'[i] = NoVote => ~Quorum(valid)
        BY <1>2, <1>6, <1>11, <1>12, Zenon DEF sendRevote
      <3>6. revote'[i] # NoVote /\ result'[i] = NoResult => ~Quorum(C)
        BY <1>2, <1>9, <1>12, <1>14, Zenon DEF decide
      <3> QED
        BY <3>1, <3>2, <3>3, <3>4, <3>5, <3>6, Zenon DEF Due, Quorum, NoVote, NoResult
    <2> QED
      BY <2>1, <2>2, Zenon DEF NothingIsDue, Due
  <1>23. result' = result \/ Decides(i)
    <2>1. CASE decide
      <3>1. B \in SUBSET Nodes /\ C \in SUBSET Nodes /\ Frozen(B, C)
        BY <1>7, <2>1, Zenon DEF Frozen, Vote1s, Revotes
      <3> QED
        BY <1>1, <1>8, <2>1, <3>1, Zenon DEF Decides, p
    <2>2. CASE ~decide
      BY <1>1, <2>2, Zenon
    <2> QED
      BY <2>1, <2>2, Zenon
  <1> QED
    BY <1>18, <1>19, <1>20, <1>21, <1>22, <1>23, ZenonT(30) DEF Inv

\* Nothing is cast, received or due before StartRound.
LEMMA InitInv == Init => Inv
  <1> SUFFICES ASSUME Init PROVE Inv
    BY Zenon
  <1>1. TypeOK
    BY Zenon DEF Init, TypeOK
  <1>2. \A i \in Honest : i \in Nodes
    BY Zenon DEF Honest
  <1>3. Cast /\ Received /\ Explained
    BY Zenon DEF Init, Cast, Received, Explained
  <1>4. ~Quorum({})
    BY QuorumHasNode, Zenon
  <1>5. NothingIsDue
    BY <1>2, <1>4, Zenon DEF Init, NothingIsDue
  <1> QED
    BY <1>1, <1>3, <1>5, Zenon DEF Inv

\* A delivery at an honest node.
LEMMA DeliverKeepsInv ==
    ASSUME Inv, NEW i \in Honest, Deliver(i)
    PROVE  Inv' /\ input' = input /\ result[i] = NoResult /\ (result' = result \/ Decides(i))
  <1>1. gotInput[i] \subseteq Inputs /\ gotVote1[i] \subseteq Vote1s /\ gotRevote[i] \subseteq Revotes
    BY Zenon DEF Inv, Received
  <1>2. input \in [Nodes -> Bits \union {Null}]
    BY Zenon DEF Inv, TypeOK
  <1>3. PICK j \in Nodes : DeliverInput(i, j) \/ DeliverVote1(i, j) \/ DeliverRevote(i, j)
    BY Zenon DEF Deliver
  <1>4. CASE DeliverInput(i, j)
    <2>1. /\ result[i] = NoResult /\ input' = input /\ gotInput[i] \union {j} \subseteq Inputs
          /\ CheckProgress(i, gotInput[i] \union {j}, gotVote1[i], gotRevote[i])
      BY <1>1, <1>4, Zenon DEF DeliverInput
    <2> QED
      BY <1>1, <1>2, <2>1, ProgressKeepsInv, Zenon
  <1>5. CASE DeliverVote1(i, j)
    <2>1. /\ result[i] = NoResult /\ input' = input /\ gotVote1[i] \union {j} \subseteq Vote1s
          /\ CheckProgress(i, gotInput[i], gotVote1[i] \union {j}, gotRevote[i])
      BY <1>1, <1>5, Zenon DEF DeliverVote1
    <2> QED
      BY <1>1, <1>2, <2>1, ProgressKeepsInv, Zenon
  <1>6. CASE DeliverRevote(i, j)
    <2>1. /\ result[i] = NoResult /\ input' = input /\ gotRevote[i] \union {j} \subseteq Revotes
          /\ CheckProgress(i, gotInput[i], gotVote1[i], gotRevote[i] \union {j})
      BY <1>1, <1>6, Zenon DEF DeliverRevote
    <2> QED
      BY <1>1, <1>2, <2>1, ProgressKeepsInv, Zenon
  <1> QED
    BY <1>3, <1>4, <1>5, <1>6, Zenon

\* StartRound at an honest node casts its input and does nothing else.
LEMMA StartKeepsInv ==
    ASSUME Inv, NEW i \in Honest, NEW b \in Bits, StartRound(i, b)
    PROVE  /\ Inv' /\ result' = result
           /\ input[i] = Null /\ input' = [input EXCEPT ![i] = b]
  <1>1. /\ input[i] = Null /\ result[i] = NoResult /\ input' = [input EXCEPT ![i] = b]
        /\ CheckProgress(i, gotInput[i], gotVote1[i], gotRevote[i])
    BY Zenon DEF StartRound
  <1>2. gotInput[i] \subseteq Inputs /\ gotVote1[i] \subseteq Vote1s /\ gotRevote[i] \subseteq Revotes
    BY Zenon DEF Inv, Received
  <1>3. i \in Nodes
    BY Zenon DEF Honest
  <1>4. /\ input' \in [Nodes -> Bits \union {Null}]
        /\ \A j \in Inputs : input'[j] = input[j]
    BY <1>1, <1>3, Zenon DEF Inv, TypeOK, Inputs
  <1>5. Inv'
    BY <1>1, <1>2, <1>4, ProgressKeepsInv, Zenon
  <1>6. result' = result
    <2>1. ~Due(i)
      BY Zenon DEF Inv, NothingIsDue, Due
    <2> QED
      BY <1>1, <2>1, Zenon DEF Due, CheckProgress
  <1> QED
    BY <1>1, <1>5, <1>6, Zenon

\* The casts of a faulty node change nothing that was cast before.
LEMMA FaultyKeepsInv ==
    ASSUME Inv, NEW k \in Faulty, FaultyCast(k)
    PROVE  /\ Inv' /\ result' = result
           /\ \/ input' = input
              \/ \E b \in Bits : input[k] = Null /\ input' = [input EXCEPT ![k] = b]
  <1>1. k \in Nodes /\ k \notin Honest
    BY VoteAssumption, Zenon DEF Honest
  <1>2. \/ \E b \in Bits : FaultyInput(k, b)
        \/ \E A \in FaultySets, b \in Bits : FaultyVote1(k, A, b)
        \/ \E B \in FaultySets, b \in Bits : FaultyRevote(k, B, b)
    BY <1>1, VoteAssumption, Zenon DEF FaultyCast
  <1>3. /\ result' = result /\ gotInput' = gotInput /\ gotVote1' = gotVote1
        /\ gotRevote' = gotRevote
        /\ \A j \in Nodes : j # k => vote1'[j] = vote1[j] /\ revote'[j] = revote[j]
        /\ \/ input' = input
           \/ \E b \in Bits : input[k] = Null /\ input' = [input EXCEPT ![k] = b]
    BY <1>2, Zenon DEF FaultyInput, FaultyVote1, FaultyRevote, got, Inv, TypeOK
  <1>4. TypeOK' /\ Stable /\ (k \notin Liars => RightVote1(k)' /\ RightRevote(k)')
    <2>1. ASSUME NEW b \in Bits, FaultyInput(k, b) PROVE <1>4
      <3>1. /\ input[k] = Null /\ input' = [input EXCEPT ![k] = b]
            /\ vote1' = vote1 /\ revote' = revote
        BY <2>1, Zenon DEF FaultyInput
      <3>2. TypeOK' /\ Stable
        BY <1>1, <1>3, <3>1, Zenon DEF Inv, TypeOK, Stable, Inputs
      <3> QED
        BY <1>1, <3>1, <3>2, CastStaysRight, Zenon DEF Inv
    <2>2. ASSUME NEW A \in FaultySets, NEW b \in Bits, FaultyVote1(k, A, b) PROVE <1>4
      <3>1. /\ vote1[k] = NoVote /\ vote1' = [vote1 EXCEPT ![k] = [set |-> A, bit |-> b]]
            /\ input' = input /\ revote' = revote
            /\ k \in Liars \/ (A \subseteq Inputs /\ Quorum(A) /\ b = MajorityInput(A))
        BY <2>2, Zenon DEF FaultyVote1
      <3>2. [set |-> A, bit |-> b] \in Vote
        BY VoteAssumption, Zenon DEF Vote
      <3>3. vote1' \in [Nodes -> Vote \union {NoVote}] /\ vote1'[k] = [set |-> A, bit |-> b]
        BY <1>1, <3>1, <3>2, Zenon DEF Inv, TypeOK
      <3>4. TypeOK'
        BY <1>3, <3>1, <3>3, Zenon DEF Inv, TypeOK
      <3>5. Stable
        BY <1>3, <3>1, Zenon DEF Stable, Vote1s, Inputs, Revotes
      <3>6. k \notin Liars => RightVote1(k)'
        BY <3>1, <3>3 DEF RightVote1, Inputs, MajorityInput, Quorum
      <3> QED
        BY <1>1, <3>1, <3>4, <3>5, <3>6, CastStaysRight, ZenonT(30) DEF Inv
    <2>3. ASSUME NEW B \in FaultySets, NEW b \in Bits, FaultyRevote(k, B, b) PROVE <1>4
      <3>1. /\ revote[k] = NoVote /\ revote' = [revote EXCEPT ![k] = [set |-> B, bit |-> b]]
            /\ input' = input /\ vote1' = vote1
            /\ k \in Liars \/ (B \subseteq Vote1s /\ Quorum(B) /\ b = MajorityVote1(B))
        BY <2>3, Zenon DEF FaultyRevote
      <3>2. [set |-> B, bit |-> b] \in Vote
        BY VoteAssumption, Zenon DEF Vote
      <3>3. revote' \in [Nodes -> Vote \union {NoVote}] /\ revote'[k] = [set |-> B, bit |-> b]
        BY <1>1, <3>1, <3>2, Zenon DEF Inv, TypeOK
      <3>4. TypeOK'
        BY <1>3, <3>1, <3>3, Zenon DEF Inv, TypeOK
      <3>5. Stable
        BY <1>3, <3>1, Zenon DEF Stable, Vote1s, Inputs, Revotes
      <3>6. k \notin Liars => RightRevote(k)'
        BY <3>1, <3>3, SMTT(30) DEF RightRevote, Vote1s, MajorityVote1, Quorum
      <3> QED
        BY <1>1, <3>1, <3>4, <3>5, <3>6, CastStaysRight, Zenon DEF Inv
    <2> QED
      BY <1>2, <2>1, <2>2, <2>3, Zenon
  <1>5. Cast'
    <2>1. ASSUME NEW j \in Nodes \ Liars PROVE RightVote1(j)' /\ RightRevote(j)'
      BY <1>3, <1>4, CastStaysRight, Zenon DEF Inv
    <2> QED
      BY <2>1, Zenon DEF Cast, RightVote1, RightRevote
  <1>6. Received'
    <2>1. Inputs \subseteq Inputs' /\ Vote1s \subseteq Vote1s' /\ Revotes \subseteq Revotes'
      BY <1>4, StableFacts, Zenon DEF Inv
    <2> QED
      BY <1>3, <2>1, Zenon DEF Inv, Received
  <1>7. Explained'
    <2> SUFFICES ASSUME NEW j \in Honest, result[j] # NoResult
                 PROVE  /\ result[j] \in VoteResult
                        /\ \E X, Y \in SUBSET Nodes : Frozen(X, Y)' /\ Explains(result[j], X, Y)'
      BY <1>3, Zenon DEF Explained, NoResult
    <2>1. PICK q \in VoteResult, X \in SUBSET Nodes, Y \in SUBSET Nodes :
              result[j] = q /\ Frozen(X, Y) /\ Explains(q, X, Y)
      BY Zenon DEF Inv, Explained
    <2>2. Frozen(X, Y)' /\ Explains(q, X, Y)'
      BY <1>4, <2>1, StableFacts, Zenon DEF Inv
    <2>3. Explains(result[j], X, Y)'
      BY <1>3, <2>1, <2>2, ZenonT(30) DEF Explains
    <2> QED
      BY <2>1, <2>2, <2>3, Zenon
  <1>8. NothingIsDue'
    <2>1. ASSUME NEW j \in Honest PROVE ~Due(j)'
      <3>1. j \in Nodes /\ j # k
        BY <1>1, Zenon DEF Honest
      <3> QED
        BY <1>3, <1>4, <3>1, DueElsewhere, Zenon DEF Inv
    <2> QED
      BY <2>1, Zenon DEF NothingIsDue, Due
  <1> QED
    BY <1>3, <1>4, <1>5, <1>6, <1>7, <1>8, Zenon DEF Inv

\* No step leaves the invariant.
LEMMA NextInv == Inv /\ [Next]_vars => Inv'
  <1> SUFFICES ASSUME Inv, [Next]_vars PROVE Inv'
    BY Zenon
  <1>1. ASSUME NEW i \in Honest, Start(i) PROVE Inv'
    <2>1. PICK b \in InputBits[i] : StartRound(i, b)
      BY <1>1, Zenon DEF Start
    <2>2. b \in Bits
      BY VoteAssumption, Zenon DEF Honest
    <2> QED
      BY <2>1, <2>2, StartKeepsInv, Zenon
  <1>2. ASSUME NEW i \in Honest, Deliver(i) PROVE Inv'
    BY <1>2, DeliverKeepsInv, Zenon
  <1>3. ASSUME NEW k \in Faulty, FaultyCast(k) PROVE Inv'
    BY <1>3, FaultyKeepsInv, Zenon
  <1>4. CASE UNCHANGED vars
    <2> USE <1>4 DEF vars, got
    <2>1. TypeOK'
      BY Zenon DEF Inv, TypeOK
    <2>2. Cast'
      BY Zenon DEF Inv, Cast, Inputs, Vote1s, MajorityInput, MajorityVote1
    <2>3. Received'
      BY Zenon DEF Inv, Received, Inputs, Vote1s, Revotes
    <2>4. Explained'
      BY DEF Inv, Explained, Frozen, Explains, AllVote1, AllRevote, Vote1s, Revotes
    <2>5. NothingIsDue'
      BY ZenonT(30) DEF Inv, NothingIsDue, ValidVote1s, ValidRevotes
    <2> QED
      BY <2>1, <2>2, <2>3, <2>4, <2>5, Zenon DEF Inv
  <1> QED
    BY <1>1, <1>2, <1>3, <1>4, Zenon DEF Next

-----------------------------------------------------------------------------

\* The inductive invariant holds throughout a round, with liars or without.
THEOREM InvHolds == Safety => []Inv
  BY InitInv, NextInv, PTL DEF Safety

\* The maps, votes and results of a round keep their types.
THEOREM TypeCorrect == Safety => []TypeOK
  <1>1. Inv => TypeOK
    BY Zenon DEF Inv
  <1> QED
    BY <1>1, InvHolds, PTL

\* However late StartRound is called, its checkProgress has nothing to send and
\* nothing to decide, even among liars.
THEOREM NothingIsDueHolds == Safety => []NothingIsDue
  <1>1. Inv => NothingIsDue
    BY Zenon DEF Inv
  <1> QED
    BY <1>1, InvHolds, PTL

\* Whatever sets and bits liars send, which checkProgress does not question, no two
\* nodes report different bits, and none a bit that no honest node started with.
THEOREM BitsAreSafeHolds == Safety => []BitsAreSafe
  <1>1. Inv => BitsAreSafe
    <2> SUFFICES ASSUME Inv PROVE BitsAreSafe
      BY Zenon
    <2>1. ASSUME NEW i \in Honest, result[i].conf >= 1
          PROVE  result[i] # NoResult
      BY <2>1 DEF NoResult
    <2>2. ASSUME NEW i \in Honest, NEW j \in Honest, result[i].conf >= 1, result[j].conf >= 1
          PROVE  result[i].value = result[j].value
      <3>1. result[i] # NoResult /\ result[j] # NoResult
        BY <2>1, <2>2, Zenon
      <3>2. PICK B \in SUBSET Nodes, C \in SUBSET Nodes : Frozen(B, C) /\ Explains(result[i], B, C)
        BY <3>1, Zenon DEF Inv, Explained
      <3>3. PICK D \in SUBSET Nodes, E \in SUBSET Nodes : Frozen(D, E) /\ Explains(result[j], D, E)
        BY <3>1, Zenon DEF Inv, Explained
      <3>4. result[i] \in VoteResult /\ result[j] \in VoteResult
        BY <3>1, Zenon DEF Inv, Explained
      <3> QED
        BY <2>2, <3>2, <3>3, <3>4, ExplainedBits, Zenon DEF Inv
    <2>3. ASSUME NEW b \in Bits, NEW i \in Honest, \A j \in Honest : input[j] \in {b, Null},
                 result[i].conf >= 1
          PROVE  result[i].value = b
      <3>1. result[i] # NoResult
        BY <2>1, <2>3, Zenon
      <3>2. PICK B \in SUBSET Nodes, C \in SUBSET Nodes : Frozen(B, C) /\ Explains(result[i], B, C)
        BY <3>1, Zenon DEF Inv, Explained
      <3>3. result[i] \in VoteResult
        BY <3>1, ZenonT(30) DEF Inv, Explained
      <3> QED
        BY <2>3, <3>2, <3>3, ExplainedHonest, Zenon DEF Inv
    <2> QED
      BY <2>2, <2>3, Zenon DEF BitsAreSafe
  <1> QED
    BY <1>1, InvHolds, PTL

\* If the faulty nodes do no worse than stop, so that every VOTE1 and REVOTE names
\* n - t nodes and carries their majority, the results that checkProgress gives at
\* different nodes fit together.
THEOREM GradedAgreementHolds ==
    ASSUME Liars = {}
    PROVE  Safety => []GradedAgreement
  <1>1. Inv => GradedAgreement
    <2> SUFFICES ASSUME Inv, NEW i \in Honest, NEW j \in Honest,
                        result[i] # NoResult, result[j] # NoResult
                 PROVE  Compatible(result[i], result[j])
      BY Zenon DEF GradedAgreement
    <2>1. PICK B \in SUBSET Nodes, C \in SUBSET Nodes : Frozen(B, C) /\ Explains(result[i], B, C)
      BY Zenon DEF Inv, Explained
    <2>2. PICK D \in SUBSET Nodes, E \in SUBSET Nodes : Frozen(D, E) /\ Explains(result[j], D, E)
      BY Zenon DEF Inv, Explained
    <2>3. result[i] \in VoteResult /\ result[j] \in VoteResult
      BY Zenon DEF Inv, Explained
    <2> QED
      BY <2>1, <2>2, <2>3, ExplainedCompatible, Zenon DEF Inv
  <1> QED
    BY <1>1, InvHolds, PTL

\* If the faulty nodes do no worse than stop, and at most t inputs differ from b,
\* every result of checkProgress is b with confidence 2.
THEOREM StrongMajorityHolds ==
    ASSUME Liars = {}
    PROVE  Safety => []StrongMajority
  <1>1. Inv => StrongMajority
    <2> SUFFICES ASSUME Inv, NEW b \in Bits, NEW i \in Honest, result[i] # NoResult,
                        Cardinality({j \in Inputs : input[j] # b}) <= T
                 PROVE  result[i] = [value |-> b, conf |-> 2]
      BY Zenon DEF StrongMajority
    <2>1. PICK B \in SUBSET Nodes, C \in SUBSET Nodes : Frozen(B, C) /\ Explains(result[i], B, C)
      BY Zenon DEF Inv, Explained
    <2>2. result[i] \in VoteResult
      BY Zenon DEF Inv, Explained
    <2>3. Justified(result[i], input)
      BY <2>1, <2>2, ExplainedJustified, Zenon DEF Inv
    <2>4. Inputs = Started(input)
      BY Zenon DEF Inputs, Started
    <2> QED
      BY <2>3, <2>4, Zenon DEF Justified
  <1> QED
    BY <1>1, InvHolds, PTL

\* The grading that GradedVote speaks of is the one of Vote.
LEMMA SameGrading ==
    /\ GV!Bits = Bits /\ GV!Null = Null /\ GV!NoResult = NoResult /\ GV!VoteResult = VoteResult
    /\ \A p, q : GV!Compatible(p, q) <=> Compatible(p, q)
    /\ \A p, inputs : GV!Justified(p, inputs) <=> Justified(p, inputs)
  <1>1. GV!Bits = Bits /\ GV!Null = Null
    BY Zenon DEF GV!Bits, GV!Null, Bits, Null
  <1>2. GV!NoResult = NoResult /\ GV!VoteResult = VoteResult
    BY <1>1, Zenon DEF GV!NoResult, NoResult, GV!VoteResult, VoteResult
  <1>3. \A p, q : GV!Compatible(p, q) <=> Compatible(p, q)
    BY Zenon DEF GV!Compatible, Compatible
  <1>4. ASSUME NEW p, NEW inputs PROVE GV!Justified(p, inputs) <=> Justified(p, inputs)
    <2>0. \A S : GV!Cardinality(S) = Cardinality(S)
      BY Zenon DEF GV!Cardinality, Cardinality
    <2>1. \A S : GV!Quorum(S) <=> Quorum(S)
      BY <2>0, Zenon DEF GV!Quorum, Quorum, GV!N, N
    <2>2. GV!Started(inputs) = Started(inputs)
      BY <1>1, Zenon DEF GV!Started, Started
    <2> QED
      BY <1>1, <2>0, <2>1, <2>2, Zenon DEF GV!Justified, Justified
  <1> QED
    BY <1>1, <1>2, <1>3, <1>4, Zenon

\* If the faulty nodes do no worse than stop, Vote implements the graded vote: a
\* StartRound or a faulty input brings a bit, the checkProgress that calls
\* SendResult finishes a node, and every other step is a stutter.
THEOREM ImplementsGradedVoteHolds ==
    ASSUME Liars = {}
    PROVE  Safety => ImplementsGradedVote
  <1>1. Init => GV!Init
    BY SameGrading, Zenon DEF Init, GV!Init
  <1>2. Inv /\ [Next]_vars => [GV!Next]_(GV!vars)
    <2> SUFFICES ASSUME Inv, [Next]_vars PROVE GV!Next \/ (input' = input /\ result' = result)
      BY Zenon DEF GV!vars
    <2>1. ASSUME NEW i \in Honest, Start(i) PROVE GV!Next
      <3>1. PICK b \in InputBits[i] : StartRound(i, b)
        BY <2>1, Zenon DEF Start
      <3>2. b \in Bits /\ i \in Nodes
        BY VoteAssumption, Zenon DEF Honest
      <3>3. input[i] = Null /\ input' = [input EXCEPT ![i] = b] /\ result' = result
        BY <3>1, <3>2, StartKeepsInv, Zenon
      <3> QED
        BY <3>2, <3>3, SameGrading, Zenon DEF GV!Next, GV!Bring
    <2>2. ASSUME NEW i \in Honest, Deliver(i)
          PROVE  GV!Next \/ (input' = input /\ result' = result)
      <3>1. input' = input /\ result[i] = NoResult /\ (result' = result \/ Decides(i))
        BY <2>2, DeliverKeepsInv, Zenon
      <3>2. CASE Decides(i)
        <4>1. PICK p \in VoteResult, B \in SUBSET Nodes, C \in SUBSET Nodes :
                  Frozen(B, C) /\ Explains(p, B, C) /\ result' = [result EXCEPT ![i] = p]
          BY <3>2, Zenon DEF Decides
        <4>2. Justified(p, input)
          BY <4>1, ExplainedJustified, Zenon DEF Inv
        <4>3. ASSUME NEW j \in Honest, result[j] # NoResult PROVE Compatible(p, result[j])
          <5>1. PICK D \in SUBSET Nodes, E \in SUBSET Nodes :
                    Frozen(D, E) /\ Explains(result[j], D, E)
            BY <4>3, Zenon DEF Inv, Explained
          <5>2. result[j] \in VoteResult
            BY <4>3, Zenon DEF Inv, Explained
          <5> QED
            BY <4>1, <5>1, <5>2, ExplainedCompatible, Zenon DEF Inv
        <4>4. GV!Finish(i, p)
          BY <3>1, <4>1, <4>2, <4>3, SameGrading, Zenon DEF GV!Finish
        <4> QED
          BY <4>4, SameGrading, Zenon DEF GV!Next
      <3> QED
        BY <3>1, <3>2, Zenon
    <2>3. ASSUME NEW k \in Faulty, FaultyCast(k)
          PROVE  GV!Next \/ (input' = input /\ result' = result)
      <3>1. k \in Nodes
        BY VoteAssumption, Zenon
      <3> QED
        BY <2>3, <3>1, FaultyKeepsInv, SameGrading, Zenon DEF GV!Next, GV!Bring
    <2>4. CASE UNCHANGED vars
      BY <2>4, Zenon DEF vars
    <2> QED
      BY <2>1, <2>2, <2>3, <2>4, Zenon DEF Next
  <1> QED
    BY <1>1, <1>2, InvHolds, PTL DEF Safety, ImplementsGradedVote, GV!Safety
-----------------------------------------------------------------------------

(***************************************************************************)
(* A round does not come to rest unfinished: EndInv, and VoteEnds from it. *)
(***************************************************************************)

\* The phases of honest node i are taken in order, and the sets that it named lie
\* within what it has received.
EndOK(i) ==
    /\ result[i] # NoResult => revote[i] # NoVote
    /\ revote[i] # NoVote => vote1[i] # NoVote
    /\ vote1[i] # NoVote => vote1[i].set \subseteq gotInput[i]
    /\ revote[i] # NoVote => revote[i].set \subseteq ValidVote1s(gotInput[i], gotVote1[i])

EndInv == \A i \in Honest : EndOK(i)

\* Nothing is sent at the start.
LEMMA InitEnd == Init => EndInv
  <1>1. Honest \subseteq Nodes
    BY Zenon DEF Honest
  <1> QED
    BY <1>1 DEF Init, EndInv, EndOK

\* A step that changes nothing of node j.
LEMMA EndElsewhere ==
    ASSUME Inv, Stable, NEW j \in Honest, EndOK(j), result'[j] = result[j],
           vote1'[j] = vote1[j], revote'[j] = revote[j],
           gotInput'[j] = gotInput[j], gotVote1'[j] = gotVote1[j]
    PROVE  EndOK(j)'
  <1>1. gotVote1[j] \subseteq Vote1s
    BY Zenon DEF Inv, Received
  <1>2. ValidVote1s(gotInput[j], gotVote1[j])' = ValidVote1s(gotInput[j], gotVote1[j])
    BY <1>1, Zenon DEF ValidVote1s, Stable
  <1> QED
    BY <1>2, ZenonT(30) DEF EndOK, NoResult, NoVote

\* checkProgress names the sets that it has, and sends its messages in order.
LEMMA ProgressKeepsEnd ==
    ASSUME Inv, EndInv, NEW i \in Honest,
           \A j \in Inputs : input'[j] = input[j],
           NEW inputs, gotInput[i] \subseteq inputs,
           NEW vote1s, gotVote1[i] \subseteq vote1s, vote1s \subseteq Vote1s,
           NEW revotes, CheckProgress(i, inputs, vote1s, revotes)
    PROVE  EndInv'
  <1> DEFINE sendVote1  == vote1[i] = NoVote /\ Quorum(inputs)
             valid      == ValidVote1s(inputs, vote1s)
             sendRevote == /\ vote1[i] # NoVote \/ sendVote1
                           /\ revote[i] = NoVote
                           /\ Quorum(valid)
             B          == IF sendRevote THEN valid ELSE revote[i].set
             C          == ValidRevotes(valid, revotes)
             decide     == (revote[i] # NoVote \/ sendRevote) /\ Quorum(C)
             newVote1   == [set |-> inputs, bit |-> MajorityInput(inputs)]
             newRevote  == [set |-> B, bit |-> MajorityVote1(B)]
  <1>1. /\ gotInput' = [gotInput EXCEPT ![i] = inputs]
        /\ gotVote1' = [gotVote1 EXCEPT ![i] = vote1s]
        /\ vote1' = IF sendVote1 THEN [vote1 EXCEPT ![i] = newVote1] ELSE vote1
        /\ revote' = IF sendRevote THEN [revote EXCEPT ![i] = newRevote] ELSE revote
        /\ result' = IF decide THEN [result EXCEPT ![i] = Decision(B, C)] ELSE result
    BY ZenonT(30) DEF CheckProgress
  <1>2. newVote1 # NoVote /\ newRevote # NoVote /\ newVote1.set = inputs /\ newRevote.set = B
    <2>1. MajorityInput(inputs) # Null /\ MajorityVote1(B) # Null
      BY DEF MajorityInput, MajorityVote1, MajorityBit, Null
    <2> HIDE DEF B
    <2> QED
      BY <2>1, ZenonT(30) DEF NoVote
  <1>3. sendRevote => B = valid
    BY Zenon
  <1>4. decide => revote[i] # NoVote \/ sendRevote
    BY Zenon
  <1>5. sendRevote => vote1[i] # NoVote \/ sendVote1
    BY Zenon
  <1>6. sendVote1 => vote1[i] = NoVote
    BY Zenon
  <1>7. sendRevote => revote[i] = NoVote
    BY Zenon
  <1> HIDE DEF sendVote1, sendRevote, decide, newVote1, newRevote, B, C
  <1>8. i \in Nodes
    BY Zenon DEF Honest
  <1>9. /\ gotInput'[i] = inputs /\ gotVote1'[i] = vote1s
        /\ vote1'[i] = IF sendVote1 THEN newVote1 ELSE vote1[i]
        /\ revote'[i] = IF sendRevote THEN newRevote ELSE revote[i]
        /\ ~decide => result'[i] = result[i]
    BY <1>1, <1>8, Zenon DEF Inv, TypeOK
  <1>10. Stable
    BY <1>1, <1>6, <1>7, <1>8, Zenon DEF Stable, Vote1s, Revotes, Inv, TypeOK
  <1>11. valid' = valid
    BY <1>10, StableFacts, ZenonT(30) DEF Inv
  <1>12. ASSUME NEW j \in Honest, j # i PROVE EndOK(j)'
    <2>1. /\ result'[j] = result[j] /\ vote1'[j] = vote1[j] /\ revote'[j] = revote[j]
          /\ gotInput'[j] = gotInput[j] /\ gotVote1'[j] = gotVote1[j]
      BY <1>1, <1>12, Zenon DEF Inv, TypeOK, Honest
    <2>2. EndOK(j)
      BY Zenon DEF EndInv
    <2> QED
      BY <1>10, <2>1, <2>2, EndElsewhere, Zenon
  <1>13. EndOK(i)'
    <2>1. EndOK(i)
      BY Zenon DEF EndInv
    <2>2. ValidVote1s(gotInput[i], gotVote1[i]) \subseteq valid
      BY Zenon DEF ValidVote1s
    <2>3. result'[i] # NoResult => revote'[i] # NoVote
      BY <1>2, <1>4, <1>9, <2>1, Zenon DEF EndOK
    <2>4. revote'[i] # NoVote => vote1'[i] # NoVote
      BY <1>2, <1>5, <1>9, <2>1, Zenon DEF EndOK
    <2>5. vote1'[i] # NoVote => vote1'[i].set \subseteq gotInput'[i]
      BY <1>2, <1>9, <2>1, Zenon DEF EndOK
    <2>6. revote'[i] # NoVote => revote'[i].set \subseteq valid
      BY <1>2, <1>3, <1>9, <2>1, <2>2, Zenon DEF EndOK
    <2>7. ValidVote1s(gotInput[i], gotVote1[i])' = valid
      BY <1>9, <1>11, Zenon DEF ValidVote1s
    <2> QED
      BY <2>3, <2>4, <2>5, <2>6, <2>7, Zenon DEF EndOK, NoResult, NoVote
  <1> QED
    BY <1>12, <1>13, Zenon DEF EndInv, Honest

\* No step of an honest or a faulty node leaves EndInv.
LEMMA NextEnd == Inv /\ EndInv /\ [Next]_vars => EndInv'
  <1> SUFFICES ASSUME Inv, EndInv, [Next]_vars PROVE EndInv'
    BY Zenon
  <1>1. ASSUME NEW i \in Honest, Start(i) PROVE EndInv'
    <2>1. PICK b : /\ input[i] = Null /\ input' = [input EXCEPT ![i] = b]
                   /\ CheckProgress(i, gotInput[i], gotVote1[i], gotRevote[i])
      BY <1>1, Zenon DEF Start, StartRound
    <2>2. \A j \in Inputs : input'[j] = input[j]
      BY <2>1, Zenon DEF Inputs, Inv, TypeOK
    <2>3. gotVote1[i] \subseteq Vote1s
      BY Zenon DEF Inv, Received
    <2> QED
      BY <2>1, <2>2, <2>3, ProgressKeepsEnd, Zenon
  <1>2. ASSUME NEW i \in Honest, Deliver(i) PROVE EndInv'
    <2>1. gotVote1[i] \subseteq Vote1s
      BY Zenon DEF Inv, Received
    <2>2. PICK j \in Nodes : DeliverInput(i, j) \/ DeliverVote1(i, j) \/ DeliverRevote(i, j)
      BY <1>2, Zenon DEF Deliver
    <2>3. CASE DeliverInput(i, j)
      BY <2>1, <2>3, ProgressKeepsEnd, Zenon DEF DeliverInput
    <2>4. CASE DeliverVote1(i, j)
      BY <2>1, <2>4, ProgressKeepsEnd, Zenon DEF DeliverVote1
    <2>5. CASE DeliverRevote(i, j)
      BY <2>1, <2>5, ProgressKeepsEnd, Zenon DEF DeliverRevote
    <2> QED
      BY <2>2, <2>3, <2>4, <2>5, Zenon
  <1>3. ASSUME NEW k \in Faulty, FaultyCast(k) PROVE EndInv'
    <2>1. /\ result' = result /\ gotInput' = gotInput /\ gotVote1' = gotVote1
          /\ \A j \in Nodes : j # k => vote1'[j] = vote1[j] /\ revote'[j] = revote[j]
      BY <1>3, Zenon DEF FaultyCast, FaultyInput, FaultyVote1, FaultyRevote, got, Inv, TypeOK
    <2>2. Stable
      BY <1>3, Zenon DEF FaultyCast, FaultyInput, FaultyVote1, FaultyRevote, Stable, Inputs, Vote1s,
                  Revotes, Inv, TypeOK
    <2> SUFFICES ASSUME NEW j \in Honest PROVE EndOK(j)'
      BY Zenon DEF EndInv, Honest
    <2>3. j \in Nodes /\ j # k /\ EndOK(j)
      BY Zenon DEF Honest, EndInv
    <2> QED
      BY <2>1, <2>2, <2>3, EndElsewhere, Zenon
  <1>4. CASE UNCHANGED vars
    <2>1. UNCHANGED <<vote1, revote, result, gotInput, gotVote1>>
      BY <1>4, Zenon DEF vars, got
    <2> QED
      BY <2>1, Zenon DEF EndInv, EndOK, ValidVote1s
  <1> QED
    BY <1>1, <1>2, <1>3, <1>4, Zenon DEF Next

\* EndInv holds throughout a round, with liars or without.
THEOREM EndInvHolds == Safety => []EndInv
  BY InitEnd, NextEnd, InvHolds, PTL DEF Safety

\* The honest nodes are a quorum, alone or with others.
LEMMA HonestQuorum ==
    ASSUME NEW X, X \subseteq Nodes, Honest \subseteq X
    PROVE  Quorum(X)
  <1>1. IsFiniteSet(Nodes) /\ IsFiniteSet(Faulty) /\ Nodes \intersect Faulty = Faulty
    BY VoteAssumption, FS_Subset, Zenon
  <1>2. Cardinality(Honest) = N - Cardinality(Faulty)
    BY <1>1, FS_Difference, ZenonT(30) DEF Honest, N
  <1>3. Cardinality(Faulty) \in Nat
    BY <1>1, FS_CardinalityType, Zenon
  <1>4. Cardinality(Honest) >= N - T
    <2> HIDE DEF N
    <2> QED
      BY <1>2, <1>3, Thresholds, VoteAssumption
  <1>5. Quorum(Honest)
    BY <1>4, Zenon DEF Quorum
  <1> QED
    BY <1>5, QuorumGrows, Zenon

\* Once all honest nodes have started a round, it does not come to rest before all
\* of them have a result, whatever the faulty nodes cast, true or not: the sets an
\* honest node names become valid at every other.
THEOREM VoteEndsHolds == Safety => []VoteEnds
  <1>1. Inv /\ EndInv => VoteEnds
    <2> SUFFICES ASSUME Inv, EndInv, Honest \subseteq Inputs, AtRest, NEW i \in Honest,
                        result[i] = NoResult
                 PROVE  FALSE
      BY Zenon DEF VoteEnds
    <2>1. /\ Honest \subseteq Nodes
          /\ \A j \in Honest : gotInput[j] \subseteq Nodes /\ gotVote1[j] \subseteq Nodes
                                 /\ gotRevote[j] \subseteq Nodes
      BY Zenon DEF Honest, Inv, TypeOK
    <2> DEFINE valid(j) == ValidVote1s(gotInput[j], gotVote1[j])
    <2>2. ASSUME NEW j \in Honest PROVE vote1[j] # NoVote
      <3>1. CASE result[j] # NoResult
        BY <3>1, Zenon DEF EndInv, EndOK
      <3>2. CASE result[j] = NoResult
        <4>1. Honest \subseteq gotInput[j]
          BY <3>2, Zenon DEF AtRest
        <4> QED
          BY <2>1, <4>1, HonestQuorum, Zenon DEF Inv, NothingIsDue
      <3> QED
        BY <3>1, <3>2, Zenon
    <2>3. ASSUME NEW j \in Honest, result[j] = NoResult, NEW k \in Honest
          PROVE  k \in valid(j) /\ valid(k) \subseteq valid(j)
      <3>1. vote1[k].set \subseteq gotInput[k]
        BY <2>2, Zenon DEF EndInv, EndOK
      <3>2. /\ gotInput[k] \subseteq gotInput[j] /\ gotVote1[k] \subseteq gotVote1[j]
            /\ Vote1s \intersect Honest \subseteq gotVote1[j]
        BY <2>3, Zenon DEF AtRest
      <3>3. k \in gotVote1[j]
        BY <2>1, <2>2, <3>2, Zenon DEF Vote1s
      <3> QED
        BY <3>1, <3>2, <3>3, Zenon DEF ValidVote1s
    <2>4. ASSUME NEW j \in Honest PROVE revote[j] # NoVote
      <3>1. CASE result[j] # NoResult
        BY <3>1, Zenon DEF EndInv, EndOK
      <3>2. CASE result[j] = NoResult
        <4>1. Honest \subseteq valid(j) /\ valid(j) \subseteq Nodes
          BY <2>1, <2>3, <3>2, Zenon DEF ValidVote1s
        <4>2. Quorum(valid(j))
          BY <4>1, HonestQuorum, Zenon
        <4> QED
          BY <2>2, <4>2, Zenon DEF Inv, NothingIsDue
      <3> QED
        BY <3>1, <3>2, Zenon
    <2> DEFINE C == ValidRevotes(valid(i), gotRevote[i])
    <2>5. ASSUME NEW k \in Honest PROVE k \in C
      <3>1. revote[k].set \subseteq valid(k)
        BY <2>4, Zenon DEF EndInv, EndOK
      <3>2. valid(k) \subseteq valid(i)
        BY <2>3, Zenon
      <3>3. k \in gotRevote[i]
        BY <2>1, <2>4, Zenon DEF AtRest, Revotes
      <3> HIDE DEF valid
      <3> QED
        BY <3>1, <3>2, <3>3, Zenon DEF ValidRevotes
    <2>6. Quorum(C)
      <3>1. C \subseteq Nodes
        BY <2>1, Zenon DEF ValidRevotes
      <3> HIDE DEF C
      <3> QED
        BY <2>5, <3>1, HonestQuorum, Zenon
    <2>7. revote[i] # NoVote
      BY <2>4, Zenon
    <2> QED
      BY <2>6, <2>7, Zenon DEF Inv, NothingIsDue
  <1> QED
    BY <1>1, InvHolds, EndInvHolds, PTL
=============================================================================
