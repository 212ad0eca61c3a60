---------------------------- MODULE SecretProofs ----------------------------
(***************************************************************************)
(* Proofs about the reconstruction of IVSS and about what its messages     *)
(* must come to, on top of the sharing phase (IVSSProofs) and of the       *)
(* algebra of the field (PolynomialProofs): for every number of nodes,     *)
(* every T with N > 3T, every prime field and every set of scenarios.      *)
(***************************************************************************)
EXTENDS IVSSProofs, PolynomialProofs

\* Sets of nodes are sets of points of the field other than 0.
LEMMA NodesArePoints ==
    ASSUME NEW X, X \subseteq Nodes
    PROVE  Points(X)
  <1>1. X \subseteq 1..(Prime - 1)
    BY IVSSAssumption, PrimeFacts DEF Nodes
  <1> QED
    BY <1>1, SetsAreFinite, Zenon DEF Points

\* What is interpolated is an element of the field.
LEMMA Interpolation == InterpolatesToField
  <1> SUFFICES ASSUME NEW s \in Scenarios, NEW V \in SUBSET Nodes
               PROVE  InterpolateAtZero([u \in V |-> Evaluate(s.reveal[u], 0)]) \in Field
    BY Zenon DEF InterpolatesToField
  <1> DEFINE ys == [u \in V |-> Evaluate(s.reveal[u], 0)]
  <1>1. ASSUME NEW u \in V PROVE Evaluate(s.reveal[u], 0) \in Int
    <2> DEFINE p == s.reveal[u]
    <2>1. p \in [1..(T + 1) -> Field] /\ T + 1 \in Nat /\ 0 \in Int
      BY IVSSAssumption
    <2>2. p \in [1..(T + 1) -> Int]
      BY <2>1, FieldFunction, Zenon
    <2> HIDE DEF p
    <2>3. Evaluate(p, 0) \in Int
      BY <2>1, <2>2, EvaluateType, Zenon
    <2> QED
      BY <2>3, Zenon DEF p
  <1>2. ys \in [V -> Int]
    BY <1>1, Zenon
  <1>3. Points(V)
    BY NodesArePoints, Zenon
  <1> HIDE DEF ys
  <1>4. InterpolateAtZero(ys) \in Field
    BY <1>2, <1>3, InterpolateIsLagrange, Zenon
  <1> QED
    BY <1>4, Zenon DEF ys

\* The state of IVSS keeps to its types: EQUALs, REVEALs and READYs are those of
\* live nodes, M-sets are the dealer's, and a secret is an element of the field,
\* whatever was revealed.
THEOREM TypeCorrect == Spec => []TypeOK
  <1>1. ASSUME TypeOK, Inv, [Next]_vars PROVE TypeOK'
    BY <1>1, NextType, Interpolation, ZenonT(30)
  <1> QED
    BY <1>1, InitType, InvHolds, PTL DEF Spec

\* The bookkeeping of points, M-sets, faulty pairs, REVEALs and READYs is right in
\* every reachable state.
THEOREM IInvHolds == Spec => []IInv
  <1>1. ASSUME IInv, [Next]_vars PROVE IInv'
    BY <1>1, NextIInv, Interpolation, ZenonT(30)
  <1> QED
    BY <1>1, InitIInv, PTL DEF Spec

\* Soundness of certification: every pair that a node marks during the
\* reconstruction holds a node that revealed another polynomial than the dealer
\* gave it, whatever the dealer gave and in whatever order checkInterpolationSet
\* goes through its map.
THEOREM FaultyPairsAreFaultyHolds == Spec => []FaultyPairsAreFaulty
  <1>1. IInv => FaultyPairsAreFaulty
    BY ScenarioFacts, Zenon DEF IInv, PairsAreFaulty, FaultyPairsAreFaulty, TypeOK
  <1> QED
    BY <1>1, IInvHolds, PTL

\* Nobody lies, the dealer is honest and no pairs are known from before: once one
\* node has completed the sharing, at rest all have, and every member of the M-set
\* has delivered the secret, in whatever order M-sets, EQUALs, REVEALs and READYs
\* came.
THEOREM ReconstructionEndsHolds == Spec => []ReconstructionEnds
  BY RestReconstructs, IInvHolds, PTL

-----------------------------------------------------------------------------

(***************************************************************************)
(* The secret: what one node outputs, every node outputs.                  *)
(***************************************************************************)

\* Polynomials that agree at n-2t nodes or more are slices of one symmetric
\* polynomial, and any n-2t of them interpolate to its secret.
LEMMA OneSecret ==
    ASSUME NEW f \in [Nodes -> [1..(T + 1) -> Field]], NEW C, C \subseteq Nodes,
           Cardinality(C) >= N - 2 * T, Agree(f, C)
    PROVE  \E F : /\ Symmetric(T + 1, F)
                  /\ \A u \in C : GetUnivariatePolynomial(F, u) = f[u]
                  /\ \A V \in SUBSET C : Cardinality(V) >= N - 2 * T =>
                        InterpolateAtZero([u \in V |-> Evaluate(f[u], 0)]) = F[1][1]
  <1> DEFINE g == [u \in C |-> f[u]]
  <1>1. T \in Nat /\ T + 1 \in Nat /\ N - 2 * T >= T + 1 /\ N - 2 * T \in Int
    BY NodesFacts
  <1>2. \A V \in SUBSET C : Points(V) /\ (Cardinality(V) >= N - 2 * T => T + 1 <= Cardinality(V))
    BY <1>1, NodesArePoints, SetsAreFinite, SMTT(30)
  <1>3. Points(C) /\ T + 1 <= Cardinality(C)
    BY <1>2, Zenon
  <1>4. Fitting(T + 1, C, g)
    <2>1. g \in [C -> [1..(T + 1) -> Field]] /\ \A u \in C : g[u] = f[u]
      BY Zenon
    <2> HIDE DEF g
    <2> QED
      BY <2>1, Zenon DEF Fitting, Agree
  <1>5. PICK F : SlicesOf(T + 1, F, C, g)
    <2> HIDE DEF g
    <2> QED
      BY <1>1, <1>3, <1>4, SymmetricExists, ZenonT(30)
  <1>6. Symmetric(T + 1, F) /\ \A u \in C : GetUnivariatePolynomial(F, u) = f[u]
    BY <1>5, Zenon DEF SlicesOf
  <1>7. ASSUME NEW V \in SUBSET C, Cardinality(V) >= N - 2 * T
        PROVE  InterpolateAtZero([u \in V |-> Evaluate(f[u], 0)]) = F[1][1]
    <2>1. [u \in V |-> Evaluate(f[u], 0)] = [u \in V |-> Evaluate(GetUnivariatePolynomial(F, u), 0)]
      BY <1>6, Zenon
    <2>2. Points(V) /\ T + 1 <= Cardinality(V)
      BY <1>2, <1>7, Zenon
    <2>3. InterpolateAtZero([u \in V |-> Evaluate(GetUnivariatePolynomial(F, u), 0)]) = F[1][1]
      BY <1>1, <1>6, <2>2, SecretOfSlices, ZenonT(30)
    <2> QED
      BY <2>1, <2>3, Zenon
  <1> QED
    BY <1>6, <1>7, Zenon

\* With at most T liars, none of which fits another node: whatever set a node has
\* interpolated from, at whatever REVEAL, the secret it holds is the constant term of
\* a symmetric polynomial on which all shares of its M-set lie, even if the dealer
\* gave other nodes other shares.
THEOREM SecretIsSharedHolds ==
    ASSUME FewLiars
    PROVE  Spec => []SecretIsShared
  <1>1. IInv => SecretIsShared
    <2> SUFFICES ASSUME IInv, ~LiesFit, NEW i \in Live, secret[i] # NoSecret
                 PROVE  \E F \in SymmetricPolynomials(T, secret[i]) :
                            \A u \in mSet[i] : GetUnivariatePolynomial(F, u) = scenario.share[u]
      BY DEF SecretIsShared
    <2>1. scenario \in Scenarios /\ i \in Nodes /\ T \in Nat /\ secret[i] \in Field
      BY ScenarioFacts, NodesFacts, ZenonT(30) DEF IInv, TypeOK
    <2> DEFINE M == mSet[i]
               f == scenario.share
    <2>2. f \in [Nodes -> [1..(T + 1) -> Field]]
      BY <2>1, ScenarioFacts, Zenon
    <2>3. PICK V \in SUBSET M :
            /\ Cardinality(V) >= N - 2 * T /\ Agree(scenario.reveal, V)
            /\ secret[i] = InterpolateAtZero([u \in V |-> Evaluate(scenario.reveal[u], 0)])
      BY <2>1, Zenon DEF IInv, RevealsAreExamined, Interpolated, Candidates
    <2>4. M \subseteq Nodes /\ V \subseteq Nodes
      BY <2>1 DEF IInv, TypeOK
    <2>5. \A u \in V : scenario.reveal[u] = f[u]
      BY <2>1, <2>3, <2>4, ValidIsTrue, ZenonT(30)
    <2>6. Cardinality(M) >= N - 2 * T
      <3>1. Cardinality(V) <= Cardinality(M) /\ Cardinality(V) \in Nat /\ Cardinality(M) \in Nat
        BY <2>4, SubsetSize, SetsAreFinite, ZenonT(30)
      <3> QED
        BY <2>3, <3>1, NodesFacts, SMTT(30)
    <2>7. Agree(f, M)
      <3> SUFFICES ASSUME NEW u \in M, NEW v \in M PROVE Evaluate(f[u], v) = Evaluate(f[v], u)
        BY Zenon DEF Agree
      <3> QED
        BY <2>1, MSetFits, ZenonT(30) DEF IInv, processPoint
    <2>8. PICK F : /\ Symmetric(T + 1, F)
                   /\ \A u \in M : GetUnivariatePolynomial(F, u) = f[u]
                   /\ \A W \in SUBSET M : Cardinality(W) >= N - 2 * T =>
                        InterpolateAtZero([u \in W |-> Evaluate(f[u], 0)]) = F[1][1]
      <3> HIDE DEF M, f
      <3> QED
        BY <2>2, <2>4, <2>6, <2>7, OneSecret, SMTT(30)
    <2>9. secret[i] = F[1][1]
      <3>1. [u \in V |-> Evaluate(scenario.reveal[u], 0)] = [u \in V |-> Evaluate(f[u], 0)]
        BY <2>5, Zenon
      <3>2. InterpolateAtZero([u \in V |-> Evaluate(f[u], 0)]) = F[1][1]
        BY <2>3, <2>8, Zenon
      <3> QED
        BY <2>3, <3>1, <3>2, ZenonT(30)
    <2>10. F \in SymmetricPolynomials(T, secret[i])
      <3> DEFINE c == F[1][1]
      <3>1. c \in Field /\ F[1][1] = c /\ c = secret[i]
        BY <2>1, <2>9, Zenon
      <3> HIDE DEF c
      <3>2. F \in SymmetricPolynomials(T, c)
        BY <2>1, <2>8, <3>1, SymmetricPolynomialsFacts, ZenonT(30)
      <3> QED
        BY <3>1, <3>2, Zenon
    <2> QED
      BY <2>8, <2>10, ZenonT(30)
  <1> QED
    BY <1>1, IInvHolds, PTL

\* The I of IVSS: at rest, all that have delivered a secret have delivered the same,
\* or every correct member of the M-set has marked a pair it did not know before.
THEOREM InferableHolds == Spec => []Inferable
  <1>1. IInv => Inferable
    <2> SUFFICES ASSUME IInv, AtRest, NEW k \in Live \ Liars, k \in mSet[k], fp[k] = scenario.fp[k],
                        NEW i \in Live, NEW j \in Live, output[i] # NoSecret, output[j] # NoSecret
                 PROVE  output[i] = output[j]
      BY Zenon DEF Inferable
    <2> DEFINE C == Candidates(k)
               f == scenario.reveal
    <2>1. k \in Nodes /\ C \subseteq Nodes /\ f \in [Nodes -> [1..(T + 1) -> Field]]
      BY ScenarioFacts, Zenon DEF IInv, TypeOK, Candidates
    <2>2. Interpolated(f, C, output[i]) /\ Interpolated(f, C, output[j])
      BY OutputFacts, Zenon
    <2>3. PICK V \in SUBSET C : /\ Cardinality(V) >= N - 2 * T
                                /\ output[i] = InterpolateAtZero([u \in V |-> Evaluate(f[u], 0)])
      BY <2>2, Zenon DEF Interpolated
    <2>4. PICK W \in SUBSET C : /\ Cardinality(W) >= N - 2 * T
                                /\ output[j] = InterpolateAtZero([u \in W |-> Evaluate(f[u], 0)])
      BY <2>2, Zenon DEF Interpolated
    <2>5. Cardinality(C) >= N - 2 * T
      BY <2>1, <2>3, NodesFacts, LargerSet, SMTT(30)
    <2>6. k \in reconstructedPolys[k]
      BY Zenon DEF AtRest
    <2>7. Examined(k)
      BY <2>1, <2>5, <2>6, ZenonT(30) DEF IInv, RevealsAreExamined
    <2>8. ~ \E u, v \in C : u # v /\ {u, v} \in fp[k]
      <3>1. \A u, v \in mSet[k] : u # v => {u, v} \notin scenario.fp[k]
        BY <2>1, Zenon DEF IInv, PairsAreFaulty
      <3> QED
        BY <3>1, Zenon DEF Candidates
    <2>9. Agree(f, C)
      BY <2>7, <2>8, ZenonT(30) DEF Examined
    <2>10. PICK F : /\ Symmetric(T + 1, F)
                    /\ \A u \in C : GetUnivariatePolynomial(F, u) = f[u]
                    /\ \A X \in SUBSET C : Cardinality(X) >= N - 2 * T =>
                            InterpolateAtZero([u \in X |-> Evaluate(f[u], 0)]) = F[1][1]
      <3> HIDE DEF C, f
      <3> QED
        BY <2>1, <2>5, <2>9, OneSecret, SMTT(30)
    <2>11. InterpolateAtZero([u \in V |-> Evaluate(f[u], 0)]) = F[1][1]
      BY <2>3, <2>10, ZenonT(30)
    <2>12. InterpolateAtZero([u \in W |-> Evaluate(f[u], 0)]) = F[1][1]
      BY <2>4, <2>10, ZenonT(30)
    <2> QED
      BY <2>3, <2>4, <2>11, <2>12, ZenonT(30)
  <1> QED
    BY <1>1, IInvHolds, PTL

-----------------------------------------------------------------------------

(***************************************************************************)
(* The sharing phase ends: an honest dealer's shares let all live nodes    *)
(* complete.                                                               *)
(***************************************************************************)

\* The shares of an honest dealer fit pairwise.
LEMMA HonestSharesFit ==
    ASSUME scenario \in Scenarios, scenario.honest, NEW u \in Nodes, NEW v \in Nodes
    PROVE  processPoint(u, v)
  <1>1. scenario.share \in HonestShares
    BY IVSSAssumption, Zenon
  <1>0. PICK F \in UNION {SymmetricPolynomials(T, c) : c \in Field} :
            scenario.share = [k \in Nodes |-> GetUnivariatePolynomial(F, k)]
    BY <1>1, Zenon DEF HonestShares
  <1>2. PICK c \in Field : F \in SymmetricPolynomials(T, c)
    BY Zenon
  <1>3. T \in Nat /\ T + 1 \in Nat /\ u \in Int /\ v \in Int
    BY NodesFacts DEF Nodes
  <1>4. Symmetric(T + 1, F)
    BY <1>2, <1>3, SymmetricPolynomialsFacts, ZenonT(30)
  <1>5. Evaluate(GetUnivariatePolynomial(F, u), v) = Evaluate(GetUnivariatePolynomial(F, v), u)
    BY <1>3, <1>4, SlicesFit, ZenonT(30)
  <1> QED
    BY <1>0, <1>5, ZenonT(30) DEF processPoint

\* At rest, after an honest sharing, all live nodes have A-Cast EQUAL for all.
LEMMA AllEquals ==
    ASSUME IInv, AtRest, CleanStart
    PROVE  equals = Live \X Live
  <1>1. Live \subseteq Nodes /\ equals \subseteq Live \X Live /\ scenario \in Scenarios
    BY ScenarioFacts, Zenon DEF IInv, TypeOK
  <1>2. ASSUME NEW i \in Live, NEW j \in Live PROVE <<i, j>> \in equals
    <2>1. i \in shared /\ j \in receivedPoints[i] /\ i \in Nodes /\ j \in Nodes
      BY <1>1 DEF AtRest, CleanStart
    <2>2. processPoint(i, j)
      BY <1>1, <2>1, HonestSharesFit, ZenonT(30) DEF CleanStart
    <2> QED
      BY <2>1, <2>2, ZenonT(30) DEF IInv, PointsAreAnswered
  <1> QED
    BY <1>1, <1>2, SMTT(30)

\* Then the live nodes, with node 1 among them, are what the dealer's greedy pass
\* comes to.
LEMMA LiveIsCandidate ==
    ASSUME IInv, AtRest, CleanStart, 1 \in Live, mSet[Dealer] = {}
    PROVE  Live \in msets /\ Verified(fp[Dealer], completedEquals[Dealer], Live)
  <1>1. Live \subseteq Nodes /\ Dealer \in Live /\ Dealer \in Nodes /\ Cardinality(Live) >= N - T
    BY ScenarioFacts, IVSSAssumption, ZenonT(30) DEF IInv, TypeOK, CleanStart
  <1>2. fp[Dealer] = {}
    BY <1>1, Zenon DEF IInv, PairsAreFaulty, CleanStart
  <1>3. completedEquals[Dealer] = Live \X Live
    BY <1>1, AllEquals, Zenon DEF AtRest
  <1>4. \A u, v : Paired({}, Live \X Live, u, v) <=> u \in Live /\ v \in Live
    BY Zenon DEF Paired
  <1>5. Live \in CandidateSets({}, Live \X Live)
    <2>1. ASSUME NEW c \in Nodes
          PROVE  c \in Live <=> \A m \in Live : m < c => Paired({}, Live \X Live, c, m)
      <3>1. CASE c \in Live
        BY <1>4, <3>1, Zenon
      <3>2. CASE c \notin Live
        <4>1. 1 < c
          BY <3>2, NodesFacts, SMTT(30) DEF Nodes
        <4>2. ~Paired({}, Live \X Live, c, 1)
          BY <1>4, <3>2, Zenon
        <4> QED
          BY <3>2, <4>1, <4>2, ZenonT(30)
      <3> QED
        BY <3>1, <3>2, Zenon
    <2> QED
      BY <1>1, <2>1, Zenon DEF CandidateSets
  <1>6. <<Dealer, Dealer>> \in completedEquals[Dealer]
    BY <1>1, <1>3, Zenon
  <1>7. Live \in msets
    BY <1>1, <1>2, <1>3, <1>5, <1>6, ZenonT(30) DEF IInv, MSetsAreTried
  <1>8. Verified({}, Live \X Live, Live)
    BY <1>1, <1>4, ZenonT(30) DEF Verified
  <1> QED
    BY <1>2, <1>3, <1>7, <1>8, ZenonT(30)

\* Sharing ends: honest live dealer, n-t live nodes with node 1 among them, and no
\* pairs known from before.  At rest every live node has completed, in whatever order
\* shares, points, EQUALs, ECHOs and M-sets came, unless the dealer has A-Cast two
\* different M-sets under one UUID.
THEOREM SharingEndsHolds == Spec => []SharingEnds
  <1>1. IInv => SharingEnds
    <2> SUFFICES ASSUME IInv, AtRest, CleanStart, 1 \in Live, ~(Cardinality(msets) > 1), NEW i \in Live
                 PROVE  mSet[i] # {}
      BY Zenon DEF SharingEnds
    <2>1. Live \subseteq Nodes /\ Dealer \in Live /\ Cardinality(Live) >= N - T
      BY ScenarioFacts, Zenon DEF IInv, TypeOK, CleanStart
    <2>2. mSet[Dealer] # {}
      <3> SUFFICES ASSUME mSet[Dealer] = {} PROVE FALSE
        BY Zenon
      <3>1. Live \in msets /\ Verified(fp[Dealer], completedEquals[Dealer], Live)
        BY LiveIsCandidate, Zenon
      <3>2. \A M \in msets : M = Live
        <4> SUFFICES ASSUME NEW M \in msets, M # Live PROVE FALSE
          BY Zenon
        <4>1. IsFiniteSet(msets)
          <5>1. IsFiniteSet(SUBSET Nodes)
            BY NodesFacts, FS_SUBSET, ZenonT(30)
          <5>2. msets \subseteq SUBSET Nodes
            BY Zenon DEF IInv, TypeOK
          <5> QED
            BY <5>1, <5>2, FS_Subset, ZenonT(30)
        <4> DEFINE X == {M}
                   Y == X \union {Live}
        <4>2. Cardinality(X) = 1 /\ IsFiniteSet(X)
          BY FS_Singleton, Zenon
        <4>3. Cardinality(Y) = Cardinality(X) + 1
          <5>1. Live \notin X
            BY Zenon
          <5> HIDE DEF X
          <5> QED
            BY <4>2, <5>1, FS_AddElement, ZenonT(30)
        <4>4. Y \subseteq msets
          BY <3>1, Zenon
        <4> HIDE DEF X, Y
        <4>5. Cardinality(Y) <= Cardinality(msets) /\ Cardinality(msets) \in Nat
          BY <4>1, <4>4, FS_Subset, FS_CardinalityType, ZenonT(30)
        <4> QED
          BY <4>2, <4>3, <4>5, SMTT(30)
      <3>3. \A x \in Live : echoed[x] = Live
        BY <2>1, <3>1, <3>2, ZenonT(30) DEF AtRest, IInv, TypeOK
      <3>4. EchoQuorum(Live)
        <4>1. {x \in Live : echoed[x] = Live} = Live
          BY <3>3, Zenon
        <4> QED
          BY <2>1, <4>1, Zenon DEF EchoQuorum
      <3>5. pendingMSet[Dealer] = Live
        BY <2>1, <3>1, <3>4, Zenon DEF AtRest
      <3> QED
        BY <2>1, <3>1, <3>5, Zenon DEF IInv, MSetsAreTried
    <2> QED
      BY <2>1, <2>2, AllComplete, ZenonT(30)
  <1> QED
    BY <1>1, IInvHolds, PTL
=============================================================================
