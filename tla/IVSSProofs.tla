----------------------------- MODULE IVSSProofs -----------------------------
(***************************************************************************)
(* Proofs about IVSS that need no algebra, for every number of nodes,      *)
(* every T with N > 3T, every field and every set of scenarios: all nodes  *)
(* complete with one and the same M-set, its shares fit pairwise, and the  *)
(* invariant IInv about points, M-sets, faulty pairs, REVEALs and READYs   *)
(* is inductive. What needs the algebra of the field is in SecretProofs.   *)
(***************************************************************************)
EXTENDS IVSS, FiniteSetTheorems, TLAPS

\* An EQUAL says that two nodes hold shares that fit, wherever it came from: a
\* point after the share, or one before it.
EqualsAreTrue ==
    /\ earlyPoints \in [Nodes -> SUBSET shared]
    /\ equals \subseteq {e \in shared \X shared : processPoint(e[1], e[2])}
    /\ completedEquals \in [Nodes -> SUBSET equals]

\* An M-set comes from the dealer, after its share; one that A-Cast delivers has a
\* quorum of ECHOs; one that a node has completed with has all its EQUALs at that
\* node.
MSetsAreEchoed ==
    /\ msets \subseteq SUBSET Nodes /\ (msets # {} => Dealer \in shared)
    /\ echoed \in [Nodes -> msets \union {{}}]
    /\ pendingMSet \in [Nodes -> msets \union {{}}]
    /\ mSet \in [Nodes -> msets \union {{}}]
    /\ \A i \in Nodes :
        /\ pendingMSet[i] # {} => EchoQuorum(pendingMSet[i])
        /\ mSet[i] # {} => /\ EchoQuorum(mSet[i])
                           /\ Cardinality(mSet[i]) >= N - T
                           /\ \A u, v \in mSet[i] : u # v => <<u, v>> \in completedEquals[i]

Inv == scenario \in Scenarios /\ EqualsAreTrue /\ MSetsAreEchoed

-----------------------------------------------------------------------------

(***************************************************************************)
(* Sets of nodes, and the quorums that two of them must share.             *)
(***************************************************************************)

\* The nodes 1..n are finite in number, and the live ones are among them.
LEMMA NodesFacts ==
    /\ IsFiniteSet(Nodes) /\ Cardinality(Nodes) = N
    /\ N \in Nat /\ T \in Nat /\ N > 3 * T
    /\ scenario \in Scenarios => Live \subseteq Nodes
  <1>1. N \in Nat /\ T \in Nat /\ N > 3 * T
    BY IVSSAssumption, Zenon
  <1>2. IsFiniteSet(1..N) /\ Cardinality(1..N) = N
    BY <1>1, FS_Interval
  <1> QED
    BY <1>1, <1>2, IVSSAssumption, Zenon DEF Nodes, Live

\* Two quorums of n-t nodes have a node in common.
LEMMA Overlap ==
    ASSUME NEW X, X \subseteq Nodes, NEW Y, Y \subseteq Nodes,
           Cardinality(X) >= N - T, Cardinality(Y) >= N - T
    PROVE  X \intersect Y # {}
  <1> SUFFICES ASSUME X \intersect Y = {} PROVE FALSE
    BY Zenon
  <1>1. IsFiniteSet(X) /\ IsFiniteSet(Y)
    BY NodesFacts, FS_Subset, Zenon
  <1>2. Cardinality(X) \in Nat /\ Cardinality(Y) \in Nat
    BY <1>1, FS_CardinalityType, Zenon
  <1>3. Cardinality(X \union Y) =
            Cardinality(X) + Cardinality(Y) - Cardinality(X \intersect Y)
    BY <1>1, FS_Union, Zenon
  <1>4. Cardinality(X \intersect Y) = 0
    BY FS_EmptySet, Zenon
  <1>5. Cardinality(X \union Y) <= N
    <2>1. X \union Y \subseteq Nodes
      BY Zenon
    <2> QED
      BY <2>1, NodesFacts, FS_Subset, Zenon
  <1> QED
    BY <1>2, <1>3, <1>4, <1>5, NodesFacts

\* A node echoes the M-set's UUID once, so at most one M-set is delivered.
LEMMA OneQuorum ==
    ASSUME scenario \in Scenarios, NEW M1, NEW M2, EchoQuorum(M1), EchoQuorum(M2)
    PROVE  M1 = M2
  <1>1. {x \in Live : echoed[x] = M1} \intersect {x \in Live : echoed[x] = M2} # {}
    BY Overlap, NodesFacts, Zenon DEF EchoQuorum
  <1> QED
    BY <1>1, Zenon

\* ECHOs are never taken back.
LEMMA QuorumLasts ==
    ASSUME scenario \in Scenarios, scenario' = scenario,
           \A x \in Nodes : echoed[x] # {} => echoed'[x] = echoed[x],
           NEW M, M # {}, EchoQuorum(M)
    PROVE  EchoQuorum(M)'
  <1> DEFINE X == {x \in Live : echoed[x] = M}
  <1>1. Live' = Live /\ Live \subseteq Nodes
    BY NodesFacts, Zenon DEF Live
  <1>2. X \subseteq X' /\ X' \subseteq Nodes
    BY <1>1, Zenon
  <1>3. IsFiniteSet(X') /\ IsFiniteSet(X)
    BY <1>2, NodesFacts, FS_Subset, Zenon
  <1>4. Cardinality(X) <= Cardinality(X')
    BY <1>2, <1>3, FS_Subset, Zenon
  <1>5. Cardinality(X) \in Nat /\ Cardinality(X') \in Nat
    BY <1>3, FS_CardinalityType, Zenon
  <1>6. Cardinality(X) >= N - T
    BY Zenon DEF EchoQuorum
  <1>7. Cardinality(X') >= N - T
    <2> HIDE DEF X
    <2> QED
      BY <1>4, <1>5, <1>6, NodesFacts
  <1> QED
    BY <1>7, Zenon DEF EchoQuorum

-----------------------------------------------------------------------------

(***************************************************************************)
(* The sharing phase: Inv is inductive, and M-sets are sound.              *)
(***************************************************************************)

\* No point, EQUAL or M-set exists before the first share.
LEMMA InitInv == Init => Inv
  BY Zenon DEF Init, Inv, EqualsAreTrue, MSetsAreEchoed

\* A share turns the early points that fit into EQUALs.
LEMMA ShareKeepsInv ==
    ASSUME Inv, NEW i \in Nodes, OnShare(i)
    PROVE  Inv'
  <1> USE DEF msetVars
  <1>1. scenario' = scenario /\ shared' = shared \union {i}
    BY Zenon DEF OnShare
  <1>2. \A u, v : processPoint(u, v)' = processPoint(u, v)
    BY <1>1, Zenon DEF processPoint
  <1>3. EqualsAreTrue'
    <2>1. earlyPoints' \in [Nodes -> SUBSET shared']
      BY <1>1, Zenon DEF OnShare, Inv, EqualsAreTrue
    <2>2. equals' \subseteq {e \in shared' \X shared' : processPoint(e[1], e[2])}
      <3> SUFFICES ASSUME NEW e \in equals'
                   PROVE  e \in shared' \X shared' /\ processPoint(e[1], e[2])
        BY Zenon
      <3>1. CASE e \in equals
        BY <3>1, <1>1, Zenon DEF Inv, EqualsAreTrue
      <3>2. CASE e \notin equals
        <4>1. PICK j \in earlyPoints[i] : e = <<i, j>> /\ processPoint(i, j)
          BY <3>2, Zenon DEF OnShare
        <4>2. j \in shared
          BY <4>1, Zenon DEF Inv, EqualsAreTrue
        <4> QED
          BY <4>1, <4>2, <1>1, Zenon
      <3> QED
        BY <3>1, <3>2, Zenon
    <2>3. completedEquals' \in [Nodes -> SUBSET equals']
      BY Zenon DEF OnShare, Inv, EqualsAreTrue
    <2> QED
      BY <2>1, <2>2, <2>3, <1>2, Zenon DEF EqualsAreTrue
  <1>4. MSetsAreEchoed'
    BY <1>1, Zenon DEF OnShare, Inv, MSetsAreEchoed, EchoQuorum, Live
  <1> QED
    BY <1>1, <1>3, <1>4, Zenon DEF Inv

\* A point that fits becomes an EQUAL, or waits for the share.
LEMMA PointKeepsInv ==
    ASSUME Inv, NEW i \in Nodes, NEW j \in Nodes, OnPoint(i, j)
    PROVE  Inv'
  <1> USE DEF msetVars
  <1>1. scenario' = scenario /\ shared' = shared /\ j \in shared
    BY Zenon DEF OnPoint
  <1>2. \A u, v : processPoint(u, v)' = processPoint(u, v)
    BY <1>1, Zenon DEF processPoint
  <1>3. EqualsAreTrue'
    <2>1. earlyPoints' \in [Nodes -> SUBSET shared']
      BY <1>1 DEF OnPoint, Inv, EqualsAreTrue
    <2>2. equals' \subseteq {e \in shared' \X shared' : processPoint(e[1], e[2])}
      <3>1. \A e \in equals' : e \in equals \/ (e = <<i, j>> /\ i \in shared /\ processPoint(i, j))
        BY Zenon DEF OnPoint
      <3> QED
        BY <3>1, <1>1 DEF Inv, EqualsAreTrue
    <2>3. completedEquals' \in [Nodes -> SUBSET equals']
      BY Zenon DEF OnPoint, Inv, EqualsAreTrue
    <2> QED
      BY <2>1, <2>2, <2>3, <1>2, Zenon DEF EqualsAreTrue
  <1>4. MSetsAreEchoed'
    BY <1>1, ZenonT(30) DEF OnPoint, Inv, MSetsAreEchoed, EchoQuorum, Live
  <1> QED
    BY <1>1, <1>3, <1>4, Zenon DEF Inv

\* An EQUAL may complete the sharing with the pending M-set, whose ECHOs are
\* there already.
LEMMA EqualKeepsInv ==
    ASSUME Inv, NEW i \in Nodes, NEW e \in equals, OnEqual(i, e)
    PROVE  Inv'
  <1> DEFINE E == completedEquals[i] \union {e}
  <1>1. /\ scenario' = scenario /\ echoed' = echoed /\ msets \subseteq msets'
        /\ shared' = shared /\ earlyPoints' = earlyPoints /\ equals' = equals
        /\ completedEquals' = [completedEquals EXCEPT ![i] = E]
    BY Zenon DEF OnEqual, sharingVars
  <1>2. EqualsAreTrue'
    <2>1. \A u, v : processPoint(u, v)' = processPoint(u, v)
      BY <1>1, Zenon DEF processPoint
    <2> QED
      BY <1>1, <2>1, Zenon DEF Inv, EqualsAreTrue
  <1>3. \A M : EchoQuorum(M)' = EchoQuorum(M)
    BY <1>1, Zenon DEF EchoQuorum, Live
  <1>4. /\ completedEquals'[i] = E
        /\ \A k \in Nodes : completedEquals[k] \subseteq completedEquals'[k]
    BY <1>1, Zenon DEF Inv, EqualsAreTrue
  <1> SUFFICES MSetsAreEchoed'
    BY <1>1, <1>2, Zenon DEF Inv
  <1>0. msets' \subseteq SUBSET Nodes /\ (msets' # {} => Dealer \in shared')
    BY <1>1, Zenon DEF OnEqual, checkCandidateSet, Inv, MSetsAreEchoed
  <1>5. CASE mSet' = mSet /\ pendingMSet' = pendingMSet
    BY <1>0, <1>1, <1>3, <1>4, <1>5, Zenon DEF Inv, MSetsAreEchoed
  <1>6. CASE /\ pendingMSet[i] # {} /\ verifyMSet(i, E, pendingMSet[i])
             /\ mSet' = [mSet EXCEPT ![i] = pendingMSet[i]]
             /\ pendingMSet' = [pendingMSet EXCEPT ![i] = {}]
    <2>1. /\ mSet' \in [Nodes -> msets' \union {{}}]
          /\ pendingMSet' \in [Nodes -> msets' \union {{}}]
          /\ echoed' \in [Nodes -> msets' \union {{}}]
      BY <1>1, <1>6, Zenon DEF Inv, MSetsAreEchoed
    <2>2. /\ Cardinality(pendingMSet[i]) >= N - T
          /\ \A u, v \in pendingMSet[i] : u # v => <<u, v>> \in E
      BY <1>6, Zenon DEF verifyMSet, MayPair
    <2>3. mSet'[i] = pendingMSet[i] /\ EchoQuorum(pendingMSet[i])
      BY <1>6, Zenon DEF Inv, MSetsAreEchoed
    <2>4. \A k \in Nodes : pendingMSet'[k] # {} => EchoQuorum(pendingMSet'[k])
      BY <1>6, Zenon DEF Inv, MSetsAreEchoed
    <2>5. ASSUME NEW k \in Nodes, mSet'[k] # {}
          PROVE  /\ EchoQuorum(mSet'[k]) /\ Cardinality(mSet'[k]) >= N - T
                 /\ \A u, v \in mSet'[k] : u # v => <<u, v>> \in completedEquals'[k]
      <3>1. CASE k = i
        BY <3>1, <2>2, <2>3, <1>4, Zenon
      <3>2. CASE k # i
        <4>1. mSet'[k] = mSet[k]
          BY <3>2, <1>6, Zenon DEF Inv, MSetsAreEchoed
        <4> QED
          BY <4>1, <2>5, <1>4, Zenon DEF Inv, MSetsAreEchoed
      <3> QED
        BY <3>1, <3>2, Zenon
    <2> QED
      BY <2>1, <2>4, <2>5, <1>0, <1>3, Zenon DEF MSetsAreEchoed
  <1> QED
    BY <1>5, <1>6, Zenon DEF OnEqual

\* An ECHO adds to one quorum and takes from none.
LEMMA EchoKeepsInv ==
    ASSUME Inv, NEW i \in Nodes, NEW M \in msets, EchoMSet(i, M)
    PROVE  Inv'
  <1>1. /\ scenario' = scenario /\ scenario \in Scenarios
        /\ \A x \in Nodes : echoed[x] # {} => echoed'[x] = echoed[x]
    BY Zenon DEF EchoMSet, Inv, MSetsAreEchoed
  <1>2. \A X : X # {} /\ EchoQuorum(X) => EchoQuorum(X)'
    BY <1>1, QuorumLasts, Zenon
  <1>3. EqualsAreTrue'
    BY Zenon DEF EchoMSet, sharingVars, Inv, EqualsAreTrue, processPoint
  <1>4. MSetsAreEchoed'
    BY <1>2, Zenon DEF EchoMSet, sharingVars, Inv, MSetsAreEchoed
  <1> QED
    BY <1>1, <1>3, <1>4, Zenon DEF Inv

\* A delivered M-set has its quorum; it is completed with only if verifyMSet
\* finds all EQUALs.
LEMMA MSetKeepsInv ==
    ASSUME Inv, NEW i \in Nodes, NEW M \in msets, OnMSet(i, M)
    PROVE  Inv'
  <1>1. /\ scenario' = scenario /\ echoed' = echoed /\ msets' = msets
        /\ completedEquals' = completedEquals /\ EchoQuorum(M) /\ shared' = shared
    BY Zenon DEF OnMSet, sharingVars
  <1>2. EqualsAreTrue'
    BY Zenon DEF OnMSet, sharingVars, Inv, EqualsAreTrue, processPoint
  <1>3. \A X : EchoQuorum(X)' = EchoQuorum(X)
    BY <1>1, Zenon DEF EchoQuorum, Live
  <1> SUFFICES MSetsAreEchoed'
    BY <1>1, <1>2, Zenon DEF Inv
  <1>4. CASE verifyMSet(i, completedEquals[i], M) /\ mSet' = [mSet EXCEPT ![i] = M]
             /\ pendingMSet' = pendingMSet
    <2>1. /\ Cardinality(M) >= N - T
          /\ \A u, v \in M : u # v => <<u, v>> \in completedEquals[i]
      BY <1>4, Zenon DEF verifyMSet, MayPair
    <2>2. mSet' \in [Nodes -> msets' \union {{}}]
      BY <1>1, <1>4, Zenon DEF Inv, MSetsAreEchoed
    <2>3. \A k \in Nodes : IF k = i THEN mSet'[k] = M ELSE mSet'[k] = mSet[k]
      BY <1>4, Zenon DEF Inv, MSetsAreEchoed
    <2> QED
      BY <2>1, <2>2, <2>3, <1>1, <1>3, <1>4 DEF Inv, MSetsAreEchoed
  <1>5. CASE pendingMSet' = [pendingMSet EXCEPT ![i] = M] /\ mSet' = mSet
    <2>1. pendingMSet' \in [Nodes -> msets' \union {{}}]
      BY <1>1, <1>5, Zenon DEF Inv, MSetsAreEchoed
    <2>2. \A k \in Nodes : pendingMSet'[k] = M \/ pendingMSet'[k] = pendingMSet[k]
      BY <1>5, Zenon DEF Inv, MSetsAreEchoed
    <2> QED
      BY <2>1, <2>2, <1>1, <1>3, <1>5 DEF Inv, MSetsAreEchoed
  <1> QED
    BY <1>4, <1>5, Zenon DEF OnMSet

\* Nothing else touches the sharing phase; reconstruction in particular does not.
LEMMA RestKeepsInv ==
    ASSUME Inv, UNCHANGED <<scenario, sharingVars, msetVars>>
    PROVE  Inv'
  <1> USE DEF sharingVars, msetVars
  <1>1. EqualsAreTrue'
    BY Zenon DEF Inv, EqualsAreTrue, processPoint
  <1>2. MSetsAreEchoed'
    BY ZenonT(30) DEF Inv, MSetsAreEchoed, EchoQuorum, Live
  <1> QED
    BY <1>1, <1>2, Zenon DEF Inv

\* No step, and no stuttering step, leaves the invariant.
LEMMA NextInv == Inv /\ [Next]_vars => Inv'
  <1> SUFFICES ASSUME Inv, [Next]_vars PROVE Inv'
    BY Zenon
  <1>1. CASE UNCHANGED vars
    BY <1>1, RestKeepsInv, Zenon DEF vars
  <1>2. ASSUME NEW i \in Nodes, Step(i) PROVE Inv'
    <2>1. CASE OnShare(i)
      BY <2>1, ShareKeepsInv, Zenon
    <2>2. CASE \E j \in Nodes : OnPoint(i, j)
      BY <2>2, PointKeepsInv, Zenon
    <2>3. CASE \E e \in equals : OnEqual(i, e)
      BY <2>3, EqualKeepsInv, Zenon
    <2>4. CASE \E M \in msets : EchoMSet(i, M) \/ OnMSet(i, M)
      BY <2>4, EchoKeepsInv, MSetKeepsInv, Zenon
    <2>5. CASE StartReconstruction(i)
      BY <2>5, RestKeepsInv, Zenon DEF StartReconstruction
    <2>6. CASE \E j \in Nodes : OnReveal(i, j) \/ OnReady(i, j)
      BY <2>6, RestKeepsInv, Zenon DEF OnReveal, OnReady
    <2> QED
      BY <1>2, <2>1, <2>2, <2>3, <2>4, <2>5, <2>6, Zenon DEF Step
  <1> QED
    BY <1>1, <1>2, Zenon DEF Next

\* EQUALs are true and M-sets are echoed in every reachable state.
THEOREM InvHolds == Spec => []Inv
  BY InitInv, NextInv, PTL DEF Spec

\* The shares of an M-set that a node has completed with fit pairwise.
LEMMA MSetFits ==
    ASSUME Inv, NEW i \in Nodes, NEW u \in mSet[i], NEW v \in mSet[i]
    PROVE  processPoint(u, v)
  <1>1. CASE u = v
    BY <1>1, Zenon DEF processPoint
  <1>2. CASE u # v
    <2>1. <<u, v>> \in equals
      <3>1. <<u, v>> \in completedEquals[i]
        BY <1>2, Zenon DEF Inv, MSetsAreEchoed
      <3> QED
        BY <3>1, Zenon DEF Inv, EqualsAreTrue
    <2>2. processPoint(<<u, v>>[1], <<u, v>>[2])
      BY <2>1, Zenon DEF Inv, EqualsAreTrue
    <2> QED
      BY <2>2, Zenon
  <1> QED
    BY <1>1, <1>2, Zenon

\* Its members have their shares: each has sent an EQUAL, or there is one node only
\* and that is the dealer.
LEMMA MSetShared ==
    ASSUME Inv, NEW i \in Nodes
    PROVE  mSet[i] \subseteq shared
  <1> SUFFICES ASSUME NEW u \in mSet[i] PROVE u \in shared
    BY Zenon
  <1>1. /\ mSet[i] \in msets /\ Cardinality(mSet[i]) >= N - T
        /\ \A v \in mSet[i] : u # v => <<u, v>> \in completedEquals[i]
        /\ Dealer \in shared /\ mSet[i] \subseteq Nodes
    BY Zenon DEF Inv, MSetsAreEchoed
  <1>2. CASE \E v \in mSet[i] : u # v
    <2>1. PICK v \in mSet[i] : <<u, v>> \in completedEquals[i]
      BY <1>1, <1>2, Zenon
    <2>2. <<u, v>> \in equals
      BY <2>1, Zenon DEF Inv, EqualsAreTrue
    <2>3. <<u, v>> \in shared \X shared
      BY <2>2, Zenon DEF Inv, EqualsAreTrue
    <2> QED
      BY <2>3, Zenon
  <1>3. CASE \A v \in mSet[i] : u = v
    <2>1. mSet[i] = {u}
      BY <1>3, Zenon
    <2>2. Cardinality({u}) = 1
      BY FS_Singleton, Zenon
    <2>3. 1 >= N - T
      BY <1>1, <2>1, <2>2, Zenon
    <2>4. N = 1
      BY <2>3, NodesFacts
    <2>5. u = Dealer
      BY <1>1, <2>4, IVSSAssumption DEF Nodes
    <2> QED
      BY <1>1, <2>5, Zenon
  <1> QED
    BY <1>2, <1>3, Zenon

\* All nodes complete with the same M-set.
LEMMA OneMSet ==
    ASSUME Inv, NEW i \in Nodes, NEW j \in Nodes, mSet[i] # {}, mSet[j] # {}
    PROVE  mSet[i] = mSet[j]
  BY OneQuorum, Zenon DEF Inv, MSetsAreEchoed

\* All nodes that complete the sharing do so with the same M-set, and the shares
\* of its members fit pairwise, whatever shares the dealer gave and in whatever
\* order EQUALs, ECHOs and M-sets arrive, even if the dealer sends several M-sets.
THEOREM MSetIsSoundHolds == Spec => []MSetIsSound
  <1>1. Inv => MSetIsSound
    <2> SUFFICES ASSUME Inv PROVE MSetIsSound
      BY Zenon
    <2> DEFINE accepted == {mSet[i] : i \in Live} \ {{}}
    <2>1. Live \subseteq Nodes
      BY NodesFacts, Zenon DEF Inv
    <2>2. \A M1, M2 \in accepted : M1 = M2
      BY <2>1, OneMSet, Zenon
    <2>3. Cardinality(accepted) <= 1
      <3>1. CASE accepted = {}
        BY <3>1, FS_EmptySet
      <3>2. CASE accepted # {}
        <4>1. PICK M \in accepted : TRUE
          BY <3>2, Zenon
        <4> HIDE DEF accepted
        <4>2. accepted = {M}
          BY <4>1, <2>2, Zenon
        <4> QED
          BY <4>2, FS_Singleton
      <3> QED
        BY <3>1, <3>2, Zenon
    <2>4. \A M \in accepted : M \subseteq shared /\ \A u, v \in M : processPoint(u, v)
      BY <2>1, MSetShared, MSetFits, Zenon
    <2> QED
      BY <2>3, <2>4, Zenon DEF MSetIsSound
  <1> QED
    BY <1>1, InvHolds, PTL

-----------------------------------------------------------------------------

(***************************************************************************)
(* The invariant of the whole protocol: what every message that was        *)
(* handled must have come to.                                              *)
(***************************************************************************)

\* The polynomials f of V agree wherever they cross.
Agree(f, V) == \A u, v \in V : Evaluate(f[u], v) = Evaluate(f[v], u)

\* The polynomials that i would interpolate from.
Candidates(i) == reconstructedPolys[i] \intersect mSet[i]

\* A point that has come is answered by an EQUAL, or waits for the share.
PointsAreAnswered ==
    \A i \in Nodes : \A j \in receivedPoints[i] :
        IF i \in shared THEN processPoint(i, j) => <<i, j>> \in equals ELSE j \in earlyPoints[i]

\* What checkCandidateSet and verifyMSet make of the EQUALs E and the pairs F.
Paired(F, E, u, v) == <<u, v>> \in E /\ <<v, u>> \in E /\ {u, v} \notin F

CandidateSets(F, E) ==
    {M \in SUBSET Nodes :
        /\ \A c \in Nodes : c \in M <=> \A m \in M : m < c => Paired(F, E, c, m)
        /\ Cardinality(M) >= N - T}

Verified(F, E, M) == Cardinality(M) >= N - T /\ \A u, v \in M : u # v => Paired(F, E, u, v)

\* The dealer has A-Cast what its EQUALs allow, and no M-set is pending that
\* could be completed with.
MSetsAreTried ==
    /\ mSet[Dealer] = {} /\ (\E j \in Nodes : <<Dealer, j>> \in completedEquals[Dealer])
         => CandidateSets(fp[Dealer], completedEquals[Dealer]) \subseteq msets
    /\ \A i \in Nodes :
        pendingMSet[i] # {} /\ mSet[i] = {} => ~Verified(fp[i], completedEquals[i], pendingMSet[i])

\* A node marks pairs after its sharing only, never forgets one, and has not
\* completed with an M-set that holds one it knew of.
PairsAreFaulty ==
    \A i \in Nodes :
        /\ scenario.fp[i] \subseteq fp[i]
        /\ mSet[i] = {} => fp[i] = scenario.fp[i]
        /\ \A u, v \in mSet[i] : u # v => {u, v} \notin scenario.fp[i]
        /\ \A pair \in fp[i] \ scenario.fp[i] : pair \intersect Liars # {}

\* x comes from enough of the polynomials f of C, and these agree.
Interpolated(f, C, x) ==
    \E V \in SUBSET C :
        /\ Cardinality(V) >= N - 2 * T
        /\ Agree(f, V)
        /\ x = InterpolateAtZero([u \in V |-> Evaluate(f[u], 0)])

\* After its own REVEAL a node has looked at all there are: it is ready, or it
\* has marked two that do not agree.
Examined(i) ==
    \/ Agree(scenario.reveal, Candidates(i)) /\ i \in ready
    \/ \E u, v \in Candidates(i) : u # v /\ ~isConsistent(u, v) /\ {u, v} \in fp[i]

RevealsAreExamined ==
    \A i \in Nodes :
        /\ i \in revealed => i \in mSet[i]
        /\ i \in reconstructedPolys[i] /\ Cardinality(Candidates(i)) >= N - 2 * T => Examined(i)
        /\ secret[i] # NoSecret => Interpolated(scenario.reveal, Candidates(i), secret[i])

\* READY is sent with a secret, and a node that has its own among enough of them
\* has delivered it.
ReadysAreCounted ==
    \A i \in Nodes :
        /\ i \in ready => secret[i] # NoSecret
        /\ output[i] # NoSecret => Interpolated(scenario.reveal, Candidates(i), output[i])
        /\ i \in readyToComplete[i] /\ Cardinality(readyToComplete[i]) >= N - T => output[i] # NoSecret

IInv ==
    /\ Inv /\ TypeOK
    /\ PointsAreAnswered /\ MSetsAreTried /\ PairsAreFaulty
    /\ RevealsAreExamined /\ ReadysAreCounted

-----------------------------------------------------------------------------

(***************************************************************************)
(* Sets of nodes with ranks, the greedy pass over revealed polynomials,    *)
(* and the pairs it marks.                                                 *)
(***************************************************************************)

\* What the scenario gives: nodes are points of the field, and shares and revealed
\* polynomials have T + 1 coefficients.
LEMMA ScenarioFacts ==
    ASSUME scenario \in Scenarios
    PROVE  /\ Live \subseteq Nodes /\ Nodes \subseteq Int /\ T + 1 \in Nat
           /\ scenario.share \in [Nodes -> [1..(T + 1) -> Field]]
           /\ scenario.reveal \in [Nodes -> [1..(T + 1) -> Field]]
           /\ scenario.fp \in [Nodes -> SUBSET SUBSET Nodes]
  BY IVSSAssumption DEF Live, Nodes

\* Sets of nodes are finite.
LEMMA SetsAreFinite ==
    ASSUME NEW X, X \subseteq Nodes
    PROVE  IsFiniteSet(X) /\ Cardinality(X) \in Nat
  <1>1. IsFiniteSet(X)
    BY NodesFacts, FS_Subset, Zenon
  <1> QED
    BY <1>1, FS_CardinalityType, Zenon

\* A smaller set of nodes has no more members.
LEMMA SubsetSize ==
    ASSUME NEW X, NEW Y, X \subseteq Y, Y \subseteq Nodes
    PROVE  Cardinality(X) <= Cardinality(Y)
  <1>1. IsFiniteSet(Y)
    BY SetsAreFinite, Zenon
  <1> QED
    BY <1>1, FS_Subset, Zenon

\* A larger set reaches every bound that a smaller one reaches.
LEMMA LargerSet ==
    ASSUME NEW X, NEW Y, X \subseteq Y, Y \subseteq Nodes, NEW k \in Int, Cardinality(X) >= k
    PROVE  Cardinality(Y) >= k
  <1> DEFINE x == Cardinality(X)
             y == Cardinality(Y)
  <1>1. x <= y /\ x \in Nat /\ y \in Nat /\ x >= k
    BY SubsetSize, SetsAreFinite, Zenon
  <1> HIDE DEF x, y
  <1>2. y >= k
    BY <1>1
  <1> QED
    BY <1>2, Zenon DEF y

\* Of finitely many things with ranks one comes first.
LEMMA FirstOf ==
    ASSUME NEW K, IsFiniteSet(K), K # {}, NEW rank, \A m \in K : rank[m] \in Nat
    PROVE  \E m \in K : \A k \in K : rank[m] <= rank[k]
  <1> DEFINE B(m) == {k \in K : rank[k] < rank[m]}
             U == {B(m) : m \in K}
  <1>1. U \subseteq FiniteSubsetsOf(K) /\ U # {}
    <2>1. ASSUME NEW m \in K PROVE B(m) \in FiniteSubsetsOf(K)
      <3>1. B(m) \subseteq K
        BY Zenon
      <3>2. IsFiniteSet(B(m))
        <4> HIDE DEF B
        <4> QED
          BY <3>1, FS_Subset, Zenon
      <3> QED
        BY <3>1, <3>2, Zenon DEF FiniteSubsetsOf
    <2> QED
      BY <2>1, Zenon
  <1>2. PICK x \in U : \A y \in U : ~(<<y, x>> \in StrictSubsetOrdering(K))
    <2> HIDE DEF U
    <2> QED
      BY <1>1, FS_StrictSubsetOrderingWellFounded, WFMin, Zenon
  <1>3. PICK m \in K : x = B(m)
    BY Zenon
  <1>4. ASSUME NEW k \in K PROVE rank[m] <= rank[k]
    <2> SUFFICES ASSUME rank[k] < rank[m] PROVE FALSE
      OBVIOUS
    <2>1. B(k) \subseteq B(m) /\ k \in B(m) /\ k \notin B(k) /\ B(k) \in U
      OBVIOUS
    <2>2. B(k) \in SUBSET K /\ B(m) \in SUBSET K
      BY Zenon
    <2> HIDE DEF B, U
    <2>3. <<B(k), x>> \in StrictSubsetOrdering(K)
      BY <1>3, <2>1, <2>2, Zenon DEF StrictSubsetOrdering
    <2> QED
      BY <1>2, <2>1, <2>3, Zenon
  <1> QED
    BY <1>4, Zenon

\* What is interpolated is an element of the field, whatever was revealed.  The
\* algebra of module PolynomialProofs shows it; here it is a premise.
InterpolatesToField ==
    \A s \in Scenarios : \A V \in SUBSET Nodes :
        InterpolateAtZero([u \in V |-> Evaluate(s.reveal[u], 0)]) \in Field

\* Hence it is never the sign that there is no secret.
LEMMA InterpolationField ==
    ASSUME InterpolatesToField, scenario \in Scenarios, NEW V, V \subseteq Nodes
    PROVE  /\ InterpolateAtZero([u \in V |-> Evaluate(scenario.reveal[u], 0)]) \in Field
           /\ InterpolateAtZero([u \in V |-> Evaluate(scenario.reveal[u], 0)]) # NoSecret
  <1> DEFINE x == InterpolateAtZero([u \in V |-> Evaluate(scenario.reveal[u], 0)])
  <1>1. x \in Field
    BY Zenon DEF InterpolatesToField
  <1> HIDE DEF x
  <1>2. x # NoSecret
    BY <1>1, PrimeAssumption DEF NoSecret, Field
  <1> QED
    BY <1>1, <1>2, Zenon DEF x

\* The greedy pass ends with polynomials that agree, marks only pairs that do not,
\* and marks one if it leaves any out.
LEMMA GreedyPass ==
    ASSUME NEW C, C \subseteq Nodes, NEW rank \in Bijection(C, 1..Cardinality(C)),
           NEW valid \in SUBSET C, IsInterpolationSet(rank, valid)
    PROVE  /\ Agree(scenario.reveal, valid)
           /\ \A p \in FirstConflicts(rank, valid) :
                p[1] \in C /\ p[2] \in C /\ p[1] # p[2] /\ ~isConsistent(p[1], p[2])
           /\ valid = C \/ FirstConflicts(rank, valid) # {}
  <1>1. Cardinality(C) \in Nat
    BY SetsAreFinite, Zenon
  <1>2. /\ rank \in [C -> 1..Cardinality(C)]
        /\ \A u, v \in C : rank[u] = rank[v] => u = v
    BY Zenon DEF Bijection, Injection, IsInjective
  <1>3. DOMAIN rank = C /\ \A u \in C : rank[u] \in Nat
    BY <1>1, <1>2
  <1>4. \A c \in C : c \in valid <=> Conflicts(rank, valid, c) = {}
    BY <1>3, Zenon DEF IsInterpolationSet
  <1>5. Agree(scenario.reveal, valid)
    <2> SUFFICES ASSUME NEW u \in valid, NEW v \in valid PROVE isConsistent(u, v)
      BY Zenon DEF Agree, isConsistent
    <2>1. u \in C /\ v \in C /\ rank[u] \in Nat /\ rank[v] \in Nat
      BY <1>3, Zenon
    <2>2. CASE u = v
      BY <2>2, Zenon DEF isConsistent
    <2>3. CASE rank[u] < rank[v]
      <3>1. isConsistent(v, u)
        BY <1>4, <2>1, <2>3, Zenon DEF Conflicts
      <3> QED
        BY <3>1, Zenon DEF isConsistent
    <2>4. CASE rank[v] < rank[u]
      BY <1>4, <2>1, <2>4, Zenon DEF Conflicts
    <2> QED
      BY <1>2, <2>1, <2>2, <2>3, <2>4
  <1>6. ASSUME NEW p \in FirstConflicts(rank, valid)
        PROVE  p[1] \in C /\ p[2] \in C /\ p[1] # p[2] /\ ~isConsistent(p[1], p[2])
    <2>1. p \in (C \ valid) \X valid /\ p[2] \in Conflicts(rank, valid, p[1])
      BY <1>3, Zenon DEF FirstConflicts
    <2> QED
      BY <2>1, Zenon DEF Conflicts
  <1>7. ASSUME valid # C PROVE FirstConflicts(rank, valid) # {}
    <2>1. PICK c \in C \ valid : TRUE
      BY <1>7, Zenon
    <2> DEFINE K == Conflicts(rank, valid, c)
    <2>2. K # {} /\ K \subseteq valid
      BY <1>4, <2>1, Zenon DEF Conflicts
    <2>3. IsFiniteSet(K) /\ \A m \in K : rank[m] \in Nat
      <3>1. K \subseteq Nodes
        BY <2>2, Zenon
      <3> HIDE DEF K
      <3> QED
        BY <1>3, <2>2, <3>1, SetsAreFinite, Zenon
    <2>4. PICK m \in K : \A k \in K : rank[m] <= rank[k]
      <3> HIDE DEF K
      <3> QED
        BY <2>2, <2>3, FirstOf, Zenon
    <2>5. <<c, m>> \in (DOMAIN rank \ valid) \X valid
      BY <1>3, <2>1, <2>2, <2>4, Zenon
    <2>6. <<c, m>>[1] = c /\ <<c, m>>[2] = m
      BY Zenon
    <2>7. <<c, m>> \in FirstConflicts(rank, valid)
      BY <2>4, <2>5, <2>6, Zenon DEF FirstConflicts
    <2> QED
      BY <2>7, Zenon
  <1> QED
    BY <1>5, <1>6, <1>7, Zenon

\* i marks the pairs P from the candidates C and interpolates the valid ones if
\* they are enough.
Interpolates(i, C, valid, P) ==
    /\ Agree(scenario.reveal, valid)
    /\ valid = C \/ P # {}
    /\ \A pair \in P : \E u, v \in C : pair = {u, v} /\ u # v /\ ~isConsistent(u, v)
    /\ fp' = [fp EXCEPT ![i] = @ \union P]
    /\ \/ /\ Cardinality(valid) >= N - 2 * T
          /\ secret' = [secret EXCEPT ![i] =
                            InterpolateAtZero([u \in valid |-> Evaluate(scenario.reveal[u], 0)])]
          /\ ready' = ready \union {i}
       \/ Cardinality(valid) < N - 2 * T /\ UNCHANGED <<secret, ready>>

\* What a REVEAL does.
LEMMA RevealEffect ==
    ASSUME TypeOK, NEW i \in Nodes, NEW j \in Nodes, OnReveal(i, j)
    PROVE  /\ UNCHANGED <<scenario, revealed, readyToComplete, output, sharingVars, msetVars>>
           /\ i \in Live /\ j \in revealed
           /\ reconstructedPolys' = [reconstructedPolys EXCEPT ![i] = @ \union {j}]
           /\ Candidates(i)' = (reconstructedPolys[i] \union {j}) \intersect mSet[i]
           /\ Candidates(i)' \subseteq Nodes
           /\ \A k \in Nodes \ {i} : Candidates(k)' = Candidates(k)
           /\ \/ /\ mSet[i] = {} \/ Cardinality(Candidates(i)') < N - 2 * T
                 /\ UNCHANGED <<fp, secret, ready>>
              \/ /\ mSet[i] # {} /\ Cardinality(Candidates(i)') >= N - 2 * T
                 /\ \E valid \in SUBSET Candidates(i)', P \in SUBSET SUBSET Nodes :
                        Interpolates(i, Candidates(i)', valid, P)
  <1>1. /\ UNCHANGED <<scenario, revealed, readyToComplete, output, sharingVars, msetVars>>
        /\ i \in Live /\ j \in revealed
        /\ reconstructedPolys' = [reconstructedPolys EXCEPT ![i] = @ \union {j}]
        /\ checkInterpolationSet(i, reconstructedPolys'[i])
    BY Zenon DEF OnReveal
  <1>2. reconstructedPolys \in [Nodes -> SUBSET revealed] /\ mSet' = mSet
    BY <1>1, Zenon DEF TypeOK, msetVars
  <1> DEFINE C == (reconstructedPolys[i] \union {j}) \intersect mSet[i]
  <1>3. reconstructedPolys'[i] = reconstructedPolys[i] \union {j} /\ Candidates(i)' = C
    BY <1>1, <1>2, Zenon DEF Candidates
  <1>4. \A k \in Nodes \ {i} : Candidates(k)' = Candidates(k)
    BY <1>1, <1>2, Zenon DEF Candidates
  <1>5. C \subseteq Nodes /\ Cardinality(C) \in Nat
    <2>1. C \subseteq Nodes
      BY SMTT(30) DEF TypeOK
    <2> QED
      BY <2>1, SetsAreFinite, Zenon
  <1>6. CASE mSet[i] = {} \/ Cardinality(C) < N - 2 * T
    <2>1. UNCHANGED <<fp, secret, ready>>
      BY <1>1, <1>3, <1>6, Zenon DEF checkInterpolationSet
    <2> QED
      BY <1>1, <1>3, <1>4, <1>5, <1>6, <2>1, Zenon
  <1>7. CASE ~(mSet[i] = {} \/ Cardinality(C) < N - 2 * T)
    <2>1. PICK rank \in Bijection(C, 1..Cardinality(C)), valid \in SUBSET C :
            /\ IsInterpolationSet(rank, valid)
            /\ fp' = [fp EXCEPT ![i] = AddFaultyPairs(@, FirstConflicts(rank, valid))]
            /\ IF Cardinality(valid) >= N - 2 * T
               THEN /\ secret' = [secret EXCEPT ![i] = InterpolateAtZero(
                            [u \in valid |-> Evaluate(scenario.reveal[u], 0)])]
                    /\ ready' = ready \union {i}
               ELSE UNCHANGED <<secret, ready>>
      BY <1>1, <1>3, <1>7, Zenon DEF checkInterpolationSet
    <2> DEFINE P == {{p[1], p[2]} : p \in FirstConflicts(rank, valid)}
    <2>2. fp' = [fp EXCEPT ![i] = @ \union P]
      BY <2>1, ZenonT(30) DEF AddFaultyPairs
    <2> HIDE DEF C
    <2>3. /\ Agree(scenario.reveal, valid)
          /\ \A p \in FirstConflicts(rank, valid) :
                p[1] \in C /\ p[2] \in C /\ p[1] # p[2] /\ ~isConsistent(p[1], p[2])
          /\ valid = C \/ FirstConflicts(rank, valid) # {}
      BY <1>5, <2>1, GreedyPass
    <2>4. \A pair \in P : \E u, v \in C : pair = {u, v} /\ u # v /\ ~isConsistent(u, v)
      BY <2>3, Zenon
    <2>5. P \in SUBSET SUBSET Nodes /\ (valid = C \/ P # {})
      BY <1>5, <2>3, Zenon
    <2>6. Cardinality(valid) \in Nat
      BY <1>5, SetsAreFinite, Zenon
    <2>7. \/ /\ Cardinality(valid) >= N - 2 * T
             /\ secret' = [secret EXCEPT ![i] = InterpolateAtZero(
                            [u \in valid |-> Evaluate(scenario.reveal[u], 0)])]
             /\ ready' = ready \union {i}
          \/ Cardinality(valid) < N - 2 * T /\ UNCHANGED <<secret, ready>>
      <3>1. CASE Cardinality(valid) >= N - 2 * T
        BY <2>1, <3>1, Zenon
      <3>2. CASE ~(Cardinality(valid) >= N - 2 * T)
        <4>1. Cardinality(valid) < N - 2 * T
          BY <2>6, <3>2, NodesFacts, SMTT(30)
        <4> QED
          BY <2>1, <3>2, <4>1, Zenon
      <3> QED
        BY <3>1, <3>2, Zenon
    <2> HIDE DEF P
    <2>8. Interpolates(i, C, valid, P)
      BY <2>2, <2>3, <2>4, <2>5, <2>7, Zenon DEF Interpolates
    <2>9. mSet[i] # {} /\ Cardinality(C) >= N - 2 * T
      BY <1>5, <1>7, NodesFacts
    <2>10. \E valid_1 \in SUBSET C, P_1 \in SUBSET SUBSET Nodes : Interpolates(i, C, valid_1, P_1)
      BY <2>5, <2>8, Zenon
    <2> QED
      BY <1>1, <1>3, <1>4, <1>5, <2>9, <2>10, Zenon DEF C
  <1> QED
    BY <1>6, <1>7, Zenon

-----------------------------------------------------------------------------

(***************************************************************************)
(* Types.                                                                  *)
(***************************************************************************)

\* The initial state is of the declared types.
LEMMA InitType == Init => TypeOK
  <1> SUFFICES ASSUME Init PROVE TypeOK
    BY Zenon
  <1>1. scenario.fp \in [Nodes -> SUBSET SUBSET Nodes]
    BY ScenarioFacts, Zenon DEF Init
  <1> QED
    BY <1>1, Zenon DEF Init, TypeOK

\* Shares and points keep to the live nodes.
LEMMA SharingType ==
    ASSUME TypeOK, Inv, NEW i \in Nodes, OnShare(i) \/ \E j \in Nodes : OnPoint(i, j)
    PROVE  TypeOK'
  <1> USE DEF msetVars, revealVars, readyVars
  <1>1. Live \subseteq Nodes
    BY ScenarioFacts, Zenon DEF TypeOK
  <1>2. CASE OnShare(i)
    <2>1. /\ scenario' = scenario /\ Live' = Live /\ shared' \subseteq Live'
          /\ receivedPoints' = receivedPoints
          /\ earlyPoints' \in [Nodes -> SUBSET Nodes]
          /\ \A k \in Nodes : earlyPoints'[k] \subseteq receivedPoints'[k]
      BY <1>2, ZenonT(30) DEF OnShare, TypeOK, Live
    <2>2. equals' \subseteq Live' \X Live' /\ equals \subseteq equals'
      <3>1. earlyPoints[i] \subseteq shared /\ shared \subseteq Live
        BY Zenon DEF Inv, EqualsAreTrue, TypeOK
      <3>2. i \in Live /\ equals' = equals \union {<<i, j>> : j \in {k \in earlyPoints[i] : processPoint(i, k)}}
        BY <1>2, Zenon DEF OnShare
      <3>3. equals \subseteq Live \X Live
        BY Zenon DEF TypeOK
      <3>4. \A j \in {k \in earlyPoints[i] : processPoint(i, k)} : <<i, j>> \in Live \X Live
        BY <3>1, <3>2, Zenon
      <3> QED
        BY <2>1, <3>2, <3>3, <3>4
    <2>3. UNCHANGED <<msetVars, revealVars, readyVars>>
      BY <1>2, Zenon DEF OnShare
    <2> QED
      BY <2>1, <2>2, <2>3, Zenon DEF TypeOK
  <1>3. ASSUME NEW j \in Nodes, OnPoint(i, j) PROVE TypeOK'
    <2>1. /\ scenario' = scenario /\ Live' = Live /\ shared' = shared /\ i \in Live /\ j \in shared
          /\ receivedPoints' = [receivedPoints EXCEPT ![i] = @ \union {j}]
          /\ UNCHANGED <<msetVars, revealVars, readyVars>>
      BY <1>3, Zenon DEF OnPoint, Live
    <2>2. receivedPoints' \in [Nodes -> SUBSET Nodes]
      BY <2>1, SMTT(30) DEF TypeOK
    <2>3. CASE i \in shared /\ equals' = equals \union {e \in {<<i, j>>} : processPoint(i, j)}
               /\ earlyPoints' = earlyPoints
      <3>1. equals' \subseteq Live' \X Live' /\ equals \subseteq equals'
        BY <2>1, <2>3 DEF TypeOK
      <3>2. \A k \in Nodes : earlyPoints'[k] \subseteq receivedPoints'[k]
        BY <2>1, <2>3, Zenon DEF TypeOK
      <3> QED
        BY <2>1, <2>2, <2>3, <3>1, <3>2, Zenon DEF TypeOK
    <2>4. CASE earlyPoints' = [earlyPoints EXCEPT ![i] = @ \union {j}] /\ equals' = equals
      <3>1. /\ earlyPoints' \in [Nodes -> SUBSET Nodes]
            /\ \A k \in Nodes : earlyPoints'[k] \subseteq receivedPoints'[k]
        BY <2>1, <2>4 DEF TypeOK
      <3> QED
        BY <2>1, <2>2, <2>4, <3>1, Zenon DEF TypeOK
    <2> QED
      BY <1>3, <2>3, <2>4, Zenon DEF OnPoint
  <1> QED
    BY <1>2, <1>3, Zenon

\* EQUALs and M-sets stay among what has been A-Cast.
LEMMA MSetType ==
    ASSUME TypeOK, NEW i \in Nodes,
           \/ \E e \in equals : OnEqual(i, e)
           \/ \E M \in msets : EchoMSet(i, M) \/ OnMSet(i, M)
    PROVE  TypeOK'
  <1> USE DEF sharingVars, revealVars, readyVars
  <1>1. ASSUME NEW e \in equals, OnEqual(i, e) PROVE TypeOK'
    <2>1. /\ UNCHANGED <<scenario, echoed, sharingVars, revealVars, readyVars>> /\ Live' = Live
          /\ completedEquals' = [completedEquals EXCEPT ![i] = @ \union {e}]
          /\ msets' = msets \union checkCandidateSet(i, completedEquals[i] \union {e})
          /\ \/ UNCHANGED <<mSet, pendingMSet>>
             \/ /\ mSet' = [mSet EXCEPT ![i] = pendingMSet[i]]
                /\ pendingMSet' = [pendingMSet EXCEPT ![i] = {}]
      BY <1>1, ZenonT(30) DEF OnEqual, Live
    <2>2. e \in Nodes \X Nodes
      BY ScenarioFacts, SMTT(30) DEF TypeOK
    <2>3. /\ completedEquals' \in [Nodes -> SUBSET (Nodes \X Nodes)]
          /\ \A k \in Nodes : completedEquals'[k] \subseteq equals'
      BY <2>1, <2>2, SMTT(30) DEF TypeOK
    <2>4. msets' \subseteq SUBSET Nodes /\ msets \subseteq msets'
      BY <2>1, Zenon DEF TypeOK, checkCandidateSet
    <2>5. /\ echoed' \in [Nodes -> msets' \union {{}}]
          /\ pendingMSet' \in [Nodes -> msets' \union {{}}]
          /\ mSet' \in [Nodes -> msets' \union {{}}]
      <3>1. CASE UNCHANGED <<mSet, pendingMSet>>
        BY <2>1, <2>4, <3>1, SMTT(30) DEF TypeOK
      <3>2. CASE /\ mSet' = [mSet EXCEPT ![i] = pendingMSet[i]]
                 /\ pendingMSet' = [pendingMSet EXCEPT ![i] = {}]
        BY <2>1, <2>4, <3>2, Zenon DEF TypeOK
      <3> QED
        BY <2>1, <3>1, <3>2, Zenon
    <2> QED
      BY <2>1, <2>3, <2>4, <2>5, Zenon DEF TypeOK
  <1>2. ASSUME NEW M \in msets, EchoMSet(i, M) PROVE TypeOK'
    <2>1. echoed' \in [Nodes -> msets' \union {{}}]
      BY <1>2, Zenon DEF EchoMSet, TypeOK
    <2>2. UNCHANGED <<scenario, completedEquals, msets, pendingMSet, mSet, sharingVars, revealVars, readyVars>>
          /\ Live' = Live
      BY <1>2, Zenon DEF EchoMSet, Live
    <2> QED
      BY <2>1, <2>2, Zenon DEF TypeOK
  <1>3. ASSUME NEW M \in msets, OnMSet(i, M) PROVE TypeOK'
    <2>1. UNCHANGED <<scenario, completedEquals, msets, echoed, sharingVars, revealVars, readyVars>>
          /\ Live' = Live
      BY <1>3, ZenonT(30) DEF OnMSet, Live
    <2>2. /\ pendingMSet' \in [Nodes -> msets' \union {{}}]
          /\ mSet' \in [Nodes -> msets' \union {{}}]
      BY <1>3, <2>1 DEF OnMSet, TypeOK
    <2> QED
      BY <2>1, <2>2, Zenon DEF TypeOK
  <1> QED
    BY <1>1, <1>2, <1>3, Zenon

\* What is interpolated is in the field, whatever was revealed.
LEMMA ReconstructionType ==
    ASSUME InterpolatesToField, TypeOK, NEW i \in Nodes,
           StartReconstruction(i) \/ \E j \in Nodes : OnReveal(i, j) \/ OnReady(i, j)
    PROVE  TypeOK'
  <1> USE DEF sharingVars, msetVars
  <1>1. CASE StartReconstruction(i)
    <2>1. /\ UNCHANGED <<scenario, reconstructedPolys, fp, secret, sharingVars, msetVars, readyVars>>
          /\ Live' = Live /\ i \in Live /\ revealed' = revealed \union {i}
      BY <1>1, Zenon DEF StartReconstruction, Live
    <2>2. revealed' \subseteq Live' /\ reconstructedPolys' \in [Nodes -> SUBSET revealed']
      BY <2>1, Zenon DEF TypeOK
    <2> QED
      BY <2>1, <2>2, Zenon DEF TypeOK, readyVars
  <1>2. ASSUME NEW j \in Nodes, OnReveal(i, j) PROVE TypeOK'
    <2>1. /\ UNCHANGED <<scenario, revealed, readyToComplete, output, sharingVars, msetVars>>
          /\ i \in Live /\ j \in revealed /\ Live' = Live
          /\ reconstructedPolys' = [reconstructedPolys EXCEPT ![i] = @ \union {j}]
          /\ Candidates(i)' \subseteq Nodes
          /\ \/ UNCHANGED <<fp, secret, ready>>
             \/ \E valid \in SUBSET Candidates(i)', P \in SUBSET SUBSET Nodes :
                    Interpolates(i, Candidates(i)', valid, P)
      BY <1>2, RevealEffect, Zenon DEF Live
    <2>2. reconstructedPolys' \in [Nodes -> SUBSET revealed']
      BY <2>1 DEF TypeOK
    <2>3. /\ fp' \in [Nodes -> SUBSET SUBSET Nodes]
          /\ secret' \in [Nodes -> Field \union {NoSecret}]
          /\ ready' \subseteq Live' /\ ready \subseteq ready'
      <3>1. CASE UNCHANGED <<fp, secret, ready>>
        BY <2>1, <3>1, Zenon DEF TypeOK
      <3>2. ASSUME NEW valid \in SUBSET Candidates(i)', NEW P \in SUBSET SUBSET Nodes,
                   Interpolates(i, Candidates(i)', valid, P)
            PROVE  /\ fp' \in [Nodes -> SUBSET SUBSET Nodes]
                   /\ secret' \in [Nodes -> Field \union {NoSecret}]
                   /\ ready' \subseteq Live' /\ ready \subseteq ready'
        <4> DEFINE x == InterpolateAtZero([u \in valid |-> Evaluate(scenario.reveal[u], 0)])
        <4>1. x \in Field
          BY <2>1, InterpolationField, Zenon DEF TypeOK
        <4>2. /\ fp' = [fp EXCEPT ![i] = @ \union P]
              /\ \/ secret' = [secret EXCEPT ![i] = x] /\ ready' = ready \union {i}
                 \/ UNCHANGED <<secret, ready>>
          BY <3>2, Zenon DEF Interpolates
        <4> HIDE DEF x
        <4>3. fp' \in [Nodes -> SUBSET SUBSET Nodes]
          BY <4>2, Zenon DEF TypeOK
        <4> QED
          BY <2>1, <4>1, <4>2, <4>3, SMTT(30) DEF TypeOK
      <3> QED
        BY <2>1, <3>1, <3>2, ZenonT(30)
    <2>4. readyToComplete' \in [Nodes -> SUBSET ready']
      BY <2>1, <2>3, Zenon DEF TypeOK
    <2> QED
      BY <2>1, <2>2, <2>3, <2>4, Zenon DEF TypeOK
  <1>3. ASSUME NEW j \in Nodes, OnReady(i, j) PROVE TypeOK'
    <2>1. /\ UNCHANGED <<scenario, ready, sharingVars, msetVars, revealVars>> /\ Live' = Live
          /\ readyToComplete' = [readyToComplete EXCEPT ![i] = @ \union {j}] /\ j \in ready
          /\ output' = [output EXCEPT ![i] = secret[i]] \/ output' = output
      BY <1>3, Zenon DEF OnReady, Live
    <2>2. readyToComplete' \in [Nodes -> SUBSET ready'] /\ output' \in [Nodes -> Field \union {NoSecret}]
      BY <2>1 DEF TypeOK
    <2> QED
      BY <2>1, <2>2, Zenon DEF TypeOK, revealVars
  <1> QED
    BY <1>1, <1>2, <1>3, Zenon

\* Every step keeps the types.
LEMMA NextType ==
    ASSUME InterpolatesToField, TypeOK, Inv, [Next]_vars
    PROVE  TypeOK'
  <1>1. CASE UNCHANGED vars
    BY <1>1, Zenon DEF TypeOK, Live, vars, sharingVars, msetVars, revealVars, readyVars
  <1>2. ASSUME NEW i \in Nodes, Step(i) PROVE TypeOK'
    BY <1>2, SharingType, MSetType, ReconstructionType, Zenon DEF Step
  <1> QED
    BY <1>1, <1>2, Zenon DEF Next

-----------------------------------------------------------------------------

(***************************************************************************)
(* The parts of IInv, each through every step.                             *)
(***************************************************************************)

\* A node that has completed with an M-set keeps it, and only a node that the step
\* is of, and that has verified an M-set, gets one.
LEMMA MSetLasts ==
    ASSUME IInv, NEW i \in Nodes, Step(i), NEW k \in Nodes
    PROVE  /\ scenario' = scenario
           /\ mSet[k] # {} => mSet'[k] = mSet[k]
           /\ mSet[k] = {} /\ mSet'[k] # {} =>
                /\ fp'[k] = fp[k]
                /\ \A u, v \in mSet'[k] : u # v => {u, v} \notin fp[k]
  <1>0. mSet \in [Nodes -> msets \union {{}}]
    BY Zenon DEF IInv, TypeOK
  <1>1. CASE OnShare(i) \/ (\E j \in Nodes : OnPoint(i, j)) \/ StartReconstruction(i)
             \/ (\E j \in Nodes : OnReveal(i, j) \/ OnReady(i, j)) \/ (\E M \in msets : EchoMSet(i, M))
    BY <1>1, Zenon DEF OnShare, OnPoint, StartReconstruction, OnReveal, OnReady, EchoMSet, msetVars
  <1>2. ASSUME NEW e \in equals, OnEqual(i, e)
        PROVE  /\ scenario' = scenario
               /\ mSet[k] # {} => mSet'[k] = mSet[k]
               /\ mSet[k] = {} /\ mSet'[k] # {} =>
                    /\ fp'[k] = fp[k]
                    /\ \A u, v \in mSet'[k] : u # v => {u, v} \notin fp[k]
    <2>1. scenario' = scenario /\ fp' = fp
      BY <1>2, Zenon DEF OnEqual, revealVars
    <2>2. CASE mSet' = mSet
      BY <2>1, <2>2, Zenon
    <2>3. CASE /\ mSet[i] = {} /\ verifyMSet(i, completedEquals[i] \union {e}, pendingMSet[i])
               /\ mSet' = [mSet EXCEPT ![i] = pendingMSet[i]]
      <3>1. \A u, v \in pendingMSet[i] : u # v => {u, v} \notin fp[i]
        BY <2>3, Zenon DEF verifyMSet, MayPair, IsFaultyPair
      <3> QED
        BY <1>0, <2>1, <2>3, <3>1, Zenon
    <2> QED
      BY <1>2, <2>2, <2>3, Zenon DEF OnEqual
  <1>3. ASSUME NEW M \in msets, OnMSet(i, M)
        PROVE  /\ scenario' = scenario
               /\ mSet[k] # {} => mSet'[k] = mSet[k]
               /\ mSet[k] = {} /\ mSet'[k] # {} =>
                    /\ fp'[k] = fp[k]
                    /\ \A u, v \in mSet'[k] : u # v => {u, v} \notin fp[k]
    <2>1. scenario' = scenario /\ fp' = fp
      BY <1>3, Zenon DEF OnMSet, revealVars
    <2>2. CASE mSet' = mSet
      BY <2>1, <2>2, Zenon
    <2>3. CASE mSet[i] = {} /\ verifyMSet(i, completedEquals[i], M) /\ mSet' = [mSet EXCEPT ![i] = M]
      <3>1. \A u, v \in M : u # v => {u, v} \notin fp[i]
        BY <2>3, Zenon DEF verifyMSet, MayPair, IsFaultyPair
      <3> QED
        BY <1>0, <2>1, <2>3, <3>1, Zenon
    <2> QED
      BY <1>3, <2>2, <2>3, Zenon DEF OnMSet
  <1> QED
    BY <1>1, <1>2, <1>3, Zenon DEF Step

\* A share answers the points that came early, and a point is answered or waits.
LEMMA NextPoints ==
    ASSUME IInv, NEW i \in Nodes, Step(i)
    PROVE  PointsAreAnswered'
  <1>1. CASE OnShare(i)
    <2>1. /\ scenario' = scenario /\ receivedPoints' = receivedPoints /\ shared' = shared \union {i}
          /\ i \notin shared
          /\ equals' = equals \union {<<i, j>> : j \in {k \in earlyPoints[i] : processPoint(i, k)}}
          /\ earlyPoints' = [earlyPoints EXCEPT ![i] = {}]
      BY <1>1, Zenon DEF OnShare
    <2> SUFFICES ASSUME NEW k \in Nodes, NEW j \in receivedPoints[k]
                 PROVE  IF k \in shared' THEN processPoint(k, j) => <<k, j>> \in equals'
                                         ELSE j \in earlyPoints'[k]
      BY <2>1, Zenon DEF PointsAreAnswered, processPoint
    <2>2. IF k \in shared THEN processPoint(k, j) => <<k, j>> \in equals ELSE j \in earlyPoints[k]
      BY Zenon DEF IInv, PointsAreAnswered
    <2>3. CASE k = i
      BY <2>1, <2>2, <2>3, Zenon
    <2>4. CASE k # i
      <3>1. earlyPoints'[k] = earlyPoints[k]
        BY <2>1, <2>4, Zenon DEF IInv, TypeOK
      <3> QED
        BY <2>1, <2>2, <2>4, <3>1, Zenon
    <2> QED
      BY <2>3, <2>4, Zenon
  <1>2. ASSUME NEW m \in Nodes, OnPoint(i, m) PROVE PointsAreAnswered'
    <2>1. /\ scenario' = scenario /\ shared' = shared
          /\ receivedPoints' = [receivedPoints EXCEPT ![i] = @ \union {m}]
          /\ \/ /\ i \in shared /\ equals' = equals \union {e \in {<<i, m>>} : processPoint(i, m)}
                /\ earlyPoints' = earlyPoints
             \/ /\ i \notin shared /\ equals' = equals
                /\ earlyPoints' = [earlyPoints EXCEPT ![i] = @ \union {m}]
      BY <1>2, Zenon DEF OnPoint
    <2> SUFFICES ASSUME NEW k \in Nodes, NEW j \in receivedPoints'[k]
                 PROVE  IF k \in shared THEN processPoint(k, j) => <<k, j>> \in equals'
                                        ELSE j \in earlyPoints'[k]
      BY <2>1, ZenonT(30) DEF PointsAreAnswered, processPoint
    <2>2. receivedPoints \in [Nodes -> SUBSET Nodes] /\ earlyPoints \in [Nodes -> SUBSET Nodes]
      BY Zenon DEF IInv, TypeOK
    <2>3. CASE j \in receivedPoints[k]
      <3>1. IF k \in shared THEN processPoint(k, j) => <<k, j>> \in equals ELSE j \in earlyPoints[k]
        BY <2>3, Zenon DEF IInv, PointsAreAnswered
      <3>2. equals \subseteq equals' /\ earlyPoints[k] \subseteq earlyPoints'[k]
        BY <2>1, <2>2
      <3> QED
        BY <3>1, <3>2, Zenon
    <2>4. CASE j \notin receivedPoints[k]
      <3>1. k = i /\ j = m
        BY <2>1, <2>2, <2>4, Zenon
      <3> QED
        BY <2>1, <2>2, <3>1, Zenon
    <2> QED
      BY <2>3, <2>4, Zenon
  <1>3. CASE UNCHANGED <<scenario, sharingVars>>
    BY <1>3, ZenonT(30) DEF IInv, PointsAreAnswered, processPoint, sharingVars
  <1> QED
    BY <1>1, <1>2, <1>3, Zenon
       DEF Step, OnEqual, EchoMSet, OnMSet, StartReconstruction, OnReveal, OnReady

\* The two checks in terms of what the node knows.
LEMMA Checks ==
    ASSUME NEW i, NEW E, NEW M
    PROVE  /\ verifyMSet(i, E, M) <=> Verified(fp[i], E, M)
           /\ i = Dealer /\ i \in shared /\ mSet[i] = {} => checkCandidateSet(i, E) = CandidateSets(fp[i], E)
  <1>1. \A u, v : MayPair(i, E, u, v) <=> Paired(fp[i], E, u, v)
    BY Zenon DEF MayPair, Paired, IsFaultyPair
  <1>2. verifyMSet(i, E, M) <=> Verified(fp[i], E, M)
    BY <1>1, Zenon DEF verifyMSet, Verified
  <1>3. ASSUME i = Dealer, i \in shared, mSet[i] = {}
        PROVE  checkCandidateSet(i, E) = CandidateSets(fp[i], E)
    <2>1. \A X \in SUBSET Nodes :
            IsCandidateSet(i, E, X) <=>
                \A c \in Nodes : c \in X <=> \A m \in X : m < c => Paired(fp[i], E, c, m)
      BY <1>1, Zenon DEF IsCandidateSet
    <2> QED
      BY <1>3, <2>1, Zenon DEF checkCandidateSet, CandidateSets
  <1> QED
    BY <1>2, <1>3, Zenon

\* The dealer tries each time an EQUAL arrives, and so does a node whose M-set is
\* pending; nothing else makes a try succeed.
LEMMA NextTried ==
    ASSUME IInv, NEW i \in Nodes, Step(i)
    PROVE  MSetsAreTried'
  <1>0. /\ Dealer \in Nodes /\ MSetsAreTried
        /\ mSet \in [Nodes -> msets \union {{}}] /\ pendingMSet \in [Nodes -> msets \union {{}}]
        /\ completedEquals \in [Nodes -> SUBSET (Nodes \X Nodes)]
        /\ fp \in [Nodes -> SUBSET SUBSET Nodes]
    BY IVSSAssumption, Zenon DEF IInv, TypeOK
  <1>1. CASE UNCHANGED <<completedEquals, msets, pendingMSet, mSet, fp>>
    BY <1>0, <1>1, Zenon DEF MSetsAreTried
  <1>2. ASSUME NEW e \in equals, OnEqual(i, e) PROVE MSetsAreTried'
    <2> DEFINE E == completedEquals[i] \union {e}
               complete == pendingMSet[i] # {} /\ mSet[i] = {} /\ verifyMSet(i, E, pendingMSet[i])
    <2>1. /\ completedEquals' = [completedEquals EXCEPT ![i] = E] /\ fp' = fp /\ shared' = shared
          /\ msets' = msets \union checkCandidateSet(i, E)
          /\ IF complete THEN /\ mSet' = [mSet EXCEPT ![i] = pendingMSet[i]]
                              /\ pendingMSet' = [pendingMSet EXCEPT ![i] = {}]
                         ELSE UNCHANGED <<mSet, pendingMSet>>
      BY <1>2, Zenon DEF OnEqual, revealVars, sharingVars
    <2>2. completedEquals'[i] = E /\ \A k \in Nodes \ {i} : completedEquals'[k] = completedEquals[k]
      BY <1>0, <2>1, Zenon
    <2>3. \A k \in Nodes : mSet'[k] = {} => mSet[k] = {}
      BY <1>0, <2>1, Zenon
    <2>4. ASSUME mSet'[Dealer] = {}, NEW j \in Nodes, <<Dealer, j>> \in completedEquals'[Dealer]
          PROVE  CandidateSets(fp'[Dealer], completedEquals'[Dealer]) \subseteq msets'
      <3>1. CASE Dealer # i
        BY <1>0, <2>1, <2>2, <2>3, <2>4, <3>1, ZenonT(30) DEF MSetsAreTried
      <3>2. CASE Dealer = i
        <4>1. <<Dealer, j>> \in equals
          BY <2>2, <2>4, <3>2, Zenon DEF IInv, TypeOK
        <4>2. i \in shared /\ mSet[i] = {}
          <5>1. <<Dealer, j>> \in shared \X shared
            BY <4>1, Zenon DEF IInv, Inv, EqualsAreTrue
          <5> QED
            BY <2>3, <2>4, <3>2, <5>1, Zenon
        <4>3. checkCandidateSet(i, E) = CandidateSets(fp[i], E)
          BY <3>2, <4>2, Checks, Zenon
        <4> QED
          BY <2>1, <2>2, <3>2, <4>3, Zenon
      <3> QED
        BY <3>1, <3>2, Zenon
    <2>5. ASSUME NEW k \in Nodes, pendingMSet'[k] # {}, mSet'[k] = {}
          PROVE  ~Verified(fp'[k], completedEquals'[k], pendingMSet'[k])
      <3>1. pendingMSet'[k] = pendingMSet[k] /\ (k = i => ~complete)
        BY <1>0, <2>1, <2>5, Zenon
      <3>2. CASE k # i
        BY <1>0, <2>1, <2>2, <2>3, <2>5, <3>1, <3>2, Zenon DEF MSetsAreTried
      <3>3. CASE k = i
        <4>1. ~verifyMSet(i, E, pendingMSet[i])
          BY <2>3, <2>5, <3>1, <3>3, Zenon
        <4>2. ~Verified(fp[i], E, pendingMSet[i])
          BY <4>1, Checks, Zenon
        <4> QED
          BY <2>1, <2>2, <3>1, <3>3, <4>2, Zenon
      <3> QED
        BY <3>2, <3>3, Zenon
    <2> QED
      BY <2>4, <2>5, ZenonT(30) DEF MSetsAreTried
  <1>3. ASSUME NEW M \in msets, OnMSet(i, M) PROVE MSetsAreTried'
    <2>1. /\ UNCHANGED <<completedEquals, msets, fp>> /\ mSet[i] = {} /\ pendingMSet[i] = {}
          /\ \/ mSet' = [mSet EXCEPT ![i] = M] /\ pendingMSet' = pendingMSet
             \/ /\ ~verifyMSet(i, completedEquals[i], M)
                /\ pendingMSet' = [pendingMSet EXCEPT ![i] = M] /\ mSet' = mSet
      BY <1>3, Zenon DEF OnMSet, revealVars
    <2>2. \A k \in Nodes : mSet'[k] = {} => mSet[k] = {}
      BY <1>0, <2>1, Zenon
    <2>3. ASSUME NEW k \in Nodes, pendingMSet'[k] # {}, mSet'[k] = {}
          PROVE  ~Verified(fp[k], completedEquals[k], pendingMSet'[k])
      <3>1. CASE k = i
        <4>1. pendingMSet'[i] = M /\ ~verifyMSet(i, completedEquals[i], M)
          BY <1>0, <2>1, <2>3, <3>1, Zenon
        <4>2. ~Verified(fp[i], completedEquals[i], M)
          BY <4>1, Checks, Zenon
        <4> QED
          BY <3>1, <4>1, <4>2, Zenon
      <3>2. CASE k # i
        <4>1. pendingMSet'[k] = pendingMSet[k]
          BY <1>0, <2>1, <3>2, Zenon
        <4> QED
          BY <1>0, <2>2, <2>3, <4>1, Zenon DEF MSetsAreTried
      <3> QED
        BY <3>1, <3>2, ZenonT(30)
    <2> QED
      BY <1>0, <2>1, <2>2, <2>3, Zenon DEF MSetsAreTried
  <1>4. ASSUME NEW j \in Nodes, OnReveal(i, j) PROVE MSetsAreTried'
    <2>1. UNCHANGED <<completedEquals, msets, pendingMSet, mSet>>
      BY <1>4, Zenon DEF OnReveal, msetVars
    <2>2. \A k \in Nodes : mSet[k] = {} => fp'[k] = fp[k]
      <3>1. /\ \/ UNCHANGED <<fp, secret, ready>>
               \/ /\ mSet[i] # {}
                  /\ \E valid \in SUBSET Candidates(i)', P \in SUBSET SUBSET Nodes :
                        Interpolates(i, Candidates(i)', valid, P)
        BY <1>4, RevealEffect, Zenon DEF IInv
      <3>2. fp' = fp \/ (mSet[i] # {} /\ \E P : fp' = [fp EXCEPT ![i] = @ \union P])
        BY <3>1, Zenon DEF Interpolates
      <3> QED
        BY <1>0, <3>2
    <2> QED
      BY <1>0, <2>1, <2>2, Zenon DEF MSetsAreTried
  <1>5. CASE \/ OnShare(i) \/ (\E j \in Nodes : OnPoint(i, j))
             \/ StartReconstruction(i) \/ (\E j \in Nodes : OnReady(i, j))
             \/ \E M \in msets : EchoMSet(i, M)
    <2>1. UNCHANGED <<completedEquals, msets, pendingMSet, mSet, fp>>
      BY <1>5, Zenon
         DEF OnShare, OnPoint, StartReconstruction, OnReady, EchoMSet, msetVars, revealVars
    <2> QED
      BY <1>1, <2>1, Zenon
  <1> QED
    BY <1>2, <1>3, <1>4, <1>5, Zenon DEF Step

\* fp changes at a REVEAL only, and only after the sharing.
LEMMA PairsGrow ==
    ASSUME IInv, NEW i \in Nodes, Step(i), NEW k \in Nodes
    PROVE  /\ fp[k] \subseteq fp'[k]
           /\ mSet[k] = {} => fp'[k] = fp[k]
           /\ \A pair \in fp'[k] \ fp[k] : \E u, v \in mSet[k] : pair = {u, v} /\ ~isConsistent(u, v)
  <1>0. fp \in [Nodes -> SUBSET SUBSET Nodes]
    BY Zenon DEF IInv, TypeOK
  <1>1. CASE fp' = fp
    BY <1>1, Zenon
  <1>2. ASSUME NEW j \in Nodes, OnReveal(i, j)
        PROVE  /\ fp[k] \subseteq fp'[k]
               /\ mSet[k] = {} => fp'[k] = fp[k]
               /\ \A pair \in fp'[k] \ fp[k] : \E u, v \in mSet[k] : pair = {u, v} /\ ~isConsistent(u, v)
    <2>1. /\ Candidates(i)' = (reconstructedPolys[i] \union {j}) \intersect mSet[i]
          /\ \/ UNCHANGED <<fp, secret, ready>>
             \/ /\ mSet[i] # {}
                /\ \E valid \in SUBSET Candidates(i)', P \in SUBSET SUBSET Nodes :
                        Interpolates(i, Candidates(i)', valid, P)
      BY <1>2, RevealEffect, Zenon DEF IInv
    <2>2. CASE UNCHANGED <<fp, secret, ready>>
      BY <1>1, <2>2, Zenon
    <2>3. CASE /\ mSet[i] # {}
               /\ \E valid \in SUBSET Candidates(i)', P \in SUBSET SUBSET Nodes :
                        Interpolates(i, Candidates(i)', valid, P)
      <3>1. PICK P \in SUBSET SUBSET Nodes :
              /\ fp' = [fp EXCEPT ![i] = @ \union P]
              /\ \A pair \in P : \E u, v \in Candidates(i)' : pair = {u, v} /\ u # v /\ ~isConsistent(u, v)
        BY <2>3, ZenonT(30) DEF Interpolates
      <3>2. \A pair \in P : \E u, v \in mSet[i] : pair = {u, v} /\ ~isConsistent(u, v)
        BY <2>1, <3>1, Zenon
      <3>3. CASE k = i
        <4>1. fp'[k] = fp[k] \union P
          BY <1>0, <3>1, <3>3, Zenon
        <4> QED
          BY <2>3, <3>2, <3>3, <4>1, Zenon
      <3>4. CASE k # i
        <4>1. fp'[k] = fp[k]
          BY <1>0, <3>1, <3>4, Zenon
        <4> QED
          BY <4>1, Zenon
      <3> QED
        BY <3>3, <3>4, Zenon
    <2> QED
      BY <2>1, <2>2, <2>3, Zenon
  <1>3. CASE \/ OnShare(i) \/ (\E j \in Nodes : OnPoint(i, j))
             \/ (\E e \in equals : OnEqual(i, e))
             \/ (\E M \in msets : EchoMSet(i, M) \/ OnMSet(i, M))
             \/ StartReconstruction(i) \/ (\E j \in Nodes : OnReady(i, j))
    <2>1. fp' = fp
      BY <1>3, Zenon
         DEF OnShare, OnPoint, OnEqual, EchoMSet, OnMSet, StartReconstruction, OnReady, revealVars
    <2> QED
      BY <1>1, <2>1, Zenon
  <1> QED
    BY <1>2, <1>3, Zenon DEF Step

\* Two members of an M-set whose revealed polynomials do not agree: one lies.
LEMMA OneLies ==
    ASSUME Inv, NEW i \in Nodes, NEW u \in mSet[i], NEW v \in mSet[i], ~isConsistent(u, v)
    PROVE  {u, v} \intersect Liars # {}
  <1>1. u \in Nodes /\ v \in Nodes
    BY Zenon DEF Inv, MSetsAreEchoed
  <1>2. processPoint(u, v)
    BY MSetFits, Zenon
  <1>3. scenario.reveal[u] # scenario.share[u] \/ scenario.reveal[v] # scenario.share[v]
    BY <1>2, Zenon DEF processPoint, isConsistent
  <1> QED
    BY <1>1, <1>3, Zenon DEF Liars

\* A marked pair stays marked, and a new one holds a liar.
LEMMA NextPairs ==
    ASSUME IInv, NEW i \in Nodes, Step(i)
    PROVE  PairsAreFaulty'
  <1> SUFFICES ASSUME NEW k \in Nodes
               PROVE  /\ scenario'.fp[k] \subseteq fp'[k]
                      /\ mSet'[k] = {} => fp'[k] = scenario'.fp[k]
                      /\ \A u, v \in mSet'[k] : u # v => {u, v} \notin scenario'.fp[k]
                      /\ \A pair \in fp'[k] \ scenario'.fp[k] : pair \intersect Liars' # {}
    BY Zenon DEF PairsAreFaulty
  <1>1. /\ scenario.fp[k] \subseteq fp[k]
        /\ mSet[k] = {} => fp[k] = scenario.fp[k]
        /\ \A u, v \in mSet[k] : u # v => {u, v} \notin scenario.fp[k]
        /\ \A pair \in fp[k] \ scenario.fp[k] : pair \intersect Liars # {}
    BY ZenonT(30) DEF IInv, PairsAreFaulty
  <1>2. /\ scenario' = scenario
        /\ mSet[k] # {} => mSet'[k] = mSet[k]
        /\ mSet[k] = {} /\ mSet'[k] # {} => \A u, v \in mSet'[k] : u # v => {u, v} \notin fp[k]
    BY MSetLasts, Zenon
  <1>3. Liars' = Liars
    BY <1>2, Zenon DEF Liars
  <1>4. /\ fp[k] \subseteq fp'[k]
        /\ mSet[k] = {} => fp'[k] = fp[k]
        /\ \A pair \in fp'[k] \ fp[k] : \E u, v \in mSet[k] : pair = {u, v} /\ ~isConsistent(u, v)
    BY PairsGrow, Zenon
  <1>5. \A u, v \in mSet'[k] : u # v => {u, v} \notin scenario'.fp[k]
    <2>1. CASE mSet[k] # {}
      BY <1>1, <1>2, <2>1, Zenon
    <2>2. CASE mSet[k] = {}
      BY <1>1, <1>2, <2>2, Zenon
    <2> QED
      BY <2>1, <2>2, Zenon
  <1>6. ASSUME NEW pair \in fp'[k] \ scenario'.fp[k] PROVE pair \intersect Liars' # {}
    <2>1. CASE pair \in fp[k]
      BY <1>1, <1>2, <1>3, <1>6, <2>1, Zenon
    <2>2. CASE pair \notin fp[k]
      <3>1. PICK u \in mSet[k], v \in mSet[k] : pair = {u, v} /\ ~isConsistent(u, v)
        BY <1>4, <1>6, <2>2, Zenon
      <3>2. {u, v} \intersect Liars # {}
        BY <3>1, OneLies, Zenon DEF IInv
      <3> QED
        BY <1>3, <3>1, <3>2, Zenon
    <2> QED
      BY <2>1, <2>2, Zenon
  <1>7. mSet'[k] = {} => fp'[k] = scenario'.fp[k]
    BY <1>1, <1>2, <1>4, Zenon
  <1> QED
    BY <1>1, <1>2, <1>4, <1>5, <1>6, <1>7, Zenon

\* More candidates do not take away what was interpolated.
LEMMA InterpolatedGrows ==
    ASSUME NEW f, NEW C, NEW D, C \subseteq D, NEW x, Interpolated(f, C, x)
    PROVE  Interpolated(f, D, x)
  BY Zenon DEF Interpolated

\* REVEALs, READYs and candidates are never taken back, and only a REVEAL that
\* reaches i changes what i knows of the secret.
LEMMA RevealsGrow ==
    ASSUME IInv, NEW i \in Nodes, Step(i), NEW k \in Nodes
    PROVE  /\ reconstructedPolys[k] \subseteq reconstructedPolys'[k] /\ ready \subseteq ready'
           /\ Candidates(k) \subseteq Candidates(k)'
           /\ \/ /\ UNCHANGED <<reconstructedPolys, secret, ready>>
                 /\ k \in reconstructedPolys[k] => Candidates(k)' = Candidates(k)
              \/ \E j \in Nodes : OnReveal(i, j)
  <1>0. mSet[k] \subseteq mSet'[k] /\ (mSet[k] # {} => mSet'[k] = mSet[k])
    BY MSetLasts, Zenon
  <1>1. ASSUME NEW j \in Nodes, OnReveal(i, j)
        PROVE  reconstructedPolys[k] \subseteq reconstructedPolys'[k] /\ ready \subseteq ready'
    <2>1. /\ reconstructedPolys' = [reconstructedPolys EXCEPT ![i] = @ \union {j}]
          /\ \/ UNCHANGED <<fp, secret, ready>>
             \/ \E valid \in SUBSET Candidates(i)', P \in SUBSET SUBSET Nodes :
                        Interpolates(i, Candidates(i)', valid, P)
      BY <1>1, RevealEffect, Zenon DEF IInv
    <2>2. ready \subseteq ready'
      BY <2>1, ZenonT(30) DEF Interpolates
    <2> QED
      BY <2>1, <2>2, Zenon DEF IInv, TypeOK
  <1>2. CASE \A j \in Nodes : ~OnReveal(i, j)
    <2>1. UNCHANGED <<reconstructedPolys, secret, ready>>
      BY <1>2, ZenonT(30)
         DEF Step, OnShare, OnPoint, OnEqual, EchoMSet, OnMSet, StartReconstruction, OnReady,
                  revealVars, readyVars
    <2>2. k \in reconstructedPolys[k] => mSet[k] # {}
      BY Zenon DEF IInv, TypeOK, RevealsAreExamined
    <2> QED
      BY <1>0, <2>1, <2>2, Zenon DEF Candidates
  <1>3. CASE \E j \in Nodes : OnReveal(i, j)
    BY <1>0, <1>1, <1>3, Zenon DEF Candidates
  <1> QED
    BY <1>2, <1>3, Zenon

\* A node that has its own REVEAL looks again at each that follows.
LEMMA NextExamined ==
    ASSUME IInv, NEW i \in Nodes, Step(i)
    PROVE  RevealsAreExamined'
  <1> SUFFICES ASSUME NEW k \in Nodes
               PROVE  /\ k \in revealed' => k \in mSet'[k]
                      /\ k \in reconstructedPolys'[k] /\ Cardinality(Candidates(k)') >= N - 2 * T => Examined(k)'
                      /\ secret'[k] # NoSecret =>
                            Interpolated(scenario'.reveal, Candidates(k)', secret'[k])
    BY Zenon DEF RevealsAreExamined
  <1>1. /\ k \in revealed => k \in mSet[k]
        /\ k \in reconstructedPolys[k] /\ Cardinality(Candidates(k)) >= N - 2 * T => Examined(k)
        /\ secret[k] # NoSecret => Interpolated(scenario.reveal, Candidates(k), secret[k])
    BY ZenonT(30) DEF IInv, RevealsAreExamined
  <1>2. scenario' = scenario /\ (mSet[k] # {} => mSet'[k] = mSet[k])
    BY MSetLasts, ZenonT(30)
  <1>3. k \in revealed' => k \in mSet'[k]
    <2>1. k \in revealed' => k \in revealed \/ k \in mSet[k]
      BY ZenonT(30) DEF Step, OnShare, OnPoint, OnEqual, EchoMSet, OnMSet, StartReconstruction,
         OnReveal, OnReady,
             revealVars
    <2> QED
      BY <1>1, <1>2, <2>1, Zenon
  <1>4. fp[k] \subseteq fp'[k]
    BY PairsGrow, Zenon
  <1>5. ready \subseteq ready' /\ Candidates(k) \subseteq Candidates(k)'
    BY RevealsGrow, Zenon
  <1>6. ASSUME Candidates(k)' = Candidates(k), k \in reconstructedPolys[k], secret'[k] = secret[k]
        PROVE  Cardinality(Candidates(k)') >= N - 2 * T => Examined(k)'
    <2>1. \A u, v : isConsistent(u, v)' = isConsistent(u, v)
      BY <1>2, ZenonT(30) DEF isConsistent
    <2> QED
      BY <1>1, <1>2, <1>4, <1>5, <1>6, <2>1, Zenon DEF Examined
  <1>7. ASSUME secret'[k] = secret[k], secret'[k] # NoSecret
        PROVE  Interpolated(scenario'.reveal, Candidates(k)', secret'[k])
    <2>1. Interpolated(scenario.reveal, Candidates(k), secret[k])
      BY <1>1, <1>7, Zenon
    <2>2. Interpolated(scenario.reveal, Candidates(k)', secret[k])
      BY <1>5, <2>1, InterpolatedGrows, Zenon
    <2> QED
      BY <1>2, <1>7, <2>2, Zenon
  <1>8. CASE /\ UNCHANGED <<reconstructedPolys, secret, ready>>
             /\ k \in reconstructedPolys[k] => Candidates(k)' = Candidates(k)
    BY <1>3, <1>6, <1>7, <1>8, Zenon
  <1>9. ASSUME NEW j \in Nodes, OnReveal(i, j)
        PROVE  /\ k \in reconstructedPolys'[k] /\ Cardinality(Candidates(k)') >= N - 2 * T => Examined(k)'
               /\ secret'[k] # NoSecret =>
                            Interpolated(scenario'.reveal, Candidates(k)', secret'[k])
    <2>1. /\ revealed' = revealed /\ j \in revealed
          /\ reconstructedPolys' = [reconstructedPolys EXCEPT ![i] = @ \union {j}]
          /\ \A m \in Nodes \ {i} : Candidates(m)' = Candidates(m)
          /\ \/ /\ mSet[i] = {} \/ Cardinality(Candidates(i)') < N - 2 * T
                /\ UNCHANGED <<fp, secret, ready>>
             \/ /\ mSet[i] # {} /\ Cardinality(Candidates(i)') >= N - 2 * T
                /\ \E valid \in SUBSET Candidates(i)', P \in SUBSET SUBSET Nodes :
                        Interpolates(i, Candidates(i)', valid, P)
          /\ Candidates(i)' \subseteq Nodes
      BY <1>9, RevealEffect, ZenonT(30) DEF IInv
    <2>2. reconstructedPolys \in [Nodes -> SUBSET revealed] /\ secret \in [Nodes -> Field \union {NoSecret}]
          /\ fp \in [Nodes -> SUBSET SUBSET Nodes]
      BY Zenon DEF IInv, TypeOK
    <2>3. CASE k # i
      <3>1. reconstructedPolys'[k] = reconstructedPolys[k] /\ Candidates(k)' = Candidates(k)
        BY <2>1, <2>2, <2>3, Zenon
      <3>2. secret'[k] = secret[k]
        BY <2>1, <2>2, <2>3, ZenonT(30) DEF Interpolates
      <3> QED
        BY <1>6, <1>7, <3>1, <3>2, Zenon
    <2>4. CASE k = i /\ (mSet[i] = {} \/ Cardinality(Candidates(i)') < N - 2 * T) /\ UNCHANGED <<fp, secret, ready>>
      <3>1. k \in reconstructedPolys'[k] => mSet[k] # {}
        BY <1>1, <2>1, <2>2, <2>4, Zenon
      <3>2. Cardinality(Candidates(i)') \in Nat
        BY <2>1, SetsAreFinite, Zenon
      <3>3. ~(k \in reconstructedPolys'[k] /\ Cardinality(Candidates(k)') >= N - 2 * T)
        BY <2>4, <3>1, <3>2, NodesFacts, SMTT(30)
      <3> QED
        BY <1>7, <2>4, <3>3, Zenon
    <2>5. ASSUME k = i, NEW valid \in SUBSET Candidates(i)', NEW P \in SUBSET SUBSET Nodes,
                 Cardinality(Candidates(i)') >= N - 2 * T, Interpolates(i, Candidates(i)', valid, P)
          PROVE  /\ Examined(k)'
                 /\ secret'[k] # NoSecret =>
                            Interpolated(scenario'.reveal, Candidates(k)', secret'[k])
      <3> DEFINE x == InterpolateAtZero([u \in valid |-> Evaluate(scenario.reveal[u], 0)])
      <3>1. /\ Agree(scenario.reveal, valid)
            /\ valid = Candidates(i)' \/ P # {}
            /\ \A pair \in P : \E u, v \in Candidates(i)' : pair = {u, v} /\ u # v /\ ~isConsistent(u, v)
            /\ fp' = [fp EXCEPT ![i] = @ \union P]
            /\ \/ /\ Cardinality(valid) >= N - 2 * T
                  /\ secret' = [secret EXCEPT ![i] = x]
                  /\ ready' = ready \union {i}
               \/ Cardinality(valid) < N - 2 * T /\ UNCHANGED <<secret, ready>>
        BY <2>5, Zenon DEF Interpolates
      <3>2. Examined(k)'
        <4>1. CASE valid = Candidates(i)'
          <5>1. Cardinality(valid) >= N - 2 * T /\ Cardinality(valid) \in Nat
            BY <2>1, <2>5, <4>1, SetsAreFinite, ZenonT(30)
          <5>2. i \in ready'
            BY <3>1, <5>1, NodesFacts
          <5> QED
            BY <1>2, <2>5, <3>1, <4>1, <5>2, Zenon DEF Examined
        <4>2. CASE P # {}
          <5>1. PICK pair \in P : TRUE
            BY <4>2, Zenon
          <5>2. PICK u \in Candidates(i)', v \in Candidates(i)' : pair = {u, v} /\ u # v /\ ~isConsistent(u, v)
            BY <3>1, <5>1, Zenon
          <5>3. {u, v} \in fp'[i]
            BY <2>2, <3>1, <5>1, <5>2, Zenon
          <5>4. ~isConsistent(u, v)'
            BY <1>2, <5>2, Zenon DEF isConsistent
          <5> QED
            BY <2>5, <5>2, <5>3, <5>4, Zenon DEF Examined
        <4> QED
          BY <3>1, <4>1, <4>2, Zenon
      <3>3. CASE secret' = [secret EXCEPT ![i] = x] /\ Cardinality(valid) >= N - 2 * T
        <4>1. secret'[k] = x
          BY <2>2, <2>5, <3>3, Zenon
        <4>2. Interpolated(scenario.reveal, Candidates(k)', x)
          BY <2>5, <3>1, <3>3, Zenon DEF Interpolated
        <4> QED
          BY <1>2, <3>2, <4>1, <4>2, ZenonT(30)
      <3>4. CASE secret' = secret
        BY <1>7, <3>2, <3>4, Zenon
      <3> QED
        BY <3>1, <3>3, <3>4, Zenon
    <2> QED
      BY <2>1, <2>3, <2>4, <2>5, Zenon
  <1> QED
    BY <1>3, <1>8, <1>9, RevealsGrow, Zenon

\* A node that is ready has its secret and keeps one.
LEMMA SecretLasts ==
    ASSUME InterpolatesToField, IInv, NEW i \in Nodes, Step(i), NEW k \in Nodes
    PROVE  /\ secret[k] # NoSecret => secret'[k] # NoSecret
           /\ k \in ready' => secret'[k] # NoSecret
  <1>0. secret \in [Nodes -> Field \union {NoSecret}] /\ (k \in ready => secret[k] # NoSecret)
    BY Zenon DEF IInv, TypeOK, ReadysAreCounted
  <1>1. CASE UNCHANGED <<secret, ready>>
    BY <1>0, <1>1, Zenon
  <1>2. ASSUME NEW j \in Nodes, OnReveal(i, j)
        PROVE  /\ secret[k] # NoSecret => secret'[k] # NoSecret
               /\ k \in ready' => secret'[k] # NoSecret
    <2>1. /\ Candidates(i)' \subseteq Nodes
          /\ \/ UNCHANGED <<fp, secret, ready>>
             \/ \E valid \in SUBSET Candidates(i)', P \in SUBSET SUBSET Nodes :
                        Interpolates(i, Candidates(i)', valid, P)
      BY <1>2, RevealEffect, Zenon DEF IInv
    <2>2. ASSUME NEW valid \in SUBSET Candidates(i)', NEW P \in SUBSET SUBSET Nodes,
                 Interpolates(i, Candidates(i)', valid, P)
          PROVE  /\ secret[k] # NoSecret => secret'[k] # NoSecret
                 /\ k \in ready' => secret'[k] # NoSecret
      <3> DEFINE x == InterpolateAtZero([u \in valid |-> Evaluate(scenario.reveal[u], 0)])
      <3>1. \/ secret' = [secret EXCEPT ![i] = x] /\ ready' = ready \union {i}
            \/ UNCHANGED <<secret, ready>>
        BY <2>2, Zenon DEF Interpolates
      <3>2. x # NoSecret
        BY <2>1, InterpolationField, Zenon DEF IInv, TypeOK
      <3> HIDE DEF x
      <3> QED
        BY <1>0, <3>1, <3>2, Zenon
    <2> QED
      BY <1>1, <2>1, <2>2, Zenon
  <1> QED
    BY <1>1, <1>2, RevealsGrow, Zenon

\* A node's own READY comes after its secret, so the READY that completes n-t of
\* them finds a secret.
LEMMA NextCounted ==
    ASSUME InterpolatesToField, IInv, NEW i \in Nodes, Step(i)
    PROVE  ReadysAreCounted'
  <1> SUFFICES ASSUME NEW k \in Nodes
               PROVE  /\ k \in ready' => secret'[k] # NoSecret
                      /\ output'[k] # NoSecret => Interpolated(scenario'.reveal, Candidates(k)', output'[k])
                      /\ k \in readyToComplete'[k] /\ Cardinality(readyToComplete'[k]) >= N - T
                            => output'[k] # NoSecret
    BY Zenon DEF ReadysAreCounted
  <1>1. /\ k \in ready => secret[k] # NoSecret
        /\ output[k] # NoSecret => Interpolated(scenario.reveal, Candidates(k), output[k])
        /\ k \in readyToComplete[k] /\ Cardinality(readyToComplete[k]) >= N - T => output[k] # NoSecret
        /\ secret[k] # NoSecret => Interpolated(scenario.reveal, Candidates(k), secret[k])
    BY Zenon DEF IInv, ReadysAreCounted, RevealsAreExamined
  <1>2. scenario' = scenario /\ Candidates(k) \subseteq Candidates(k)'
    BY MSetLasts, RevealsGrow, Zenon
  <1>3. k \in ready' => secret'[k] # NoSecret
    BY SecretLasts, Zenon
  <1>4. ASSUME output'[k] = output[k], output'[k] # NoSecret
        PROVE  Interpolated(scenario'.reveal, Candidates(k)', output'[k])
    <2>1. Interpolated(scenario.reveal, Candidates(k)', output[k])
      BY <1>1, <1>2, <1>4, InterpolatedGrows, ZenonT(30)
    <2> QED
      BY <1>2, <1>4, <2>1, Zenon
  <1>5. ASSUME output'[k] = secret[k], output'[k] # NoSecret
        PROVE  Interpolated(scenario'.reveal, Candidates(k)', output'[k])
    <2>1. Interpolated(scenario.reveal, Candidates(k)', secret[k])
      BY <1>1, <1>2, <1>5, InterpolatedGrows, Zenon
    <2> QED
      BY <1>2, <1>5, <2>1, Zenon
  <1>6. CASE UNCHANGED <<readyToComplete, output>>
    BY <1>1, <1>3, <1>4, <1>6, Zenon
  <1>7. ASSUME NEW j \in Nodes, OnReady(i, j)
        PROVE  /\ output'[k] # NoSecret => Interpolated(scenario'.reveal, Candidates(k)', output'[k])
               /\ k \in readyToComplete'[k] /\ Cardinality(readyToComplete'[k]) >= N - T
                            => output'[k] # NoSecret
    <2>0. /\ readyToComplete \in [Nodes -> SUBSET ready]
          /\ output \in [Nodes -> Field \union {NoSecret}]
      BY Zenon DEF IInv, TypeOK
    <2>1. /\ j \in ready /\ readyToComplete' = [readyToComplete EXCEPT ![i] = @ \union {j}]
          /\ output' = IF Cardinality(readyToComplete'[i]) >= N - T /\ output[i] = NoSecret
                       THEN [output EXCEPT ![i] = secret[i]] ELSE output
      BY <1>7, Zenon DEF OnReady
    <2>2. CASE k # i
      <3>1. output'[k] = output[k] /\ readyToComplete'[k] = readyToComplete[k]
        BY <2>0, <2>1, <2>2, Zenon
      <3> QED
        BY <1>1, <1>4, <3>1, Zenon
    <2>3. CASE k = i
      <3>1. output'[k] = output[k] \/ output'[k] = secret[k]
        BY <2>0, <2>1, <2>3, Zenon
      <3>2. ASSUME k \in readyToComplete'[k], Cardinality(readyToComplete'[k]) >= N - T
            PROVE  output'[k] # NoSecret
        <4>1. k \in ready
          BY <2>0, <2>1, <2>3, <3>2, Zenon
        <4>2. secret[k] # NoSecret
          BY <1>1, <4>1, Zenon
        <4> QED
          BY <2>0, <2>1, <2>3, <3>2, <4>2, Zenon
      <3> QED
        BY <1>4, <1>5, <3>1, <3>2, ZenonT(30)
    <2> QED
      BY <2>2, <2>3, ZenonT(30)
  <1>8. UNCHANGED <<readyToComplete, output>> \/ \E j \in Nodes : OnReady(i, j)
    BY Zenon DEF Step, OnShare, OnPoint, OnEqual, EchoMSet, OnMSet, StartReconstruction,
       OnReveal, readyVars
  <1> QED
    BY <1>3, <1>6, <1>7, <1>8, Zenon

-----------------------------------------------------------------------------

(***************************************************************************)
(* IInv is inductive.                                                      *)
(***************************************************************************)

\* Before the first share there is nothing to answer, try, mark or count.
LEMMA InitIInv == Init => IInv
  <1> SUFFICES ASSUME Init PROVE IInv
    BY Zenon
  <1>1. Inv /\ TypeOK
    BY InitInv, InitType, Zenon
  <1>2. Dealer \in Nodes
    BY IVSSAssumption, Zenon
  <1>3. PointsAreAnswered /\ MSetsAreTried
    BY <1>2, Zenon DEF Init, PointsAreAnswered, MSetsAreTried
  <1>4. PairsAreFaulty
    BY ZenonT(30) DEF Init, PairsAreFaulty
  <1>5. RevealsAreExamined /\ ReadysAreCounted
    BY Zenon DEF Init, RevealsAreExamined, ReadysAreCounted
  <1> QED
    BY <1>1, <1>3, <1>4, <1>5, Zenon DEF IInv

\* No step, and no stuttering step, leaves the invariant.
LEMMA NextIInv ==
    ASSUME InterpolatesToField, IInv, [Next]_vars
    PROVE  IInv'
  <1>1. Inv' /\ TypeOK'
    BY NextInv, NextType, Zenon DEF IInv
  <1>2. CASE UNCHANGED vars
    <2> USE DEF vars, sharingVars, msetVars, revealVars, readyVars
    <2>1. PointsAreAnswered' /\ MSetsAreTried'
      BY <1>2, Zenon DEF IInv, PointsAreAnswered, MSetsAreTried, processPoint
    <2>2. PairsAreFaulty'
      BY <1>2, Zenon DEF IInv, PairsAreFaulty, Liars
    <2>3. RevealsAreExamined' /\ ReadysAreCounted'
      BY <1>2, Zenon
         DEF IInv, RevealsAreExamined, ReadysAreCounted, Examined, Candidates, isConsistent
    <2> QED
      BY <1>1, <2>1, <2>2, <2>3, Zenon DEF IInv
  <1>3. ASSUME NEW i \in Nodes, Step(i) PROVE IInv'
    <2>1. PointsAreAnswered' /\ MSetsAreTried' /\ PairsAreFaulty'
      BY <1>3, NextPoints, NextTried, NextPairs, Zenon
    <2>2. RevealsAreExamined' /\ ReadysAreCounted'
      BY <1>3, NextExamined, NextCounted, Zenon
    <2> QED
      BY <1>1, <2>1, <2>2, Zenon DEF IInv
  <1> QED
    BY <1>2, <1>3, Zenon DEF Next

-----------------------------------------------------------------------------

(***************************************************************************)
(* What the valid set of a node holds when at most T nodes lie.            *)
(***************************************************************************)

\* The fault model: at most T nodes reveal another polynomial than their own.
FewLiars == \A s \in Scenarios : Cardinality({i \in Nodes : s.reveal[i] # s.share[i]}) <= T

\* With at most T liars, none of which fits another node, the valid set of any node
\* holds true shares only.
LEMMA ValidIsTrue ==
    ASSUME FewLiars, scenario \in Scenarios, ~LiesFit, NEW V, V \subseteq Nodes,
           Cardinality(V) >= N - 2 * T, Agree(scenario.reveal, V)
    PROVE  \A u \in V : scenario.reveal[u] = scenario.share[u]
  <1>1. Cardinality(Liars) <= T /\ Liars \subseteq Nodes
    BY Zenon DEF FewLiars, Liars
  <1>2. ~(V \subseteq Liars)
    <2> SUFFICES ASSUME V \subseteq Liars PROVE FALSE
      BY Zenon
    <2>1. Cardinality(V) <= Cardinality(Liars) /\ Cardinality(V) \in Nat /\ Cardinality(Liars) \in Nat
      BY <1>1, SubsetSize, SetsAreFinite, Zenon
    <2> QED
      BY <1>1, <2>1, NodesFacts
  <1>3. PICK v \in V : v \notin Liars
    BY <1>2, Zenon
  <1>4. ASSUME NEW u \in V PROVE u \notin Liars
    <2>1. isConsistent(u, v)
      BY Zenon DEF Agree, isConsistent
    <2> QED
      BY <1>3, <2>1, Zenon DEF LiesFit
  <1> QED
    BY <1>4, Zenon DEF Liars

\* At rest, what a node has delivered came from REVEALs that the members of its
\* M-set have all seen.
LEMMA OutputFacts ==
    ASSUME IInv, AtRest, NEW i \in Live, output[i] # NoSecret, NEW k \in Live, mSet[k] # {}
    PROVE  Interpolated(scenario.reveal, Candidates(k), output[i])
  <1>1. i \in Nodes /\ k \in Nodes
    BY ScenarioFacts, Zenon DEF IInv, TypeOK
  <1>2. Interpolated(scenario.reveal, Candidates(i), output[i])
    BY <1>1, Zenon DEF IInv, ReadysAreCounted
  <1>3. PICK V \in SUBSET Candidates(i) :
            /\ Cardinality(V) >= N - 2 * T /\ Agree(scenario.reveal, V)
            /\ output[i] = InterpolateAtZero([u \in V |-> Evaluate(scenario.reveal[u], 0)])
    BY <1>2, Zenon DEF Interpolated
  <1>4. mSet[i] # {}
    <2>1. Cardinality({}) = 0
      BY FS_EmptySet, Zenon
    <2>2. ~ 0 >= N - 2 * T
      BY NodesFacts
    <2>3. V # {}
      BY <1>3, <2>1, <2>2, Zenon
    <2> QED
      BY <2>3, Zenon DEF Candidates
  <1>5. Candidates(i) = Candidates(k)
    BY <1>1, <1>4, OneMSet, Zenon DEF IInv, AtRest, Candidates
  <1> QED
    BY <1>2, <1>5, Zenon

-----------------------------------------------------------------------------

(***************************************************************************)
(* What a state at rest has come to.                                       *)
(***************************************************************************)

\* At rest, with no pairs known from before: if one node has completed, all have.
LEMMA AllComplete ==
    ASSUME IInv, AtRest, CleanStart, NEW k \in Live, mSet[k] # {}, NEW i \in Live
    PROVE  mSet[i] = mSet[k]
  <1>1. i \in Nodes /\ k \in Nodes
    BY ScenarioFacts, Zenon DEF IInv, TypeOK
  <1> DEFINE M == mSet[k]
  <1>2. /\ M \in msets /\ EchoQuorum(M) /\ Cardinality(M) >= N - T
        /\ \A u, v \in M : u # v => <<u, v>> \in completedEquals[k]
    BY <1>1, Zenon DEF IInv, Inv, MSetsAreEchoed
  <1>3. M \in {pendingMSet[i], mSet[i]}
    BY <1>2, Zenon DEF AtRest
  <1>4. completedEquals[i] = completedEquals[k]
    BY Zenon DEF AtRest
  <1> SUFFICES ASSUME mSet[i] = {} PROVE FALSE
    BY <1>1, OneMSet, Zenon DEF IInv
  <1>5. fp[i] = {}
    BY <1>1, ZenonT(30) DEF IInv, PairsAreFaulty, CleanStart
  <1>6. Verified(fp[i], completedEquals[i], M)
    BY <1>2, <1>4, <1>5, Zenon DEF Verified, Paired
  <1>7. pendingMSet[i] = M
    BY <1>3, Zenon
  <1> QED
    BY <1>1, <1>6, <1>7, Zenon DEF IInv, MSetsAreTried

\* With nobody lying, at rest: one node has completed the sharing, so all have, all
\* members of the M-set have seen all REVEALs and are ready, and their READYs are
\* enough.
LEMMA RestReconstructs == IInv => ReconstructionEnds
  <1> SUFFICES ASSUME IInv, AtRest, CleanStart, Liars = {}, NEW k \in Live, mSet[k] # {}, NEW i \in Live
               PROVE  mSet[i] # {} /\ (i \in mSet[i] => output[i] # NoSecret)
    BY Zenon DEF ReconstructionEnds
  <1> DEFINE M == mSet[k]
  <1>1. \A j \in Live : mSet[j] = M
    BY AllComplete, Zenon
  <1>2. k \in Nodes /\ Live \subseteq Nodes /\ scenario \in Scenarios
    BY ScenarioFacts, Zenon DEF IInv, TypeOK
  <1>3. M \subseteq Live /\ M \subseteq Nodes /\ Cardinality(M) >= N - T
    BY <1>2, MSetShared, Zenon DEF IInv, TypeOK, Inv, MSetsAreEchoed
  <1>4. ASSUME NEW j \in M PROVE j \in ready
    <2>1. j \in Live /\ j \in Nodes /\ mSet[j] = M
      BY <1>1, <1>3, Zenon
    <2>2. M \subseteq revealed
      BY <1>1, <1>3, Zenon DEF AtRest
    <2>3. Candidates(j) = M /\ j \in reconstructedPolys[j]
      BY <2>1, <2>2, Zenon DEF AtRest, Candidates
    <2>4. Cardinality(M) >= N - 2 * T
      <3>1. Cardinality(M) \in Nat
        BY <1>3, SetsAreFinite, Zenon
      <3> QED
        BY <1>3, <3>1, NodesFacts, SMTT(30)
    <2>5. Examined(j)
      BY <2>1, <2>3, <2>4, Zenon DEF IInv, RevealsAreExamined
    <2>6. \A u, v \in M : isConsistent(u, v)
      <3>1. ASSUME NEW u \in M, NEW v \in M PROVE isConsistent(u, v)
        <4>1. scenario.reveal[u] = scenario.share[u] /\ scenario.reveal[v] = scenario.share[v]
          BY <1>3, Zenon DEF Liars
        <4>2. processPoint(u, v)
          BY <1>2, MSetFits, Zenon DEF IInv
        <4> QED
          BY <4>1, <4>2, Zenon DEF processPoint, isConsistent
      <3> QED
        BY <3>1, Zenon
    <2> QED
      BY <2>3, <2>5, <2>6, ZenonT(30) DEF Examined
  <1>5. ASSUME i \in M PROVE output[i] # NoSecret
    <2>1. readyToComplete[i] = ready /\ i \in ready /\ M \subseteq ready /\ ready \subseteq Nodes
      BY <1>2, <1>4, <1>5, Zenon DEF AtRest, IInv, TypeOK
    <2>2. Cardinality(ready) >= N - T
      <3> DEFINE bound == N - T
      <3>1. bound \in Int
        BY NodesFacts
      <3>2. Cardinality(M) >= bound
        BY <1>3, Zenon
      <3> HIDE DEF M, bound
      <3>3. Cardinality(ready) >= bound
        BY <2>1, <3>1, <3>2, LargerSet, Zenon
      <3> QED
        BY <3>3, Zenon DEF bound
    <2> QED
      BY <1>2, <2>1, <2>2, Zenon DEF IInv, ReadysAreCounted
  <1> QED
    BY <1>1, <1>5, Zenon
=============================================================================
