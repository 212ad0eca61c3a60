----------------------------- MODULE ICCProofs -----------------------------
(***************************************************************************)
(* Proofs about ICC for every set of nodes, every T with N > 3T and every  *)
(* set of scenarios: types, no reconstruction of what was not shared, and  *)
(* agreement on the coin.                                                  *)
(***************************************************************************)
EXTENDS ICC, FiniteSetTheorems, TLAPS

\* The sets as checkProgress freezes them: T_i from completed dealers, A_i from
\* ATTACHes within T_i, S_i from a quorum of ACCEPTs within A_i.
FrozenSets ==
    \A i \in Nodes :
        /\ myT[i] # {} => i \in Live /\ myT[i] \subseteq completed[i]
        /\ myA[i] # {} => /\ myT[i] # {}
                          /\ \A j \in myA[i] : myT[j] # {} /\ myT[j] \subseteq myT[i]
        /\ myS[i] # {} => /\ myA[i] # {}
                          /\ Cardinality(myS[i]) >= N - T
                          /\ \A j \in myS[i] : myA[j] # {} /\ myA[j] \subseteq myA[i]

\* What has been delivered was sent.
Deliveries ==
    \A i \in Nodes :
        /\ \A j \in receivedT[i] : myT[j] # {}
        /\ \A j \in receivedA[i] : myA[j] # {}
        /\ \A j \in receivedFinal[i] : myS[j] # {}
        /\ \A j \in reconstructed[i] : Reconstructible(j)

\* A pair (H, S) on which a node may decide.
Final(j) == myS[j] # {} /\ \A k \in myA[j] : Reconstructible(k)

Coins ==
    \A i \in Nodes : coin[i] # NoCoin => \E j \in Nodes : Final(j) /\ coin[i] = CoinOf(myA[j])

Inv == TypeOK /\ FrozenSets /\ Deliveries /\ Coins

\* What the sets and the coin of node i came from.
Origins(i) ==
    /\ myT[i] # {} => Cardinality(myT[i]) >= N - T
    /\ myA[i] # {} => Cardinality(myA[i]) >= N - T /\ myA[i] \subseteq receivedT[i]
    /\ myS[i] # {} => myS[i] \subseteq receivedA[i]
    /\ coin[i] # NoCoin =>
          \E j \in receivedFinal[i] : Decides(j, myA[i], myS[i], reconstructed[i])

\* With n-t nodes, none waits for a mutex that it holds.
EndInv ==
    /\ \A i \in Nodes : Origins(i)
    /\ Cardinality(Live) = N - T => locked = {}

\* What a handler does to the received sets before it calls checkProgress.
Handled ==
    /\ scenario' = scenario
    /\ completed' \in [Nodes -> SUBSET Live]
    /\ \A i \in Nodes : completed[i] \subseteq completed'[i]
    /\ receivedT' \in [Nodes -> SUBSET Live]
    /\ receivedA' \in [Nodes -> SUBSET Live]
    /\ receivedFinal' \in [Nodes -> SUBSET Live]
    /\ reconstructed' \in [Nodes -> SUBSET Live]
    /\ \A i \in Nodes :
        /\ \A j \in receivedT'[i] : myT[j] # {}
        /\ \A j \in receivedA'[i] : myA[j] # {}
        /\ \A j \in receivedFinal'[i] : myS[j] # {}
        /\ \A j \in reconstructed'[i] : Reconstructible(j)

\* The received sets only grow.
Grows ==
    \A k \in Nodes : /\ receivedT[k] \subseteq receivedT'[k]
                     /\ receivedA[k] \subseteq receivedA'[k]
                     /\ receivedFinal[k] \subseteq receivedFinal'[k]
                     /\ reconstructed[k] \subseteq reconstructed'[k]

\* The instance whose mutex a handler holds had not completed at node i.
Unshared(i, held) ==
    \A p \in held : p[1] \in Live \ completed[i] /\ receivedT' = receivedT

-----------------------------------------------------------------------------

\* The thresholds n-t and n-2t are at least 1.
LEMMA Thresholds ==
    /\ N \in Nat /\ T \in Nat /\ N > 3 * T
    /\ N - T >= 1 /\ N - 2 * T >= 1
  <1>1. N \in Nat /\ T \in Nat /\ N > 3 * T
    BY ICCAssumption, FS_CardinalityType, Zenon DEF N
  <1> HIDE DEF N
  <1> QED
    BY <1>1

\* A quorum of n-t nodes and a set of n-2t nodes have a node in common: the
\* reason why one n-2t reconstruction binds every S_i.
LEMMA Overlap ==
    ASSUME NEW X, X \subseteq Nodes, NEW Y, Y \subseteq Nodes,
           Cardinality(X) >= N - T, Cardinality(Y) >= N - 2 * T
    PROVE  X \intersect Y # {}
  <1> SUFFICES ASSUME X \intersect Y = {} PROVE FALSE
    BY Zenon
  <1>1. IsFiniteSet(Nodes) /\ IsFiniteSet(X) /\ IsFiniteSet(Y)
    BY ICCAssumption, FS_Subset, Zenon
  <1>2. Cardinality(X \union Y) = Cardinality(X) + Cardinality(Y)
    <2>1. Cardinality(X \union Y) =
            Cardinality(X) + Cardinality(Y) - Cardinality(X \intersect Y)
      BY <1>1, FS_Union, Zenon
    <2>2. Cardinality(X \intersect Y) = 0
      BY FS_EmptySet, Zenon
    <2>3. Cardinality(X) \in Nat /\ Cardinality(Y) \in Nat
      BY <1>1, FS_CardinalityType, Zenon
    <2> QED
      BY <2>1, <2>2, <2>3
  <1>3. Cardinality(X \union Y) <= N
    <2>1. X \union Y \subseteq Nodes
      BY Zenon
    <2> QED
      BY <1>1, <2>1, FS_Subset, Zenon DEF N
  <1>4. Cardinality(X) \in Nat /\ Cardinality(Y) \in Nat
    BY <1>1, FS_CardinalityType, Zenon
  <1> HIDE DEF N
  <1> QED
    BY <1>2, <1>3, <1>4, Thresholds

\* The heart of agreement: any node whose S is formed accepts every j whose
\* value can be reconstructed.
LEMMA ReconstructibleIsAccepted ==
    ASSUME Inv, NEW i \in Nodes, myS[i] # {}, NEW j, Reconstructible(j)
    PROVE  j \in myA[i]
  <1>1. Starters(j) \subseteq Nodes
    BY ICCAssumption, Zenon DEF Inv, TypeOK, Starters, Live
  <1>2. myS[i] \subseteq Nodes /\ Cardinality(myS[i]) >= N - T
    BY ICCAssumption, Zenon DEF Inv, TypeOK, FrozenSets, Live
  <1>3. PICK z \in myS[i] : z \in Starters(j)
    BY <1>1, <1>2, Overlap, Zenon DEF Reconstructible
  <1> QED
    BY <1>3, Zenon DEF Inv, FrozenSets, Starters

\* Two nodes that decide use the same set H.
LEMMA SameH ==
    ASSUME Inv, NEW i \in Nodes, NEW j \in Nodes, Final(i), Final(j)
    PROVE  myA[i] = myA[j]
  BY ReconstructibleIsAccepted, Zenon DEF Final

-----------------------------------------------------------------------------

\* checkProgress changes no set that is already formed, and forms only sets
\* that are right.
LEMMA ProgressKeepsInv ==
    ASSUME Inv, Handled, NEW i \in Nodes, Listens(i), NEW held, checkProgress(i, held)
    PROVE  Inv'
  <1> DEFINE t == FormT(i, completed'[i])
             a == FormA(i, t, receivedT'[i])
             s == FormS(i, a, receivedA'[i])
  <1>1. /\ myT' = [myT EXCEPT ![i] = t]
        /\ myA' = [myA EXCEPT ![i] = a]
        /\ myS' = [myS EXCEPT ![i] = s]
    BY Zenon DEF checkProgress
  <1>2. Live' = Live /\ i \in Live /\ Live \subseteq Nodes
    BY ICCAssumption, Zenon DEF Handled, Listens, Live, Inv, TypeOK
  <1>3. /\ t \in SUBSET Live /\ (myT[i] # {} => t = myT[i])
        /\ t # {} => t \subseteq completed'[i]
    BY Zenon DEF FormT, IfEnough, Handled, Inv, TypeOK, FrozenSets
  <1>4. /\ a \in SUBSET Live /\ (myA[i] # {} => a = myA[i])
        /\ a # {} => t # {} /\ \A j \in a : myT[j] # {} /\ myT[j] \subseteq t
    <2> HIDE DEF t
    <2> DEFINE A == {j \in receivedT'[i] : myT[j] \subseteq t}
    <2>1. CASE myA[i] # {}
      <3>1. a = myA[i]
        BY <2>1, Zenon DEF FormA
      <3>2. myT[i] # {} /\ \A j \in myA[i] : myT[j] # {} /\ myT[j] \subseteq myT[i]
        BY <2>1, Zenon DEF Inv, FrozenSets
      <3>3. myA[i] \in SUBSET Live
        BY Zenon DEF Inv, TypeOK
      <3> QED
        BY <3>1, <3>2, <3>3, <1>3, Zenon
    <2>2. CASE myA[i] = {} /\ (t = {} \/ ~ Cardinality(A) >= N - T)
      <3>1. a = {}
        BY <2>2, Zenon DEF FormA, IfEnough
      <3> QED
        BY <3>1, <2>2, Zenon
    <2>3. CASE myA[i] = {} /\ t # {} /\ Cardinality(A) >= N - T
      <3>1. a = A
        BY <2>3, Zenon DEF FormA, IfEnough
      <3>2. receivedT'[i] \in SUBSET Live /\ \A j \in receivedT'[i] : myT[j] # {}
        BY Zenon DEF Handled
      <3> QED
        BY <3>1, <3>2, <2>3, Zenon
    <2> QED
      BY <2>1, <2>2, <2>3, Zenon
  <1>5. /\ s \in SUBSET Live /\ (myS[i] # {} => s = myS[i])
        /\ s # {} => /\ a # {} /\ Cardinality(s) >= N - T
                     /\ \A j \in s : myA[j] # {} /\ myA[j] \subseteq a
    <2> HIDE DEF t, a
    <2> DEFINE S == {j \in receivedA'[i] : myA[j] \subseteq a}
    <2>1. CASE myS[i] # {}
      <3>1. s = myS[i]
        BY <2>1, Zenon DEF FormS
      <3>2. /\ myA[i] # {} /\ Cardinality(myS[i]) >= N - T
            /\ \A j \in myS[i] : myA[j] # {} /\ myA[j] \subseteq myA[i]
        BY <2>1, Zenon DEF Inv, FrozenSets
      <3>3. myS[i] \in SUBSET Live
        BY Zenon DEF Inv, TypeOK
      <3> QED
        BY <3>1, <3>2, <3>3, <1>4, Zenon
    <2>2. CASE myS[i] = {} /\ (a = {} \/ ~ Cardinality(S) >= N - T)
      <3>1. s = {}
        BY <2>2, Zenon DEF FormS, IfEnough
      <3> QED
        BY <3>1, <2>2, Zenon
    <2>3. CASE myS[i] = {} /\ a # {} /\ Cardinality(S) >= N - T
      <3>1. s = S
        BY <2>3, Zenon DEF FormS, IfEnough
      <3>2. receivedA'[i] \in SUBSET Live /\ \A j \in receivedA'[i] : myA[j] # {}
        BY Zenon DEF Handled
      <3> QED
        BY <3>1, <3>2, <2>3, Zenon
    <2> QED
      BY <2>1, <2>2, <2>3, Zenon
  <1> HIDE DEF t, a, s
  <1>6. /\ myT' \in [Nodes -> SUBSET Live]
        /\ myA' \in [Nodes -> SUBSET Live]
        /\ myS' \in [Nodes -> SUBSET Live]
    BY <1>1, <1>3, <1>4, <1>5, Zenon DEF Inv, TypeOK
  <1>7. \A j \in Nodes : /\ myT[j] # {} => myT'[j] = myT[j]
                         /\ myA[j] # {} => myA'[j] = myA[j]
                         /\ myS[j] # {} => myS'[j] = myS[j]
    BY <1>1, <1>3, <1>4, <1>5, Zenon DEF Inv, TypeOK
  <1>8. \A j : Reconstructible(j) => Reconstructible(j)'
    <2> SUFFICES ASSUME NEW j, Reconstructible(j) PROVE Reconstructible(j)'
      BY Zenon
    <2>1. Starters(j) \subseteq Starters(j)'
      BY <1>2, <1>7, Zenon DEF Starters, Inv, FrozenSets
    <2>2. Starters(j)' \subseteq Nodes
      BY <1>2, Zenon DEF Starters
    <2>3. IsFiniteSet(Starters(j)') /\ IsFiniteSet(Starters(j))
      BY <2>1, <2>2, ICCAssumption, FS_Subset, Zenon
    <2>4. Cardinality(Starters(j)) <= Cardinality(Starters(j)')
      BY <2>1, <2>3, FS_Subset, Zenon
    <2>5. Cardinality(Starters(j)) \in Nat /\ Cardinality(Starters(j)') \in Nat
      BY <2>3, FS_CardinalityType, Zenon
    <2> QED
      BY <2>4, <2>5, Thresholds DEF Reconstructible
  <1>9. FrozenSets'
    <2> SUFFICES ASSUME NEW k \in Nodes
                 PROVE  /\ myT'[k] # {} => k \in Live /\ myT'[k] \subseteq completed'[k]
                        /\ myA'[k] # {} =>
                              /\ myT'[k] # {}
                              /\ \A j \in myA'[k] : myT'[j] # {} /\ myT'[j] \subseteq myT'[k]
                        /\ myS'[k] # {} =>
                              /\ myA'[k] # {} /\ Cardinality(myS'[k]) >= N - T
                              /\ \A j \in myS'[k] : myA'[j] # {} /\ myA'[j] \subseteq myA'[k]
      BY <1>2, Zenon DEF FrozenSets
    <2>1. CASE k = i
      <3>1. myT'[k] = t /\ myA'[k] = a /\ myS'[k] = s
        BY <2>1, <1>1, Zenon DEF Inv, TypeOK
      <3>2. myT'[k] # {} => k \in Live /\ myT'[k] \subseteq completed'[k]
        BY <2>1, <3>1, <1>2, <1>3, Zenon
      <3>3. myA'[k] # {} => /\ myT'[k] # {}
                            /\ \A j \in myA'[k] : myT'[j] # {} /\ myT'[j] \subseteq myT'[k]
        BY <3>1, <1>2, <1>4, <1>7, Zenon
      <3>4. myS'[k] # {} => /\ myA'[k] # {} /\ Cardinality(myS'[k]) >= N - T
                            /\ \A j \in myS'[k] : myA'[j] # {} /\ myA'[j] \subseteq myA'[k]
        BY <3>1, <1>2, <1>5, <1>7, Zenon
      <3> QED
        BY <3>2, <3>3, <3>4, Zenon
    <2>2. CASE k # i
      <3>1. myT'[k] = myT[k] /\ myA'[k] = myA[k] /\ myS'[k] = myS[k]
        BY <2>2, <1>1, Zenon DEF Inv, TypeOK
      <3>2. myA[k] \subseteq Nodes /\ myS[k] \subseteq Nodes
        BY <1>2, Zenon DEF Inv, TypeOK
      <3>3. myT'[k] # {} => k \in Live /\ myT'[k] \subseteq completed'[k]
        BY <3>1, Zenon DEF Inv, FrozenSets, Handled
      <3>4. myA'[k] # {} => /\ myT'[k] # {}
                            /\ \A j \in myA'[k] : myT'[j] # {} /\ myT'[j] \subseteq myT'[k]
        BY <3>1, <3>2, <1>7, Zenon DEF Inv, FrozenSets
      <3>5. myS'[k] # {} => /\ myA'[k] # {} /\ Cardinality(myS'[k]) >= N - T
                            /\ \A j \in myS'[k] : myA'[j] # {} /\ myA'[j] \subseteq myA'[k]
        BY <3>1, <3>2, <1>7, Zenon DEF Inv, FrozenSets
      <3> QED
        BY <3>3, <3>4, <3>5, Zenon
    <2> QED
      BY <2>1, <2>2, Zenon
  <1>10. Deliveries'
    BY <1>2, <1>7, <1>8, Zenon DEF Deliveries, Handled
  <1>11. \A j \in Nodes : Final(j) => Final(j)' /\ myA'[j] = myA[j]
    BY <1>7, <1>8, Zenon DEF Final, Inv, FrozenSets
  <1>12. \A j \in Nodes : myA'[j] = myA[j] => CoinOf(myA[j])' = CoinOf(myA[j])
    BY Zenon DEF CoinOf, Handled
  <1>13. /\ coin' \in [Nodes -> {NoCoin, 0, 1}]
         /\ \A k \in Nodes \ {i} : coin'[k] = coin[k]
         /\ coin'[i] # NoCoin => \E j \in Nodes : Final(j) /\ coin'[i] = CoinOf(myA[j])
    <2> DEFINE final == {j \in receivedFinal'[i] : Decides(j, a, s, reconstructed'[i])}
    <2>1. coin' = coin \/ \E j \in final : coin' = [coin EXCEPT ![i] = CoinOf(myA[j])]
      BY Zenon DEF checkProgress, t, a, s
    <2>2. CASE coin' = coin
      BY <2>2, Zenon DEF Inv, TypeOK, Listens
    <2>3. ASSUME NEW j \in final, coin' = [coin EXCEPT ![i] = CoinOf(myA[j])]
          PROVE  <1>13!1 /\ <1>13!2 /\ <1>13!3
      <3>1. j \in Nodes /\ myS[j] # {} /\ myA[j] \subseteq reconstructed'[i]
        BY <1>2, Zenon DEF Handled, Decides
      <3>2. Final(j)
        BY <3>1, Zenon DEF Handled, Final
      <3>3. CoinOf(myA[j]) \in {0, 1}
        BY Zenon DEF CoinOf
      <3> QED
        BY <2>3, <3>1, <3>2, <3>3, Zenon DEF Inv, TypeOK
    <2> QED
      BY <2>1, <2>2, <2>3, Zenon
  <1>14. Coins'
    <2> SUFFICES ASSUME NEW k \in Nodes, coin'[k] # NoCoin
                 PROVE  \E j \in Nodes : Final(j)' /\ coin'[k] = CoinOf(myA[j])'
      BY Zenon DEF Coins, NoCoin
    <2>1. PICK j \in Nodes : Final(j) /\ coin'[k] = CoinOf(myA[j])
      BY <1>13 DEF Inv, Coins
    <2> QED
      BY <2>1, <1>11, <1>12, Zenon
  <1>15. TypeOK'
    <2>1. locked' \subseteq Live
      BY <1>2, Zenon DEF checkProgress, Inv, TypeOK
    <2>2. scenario' \in Scenarios
      BY Zenon DEF Handled, Inv, TypeOK
    <2> QED
      BY <2>1, <2>2, <1>2, <1>6, <1>13, Zenon DEF TypeOK, Handled
  <1> QED
    BY <1>9, <1>10, <1>14, <1>15, Zenon DEF Inv

-----------------------------------------------------------------------------

\* Nothing is formed, delivered or decided at the start of a round.
LEMMA InitInv == Init => Inv
  <1> SUFFICES ASSUME Init PROVE Inv
    BY Zenon
  <1>1. TypeOK
    BY Zenon DEF Init, TypeOK
  <1> QED
    BY <1>1, Zenon DEF Init, Inv, FrozenSets, Deliveries, Coins

\* Each handler only delivers what was sent, adds to one received set, and ends
\* with checkProgress; only that of a completed sharing runs with a mutex held.
LEMMA HandlersHandle ==
    ASSUME Inv, NEW i \in Nodes, Step(i)
    PROVE  /\ Handled /\ Grows /\ Listens(i)
           /\ \E held : Unshared(i, held) /\ checkProgress(i, held)
  <1> DEFINE Goal == /\ Handled /\ Grows /\ Listens(i)
                     /\ \E held : Unshared(i, held) /\ checkProgress(i, held)
  <1>0. PICK j \in Nodes :
            \/ \E idx \in Nodes : OnSharingComplete(i, j, idx)
            \/ OnAttach(i, j) \/ OnAccept(i, j) \/ OnFinal(i, j) \/ OnReconstructed(i, j)
    BY Zenon DEF Step
  <1>1. ASSUME NEW idx \in Nodes, OnSharingComplete(i, j, idx) PROVE Goal
    <2>1. UNCHANGED <<scenario, receivedT, receivedA, receivedFinal, reconstructed>>
      BY <1>1, Zenon DEF OnSharingComplete, checkProgress
    <2>2. /\ completed' \in [Nodes -> SUBSET Live]
          /\ \A k \in Nodes : completed[k] \subseteq completed'[k]
      BY <1>1, Zenon DEF OnSharingComplete, Inv, TypeOK
    <2>3. Handled
      BY <2>1, <2>2, Zenon DEF Handled, Inv, TypeOK, Deliveries
    <2>4. Grows
      BY <2>1, Zenon DEF Grows
    <2>5. Listens(i) /\ j \in Live \ completed[i] /\ checkProgress(i, {<<j, idx>>})
      BY <1>1, Zenon DEF OnSharingComplete
    <2>6. Unshared(i, {<<j, idx>>})
      BY <2>1, <2>5 DEF Unshared
    <2> QED
      BY <2>3, <2>4, <2>5, <2>6, Zenon
  <1>2. CASE OnAttach(i, j)
    <2>1. UNCHANGED <<scenario, completed, receivedA, receivedFinal, reconstructed>>
      BY <1>2, Zenon DEF OnAttach, checkProgress
    <2>2. j \in Live /\ myT[j] # {}
      BY <1>2, Zenon DEF OnAttach, Inv, FrozenSets
    <2>3. /\ receivedT' \in [Nodes -> SUBSET Live]
          /\ \A k \in Nodes : \A x \in receivedT'[k] : myT[x] # {}
          /\ \A k \in Nodes : receivedT[k] \subseteq receivedT'[k]
      BY <1>2, <2>2, Zenon DEF OnAttach, Inv, TypeOK, Deliveries
    <2>4. Handled
      BY <2>1, <2>3, Zenon DEF Handled, Inv, TypeOK, Deliveries
    <2>5. Grows
      BY <2>1, <2>3, Zenon DEF Grows
    <2>6. Listens(i) /\ checkProgress(i, {}) /\ Unshared(i, {})
      BY <1>2, Zenon DEF OnAttach, Unshared
    <2> QED
      BY <2>4, <2>5, <2>6, Zenon
  <1>3. CASE OnAccept(i, j)
    <2>1. UNCHANGED <<scenario, completed, receivedT, receivedFinal, reconstructed>>
      BY <1>3, Zenon DEF OnAccept, checkProgress
    <2>2. j \in Live /\ myA[j] # {}
      BY <1>3, Zenon DEF OnAccept, Inv, FrozenSets
    <2>3. /\ receivedA' \in [Nodes -> SUBSET Live]
          /\ \A k \in Nodes : \A x \in receivedA'[k] : myA[x] # {}
          /\ \A k \in Nodes : receivedA[k] \subseteq receivedA'[k]
      BY <1>3, <2>2, Zenon DEF OnAccept, Inv, TypeOK, Deliveries
    <2>4. Handled
      BY <2>1, <2>3, Zenon DEF Handled, Inv, TypeOK, Deliveries
    <2>5. Grows
      BY <2>1, <2>3, Zenon DEF Grows
    <2>6. Listens(i) /\ checkProgress(i, {}) /\ Unshared(i, {})
      BY <1>3, Zenon DEF OnAccept, Unshared
    <2> QED
      BY <2>4, <2>5, <2>6, Zenon
  <1>4. CASE OnFinal(i, j)
    <2>1. UNCHANGED <<scenario, completed, receivedT, receivedA, reconstructed>>
      BY <1>4, Zenon DEF OnFinal, checkProgress
    <2>2. j \in Live /\ myS[j] # {}
      BY <1>4, Zenon DEF OnFinal, Inv, FrozenSets
    <2>3. /\ receivedFinal' \in [Nodes -> SUBSET Live]
          /\ \A k \in Nodes : \A x \in receivedFinal'[k] : myS[x] # {}
          /\ \A k \in Nodes : receivedFinal[k] \subseteq receivedFinal'[k]
      BY <1>4, <2>2, Zenon DEF OnFinal, Inv, TypeOK, Deliveries
    <2>4. Handled
      BY <2>1, <2>3, Zenon DEF Handled, Inv, TypeOK, Deliveries
    <2>5. Grows
      BY <2>1, <2>3, Zenon DEF Grows
    <2>6. Listens(i) /\ checkProgress(i, {}) /\ Unshared(i, {})
      BY <1>4, Zenon DEF OnFinal, Unshared
    <2> QED
      BY <2>4, <2>5, <2>6, Zenon
  <1>5. CASE OnReconstructed(i, j)
    <2>1. UNCHANGED <<scenario, completed, receivedT, receivedA, receivedFinal>>
      BY <1>5, Zenon DEF OnReconstructed, checkProgress
    <2>2. j \in Live /\ Reconstructible(j)
      <3>1. Cardinality(Starters(j)) >= N - 2 * T
        BY <1>5, Zenon DEF OnReconstructed, Reconstructible
      <3>2. Cardinality({}) = 0
        BY FS_EmptySet, Zenon
      <3>3. ~ 0 >= N - 2 * T
        <4> HIDE DEF N
        <4> QED
          BY Thresholds
      <3>4. Starters(j) # {}
        BY <3>1, <3>2, <3>3, Zenon
      <3> QED
        BY <3>1, <3>4, ICCAssumption, Zenon DEF Starters, Inv, TypeOK, Live, Reconstructible
    <2>3. /\ reconstructed' \in [Nodes -> SUBSET Live]
          /\ \A k \in Nodes : \A x \in reconstructed'[k] : Reconstructible(x)
          /\ \A k \in Nodes : reconstructed[k] \subseteq reconstructed'[k]
      BY <1>5, <2>2, Zenon DEF OnReconstructed, Inv, TypeOK, Deliveries
    <2>4. Handled
      BY <2>1, <2>3, Zenon DEF Handled, Inv, TypeOK, Deliveries
    <2>5. Grows
      BY <2>1, <2>3, Zenon DEF Grows
    <2>6. Listens(i) /\ checkProgress(i, {}) /\ Unshared(i, {})
      BY <1>5, Zenon DEF OnReconstructed, Unshared
    <2> QED
      BY <2>4, <2>5, <2>6, Zenon
  <1> QED
    BY <1>0, <1>1, <1>2, <1>3, <1>4, <1>5, Zenon

\* No handler leaves the invariant.
LEMMA HandlersKeepInv ==
    ASSUME Inv, NEW i \in Nodes, Step(i)
    PROVE  Inv'
  <1>1. PICK held : Handled /\ Listens(i) /\ checkProgress(i, held)
    BY HandlersHandle, Zenon
  <1> QED
    BY <1>1, ProgressKeepsInv, Zenon

\* No step of any node, and no stuttering step, leaves the invariant.
LEMMA NextInv == Inv /\ [Next]_vars => Inv'
  <1> SUFFICES ASSUME Inv, [Next]_vars PROVE Inv'
    BY Zenon
  <1>1. CASE Next
    BY <1>1, HandlersKeepInv, Zenon DEF Next
  <1>2. CASE UNCHANGED vars
    <2> USE <1>2 DEF vars
    <2>1. Live' = Live
      BY Zenon DEF Live
    <2>2. TypeOK' /\ FrozenSets'
      BY <2>1 DEF Inv, TypeOK, FrozenSets
    <2>3. \A j : Reconstructible(j)' = Reconstructible(j)
      BY <2>1, Zenon DEF Reconstructible, Starters
    <2>4. Deliveries'
      BY <2>3, Zenon DEF Inv, Deliveries
    <2>5. \A j \in Nodes : Final(j)' = Final(j) /\ CoinOf(myA[j])' = CoinOf(myA[j])
      BY <2>3, Zenon DEF Final, CoinOf
    <2>6. Coins'
      BY <2>5, Zenon DEF Inv, Coins
    <2> QED
      BY <2>2, <2>4, <2>6, Zenon DEF Inv
  <1> QED
    BY <1>1, <1>2, Zenon

\* The inductive invariant holds throughout a round: sets are frozen as they
\* should be, deliveries were sent, and coins come from a reconstructible H.
THEOREM InvHolds == Safety => []Inv
  BY InitInv, NextInv, PTL DEF Safety

\* The state of a round keeps its types at every node, whatever the order in
\* which sharings, A-Casts and reconstructions are delivered.
THEOREM TypeCorrect == Safety => []TypeOK
  <1>1. Inv => TypeOK
    BY Zenon DEF Inv
  <1> QED
    BY <1>1, InvHolds, PTL

\* All nodes that output a coin output the same one: what checkDecision needs to
\* compute v_j forces j into the A_i of every node that has formed S_i.
THEOREM CoinAgreementHolds == Safety => []CoinAgreement
  <1>1. Inv => CoinAgreement
    <2> SUFFICES ASSUME Inv, NEW i \in Live, NEW j \in Live,
                        coin[i] # NoCoin, coin[j] # NoCoin
                 PROVE  coin[i] = coin[j]
      BY Zenon DEF CoinAgreement
    <2>1. i \in Nodes /\ j \in Nodes
      BY ICCAssumption, Zenon DEF Inv, TypeOK, Live
    <2>2. PICK x \in Nodes : Final(x) /\ coin[i] = CoinOf(myA[x])
      BY <2>1, Zenon DEF Inv, Coins
    <2>3. PICK y \in Nodes : Final(y) /\ coin[j] = CoinOf(myA[y])
      BY <2>1, Zenon DEF Inv, Coins
    <2> QED
      BY <2>2, <2>3, SameH, Zenon
  <1> QED
    BY <1>1, InvHolds, PTL

\* startReconstruction only calls StartReconstruction for secrets whose sharing
\* is complete at the node, so the error it ignores does not occur.
THEOREM SharedBeforeReconstructionHolds == Safety => []SharedBeforeReconstruction
  <1>1. Inv => SharedBeforeReconstruction
    <2> SUFFICES ASSUME Inv, NEW i \in Live, myS[i] # {}, NEW j \in myA[i]
                 PROVE  myT[j] # {} /\ myT[j] \subseteq completed[i]
      BY Zenon DEF SharedBeforeReconstruction
    <2>1. i \in Nodes
      BY ICCAssumption, Zenon DEF Inv, TypeOK, Live
    <2> QED
      BY <2>1, Zenon DEF Inv, FrozenSets
  <1> QED
    BY <1>1, InvHolds, PTL
-----------------------------------------------------------------------------

(***************************************************************************)
(* A round with n-t nodes does not come to rest without a coin: EndInv,    *)
(* and CoinEnds from it.                                                   *)
(***************************************************************************)

\* Nothing is formed at the start.
LEMMA InitEnd == Init => EndInv
  BY Zenon DEF Init, EndInv, Origins

\* A set that checkProgress returns is the old one, or a quorum of what it is
\* formed from.
LEMMA Formed ==
    ASSUME NEW i, NEW D, NEW t, NEW X, NEW a, NEW Y
    PROVE  /\ FormT(i, D) # {} =>
                 FormT(i, D) = myT[i] \/ (FormT(i, D) = D /\ Cardinality(D) >= N - T)
           /\ FormA(i, t, X) # {} =>
                 \/ FormA(i, t, X) = myA[i]
                 \/ Cardinality(FormA(i, t, X)) >= N - T /\ FormA(i, t, X) \subseteq X
           /\ FormS(i, a, Y) # {} => FormS(i, a, Y) = myS[i] \/ FormS(i, a, Y) \subseteq Y
  <1>1. FormT(i, D) # {} =>
            FormT(i, D) = myT[i] \/ (FormT(i, D) = D /\ Cardinality(D) >= N - T)
    BY Zenon DEF FormT, IfEnough
  <1>2. FormA(i, t, X) # {} =>
            \/ FormA(i, t, X) = myA[i]
            \/ Cardinality(FormA(i, t, X)) >= N - T /\ FormA(i, t, X) \subseteq X
    <2> DEFINE A == {j \in X : myT[j] \subseteq t}
    <2>1. FormA(i, t, X) \in {myA[i], {}} \/ (FormA(i, t, X) = A /\ Cardinality(A) >= N - T)
      BY Zenon DEF FormA, IfEnough
    <2> QED
      BY <2>1, Zenon
  <1>3. FormS(i, a, Y) # {} => FormS(i, a, Y) = myS[i] \/ FormS(i, a, Y) \subseteq Y
    <2> DEFINE S == {j \in Y : myA[j] \subseteq a}
    <2>1. FormS(i, a, Y) \in {myS[i], {}, S}
      BY Zenon DEF FormS, IfEnough
    <2> QED
      BY <2>1, Zenon
  <1> QED
    BY <1>1, <1>2, <1>3, Zenon

\* With n-t nodes, a quorum of them is all of them.
LEMMA AllOrNone ==
    ASSUME Inv, Cardinality(Live) = N - T, NEW X \in SUBSET Live, Cardinality(X) >= N - T
    PROVE  X = Live
  <1>1. IsFiniteSet(Live)
    BY ICCAssumption, FS_Subset, Zenon DEF Inv, TypeOK, Live
  <1>2. Cardinality(X) <= Cardinality(Live) /\ (Cardinality(X) = Cardinality(Live) => X = Live)
    BY <1>1, FS_Subset, Zenon
  <1>3. Cardinality(X) \in Nat /\ Cardinality(Live) \in Nat
    BY <1>1, FS_Subset, FS_CardinalityType, Zenon
  <1> HIDE DEF N
  <1> QED
    BY <1>2, <1>3, Thresholds

\* With n-t nodes, the sets are all formed from all of them.
LEMMA FormedAreLive ==
    ASSUME Inv, EndInv, Cardinality(Live) = N - T, NEW i \in Nodes
    PROVE  /\ myT[i] \in {{}, Live} /\ myA[i] \in {{}, Live} /\ myS[i] \in {{}, Live}
           /\ myT[i] # {} => completed[i] = Live
           /\ myA[i] # {} => receivedT[i] = Live /\ myT[i] # {}
           /\ myS[i] # {} => receivedA[i] = Live /\ myA[i] # {}
  <1>1. /\ myT[i] \in SUBSET Live /\ myA[i] \in SUBSET Live /\ myS[i] \in SUBSET Live
        /\ completed[i] \in SUBSET Live /\ receivedT[i] \in SUBSET Live /\ receivedA[i] \in SUBSET Live
    BY Zenon DEF Inv, TypeOK
  <1>2. /\ myT[i] # {} => Cardinality(myT[i]) >= N - T /\ myT[i] \subseteq completed[i]
        /\ myA[i] # {} =>
              Cardinality(myA[i]) >= N - T /\ myA[i] \subseteq receivedT[i] /\ myT[i] # {}
        /\ myS[i] # {} =>
              Cardinality(myS[i]) >= N - T /\ myS[i] \subseteq receivedA[i] /\ myA[i] # {}
    BY Zenon DEF EndInv, Origins, Inv, FrozenSets
  <1>3. /\ myT[i] # {} => myT[i] = Live
        /\ myA[i] # {} => myA[i] = Live
        /\ myS[i] # {} => myS[i] = Live
    BY <1>1, <1>2, AllOrNone, Zenon
  <1> QED
    BY <1>1, <1>2, <1>3, Zenon

\* checkProgress forms its sets from quorums of what was received, decides on a
\* FINAL that it received, and with n-t nodes never starts a reconstruction while
\* it holds a mutex.
LEMMA ProgressKeepsEnd ==
    ASSUME Inv, EndInv, Handled, Grows, NEW i \in Nodes, Listens(i),
           NEW held, Unshared(i, held), checkProgress(i, held)
    PROVE  EndInv'
  <1> DEFINE t == FormT(i, completed'[i])
             a == FormA(i, t, receivedT'[i])
             s == FormS(i, a, receivedA'[i])
  <1>1. /\ myT' = [myT EXCEPT ![i] = t]
        /\ myA' = [myA EXCEPT ![i] = a]
        /\ myS' = [myS EXCEPT ![i] = s]
    BY Zenon DEF checkProgress
  <1>2. Live' = Live /\ i \in Live /\ Live \subseteq Nodes
    BY ICCAssumption, Zenon DEF Handled, Listens, Live, Inv, TypeOK
  <1>3. /\ t # {} => t = myT[i] \/ (t = completed'[i] /\ Cardinality(completed'[i]) >= N - T)
        /\ a # {} => a = myA[i] \/ (Cardinality(a) >= N - T /\ a \subseteq receivedT'[i])
        /\ s # {} => s = myS[i] \/ s \subseteq receivedA'[i]
    <2>1. t # {} => t = myT[i] \/ (t = completed'[i] /\ Cardinality(completed'[i]) >= N - T)
      BY Formed, Zenon
    <2> HIDE DEF t
    <2>2. a # {} => a = myA[i] \/ (Cardinality(a) >= N - T /\ a \subseteq receivedT'[i])
      BY Formed, Zenon
    <2> HIDE DEF a
    <2>3. s # {} => s = myS[i] \/ s \subseteq receivedA'[i]
      BY Formed, Zenon
    <2> QED
      BY <2>1, <2>2, <2>3, Zenon
  <1>4. Origins(i)
    BY Zenon DEF EndInv
  <1>5. /\ t # {} => Cardinality(t) >= N - T
        /\ a # {} => Cardinality(a) >= N - T /\ a \subseteq receivedT'[i]
        /\ s # {} => s \subseteq receivedA'[i]
    <2> HIDE DEF t, a, s
    <2>1. receivedT[i] \subseteq receivedT'[i] /\ receivedA[i] \subseteq receivedA'[i]
      BY Zenon DEF Grows
    <2>2. t # {} => Cardinality(t) >= N - T
      BY <1>3, <1>4, Zenon DEF Origins
    <2>3. a # {} => Cardinality(a) >= N - T /\ a \subseteq receivedT'[i]
      <3>1. CASE a = myA[i]
        BY <1>4, <2>1, <3>1, Zenon DEF Origins
      <3>2. CASE a # myA[i]
        BY <1>3, <3>2, Zenon
      <3> QED
        BY <3>1, <3>2, Zenon
    <2>4. s # {} => s \subseteq receivedA'[i]
      BY <1>3, <1>4, <2>1, Zenon DEF Origins
    <2> QED
      BY <2>2, <2>3, <2>4, Zenon
  <1>6. /\ myA[i] # {} => a = myA[i]
        /\ myS[i] # {} => s = myS[i]
        /\ s # {} => a # {}
    BY Zenon DEF FormA, FormS, Inv, FrozenSets
  <1>7. ASSUME Cardinality(Live) = N - T
        PROVE  ~(myS[i] = {} /\ s # {} /\ held \intersect startReconstruction(a) # {})
    <2> SUFFICES ASSUME myS[i] = {}, s # {}, NEW p \in held, p \in startReconstruction(a) PROVE FALSE
      BY Zenon
    <2>1. p[1] \in Live \ completed[i] /\ receivedT' = receivedT
      BY Zenon DEF Unshared
    <2>2. myT[i] = {}
      BY <1>7, <2>1, FormedAreLive, Zenon
    <2>3. a # {} /\ Cardinality(a) >= N - T /\ a \subseteq receivedT[i]
      BY <1>5, <1>6, <2>1, Zenon
    <2>4. receivedT[i] \in SUBSET Live
      BY Zenon DEF Inv, TypeOK
    <2> HIDE DEF a
    <2>5. a = Live
      BY <1>7, <2>3, <2>4, AllOrNone, SMTT(30)
    <2>6. myT[i] # {}
      BY <1>2, <2>3, <2>5, Zenon DEF Inv, Deliveries
    <2> QED
      BY <2>2, <2>6, Zenon
  <1>8. Cardinality(Live') = N - T => locked' = {}
    <2> SUFFICES ASSUME Cardinality(Live) = N - T PROVE locked' = {}
      BY <1>2, Zenon
    <2>1. locked = {}
      BY Zenon DEF EndInv
    <2>2. locked' = IF myS[i] = {} /\ s # {} /\ held \intersect startReconstruction(a) # {}
                    THEN locked \union {i} ELSE locked
      BY Zenon DEF checkProgress
    <2> HIDE DEF t, a, s
    <2> QED
      BY <1>7, <2>1, <2>2, Zenon
  <1>9. /\ \A k \in Nodes \ {i} : coin'[k] = coin[k]
        /\ coin'[i] # NoCoin => \E j \in receivedFinal'[i] : Decides(j, a, s, reconstructed'[i])
    <2> DEFINE final == {j \in receivedFinal'[i] : Decides(j, a, s, reconstructed'[i])}
    <2>1. coin' = coin \/ \E j \in final : coin' = [coin EXCEPT ![i] = CoinOf(myA[j])]
      BY Zenon DEF checkProgress
    <2> HIDE DEF t, a, s
    <2> QED
      BY <2>1, Zenon DEF Inv, TypeOK, Listens
  <1>10. \A j \in Nodes : myS[j] # {} => myS'[j] = myS[j] /\ myA'[j] = myA[j]
    <2> HIDE DEF t, a, s
    <2> QED
      BY <1>1, <1>6, Zenon DEF Inv, TypeOK, FrozenSets
  <1> SUFFICES ASSUME NEW k \in Nodes PROVE Origins(k)'
    BY <1>8, Zenon DEF EndInv, N
  <1>11. CASE k = i
    <2> HIDE DEF t, a, s
    <2>1. myT'[i] = t /\ myA'[i] = a /\ myS'[i] = s
      BY <1>1, Zenon DEF Inv, TypeOK
    <2>2. coin'[i] # NoCoin =>
             \E j \in receivedFinal'[i] : Decides(j, myA[i], myS[i], reconstructed[i])'
      <3> SUFFICES ASSUME coin'[i] # NoCoin
                   PROVE  \E j \in receivedFinal'[i] : Decides(j, myA[i], myS[i], reconstructed[i])'
        BY Zenon
      <3>1. PICK j \in receivedFinal'[i] : Decides(j, a, s, reconstructed'[i])
        BY <1>9, Zenon
      <3>2. j \in Nodes /\ myS[j] # {}
        BY <1>2, Zenon DEF Handled
      <3>3. myS'[j] = myS[j] /\ myA'[j] = myA[j]
        BY <1>10, <3>2, Zenon
      <3> QED
        BY <2>1, <3>1, <3>3, Zenon DEF Decides
    <2> QED
      BY <1>5, <1>11, <2>1, <2>2, Zenon DEF Origins, NoCoin, N
  <1>12. CASE k # i
    <2> HIDE DEF t, a, s
    <2>1. /\ myT'[k] = myT[k] /\ myA'[k] = myA[k] /\ myS'[k] = myS[k] /\ coin'[k] = coin[k]
      BY <1>1, <1>9, <1>12, Zenon DEF Inv, TypeOK
    <2>2. /\ receivedT[k] \subseteq receivedT'[k] /\ receivedA[k] \subseteq receivedA'[k]
          /\ receivedFinal[k] \subseteq receivedFinal'[k] /\ reconstructed[k] \subseteq reconstructed'[k]
      BY Zenon DEF Grows
    <2>3. Origins(k)
      BY Zenon DEF EndInv
    <2>4. coin'[k] # NoCoin =>
             \E j \in receivedFinal'[k] : Decides(j, myA[k], myS[k], reconstructed[k])'
      <3> SUFFICES ASSUME coin'[k] # NoCoin
                   PROVE  \E j \in receivedFinal'[k] : Decides(j, myA[k], myS[k], reconstructed[k])'
        BY Zenon
      <3>1. PICK j \in receivedFinal[k] : Decides(j, myA[k], myS[k], reconstructed[k])
        BY <2>1, <2>3, Zenon DEF Origins
      <3>2. j \in receivedFinal'[k] /\ j \in Nodes /\ myS[j] # {}
        BY <1>2, <2>2, Zenon DEF Handled
      <3>3. myS'[j] = myS[j] /\ myA'[j] = myA[j]
        BY <1>10, <3>2, Zenon
      <3> QED
        BY <2>1, <2>2, <3>1, <3>2, <3>3, Zenon DEF Decides
    <2>5. /\ myT'[k] # {} => Cardinality(myT'[k]) >= N - T
          /\ myA'[k] # {} => Cardinality(myA'[k]) >= N - T /\ myA'[k] \subseteq receivedT'[k]
          /\ myS'[k] # {} => myS'[k] \subseteq receivedA'[k]
      BY <2>1, <2>2, <2>3, Zenon DEF Origins
    <2> QED
      BY <2>4, <2>5, Zenon DEF Origins, NoCoin, N
  <1> QED
    BY <1>11, <1>12, Zenon

\* No step of any node, and no stuttering step, leaves EndInv.
LEMMA NextEnd == Inv /\ EndInv /\ [Next]_vars => EndInv'
  <1> SUFFICES ASSUME Inv, EndInv, [Next]_vars PROVE EndInv'
    BY Zenon
  <1>1. ASSUME NEW i \in Nodes, Step(i) PROVE EndInv'
    <2>1. PICK held : /\ Handled /\ Grows /\ Listens(i)
                      /\ Unshared(i, held) /\ checkProgress(i, held)
      BY <1>1, HandlersHandle, Zenon
    <2> QED
      BY <2>1, ProgressKeepsEnd, Zenon
  <1>2. CASE UNCHANGED vars
    <2>1. UNCHANGED <<scenario, myT, myA, myS, receivedT, receivedA, receivedFinal,
                      reconstructed, coin, locked>>
      BY <1>2, Zenon DEF vars
    <2> QED
      BY <2>1 DEF EndInv, Origins, Decides, Live, N, NoCoin
  <1> QED
    BY <1>1, <1>2, Zenon DEF Next

\* EndInv holds throughout a round.
THEOREM EndInvHolds == Safety => []EndInv
  BY InitEnd, NextEnd, InvHolds, PTL DEF Safety

\* With n-t nodes, all of them are enough for each of the sets.
LEMMA LiveForms ==
    ASSUME Inv, EndInv, Cardinality(Live) = N - T, NEW i \in Nodes
    PROVE  /\ Live # {}
           /\ FormT(i, Live) = Live
           /\ FormA(i, Live, Live) = Live
           /\ FormS(i, Live, Live) = Live
  <1>1. Live # {}
    <2>1. Cardinality({}) = 0
      BY FS_EmptySet, Zenon
    <2> HIDE DEF N
    <2> QED
      BY <2>1, Thresholds
  <1>2. Live \subseteq Nodes /\ IfEnough(Live) = Live
    <2>1. Live \subseteq Nodes
      BY ICCAssumption, Zenon DEF Inv, TypeOK, Live
    <2>2. Cardinality(Live) \in Int
      <3> HIDE DEF N
      <3> QED
        BY Thresholds
    <2> HIDE DEF N
    <2> QED
      BY <2>1, <2>2 DEF IfEnough
  <1>3. \A j \in Nodes : myT[j] \in {{}, Live} /\ myA[j] \in {{}, Live} /\ myS[j] \in {{}, Live}
    BY FormedAreLive, Zenon
  <1>4. {j \in Live : myT[j] \subseteq Live} = Live /\ {j \in Live : myA[j] \subseteq Live} = Live
    BY <1>2, <1>3, Zenon
  <1>5. FormT(i, Live) = Live
    BY <1>2, <1>3, Zenon DEF FormT
  <1>6. FormA(i, Live, Live) = Live
    BY <1>1, <1>2, <1>3, <1>4, Zenon DEF FormA
  <1>7. FormS(i, Live, Live) = Live
    BY <1>1, <1>2, <1>3, <1>4, Zenon DEF FormS
  <1> QED
    BY <1>1, <1>5, <1>6, <1>7, Zenon

\* What is due is sent by live nodes.
LEMMA DueWithin ==
    ASSUME Inv, NEW k \in Live
    PROVE  /\ k \in Nodes
           /\ Due(Live, completed) = Live => completed[k] \union Due(Live, completed) = Live
           /\ \A S : Due(S, receivedT) = Live => receivedT[k] \union Due(S, receivedT) = Live
           /\ \A S : Due(S, receivedA) = Live => receivedA[k] \union Due(S, receivedA) = Live
           /\ \A S : Due(S, reconstructed) = Live =>
                        reconstructed[k] \union Due(S, reconstructed) = Live
  <1>1. k \in Nodes
    BY ICCAssumption, Zenon DEF Inv, TypeOK, Live
  <1>2. /\ completed[k] \in SUBSET Live /\ receivedT[k] \in SUBSET Live
        /\ receivedA[k] \in SUBSET Live /\ reconstructed[k] \in SUBSET Live
    BY <1>1, Zenon DEF Inv, TypeOK
  <1> QED
    BY <1>1, <1>2, Zenon

\* What the sets of a node at rest are, by what is due.
LEMMA RestForms ==
    ASSUME Inv, EndInv, Cardinality(Live) = N - T, AtRest, NEW k \in Live, Listens(k),
           Due(Live, completed) = Live
    PROVE  /\ myT[k] = Live
           /\ Due({j \in Live : myT[j] # {}}, receivedT) = Live =>
                /\ myA[k] = Live
                /\ Due({j \in Live : myA[j] # {}}, receivedA) = Live =>
                     /\ myS[k] = Live
                     /\ Due({j \in Live : Cardinality(Starters(j)) >= N - T}, reconstructed) = Live =>
                          \A j \in Due({j \in Live : myS[j] # {}}, receivedFinal) :
                             ~Decides(j, Live, Live, Live)
  <1> DEFINE dueT == Due({j \in Live : myT[j] # {}}, receivedT)
             dueA == Due({j \in Live : myA[j] # {}}, receivedA)
             dueF == Due({j \in Live : myS[j] # {}}, receivedFinal)
             dueR == Due({j \in Live : Cardinality(Starters(j)) >= N - T}, reconstructed)
             t == FormT(k, completed[k] \union Due(Live, completed))
             a == FormA(k, t, receivedT[k] \union dueT)
             s == FormS(k, a, receivedA[k] \union dueA)
  <1>1. /\ t = myT[k] /\ a = myA[k] /\ s = myS[k]
        /\ \A j \in receivedFinal[k] \union dueF : ~Decides(j, a, s, reconstructed[k] \union dueR)
    BY Zenon DEF AtRest
  <1>2. /\ k \in Nodes
        /\ completed[k] \union Due(Live, completed) = Live
        /\ dueT = Live => receivedT[k] \union dueT = Live
        /\ dueA = Live => receivedA[k] \union dueA = Live
        /\ dueR = Live => reconstructed[k] \union dueR = Live
    BY DueWithin, Zenon
  <1>3. /\ FormT(k, Live) = Live /\ FormA(k, Live, Live) = Live /\ FormS(k, Live, Live) = Live
    BY <1>2, LiveForms, Zenon
  <1> HIDE DEF dueT, dueA, dueF, dueR
  <1>4. t = Live
    BY <1>2, <1>3, Zenon
  <1> HIDE DEF t
  <1>5. dueT = Live => a = Live
    BY <1>2, <1>3, <1>4, Zenon
  <1> HIDE DEF a
  <1>6. dueT = Live /\ dueA = Live => s = Live
    BY <1>2, <1>3, <1>5, Zenon
  <1> HIDE DEF s
  <1>7. dueT = Live /\ dueA = Live /\ dueR = Live => \A j \in dueF : ~Decides(j, Live, Live, Live)
    BY <1>1, <1>2, <1>5, <1>6, Zenon
  <1>8. /\ myT[k] = Live
        /\ dueT = Live => /\ myA[k] = Live
                          /\ dueA = Live => /\ myS[k] = Live
                                            /\ dueR = Live => \A j \in dueF : ~Decides(j, Live, Live, Live)
    BY <1>1, <1>4, <1>5, <1>6, <1>7, Zenon
  <1> QED
    BY <1>8, Zenon DEF dueT, dueA, dueF, dueR

\* While no node has its coin, all that was sent is due, and the sets of all nodes
\* follow one after the other.
LEMMA NoneAtRest ==
    ASSUME Inv, EndInv, Cardinality(Live) = N - T, AtRest, \A x \in Live : Listens(x),
           NEW i \in Live
    PROVE  FALSE
  <1>1. \A S, R : Due(S, R) = S
    BY Zenon DEF Due
  <1>2. \A k \in Live : myT[k] = Live
    BY <1>1, RestForms, Zenon
  <1>3. Live # {} /\ Live \subseteq Nodes
    BY ICCAssumption, Zenon DEF Inv, TypeOK, Live
  <1>4. {j \in Live : myT[j] # {}} = Live
    BY <1>2, <1>3, Zenon
  <1>5. \A k \in Live : myA[k] = Live
    BY <1>1, <1>4, RestForms, ZenonT(30)
  <1>6. {j \in Live : myA[j] # {}} = Live
    BY <1>3, <1>5, Zenon
  <1>7. \A k \in Live : myS[k] = Live
    BY <1>1, <1>4, <1>6, RestForms, ZenonT(30)
  <1>8. {j \in Live : myS[j] # {}} = Live
    BY <1>3, <1>7, Zenon
  <1>9. \A j \in Live : Starters(j) = Live
    BY <1>3, <1>5, <1>7, Zenon DEF Starters
  <1>10. {j \in Live : Cardinality(Starters(j)) >= N - T} = Live
    <2>1. Cardinality(Live) >= N - T
      <3> HIDE DEF N
      <3> QED
        BY Thresholds
    <2> QED
      BY <1>9, <2>1, Zenon
  <1>11. ~Decides(i, Live, Live, Live)
    BY <1>1, <1>4, <1>6, <1>8, <1>10, RestForms, ZenonT(30)
  <1> QED
    BY <1>3, <1>5, <1>7, <1>11, Zenon DEF Decides

\* Once a node has its coin, all that it had received is due to the others, and
\* makes them decide on the same FINAL.
LEMMA DecidedEverywhere ==
    ASSUME Inv, EndInv, Cardinality(Live) = N - T, AtRest,
           NEW x \in Live, coin[x] # NoCoin, NEW i \in Live, Listens(i)
    PROVE  FALSE
  <1>1. \A S, R : Due(S, R) = Elsewhere(R)
    BY Zenon DEF Due, Listens
  <1>2. Live \subseteq Nodes /\ Live # {}
    BY ICCAssumption, Zenon DEF Inv, TypeOK, Live
  <1>3. PICK j \in receivedFinal[x] : Decides(j, myA[x], myS[x], reconstructed[x])
    BY <1>2, Zenon DEF EndInv, Origins
  <1>4. j \in Live /\ myS[j] # {}
    BY <1>2, Zenon DEF Inv, TypeOK, Deliveries
  <1>5. myS[j] = Live /\ myA[j] = Live
    BY <1>2, <1>4, FormedAreLive, Zenon
  <1>6. myA[x] # {} /\ myS[x] # {} /\ Live \subseteq reconstructed[x]
    BY <1>3, <1>5, Zenon DEF Decides
  <1>7. completed[x] = Live /\ receivedT[x] = Live /\ receivedA[x] = Live
    BY <1>2, <1>6, FormedAreLive, Zenon
  <1>8. /\ Elsewhere(completed) \subseteq Live /\ Elsewhere(receivedT) \subseteq Live
        /\ Elsewhere(receivedA) \subseteq Live /\ Elsewhere(reconstructed) \subseteq Live
    BY <1>2 DEF Elsewhere, Inv, TypeOK
  <1>9. /\ Elsewhere(completed) = Live /\ Elsewhere(receivedT) = Live
        /\ Elsewhere(receivedA) = Live /\ Elsewhere(reconstructed) = Live
        /\ j \in Elsewhere(receivedFinal)
    BY <1>6, <1>7, <1>8, Zenon DEF Elsewhere
  <1>10. ~Decides(j, Live, Live, Live)
    BY <1>1, <1>9, RestForms, Zenon
  <1> QED
    BY <1>2, <1>5, <1>10, Zenon DEF Decides

\* A round in which exactly n-t nodes take part does not come to rest before all of
\* them have a coin, for every n > 3t and every order of deliveries.
THEOREM CoinEndsHolds == Safety => []CoinEnds
  <1>1. Inv /\ EndInv => CoinEnds
    <2> SUFFICES ASSUME Inv, EndInv, Cardinality(Live) = N - T, AtRest,
                        NEW i \in Live, coin[i] = NoCoin
                 PROVE  FALSE
      BY Zenon DEF CoinEnds
    <2>1. \A x \in Live : coin[x] = NoCoin => Listens(x)
      BY Zenon DEF EndInv, Listens
    <2> QED
      BY <2>1, NoneAtRest, DecidedEverywhere, Zenon
  <1> QED
    BY <1>1, InvHolds, EndInvHolds, PTL
=============================================================================
