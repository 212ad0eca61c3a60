----------------------------- MODULE ABAProofs -----------------------------
(***************************************************************************)
(* Proofs about ABA for every set of nodes, every T with N > 3T, every     *)
(* number of rounds, any coins and any bits and COMPLETEs of the faulty    *)
(* nodes: agreement, validity, and that a sure value is never lost.        *)
(***************************************************************************)
EXTENDS ABA, FiniteSetTheorems, NaturalsInduction, WellFoundedInduction, TLAPS

\* A node has a result of every round it has left, and nothing of the rounds
\* it has not reached.
Past ==
    \A i \in Honest, r \in Rounds :
        /\ r < round[i] => voteOutput[r][i] # NoResult
        /\ r > round[i] => voteOutput[r][i] = NoResult /\ voteInput[r][i] = Null

\* The result in hand is that of a round the node has started.
InHand == \A i \in Honest : voteResult[i] # NoResult => round[i] \in Rounds

\* The vote result in hand is that of the node's round, and unless the node is
\* blocked only messages of later rounds are buffered.
VotesCurrent ==
    \A i \in Honest :
        /\ voteResult[i] # NoResult => voteResult[i] = voteOutput[round[i]][i]
        /\ \A r \in Rounds : futureMsgs[i][r] # <<>> => blocked[i] \/ r > round[i]

\* The coin in hand is that of the node's round; a node has had the coin of every
\* round it has left, and of no later one.
CoinsCurrent ==
    \A i \in Honest :
        /\ iccResult[i] # Null => round[i] \in Rounds /\ i \in iccDone[round[i]]
        /\ \A r \in Rounds : /\ r < round[i] => i \in iccDone[r]
                             /\ r > round[i] => i \notin iccDone[r]

\* What is buffered, and what is being dispatched, belongs to modelled rounds;
\* only a node that has started can be blocked.
Mailboxes ==
    \A i \in Honest :
        /\ blocked[i] => round[i] # 0
        /\ pending[i] # <<>> /\ ~blocked[i] => round[i] \in Rounds /\ round[i] < MaxRound
        /\ \A r \in Rounds : futureMsgs[i][r] # <<>> => r < MaxRound

\* Each round's vote is a graded vote.
Graded ==
    \A r \in Rounds, i, j \in Honest :
        voteOutput[r][i] # NoResult /\ voteOutput[r][j] # NoResult
            => Compatible(voteOutput[r][i], voteOutput[r][j])

Sure2(v) == [value |-> v, conf |-> 2]

\* All results of round r so far are for v.
Settled(r, v) ==
    \A j \in Honest :
        voteOutput[r][j] # NoResult => voteOutput[r][j].conf >= 1 /\ voteOutput[r][j].value = v

\* Nothing but v is left in round s.
Only(s, v) ==
    \A j \in Honest : voteInput[s][j] \in {v, Null} /\ voteOutput[s][j] \in {Sure2(v), NoResult}

\* A value that all results of a round are for is all that later rounds know.
Carried == \A r, s \in Rounds, v \in Bits : r < s /\ Settled(r, v) => Only(s, v)

\* A value all honest nodes begin with is all that any round knows.
Kept == \A v \in Bits : (\A i \in Honest : Initial(i) = v) => \A r \in Rounds : Only(r, v)

\* Some node has been sure of v.
SureOf(v) == \E r \in Rounds, j \in Honest : voteOutput[r][j] = Sure2(v)

\* COMPLETEs of honest nodes, and decisions, are for values some node was sure of.
Completes ==
    \A i \in Honest :
        /\ complete[i] # Null => SureOf(complete[i])
        /\ decision[i] # Null => SureOf(decision[i])
        /\ \A v \in Bits, j \in Honest : j \in completeCounts[i][v] => complete[j] = v

\* What DecisionEnds needs beyond Inv, of node i.  A round with both results is
\* over at once; an unblocked node has its result in hand and has brought a bit to
\* every round it has reached; it has sent COMPLETE if it was ever sure or has
\* decided; and it has decided once it counts enough COMPLETEs.
EndOK(i) ==
    /\ voteResult[i] = NoResult \/ iccResult[i] = Null
    /\ ~blocked[i] => \A r \in Rounds :
          /\ r = round[i] /\ voteOutput[r][i] # NoResult => voteResult[i] # NoResult
          /\ r <= round[i] => voteInput[r][i] # Null
    /\ \A r \in Rounds : r < round[i] /\ voteOutput[r][i].conf = 2 => complete[i] # Null
    /\ decision[i] # Null => complete[i] # Null
    /\ decision[i] = Null =>
          \A v \in Bits : Cardinality(completeCounts[i][v]) < CompleteThreshold

EndInv == \A i \in Honest : EndOK(i)

Inv ==
    /\ TypeOK /\ Past /\ InHand /\ Mailboxes /\ VotesCurrent /\ CoinsCurrent
    /\ Graded /\ Carried /\ Kept /\ Completes

-----------------------------------------------------------------------------

\* The faulty nodes alone do not make a quorum of COMPLETEs: among T + 1 nodes
\* one is honest.
LEMMA OneHonest ==
    ASSUME NEW X, X \subseteq Nodes, Cardinality(X) >= T + 1
    PROVE  \E j \in Honest : j \in X
  <1> SUFFICES ASSUME X \subseteq Faulty PROVE FALSE
    BY Zenon DEF Honest
  <1>1. IsFiniteSet(Faulty) /\ IsFiniteSet(X)
    BY ABAAssumption, FS_Subset, Zenon
  <1>2. Cardinality(X) <= Cardinality(Faulty)
    BY <1>1, FS_Subset, Zenon
  <1>3. Cardinality(X) \in Nat /\ Cardinality(Faulty) \in Nat
    BY <1>1, FS_CardinalityType, Zenon
  <1> QED
    BY <1>2, <1>3, ABAAssumption

\* If the honest bits of a round are all v, at most T bits differ from v and the
\* result is v, surely.
LEMMA UnanimousIsSure ==
    ASSUME NEW inputs, NEW p, Justified(p, inputs), NEW v \in Bits,
           \A j \in Honest : inputs[j] \in {v, Null}
    PROVE  p = Sure2(v)
  <1> DEFINE D == {i \in Started(inputs) : inputs[i] # v}
  <1>1. D \in SUBSET Faulty
    BY Zenon DEF Started, Honest
  <1>2. IsFiniteSet(Faulty)
    BY ABAAssumption, FS_Subset, Zenon
  <1>3. IsFiniteSet(D) /\ Cardinality(D) <= Cardinality(Faulty)
    BY <1>1, <1>2, FS_Subset, Zenon
  <1>4. Cardinality(D) \in Nat /\ Cardinality(Faulty) \in Nat
    BY <1>2, <1>3, FS_CardinalityType, Zenon
  <1>5. Cardinality(D) <= T
    BY <1>3, <1>4, ABAAssumption
  <1> QED
    BY <1>5, Zenon DEF Justified, Sure2

\* A node that is sure settles its round.
LEMMA SureSettles ==
    ASSUME TypeOK, Graded, NEW r \in Rounds, NEW i \in Honest, voteOutput[r][i].conf = 2
    PROVE  Settled(r, voteOutput[r][i].value)
  <1>1. voteOutput[r][i] # NoResult
    BY DEF NoResult
  <1> QED
    BY <1>1, Zenon DEF Settled, Graded, Compatible

\* A value some node was sure of, in whatever round, is the value of any round
\* that is settled with a result.
LEMMA SureIsSettled ==
    ASSUME TypeOK, Graded, Carried,
           NEW r \in Rounds, NEW v \in Bits, Settled(r, v),
           NEW i \in Honest, voteOutput[r][i] # NoResult,
           NEW d \in Bits, SureOf(d)
    PROVE  d = v
  <1>1. PICK q \in Rounds, j \in Honest : voteOutput[q][j] = Sure2(d)
    BY Zenon DEF SureOf
  <1>2. voteOutput[q][j] # NoResult /\ voteOutput[q][j].conf = 2 /\ voteOutput[q][j].value = d
    BY <1>1 DEF Sure2, NoResult
  <1>3. CASE q = r
    BY <1>2, <1>3, Zenon DEF Settled
  <1>4. CASE r < q
    <2>1. voteOutput[q][j] = Sure2(v)
      BY <1>4, <1>2, Zenon DEF Carried, Only
    <2> QED
      BY <1>1, <2>1 DEF Sure2
  <1>5. CASE q < r
    <2>1. Settled(q, d)
      BY <1>2, SureSettles, Zenon
    <2>2. voteOutput[r][i] = Sure2(d)
      BY <2>1, <1>5, Zenon DEF Carried, Only
    <2> QED
      BY <2>2 DEF Settled, Sure2
  <1> QED
    BY <1>3, <1>4, <1>5, ABAAssumption DEF Rounds

\* No two values are ever sure.
LEMMA OneSure ==
    ASSUME TypeOK, Graded, Carried, NEW v \in Bits, SureOf(v), NEW d \in Bits, SureOf(d)
    PROVE  d = v
  <1>1. PICK q \in Rounds, j \in Honest : voteOutput[q][j] = Sure2(v)
    BY Zenon DEF SureOf
  <1>2. voteOutput[q][j] # NoResult /\ voteOutput[q][j].conf = 2 /\ voteOutput[q][j].value = v
    BY <1>1 DEF Sure2, NoResult
  <1>3. Settled(q, v)
    BY <1>2, SureSettles, Zenon
  <1> QED
    BY <1>2, <1>3, SureIsSettled, Zenon

-----------------------------------------------------------------------------

\* Nothing has happened before Start.
LEMMA InitInv == Init => Inv
  <1> SUFFICES ASSUME Init PROVE Inv
    BY Zenon
  <1>1. TypeOK
    BY ABAAssumption DEF Init, TypeOK, Rounds
  <1>2. /\ \A i \in Honest : /\ round[i] = 0 /\ voteResult[i] = NoResult /\ ~blocked[i]
                             /\ pending[i] = <<>> /\ iccResult[i] = Null
                             /\ \A r \in Rounds : futureMsgs[i][r] = <<>>
        /\ \A i \in Honest, r \in Rounds :
              voteOutput[r][i] = NoResult /\ voteInput[r][i] = Null /\ i \notin iccDone[r]
    BY Zenon DEF Init, Honest
  <1>3. Past /\ CoinsCurrent
    BY <1>2, ABAAssumption DEF Past, CoinsCurrent, Rounds
  <1>4. InHand /\ Mailboxes /\ VotesCurrent /\ Graded
    BY <1>2, Zenon DEF InHand, Mailboxes, VotesCurrent, Graded
  <1>5. Carried /\ Kept
    BY <1>2, Zenon DEF Carried, Kept, Only
  <1>6. Completes
    BY Zenon DEF Init, Completes
  <1> QED
    BY <1>1, <1>3, <1>4, <1>5, <1>6, Zenon DEF Inv

\* The estimate that a node takes into the next round, when all that is left in
\* the round it leaves is v: neither a coin nor a decision can bring another.
LEMMA EstimateIsCarried ==
    ASSUME Inv, NEW i \in Honest, round[i] \in Rounds, NEW v \in Bits, NEW coin,
           voteResult[i] # NoResult, voteResult[i].conf >= 1, voteResult[i].value = v,
           decision[i] # Null => decision[i] = v
    PROVE  NextEstimate(i, voteResult[i], coin) = v
  <1>1. voteResult[i].conf \in {1, 2}
    BY DEF Inv, TypeOK, VoteResult, NoResult
  <1>2. CASE decision[i] = Null
    BY <1>1, <1>2, Zenon DEF NextEstimate
  <1>3. CASE decision[i] # Null
    BY <1>3, Zenon DEF NextEstimate, Inv, Completes
  <1> QED
    BY <1>2, <1>3, Zenon

-----------------------------------------------------------------------------

\* The steps that leave the votes of all rounds alone keep what follows from
\* them.
LEMMA VotesUnchanged ==
    ASSUME Inv, voteInput' = voteInput, voteOutput' = voteOutput
    PROVE  /\ Graded' /\ Carried'
           /\ \A v : SureOf(v)' = SureOf(v)
           /\ (\A i \in Honest : Initial(i)' = Initial(i)) => Kept'
  <1>1. Graded'
    BY Zenon DEF Inv, Graded
  <1>2. \A r, v : Settled(r, v)' = Settled(r, v) /\ Only(r, v)' = Only(r, v)
    BY ZenonT(30) DEF Settled, Only
  <1>3. Carried'
    BY <1>2, Zenon DEF Inv, Carried
  <1>4. (\A i \in Honest : Initial(i)' = Initial(i)) => Kept'
    BY <1>2, Zenon DEF Inv, Kept
  <1>5. \A v : SureOf(v)' = SureOf(v)
    BY Zenon DEF SureOf
  <1> QED
    BY <1>1, <1>3, <1>4, <1>5, Zenon

\* handleCompleteDelivery: a decision needs the COMPLETE of an honest node.
LEMMA CompleteKeepsInv ==
    ASSUME Inv, NEW i \in Honest, NEW j \in Nodes, NEW v \in Bits, OnComplete(i, j, v),
           j \in Honest => complete[j] = v
    PROVE  Inv'
  <1> DEFINE count == completeCounts[i][v] \union {j}
  <1>1. /\ UNCHANGED <<node, subs>>
        /\ completeCounts' = [completeCounts EXCEPT ![i][v] = count]
        /\ decision[i] = Null
    BY Zenon DEF OnComplete
  <1>2. UNCHANGED <<round, estimate, voteResult, iccResult, futureMsgs, pending, blocked,
                    voteInput, voteOutput, iccDone>>
    BY <1>1, Zenon DEF node, subs
  <1>3. count \subseteq Nodes /\ \A k \in Honest : k \in count => complete[k] = v
    BY DEF Inv, TypeOK, Completes
  <1>4. completeCounts' \in [Honest -> [Bits -> SUBSET Nodes]]
    BY <1>1, <1>3, Zenon DEF Inv, TypeOK
  <1>5. \A k \in Honest, b \in Bits :
            completeCounts'[k][b] = IF k = i /\ b = v THEN count ELSE completeCounts[k][b]
    BY <1>1, Zenon DEF Inv, TypeOK
  <1>6. /\ \/ decision' = decision
           \/ Cardinality(count) >= T + 1 /\ decision' = [decision EXCEPT ![i] = v]
        /\ \/ complete' = complete
           \/ /\ Cardinality(count) >= T + 1 /\ complete[i] = Null
              /\ complete' = [complete EXCEPT ![i] = v]
    BY Zenon DEF OnComplete, CompleteThreshold
  <1>7. Cardinality(count) >= T + 1 => SureOf(v)
    <2> SUFFICES ASSUME Cardinality(count) >= T + 1 PROVE SureOf(v)
      BY Zenon
    <2>1. PICK k \in Honest : k \in count
      BY <1>3, OneHonest, Zenon
    <2>2. complete[k] = v /\ v # Null
      BY <2>1, <1>3 DEF Bits, Null
    <2> QED
      BY <2>2, Zenon DEF Inv, Completes
  <1> HIDE DEF count
  <1>8. /\ decision' \in [Honest -> Bits \union {Null}]
        /\ \A k \in Honest : decision'[k] = decision[k] \/ (decision'[k] = v /\ SureOf(v))
    <2>1. decision \in [Honest -> Bits \union {Null}]
      BY Zenon DEF Inv, TypeOK
    <2> QED
      BY <2>1, <1>6, <1>7, Zenon
  <1>9. /\ complete' \in [Honest -> Bits \union {Null}]
        /\ \A k \in Honest : complete'[k] = complete[k] \/ (complete'[k] = v /\ SureOf(v))
        /\ \A k \in Honest : complete[k] # Null => complete'[k] = complete[k]
    <2>1. complete \in [Honest -> Bits \union {Null}]
      BY Zenon DEF Inv, TypeOK
    <2> QED
      BY <2>1, <1>6, <1>7, Zenon
  <1>10. TypeOK'
    BY <1>2, <1>4, <1>8, <1>9, Zenon DEF Inv, TypeOK
  <1>11. Past' /\ InHand' /\ Mailboxes' /\ VotesCurrent' /\ CoinsCurrent'
    BY <1>2, Zenon DEF Inv, Past, InHand, Mailboxes, VotesCurrent, CoinsCurrent
  <1>12. Graded' /\ Carried' /\ Kept' /\ \A b : SureOf(b)' = SureOf(b)
    BY <1>2, VotesUnchanged, Zenon DEF Initial
  <1>13. Completes'
    <2> SUFFICES ASSUME NEW k \in Honest
                 PROVE  /\ complete'[k] # Null => SureOf(complete'[k])
                        /\ decision'[k] # Null => SureOf(decision'[k])
                        /\ \A b \in Bits, l \in Honest :
                              l \in completeCounts'[k][b] => complete'[l] = b
      BY <1>12, Zenon DEF Completes
    <2>1. complete'[k] # Null => SureOf(complete'[k])
      BY <1>9, Zenon DEF Inv, Completes
    <2>2. decision'[k] # Null => SureOf(decision'[k])
      BY <1>8, Zenon DEF Inv, Completes
    <2>3. ASSUME NEW b \in Bits, NEW l \in Honest, l \in completeCounts'[k][b]
          PROVE  complete'[l] = b
      <3>1. complete[l] = b
        BY <2>3, <1>3, <1>5 DEF Inv, Completes
      <3>2. b # Null
        BY DEF Bits, Null
      <3> QED
        BY <3>1, <3>2, <1>9, Zenon
    <2> QED
      BY <2>1, <2>2, <2>3, Zenon
  <1> QED
    BY <1>10, <1>11, <1>12, <1>13, Zenon DEF Inv

\* What checkRoundProgress does to the COMPLETEs: one more, for a sure value.
Announces(i) ==
    \/ complete' = complete
    \/ /\ complete[i] = Null
       /\ \E c \in Bits : SureOf(c)' /\ complete' = [complete EXCEPT ![i] = c]

\* The COMPLETEs after that are still for sure values.
LEMMA AnnouncesKeepsCompletes ==
    ASSUME Inv, NEW i \in Honest, Announces(i), decision' = decision,
           completeCounts' = completeCounts, \A v : SureOf(v) => SureOf(v)'
    PROVE  Completes' /\ complete' \in [Honest -> Bits \union {Null}]
  <1>1. complete \in [Honest -> Bits \union {Null}]
    BY Zenon DEF Inv, TypeOK
  <1>2. /\ complete' \in [Honest -> Bits \union {Null}]
        /\ \A k \in Honest : complete'[k] = complete[k] \/ \E c \in Bits : complete'[k] = c /\ SureOf(c)'
        /\ \A k \in Honest : complete[k] # Null => complete'[k] = complete[k]
    <2>1. CASE complete' = complete
      BY <1>1, <2>1, Zenon
    <2>2. ASSUME complete[i] = Null, NEW c \in Bits, SureOf(c)', complete' = [complete EXCEPT ![i] = c]
          PROVE  <1>2!1 /\ <1>2!2 /\ <1>2!3
      <3>1. complete'[i] = c /\ \A k \in Honest \ {i} : complete'[k] = complete[k]
        BY <1>1, <2>2, Zenon
      <3>2. complete' \in [Honest -> Bits \union {Null}]
        BY <1>1, <2>2, Zenon
      <3> QED
        BY <2>2, <3>1, <3>2, Zenon
    <2> QED
      BY <2>1, <2>2, Zenon DEF Announces
  <1>3. ASSUME NEW k \in Honest
        PROVE  /\ (complete[k] # Null => SureOf(complete[k]))'
               /\ (decision[k] # Null => SureOf(decision[k]))'
               /\ \A b \in Bits, l \in Honest :
                     l \in completeCounts'[k][b] => complete'[l] = b
    <2>1. (complete[k] # Null => SureOf(complete[k]))'
      <3>1. CASE complete'[k] = complete[k]
        <4>1. complete[k] # Null => SureOf(complete[k])
          BY Zenon DEF Inv, Completes
        <4> QED
          BY <3>1, <4>1 DEF SureOf
      <3>2. ASSUME NEW c \in Bits, complete'[k] = c, SureOf(c)' PROVE SureOf(complete[k])'
        BY <3>2, Zenon DEF SureOf
      <3> QED
        BY <3>1, <3>2, <1>2, Zenon
    <2>2. (decision[k] # Null => SureOf(decision[k]))'
      <3>1. decision[k] # Null => SureOf(decision[k])
        BY Zenon DEF Inv, Completes
      <3> QED
        BY <3>1, Zenon DEF SureOf
    <2>3. ASSUME NEW b \in Bits, NEW l \in Honest, l \in completeCounts'[k][b]
          PROVE  complete'[l] = b
      <3>1. complete[l] = b
        BY <2>3, Zenon DEF Inv, Completes
      <3>2. b # Null
        BY DEF Bits, Null
      <3> QED
        BY <3>1, <3>2, <1>2, Zenon
    <2> QED
      BY <2>1, <2>2, <2>3, Zenon
  <1> QED
    BY <1>2, <1>3, Zenon DEF Completes

\* startRound: a node enters the round after its own with an estimate that
\* follows from what is settled.
LEMMA EnterKeepsInv ==
    ASSUME Inv, NEW i \in Honest, ~blocked[i], NEW r \in Rounds, r = round[i] + 1,
           round[i] \in Rounds => voteOutput[round[i]][i] # NoResult,
           iccDone' \in [Rounds -> SUBSET Honest],
           \A s \in Rounds, j \in Honest :
              j \in iccDone'[s] <=> j \in iccDone[s] \/ (s = round[i] /\ j = i),
           NEW e \in Bits, StartRound(i, r, e),
           voteOutput' = voteOutput, decision' = decision, completeCounts' = completeCounts,
           Announces(i),
           \A q \in Rounds, v \in Bits : q < r /\ Settled(q, v) => e = v,
           \A v \in Bits : (\A j \in Honest : Initial(j) = v) => e = v,
           round[i] = 0 => e = estimate[i]
    PROVE  Inv'
  <1>1. /\ \A j \in Honest : round'[j] = IF j = i THEN r ELSE round[j]
        /\ \A j \in Honest : estimate'[j] = IF j = i THEN e ELSE estimate[j]
        /\ \A j \in Honest : voteResult'[j] = IF j = i THEN NoResult ELSE voteResult[j]
        /\ \A j \in Honest : iccResult'[j] = IF j = i THEN Null ELSE iccResult[j]
        /\ \A s \in Rounds, j \in Nodes :
              voteInput'[s][j] = IF s = r /\ j = i THEN e ELSE voteInput[s][j]
        /\ \A j \in Honest : pending'[j] = IF j = i THEN futureMsgs[i][r] ELSE pending[j]
        /\ \A s \in Rounds, j \in Honest :
              futureMsgs'[j][s] = IF s = r /\ j = i THEN <<>> ELSE futureMsgs[j][s]
        /\ blocked' = blocked
    BY ZenonT(30) DEF StartRound, Inv, TypeOK, Honest
  <1>2. round[i] \in 0..MaxRound /\ \A j \in Honest : round[j] \in 0..MaxRound
    BY Zenon DEF Inv, TypeOK
  <1>3. Completes' /\ complete' \in [Honest -> Bits \union {Null}]
    BY AnnouncesKeepsCompletes, Zenon DEF SureOf
  <1>4. TypeOK'
    <2>1. /\ round' \in [Honest -> 0..MaxRound]
          /\ estimate' \in [Honest -> Bits]
          /\ voteResult' \in [Honest -> VoteResult \union {NoResult}]
          /\ iccResult' \in [Honest -> Bits \union {Null}]
      BY ABAAssumption, SMTT(30) DEF StartRound, Inv, TypeOK, Rounds
    <2>2. /\ pending' \in [Honest -> Seq(Kinds)]
          /\ voteInput' \in [Rounds -> [Nodes -> Bits \union {Null}]]
      BY DEF StartRound, Inv, TypeOK, Honest
    <2>3. futureMsgs' \in [Honest -> [Rounds -> Seq(Kinds)]]
      <3>1. <<>> \in Seq(Kinds)
        OBVIOUS
      <3> QED
        BY <3>1, Zenon DEF StartRound, Inv, TypeOK
    <2> QED
      BY <1>1, <1>3, <2>1, <2>2, <2>3, Zenon DEF Inv, TypeOK
  <1>5. Past'
    <2> SUFFICES ASSUME NEW j \in Honest, NEW s \in Rounds
                 PROVE  /\ s < round'[j] => voteOutput[s][j] # NoResult
                        /\ s > round'[j] => voteOutput[s][j] = NoResult /\ voteInput'[s][j] = Null
      BY Zenon DEF Past
    <2>1. CASE j # i
      BY <1>1, <2>1 DEF Inv, Past, Honest
    <2>2. CASE j = i
      <3>1. s < r => s < round[i] \/ s = round[i]
        BY <1>2, ABAAssumption DEF Rounds
      <3>2. s > r => s > round[i] /\ s # r
        BY <1>2, ABAAssumption, SMTT(30) DEF Rounds
      <3> QED
        BY <1>1, <2>2, <3>1, <3>2, SMTT(30) DEF Inv, Past, Honest
    <2> QED
      BY <2>1, <2>2, Zenon
  <1>6. InHand'
    BY <1>1, Zenon DEF Inv, InHand
  <1>7. Mailboxes'
    <2>1. r # 0
      BY ABAAssumption, SMTT(30) DEF Rounds
    <2> QED
      BY <1>1, <2>1 DEF Inv, Mailboxes
  <1>8. VotesCurrent'
    <2> SUFFICES ASSUME NEW j \in Honest
                 PROVE  /\ voteResult'[j] # NoResult => voteResult'[j] = voteOutput[round'[j]][j]
                        /\ \A s \in Rounds :
                              futureMsgs'[j][s] # <<>> => blocked[j] \/ s > round'[j]
      BY <1>1, Zenon DEF VotesCurrent
    <2>1. CASE j # i
      <3>1. /\ voteResult'[j] = voteResult[j] /\ round'[j] = round[j]
            /\ \A s \in Rounds : futureMsgs'[j][s] = futureMsgs[j][s]
        BY <1>1, <2>1, Zenon
      <3>2. VotesCurrent
        BY Zenon DEF Inv
      <3> QED
        BY <3>1, <3>2, Zenon DEF VotesCurrent
    <2>2. CASE j = i
      <3>1. \A s \in Rounds : s > round[i] /\ s # r => s > r
        BY <1>2, ABAAssumption, SMTT(30) DEF Rounds
      <3> QED
        BY <1>1, <2>2, <3>1, ZenonT(30) DEF Inv, VotesCurrent
    <2> QED
      BY <2>1, <2>2, Zenon
  <1>13. CoinsCurrent'
    <2> SUFFICES ASSUME NEW j \in Honest
                 PROVE  /\ iccResult'[j] # Null => round'[j] \in Rounds /\ j \in iccDone'[round'[j]]
                        /\ \A s \in Rounds : /\ s < round'[j] => j \in iccDone'[s]
                                             /\ s > round'[j] => j \notin iccDone'[s]
      BY Zenon DEF CoinsCurrent
    <2>1. CASE j # i
      <3>1. /\ iccResult'[j] = iccResult[j] /\ round'[j] = round[j]
            /\ \A s \in Rounds : j \in iccDone'[s] <=> j \in iccDone[s]
        BY <1>1, <2>1, Zenon
      <3> QED
        BY <3>1, Zenon DEF Inv, CoinsCurrent
    <2>2. CASE j = i
      <3>1. iccResult'[i] = Null /\ round'[i] = r
        BY <1>1, Zenon
      <3>2. \A s \in Rounds : /\ s < r => s < round[i] \/ s = round[i]
                              /\ s > r => s > round[i] /\ s # round[i]
        BY <1>2, ABAAssumption, SMTT(30) DEF Rounds
      <3>3. \A s \in Rounds : /\ s < round[i] => i \in iccDone[s]
                              /\ s > round[i] => i \notin iccDone[s]
        BY Zenon DEF Inv, CoinsCurrent
      <3>4. ASSUME NEW s \in Rounds, s < r PROVE i \in iccDone'[s]
        BY <3>2, <3>3, <3>4, Zenon
      <3>5. ASSUME NEW s \in Rounds, s > r PROVE i \notin iccDone'[s]
        BY <3>2, <3>3, <3>5, Zenon
      <3> QED
        BY <2>2, <3>1, <3>4, <3>5, Zenon
    <2> QED
      BY <2>1, <2>2, Zenon
  <1>9. \A s \in Rounds, v \in Bits : Only(s, v) /\ (s = r => e = v) => Only(s, v)'
    <2> SUFFICES ASSUME NEW s \in Rounds, NEW v \in Bits, Only(s, v), s = r => e = v, NEW j \in Honest
                 PROVE  voteInput'[s][j] \in {v, Null} /\ voteOutput'[s][j] \in {Sure2(v), NoResult}
      BY Zenon DEF Only
    <2>1. voteInput[s][j] \in {v, Null} /\ voteOutput[s][j] \in {Sure2(v), NoResult}
      BY Zenon DEF Only
    <2>2. j \in Nodes
      BY Zenon DEF Honest
    <2>3. voteInput'[s][j] = IF s = r /\ j = i THEN e ELSE voteInput[s][j]
      BY <1>1, <2>2, Zenon
    <2> QED
      BY <2>1, <2>3, Zenon
  <1>10. Carried'
    <2> SUFFICES ASSUME NEW q \in Rounds, NEW s \in Rounds, NEW v \in Bits, q < s, Settled(q, v)'
                 PROVE  Only(s, v)'
      BY Zenon DEF Carried
    <2>1. Settled(q, v)
      BY Zenon DEF Settled
    <2>2. Only(s, v)
      BY <2>1, Zenon DEF Inv, Carried
    <2>3. s = r => e = v
      BY <2>1, Zenon
    <2> QED
      BY <1>9, <2>2, <2>3, Zenon
  <1>11. Kept'
    <2>1. \A j \in Honest : Initial(j)' = Initial(j)
      <3>1. 1 \in Rounds /\ (round[i] # 0 => r # 1) /\ r # 0 /\ (round[i] = 0 => r = 1)
        BY <1>2, ABAAssumption, SMTT(30) DEF Rounds
      <3> QED
        BY <1>1, <3>1, SMTT(30) DEF Initial, Honest
    <2>2. ASSUME NEW v \in Bits, \A j \in Honest : Initial(j)' = v, NEW s \in Rounds
          PROVE  Only(s, v)'
      <3>1. \A j \in Honest : Initial(j) = v
        BY <2>1, <2>2, Zenon
      <3>2. e = v
        BY <3>1, Zenon
      <3>3. Only(s, v)
        BY <3>1, Zenon DEF Inv, Kept
      <3> QED
        BY <1>9, <3>2, <3>3, Zenon
    <2> QED
      BY <2>2, Zenon DEF Kept
  <1>12. Graded'
    BY Zenon DEF Inv, Graded
  <1> QED
    BY <1>3, <1>4, <1>5, <1>6, <1>7, <1>8, <1>10, <1>11, <1>12, <1>13, Zenon DEF Inv

\* Vote's SendResult: a result that its round justifies keeps rounds graded and
\* settled values settled, whether it is kept for the coin or ends the round.
LEMMA VoteKeepsInv ==
    ASSUME Inv, NEW i \in Honest, ~blocked[i], round[i] \in Rounds, round[i] < MaxRound,
           NEW p \in VoteResult, NEW rest \in Seq(Kinds), DispatchVote(i, round[i], p, rest)
    PROVE  Inv'
  <1> DEFINE r == round[i]
  <1>1. /\ voteOutput[r][i] = NoResult
        /\ Justified(p, voteInput[r])
        /\ \A j \in Honest : voteOutput[r][j] # NoResult => Compatible(p, voteOutput[r][j])
        /\ voteOutput' = [voteOutput EXCEPT ![r][i] = p]
        /\ pending' = [pending EXCEPT ![i] = rest]
        /\ decision' = decision /\ completeCounts' = completeCounts /\ iccDone' = iccDone
    BY Zenon DEF DispatchVote
  <1>2. voteInput' = voteInput /\ futureMsgs' = futureMsgs
    BY Zenon DEF DispatchVote, StartRoundBlocks
  <1>3. \A s \in Rounds, j \in Honest :
            voteOutput'[s][j] = IF s = r /\ j = i THEN p ELSE voteOutput[s][j]
    BY <1>1, Zenon DEF Inv, TypeOK
  <1>4. p # NoResult /\ p.conf \in {0, 1, 2} /\ Compatible(p, p)
    BY SMTT(30) DEF VoteResult, NoResult, Compatible
  <1>5. Graded'
    <2> SUFFICES ASSUME NEW s \in Rounds, NEW j \in Honest, NEW k \in Honest,
                        voteOutput'[s][j] # NoResult, voteOutput'[s][k] # NoResult
                 PROVE  Compatible(voteOutput'[s][j], voteOutput'[s][k])
      BY DEF Graded, Compatible
    <2>1. CASE s = r /\ j = i
      BY <2>1, <1>1, <1>3, <1>4, SMTT(30)
    <2>2. CASE s = r /\ k = i /\ j # i
      <3>1. Compatible(p, voteOutput[r][j])
        BY <2>2, <1>1, <1>3, SMTT(30)
      <3> QED
        BY <2>2, <3>1, <1>3, Zenon DEF Compatible
    <2>3. CASE s # r \/ (j # i /\ k # i)
      BY <2>3, <1>3, SMTT(30) DEF Inv, Graded
    <2> QED
      BY <2>1, <2>2, <2>3, Zenon
  <1>6. \A s \in Rounds, v \in Bits : Settled(s, v)' => Settled(s, v)
    BY <1>1, <1>3, SMTT(30) DEF Settled
  <1>7. \A s \in Rounds, v \in Bits : Only(s, v) => Only(s, v)'
    <2> SUFFICES ASSUME NEW s \in Rounds, NEW v \in Bits, Only(s, v) PROVE Only(s, v)'
      BY Zenon
    <2>1. s = r => p = Sure2(v)
      BY <1>1, UnanimousIsSure DEF Only
    <2> QED
      BY <1>2, <1>3, <2>1, Zenon DEF Only
  <1>8. Carried'
    BY <1>6, <1>7, Zenon DEF Inv, Carried
  <1>9. \A v : SureOf(v) => SureOf(v)'
    <2> SUFFICES ASSUME NEW v, NEW s \in Rounds, NEW j \in Honest, voteOutput[s][j] = Sure2(v)
                 PROVE  voteOutput'[s][j] = Sure2(v)
      BY Zenon DEF SureOf
    <2>1. Sure2(v) # NoResult
      BY DEF Sure2, NoResult
    <2> QED
      BY <1>1, <1>3, <2>1, SMTT(30)
  <1>10. p.conf = 2 => p.value \in Bits /\ SureOf(p.value)'
    <2> SUFFICES ASSUME p.conf = 2 PROVE p.value \in Bits /\ SureOf(p.value)'
      BY Zenon
    <2>1. p.value \in Bits /\ p = Sure2(p.value)
      BY DEF VoteResult, Sure2
    <2>2. voteOutput'[r][i] = p
      BY <1>3, Zenon
    <2> QED
      BY <2>1, <2>2, Zenon DEF SureOf
  <1>11. voteOutput' \in [Rounds -> [Honest -> VoteResult \union {NoResult}]]
    BY <1>1, Zenon DEF Inv, TypeOK
  <1>12. pending' \in [Honest -> Seq(Kinds)]
    BY <1>1, Zenon DEF Inv, TypeOK
  <1>13. round \in [Honest -> 0..MaxRound] /\ r \in Rounds /\ r + 1 \in Rounds
    BY ABAAssumption, SMTT(30) DEF Inv, TypeOK, Rounds
  <1>14. CASE iccResult[i] = Null
    <2>1. /\ voteResult' = [voteResult EXCEPT ![i] = p]
          /\ UNCHANGED <<round, estimate, iccResult, blocked, complete>>
      BY <1>14, Zenon DEF DispatchVote
    <2>2. Completes' /\ complete' \in [Honest -> Bits \union {Null}]
      BY <1>1, <1>9, <2>1, AnnouncesKeepsCompletes, Zenon DEF Announces
    <2>3. TypeOK'
      BY <1>1, <1>2, <1>11, <1>12, <2>1, Zenon DEF Inv, TypeOK
    <2>4. Past'
      <3> SUFFICES ASSUME NEW j \in Honest, NEW s \in Rounds
                   PROVE  /\ s < round[j] => voteOutput'[s][j] # NoResult
                          /\ s > round[j] => voteOutput'[s][j] = NoResult /\ voteInput[s][j] = Null
        BY <1>2, <2>1, Zenon DEF Past
      <3>1. CASE j # i \/ s # r
        BY <1>3, <3>1, Zenon DEF Inv, Past
      <3>2. CASE j = i /\ s = r
        <4>1. ~(s < round[j]) /\ ~(s > round[j])
          BY <1>13, <3>2, ABAAssumption DEF Rounds
        <4> QED
          BY <4>1, Zenon
      <3> QED
        BY <3>1, <3>2, Zenon
    <2>5. \A j \in Honest : /\ voteResult'[j] = IF j = i THEN p ELSE voteResult[j]
                            /\ pending'[j] = IF j = i THEN rest ELSE pending[j]
      BY <1>1, <2>1, Zenon DEF Inv, TypeOK
    <2>6. InHand'
      BY <2>1, <2>5, Zenon DEF Inv, InHand
    <2>9. Mailboxes' /\ CoinsCurrent'
      BY <1>1, <1>2, <2>1, <2>5, Zenon DEF Inv, Mailboxes, CoinsCurrent
    <2>7. VotesCurrent'
      <3> SUFFICES ASSUME NEW j \in Honest, voteResult'[j] # NoResult
                   PROVE  voteResult'[j] = voteOutput'[round[j]][j]
        BY <1>2, <2>1, Zenon DEF Inv, VotesCurrent
      <3> QED
        BY <1>3, <2>5, SMTT(30) DEF Inv, VotesCurrent, InHand
    <2>8. Kept'
      BY <1>2, <1>7, <2>1, Zenon DEF Inv, Kept, Initial
    <2> QED
      BY <1>5, <1>8, <2>2, <2>3, <2>4, <2>6, <2>7, <2>8, <2>9, Zenon DEF Inv
  <1>15. CASE iccResult[i] # Null
    <2> DEFINE e == NextEstimate(i, p, iccResult[i])
    <2>1. /\ complete' = NextComplete(i, p)
          /\ StartRoundBlocks(i, r + 1, e)
      BY <1>15, Zenon DEF DispatchVote
    <2>2. e \in Bits
      <3>1. decision[i] \in Bits \union {Null} /\ iccResult[i] \in Bits
        BY <1>15, Zenon DEF Inv, TypeOK
      <3> QED
        BY <3>1 DEF NextEstimate, VoteResult
    <2>3. Announces(i)
      BY <1>10, <2>1, Zenon DEF NextComplete, Announces
    <2>4. Completes' /\ complete' \in [Honest -> Bits \union {Null}]
      BY <1>1, <1>9, <2>3, AnnouncesKeepsCompletes, Zenon
    <2> HIDE DEF e
    <2>5. /\ \A j \in Honest : round'[j] = IF j = i THEN r + 1 ELSE round[j]
          /\ \A j \in Honest : voteResult'[j] = IF j = i THEN NoResult ELSE voteResult[j]
          /\ \A j \in Honest : iccResult'[j] = IF j = i THEN Null ELSE iccResult[j]
          /\ \A j \in Honest : blocked'[j] = IF j = i THEN TRUE ELSE blocked[j]
          /\ \A j \in Honest : pending'[j] = IF j = i THEN rest ELSE pending[j]
      BY <1>1, <2>1, Zenon DEF StartRoundBlocks, Inv, TypeOK
    <2>6. TypeOK'
      <3>1. /\ round' \in [Honest -> 0..MaxRound]
            /\ estimate' \in [Honest -> Bits]
            /\ voteResult' \in [Honest -> VoteResult \union {NoResult}]
            /\ iccResult' \in [Honest -> Bits \union {Null}]
            /\ blocked' \in [Honest -> BOOLEAN]
        BY <2>1, <2>2, <1>13, ABAAssumption, SMTT(30) DEF StartRoundBlocks, Inv, TypeOK, Rounds
      <3> QED
        BY <1>1, <1>2, <1>11, <1>12, <2>4, <3>1, ZenonT(30) DEF Inv, TypeOK
    <2>7. Past'
      <3> SUFFICES ASSUME NEW j \in Honest, NEW s \in Rounds
                   PROVE  /\ s < round'[j] => voteOutput'[s][j] # NoResult
                          /\ s > round'[j] => voteOutput'[s][j] = NoResult /\ voteInput[s][j] = Null
        BY <1>2, Zenon DEF Past
      <3>1. CASE j # i
        <4>1. round'[j] = round[j] /\ voteOutput'[s][j] = voteOutput[s][j]
          BY <1>3, <2>5, <3>1, ZenonT(30)
        <4> QED
          BY <4>1, Zenon DEF Inv, Past
      <3>2. CASE j = i
        <4>1. /\ s < r + 1 => s < r \/ s = r
              /\ s > r + 1 => s > r /\ s # r
          BY <1>13, ABAAssumption DEF Rounds
        <4> QED
          BY <1>3, <1>4, <2>5, <3>2, <4>1, SMTT(30) DEF Inv, Past
      <3> QED
        BY <3>1, <3>2, Zenon
    <2>8. r + 1 # 0
      BY <1>13, ABAAssumption DEF Rounds
    <2>9. InHand' /\ Mailboxes'
      BY <1>2, <2>5, <2>8, ZenonT(30) DEF Inv, InHand, Mailboxes
    <2>10. VotesCurrent'
      <3> SUFFICES ASSUME NEW j \in Honest
                   PROVE  /\ voteResult'[j] # NoResult => voteResult'[j] = voteOutput'[round'[j]][j]
                          /\ \A s \in Rounds :
                                futureMsgs[j][s] # <<>> => blocked'[j] \/ s > round'[j]
        BY <1>2, Zenon DEF VotesCurrent
      <3>1. CASE j = i
        BY <2>5, <3>1, Zenon
      <3>2. CASE j # i
        <4>1. /\ voteResult[j] # NoResult => round[j] \in Rounds /\ voteResult[j] = voteOutput[round[j]][j]
              /\ \A s \in Rounds : futureMsgs[j][s] # <<>> => blocked[j] \/ s > round[j]
          BY Zenon DEF Inv, VotesCurrent, InHand
        <4>2. /\ round'[j] = round[j] /\ voteResult'[j] = voteResult[j] /\ blocked'[j] = blocked[j]
              /\ \A s \in Rounds : voteOutput'[s][j] = voteOutput[s][j]
          BY <1>3, <2>5, <3>2, ZenonT(30)
        <4> QED
          BY <4>1, <4>2, Zenon
      <3> QED
        BY <3>1, <3>2, Zenon
    <2>13. CoinsCurrent'
      <3> SUFFICES ASSUME NEW j \in Honest
                   PROVE  /\ iccResult'[j] # Null => round'[j] \in Rounds /\ j \in iccDone[round'[j]]
                          /\ \A s \in Rounds : /\ s < round'[j] => j \in iccDone[s]
                                               /\ s > round'[j] => j \notin iccDone[s]
        BY <1>1, Zenon DEF CoinsCurrent
      <3>1. CASE j = i
        <4>1. iccResult'[i] = Null /\ round'[i] = r + 1
          BY <2>5, ZenonT(30)
        <4>2. \A s \in Rounds : /\ s < r + 1 => s < r \/ s = r
                                /\ s > r + 1 => s > r
          BY <1>13, ABAAssumption DEF Rounds
        <4> QED
          BY <1>15, <3>1, <4>1, <4>2, Zenon DEF Inv, CoinsCurrent
      <3>2. CASE j # i
        <4>1. iccResult'[j] = iccResult[j] /\ round'[j] = round[j]
          BY <2>5, <3>2, ZenonT(30)
        <4> QED
          BY <4>1, Zenon DEF Inv, CoinsCurrent
      <3> QED
        BY <3>1, <3>2, Zenon
    <2>11. \A j \in Honest : Initial(j)' = Initial(j)
      <3>1. r # 0
        BY <1>13, ABAAssumption DEF Rounds
      <3>2. \A j \in Honest : j # i => estimate'[j] = estimate[j]
        BY <2>1, Zenon DEF StartRoundBlocks, Inv, TypeOK
      <3> QED
        BY <1>2, <2>5, <2>8, <3>1, <3>2, Zenon DEF Initial
    <2>12. Kept'
      BY <1>7, <2>11, Zenon DEF Inv, Kept
    <2> QED
      BY <1>5, <1>8, <2>4, <2>6, <2>7, <2>9, <2>10, <2>12, <2>13, Zenon DEF Inv
  <1> QED
    BY <1>14, <1>15, Zenon

\* A coin ends the round of a node whose vote is in, and is otherwise kept.
LEMMA IccKeepsInv ==
    ASSUME Inv, NEW i \in Honest, ~blocked[i], round[i] \in Rounds, round[i] < MaxRound,
           NEW coin \in Bits, NEW rest \in Seq(Kinds), DispatchIcc(i, round[i], coin, rest)
    PROVE  Inv'
  <1>3. /\ iccDone' = [iccDone EXCEPT ![round[i]] = @ \union {i}]
        /\ iccDone' \in [Rounds -> SUBSET Honest]
        /\ \A s \in Rounds, j \in Honest :
              j \in iccDone'[s] <=> j \in iccDone[s] \/ (s = round[i] /\ j = i)
    <2>1. iccDone' = [iccDone EXCEPT ![round[i]] = @ \union {i}]
      BY Zenon DEF DispatchIcc
    <2>2. iccDone \in [Rounds -> SUBSET Honest]
      BY Zenon DEF Inv, TypeOK
    <2> QED
      BY <2>1, <2>2
  <1>1. CASE voteResult[i] = NoResult
    <2>1. /\ iccResult' = [iccResult EXCEPT ![i] = coin]
          /\ pending' = [pending EXCEPT ![i] = rest]
          /\ UNCHANGED <<round, estimate, voteResult, futureMsgs, blocked, voteInput, complete,
                         decision, completeCounts, voteOutput>>
      BY <1>1, Zenon DEF DispatchIcc
    <2>2. TypeOK'
      BY <1>3, <2>1, Zenon DEF Inv, TypeOK
    <2>7. CoinsCurrent'
      <3>1. \A j \in Honest : iccResult'[j] = IF j = i THEN coin ELSE iccResult[j]
        BY <2>1, Zenon DEF Inv, TypeOK
      <3>2. \A s \in Rounds : s < round[i] \/ s > round[i] => s # round[i]
        BY ABAAssumption DEF Rounds
      <3> SUFFICES ASSUME NEW j \in Honest
                   PROVE  /\ iccResult'[j] # Null => round[j] \in Rounds /\ j \in iccDone'[round[j]]
                          /\ \A s \in Rounds : /\ s < round[j] => j \in iccDone'[s]
                                               /\ s > round[j] => j \notin iccDone'[s]
        BY <2>1, Zenon DEF CoinsCurrent
      <3>3. CASE j = i
        BY <1>3, <3>2, <3>3, Zenon DEF Inv, CoinsCurrent
      <3>4. CASE j # i
        BY <1>3, <3>1, <3>4, Zenon DEF Inv, CoinsCurrent
      <3> QED
        BY <3>3, <3>4, Zenon
    <2>3. Past' /\ InHand' /\ VotesCurrent'
      BY <2>1, Zenon DEF Inv, Past, InHand, VotesCurrent
    <2>4. Mailboxes'
      <3>1. \A j \in Honest : pending'[j] = IF j = i THEN rest ELSE pending[j]
        BY <2>1, Zenon DEF Inv, TypeOK
      <3> QED
        BY <2>1, <3>1, Zenon DEF Inv, Mailboxes
    <2>5. Graded' /\ Carried' /\ Kept' /\ \A v : SureOf(v)' = SureOf(v)
      BY <2>1, VotesUnchanged, Zenon DEF Initial
    <2>6. Completes'
      <3>1. Announces(i)
        BY <2>1, Zenon DEF Announces
      <3> QED
        BY <2>1, <2>5, <3>1, AnnouncesKeepsCompletes, ZenonT(30)
    <2> QED
      BY <2>2, <2>3, <2>4, <2>5, <2>6, <2>7, Zenon DEF Inv
  <1>2. CASE voteResult[i] # NoResult
    <2> DEFINE p == voteResult[i]
               r == round[i] + 1
               e == NextEstimate(i, p, coin)
    <2>1. /\ complete' = NextComplete(i, p)
          /\ StartRound(i, r, e)
          /\ voteOutput' = voteOutput /\ decision' = decision /\ completeCounts' = completeCounts
      BY <1>2, Zenon DEF DispatchIcc
    <2>2. p \in VoteResult /\ p = voteOutput[round[i]][i] /\ p # NoResult
      BY <1>2, Zenon DEF Inv, TypeOK, VotesCurrent
    <2>3. r \in Rounds /\ round[i] < r
      BY ABAAssumption DEF Rounds
    <2>4. e \in Bits
      <3>1. decision[i] \in Bits \union {Null}
        BY Zenon DEF Inv, TypeOK
      <3> QED
        BY <2>2, <3>1 DEF NextEstimate, VoteResult
    <2>5. p.conf = 2 => p.value \in Bits /\ SureOf(p.value)
      <3> SUFFICES ASSUME p.conf = 2 PROVE p.value \in Bits /\ SureOf(p.value)
        BY Zenon
      <3>1. p.value \in Bits /\ p = Sure2(p.value)
        BY <2>2 DEF VoteResult, Sure2
      <3> QED
        BY <2>2, <3>1, Zenon DEF SureOf
    <2>6. Announces(i)
      <3>1. \A c : SureOf(c) => SureOf(c)'
        BY <2>1, Zenon DEF SureOf
      <3>2. \/ complete' = complete
            \/ p.conf = 2 /\ complete[i] = Null /\ complete' = [complete EXCEPT ![i] = p.value]
        BY <2>1, Zenon DEF NextComplete
      <3> QED
        BY <2>5, <3>1, <3>2, Zenon DEF Announces
    <2>7. ASSUME NEW q \in Rounds, NEW v \in Bits, q < r, Settled(q, v) PROVE e = v
      <3>1. q = round[i] \/ q < round[i]
        BY <2>7, ABAAssumption, SMTT(30) DEF Rounds
      <3>2. p.conf >= 1 /\ p.value = v
        <4>1. CASE q = round[i]
          BY <2>2, <2>7, <4>1, Zenon DEF Settled
        <4>2. CASE q < round[i]
          <5>1. p = Sure2(v)
            BY <2>2, <2>7, <4>2, Zenon DEF Inv, Carried, Only
          <5> QED
            BY <5>1 DEF Sure2
        <4> QED
          BY <3>1, <4>1, <4>2, Zenon
      <3>3. voteOutput[q][i] # NoResult
        BY <2>2, <3>1, Zenon DEF Inv, Past
      <3>4. decision[i] # Null => decision[i] = v
        <4> SUFFICES ASSUME decision[i] # Null PROVE decision[i] = v
          BY Zenon
        <4>1. decision[i] \in Bits /\ SureOf(decision[i])
          BY Zenon DEF Inv, TypeOK, Completes
        <4> QED
          BY <2>7, <3>3, <4>1, SureIsSettled, Zenon DEF Inv
      <3> QED
        BY <1>2, <3>2, <3>4, EstimateIsCarried, Zenon
    <2>8. ASSUME NEW v \in Bits, \A j \in Honest : Initial(j) = v PROVE e = v
      <3>1. \A s \in Rounds, j \in Honest : voteOutput[s][j] \in {Sure2(v), NoResult}
        BY <2>8, Zenon DEF Inv, Kept, Only
      <3>2. p.conf >= 1 /\ p.value = v
        <4>1. p = Sure2(v)
          BY <2>2, <3>1, Zenon
        <4> QED
          BY <4>1 DEF Sure2
      <3>3. decision[i] # Null => decision[i] = v
        <4> SUFFICES ASSUME decision[i] # Null PROVE decision[i] = v
          BY Zenon
        <4>1. PICK s \in Rounds, j \in Honest : voteOutput[s][j] = Sure2(decision[i])
          BY Zenon DEF Inv, Completes, SureOf
        <4>2. Sure2(decision[i]) = Sure2(v)
          BY <3>1, <4>1, SMTT(30) DEF Sure2, NoResult
        <4> QED
          BY <4>2, Zenon DEF Sure2
      <3> QED
        BY <1>2, <3>2, <3>3, EstimateIsCarried, ZenonT(30)
    <2>9. round[i] = 0 => e = estimate[i]
      BY ABAAssumption DEF Rounds
    <2>10. \A q \in Rounds, v \in Bits : q < r /\ Settled(q, v) => e = v
      BY <2>7, Zenon
    <2>11. \A v \in Bits : (\A j \in Honest : Initial(j) = v) => e = v
      BY <2>8, Zenon
    <2>12. r = round[i] + 1
      BY Zenon
    <2>13. voteOutput[round[i]][i] # NoResult
      BY <2>2, Zenon
    <2> HIDE DEF p, r, e
    <2> QED
      BY <1>3, <2>1, <2>3, <2>4, <2>6, <2>9, <2>10, <2>11, <2>12, <2>13, EnterKeepsInv, ZenonT(30)
  <1> QED
    BY <1>1, <1>2, Zenon

\* No result comes late: a node has both results of each round it has left, so what
\* a message completes is of the node's own round.
LEMMA NothingIsLate ==
    ASSUME Inv, NEW i \in Honest, NEW r \in Rounds, r <= round[i],
           NEW kind, NEW rest, Dispatch(i, kind, r, rest)
    PROVE  r = round[i]
  <1>1. voteOutput[r][i] = NoResult \/ i \notin iccDone[r]
    BY Zenon DEF Dispatch, DispatchVote, DispatchIcc
  <1>2. ASSUME r < round[i] PROVE FALSE
    <2>1. voteOutput[r][i] # NoResult
      BY <1>2, Zenon DEF Inv, Past
    <2>2. i \in iccDone[r]
      BY <1>2, Zenon DEF Inv, CoinsCurrent
    <2> QED
      BY <1>1, <2>1, <2>2, Zenon
  <1>3. round[i] \in 0..MaxRound
    BY Zenon DEF Inv, TypeOK
  <1> QED
    BY <1>2, <1>3, ABAAssumption DEF Rounds

\* A message is dispatched to the vote or to the coin.
LEMMA DispatchKeepsInv ==
    ASSUME Inv, NEW i \in Honest, ~blocked[i], round[i] \in Rounds, round[i] < MaxRound,
           NEW kind, NEW rest \in Seq(Kinds), Dispatch(i, kind, round[i], rest)
    PROVE  Inv'
  BY VoteKeepsInv, IccKeepsInv, ZenonT(30) DEF Dispatch

\* Start enters round 1 with the estimate given to NewABAService.
LEMMA StartKeepsInv ==
    ASSUME Inv, NEW i \in Honest, Start(i)
    PROVE  Inv'
  <1>1. /\ round[i] = 0 /\ StartRound(i, 1, estimate[i])
        /\ UNCHANGED <<decision, complete, completeCounts, voteOutput, iccDone>>
    BY Zenon DEF Start, done
  <1>2. 1 \in Rounds /\ round[i] \notin Rounds /\ \A q \in Rounds : ~(q < 1)
    BY <1>1, ABAAssumption DEF Rounds
  <1>3. ~blocked[i] /\ estimate[i] \in Bits
    BY <1>1, Zenon DEF Inv, Mailboxes, TypeOK
  <1>4. Initial(i) = estimate[i]
    BY <1>1, Zenon DEF Initial
  <1>5. Announces(i)
    BY <1>1, Zenon DEF Announces
  <1>6. /\ iccDone' \in [Rounds -> SUBSET Honest]
        /\ \A s \in Rounds, j \in Honest :
              j \in iccDone'[s] <=> j \in iccDone[s] \/ (s = round[i] /\ j = i)
    BY <1>1, <1>2, Zenon DEF Inv, TypeOK
  <1> QED
    BY <1>1, <1>2, <1>3, <1>4, <1>5, <1>6, EnterKeepsInv

\* OnMessage dispatches a message of the node's round or an earlier one, and buffers
\* those of later ones.
LEMMA MessageKeepsInv ==
    ASSUME Inv, NEW i \in Honest, NEW kind \in Kinds, NEW r \in Rounds, OnMessage(i, kind, r)
    PROVE  Inv'
  <1>1. Idle(i) /\ r < MaxRound
    BY Zenon DEF OnMessage
  <1>2. CASE r <= round[i] /\ Dispatch(i, kind, r, <<>>)
    <2>1. <<>> \in Seq(Kinds)
      OBVIOUS
    <2>2. r = round[i]
      BY <1>2, NothingIsLate, Zenon
    <2> QED
      BY <1>1, <1>2, <2>1, <2>2, DispatchKeepsInv, Zenon DEF Idle
  <1>3. CASE /\ r > round[i]
             /\ futureMsgs' = [futureMsgs EXCEPT ![i][r] = Append(@, kind)]
             /\ UNCHANGED <<round, estimate, voteResult, iccResult, pending, blocked, done, subs>>
    <2>1. UNCHANGED <<round, estimate, voteResult, iccResult, pending, blocked,
                      decision, complete, completeCounts, voteInput, voteOutput, iccDone>>
      BY <1>3, Zenon DEF done, subs
    <2>2. Append(futureMsgs[i][r], kind) \in Seq(Kinds)
      BY DEF Inv, TypeOK
    <2>3. futureMsgs' \in [Honest -> [Rounds -> Seq(Kinds)]]
      BY <1>3, <2>2, Zenon DEF Inv, TypeOK
    <2>4. \A j \in Honest, s \in Rounds :
              j # i \/ s # r => futureMsgs'[j][s] = futureMsgs[j][s]
      BY <1>3, Zenon DEF Inv, TypeOK
    <2>5. TypeOK'
      BY <2>1, <2>3, Zenon DEF Inv, TypeOK
    <2>6. Past' /\ InHand' /\ CoinsCurrent'
      BY <2>1, Zenon DEF Inv, Past, InHand, CoinsCurrent
    <2>7. Mailboxes'
      BY <1>1, <2>1, <2>4, Zenon DEF Inv, Mailboxes
    <2>8. VotesCurrent'
      BY <1>3, <2>1, <2>4 DEF Inv, VotesCurrent
    <2>9. Graded' /\ Carried' /\ Kept' /\ \A v : SureOf(v)' = SureOf(v)
      BY <2>1, VotesUnchanged, Zenon DEF Initial
    <2>10. Completes'
      BY <2>1, <2>9, AnnouncesKeepsCompletes, Zenon DEF Announces
    <2> QED
      BY <2>5, <2>6, <2>7, <2>8, <2>9, <2>10, Zenon DEF Inv
  <1> QED
    BY <1>2, <1>3, Zenon DEF OnMessage

\* The bits of faulty nodes are not among those the invariant speaks of.
LEMMA FaultyKeepsInv ==
    ASSUME Inv, NEW k \in Faulty, NEW r \in Rounds, NEW b \in Bits, FaultyVote(k, r, b)
    PROVE  Inv'
  <1>1. /\ voteInput' = [voteInput EXCEPT ![r][k] = b]
        /\ UNCHANGED <<round, estimate, voteResult, iccResult, futureMsgs, pending, blocked,
                       decision, complete, completeCounts, voteOutput, iccDone>>
    BY Zenon DEF FaultyVote, node, done
  <1>2. k \in Nodes
    BY ABAAssumption, Zenon
  <1>3. voteInput' \in [Rounds -> [Nodes -> Bits \union {Null}]]
    BY <1>1, <1>2, Zenon DEF Inv, TypeOK
  <1>4. \A s \in Rounds, j \in Honest : voteInput'[s][j] = voteInput[s][j]
    BY <1>1, Zenon DEF Inv, TypeOK, Honest
  <1>5. TypeOK'
    BY <1>1, <1>3, Zenon DEF Inv, TypeOK
  <1>6. Past' /\ InHand' /\ Mailboxes' /\ VotesCurrent' /\ Graded'
    BY <1>1, <1>4 DEF Inv, Past, InHand, Mailboxes, VotesCurrent, Graded
  <1>7. \A s \in Rounds, v \in Bits : Settled(s, v)' = Settled(s, v) /\ Only(s, v)' = Only(s, v)
    BY <1>1, <1>4 DEF Settled, Only
  <1>8. Carried'
    BY <1>7 DEF Inv, Carried
  <1>9. \A j \in Honest : Initial(j)' = Initial(j)
    <2>1. 1 \in Rounds
      BY ABAAssumption DEF Rounds
    <2> QED
      BY <1>1, <1>4, <2>1, Zenon DEF Initial
  <1>10. Kept' /\ CoinsCurrent'
    BY <1>1, <1>7, <1>9 DEF Inv, Kept, CoinsCurrent
  <1>11. Completes'
    <2>1. \A v : SureOf(v)' = SureOf(v)
      BY <1>1, Zenon DEF SureOf
    <2> QED
      BY <1>1, <2>1, Zenon DEF Inv, Completes
  <1> QED
    BY <1>5, <1>6, <1>8, <1>10, <1>11, Zenon DEF Inv

\* No step of ABA leaves the invariant.
LEMMA NextInv == Inv /\ [Next]_vars => Inv'
  <1> SUFFICES ASSUME Inv, [Next]_vars PROVE Inv'
    BY Zenon
  <1>1. ASSUME NEW i \in Honest, Start(i) PROVE Inv'
    BY <1>1, StartKeepsInv, Zenon
  <1>2. ASSUME NEW i \in Honest, DispatchBuffered(i) PROVE Inv'
    <2>1. /\ ~blocked[i] /\ pending[i] # <<>>
          /\ Dispatch(i, Head(pending[i]), round[i], Tail(pending[i]))
      BY <1>2, Zenon DEF DispatchBuffered
    <2>2. round[i] \in Rounds /\ round[i] < MaxRound
      BY <2>1, Zenon DEF Inv, Mailboxes
    <2>3. Tail(pending[i]) \in Seq(Kinds)
      BY <2>1 DEF Inv, TypeOK
    <2> QED
      BY <2>1, <2>2, <2>3, DispatchKeepsInv, Zenon
  <1>3. ASSUME NEW i \in Honest, NEW kind \in Kinds, NEW r \in Rounds, OnMessage(i, kind, r)
        PROVE  Inv'
    BY <1>3, MessageKeepsInv, Zenon
  <1>4. ASSUME NEW i \in Honest, OnHonestComplete(i) PROVE Inv'
    <2>1. PICK j \in Honest : complete[j] # Null /\ OnComplete(i, j, complete[j])
      BY <1>4, Zenon DEF OnHonestComplete
    <2>2. complete[j] \in Bits /\ j \in Nodes
      BY <2>1, Zenon DEF Inv, TypeOK, Honest
    <2> QED
      BY <2>1, <2>2, CompleteKeepsInv, Zenon
  <1>5. ASSUME NEW i \in Honest, OnFaultyComplete(i) PROVE Inv'
    <2>1. PICK j \in Faulty, v \in FaultyCompletes : OnComplete(i, j, v)
      BY <1>5, Zenon DEF OnFaultyComplete
    <2>2. j \in Nodes /\ j \notin Honest /\ v \in Bits
      BY ABAAssumption, Zenon DEF Honest
    <2> QED
      BY <2>1, <2>2, CompleteKeepsInv, Zenon
  <1>6. ASSUME NEW k \in Faulty, NEW r \in Rounds, NEW b \in Bits, FaultyVote(k, r, b)
        PROVE  Inv'
    BY <1>6, FaultyKeepsInv, Zenon
  <1>7. CASE UNCHANGED vars
    <2>1. UNCHANGED <<round, estimate, voteResult, iccResult, futureMsgs, pending, blocked,
                      decision, complete, completeCounts, voteInput, voteOutput, iccDone>>
      BY <1>7, Zenon DEF vars, node, done, subs
    <2>2. TypeOK' /\ Past' /\ InHand' /\ Mailboxes' /\ VotesCurrent' /\ CoinsCurrent'
      BY <2>1, Zenon DEF Inv, TypeOK, Past, InHand, Mailboxes, VotesCurrent, CoinsCurrent
    <2>3. Graded' /\ Carried' /\ Kept' /\ \A v : SureOf(v)' = SureOf(v)
      BY <2>1, VotesUnchanged, Zenon DEF Initial
    <2>4. Completes'
      BY <2>1, <2>3, Zenon DEF Inv, Completes
    <2> QED
      BY <2>2, <2>3, <2>4, Zenon DEF Inv
  <1> QED
    BY <1>1, <1>2, <1>3, <1>4, <1>5, <1>6, <1>7, Zenon DEF Next

-----------------------------------------------------------------------------

\* The inductive invariant holds in every run of the round loop: rounds are
\* graded votes, settled values are carried on, decisions rest on sure values.
THEOREM InvHolds == Safety => []Inv
  BY InitInv, NextInv, PTL DEF Safety

\* The state of the round loop keeps its types at every node.
THEOREM TypeCorrect == Safety => []TypeOK
  <1>1. Inv => TypeOK
    BY Zenon DEF Inv
  <1> QED
    BY <1>1, InvHolds, PTL

\* handleCompleteDelivery never makes two honest nodes decide differently, for
\* any coins, orders of arrival, blocked nodes and COMPLETEs of faulty nodes.
THEOREM AgreementHolds == Safety => []Agreement
  <1>1. Inv => Agreement
    <2> SUFFICES ASSUME Inv, NEW i \in Honest, NEW j \in Honest,
                        decision[i] # Null, decision[j] # Null
                 PROVE  decision[i] = decision[j]
      BY Zenon DEF Agreement
    <2>1. decision[i] \in Bits /\ decision[j] \in Bits
      BY Zenon DEF Inv, TypeOK
    <2>2. SureOf(decision[i]) /\ SureOf(decision[j])
      BY Zenon DEF Inv, Completes
    <2> QED
      BY <2>1, <2>2, OneSure, Zenon DEF Inv
  <1> QED
    BY <1>1, InvHolds, PTL

\* If NewABAService is given the same bit at all honest nodes, checkRoundProgress
\* and the COMPLETEs lead to no other decision.
THEOREM ValidityHolds == Safety => []Validity
  <1>1. Inv => Validity
    <2> SUFFICES ASSUME Inv, NEW b \in Bits, \A i \in Honest : Initial(i) = b,
                        NEW i \in Honest, decision[i] # Null
                 PROVE  decision[i] = b
      BY Zenon DEF Validity
    <2>1. PICK r \in Rounds, j \in Honest : voteOutput[r][j] = Sure2(decision[i])
      BY Zenon DEF Inv, Completes, SureOf
    <2>2. voteOutput[r][j] \in {Sure2(b), NoResult}
      BY Zenon DEF Inv, Kept, Only
    <2>3. Sure2(decision[i]) = Sure2(b)
      BY <2>1, <2>2, SMTT(30) DEF Sure2, NoResult
    <2> QED
      BY <2>3, Zenon DEF Sure2
  <1> QED
    BY <1>1, InvHolds, PTL

\* Once checkRoundProgress has had a sure result, startRound takes no other
\* estimate into a later round, at any honest node.
THEOREM LockedHolds == Safety => []Locked
  <1>1. Inv => Locked
    <2> SUFFICES ASSUME Inv, NEW r \in Rounds, NEW s \in Rounds, NEW i \in Honest,
                        NEW j \in Honest, r < s, voteOutput[r][i].conf = 2,
                        voteInput[s][j] # Null
                 PROVE  voteInput[s][j] = voteOutput[r][i].value
      BY DEF Locked
    <2>1. Settled(r, voteOutput[r][i].value)
      BY SureSettles, Zenon DEF Inv
    <2>2. voteOutput[r][i].value \in Bits
      <3>1. voteOutput[r][i] \in VoteResult \union {NoResult}
        BY DEF Inv, TypeOK
      <3> QED
        BY <3>1 DEF VoteResult, NoResult
    <2> QED
      BY <2>1, <2>2 DEF Inv, Carried, Only
  <1> QED
    BY <1>1, InvHolds, PTL

\* What checkRoundProgress combines is of the node's round: neither a vote result
\* nor a coin outlives startRound, comes early out of futureMsgs or comes late.
THEOREM ResultsAreCurrentHolds == Safety => []ResultsAreCurrent
  <1>1. Inv => ResultsAreCurrent
    <2> SUFFICES ASSUME Inv, NEW i \in Honest
                 PROVE  /\ voteResult[i] # NoResult => voteResult[i] = voteOutput[round[i]][i]
                        /\ iccResult[i] # Null => i \in iccDone[round[i]]
                        /\ \A r \in Rounds :
                              /\ r < round[i] => voteOutput[r][i] # NoResult /\ i \in iccDone[r]
                              /\ r > round[i] => voteOutput[r][i] = NoResult /\ i \notin iccDone[r]
                              /\ futureMsgs[i][r] # <<>> => blocked[i] \/ r > round[i]
      BY Zenon DEF ResultsAreCurrent
    <2>1. /\ voteResult[i] # NoResult => voteResult[i] = voteOutput[round[i]][i]
          /\ \A r \in Rounds : futureMsgs[i][r] # <<>> => blocked[i] \/ r > round[i]
      BY Zenon DEF Inv, VotesCurrent
    <2>2. /\ iccResult[i] # Null => i \in iccDone[round[i]]
          /\ \A r \in Rounds : /\ r < round[i] => i \in iccDone[r]
                               /\ r > round[i] => i \notin iccDone[r]
      BY Zenon DEF Inv, CoinsCurrent
    <2>3. \A r \in Rounds : /\ r < round[i] => voteOutput[r][i] # NoResult
                            /\ r > round[i] => voteOutput[r][i] = NoResult
      BY Zenon DEF Inv, Past
    <2> QED
      BY <2>1, <2>2, <2>3, Zenon
  <1> QED
    BY <1>1, InvHolds, PTL
-----------------------------------------------------------------------------

(***************************************************************************)
(* The round loop does not stop short: EndInv, and DecisionEnds from it.   *)
(***************************************************************************)

\* Nothing is counted or received at the start.
LEMMA InitEnd == Init => EndInv
  <1> SUFFICES ASSUME Init, NEW i \in Honest PROVE EndOK(i)
    BY Zenon DEF EndInv
  <1>1. /\ voteResult[i] = NoResult /\ decision[i] = Null /\ round[i] = 0
        /\ \A r \in Rounds : voteOutput[r][i] = NoResult
        /\ \A v \in Bits : completeCounts[i][v] = {}
    BY Zenon DEF Init
  <1>2. \A r \in Rounds : ~ r <= 0 /\ ~ r < 0
    BY ABAAssumption DEF Rounds
  <1>3. Cardinality({}) < CompleteThreshold
    BY FS_EmptySet, ABAAssumption DEF CompleteThreshold
  <1> QED
    BY <1>1, <1>2, <1>3, Zenon DEF EndOK

\* A step that leaves alone what EndOK says of node j, except that it may bring a
\* COMPLETE of j.
LEMMA Frame ==
    ASSUME NEW j \in Honest, EndOK(j),
           round'[j] = round[j], voteResult'[j] = voteResult[j], iccResult'[j] = iccResult[j],
           blocked'[j] = blocked[j], decision'[j] = decision[j],
           completeCounts'[j] = completeCounts[j],
           complete[j] # Null => complete'[j] # Null,
           \A s \in Rounds : voteInput'[s][j] = voteInput[s][j] /\ voteOutput'[s][j] = voteOutput[s][j]
    PROVE  EndOK(j)'
  <1>1. voteResult'[j] = NoResult \/ iccResult'[j] = Null
    BY Zenon DEF EndOK
  <1>2. ~blocked'[j] => \A r \in Rounds :
          /\ r = round'[j] /\ voteOutput'[r][j] # NoResult => voteResult'[j] # NoResult
          /\ r <= round'[j] => voteInput'[r][j] # Null
    BY Zenon DEF EndOK
  <1>3. \A r \in Rounds : r < round'[j] /\ voteOutput'[r][j].conf = 2 => complete'[j] # Null
    BY Zenon DEF EndOK
  <1>4. /\ decision'[j] # Null => complete'[j] # Null
        /\ decision'[j] = Null =>
              \A v \in Bits : Cardinality(completeCounts'[j][v]) < CompleteThreshold
    BY Zenon DEF EndOK
  <1> QED
    BY <1>1, <1>2, <1>3, <1>4, Zenon DEF EndOK, CompleteThreshold

\* The COMPLETE that checkRoundProgress sends, or has sent, when the result is sure.
LEMMA NextCompleteFacts ==
    ASSUME Inv, EndInv, NEW i \in Honest, NEW p \in VoteResult, complete' = NextComplete(i, p)
    PROVE  /\ \A j \in Honest : complete[j] # Null => complete'[j] # Null
           /\ p.conf = 2 => complete'[i] # Null
  <1>1. complete \in [Honest -> Bits \union {Null}]
    BY Zenon DEF Inv, TypeOK
  <1>2. p.conf = 2 => p.value \in Bits /\ p.value # Null
    BY DEF VoteResult, Bits, Null
  <1>3. decision[i] # Null => complete[i] # Null
    BY Zenon DEF EndInv, EndOK
  <1>4. CASE decision[i] = Null /\ p.conf = 2 /\ complete[i] = Null
    BY <1>1, <1>2, <1>4, Zenon DEF NextComplete
  <1>5. CASE ~(decision[i] = Null /\ p.conf = 2 /\ complete[i] = Null)
    BY <1>3, <1>5, Zenon DEF NextComplete
  <1> QED
    BY <1>4, <1>5, Zenon

\* startRound: the node brings a bit to the new round, of which it has no result,
\* and has sent COMPLETE if it was sure in the round it leaves.
LEMMA EnterKeepsEnd ==
    ASSUME Inv, EndInv, NEW i \in Honest, ~blocked[i], NEW r \in Rounds, r = round[i] + 1,
           NEW e \in Bits, StartRound(i, r, e),
           voteOutput' = voteOutput, decision' = decision, completeCounts' = completeCounts,
           \A j \in Honest : complete[j] # Null => complete'[j] # Null,
           round[i] \in Rounds /\ voteOutput[round[i]][i].conf = 2 => complete'[i] # Null
    PROVE  EndInv'
  <1>1. /\ \A j \in Honest : round'[j] = IF j = i THEN r ELSE round[j]
        /\ \A j \in Honest : voteResult'[j] = IF j = i THEN NoResult ELSE voteResult[j]
        /\ \A j \in Honest : iccResult'[j] = IF j = i THEN Null ELSE iccResult[j]
        /\ \A s \in Rounds, j \in Nodes :
              voteInput'[s][j] = IF s = r /\ j = i THEN e ELSE voteInput[s][j]
        /\ blocked' = blocked
    BY Zenon DEF StartRound, Inv, TypeOK, Honest
  <1>2. round[i] \in 0..MaxRound /\ e # Null /\ i \in Nodes
    BY SMTT(30) DEF Inv, TypeOK, Bits, Null, Honest
  <1> SUFFICES ASSUME NEW j \in Honest PROVE EndOK(j)'
    BY Zenon DEF EndInv, Honest
  <1>3. CASE j # i
    <2>1. EndOK(j) /\ j \in Nodes
      BY Zenon DEF EndInv, Honest
    <2> QED
      BY <1>1, <1>3, <2>1, Frame, ZenonT(30)
  <1>4. CASE j = i
    <2>1. \A s \in Rounds : /\ s = r => s > round[i]
                            /\ s <= r => s <= round[i] \/ s = r
                            /\ s < r => s < round[i] \/ (s = round[i] /\ round[i] \in Rounds)
      BY <1>2, ABAAssumption, SMTT(30) DEF Rounds
    <2>2. voteOutput[r][i] = NoResult
      BY <2>1, Zenon DEF Inv, Past
    <2>3. EndOK(i)
      BY Zenon DEF EndInv
    <2>4. \A s \in Rounds : s <= r => voteInput'[s][i] # Null
      BY <1>1, <1>2, <2>1, <2>3, ZenonT(30) DEF EndOK
    <2>5. \A s \in Rounds : s < r /\ voteOutput[s][i].conf = 2 => complete'[i] # Null
      BY <2>1, <2>3, Zenon DEF EndOK
    <2>6. /\ decision[i] # Null => complete'[i] # Null
          /\ decision[i] = Null =>
                \A v \in Bits : Cardinality(completeCounts[i][v]) < CompleteThreshold
      BY <2>3, Zenon DEF EndOK
    <2>7. round'[i] = r /\ voteResult'[i] = NoResult
      BY <1>1, Zenon
    <2> QED
      BY <1>4, <2>2, <2>4, <2>5, <2>6, <2>7, ZenonT(30) DEF EndOK, CompleteThreshold
  <1> QED
    BY <1>3, <1>4, Zenon

\* Vote's SendResult keeps EndInv: the result is kept for the coin, or ends the
\* round with the COMPLETE that is due.
LEMMA VoteKeepsEnd ==
    ASSUME Inv, EndInv, NEW i \in Honest, ~blocked[i], round[i] \in Rounds, round[i] < MaxRound,
           NEW p \in VoteResult, NEW rest, DispatchVote(i, round[i], p, rest)
    PROVE  EndInv'
  <1> DEFINE r == round[i]
  <1>1. /\ voteOutput' = [voteOutput EXCEPT ![r][i] = p]
        /\ decision' = decision /\ completeCounts' = completeCounts
    BY Zenon DEF DispatchVote
  <1>2. voteInput' = voteInput
    BY Zenon DEF DispatchVote, StartRoundBlocks
  <1>3. \A s \in Rounds, j \in Honest :
            voteOutput'[s][j] = IF s = r /\ j = i THEN p ELSE voteOutput[s][j]
    BY <1>1, Zenon DEF Inv, TypeOK
  <1>4. p # NoResult
    BY DEF VoteResult, NoResult
  <1>5. EndOK(i)
    BY Zenon DEF EndInv
  <1> SUFFICES ASSUME NEW j \in Honest PROVE EndOK(j)'
    BY Zenon DEF EndInv, Honest
  <1>6. CASE iccResult[i] = Null
    <2>1. /\ voteResult' = [voteResult EXCEPT ![i] = p]
          /\ UNCHANGED <<round, iccResult, blocked, complete>>
      BY <1>6, Zenon DEF DispatchVote
    <2>2. \A k \in Honest : voteResult'[k] = IF k = i THEN p ELSE voteResult[k]
      BY <2>1, Zenon DEF Inv, TypeOK
    <2>3. CASE j # i
      <3>1. EndOK(j)
        BY Zenon DEF EndInv
      <3>2. /\ round'[j] = round[j] /\ voteResult'[j] = voteResult[j] /\ iccResult'[j] = iccResult[j]
            /\ blocked'[j] = blocked[j] /\ decision'[j] = decision[j]
            /\ completeCounts'[j] = completeCounts[j]
            /\ complete[j] # Null => complete'[j] # Null
        BY <1>1, <2>1, <2>2, <2>3, Zenon
      <3>3. \A s \in Rounds : voteInput'[s][j] = voteInput[s][j] /\ voteOutput'[s][j] = voteOutput[s][j]
        BY <1>2, <1>3, <2>3, Zenon
      <3> QED
        BY <3>1, <3>2, <3>3, Frame, Zenon
    <2>4. CASE j = i
      <3>1. \A s \in Rounds : s < r => s # r
        BY ABAAssumption, SMTT(30) DEF Rounds
      <3>2. \A s \in Rounds : s < r /\ voteOutput'[s][i].conf = 2 => complete[i] # Null
        BY <1>3, <1>5, <3>1, Zenon DEF EndOK
      <3>3. voteResult'[i] # NoResult
        BY <1>4, <2>2, Zenon
      <3>4. /\ ~blocked[i] => \A s \in Rounds : s <= r => voteInput[s][i] # Null
            /\ decision[i] # Null => complete[i] # Null
            /\ decision[i] = Null =>
                  \A v \in Bits : Cardinality(completeCounts[i][v]) < CompleteThreshold
        BY <1>5, Zenon DEF EndOK
      <3> QED
        BY <1>1, <1>2, <1>6, <2>1, <2>4, <3>2, <3>3, <3>4, Zenon DEF EndOK, CompleteThreshold
    <2> QED
      BY <2>3, <2>4, Zenon
  <1>7. CASE iccResult[i] # Null
    <2>1. complete' = NextComplete(i, p) /\ StartRoundBlocks(i, r + 1, NextEstimate(i, p, iccResult[i]))
      BY <1>7, Zenon DEF DispatchVote
    <2>2. /\ \A k \in Honest : round'[k] = IF k = i THEN r + 1 ELSE round[k]
          /\ \A k \in Honest : voteResult'[k] = IF k = i THEN NoResult ELSE voteResult[k]
          /\ \A k \in Honest : iccResult'[k] = IF k = i THEN Null ELSE iccResult[k]
          /\ \A k \in Honest : blocked'[k] = IF k = i THEN TRUE ELSE blocked[k]
      BY <2>1, Zenon DEF StartRoundBlocks, Inv, TypeOK
    <2>3. /\ \A k \in Honest : complete[k] # Null => complete'[k] # Null
          /\ p.conf = 2 => complete'[i] # Null
      BY <2>1, NextCompleteFacts, Zenon
    <2>4. CASE j # i
      <3>1. EndOK(j)
        BY Zenon DEF EndInv
      <3>2. /\ round'[j] = round[j] /\ voteResult'[j] = voteResult[j] /\ iccResult'[j] = iccResult[j]
            /\ blocked'[j] = blocked[j] /\ decision'[j] = decision[j]
            /\ completeCounts'[j] = completeCounts[j]
            /\ complete[j] # Null => complete'[j] # Null
        BY <1>1, <2>2, <2>3, <2>4, ZenonT(30)
      <3>3. \A s \in Rounds : voteInput'[s][j] = voteInput[s][j] /\ voteOutput'[s][j] = voteOutput[s][j]
        BY <1>2, <1>3, <2>4, Zenon
      <3> QED
        BY <3>1, <3>2, <3>3, Frame, Zenon
    <2>5. CASE j = i
      <3>1. \A s \in Rounds : s < r + 1 => s < r \/ s = r
        BY ABAAssumption DEF Rounds
      <3>2. \A s \in Rounds : s < r + 1 /\ voteOutput'[s][i].conf = 2 => complete'[i] # Null
        <4> SUFFICES ASSUME NEW s \in Rounds, s < r + 1, voteOutput'[s][i].conf = 2
                     PROVE  complete'[i] # Null
          BY Zenon
        <4>1. CASE s = r
          BY <1>3, <2>3, <4>1, Zenon
        <4>2. CASE s # r
          BY <1>3, <1>5, <2>3, <3>1, <4>2, SMTT(30) DEF EndOK
        <4> QED
          BY <4>1, <4>2, Zenon
      <3>3. /\ decision[i] # Null => complete'[i] # Null
            /\ decision[i] = Null =>
                  \A v \in Bits : Cardinality(completeCounts[i][v]) < CompleteThreshold
        BY <1>5, <2>3, Zenon DEF EndOK
      <3>4. round'[i] = r + 1 /\ voteResult'[i] = NoResult /\ blocked'[i]
        BY <2>2, ZenonT(30)
      <3> QED
        BY <1>1, <2>5, <3>2, <3>3, <3>4, Zenon DEF EndOK, CompleteThreshold
    <2> QED
      BY <2>4, <2>5, Zenon
  <1> QED
    BY <1>6, <1>7, Zenon

\* The coin's SendResult keeps EndInv: it waits for the vote or ends the round.
LEMMA IccKeepsEnd ==
    ASSUME Inv, EndInv, NEW i \in Honest, ~blocked[i], round[i] \in Rounds, round[i] < MaxRound,
           NEW coin \in Bits, NEW rest, DispatchIcc(i, round[i], coin, rest)
    PROVE  EndInv'
  <1>1. CASE voteResult[i] = NoResult
    <2>1. /\ iccResult' = [iccResult EXCEPT ![i] = coin]
          /\ UNCHANGED <<round, voteResult, blocked, voteInput, complete,
                         decision, completeCounts, voteOutput>>
      BY <1>1, Zenon DEF DispatchIcc
    <2> SUFFICES ASSUME NEW j \in Honest PROVE EndOK(j)'
      BY Zenon DEF EndInv, Honest
    <2>2. EndOK(j) /\ (j # i => iccResult'[j] = iccResult[j])
      BY <2>1, Zenon DEF EndInv, Inv, TypeOK
    <2>3. CASE j # i
      BY <2>1, <2>2, <2>3, Frame, Zenon
    <2>4. CASE j = i
      BY <1>1, <2>1, <2>2, <2>4, ZenonT(30) DEF EndOK, CompleteThreshold
    <2> QED
      BY <2>3, <2>4, Zenon
  <1>2. CASE voteResult[i] # NoResult
    <2> DEFINE p == voteResult[i]
               r == round[i] + 1
               e == NextEstimate(i, p, coin)
    <2>1. /\ complete' = NextComplete(i, p)
          /\ StartRound(i, r, e)
          /\ voteOutput' = voteOutput /\ decision' = decision /\ completeCounts' = completeCounts
      BY <1>2, Zenon DEF DispatchIcc
    <2>2. p \in VoteResult /\ p = voteOutput[round[i]][i]
      BY <1>2, Zenon DEF Inv, TypeOK, VotesCurrent
    <2>3. r \in Rounds
      BY ABAAssumption DEF Rounds
    <2>4. e \in Bits
      <3>1. decision[i] \in Bits \union {Null}
        BY Zenon DEF Inv, TypeOK
      <3> QED
        BY <2>2, <3>1 DEF NextEstimate, VoteResult
    <2>5. /\ \A j \in Honest : complete[j] # Null => complete'[j] # Null
          /\ p.conf = 2 => complete'[i] # Null
      BY <2>1, <2>2, NextCompleteFacts, Zenon
    <2> HIDE DEF e
    <2> QED
      BY <2>1, <2>2, <2>3, <2>4, <2>5, EnterKeepsEnd, ZenonT(30)
  <1> QED
    BY <1>1, <1>2, Zenon

\* handleCompleteDelivery keeps EndInv: the COMPLETE that makes the count reach
\* T + 1 makes the node decide, and send its own if it has not.
LEMMA CompleteKeepsEnd ==
    ASSUME Inv, EndInv, NEW i \in Honest, NEW j \in Nodes, NEW v \in Bits, OnComplete(i, j, v)
    PROVE  EndInv'
  <1> DEFINE count == completeCounts[i][v] \union {j}
             decide == Cardinality(count) >= CompleteThreshold
  <1>1. /\ UNCHANGED <<round, voteResult, iccResult, blocked, voteInput, voteOutput>>
        /\ completeCounts' = [completeCounts EXCEPT ![i][v] = count]
        /\ decision' = IF decide THEN [decision EXCEPT ![i] = v] ELSE decision
        /\ complete' = IF decide /\ complete[i] = Null THEN [complete EXCEPT ![i] = v] ELSE complete
        /\ decision[i] = Null
    BY Zenon DEF OnComplete, node, subs
  <1>2. v # Null
    BY DEF Bits, Null
  <1>3. /\ \A k \in Honest : complete[k] # Null => complete'[k] # Null
        /\ decide => complete'[i] # Null
    <2>1. complete \in [Honest -> Bits \union {Null}]
      BY Zenon DEF Inv, TypeOK
    <2> HIDE DEF decide
    <2> QED
      BY <1>1, <1>2, <2>1, Zenon
  <1>4. \A k \in Honest, b \in Bits :
            completeCounts'[k][b] = IF k = i /\ b = v THEN count ELSE completeCounts[k][b]
    BY <1>1, Zenon DEF Inv, TypeOK
  <1>5. \A k \in Honest : k # i => completeCounts'[k] = completeCounts[k] /\ decision'[k] = decision[k]
    <2>1. decision \in [Honest -> Bits \union {Null}] /\ completeCounts \in [Honest -> [Bits -> SUBSET Nodes]]
      BY Zenon DEF Inv, TypeOK
    <2> HIDE DEF decide, count
    <2> QED
      BY <1>1, <2>1, Zenon
  <1> SUFFICES ASSUME NEW k \in Honest PROVE EndOK(k)'
    BY Zenon DEF EndInv, Honest
  <1>6. EndOK(k)
    BY Zenon DEF EndInv
  <1>7. CASE k # i
    BY <1>1, <1>3, <1>5, <1>6, <1>7, Frame, Zenon
  <1>8. CASE k = i
    <2>1. /\ decision'[i] = IF decide THEN v ELSE Null
          /\ decision'[i] # Null => complete'[i] # Null
      <3>1. decision \in [Honest -> Bits \union {Null}]
        BY Zenon DEF Inv, TypeOK
      <3> HIDE DEF decide
      <3> QED
        BY <1>1, <1>3, <3>1, Zenon
    <2>2. ASSUME decision'[i] = Null, NEW b \in Bits
          PROVE  Cardinality(completeCounts'[i][b]) < CompleteThreshold
      <3>1. CASE b = v
        <4>1. ~decide
          BY <1>2, <2>1, <2>2, Zenon
        <4>2. count \subseteq Nodes
          BY SMTT(30) DEF Inv, TypeOK
        <4>3. Cardinality(count) \in Nat
          BY <4>2, ABAAssumption, FS_Subset, FS_CardinalityType, Zenon
        <4>4. Cardinality(count) < CompleteThreshold
          BY <4>1, <4>3, ABAAssumption, SMTT(30) DEF CompleteThreshold
        <4> QED
          BY <1>4, <3>1, <4>4, Zenon
      <3>2. CASE b # v
        BY <1>1, <1>4, <1>6, <1>8, <3>2 DEF EndOK
      <3> QED
        BY <3>1, <3>2, Zenon
    <2>3. /\ voteResult[i] = NoResult \/ iccResult[i] = Null
          /\ ~blocked[i] => \A r \in Rounds :
                /\ r = round[i] /\ voteOutput[r][i] # NoResult => voteResult[i] # NoResult
                /\ r <= round[i] => voteInput[r][i] # Null
          /\ \A r \in Rounds : r < round[i] /\ voteOutput[r][i].conf = 2 => complete'[i] # Null
      BY <1>3, <1>6, <1>8, Zenon DEF EndOK
    <2>4. UNCHANGED <<round, voteResult, iccResult, blocked, voteInput, voteOutput>>
      BY <1>1, Zenon
    <2>5. decision'[i] # Null => complete'[i] # Null
      BY <2>1, Zenon
    <2> QED
      BY <1>8, <2>2, <2>3, <2>4, <2>5, Zenon DEF EndOK, CompleteThreshold
  <1> QED
    BY <1>7, <1>8, Zenon

\* No step of ABA leaves EndInv.
LEMMA NextEnd == Inv /\ EndInv /\ [Next]_vars => EndInv'
  <1> SUFFICES ASSUME Inv, EndInv, [Next]_vars PROVE EndInv'
    BY Zenon
  <1>1. ASSUME NEW i \in Honest, Start(i) PROVE EndInv'
    <2>1. /\ round[i] = 0 /\ StartRound(i, 1, estimate[i])
          /\ UNCHANGED <<decision, complete, completeCounts, voteOutput>>
      BY <1>1, Zenon DEF Start, done
    <2>2. 1 \in Rounds /\ round[i] \notin Rounds /\ 1 = round[i] + 1
      BY <2>1, ABAAssumption, SMTT(30) DEF Rounds
    <2>3. ~blocked[i] /\ estimate[i] \in Bits
      BY <2>1, Zenon DEF Inv, Mailboxes, TypeOK
    <2> QED
      BY <2>1, <2>2, <2>3, EnterKeepsEnd, Zenon
  <1>2. ASSUME NEW i \in Honest, ~blocked[i], round[i] \in Rounds, round[i] < MaxRound,
               NEW kind, NEW rest, Dispatch(i, kind, round[i], rest)
        PROVE  EndInv'
    BY <1>2, VoteKeepsEnd, IccKeepsEnd, Zenon DEF Dispatch
  <1>3. ASSUME NEW i \in Honest, DispatchBuffered(i) PROVE EndInv'
    <2>1. /\ ~blocked[i] /\ pending[i] # <<>>
          /\ Dispatch(i, Head(pending[i]), round[i], Tail(pending[i]))
      BY <1>3, Zenon DEF DispatchBuffered
    <2>2. round[i] \in Rounds /\ round[i] < MaxRound
      BY <2>1, Zenon DEF Inv, Mailboxes
    <2> QED
      BY <1>2, <2>1, <2>2, Zenon
  <1>4. ASSUME NEW i \in Honest, NEW kind \in Kinds, NEW r \in Rounds, OnMessage(i, kind, r)
        PROVE  EndInv'
    <2>1. ~blocked[i] /\ r < MaxRound
      BY <1>4, Zenon DEF OnMessage, Idle
    <2>2. CASE r <= round[i] /\ Dispatch(i, kind, r, <<>>)
      <3>1. r = round[i]
        BY <2>2, NothingIsLate, Zenon
      <3> QED
        BY <1>2, <2>1, <2>2, <3>1, Zenon
    <2>3. CASE UNCHANGED <<round, estimate, voteResult, iccResult, pending, blocked, done, subs>>
      <3>1. UNCHANGED <<round, voteResult, iccResult, blocked, decision, complete, completeCounts,
                        voteInput, voteOutput>>
        BY <2>3, Zenon DEF done, subs
      <3> QED
        BY <3>1, Zenon DEF EndInv, EndOK
    <2> QED
      BY <1>4, <2>2, <2>3, Zenon DEF OnMessage
  <1>5. ASSUME NEW i \in Honest, OnHonestComplete(i) PROVE EndInv'
    <2>1. PICK j \in Honest : complete[j] # Null /\ OnComplete(i, j, complete[j])
      BY <1>5, Zenon DEF OnHonestComplete
    <2>2. complete[j] \in Bits /\ j \in Nodes
      BY <2>1, Zenon DEF Inv, TypeOK, Honest
    <2> QED
      BY <2>1, <2>2, CompleteKeepsEnd, Zenon
  <1>6. ASSUME NEW i \in Honest, OnFaultyComplete(i) PROVE EndInv'
    <2>1. PICK j \in Faulty, v \in FaultyCompletes : OnComplete(i, j, v)
      BY <1>6, Zenon DEF OnFaultyComplete
    <2>2. j \in Nodes /\ v \in Bits
      BY ABAAssumption, Zenon
    <2> QED
      BY <2>1, <2>2, CompleteKeepsEnd, Zenon
  <1>7. ASSUME NEW k \in Faulty, NEW r \in Rounds, NEW b \in Bits, FaultyVote(k, r, b)
        PROVE  EndInv'
    <2>1. /\ voteInput' = [voteInput EXCEPT ![r][k] = b]
          /\ UNCHANGED <<round, voteResult, iccResult, blocked, decision, complete,
                         completeCounts, voteOutput>>
      BY <1>7, Zenon DEF FaultyVote, node, done
    <2>2. \A s \in Rounds, j \in Honest : voteInput'[s][j] = voteInput[s][j]
      BY <2>1, Zenon DEF Inv, TypeOK, Honest
    <2> SUFFICES ASSUME NEW j \in Honest PROVE EndOK(j)'
      BY Zenon DEF EndInv, Honest
    <2>3. EndOK(j)
      BY Zenon DEF EndInv
    <2> QED
      BY <2>1, <2>2, <2>3, Frame, Zenon
  <1>8. CASE UNCHANGED vars
    <2>1. UNCHANGED <<round, voteResult, iccResult, blocked, decision, complete, completeCounts,
                      voteInput, voteOutput>>
      BY <1>8, Zenon DEF vars, node, done, subs
    <2> QED
      BY <2>1, Zenon DEF EndInv, EndOK
  <1> QED
    BY <1>1, <1>3, <1>4, <1>5, <1>6, <1>7, <1>8, Zenon DEF Next

\* EndInv holds in every run of the round loop.
THEOREM EndInvHolds == Safety => []EndInv
  BY InitEnd, NextEnd, InvHolds, PTL DEF Safety

\* A nonempty set of numbers has a smallest one.
LEMMA Smallest ==
    ASSUME NEW S \in SUBSET Nat, S # {}
    PROVE  \E m \in S : \A n \in S : m <= n
  <1>1. PICK m \in S : \A n \in S : <<n, m>> \notin OpToRel(<, Nat)
    BY NatLessThanWellFounded, WFMin, Zenon
  <1>2. ASSUME NEW n \in S PROVE m <= n
    <2>1. ~ n < m
      BY <1>1, Zenon DEF OpToRel
    <2> QED
      BY <2>1
  <1> QED
    BY <1>2, Zenon

\* With no node blocked and nothing outstanding, every node has gone through all
\* the rounds: the node that is last would otherwise have a result to wait for.
LEMMA LastRound ==
    ASSUME Inv, EndInv, AtRest, \A i \in Honest : Idle(i), NEW i \in Honest
    PROVE  round[i] = MaxRound
  <1> DEFINE S == {round[j] : j \in Honest}
  <1>1. /\ \A j \in Honest : round[j] \in 0..MaxRound /\ round[j] # 0 /\ ~blocked[j]
        /\ S \in SUBSET Nat /\ S # {}
    BY ABAAssumption DEF Inv, TypeOK, AtRest, Idle
  <1>2. PICK m \in S : \A n \in S : m <= n
    BY <1>1, Smallest, Zenon
  <1>3. PICK k \in Honest : m = round[k]
    BY <1>2
  <1>4. m \in Rounds /\ \A j \in Honest : m <= round[j]
    BY <1>1, <1>2, <1>3, ABAAssumption, SMTT(30) DEF Rounds
  <1>5. Honest \subseteq Started(voteInput[m])
    BY <1>1, <1>4, SMTT(30) DEF EndInv, EndOK, Started, Honest
  <1>6. ~ m < MaxRound
    <2> SUFFICES ASSUME m < MaxRound PROVE FALSE
      BY SMTT(30)
    <2>1. voteOutput[m][k] # NoResult /\ iccResult[k] # Null
      BY <1>3, <1>5 DEF AtRest, Outstanding
    <2>2. EndOK(k) /\ ~blocked[k]
      BY <1>1 DEF EndInv
    <2> QED
      BY <1>3, <1>4, <2>1, <2>2, Zenon DEF EndOK
  <1> QED
    BY <1>1, <1>4, <1>6, ABAAssumption, SMTT(30) DEF Rounds

\* The honest nodes are more than T.
LEMMA HonestDecide ==
    ASSUME NEW X, X \subseteq Nodes, Honest \subseteq X
    PROVE  ~ Cardinality(X) < CompleteThreshold
  <1>1. IsFiniteSet(Nodes) /\ IsFiniteSet(X) /\ IsFiniteSet(Faulty) /\ IsFiniteSet(X \union Faulty)
    BY ABAAssumption, FS_Subset, FS_Union
  <1>2. Nodes = X \union Faulty
    BY ABAAssumption DEF Honest
  <1>3. Cardinality(X \union Faulty) <= Cardinality(X) + Cardinality(Faulty)
    <2>1. IsFiniteSet(X \intersect Faulty)
      BY <1>1, FS_Subset
    <2>2. Cardinality(X \union Faulty)
            = Cardinality(X) + Cardinality(Faulty) - Cardinality(X \intersect Faulty)
      BY <1>1, FS_Union
    <2>3. /\ Cardinality(X) \in Nat /\ Cardinality(Faulty) \in Nat
          /\ Cardinality(X \intersect Faulty) \in Nat
      BY <1>1, <2>1, FS_CardinalityType
    <2> QED
      BY <2>2, <2>3
  <1>4. Cardinality(X) \in Nat /\ Cardinality(Faulty) \in Nat /\ Cardinality(Nodes) \in Nat
    BY <1>1, FS_CardinalityType
  <1>5. Cardinality(Nodes) <= Cardinality(X) + Cardinality(Faulty)
    BY <1>2, <1>3
  <1> QED
    BY <1>4, <1>5, ABAAssumption DEF CompleteThreshold

\* The round loop does not stop short: when nothing is outstanding and no node is
\* blocked, the value a node was sure of before the last two rounds is decided by
\* all honest nodes, for any n > 3t, any coins and any number of rounds.
THEOREM DecisionEndsHolds == Safety => []DecisionEnds
  <1>1. Inv /\ EndInv => DecisionEnds
    <2> SUFFICES ASSUME Inv, EndInv, AtRest, \A i \in Honest : Idle(i), NEW b \in Bits, Sure(b),
                        NEW i \in Honest
                 PROVE  decision[i] = b
      BY SMTT(30) DEF DecisionEnds
    <2>1. PICK r \in 1..(MaxRound - 2), h \in Honest : voteOutput[r][h] = Sure2(b)
      BY DEF Sure, Sure2
    <2>2. r \in Rounds /\ r + 1 \in Rounds /\ r < r + 1 /\ r + 1 < MaxRound
      BY ABAAssumption DEF Rounds
    <2>3. SureOf(b) /\ Only(r + 1, b)
      <3>1. voteOutput[r][h].conf = 2 /\ voteOutput[r][h].value = b
        BY <2>1 DEF Sure2
      <3>2. Settled(r, b)
        BY <2>2, <3>1, SureSettles DEF Inv
      <3> QED
        BY <2>1, <2>2, <3>2, SMTT(30) DEF SureOf, Inv, Carried
    <2>4. ASSUME NEW d \in Bits, SureOf(d) PROVE d = b
      BY <2>3, <2>4, OneSure DEF Inv
    <2>5. ASSUME NEW j \in Honest PROVE complete[j] = b
      <3>1. round[j] = MaxRound
        BY LastRound, SMTT(30)
      <3>2. voteOutput[r + 1][j] = Sure2(b)
        BY <2>2, <2>3, <3>1, SMTT(30) DEF Inv, Past, Only
      <3>3. complete[j] # Null
        BY <2>2, <3>1, <3>2 DEF EndInv, EndOK, Sure2
      <3> QED
        BY <2>4, <3>3 DEF Inv, Completes, TypeOK
    <2>6. b # Null
      BY SMTT(30) DEF Bits, Null
    <2>7. decision[i] # Null
      <3> SUFFICES ASSUME decision[i] = Null PROVE FALSE
        BY SMTT(30)
      <3>1. Honest \subseteq completeCounts[i][b]
        BY <2>5, <2>6, SMTT(30) DEF AtRest
      <3>2. completeCounts[i][b] \subseteq Nodes
        BY DEF Inv, TypeOK
      <3> QED
        BY <3>1, <3>2, HonestDecide DEF EndInv, EndOK
    <2> QED
      BY <2>4, <2>7 DEF Inv, Completes, TypeOK
  <1> QED
    BY <1>1, InvHolds, EndInvHolds, PTL
=============================================================================
