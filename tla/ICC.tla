-------------------------------- MODULE ICC --------------------------------
(***************************************************************************)
(* services/icc.go: one round of the inferable common coin at every node.  *)
(*                                                                         *)
(* Below it, IVSS is used by what module IVSS shows of it: the sharing of  *)
(* a live dealer's secrets completes at the nodes in any order, and a      *)
(* secret is reconstructed, with the same value everywhere, only if n-2t   *)
(* nodes reveal their share of it.  A-Cast is used by its promise (module  *)
(* ReliableBroadcast).  Faulty nodes are silent.                           *)
(*                                                                         *)
(* The n secrets of a dealer are one event, the completion of the last of  *)
(* them; so are the secrets y_{k,j}, k in T_j, that make up the value v_j. *)
(* All that matters of the values is which v_j are 0 modulo u.             *)
(***************************************************************************)
EXTENDS Integers, FiniteSets

CONSTANTS
    Nodes,
    T,          \* faults tolerated
    Scenarios   \* pairs of the nodes that take part and the j with v_j = 0

N == Cardinality(Nodes)

ASSUME ICCAssumption ==
    /\ IsFiniteSet(Nodes)
    /\ T \in Nat
    /\ N > 3 * T
    /\ Scenarios \subseteq [live : SUBSET Nodes, zeros : SUBSET Nodes]

NoCoin == -1

VARIABLES
    scenario,
    completed,      \* completed[i]: dealers all of whose secrets i has shared
    myT, myA, myS,  \* {} while sentAttach, sentAccept, sentReconstruct are false
    receivedT,      \* receivedT[i]: nodes whose ATTACH i has delivered
    receivedA,      \* receivedA[i]: nodes whose ACCEPT i has delivered
    receivedFinal,  \* receivedFinal[i]: nodes whose FINAL i has delivered
    reconstructed,  \* reconstructed[i]: the j whose v_j i can compute
    coin,           \* NoCoin until finished
    locked          \* nodes whose loop waits for a mutex that it holds

vars == <<scenario, completed, myT, myA, myS, receivedT, receivedA,
          receivedFinal, reconstructed, coin, locked>>

Live == scenario.live

TypeOK ==
    /\ scenario \in Scenarios
    /\ completed \in [Nodes -> SUBSET Live]
    /\ myT \in [Nodes -> SUBSET Live]
    /\ myA \in [Nodes -> SUBSET Live]
    /\ myS \in [Nodes -> SUBSET Live]
    /\ receivedT \in [Nodes -> SUBSET Live]
    /\ receivedA \in [Nodes -> SUBSET Live]
    /\ receivedFinal \in [Nodes -> SUBSET Live]
    /\ reconstructed \in [Nodes -> SUBSET Live]
    /\ coin \in [Nodes -> {NoCoin, 0, 1}]
    /\ locked \subseteq Live

Init ==
    /\ scenario \in Scenarios
    /\ completed = [i \in Nodes |-> {}]
    /\ myT = [i \in Nodes |-> {}]
    /\ myA = [i \in Nodes |-> {}]
    /\ myS = [i \in Nodes |-> {}]
    /\ receivedT = [i \in Nodes |-> {}]
    /\ receivedA = [i \in Nodes |-> {}]
    /\ receivedFinal = [i \in Nodes |-> {}]
    /\ reconstructed = [i \in Nodes |-> {}]
    /\ coin = [i \in Nodes |-> NoCoin]
    /\ locked = {}

-----------------------------------------------------------------------------

(***************************************************************************)
(* checkProgress, which every handler ends with.  The three sets are each  *)
(* computed once, when they are first large enough, and never again.       *)
(***************************************************************************)

\* OnMessage handles nothing once the coin is out, nor while the loop waits.
Listens(i) == i \in Live /\ coin[i] = NoCoin /\ i \notin locked

\* S, once it has more than n-t elements.
IfMoreThanEnough(S) == IF Cardinality(S) > N - T THEN S ELSE {}

\* S, once it has n-t elements.
IfEnough(S) == IF Cardinality(S) >= N - T THEN S ELSE {}

FormT(i, done) == IF myT[i] # {} THEN myT[i] ELSE IfEnough(done)

\* ATTACHes counted without a look at what they attach.
FormAUnchecked(i, t, attached) ==
    IF myA[i] # {} THEN myA[i]
    ELSE IF t = {} THEN {}
    ELSE IfEnough(attached)

\* t is the new value of myT[i], a that of myA[i], s that of myS[i].
FormA(i, t, attached) ==
    IF myA[i] # {} THEN myA[i]
    ELSE IF t = {} THEN {}
    ELSE IfEnough({j \in attached : myT[j] \subseteq t})

\* ACCEPTs counted without a look at what they accept.
FormSUnchecked(i, a, accepted) ==
    IF myS[i] # {} THEN myS[i]
    ELSE IF a = {} THEN {}
    ELSE IfEnough(accepted)

\* ACCEPTs of more than n-t nodes asked for.
FormSMore(i, a, accepted) ==
    IF myS[i] # {} THEN myS[i]
    ELSE IF a = {} THEN {}
    ELSE IfMoreThanEnough({j \in accepted : myA[j] \subseteq a})

FormS(i, a, accepted) ==
    IF myS[i] # {} THEN myS[i]
    ELSE IF a = {} THEN {}
    ELSE IfEnough({j \in accepted : myA[j] \subseteq a})

\* The instances that startReconstruction locks, one after the other.
startReconstruction(a) == {p \in Live \X a : p[1] \in myT[p[2]]}

\* The number of the v_j that are not 0, for 0 or 1.
CoinByCount(H) == Cardinality(H \ scenario.zeros)

CoinOf(H) == IF H \intersect scenario.zeros # {} THEN 0 ELSE 1

\* checkDecision: the pair (H, S) of j is good enough and all its v are known.
Decides(j, a, s, known) ==
    /\ a # {} /\ s # {}
    /\ myA[j] \subseteq a /\ myS[j] \subseteq s
    /\ myA[j] \subseteq known

\* held: the instance whose mutex the caller holds, if any.
checkProgress(i, held) ==
    LET t     == FormT(i, completed'[i])
        a     == FormA(i, t, receivedT'[i])
        s     == FormS(i, a, receivedA'[i])
        final == {j \in receivedFinal'[i] : Decides(j, a, s, reconstructed'[i])}
        stuck == myS[i] = {} /\ s # {} /\ held \intersect startReconstruction(a) # {}
    IN  /\ myT' = [myT EXCEPT ![i] = t]
        /\ myA' = [myA EXCEPT ![i] = a]
        /\ myS' = [myS EXCEPT ![i] = s]
        /\ locked' = IF stuck THEN locked \union {i} ELSE locked
        /\ IF stuck \/ final = {}
           THEN UNCHANGED coin
           ELSE \E j \in final : coin' = [coin EXCEPT ![i] = CoinOf(myA[j])]
        /\ UNCHANGED scenario

-----------------------------------------------------------------------------

(***************************************************************************)
(* The handlers.                                                           *)
(***************************************************************************)

\* handleIVSSResult, SHARING_COMPLETE: secret idx is the last of dealer k to
\* complete at i.  IVSS delivers the result with the instance's mutex held.
OnSharingComplete(i, k, idx) ==
    /\ Listens(i)
    /\ k \in Live \ completed[i]
    /\ completed' = [completed EXCEPT ![i] = @ \union {k}]
    /\ UNCHANGED <<receivedT, receivedA, receivedFinal, reconstructed>>
    /\ checkProgress(i, {<<k, idx>>})

OnAttach(i, j) ==
    /\ Listens(i)
    /\ j \notin receivedT[i] /\ myT[j] # {}
    /\ receivedT' = [receivedT EXCEPT ![i] = @ \union {j}]
    /\ UNCHANGED <<completed, receivedA, receivedFinal, reconstructed>>
    /\ checkProgress(i, {})

OnAccept(i, j) ==
    /\ Listens(i)
    /\ j \notin receivedA[i] /\ myA[j] # {}
    /\ receivedA' = [receivedA EXCEPT ![i] = @ \union {j}]
    /\ UNCHANGED <<completed, receivedT, receivedFinal, reconstructed>>
    /\ checkProgress(i, {})

OnFinal(i, j) ==
    /\ Listens(i)
    /\ j \notin receivedFinal[i] /\ myS[j] # {}
    /\ receivedFinal' = [receivedFinal EXCEPT ![i] = @ \union {j}]
    /\ UNCHANGED <<completed, receivedT, receivedA, reconstructed>>
    /\ checkProgress(i, {})

\* The nodes that have called StartReconstruction for the secrets of v_j.
Starters(j) == {x \in Live : myS[x] # {} /\ j \in myA[x]}

\* Enough of them to interpolate.
Reconstructible(j) == Cardinality(Starters(j)) >= N - 2 * T

\* handleIVSSResult, RECONSTRUCTED: the last secret of v_j at i.
OnReconstructed(i, j) ==
    /\ Listens(i)
    /\ j \notin reconstructed[i]
    /\ Reconstructible(j)
    /\ reconstructed' = [reconstructed EXCEPT ![i] = @ \union {j}]
    /\ UNCHANGED <<completed, receivedT, receivedA, receivedFinal>>
    /\ checkProgress(i, {})

Step(i) ==
    \E j \in Nodes :
        \/ \E idx \in Nodes : OnSharingComplete(i, j, idx)
        \/ OnAttach(i, j)
        \/ OnAccept(i, j)
        \/ OnFinal(i, j)
        \/ OnReconstructed(i, j)

Next == \E i \in Nodes : Step(i)

Safety == Init /\ [][Next]_vars

Elsewhere(received) == UNION {received[x] : x \in Live}

\* What is sure to reach i.  While all live nodes go on handling messages:
\* every A-Cast, every sharing, and the reconstruction of the secrets that
\* n-t nodes reveal.  A node that has its coin no longer takes part in any
\* A-Cast: then only what has been delivered to some live node is sure to be
\* delivered to the others (totality).
Certain(i) ==
    \/ /\ \A x \in Live : Listens(x)
       /\ \A j \in reconstructed'[i] : Cardinality(Starters(j)) >= N - T
    \/ /\ completed'[i] \subseteq Elsewhere(completed)
       /\ receivedT'[i] \subseteq Elsewhere(receivedT)
       /\ receivedA'[i] \subseteq Elsewhere(receivedA)
       /\ receivedFinal'[i] \subseteq Elsewhere(receivedFinal)
       /\ reconstructed'[i] \subseteq Elsewhere(reconstructed)

Spec == Safety /\ \A i \in Nodes : WF_vars(Step(i) /\ Certain(i))

-----------------------------------------------------------------------------

(***************************************************************************)
(* The properties.                                                         *)
(***************************************************************************)

\* Agreement (pseudocode/icc.md): "All correct processes return the same coin
\* value", although nodes decide on the pairs (H, S) of different nodes, at
\* different times, and A_i, S_i depend on the order of their deliveries.
CoinAgreement ==
    \A i, j \in Live : NoCoin \in {coin[i], coin[j]} \/ coin[i] = coin[j]

\* startReconstruction ignores the error of StartReconstruction.  It never gets
\* one: what T_j names for a j in A_i, node i has itself completed.
SharedBeforeReconstruction ==
    \A i \in Live : myS[i] # {} => \A j \in myA[i] : myT[j] # {} /\ myT[j] \subseteq completed[i]

\* With exactly n-t nodes taking part, as main.go starts them, every one of
\* them gets a coin, although those that have theirs no longer help.
QuorumTerminates ==
    Cardinality(Live) = N - T => <>(\A i \in Live : coin[i] # NoCoin)

\* Of what was sent, and received by some, what is sure to reach every live node
\* (see Certain).
Due(sent, received) ==
    IF \A x \in Live : Listens(x) THEN sent ELSE Elsewhere(received)

\* Handling all that is due would change nothing at any node that listens.
AtRest ==
    \A i \in Live : Listens(i) =>
        LET t      == FormT(i, completed[i] \union Due(Live, completed))
            a      == FormA(i, t, receivedT[i] \union Due({j \in Live : myT[j] # {}}, receivedT))
            s      == FormS(i, a, receivedA[i] \union Due({j \in Live : myA[j] # {}}, receivedA))
            finals == receivedFinal[i] \union Due({j \in Live : myS[j] # {}}, receivedFinal)
            known  == reconstructed[i]
                        \union Due({j \in Live : Cardinality(Starters(j)) >= N - T}, reconstructed)
        IN  /\ t = myT[i] /\ a = myA[i] /\ s = myS[i]
            /\ \A j \in finals : ~Decides(j, a, s, known)

\* A round with exactly n-t nodes does not come to rest before every one of them
\* has its coin: no node waits for a mutex it holds, and what the first to decide
\* had received, which it no longer echoes, is enough for all the others.
CoinEnds ==
    Cardinality(Live) = N - T /\ AtRest => \A i \in Live : coin[i] # NoCoin

\* Termination (pseudocode/icc.md): "Terminates with probability 1", here with
\* no faulty node.
Termination ==
    Live = Nodes => <>(\A i \in Live : coin[i] # NoCoin)
============================================================================
