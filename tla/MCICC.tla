------------------------------- MODULE MCICC -------------------------------
(***************************************************************************)
(* TLC instances of ICC: four nodes, t = 1.                                *)
(*                                                                         *)
(* A delivery changes nothing but a received set until it lets the node    *)
(* form its next set or decide.  Deliveries are therefore taken together   *)
(* with the one that has an effect, and those that never have one are left *)
(* out: a step of a node below is a sequence of handlers of which only the *)
(* last makes progress.                                                    *)
(***************************************************************************)
EXTENDS ICC, FiniteSetsExt

Quorums(S) == kSubset(N - T, S)

\* The ATTACHes, ACCEPTs buffered before there is a T_i (A_i) to compare with:
\* none that matters, or enough that fit.
Attached(i, t) ==
    {{}} \union {X \in SUBSET {j \in Nodes : myT[j] # {}} : FormA(i, t, X) = X}
Accepted(i, a) ==
    {{}} \union {Y \in SUBSET {j \in Nodes : myA[j] # {}} : FormS(i, a, Y) = Y}

Attach(i) ==
    /\ Listens(i) /\ myT[i] = {}
    /\ \E D \in Quorums(Live) : \E X \in Attached(i, D) : \E Y \in Accepted(i, X) :
        /\ completed' = [completed EXCEPT ![i] = D]
        /\ receivedT' = [receivedT EXCEPT ![i] = X]
        /\ receivedA' = [receivedA EXCEPT ![i] = Y]
        /\ UNCHANGED <<receivedFinal, reconstructed>>
        /\ \E k \in D, idx \in Nodes : checkProgress(i, {<<k, idx>>})

Accept(i) ==
    /\ Listens(i) /\ myT[i] # {} /\ myA[i] = {}
    /\ \E X \in Quorums({j \in Nodes : myT[j] # {}}) : \E Y \in Accepted(i, X) :
        /\ FormA(i, myT[i], X) = X
        /\ receivedT' = [receivedT EXCEPT ![i] = X]
        /\ receivedA' = [receivedA EXCEPT ![i] = Y]
        /\ UNCHANGED <<completed, receivedFinal, reconstructed>>
        /\ checkProgress(i, {})

Enable(i) ==
    /\ Listens(i) /\ myA[i] # {} /\ myS[i] = {}
    /\ \E Y \in Quorums({j \in Nodes : myA[j] # {}}) :
        /\ FormS(i, myA[i], Y) = Y
        /\ receivedA' = [receivedA EXCEPT ![i] = Y]
        /\ UNCHANGED <<completed, receivedT, receivedFinal, reconstructed>>
        /\ checkProgress(i, {})

Decide(i) ==
    /\ Listens(i) /\ myS[i] # {}
    /\ \E j \in Nodes :
        /\ myS[j] # {} /\ Decides(j, myA[i], myS[i], myA[j])
        /\ \A k \in myA[j] : Reconstructible(k)
        /\ receivedFinal' = [receivedFinal EXCEPT ![i] = {j}]
        /\ reconstructed' = [reconstructed EXCEPT ![i] = myA[j]]
        /\ UNCHANGED <<completed, receivedT, receivedA>>
        /\ checkProgress(i, {})

MCStep(i) == Attach(i) \/ Accept(i) \/ Enable(i) \/ Decide(i)
MCNext    == \E i \in Nodes : MCStep(i)
MCSafety  == Init /\ [][MCNext]_vars
MCSpec    == MCSafety /\ \A i \in Nodes : WF_vars(MCStep(i) /\ Certain(i))

\* Fairness only where QuorumTerminates asks for it: the rest is safety.
MCQuorumSpec ==
    MCSafety /\ \A i \in Nodes : WF_vars(Cardinality(Live) = N - T /\ MCStep(i) /\ Certain(i))

Quorum == [live |-> {1, 2, 3}, zeros |-> {1}]
All    == [live |-> Nodes, zeros |-> {4}]

QuorumAndAll == {Quorum, All}
AllLive      == {All}
=============================================================================
