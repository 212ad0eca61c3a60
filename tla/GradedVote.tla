----------------------------- MODULE GradedVote -----------------------------
(***************************************************************************)
(* What one round of Vote promises ABA, as a specification: nodes bring a  *)
(* bit each, and an honest node finishes with a result that the bits       *)
(* justify and that is compatible with the results already out.            *)
(***************************************************************************)
EXTENDS Grading

CONSTANT Honest

VARIABLES input,    \* the bit a node brought, or Null
          result    \* the result of an honest node, or NoResult

vars == <<input, result>>

Init ==
    /\ input = [i \in Nodes |-> Null]
    /\ result = [i \in Honest |-> NoResult]

Bring(i, b) ==
    /\ input[i] = Null
    /\ input' = [input EXCEPT ![i] = b]
    /\ UNCHANGED result

Finish(i, p) ==
    /\ result[i] = NoResult
    /\ result' = [result EXCEPT ![i] = p]
    /\ UNCHANGED input
    /\ Justified(p, input)
    /\ \A j \in Honest : result[j] # NoResult => Compatible(p, result[j])

Next ==
    \/ \E i \in Nodes, b \in Bits : Bring(i, b)
    \/ \E i \in Honest, p \in VoteResult : Finish(i, p)

Safety == Init /\ [][Next]_vars

\* Once every honest node takes part, every honest node finishes.
Spec ==
    /\ Safety
    /\ \A i \in Honest :
          WF_vars(Honest \subseteq Started(input) /\ \E p \in VoteResult : Finish(i, p))
=============================================================================
