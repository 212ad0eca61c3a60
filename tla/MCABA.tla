------------------------------- MODULE MCABA -------------------------------
(* TLC instances of ABA: four nodes, t = 1, the last node faulty.          *)
EXTENDS ABA, TLC

CONSTANTS n1, n2, n3, n4
FourNodes == {n1, n2, n3, n4}

AllOnes == [i \in Nodes |-> {1}]
Split   == [i \in Nodes |-> IF i \in {n1, n2} THEN {1} ELSE {0}]
\* A split, or all ones among the honest nodes.
TwoOnes == [i \in Nodes |-> CASE i \in {n1, n2} -> {1} [] i = n3 -> Bits [] i = n4 -> {0}]

AnyVotes  == {n4} \X (1..MaxRound - 1) \X Bits
ZeroFirst == {<<n4, 1, 0>>}

Symmetry == Permutations({n1, n2})

\* What can still matter: a blocked node does nothing, a node that has decided never
\* reads its counts of COMPLETEs again, and of the vote of a round that is over only
\* who has its result still counts, and who began with which bit (Validity).
LiveState ==
    LET live   == {i \in Honest : ~blocked[i]}
        over   == {r \in Rounds : \A i \in live : round[i] > r}
        input  == [r \in Rounds \ over |-> voteInput[r]]
        output == [r \in Rounds \ over |-> voteOutput[r]]
        who    == [r \in over |-> {i \in Honest : voteOutput[r][i] # NoResult}]
        counts == [i \in {j \in live : decision[j] = Null} |-> completeCounts[i]]
    IN  <<round, voteResult, iccResult, pending, blocked, decision, complete, iccDone,
          [i \in live |-> <<estimate[i], futureMsgs[i]>>], counts,
          [i \in Honest |-> Initial(i)], input, output, who>>
=============================================================================
