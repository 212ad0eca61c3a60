------------------------------- MODULE MCIVSS -------------------------------
(***************************************************************************)
(* TLC instances of IVSS: four nodes, t = 1, the field of five elements,   *)
(* dealer 1.                                                               *)
(*                                                                         *)
(* Most deliveries commute with everything but one or two others.  Each    *)
(* scenario names in "late" the deliveries that are explored in every      *)
(* order; the others happen as soon as they can, in a fixed order.  A      *)
(* REVEAL that is not late waits for the M-set of its receiver.            *)
(***************************************************************************)
EXTENDS IVSS

F1 == <<<<3, 1>>, <<1, 2>>>>
F2 == <<<<0, 4>>, <<4, 1>>>>

Deal(F)  == [k \in Nodes |-> GetUnivariatePolynomial(F, k)]
Shift(p) == [p EXCEPT ![1] = (@ + 1) % Prime]
\* Another polynomial with the same value at x.
Turn(p, x) == <<(p[1] - x) % Prime, (p[2] + 1) % Prime>>

NoHistory == [i \in Nodes |-> {}]

\* What is explored in every order: shares, the second EQUAL of each pair at
\* the dealer, one EQUAL at node 3, ECHOs of the M-set, M-sets and REVEALs at some nodes.
Late(share, equal, echo, mset, reveals) ==
    [share |-> share, equal |-> equal, echo |-> echo, mset |-> mset, reveals |-> reveals]

Honest(live, F, late) ==
    [honest |-> TRUE, live |-> live, share |-> Deal(F), reveal |-> Deal(F), fp |-> NoHistory, late |-> late]

\* All take part.
AllLive == Honest(Nodes, F1, Late(FALSE, TRUE, TRUE, {4}, {4}))
\* As main.go starts them: the last t nodes are silent.
Quorum == Honest(1..(N - T), F2, Late(TRUE, TRUE, TRUE, {3}, 1..(N - T)))
\* The dealer gives one node a share that fits no other, or only that of node 1.
BadShare(k)  == [Honest(Nodes, F1, Late(FALSE, TRUE, TRUE, {k}, {k}))
                    EXCEPT !.honest = FALSE, !.share[k] = Shift(@), !.reveal[k] = Shift(@)]
OddShare(k)  == [Honest(Nodes, F1, Late(FALSE, TRUE, TRUE, {k}, {k}))
                    EXCEPT !.honest = FALSE, !.share[k] = Turn(@, 1), !.reveal[k] = Turn(@, 1)]
\* A node reveals a polynomial that fits no other, or only that of node 1.
BadReveal(k) == [Honest(Nodes, F2, Late(FALSE, FALSE, FALSE, {}, {1, 2}))
                    EXCEPT !.reveal[k] = Shift(@)]
OddReveal(k) == [Honest(Nodes, F2, Late(FALSE, FALSE, FALSE, {}, {1, 2}))
                    EXCEPT !.reveal[k] = Turn(@, 1)]
\* The nodes have caught node 4 before, with different partners.
History == [Honest(Nodes, F1, Late(FALSE, TRUE, TRUE, {}, {}))
                    EXCEPT !.fp = <<{{2, 4}}, {{3, 4}}, {{1, 4}}, {}>>]

AllScenarios ==
    {AllLive, Quorum, BadShare(3), OddShare(4), BadReveal(3), OddReveal(3), History}

-----------------------------------------------------------------------------

late == scenario.late

LateEqual(i, e) ==
    /\ late.equal
    /\ \/ i = Dealer /\ e[1] < e[2]
       \/ i = 3 /\ e = <<1, 2>>

DuePoints  == {p \in Live \X shared : p[2] \notin receivedPoints[p[1]]}
DueShares  == IF late.share \/ Dealer \notin Live THEN {} ELSE Live \ shared
DueEquals  == {p \in Live \X equals : p[2] \notin completedEquals[p[1]] /\ ~LateEqual(p[1], p[2])}
DueEchoes  == {p \in Live \X msets : ~late.echo /\ echoed[p[1]] = {}}
DueMSets   == {p \in Live \X msets : /\ p[1] \notin late.mset /\ EchoQuorum(p[2])
                                     /\ pendingMSet[p[1]] = {} /\ mSet[p[1]] = {}}
DueStarts  == {i \in Live : i \in mSet[i] \ revealed}
DueReveals == {p \in Live \X revealed : /\ p[2] \notin reconstructedPolys[p[1]]
                                        /\ mSet[p[1]] # {} /\ p[1] \notin late.reveals}
DueReadys  == {p \in Live \X ready : p[2] \notin readyToComplete[p[1]]}

First(S) == CHOOSE x \in S : TRUE

MCNext ==
    IF DuePoints # {} THEN LET p == First(DuePoints) IN OnPoint(p[1], p[2])
    ELSE IF DueShares # {} THEN OnShare(First(DueShares))
    ELSE IF DueEquals # {} THEN LET p == First(DueEquals) IN OnEqual(p[1], p[2])
    ELSE IF DueEchoes # {} THEN LET p == First(DueEchoes) IN EchoMSet(p[1], p[2])
    ELSE IF DueMSets # {} THEN LET p == First(DueMSets) IN OnMSet(p[1], p[2])
    ELSE IF DueStarts # {} THEN StartReconstruction(First(DueStarts))
    ELSE IF DueReveals # {} THEN LET p == First(DueReveals) IN OnReveal(p[1], p[2])
    ELSE IF DueReadys # {} THEN LET p == First(DueReadys) IN OnReady(p[1], p[2])
    ELSE \E i \in Nodes :
        \/ OnShare(i)
        \/ \E e \in equals : OnEqual(i, e)
        \/ \E M \in msets : EchoMSet(i, M) \/ OnMSet(i, M)
        \/ i \in late.reveals /\ \E j \in Nodes : OnReveal(i, j)

MCSpec == Init /\ [][MCNext]_vars
=============================================================================
