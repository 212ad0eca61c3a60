-------------------------------- MODULE IVSS --------------------------------
(***************************************************************************)
(* services/ivss.go with services/certification.go: one instance of        *)
(* inferable verifiable secret sharing, from the dealer's shares to the    *)
(* reconstructed secret, at every node that takes part.                    *)
(*                                                                         *)
(* A-Cast is used by its promise (module ReliableBroadcast): what a node   *)
(* A-Casts is delivered, once, to every live node, in any order.  The one  *)
(* exception is the M-set: all M-sets of an instance are A-Cast under the  *)
(* same UUID, so which one is delivered, if any, depends on the MSG that   *)
(* each node echoes; its ECHO step is therefore explicit.                  *)
(*                                                                         *)
(* A scenario fixes what does not depend on the schedule: who takes part,  *)
(* the polynomial the dealer hands to each node (an honest dealer: the     *)
(* slices of one symmetric polynomial), the polynomial each node reveals,  *)
(* and the faulty pairs each node already knows from earlier instances     *)
(* (its CertificationProtocol is shared by all instances).                 *)
(*                                                                         *)
(* So a faulty node may be silent, deal shares that fit no polynomial,     *)
(* reveal another polynomial than its share, or have a history of its own. *)
(* Otherwise it follows the code: its points lie on its share, it A-Casts  *)
(* EQUAL for the points that fit, M-sets that the greedy search finds, and *)
(* READY when it has a secret.  The code would take any such message.      *)
(***************************************************************************)
EXTENDS Polynomial, FiniteSets

CONSTANTS
    N,          \* number of nodes, numbered 1..N
    T,          \* faults tolerated
    Dealer,
    Scenarios

Nodes == 1..N

\* What StartSharing can send: the slices of one symmetric polynomial.
HonestShares ==
    {[k \in Nodes |-> GetUnivariatePolynomial(F, k)]
        : F \in UNION {SymmetricPolynomials(T, c) : c \in Field}}

ASSUME IVSSAssumption ==
    /\ N \in Nat /\ T \in Nat /\ N > 3 * T /\ Prime > N
    /\ Dealer \in Nodes
    /\ \A s \in Scenarios :
        /\ s.honest <=> s.share \in HonestShares
        /\ s.live \subseteq Nodes
        /\ s.share \in [Nodes -> [1..(T + 1) -> Field]]
        /\ s.reveal \in [Nodes -> [1..(T + 1) -> Field]]
        /\ s.fp \in [Nodes -> SUBSET SUBSET Nodes]

NoSecret == -1

VARIABLES
    scenario,
    shared,             \* nodes with receivedPoly # nil
    receivedPoints,     \* receivedPoints[i]: nodes whose point has reached i
    earlyPoints,        \* those that came before the share of i
    equals,             \* EQUAL pairs A-Cast so far
    completedEquals,    \* completedEquals[i]: those delivered to i
    msets,              \* M-sets the dealer has A-Cast so far
    echoed,             \* echoed[i]: the one whose MSG i has echoed, or {}
    pendingMSet,        \* {} for nil
    mSet,               \* {} for nil; sharingCompleted is mSet[i] # {}
    revealed,           \* nodes that have A-Cast REVEAL
    reconstructedPolys, \* reconstructedPolys[i]: REVEALs delivered to i
    fp,                 \* fp[i]: the faulty pairs of the node's certification
    secret,             \* secret[i] or NoSecret for nil
    ready,              \* nodes that have A-Cast READY
    readyToComplete,    \* readyToComplete[i]: READYs delivered to i
    output              \* the secret sent up in RECONSTRUCTED, or NoSecret

sharingVars == <<shared, receivedPoints, earlyPoints, equals>>
msetVars    == <<completedEquals, msets, echoed, pendingMSet, mSet>>
revealVars  == <<revealed, reconstructedPolys, fp, secret>>
readyVars   == <<ready, readyToComplete, output>>
vars == <<scenario, sharingVars, msetVars, revealVars, readyVars>>

Live == scenario.live

TypeOK ==
    /\ scenario \in Scenarios
    /\ shared \subseteq Live
    /\ receivedPoints \in [Nodes -> SUBSET Nodes]
    /\ earlyPoints \in [Nodes -> SUBSET Nodes]
    /\ \A i \in Nodes : earlyPoints[i] \subseteq receivedPoints[i]
    /\ equals \subseteq Live \X Live
    /\ completedEquals \in [Nodes -> SUBSET (Nodes \X Nodes)]
    /\ \A i \in Nodes : completedEquals[i] \subseteq equals
    /\ msets \subseteq SUBSET Nodes
    /\ echoed \in [Nodes -> msets \union {{}}]
    /\ pendingMSet \in [Nodes -> msets \union {{}}]
    /\ mSet \in [Nodes -> msets \union {{}}]
    /\ revealed \subseteq Live
    /\ reconstructedPolys \in [Nodes -> SUBSET revealed]
    /\ fp \in [Nodes -> SUBSET SUBSET Nodes]
    /\ secret \in [Nodes -> Field \union {NoSecret}]
    /\ ready \subseteq Live
    /\ readyToComplete \in [Nodes -> SUBSET ready]
    /\ output \in [Nodes -> Field \union {NoSecret}]

Init ==
    /\ scenario \in Scenarios
    /\ shared = {}
    /\ receivedPoints = [i \in Nodes |-> {}]
    /\ earlyPoints = [i \in Nodes |-> {}]
    /\ equals = {}
    /\ completedEquals = [i \in Nodes |-> {}]
    /\ msets = {}
    /\ echoed = [i \in Nodes |-> {}]
    /\ pendingMSet = [i \in Nodes |-> {}]
    /\ mSet = [i \in Nodes |-> {}]
    /\ revealed = {}
    /\ reconstructedPolys = [i \in Nodes |-> {}]
    /\ fp = scenario.fp
    /\ secret = [i \in Nodes |-> NoSecret]
    /\ ready = {}
    /\ readyToComplete = [i \in Nodes |-> {}]
    /\ output = [i \in Nodes |-> NoSecret]

-----------------------------------------------------------------------------

(***************************************************************************)
(* Sharing: shares, points and EQUALs.                                     *)
(***************************************************************************)

\* Does the point f_j(i) that j sends lie on the polynomial of i?
processPoint(i, j) == Evaluate(scenario.share[i], j) = Evaluate(scenario.share[j], i)

\* A share that forgets the points that came before it.
OnShareForgetful(i) ==
    /\ Dealer \in Live
    /\ i \in Live \ shared
    /\ shared' = shared \union {i}
    /\ earlyPoints' = [earlyPoints EXCEPT ![i] = {}]
    /\ UNCHANGED <<scenario, receivedPoints, equals, msetVars, revealVars, readyVars>>

\* StartSharing has broadcast the shares; Direct_Share reaches i, which sends
\* its points to all and goes through the points that came early.
OnShare(i) ==
    /\ Dealer \in Live
    /\ i \in Live \ shared
    /\ shared' = shared \union {i}
    /\ equals' = equals \union {<<i, j>> : j \in {k \in earlyPoints[i] : processPoint(i, k)}}
    /\ earlyPoints' = [earlyPoints EXCEPT ![i] = {}]
    /\ UNCHANGED <<scenario, receivedPoints, msetVars, revealVars, readyVars>>

\* A point that is answered with EQUAL whatever it is.
OnPointUnchecked(i, j) ==
    /\ i \in Live
    /\ j \in shared \ receivedPoints[i]
    /\ receivedPoints' = [receivedPoints EXCEPT ![i] = @ \union {j}]
    /\ equals' = equals \union {<<i, j>>}
    /\ UNCHANGED <<scenario, shared, earlyPoints, msetVars, revealVars, readyVars>>

\* Direct_Point from j reaches i.
OnPoint(i, j) ==
    /\ i \in Live
    /\ j \in shared \ receivedPoints[i]
    /\ receivedPoints' = [receivedPoints EXCEPT ![i] = @ \union {j}]
    /\ IF i \in shared
       THEN /\ equals' = equals \union {e \in {<<i, j>>} : processPoint(i, j)}
            /\ UNCHANGED earlyPoints
       ELSE /\ earlyPoints' = [earlyPoints EXCEPT ![i] = @ \union {j}]
            /\ UNCHANGED equals
    /\ UNCHANGED <<scenario, shared, msetVars, revealVars, readyVars>>

-----------------------------------------------------------------------------

(***************************************************************************)
(* Sharing: the M-set.                                                     *)
(***************************************************************************)

AddFaultyPairs(pairs, P) == pairs \union {{p[1], p[2]} : p \in P}
IsFaultyPair(i, u, v) == {u, v} \in fp[i]

\* Both EQUALs of the pair are in E and the pair is not known to be faulty.
MayPair(i, E, u, v) == <<u, v>> \in E /\ <<v, u>> \in E /\ ~IsFaultyPair(i, u, v)

\* The greedy set of checkCandidateSet: of 1, 2, .. N, each is in exactly if it
\* pairs with all that are in before it.
IsCandidateSet(i, E, M) ==
    \A c \in Nodes : c \in M <=> \A m \in M : m < c => MayPair(i, E, c, m)

\* The M-sets that a delivery of an EQUAL makes the dealer A-Cast.  A node
\* knows that it is the dealer once its own share has come back to it.
checkCandidateSet(i, E) ==
    {M \in SUBSET Nodes :
        /\ i = Dealer /\ i \in shared
        /\ mSet[i] = {}
        /\ IsCandidateSet(i, E, M)
        /\ Cardinality(M) >= N - T}

verifyMSet(i, E, M) ==
    /\ Cardinality(M) >= N - T
    /\ \A u, v \in M : u # v => MayPair(i, E, u, v)

\* An EQUAL after which the pending M-set is not looked at again.
OnEqualForgetful(i, e) ==
    LET E == completedEquals[i] \union {e}
    IN  /\ i \in Live
        /\ e \in equals \ completedEquals[i]
        /\ completedEquals' = [completedEquals EXCEPT ![i] = E]
        /\ msets' = msets \union checkCandidateSet(i, E)
        /\ UNCHANGED <<scenario, echoed, pendingMSet, mSet, sharingVars, revealVars, readyVars>>

OnEqual(i, e) ==
    LET E        == completedEquals[i] \union {e}
        complete == pendingMSet[i] # {} /\ mSet[i] = {} /\ verifyMSet(i, E, pendingMSet[i])
    IN  /\ i \in Live
        /\ e \in equals \ completedEquals[i]
        /\ completedEquals' = [completedEquals EXCEPT ![i] = E]
        /\ msets' = msets \union checkCandidateSet(i, E)
        /\ IF complete
           THEN /\ mSet' = [mSet EXCEPT ![i] = pendingMSet[i]]
                /\ pendingMSet' = [pendingMSet EXCEPT ![i] = {}]
           ELSE UNCHANGED <<mSet, pendingMSet>>
        /\ UNCHANGED <<scenario, echoed, sharingVars, revealVars, readyVars>>

\* AcastService at i answers the first MSG of the M-set's UUID with an ECHO.
EchoMSet(i, M) ==
    /\ i \in Live
    /\ M \in msets
    /\ echoed[i] = {}
    /\ echoed' = [echoed EXCEPT ![i] = M]
    /\ UNCHANGED <<scenario, completedEquals, msets, pendingMSet, mSet,
                   sharingVars, revealVars, readyVars>>

\* n-t nodes have echoed M: A-Cast delivers it to every live node.
EchoQuorum(M) == Cardinality({x \in Live : echoed[x] = M}) >= N - T

OnMSet(i, M) ==
    /\ i \in Live
    /\ M \in msets
    /\ EchoQuorum(M)
    /\ pendingMSet[i] = {} /\ mSet[i] = {}
    /\ IF verifyMSet(i, completedEquals[i], M)
       THEN /\ mSet' = [mSet EXCEPT ![i] = M]
            /\ UNCHANGED pendingMSet
       ELSE /\ pendingMSet' = [pendingMSet EXCEPT ![i] = M]
            /\ UNCHANGED mSet
    /\ UNCHANGED <<scenario, completedEquals, msets, echoed,
                   sharingVars, revealVars, readyVars>>

-----------------------------------------------------------------------------

(***************************************************************************)
(* Reconstruction.                                                         *)
(***************************************************************************)

\* StartReconstruction at a member of the M-set; it fails before the sharing
\* is complete and does nothing at the other nodes.
StartReconstruction(i) ==
    /\ i \in Live \ revealed
    /\ mSet[i] # {}
    /\ i \in mSet[i]
    /\ revealed' = revealed \union {i}
    /\ UNCHANGED <<scenario, reconstructedPolys, fp, secret,
                   sharingVars, msetVars, readyVars>>

\* Each polynomial evaluated at its own index.
isConsistentAtOwn(u, v) ==
    Evaluate(scenario.reveal[u], u) = Evaluate(scenario.reveal[v], v)

isConsistent(u, v) ==
    Evaluate(scenario.reveal[u], v) = Evaluate(scenario.reveal[v], u)

\* The members of valid that come before c and that c does not fit.
Conflicts(rank, valid, c) == {m \in valid : rank[m] < rank[c] /\ ~isConsistent(c, m)}

\* The greedy pass over the revealed polynomials in the order of rank ends with
\* the validSet in which each is exactly if it fits all that are in before it.
IsInterpolationSet(rank, valid) ==
    \A c \in DOMAIN rank : c \in valid <=> Conflicts(rank, valid, c) = {}

\* A pass that skips what does not fit and does not record it.
FirstConflictsSilent(rank, valid) == {}

\* The pairs it marks: each that is left out, with the first it fails against.
FirstConflicts(rank, valid) ==
    {p \in (DOMAIN rank \ valid) \X valid :
        LET conflicts == Conflicts(rank, valid, p[1])
        IN  p[2] \in conflicts /\ \A m \in conflicts : rank[p[2]] <= rank[m]}

\* checkInterpolationSet at i once P is its set of delivered REVEALs.  The
\* code goes through a Go map: the order is any.
checkInterpolationSet(i, P) ==
    LET candidates == P \intersect mSet[i]
    IN  IF mSet[i] = {} \/ Cardinality(candidates) < N - 2 * T
        THEN UNCHANGED <<fp, secret, ready>>
        ELSE \E rank \in Bijection(candidates, 1..Cardinality(candidates)),
                valid \in SUBSET candidates :
                /\ IsInterpolationSet(rank, valid)
                /\ fp' = [fp EXCEPT ![i] = AddFaultyPairs(@, FirstConflicts(rank, valid))]
                /\ IF Cardinality(valid) >= N - 2 * T
                   THEN /\ secret' = [secret EXCEPT ![i] = InterpolateAtZero(
                                [u \in valid |-> Evaluate(scenario.reveal[u], 0)])]
                        /\ ready' = ready \union {i}
                   ELSE UNCHANGED <<secret, ready>>

OnReveal(i, j) ==
    /\ i \in Live
    /\ j \in revealed \ reconstructedPolys[i]
    /\ reconstructedPolys' = [reconstructedPolys EXCEPT ![i] = @ \union {j}]
    /\ checkInterpolationSet(i, reconstructedPolys'[i])
    /\ UNCHANGED <<scenario, revealed, readyToComplete, output, sharingVars, msetVars>>

OnReady(i, j) ==
    /\ i \in Live
    /\ j \in ready \ readyToComplete[i]
    /\ readyToComplete' = [readyToComplete EXCEPT ![i] = @ \union {j}]
    /\ output' = IF /\ Cardinality(readyToComplete'[i]) >= N - T
                    /\ output[i] = NoSecret
                 THEN [output EXCEPT ![i] = secret[i]]
                 ELSE output
    /\ UNCHANGED <<scenario, ready, sharingVars, msetVars, revealVars>>

Step(i) ==
    \/ OnShare(i)
    \/ \E j \in Nodes : OnPoint(i, j)
    \/ \E e \in equals : OnEqual(i, e)
    \/ \E M \in msets : EchoMSet(i, M) \/ OnMSet(i, M)
    \/ StartReconstruction(i)
    \/ \E j \in Nodes : OnReveal(i, j) \/ OnReady(i, j)

Next == \E i \in Nodes : Step(i)

Spec == Init /\ [][Next]_vars

-----------------------------------------------------------------------------

(***************************************************************************)
(* The properties.                                                         *)
(***************************************************************************)

\* Nodes that reveal another polynomial than the dealer gave them.
Liars == {i \in Nodes : scenario.reveal[i] # scenario.share[i]}

\* A false polynomial that happens to fit that of another node.
LiesFit ==
    \E i \in Liars, j \in Nodes \ Liars : i # j /\ isConsistent(i, j)

\* verifyMSet at different nodes, at different times, on EQUALs that arrive in
\* any order: all nodes complete with one and the same M-set, and its members
\* hold shares that fit pairwise, so that REVEAL never carries a nil polynomial.
MSetIsSound ==
    LET accepted == {mSet[i] : i \in Live} \ {{}}
    IN  /\ Cardinality(accepted) <= 1
        /\ \A M \in accepted : M \subseteq shared /\ \A u, v \in M : processPoint(u, v)

\* checkInterpolationSet recomputes the secret at each REVEAL, from whatever
\* set it has then: it is always the constant term of the one symmetric
\* polynomial that the shares of the M-set lie on, at every node, even if the
\* dealer gave some nodes a share off that polynomial and even if a member of
\* the M-set reveals a false one (that fits no other).
SecretIsShared ==
    LiesFit \/ \A r \in {<<mSet[i], secret[i]>> : i \in {j \in Live : secret[j] # NoSecret}} :
        \E F \in SymmetricPolynomials(T, r[2]) :
            \A u \in r[1] : GetUnivariatePolynomial(F, u) = scenario.share[u]

\* Soundness (pseudocode/certification.md): "If {i,j} in FP, then at least one
\* is Byzantine", although a node marks pairs from its own REVEALs in the
\* order of a Go map, and the dealer may have given honest nodes bad shares.
FaultyPairsAreFaulty ==
    \A i \in Live : \A pair \in fp[i] \ scenario.fp[i] : pair \intersect Liars # {}

\* All that was sent has been delivered and every member of the M-set has
\* been asked to reconstruct.  A delivery happens once, so every fair behaviour
\* comes to such a state and stays there: what must happen has happened.
AtRest ==
    /\ Dealer \in Live => shared = Live
    /\ \A i \in Live :
        /\ receivedPoints[i] = shared
        /\ completedEquals[i] = equals
        /\ msets # {} => echoed[i] # {}
        /\ \A M \in msets : EchoQuorum(M) => M \in {pendingMSet[i], mSet[i]}
        /\ i \in mSet[i] => i \in revealed
        /\ reconstructedPolys[i] = revealed
        /\ readyToComplete[i] = ready

\* The I of IVSS (docs/index.html): in the end the nodes have reconstructed
\* the same secret, or every correct member of the M-set knows a new faulty pair.
\* The docs promise t(n-3t) pairs, which is one for n = 4.  Nodes without an output
\* are not compared: whether there is one is the subject of ReconstructionEnds.
Inferable ==
    AtRest =>
        \/ \A i, j \in Live : NoSecret \in {output[i], output[j]} \/ output[i] = output[j]
        \/ \A i \in Live \ Liars : i \in mSet[i] => fp[i] # scenario.fp[i]

\* Honest dealer, live, and no history that would make the nodes disagree.
CleanStart ==
    /\ scenario.honest
    /\ Dealer \in Live /\ Cardinality(Live) >= N - T
    /\ \A i \in Nodes : scenario.fp[i] = {}

\* Sharing comes to an end at every live node if node 1 is among them (the
\* greedy set always starts with 1) and the dealer has not A-Cast a second,
\* different M-set under the same UUID.
SharingEnds ==
    AtRest /\ CleanStart /\ 1 \in Live =>
        Cardinality(msets) > 1 \/ \A i \in Live : mSet[i] # {}

\* One node has completed: every live node completes, even one that got the
\* M-set before the EQUALs it needs and had to keep it pending; and every
\* member of the M-set reconstructs the secret, even one that sees n-t READYs
\* before it can interpolate, or REVEALs before its own sharing is complete
\* (OnReveal does not come back to those; its own REVEAL does).
ReconstructionEnds ==
    AtRest /\ CleanStart /\ Liars = {} /\ (\E i \in Live : mSet[i] # {}) =>
        \A i \in Live : mSet[i] # {} /\ (i \in mSet[i] => output[i] # NoSecret)
=============================================================================
