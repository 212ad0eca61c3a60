------------------------------- MODULE MCVote -------------------------------
(***************************************************************************)
(* TLC instances of Vote: four nodes, t = 1.                               *)
(*                                                                         *)
(* A delivery that does not complete a phase changes nothing but the keys  *)
(* in the node's own maps, and what it delivers stays available: it can be *)
(* put off until just before the delivery that completes the node's next   *)
(* phase.  BatchedNext takes these deliveries in one step; the payloads    *)
(* sent and the results are those of Next.                                 *)
(***************************************************************************)
EXTENDS Vote, TLC

CONSTANTS n1, n2, n3, n4
FourNodes == {n1, n2, n3, n4}

AnyBit == [i \in Nodes |-> Bits]
\* Two ones, a zero, and a node that makes it a 3-to-1 majority or a split.
ThreeOrTwo == [i \in Nodes |-> CASE i \in {n1, n2} -> {1} [] i = n3 -> Bits [] OTHER -> {0}]
OneDissenter == [i \in Nodes |-> IF i \in Honest THEN {1} ELSE {0}]

AnySet == SUBSET Nodes
OnesAndLast == {{n1, n2, n4}}

Symmetry == Permutations(Honest)
\* ThreeOrTwo and OnesAndLast do not tell n1 from n2.
PairSymmetry == Permutations({n1, n2})

\* Nothing of a finished node is read again but what it cast and its result.
LiveState ==
    LET Live(f) == [i \in Honest |-> IF result[i] = NoResult THEN f[i] ELSE {}]
    IN  <<input, vote1, revote, result, Live(gotInput), Live(gotVote1), Live(gotRevote)>>

\* No phase of i is due with these keys.
Quiet(i, inputs, vote1s, revotes) ==
    LET valid == ValidVote1s(inputs, vote1s)
    IN  CASE vote1[i] = NoVote  -> ~Quorum(inputs)
          [] vote1[i] # NoVote /\ revote[i] = NoVote -> ~Quorum(valid)
          [] OTHER -> ~Quorum(ValidRevotes(valid, revotes))

\* i has new keys delivered, the last of which makes a phase due.
DeliverBatch(i, inputs, vote1s, revotes) ==
    /\ ~Quiet(i, inputs, vote1s, revotes)
    /\ \/ \E j \in inputs \ gotInput[i] : Quiet(i, inputs \ {j}, vote1s, revotes)
       \/ \E j \in vote1s \ gotVote1[i] : Quiet(i, inputs, vote1s \ {j}, revotes)
       \/ \E j \in revotes \ gotRevote[i] : Quiet(i, inputs, vote1s, revotes \ {j})
    /\ CheckProgress(i, inputs, vote1s, revotes)
    /\ UNCHANGED input

\* What a batch adds to the keys a node has: nothing, or enough for a phase.
Choices(have, all) == {have} \union {S \in {have \union X : X \in SUBSET all} : Quorum(S)}
InputsFor(i, vote1s) == gotInput[i] \union UNION {vote1[j].set : j \in vote1s}
Vote1sFor(i, revotes) == gotVote1[i] \union UNION {revote[j].set : j \in revotes}
Vote1sWithin(inputs) == ValidVote1s(inputs, Vote1s)
RevotesWithin(vote1s) == ValidRevotes(vote1s, Revotes)

\* Only what the phases completed by the batch look at need be in it: the first
\* of them chooses its set, and later ones theirs within it.
DeliverSome(i) ==
    /\ result[i] = NoResult
    /\ \/ /\ vote1[i] = NoVote
          /\ \E I \in Choices(gotInput[i], Inputs) :
             \E V \in Choices(gotVote1[i], Vote1sWithin(I)) :
             \E R \in Choices(gotRevote[i], RevotesWithin(V)) : DeliverBatch(i, I, V, R)
       \/ /\ vote1[i] # NoVote /\ revote[i] = NoVote
          /\ \E V \in Choices(gotVote1[i], Vote1sWithin(Inputs)) :
             \E R \in Choices(gotRevote[i], RevotesWithin(V)) :
                DeliverBatch(i, InputsFor(i, V), V, R)
       \/ /\ revote[i] # NoVote
          /\ \E R \in Choices(gotRevote[i], RevotesWithin(Vote1sWithin(Inputs))) :
             LET V == Vote1sFor(i, R)
             IN  DeliverBatch(i, InputsFor(i, V), V, R)

BatchedNext ==
    \/ \E i \in Honest : Start(i) \/ DeliverSome(i)
    \/ \E k \in Faulty : FaultyCast(k)

Batched == Init /\ [][BatchedNext]_vars
=============================================================================
