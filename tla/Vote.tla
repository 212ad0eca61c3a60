-------------------------------- MODULE Vote --------------------------------
(***************************************************************************)
(* One round of the Vote protocol (services/vote.go).                      *)
(*                                                                         *)
(* VoteService runs on A-Cast, here the reliable broadcast that ACast is   *)
(* shown to implement: what a node A-Casts in a phase is the same wherever *)
(* it is delivered, and is delivered to every honest node once, at any     *)
(* time, in any order.  So a payload is kept once, with its sender, and a  *)
(* node's maps are the sets of senders it has had delivered.               *)
(*                                                                         *)
(* Rounds share no state, so one round stands for all.  StartRound runs on *)
(* the caller's goroutine, before or after deliveries, as the tests do it. *)
(*                                                                         *)
(* A faulty node goes through some of the phases and stops.  Its own       *)
(* deliveries are not kept: it has had some part of what was cast.  Liars  *)
(* are faulty nodes that name any set and send any bit: checkProgress asks *)
(* of a VOTE1 or REVOTE only that its set lies within what was received,   *)
(* never how large it is or what its majority is.                          *)
(***************************************************************************)
EXTENDS Grading

CONSTANTS Faulty,
          InputBits,      \* the bits each node may call StartRound with
          FaultyPhases,   \* the phases the faulty nodes take part in
          FaultySets,     \* the sets faulty nodes may name in VOTE1 and REVOTE
          Liars

ASSUME VoteAssumption ==
    /\ IsFiniteSet(Nodes)
    /\ Faulty \subseteq Nodes
    /\ T \in Nat
    /\ Cardinality(Nodes) > 3 * T
    /\ Cardinality(Faulty) <= T
    /\ InputBits \in [Nodes -> SUBSET Bits]
    /\ FaultyPhases \subseteq {"INPUT", "VOTE1", "REVOTE"}
    /\ FaultySets \subseteq SUBSET Nodes
    /\ Liars \subseteq Faulty

VARIABLES input,      \* the bit in a node's INPUT, or Null
          vote1,      \* the set A and the bit in its VOTE1, or NoVote until sentVote1
          revote,     \* the set B and the bit in its REVOTE, or NoVote until sentRevote
          gotInput,   \* the keys of an honest node's receivedInputs
          gotVote1,   \* the keys of its receivedVote1
          gotRevote,  \* the keys of its receivedRevote
          result      \* the VoteResult passed to SendResult; NoResult until finished

got  == <<gotInput, gotVote1, gotRevote>>
vars == <<input, vote1, revote, got, result>>

Honest == Nodes \ Faulty
NoVote == [set |-> {}, bit |-> Null]
Vote == [set : SUBSET Nodes, bit : Bits]

TypeOK ==
    /\ input \in [Nodes -> Bits \union {Null}]
    /\ vote1 \in [Nodes -> Vote \union {NoVote}]
    /\ revote \in [Nodes -> Vote \union {NoVote}]
    /\ gotInput \in [Honest -> SUBSET Nodes]
    /\ gotVote1 \in [Honest -> SUBSET Nodes]
    /\ gotRevote \in [Honest -> SUBSET Nodes]
    /\ result \in [Honest -> VoteResult \union {NoResult}]

Init ==
    /\ input = [i \in Nodes |-> Null]
    /\ vote1 = [i \in Nodes |-> NoVote]
    /\ revote = [i \in Nodes |-> NoVote]
    /\ gotInput = [i \in Honest |-> {}]
    /\ gotVote1 = [i \in Honest |-> {}]
    /\ gotRevote = [i \in Honest |-> {}]
    /\ result = [i \in Honest |-> NoResult]

-----------------------------------------------------------------------------

Inputs  == {j \in Nodes : input[j] # Null}
Vote1s  == {j \in Nodes : vote1[j] # NoVote}
Revotes == {j \in Nodes : revote[j] # NoVote}

\* 1 if there are more ones than zeros, 0 otherwise.
MajorityBit(ones, zeros) == IF Cardinality(ones) > Cardinality(zeros) THEN 1 ELSE 0

MajorityInput(A) == MajorityBit({j \in A : input[j] = 1}, {j \in A : input[j] = 0})
MajorityVote1(B) == MajorityBit({j \in B : vote1[j].bit = 1}, {j \in B : vote1[j].bit = 0})

\* The VOTE1s whose set A_j lies within the inputs received so far.
ValidVote1s(inputs, vote1s) == {j \in vote1s : vote1[j].set \subseteq inputs}

\* The REVOTEs whose set B_j lies within the valid VOTE1s.
ValidRevotes(valid, revotes) == {j \in revotes : revote[j].set \subseteq valid}

\* Wrong results: a zero value without majority, a value without unanimity, and
\* the revotes looked at before the votes.
MajorityRevote(C) == MajorityBit({j \in C : revote[j].bit = 1}, {j \in C : revote[j].bit = 0})
DecisionZero(B, C) ==
    IF \E b \in Bits : \A j \in B : vote1[j].bit = b
    THEN [value |-> MajorityVote1(B), conf |-> 2]
    ELSE [value |-> 0, conf |-> 0]
DecisionMajority(B, C) ==
    IF \E b \in Bits : \A j \in B : vote1[j].bit = b
    THEN [value |-> MajorityVote1(B), conf |-> 2]
    ELSE [value |-> MajorityRevote(C), conf |-> 1]
DecisionSwapped(B, C) ==
    IF \E b \in Bits : \A j \in C : revote[j].bit = b
    THEN [value |-> MajorityRevote(C), conf |-> 2]
    ELSE [value |-> Null, conf |-> 0]

\* The result of a node with sets B and C: the bits of B agree, or those of C.
Decision(B, C) ==
    IF \E b \in Bits : \A j \in B : vote1[j].bit = b
    THEN [value |-> CHOOSE b \in Bits : \A j \in B : vote1[j].bit = b, conf |-> 2]
    ELSE IF \E b \in Bits : \A j \in C : revote[j].bit = b
    THEN [value |-> CHOOSE b \in Bits : \A j \in C : revote[j].bit = b, conf |-> 1]
    ELSE [value |-> Null, conf |-> 0]

\* checkProgress at node i with these keys in its three maps.  The phases run
\* one after the other in the same call.
CheckProgress(i, inputs, vote1s, revotes) ==
    LET sendVote1  == vote1[i] = NoVote /\ Quorum(inputs)
        valid      == ValidVote1s(inputs, vote1s)
        sendRevote == /\ vote1[i] # NoVote \/ sendVote1
                      /\ revote[i] = NoVote
                      /\ Quorum(valid)
        B          == IF sendRevote THEN valid ELSE revote[i].set
        C          == ValidRevotes(valid, revotes)
        decide     == (revote[i] # NoVote \/ sendRevote) /\ Quorum(C)
    IN  /\ gotInput' = [gotInput EXCEPT ![i] = inputs]
        /\ gotVote1' = [gotVote1 EXCEPT ![i] = vote1s]
        /\ gotRevote' = [gotRevote EXCEPT ![i] = revotes]
        /\ vote1' = IF sendVote1
                    THEN [vote1 EXCEPT ![i] = [set |-> inputs, bit |-> MajorityInput(inputs)]]
                    ELSE vote1
        /\ revote' = IF sendRevote
                     THEN [revote EXCEPT ![i] = [set |-> B, bit |-> MajorityVote1(B)]]
                     ELSE revote
        /\ result' = IF decide THEN [result EXCEPT ![i] = Decision(B, C)] ELSE result

\* VoteService.StartRound.  A round that has finished is left alone.
StartRound(i, b) ==
    /\ input[i] = Null
    /\ result[i] = NoResult
    /\ input' = [input EXCEPT ![i] = b]
    /\ CheckProgress(i, gotInput[i], gotVote1[i], gotRevote[i])

\* Deliveries that forget to call checkProgress.
StoreInput(i, j) ==
    /\ result[i] = NoResult
    /\ j \in Inputs \ gotInput[i]
    /\ gotInput' = [gotInput EXCEPT ![i] = @ \union {j}]
    /\ UNCHANGED <<input, vote1, revote, gotVote1, gotRevote, result>>
StoreRevote(i, j) ==
    /\ result[i] = NoResult
    /\ j \in Revotes \ gotRevote[i]
    /\ gotRevote' = [gotRevote EXCEPT ![i] = @ \union {j}]
    /\ UNCHANGED <<input, vote1, revote, gotInput, gotVote1, result>>

\* The A-Cast of a payload of j completes at i: processDeliveredPayload.  What
\* is delivered after the round has finished is dropped.
DeliverInput(i, j) ==
    /\ result[i] = NoResult
    /\ j \in Inputs \ gotInput[i]
    /\ CheckProgress(i, gotInput[i] \union {j}, gotVote1[i], gotRevote[i])
    /\ UNCHANGED input

DeliverVote1(i, j) ==
    /\ result[i] = NoResult
    /\ j \in Vote1s \ gotVote1[i]
    /\ CheckProgress(i, gotInput[i], gotVote1[i] \union {j}, gotRevote[i])
    /\ UNCHANGED input

DeliverRevote(i, j) ==
    /\ result[i] = NoResult
    /\ j \in Revotes \ gotRevote[i]
    /\ CheckProgress(i, gotInput[i], gotVote1[i], gotRevote[i] \union {j})
    /\ UNCHANGED input

\* The A-Casts of a faulty node: those of checkProgress with some part of what was
\* cast received, or, from a liar, any.
FaultyInput(k, b) ==
    /\ "INPUT" \in FaultyPhases
    /\ input[k] = Null
    /\ input' = [input EXCEPT ![k] = b]
    /\ UNCHANGED <<vote1, revote, got, result>>

FaultyVote1(k, A, b) ==
    /\ "VOTE1" \in FaultyPhases
    /\ vote1[k] = NoVote
    /\ k \in Liars \/ (A \subseteq Inputs /\ Quorum(A) /\ b = MajorityInput(A))
    /\ vote1' = [vote1 EXCEPT ![k] = [set |-> A, bit |-> b]]
    /\ UNCHANGED <<input, revote, got, result>>

FaultyRevote(k, B, b) ==
    /\ "REVOTE" \in FaultyPhases
    /\ revote[k] = NoVote
    /\ k \in Liars \/ (B \subseteq Vote1s /\ Quorum(B) /\ b = MajorityVote1(B))
    /\ revote' = [revote EXCEPT ![k] = [set |-> B, bit |-> b]]
    /\ UNCHANGED <<input, vote1, got, result>>

Deliver(i) ==
    \E j \in Nodes : DeliverInput(i, j) \/ DeliverVote1(i, j) \/ DeliverRevote(i, j)

Start(i) == \E b \in InputBits[i] : StartRound(i, b)

FaultyCast(k) ==
    \/ \E b \in InputBits[k] : FaultyInput(k, b)
    \/ \E A \in FaultySets, b \in Bits : FaultyVote1(k, A, b)
    \/ \E B \in FaultySets, b \in Bits : FaultyRevote(k, B, b)

Next ==
    \/ \E i \in Honest : Start(i) \/ Deliver(i)
    \/ \E k \in Faulty : FaultyCast(k)

Safety == Init /\ [][Next]_vars

\* A-Cast delivers what an honest node casts at every honest node, and every
\* honest node's caller starts the round.  Faulty nodes may stop at any time.
Spec ==
    /\ Safety
    /\ \A i \in Honest : WF_vars(Deliver(i)) /\ WF_vars(Start(i))

-----------------------------------------------------------------------------

(***************************************************************************)
(* The properties.                                                         *)
(***************************************************************************)

\* The results of checkProgress at different nodes fit together, although each
\* node freezes its sets A, B and C at a moment of its own: a node that is sure
\* of a value has everyone else at that value, with confidence at least 1, and
\* no two nodes report different bits.
GradedAgreement ==
    \A i, j \in Honest :
        result[i] # NoResult /\ result[j] # NoResult => Compatible(result[i], result[j])

\* As TestVote_Unanimous and TestVote_Split_3vs1 expect of their inputs: when no
\* more than t of the inputs differ from b, every result is b with confidence 2,
\* whichever n - t inputs and votes a node happens to see first.
StrongMajority ==
    \A b \in Bits, i \in Honest :
        /\ result[i] # NoResult
        /\ Cardinality({j \in Inputs : input[j] # b}) <= T
        => result[i] = [value |-> b, conf |-> 2]

\* What liars leave of the two, whose VOTE1s and REVOTEs checkProgress takes as they
\* come: they may cost confidence, but no two nodes report different bits, and none
\* reports a bit that no honest node has started with.
BitsAreSafe ==
    /\ \A i, j \in Honest :
          result[i].conf >= 1 /\ result[j].conf >= 1 => result[i].value = result[j].value
    /\ \A b \in Bits, i \in Honest :
          (\A j \in Honest : input[j] \in {b, Null}) /\ result[i].conf >= 1 => result[i].value = b

\* StartRound runs on the caller's goroutine, where SendResult may not be used
\* (service.go).  It is not, however late the round is started: every delivery
\* takes the phases as far as they go, so the checkProgress of StartRound finds
\* nothing to send and nothing to decide.
NothingIsDue ==
    \A i \in Honest :
        LET valid == ValidVote1s(gotInput[i], gotVote1[i])
        IN  /\ vote1[i] = NoVote => ~Quorum(gotInput[i])
            /\ vote1[i] # NoVote /\ revote[i] = NoVote => ~Quorum(valid)
            /\ revote[i] # NoVote /\ result[i] = NoResult => ~Quorum(ValidRevotes(valid, gotRevote[i]))

\* What A-Cast makes sure of has been delivered to every honest node that has not
\* finished: what honest nodes cast, and what any honest node has had delivered.
AtRest ==
    \A i \in Honest : result[i] = NoResult =>
        /\ Inputs \intersect Honest \subseteq gotInput[i]
        /\ Vote1s \intersect Honest \subseteq gotVote1[i]
        /\ Revotes \intersect Honest \subseteq gotRevote[i]
        /\ \A j \in Honest : gotInput[j] \subseteq gotInput[i] /\ gotVote1[j] \subseteq gotVote1[i]

\* A round that all honest nodes have started does not come to rest before they
\* have all finished, although a node that has finished no longer takes in what it
\* is sent, and the sets that honest nodes name may hold nodes that have stopped.
VoteEnds ==
    Honest \subseteq Inputs /\ AtRest => \A i \in Honest : result[i] # NoResult

GV == INSTANCE GradedVote

\* Vote implements the graded vote that ABA builds on.
ImplementsGradedVote == GV!Safety

\* ... and, with every A-Cast delivered, every honest node finishes the round
\* once all honest nodes have started it: sets that are not yet within a node's
\* own are looked at again on every delivery.
ImplementsGradedVoteLive == GV!Spec
=============================================================================
