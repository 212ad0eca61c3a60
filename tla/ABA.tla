-------------------------------- MODULE ABA --------------------------------
(***************************************************************************)
(* The ABA round loop (services/aba.go) at every honest node, over Vote    *)
(* and ICC.                                                                *)
(*                                                                         *)
(* Of the messages of a sub-protocol only the one whose handling completes *)
(* it matters to ABA: "vote" is the message that makes the node's Vote of  *)
(* a round call SendResult, "icc" the one that makes its coin do so.  Vote *)
(* results are those of a graded vote (Grading); a coin is any bit, and    *)
(* may differ from node to node.  COMPLETE is A-Cast, so it is the same    *)
(* wherever it is delivered.                                               *)
(*                                                                         *)
(* ABAService.mu is held for the whole of OnMessage and Start.  A handler  *)
(* that starts a round goes on to dispatch that round's buffered messages, *)
(* and one of these may complete the round and start the next: pending     *)
(* holds what the handler has still to dispatch, and the node does nothing *)
(* else before it is done.                                                 *)
(*                                                                         *)
(* VoteService.mu is held while Vote's SendResult runs.  If that completes *)
(* the round, startRound calls VoteService.StartRound, which locks the     *)
(* same mutex: the node is blocked, with both locks held, for good.        *)
(***************************************************************************)
EXTENDS Grading, Sequences, Functions

CONSTANTS Faulty,
          InitialBits,      \* the estimates NewABAService may be called with, per node
          FaultyVotes,      \* <<k, r, b>>: faulty k may bring bit b to the vote of round r
          FaultyCompletes,  \* the values faulty nodes may A-Cast a COMPLETE for
          VoteFirst,        \* the nodes at which each round's vote completes before its coin
          MaxRound          \* bound: results of rounds before this one are modelled

ASSUME ABAAssumption ==
    /\ IsFiniteSet(Nodes)
    /\ Faulty \subseteq Nodes
    /\ T \in Nat
    /\ Cardinality(Nodes) > 3 * T
    /\ Cardinality(Faulty) <= T
    /\ InitialBits \in [Nodes -> SUBSET Bits]
    /\ FaultyCompletes \subseteq Bits
    /\ VoteFirst \subseteq Nodes
    /\ MaxRound \in Nat \ {0}
    /\ FaultyVotes \subseteq Faulty \X (1..MaxRound) \X Bits

VARIABLES round,        \* 0 until Start
          estimate,
          voteResult,   \* of the current round; NoResult for nil
          iccResult,    \* the coin of the current round; Null for nil
          decision,     \* Null until decided
          complete,     \* the value in the node's COMPLETE; Null until hasBroadcastComplete
          completeCounts,  \* completeCounts[i][v]: the nodes i has a COMPLETE v of
          futureMsgs,   \* futureMsgs[i][r]: messages buffered for a later round r
          pending,      \* buffered messages the running handler has still to dispatch
          blocked,      \* waits for VoteService.mu, which it holds
          voteInput,    \* voteInput[r]: the bits brought to the vote of round r
          voteOutput,   \* voteOutput[r]: the results the vote of round r has given
          iccDone       \* iccDone[r]: the nodes the ICC of round r has given its coin

node == <<round, estimate, voteResult, iccResult, futureMsgs, pending, blocked>>
done == <<decision, complete, completeCounts>>
subs == <<voteInput, voteOutput, iccDone>>
vars == <<node, done, subs>>

Honest == Nodes \ Faulty
Rounds == 1..MaxRound
Kinds  == {"vote", "icc"}

TypeOK ==
    /\ round \in [Honest -> 0..MaxRound]
    /\ estimate \in [Honest -> Bits]
    /\ voteResult \in [Honest -> VoteResult \union {NoResult}]
    /\ iccResult \in [Honest -> Bits \union {Null}]
    /\ decision \in [Honest -> Bits \union {Null}]
    /\ complete \in [Honest -> Bits \union {Null}]
    /\ completeCounts \in [Honest -> [Bits -> SUBSET Nodes]]
    /\ futureMsgs \in [Honest -> [Rounds -> Seq(Kinds)]]
    /\ pending \in [Honest -> Seq(Kinds)]
    /\ blocked \in [Honest -> BOOLEAN]
    /\ voteInput \in [Rounds -> [Nodes -> Bits \union {Null}]]
    /\ voteOutput \in [Rounds -> [Honest -> VoteResult \union {NoResult}]]
    /\ iccDone \in [Rounds -> SUBSET Honest]

Init ==
    /\ round = [i \in Honest |-> 0]
    /\ estimate \in {f \in [Honest -> Bits] : \A i \in Honest : f[i] \in InitialBits[i]}
    /\ voteResult = [i \in Honest |-> NoResult]
    /\ iccResult = [i \in Honest |-> Null]
    /\ decision = [i \in Honest |-> Null]
    /\ complete = [i \in Honest |-> Null]
    /\ completeCounts = [i \in Honest |-> [b \in Bits |-> {}]]
    /\ futureMsgs = [i \in Honest |-> [r \in Rounds |-> <<>>]]
    /\ pending = [i \in Honest |-> <<>>]
    /\ blocked = [i \in Honest |-> FALSE]
    /\ voteInput = [r \in Rounds |-> [i \in Nodes |-> Null]]
    /\ voteOutput = [r \in Rounds |-> [i \in Honest |-> NoResult]]
    /\ iccDone = [r \in Rounds |-> {}]

-----------------------------------------------------------------------------

\* startRound that keeps the coin of the round before.
StartRoundKeeps(i, r, e) ==
    /\ round' = [round EXCEPT ![i] = r]
    /\ estimate' = [estimate EXCEPT ![i] = e]
    /\ voteResult' = [voteResult EXCEPT ![i] = NoResult]
    /\ \E coin \in Bits : iccResult' = [iccResult EXCEPT ![i] = IF r = 1 THEN Null ELSE coin]
    /\ voteInput' = [voteInput EXCEPT ![r][i] = e]
    /\ pending' = [pending EXCEPT ![i] = futureMsgs[i][r]]
    /\ futureMsgs' = [futureMsgs EXCEPT ![i][r] = <<>>]
    /\ UNCHANGED blocked

\* startRound(r) at i with estimate e, up to the buffered messages of round r.
StartRound(i, r, e) ==
    /\ round' = [round EXCEPT ![i] = r]
    /\ estimate' = [estimate EXCEPT ![i] = e]
    /\ voteResult' = [voteResult EXCEPT ![i] = NoResult]
    /\ iccResult' = [iccResult EXCEPT ![i] = Null]
    /\ voteInput' = [voteInput EXCEPT ![r][i] = e]
    /\ pending' = [pending EXCEPT ![i] = futureMsgs[i][r]]
    /\ futureMsgs' = [futureMsgs EXCEPT ![i][r] = <<>>]
    /\ UNCHANGED blocked

\* startRound(r) called while VoteService.mu is held: it gets as far as
\* VoteService.StartRound.
StartRoundBlocks(i, r, e) ==
    /\ round' = [round EXCEPT ![i] = r]
    /\ estimate' = [estimate EXCEPT ![i] = e]
    /\ voteResult' = [voteResult EXCEPT ![i] = NoResult]
    /\ iccResult' = [iccResult EXCEPT ![i] = Null]
    /\ blocked' = [blocked EXCEPT ![i] = TRUE]
    /\ UNCHANGED <<voteInput, futureMsgs>>

\* Wrong estimates: the coin after a weak majority, and the vote without one.
NextEstimateCoin(i, p, coin) ==
    IF decision[i] # Null THEN decision[i] ELSE IF p.conf = 2 THEN p.value ELSE coin
NextEstimateVote(i, p, coin) ==
    IF decision[i] # Null THEN decision[i] ELSE p.value

\* The estimate checkRoundProgress goes on with.
NextEstimate(i, p, coin) ==
    CASE decision[i] # Null                 -> decision[i]
      [] decision[i] = Null /\ p.conf \in {1, 2} -> p.value
      [] OTHER                              -> coin

\* COMPLETE only by nodes that have decided, and COMPLETE for the estimate before it
\* is set to the vote.
NextCompleteDecided(i, p) ==
    IF decision[i] # Null /\ p.conf = 2 /\ complete[i] = Null
    THEN [complete EXCEPT ![i] = p.value]
    ELSE complete
NextCompleteOwn(i, p) ==
    IF decision[i] = Null /\ p.conf = 2 /\ complete[i] = Null
    THEN [complete EXCEPT ![i] = estimate[i]]
    ELSE complete

\* The COMPLETE of i after checkRoundProgress.
NextComplete(i, p) ==
    IF decision[i] = Null /\ p.conf = 2 /\ complete[i] = Null
    THEN [complete EXCEPT ![i] = p.value]
    ELSE complete

\* ABAService.Start, on the goroutine of Node.Start.
Start(i) ==
    /\ round[i] = 0
    /\ StartRound(i, 1, estimate[i])
    /\ UNCHANGED <<done, voteOutput, iccDone>>

\* The message that completes the vote of round r is dispatched at i: Vote calls
\* SendResult with p.  If r is i's round the result is kept, and checkRoundProgress
\* runs under VoteService.mu; otherwise it is dropped.
DispatchVote(i, r, p, rest) ==
    /\ voteOutput[r][i] = NoResult
    /\ Justified(p, voteInput[r])
    /\ \A j \in Honest : voteOutput[r][j] # NoResult => Compatible(p, voteOutput[r][j])
    /\ voteOutput' = [voteOutput EXCEPT ![r][i] = p]
    /\ pending' = [pending EXCEPT ![i] = rest]
    /\ IF r = round[i] /\ iccResult[i] # Null
       THEN /\ complete' = NextComplete(i, p)
            /\ StartRoundBlocks(i, r + 1, NextEstimate(i, p, iccResult[i]))
       ELSE /\ voteResult' = IF r = round[i] THEN [voteResult EXCEPT ![i] = p] ELSE voteResult
            /\ UNCHANGED <<round, estimate, iccResult, futureMsgs, blocked, voteInput, complete>>
    /\ UNCHANGED <<decision, completeCounts, iccDone>>

\* The message that completes the coin of round r is dispatched at i.  When it
\* completes the round, nothing of the old round is left to dispatch.
DispatchIcc(i, r, coin, rest) ==
    /\ i \notin iccDone[r]
    /\ i \in VoteFirst => voteOutput[r][i] # NoResult
    /\ iccDone' = [iccDone EXCEPT ![r] = @ \union {i}]
    /\ IF r = round[i] /\ voteResult[i] # NoResult
       THEN /\ complete' = NextComplete(i, voteResult[i])
            /\ StartRound(i, r + 1, NextEstimate(i, voteResult[i], coin))
       ELSE /\ iccResult' = IF r = round[i] THEN [iccResult EXCEPT ![i] = coin] ELSE iccResult
            /\ pending' = [pending EXCEPT ![i] = rest]
            /\ UNCHANGED <<round, estimate, voteResult, futureMsgs, blocked, voteInput, complete>>
    /\ UNCHANGED <<decision, completeCounts, voteOutput>>

Dispatch(i, kind, r, rest) ==
    \/ kind = "vote" /\ \E p \in VoteResult : DispatchVote(i, r, p, rest)
    \/ kind = "icc" /\ \E coin \in Bits : DispatchIcc(i, r, coin, rest)

\* The loop over futureMsgs at the end of startRound.
DispatchBuffered(i) ==
    /\ ~blocked[i]
    /\ pending[i] # <<>>
    /\ Dispatch(i, Head(pending[i]), round[i], Tail(pending[i]))

\* The mutex of i is free.
Idle(i) == ~blocked[i] /\ pending[i] = <<>>

\* A message of round r cannot complete anything before n - t nodes are there.
\* Messages of this and of earlier rounds are dispatched, later ones buffered.
OnMessage(i, kind, r) ==
    /\ Idle(i)
    /\ r < MaxRound
    /\ Quorum(Started(voteInput[r]))
    /\ \/ r <= round[i] /\ Dispatch(i, kind, r, <<>>)
       \/ /\ r > round[i]
          /\ kind \notin Range(futureMsgs[i][r])
          /\ i \in VoteFirst /\ kind = "icc" => "vote" \in Range(futureMsgs[i][r])
          /\ futureMsgs' = [futureMsgs EXCEPT ![i][r] = Append(@, kind)]
          /\ UNCHANGED <<round, estimate, voteResult, iccResult, pending, blocked, done, subs>>

\* One COMPLETE too few to decide on.
CompleteThresholdLow == T

CompleteThreshold == T + 1

\* The COMPLETE v of j is delivered at i: handleCompleteDelivery.  What it counts
\* once i has decided is never read, and is left out.
OnComplete(i, j, v) ==
    LET count  == completeCounts[i][v] \union {j}
        decide == Cardinality(count) >= CompleteThreshold
    IN  /\ Idle(i)
        /\ decision[i] = Null
        /\ j \notin completeCounts[i][v]
        /\ completeCounts' = [completeCounts EXCEPT ![i][v] = count]
        /\ decision' = IF decide THEN [decision EXCEPT ![i] = v] ELSE decision
        /\ complete' = IF decide /\ complete[i] = Null
                       THEN [complete EXCEPT ![i] = v] ELSE complete
        /\ UNCHANGED <<node, subs>>

OnHonestComplete(i) == \E j \in Honest : complete[j] # Null /\ OnComplete(i, j, complete[j])
OnFaultyComplete(i) == \E j \in Faulty, v \in FaultyCompletes : OnComplete(i, j, v)

\* A faulty node brings a bit to the vote of round r.
FaultyVote(k, r, b) ==
    /\ <<k, r, b>> \in FaultyVotes
    /\ voteInput[r][k] = Null
    /\ voteInput' = [voteInput EXCEPT ![r][k] = b]
    /\ UNCHANGED <<node, done, voteOutput, iccDone>>

Next ==
    \/ \E i \in Honest :
          \/ Start(i)
          \/ DispatchBuffered(i)
          \/ \E kind \in Kinds, r \in Rounds : OnMessage(i, kind, r)
          \/ OnHonestComplete(i)
          \/ OnFaultyComplete(i)
    \/ \E k \in Faulty, r \in Rounds, b \in Bits : FaultyVote(k, r, b)

Safety == Init /\ [][Next]_vars

\* What node i can count on: it is started, and a handler runs to its end
\* unless it blocks; once all honest nodes are in a round, its vote and its coin
\* complete; while no honest node is blocked, their A-Casts are delivered.
Progress(i) ==
    \/ Start(i)
    \/ DispatchBuffered(i)
    \/ \E kind \in Kinds, r \in Rounds :
          Honest \subseteq Started(voteInput[r]) /\ OnMessage(i, kind, r)
    \/ (\A k \in Honest : ~blocked[k]) /\ OnHonestComplete(i)

Fairness == \A i \in Honest : WF_vars(Progress(i))

Spec == Safety /\ Fairness

-----------------------------------------------------------------------------

(***************************************************************************)
(* The properties.                                                         *)
(***************************************************************************)

\* Agreement (pseudocode/aba.md): no two honest nodes decide differently, even
\* if their coins differ in every round, results arrive out of order, some nodes
\* block, and faulty nodes send COMPLETE for both values.
Agreement ==
    \A i, j \in Honest : decision[i] # Null /\ decision[j] # Null => decision[i] = decision[j]

\* The estimate NewABAService was given: no round but the first has used it.
Initial(i) == IF round[i] = 0 THEN estimate[i] ELSE voteInput[1][i]

\* Validity (pseudocode/aba.md): if all honest nodes begin with b, none decides
\* the other value.
Validity ==
    \A b \in Bits :
        (\A i \in Honest : Initial(i) = b) => \A i \in Honest : decision[i] \in {b, Null}

\* Once the vote of a round gives some node confidence 2, checkRoundProgress
\* takes no coin into a later round that could undo it: every honest node that
\* enters a later round brings that value to its vote.
Locked ==
    \A r, s \in Rounds, i, j \in Honest :
        /\ r < s
        /\ voteOutput[r][i].conf = 2
        /\ voteInput[s][j] # Null
        => voteInput[s][j] = voteOutput[r][i].value

\* The vote result and the coin that a node combines are both of the round it is in:
\* nothing outlives startRound or comes early out of futureMsgs; nothing comes late
\* either, since a node leaves a round with both its results, so the adapters never
\* have to drop one; and unless the node is blocked no message is left in futureMsgs
\* for a round it has reached.
ResultsAreCurrent ==
    \A i \in Honest :
        /\ voteResult[i] # NoResult => voteResult[i] = voteOutput[round[i]][i]
        /\ iccResult[i] # Null => i \in iccDone[round[i]]
        /\ \A r \in Rounds :
              /\ r < round[i] => voteOutput[r][i] # NoResult /\ i \in iccDone[r]
              /\ r > round[i] => voteOutput[r][i] = NoResult /\ i \notin iccDone[r]
              /\ futureMsgs[i][r] # <<>> => blocked[i] \/ r > round[i]

\* The vote of an early round made a node sure of b.
Sure(b) ==
    \E r \in 1..(MaxRound - 2), i \in Honest : voteOutput[r][i] = [value |-> b, conf |-> 2]

\* If every vote comes before its coin, a round that makes one node sure is
\* enough: all honest nodes eventually decide its value (pseudocode/aba.md,
\* Termination; the rounds after it are what "Continue to next round to help
\* other nodes" provides).
SureLeadsToDecision ==
    (\E b \in Bits : Sure(b)) ~> (\E b \in Bits : Sure(b) /\ \A i \in Honest : decision[i] = b)

\* Node i is in a round that all honest nodes have entered, and the round's vote
\* or coin has not come out at i.
Outstanding(i) ==
    LET r == round[i]
    IN  /\ r < MaxRound
        /\ Honest \subseteq Started(voteInput[r])
        /\ voteOutput[r][i] = NoResult \/ iccResult[i] = Null

\* Nothing that the nodes can count on is outstanding.
AtRest ==
    \A i \in Honest :
        /\ round[i] # 0
        /\ Idle(i) => ~Outstanding(i)
        /\ \A j \in Honest :
              complete[j] # Null => decision[i] # Null \/ j \in completeCounts[i][complete[j]]

\* The round loop does not stop short: if no node is blocked when nothing is
\* outstanding any more, and a vote (before the last two rounds) made some node
\* sure, then all honest nodes have decided its value, although only the nodes
\* that are sure send COMPLETE and they may have been sure in different rounds.
DecisionEnds ==
    AtRest /\ (\A i \in Honest : Idle(i)) =>
        \A b \in Bits : Sure(b) => \A i \in Honest : decision[i] = b

\* Termination (pseudocode/aba.md) where the coin plays no role: when all honest
\* nodes begin with the same bit, they all decide.
Termination == <>(\A i \in Honest : decision[i] # Null)
=============================================================================
