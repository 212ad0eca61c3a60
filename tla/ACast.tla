------------------------------- MODULE ACast -------------------------------
(***************************************************************************)
(* One A-Cast instance (services/acast.go): Bracha's reliable broadcast as *)
(* every node's AcastService runs it for one UUID.  Instances of different *)
(* UUIDs share no state, so one instance stands for all of them.           *)
(*                                                                         *)
(* Network.Broadcast starts one goroutine per peer, so a message is never  *)
(* lost and may arrive at any time, in any order: sent is the set of all   *)
(* messages honest nodes have broadcast, and a node may handle any of them *)
(* at any time.  The handler is idempotent per message, which makes the    *)
(* set an exact stand-in for exactly-once delivery.                        *)
(*                                                                         *)
(* Up to T nodes are faulty.  They send what they like, to whom they like, *)
(* under their own identity: the messages FaultySends are available to     *)
(* every honest node at all times.  Silent faulty nodes, as in main.go,    *)
(* are the case FaultySends = {}.                                          *)
(***************************************************************************)
EXTENDS Naturals, FiniteSets

CONSTANTS Nodes,    \* the n participants
          Faulty,   \* those that do not follow the protocol
          T,        \* the fault bound t given to NewAcastService
          Sender,   \* the owner of this instance's UUID
          Values,   \* the payloads that can be broadcast
          NoValue,  \* nothing delivered yet
          FaultySends  \* the messages faulty nodes may send at any time, to anyone

ASSUME NodesAssumption ==
    /\ IsFiniteSet(Nodes)
    /\ Faulty \subseteq Nodes
    /\ Sender \in Nodes
    /\ NoValue \notin Values

Message == [type : {"MSG", "ECHO", "READY"}, val : Values, from : Nodes]

\* Channels are authenticated, and only the owner of a UUID opens it.
ASSUME FaultySendsAssumption ==
    \A m \in FaultySends : /\ m \in Message
                           /\ m.from \in Faulty
                           /\ m.type = "MSG" => m.from = Sender

ASSUME ResilienceAssumption ==
    /\ T \in Nat
    /\ Cardinality(Nodes) > 3 * T
    /\ Cardinality(Faulty) <= T

VARIABLES receivedEcho,   \* receivedEcho[i][v]: the nodes i has an ECHO(v) of
          receivedReady,  \* receivedReady[i][v]: the nodes i has a READY(v) of
          sentEcho,
          sentReady,
          output,         \* the value i passed to SendResult; NoValue until delivered
          sent            \* the messages honest nodes have broadcast

vars == <<receivedEcho, receivedReady, sentEcho, sentReady, output, sent>>

Honest == Nodes \ Faulty
N == Cardinality(Nodes)

Msg(v)      == [type |-> "MSG",   val |-> v, from |-> Sender]
Echo(v, i)  == [type |-> "ECHO",  val |-> v, from |-> i]
Ready(v, i) == [type |-> "READY", val |-> v, from |-> i]

-----------------------------------------------------------------------------

\* Wrong thresholds, and maps that are not made: each breaks a property below.
EchoThresholdAll    == N
EchoThresholdLow    == T
ReadyThresholdHigh  == N
DeliverThresholdLow == T
NilVotes == [v \in {} |-> {}]

EchoThreshold    == N - T
ReadyThreshold   == T + 1
DeliverThreshold == 2 * T + 1

NoVotes == [v \in Values |-> {}]

TypeOK ==
    /\ receivedEcho \in [Honest -> [Values -> SUBSET Nodes]]
    /\ receivedReady \in [Honest -> [Values -> SUBSET Nodes]]
    /\ sentEcho \in [Honest -> BOOLEAN]
    /\ sentReady \in [Honest -> BOOLEAN]
    /\ output \in [Honest -> Values \union {NoValue}]
    /\ sent \subseteq Message

Init ==
    /\ receivedEcho = [i \in Honest |-> NoVotes]
    /\ receivedReady = [i \in Honest |-> NoVotes]
    /\ sentEcho = [i \in Honest |-> FALSE]
    /\ sentReady = [i \in Honest |-> FALSE]
    /\ output = [i \in Honest |-> NoValue]
    /\ sent = {}

\* No honest MSG of this instance is on the wire yet.
NotStarted == \A v \in Values : Msg(v) \notin sent

\* IVSS starts an A-Cast by broadcasting MSG; the owner gets its own copy
\* back from the network.
Start(v) ==
    /\ Sender \in Honest
    /\ NotStarted
    /\ sent' = sent \union {Msg(v)}
    /\ UNCHANGED <<receivedEcho, receivedReady, sentEcho, sentReady, output>>

\* Vote, ICC and ABA broadcast MSG and handle it themselves in the same call.
StartAndHandle(v) ==
    /\ Sender \in Honest
    /\ NotStarted
    /\ sentEcho' = [sentEcho EXCEPT ![Sender] = TRUE]
    /\ sent' = sent \union {Msg(v), Echo(v, Sender)}
    /\ UNCHANGED <<receivedEcho, receivedReady, sentReady, output>>

OnMsg(i, v) ==
    /\ output[i] = NoValue
    /\ ~sentEcho[i]
    /\ sentEcho' = [sentEcho EXCEPT ![i] = TRUE]
    /\ sent' = sent \union {Echo(v, i)}
    /\ UNCHANGED <<receivedEcho, receivedReady, sentReady, output>>

OnEcho(i, v, j) ==
    LET votes == receivedEcho[i][v] \union {j}
        ready == Cardinality(votes) >= EchoThreshold /\ ~sentReady[i]
    IN  /\ output[i] = NoValue
        /\ j \notin receivedEcho[i][v]
        /\ receivedEcho' = [receivedEcho EXCEPT ![i][v] = votes]
        /\ sentReady' = [sentReady EXCEPT ![i] = @ \/ ready]
        /\ sent' = IF ready THEN sent \union {Ready(v, i)} ELSE sent
        /\ UNCHANGED <<receivedReady, sentEcho, output>>

OnReady(i, v, j) ==
    LET votes   == receivedReady[i][v] \union {j}
        ready   == Cardinality(votes) >= ReadyThreshold /\ ~sentReady[i]
        deliver == Cardinality(votes) >= DeliverThreshold
    IN  /\ output[i] = NoValue
        /\ j \notin receivedReady[i][v]
        /\ sentReady' = [sentReady EXCEPT ![i] = @ \/ ready]
        /\ sent' = IF ready THEN sent \union {Ready(v, i)} ELSE sent
        /\ IF deliver
           THEN /\ output' = [output EXCEPT ![i] = v]
                /\ receivedEcho' = [receivedEcho EXCEPT ![i] = NoVotes]
                /\ receivedReady' = [receivedReady EXCEPT ![i] = NoVotes]
           ELSE /\ receivedReady' = [receivedReady EXCEPT ![i][v] = votes]
                /\ UNCHANGED <<receivedEcho, output>>
        /\ UNCHANGED sentEcho

\* AcastService.OnMessage at node i.
OnMessage(i, m) ==
    \/ m.type = "MSG" /\ OnMsg(i, m.val)
    \/ m.type = "ECHO" /\ OnEcho(i, m.val, m.from)
    \/ m.type = "READY" /\ OnReady(i, m.val, m.from)

Next ==
    \/ \E v \in Values : Start(v) \/ StartAndHandle(v)
    \/ \E i \in Honest, m \in sent : OnMessage(i, m)
    \/ \E i \in Honest, m \in FaultySends : OnMessage(i, m)

Safety == Init /\ [][Next]_vars

\* A node goes on handling messages while some broadcast message would still
\* change its state: the message's goroutine blocks until the node's loop takes
\* it.  Nothing is assumed of faulty nodes, nor that the owner ever starts.
Fairness ==
    \A i \in Honest : WF_vars(\E m \in sent : OnMessage(i, m))

Spec == Safety /\ Fairness

-----------------------------------------------------------------------------

(***************************************************************************)
(* The properties.                                                         *)
(***************************************************************************)

\* Agreement (pseudocode/acast.md): no two honest nodes pass different values
\* to SendResult for one instance, whatever the faulty nodes send and in
\* whatever order OnMessage handles it.
Agreement ==
    \A i, j \in Honest :
        output[i] # NoValue /\ output[j] # NoValue => output[i] = output[j]

\* Integrity: if the owner of the instance is honest, OnMessage delivers only
\* the value the owner broadcast in its MSG.
Integrity ==
    \A i \in Honest :
        Sender \in Honest /\ output[i] # NoValue => Msg(output[i]) \in sent

\* A node never delivers without having vouched for the value itself: clearing
\* the maps on delivery, after which OnMessage ignores everything, cannot cost
\* the others a READY they still need.
DeliveredNodesAreReady ==
    \A i \in Honest :
        output[i] # NoValue => Ready(output[i], i) \in sent

\* Nothing that honest nodes have broadcast is left that i would react to.
HandledAll(i) ==
    output[i] = NoValue => \A m \in sent :
        /\ m.type = "MSG" => sentEcho[i]
        /\ m.type = "ECHO" => m.from \in receivedEcho[i][m.val]
        /\ m.type = "READY" => m.from \in receivedReady[i][m.val]

\* OnMessage never leaves an A-Cast half done: when no honest node has anything
\* left to react to, an honest owner's value, and a value delivered anywhere, is
\* delivered everywhere, although nodes that have delivered ignore all messages
\* and the faulty ones may have sent nothing, or READY to some nodes only.
DeliveryEnds ==
    (\A i \in Honest : HandledAll(i)) =>
        \A i \in Honest, v \in Values :
            (Sender \in Honest /\ Msg(v) \in sent) \/ (\E j \in Honest : output[j] = v)
                => output[i] = v

(***************************************************************************)
(* The inductive invariant behind them.  Agreement rests on quorums of     *)
(* ECHOs, which the state does not keep: a node that passes on a READY has *)
(* at most heard other READYs.  ReadySupported carries the quorum along.   *)
(***************************************************************************)

\* Honest nodes speak for themselves, and only the owner sends MSG.
SentByHonest ==
    \A m \in sent : m.from \in Honest /\ (m.type = "MSG" => m.from = Sender)

MsgOnce == \A v, w \in Values : Msg(v) \in sent /\ Msg(w) \in sent => v = w

\* sentEcho stops a second ECHO.
EchoOnce ==
    \A i \in Honest, v \in Values : Echo(v, i) \in sent =>
        /\ sentEcho[i]
        /\ \A w \in Values : Echo(w, i) \in sent => w = v

\* An honest node echoes what an honest owner broadcast.
EchoFromMsg ==
    \A i \in Honest, v \in Values :
        Sender \in Honest /\ Echo(v, i) \in sent => Msg(v) \in sent

\* The tallies of honest votes are votes that were sent.
TalliesSound ==
    \A i \in Honest, v \in Values :
        /\ \A j \in receivedEcho[i][v] \intersect Honest : Echo(v, j) \in sent
        /\ \A j \in receivedReady[i][v] \intersect Honest : Ready(v, j) \in sent

\* n - t nodes of which every honest one has sent ECHO(v).
Supported(v) ==
    \E Q \in SUBSET Nodes :
        /\ Cardinality(Q) >= EchoThreshold
        /\ \A k \in Q \intersect Honest : Echo(v, k) \in sent

ReadySupported ==
    \A i \in Honest, v \in Values : Ready(v, i) \in sent => Supported(v)

SentReadyIsSent ==
    \A i \in Honest : sentReady[i] => \E v \in Values : Ready(v, i) \in sent

IndInv ==
    /\ TypeOK
    /\ SentByHonest
    /\ MsgOnce
    /\ EchoOnce
    /\ EchoFromMsg
    /\ TalliesSound
    /\ ReadySupported
    /\ SentReadyIsSent
    /\ DeliveredNodesAreReady

\* sentEcho is set with an ECHO.
SentEchoIsSent ==
    \A i \in Honest : sentEcho[i] => \E v \in Values : Echo(v, i) \in sent

\* A tally that reaches a threshold has its effect at once.
TalliesFire ==
    \A i \in Honest, v \in Values : output[i] = NoValue =>
        /\ Cardinality(receivedEcho[i][v]) >= EchoThreshold => sentReady[i]
        /\ Cardinality(receivedReady[i][v]) >= ReadyThreshold => sentReady[i]
        /\ Cardinality(receivedReady[i][v]) < DeliverThreshold

\* Behind a delivery are enough honest READYs to make every node send its own:
\* the tally that held them is cleared.
DeliveryIsHeard ==
    \A i \in Honest : output[i] # NoValue =>
        \E Q \in SUBSET Honest :
            /\ Cardinality(Q) >= ReadyThreshold
            /\ \A k \in Q : Ready(output[i], k) \in sent

\* What DeliveryEnds needs beyond IndInv.
EndInv == SentEchoIsSent /\ TalliesFire /\ DeliveryIsHeard

(***************************************************************************)
(* Refinement.                                                             *)
(***************************************************************************)

\* The value the honest owner has broadcast, for the refinement mapping.
SentValue ==
    IF \E v \in Values : Sender \in Honest /\ Msg(v) \in sent
    THEN CHOOSE v \in Values : Msg(v) \in sent
    ELSE NoValue

RB == INSTANCE ReliableBroadcast WITH
          SenderIsHonest <- Sender \in Honest,
          broadcast <- SentValue

\* OnMessage implements reliable broadcast: each handler step is a delivery the
\* abstract broadcast allows or leaves broadcast and outputs as they are.
ImplementsSafety == RB!Safety

\* ... and with every message handled eventually it also delivers: an honest
\* owner's value reaches every honest node, and a value delivered anywhere
\* is delivered everywhere, although delivered nodes stop reacting.
ImplementsBroadcast == RB!Spec
=============================================================================
