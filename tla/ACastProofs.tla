---------------------------- MODULE ACastProofs ----------------------------
(***************************************************************************)
(* Proofs about one A-Cast instance, for every set of nodes, every fault   *)
(* bound T with n > 3T, every set of values and whatever at most T faulty  *)
(* nodes send: the inductive invariant IndInv, the safety properties it    *)
(* gives, and the refinement of reliable broadcast.                        *)
(***************************************************************************)
EXTENDS ACast, FiniteSetTheorems, TLAPS

(***************************************************************************)
(* Counting.                                                               *)
(***************************************************************************)

\* The bounds of acast.go are natural numbers, and the node set has N members.
LEMMA Bounds ==
    /\ N \in Nat
    /\ N > 3 * T
    /\ EchoThreshold \in Nat
    /\ EchoThreshold >= ReadyThreshold
    /\ ReadyThreshold \in Nat
    /\ DeliverThreshold >= ReadyThreshold
  BY NodesAssumption, ResilienceAssumption, FS_CardinalityType
     DEF N, EchoThreshold, ReadyThreshold, DeliverThreshold

\* Any t + 1 nodes include an honest one: the early READY of OnMessage relies
\* on it.
LEMMA HonestWitness ==
    ASSUME NEW S \in SUBSET Nodes, Cardinality(S) >= ReadyThreshold
    PROVE  \E i \in S : i \in Honest
<1>1. SUFFICES ASSUME S \subseteq Faulty PROVE FALSE
  BY Zenon DEF Honest
<1>2. IsFiniteSet(Faulty)
  BY NodesAssumption, FS_Subset, Zenon
<1>3. Cardinality(S) <= Cardinality(Faulty) /\ Cardinality(S) \in Nat
  BY <1>1, <1>2, FS_Subset, FS_CardinalityType, Zenon
<1>4. Cardinality(Faulty) \in Nat
  BY <1>2, FS_CardinalityType, Zenon
<1> QED
  BY <1>3, <1>4, ResilienceAssumption DEF ReadyThreshold

\* Two sets of n - t nodes have an honest node in common.
LEMMA QuorumsMeet ==
    ASSUME NEW P \in SUBSET Nodes, Cardinality(P) >= EchoThreshold,
           NEW Q \in SUBSET Nodes, Cardinality(Q) >= EchoThreshold
    PROVE  \E i \in Honest : i \in P /\ i \in Q
<1>1. /\ IsFiniteSet(P) /\ IsFiniteSet(Q) /\ IsFiniteSet(P \intersect Q)
      /\ IsFiniteSet(P \union Q)
  BY NodesAssumption, FS_Subset, P \intersect Q \subseteq Nodes, P \union Q \subseteq Nodes
<1>2. Cardinality(P \union Q) = Cardinality(P) + Cardinality(Q) - Cardinality(P \intersect Q)
  BY <1>1, FS_Union, Zenon
<1>3. Cardinality(P \union Q) <= N
  BY NodesAssumption, FS_Subset, P \union Q \subseteq Nodes DEF N
<1>4. /\ Cardinality(P) \in Nat /\ Cardinality(Q) \in Nat
      /\ Cardinality(P \intersect Q) \in Nat /\ Cardinality(P \union Q) \in Nat
  BY <1>1, FS_CardinalityType, Zenon
<1>5. Cardinality(P \intersect Q) >= ReadyThreshold
  BY <1>2, <1>3, <1>4, Bounds, ResilienceAssumption DEF EchoThreshold, ReadyThreshold
<1>6. PICK i \in P \intersect Q : i \in Honest
  BY <1>5, HonestWitness, P \intersect Q \in SUBSET Nodes
<1> QED
  BY <1>6, Zenon

(***************************************************************************)
(* Messages.                                                               *)
(***************************************************************************)

\* What OnMessage may rely on when it handles a message m: the vote of an
\* honest node was sent by that node, and an honest owner's MSG by the owner.
LEMMA Received ==
    ASSUME TypeOK, SentByHonest, NEW m \in sent \union FaultySends
    PROVE  /\ m.val \in Values
           /\ m.from \in Nodes
           /\ m.type = "MSG" /\ Sender \in Honest => Msg(m.val) \in sent
           /\ m.type = "ECHO" /\ m.from \in Honest => Echo(m.val, m.from) \in sent
           /\ m.type = "READY" /\ m.from \in Honest => Ready(m.val, m.from) \in sent
<1>1. m \in Message
  BY FaultySendsAssumption, Zenon DEF TypeOK
<1>2. m \in sent \/ m.from \notin Honest
  BY FaultySendsAssumption, Zenon DEF Honest
<1>3. m.type = "MSG" => m.from = Sender
  BY FaultySendsAssumption, Zenon DEF SentByHonest
<1>4. m = [type |-> m.type, val |-> m.val, from |-> m.from]
  BY <1>1, Zenon DEF Message
<1> QED
  BY <1>1, <1>2, <1>3, <1>4, Zenon DEF Message, Msg, Echo, Ready

\* The three kinds of message are records of Message and differ from each other.
LEMMA Kinds ==
    ASSUME NEW v \in Values, NEW i \in Nodes
    PROVE  /\ Msg(v) \in Message /\ Echo(v, i) \in Message /\ Ready(v, i) \in Message
           /\ \A w \in Values, j \in Nodes :
                /\ Msg(v) # Echo(w, j) /\ Msg(v) # Ready(w, j) /\ Echo(v, i) # Ready(w, j)
                /\ Msg(v) = Msg(w) => v = w
                /\ Echo(v, i) = Echo(w, j) => v = w /\ i = j
                /\ Ready(v, i) = Ready(w, j) => v = w /\ i = j
  BY NodesAssumption, Zenon DEF Message, Msg, Echo, Ready

\* Honest nodes' READYs all carry one value: two quorums of ECHOs share an
\* honest node, and sentEcho let it echo only one value.
LEMMA ReadyAgreement ==
    ASSUME EchoOnce, ReadySupported,
           NEW i \in Honest, NEW j \in Honest, NEW v \in Values, NEW w \in Values,
           Ready(v, i) \in sent, Ready(w, j) \in sent
    PROVE  v = w
<1>1. PICK P \in SUBSET Nodes : /\ Cardinality(P) >= EchoThreshold
                                /\ \A k \in P \intersect Honest : Echo(v, k) \in sent
  BY Zenon DEF ReadySupported, Supported
<1>2. PICK Q \in SUBSET Nodes : /\ Cardinality(Q) >= EchoThreshold
                                /\ \A k \in Q \intersect Honest : Echo(w, k) \in sent
  BY Zenon DEF ReadySupported, Supported
<1>3. PICK k \in Honest : k \in P /\ k \in Q
  BY <1>1, <1>2, QuorumsMeet, Zenon
<1> QED
  BY <1>1, <1>2, <1>3, Zenon DEF EchoOnce

(***************************************************************************)
(* Preservation of the invariant, one lemma per handler.                   *)
(***************************************************************************)

\* Init establishes IndInv.
LEMMA InitInv == Init => IndInv
  BY DEF Init, IndInv, TypeOK, NoVotes, SentByHonest, MsgOnce, EchoOnce, EchoFromMsg,
         TalliesSound, ReadySupported, SentReadyIsSent, DeliveredNodesAreReady

\* ECHOs only accumulate, so a value once supported by a quorum stays so.
LEMMA SupportStays ==
    ASSUME NEW v \in Values, Supported(v), sent \subseteq sent'
    PROVE  Supported(v)'
  BY Zenon DEF Supported, EchoThreshold, N, Honest, Echo

\* Starting an A-Cast preserves IndInv.
LEMMA StartInv ==
    ASSUME IndInv, NEW v \in Values, Start(v)
    PROVE  IndInv'
<1> USE DEF IndInv
<1>1. sent' = sent \union {Msg(v)} /\ Sender \in Honest /\ Sender \in Nodes
  BY NodesAssumption, Zenon DEF Start
<1>2. \A w \in Values : Msg(w) \notin sent
  BY Zenon DEF Start, NotStarted
<1>3. \A w \in Values, i \in Nodes : (Echo(w, i) \in sent' <=> Echo(w, i) \in sent)
                                  /\ (Ready(w, i) \in sent' <=> Ready(w, i) \in sent)
  BY <1>1, Kinds, Zenon
<1>4. TypeOK'
  BY <1>1, Kinds DEF TypeOK, Start
<1>5. SentByHonest'
  BY <1>1 DEF SentByHonest, Msg
<1>6. MsgOnce'
  BY <1>1, <1>2, Kinds, Zenon DEF MsgOnce
<1>7. EchoOnce' /\ EchoFromMsg' /\ TalliesSound' /\ SentReadyIsSent' /\ DeliveredNodesAreReady'
  BY <1>1, <1>3, Zenon DEF EchoOnce, EchoFromMsg, TalliesSound, SentReadyIsSent,
                    DeliveredNodesAreReady, Start, Honest, TypeOK
<1>8. ReadySupported'
  BY <1>1, <1>3, SupportStays, Zenon DEF ReadySupported, Honest
<1> QED
  BY <1>4, <1>5, <1>6, <1>7, <1>8, Zenon

\* A node that echoes v, having sent no ECHO and (if the owner is honest) with
\* v broadcast, preserves IndInv; OnMsg and StartAndHandle both do this.
LEMMA EchoInv ==
    ASSUME IndInv, NEW v \in Values, NEW i \in Honest,
           NEW opening \in SUBSET {Msg(v)},
           Sender \in Honest => Msg(v) \in sent \union opening,
           opening # {} => Sender \in Honest /\ NotStarted,
           \A w \in Values : Echo(w, i) \notin sent,
           sent' = sent \union opening \union {Echo(v, i)},
           sentEcho' = [sentEcho EXCEPT ![i] = TRUE],
           UNCHANGED <<receivedEcho, receivedReady, sentReady, output>>
    PROVE  IndInv'
<1> USE DEF IndInv
<1>1. i \in Nodes /\ Sender \in Nodes
  BY NodesAssumption, Zenon DEF Honest
<1>2. \A w \in Values, j \in Nodes :
        /\ Echo(w, j) \in sent' <=> Echo(w, j) \in sent \/ (w = v /\ j = i)
        /\ Ready(w, j) \in sent' <=> Ready(w, j) \in sent
        /\ Msg(w) \in sent' <=> Msg(w) \in sent \union opening
  BY <1>1, Kinds
<1>3. TypeOK'
  BY <1>1, Kinds DEF TypeOK
<1>4. SentByHonest'
  BY DEF SentByHonest, Msg, Echo, Honest
<1>5. MsgOnce'
  BY <1>1, <1>2, Kinds DEF MsgOnce, NotStarted
<1>6. EchoOnce'
  <2>1. \A k \in Honest : k # i => sentEcho'[k] = sentEcho[k]
    BY Zenon DEF TypeOK
  <2>2. sentEcho'[i]
    BY Zenon DEF TypeOK
  <2> QED
    BY <1>2, <2>1, <2>2 DEF EchoOnce, Honest
<1>7. EchoFromMsg'
  BY <1>1, <1>2, Zenon DEF EchoFromMsg, Honest
<1>8. TalliesSound' /\ SentReadyIsSent' /\ DeliveredNodesAreReady'
  BY <1>2, Zenon DEF TalliesSound, SentReadyIsSent, DeliveredNodesAreReady, Honest, TypeOK
<1>9. ReadySupported'
  BY <1>2, SupportStays, Zenon DEF ReadySupported, Honest
<1> QED
  BY <1>3, <1>4, <1>5, <1>6, <1>7, <1>8, <1>9, Zenon

\* Starting an A-Cast and handling its MSG in the same call preserves IndInv,
\* provided the owner has not echoed: it cannot have, no MSG of its was out.
LEMMA StartAndHandleInv ==
    ASSUME IndInv, NEW v \in Values, StartAndHandle(v)
    PROVE  IndInv'
<1>1. Sender \in Honest
  BY Zenon DEF StartAndHandle
<1>2. \A w \in Values : Echo(w, Sender) \notin sent
  BY <1>1, Zenon DEF StartAndHandle, NotStarted, IndInv, EchoFromMsg
<1>3. sent' = sent \union {Msg(v)} \union {Echo(v, Sender)}
  BY Zenon DEF StartAndHandle
<1> QED
  BY <1>1, <1>2, <1>3, EchoInv, Zenon DEF StartAndHandle

\* The MSG case of OnMessage preserves IndInv.
LEMMA OnMsgInv ==
    ASSUME IndInv, NEW i \in Honest, NEW v \in Values, OnMsg(i, v),
           Sender \in Honest => Msg(v) \in sent
    PROVE  IndInv'
<1>1. \A w \in Values : Echo(w, i) \notin sent
  BY Zenon DEF OnMsg, IndInv, EchoOnce
<1>2. sent' = sent \union {} \union {Echo(v, i)}
  BY Zenon DEF OnMsg
<1>3. {} \in SUBSET {Msg(v)} /\ (Sender \in Honest => Msg(v) \in sent \union {})
  BY Zenon
<1>4. /\ sentEcho' = [sentEcho EXCEPT ![i] = TRUE]
      /\ UNCHANGED <<receivedEcho, receivedReady, sentReady, output>>
  BY Zenon DEF OnMsg
<1> QED
  BY <1>1, <1>2, <1>3, <1>4, EchoInv, Zenon

\* A handler that may send READY(v), and does so only when v is supported,
\* preserves everything of IndInv but the tallies and the outputs; the ECHO and
\* READY cases of OnMessage both do this.
LEMMA ReadyInv ==
    ASSUME IndInv, NEW v \in Values, NEW i \in Honest, NEW ready \in BOOLEAN,
           ready => Supported(v),
           sent' = IF ready THEN sent \union {Ready(v, i)} ELSE sent,
           sentReady' = [sentReady EXCEPT ![i] = @ \/ ready],
           UNCHANGED sentEcho
    PROVE  /\ sent' \subseteq Message
           /\ sentReady' \in [Honest -> BOOLEAN]
           /\ sent \subseteq sent'
           /\ SentByHonest' /\ MsgOnce' /\ EchoOnce' /\ EchoFromMsg'
           /\ ReadySupported' /\ SentReadyIsSent'
<1> USE DEF IndInv
<1>1. i \in Nodes /\ Sender \in Nodes
  BY NodesAssumption, Zenon DEF Honest
<1>2. \A w \in Values, j \in Nodes :
        /\ Echo(w, j) \in sent' <=> Echo(w, j) \in sent
        /\ Ready(w, j) \in sent' <=> Ready(w, j) \in sent \/ (ready /\ w = v /\ j = i)
        /\ Msg(w) \in sent' <=> Msg(w) \in sent
  BY <1>1, Kinds
<1>3. sent' \subseteq Message /\ sent \subseteq sent' /\ sentReady' \in [Honest -> BOOLEAN]
  BY <1>1, Kinds DEF TypeOK
<1>4. SentByHonest'
  BY DEF SentByHonest, Ready, Honest
<1>5. MsgOnce' /\ EchoFromMsg'
  BY <1>1, <1>2, Zenon DEF MsgOnce, EchoFromMsg, Honest
<1>6. EchoOnce'
  BY <1>2, Zenon DEF EchoOnce, Honest
<1>7. ReadySupported'
  BY <1>2, <1>3, SupportStays, Zenon DEF ReadySupported, Honest
<1>8. SentReadyIsSent'
  <2>1. \A k \in Honest : sentReady'[k] => sentReady[k] \/ (k = i /\ ready)
    BY Zenon DEF TypeOK
  <2> QED
    BY <1>2, <2>1, Zenon DEF SentReadyIsSent, Honest
<1> QED
  BY <1>3, <1>4, <1>5, <1>6, <1>7, <1>8, Zenon

\* The ECHO case of OnMessage preserves IndInv.
LEMMA OnEchoInv ==
    ASSUME IndInv, NEW i \in Honest, NEW v \in Values, NEW j \in Nodes, OnEcho(i, v, j),
           j \in Honest => Echo(v, j) \in sent
    PROVE  IndInv'
<1> DEFINE votes == receivedEcho[i][v] \union {j}
           ready == Cardinality(votes) >= EchoThreshold /\ ~sentReady[i]
<1>1. receivedEcho[i][v] \in SUBSET Nodes
  BY DEF IndInv, TypeOK
<1>2. ready => Supported(v)
  <2>1. \A k \in votes \intersect Honest : Echo(v, k) \in sent
    BY Zenon DEF IndInv, TalliesSound
  <2>2. votes \in SUBSET Nodes
    BY <1>1, Zenon
  <2> QED
    BY <2>1, <2>2, Zenon DEF Supported
<1>3. /\ sent' \subseteq Message
      /\ sentReady' \in [Honest -> BOOLEAN]
      /\ sent \subseteq sent'
      /\ SentByHonest' /\ MsgOnce' /\ EchoOnce' /\ EchoFromMsg'
      /\ ReadySupported' /\ SentReadyIsSent'
  <2>1. ready \in BOOLEAN
    BY Zenon
  <2>2. /\ sent' = IF ready THEN sent \union {Ready(v, i)} ELSE sent
        /\ sentReady' = [sentReady EXCEPT ![i] = @ \/ ready]
        /\ UNCHANGED sentEcho
    BY Zenon DEF OnEcho
  <2> HIDE DEF ready
  <2> QED
    BY <1>2, <2>1, <2>2, ReadyInv, Zenon
<1>4. receivedEcho' = [receivedEcho EXCEPT ![i][v] = votes]
  BY Zenon DEF OnEcho
<1>5. TypeOK'
  <2>1. receivedEcho' \in [Honest -> [Values -> SUBSET Nodes]]
    BY <1>1, <1>4, Zenon DEF IndInv, TypeOK
  <2>2. UNCHANGED <<receivedReady, sentEcho, output>>
    BY Zenon DEF OnEcho
  <2> QED
    BY <1>3, <2>1, <2>2, Zenon DEF IndInv, TypeOK, Honest, Message
<1>6. TalliesSound'
  <2>1. \A k \in Honest, w \in Values :
          receivedEcho'[k][w] = IF k = i /\ w = v THEN votes ELSE receivedEcho[k][w]
    BY <1>4, Zenon DEF IndInv, TypeOK
  <2> QED
    BY <1>3, <2>1 DEF IndInv, TalliesSound, OnEcho, Honest, Echo, Ready
<1>7. DeliveredNodesAreReady'
  BY <1>3, Zenon DEF IndInv, DeliveredNodesAreReady, OnEcho, Honest, Ready
<1> QED
  BY <1>3, <1>5, <1>6, <1>7, Zenon DEF IndInv

\* The READY case of OnMessage preserves IndInv.  A READY sent early, and a
\* value delivered, both have an honest READY behind them.
LEMMA OnReadyInv ==
    ASSUME IndInv, NEW i \in Honest, NEW v \in Values, NEW j \in Nodes, OnReady(i, v, j),
           j \in Honest => Ready(v, j) \in sent
    PROVE  IndInv'
<1> DEFINE votes == receivedReady[i][v] \union {j}
           ready == Cardinality(votes) >= ReadyThreshold /\ ~sentReady[i]
           deliver == Cardinality(votes) >= DeliverThreshold
<1>1. votes \in SUBSET Nodes
  BY Zenon DEF IndInv, TypeOK
<1>2. \A k \in votes \intersect Honest : Ready(v, k) \in sent
  BY Zenon DEF IndInv, TalliesSound
<1>3. Cardinality(votes) >= ReadyThreshold => \E k \in Honest : Ready(v, k) \in sent
  BY <1>1, <1>2, HonestWitness, Zenon
<1>4. ready => Supported(v)
  BY <1>3, Zenon DEF IndInv, ReadySupported
<1>5. deliver => Cardinality(votes) >= ReadyThreshold
  <2>1. Cardinality(votes) \in Nat
    BY <1>1, NodesAssumption, FS_Subset, FS_CardinalityType, Zenon
  <2> QED
    BY <2>1, Bounds, ResilienceAssumption DEF DeliverThreshold, ReadyThreshold
<1>6. /\ sent' \subseteq Message
      /\ sentReady' \in [Honest -> BOOLEAN]
      /\ sent \subseteq sent'
      /\ SentByHonest' /\ MsgOnce' /\ EchoOnce' /\ EchoFromMsg'
      /\ ReadySupported' /\ SentReadyIsSent'
  <2>1. ready \in BOOLEAN
    BY Zenon
  <2>2. /\ sent' = IF ready THEN sent \union {Ready(v, i)} ELSE sent
        /\ sentReady' = [sentReady EXCEPT ![i] = @ \/ ready]
        /\ UNCHANGED sentEcho
    BY Zenon DEF OnReady
  <2> HIDE DEF ready
  <2> QED
    BY <1>4, <2>1, <2>2, ReadyInv, Zenon
<1>7. CASE deliver
  <2>1. /\ output' = [output EXCEPT ![i] = v]
        /\ receivedEcho' = [receivedEcho EXCEPT ![i] = NoVotes]
        /\ receivedReady' = [receivedReady EXCEPT ![i] = NoVotes]
    BY <1>7, Zenon DEF OnReady
  <2>2. NoVotes \in [Values -> SUBSET Nodes] /\ \A w \in Values : NoVotes[w] = {}
    BY Zenon DEF NoVotes
  <2>3. TypeOK'
    BY <1>6, <2>1, <2>2, Zenon DEF IndInv, TypeOK, OnReady
  <2>4. TalliesSound'
    <3>1. \A k \in Honest, w \in Values :
            /\ receivedEcho'[k][w] = IF k = i THEN {} ELSE receivedEcho[k][w]
            /\ receivedReady'[k][w] = IF k = i THEN {} ELSE receivedReady[k][w]
      BY <2>1, <2>2, Zenon DEF IndInv, TypeOK
    <3> QED
      BY <1>6, <3>1 DEF IndInv, TalliesSound, Honest, Echo, Ready
  <2>5. Ready(v, i) \in sent'
    <3>1. CASE sentReady[i]
      <4>1. PICK w \in Values : Ready(w, i) \in sent
        BY <3>1, Zenon DEF IndInv, SentReadyIsSent
      <4>2. PICK k \in Honest : Ready(v, k) \in sent
        BY <1>3, <1>5, <1>7, Zenon
      <4>3. v = w
        BY <4>1, <4>2, ReadyAgreement, Zenon DEF IndInv
      <4> QED
        BY <1>6, <4>1, <4>3, Zenon
    <3>2. CASE ~sentReady[i]
      BY <1>5, <1>7, <3>2, Zenon DEF OnReady
    <3> QED
      BY <3>1, <3>2, Zenon
  <2>6. DeliveredNodesAreReady'
    <3>1. \A k \in Honest : output'[k] = IF k = i THEN v ELSE output[k]
      BY <2>1, Zenon DEF IndInv, TypeOK
    <3> QED
      BY <1>6, <2>5, <3>1, Zenon DEF IndInv, DeliveredNodesAreReady, Honest, Ready
  <2> QED
    BY <1>6, <2>3, <2>4, <2>6, Zenon DEF IndInv
<1>8. CASE ~deliver
  <2>1. /\ receivedReady' = [receivedReady EXCEPT ![i][v] = votes]
        /\ UNCHANGED <<receivedEcho, output>>
    BY <1>8, Zenon DEF OnReady
  <2>2. TypeOK'
    BY <1>1, <1>6, <2>1, Zenon DEF IndInv, TypeOK, OnReady
  <2>3. TalliesSound'
    <3>1. \A k \in Honest, w \in Values :
            receivedReady'[k][w] = IF k = i /\ w = v THEN votes ELSE receivedReady[k][w]
      BY <2>1, Zenon DEF IndInv, TypeOK
    <3> QED
      BY <1>2, <1>6, <2>1, <3>1 DEF IndInv, TalliesSound, Honest, Echo, Ready
  <2>4. DeliveredNodesAreReady'
    BY <1>6, <2>1, Zenon DEF IndInv, DeliveredNodesAreReady, Honest, Ready
  <2> QED
    BY <1>6, <2>2, <2>3, <2>4, Zenon DEF IndInv
<1> QED
  BY <1>7, <1>8, Zenon

\* Every step preserves IndInv.
LEMMA NextInv == IndInv /\ [Next]_vars => IndInv'
<1> SUFFICES ASSUME IndInv, [Next]_vars PROVE IndInv'
  BY Zenon
<1>1. CASE \E v \in Values : Start(v) \/ StartAndHandle(v)
  BY <1>1, StartInv, StartAndHandleInv, Zenon
<1>2. CASE \E i \in Honest, m \in sent \union FaultySends : OnMessage(i, m)
  <2>1. PICK i \in Honest, m \in sent \union FaultySends : OnMessage(i, m)
    BY <1>2, Zenon
  <2>2. /\ m.val \in Values
        /\ m.from \in Nodes
        /\ m.type = "MSG" /\ Sender \in Honest => Msg(m.val) \in sent
        /\ m.type = "ECHO" /\ m.from \in Honest => Echo(m.val, m.from) \in sent
        /\ m.type = "READY" /\ m.from \in Honest => Ready(m.val, m.from) \in sent
    BY Received, Zenon DEF IndInv
  <2>3. CASE m.type = "MSG" /\ OnMsg(i, m.val)
    BY <2>2, <2>3, OnMsgInv, Zenon
  <2>4. CASE m.type = "ECHO" /\ OnEcho(i, m.val, m.from)
    BY <2>2, <2>4, OnEchoInv, Zenon
  <2>5. CASE m.type = "READY" /\ OnReady(i, m.val, m.from)
    BY <2>2, <2>5, OnReadyInv, Zenon
  <2> QED
    BY <2>1, <2>3, <2>4, <2>5, Zenon DEF OnMessage
<1>3. CASE UNCHANGED vars
  BY <1>3, SMTT(30)
     DEF vars, IndInv, TypeOK, SentByHonest, MsgOnce, EchoOnce, EchoFromMsg, TalliesSound,
              ReadySupported, Supported, SentReadyIsSent, DeliveredNodesAreReady
<1> QED
  BY <1>1, <1>2, <1>3, Zenon DEF Next

\* IndInv holds in every reachable state, whatever the faulty nodes send.
THEOREM Invariance == Safety => []IndInv
  BY InitInv, NextInv, PTL DEF Safety

(***************************************************************************)
(* The theorems.                                                           *)
(***************************************************************************)

\* The handlers keep every variable in its type; in particular a node's tallies
\* name only participants.
THEOREM TypeCorrect == Safety => []TypeOK
<1>1. IndInv => TypeOK
  BY Zenon DEF IndInv
<1> QED
  BY <1>1, Invariance, PTL

\* A delivered node has sent READY for what it delivered.
THEOREM DeliveredAreReady == Safety => []DeliveredNodesAreReady
<1>1. IndInv => DeliveredNodesAreReady
  BY Zenon DEF IndInv
<1> QED
  BY <1>1, Invariance, PTL

\* IndInv implies Agreement.
LEMMA IndInvAgreement == IndInv => Agreement
<1> SUFFICES ASSUME IndInv, NEW i \in Honest, NEW j \in Honest,
                    output[i] # NoValue, output[j] # NoValue
             PROVE  output[i] = output[j]
  BY Zenon DEF Agreement
<1>1. output[i] \in Values /\ output[j] \in Values
  BY Zenon DEF IndInv, TypeOK
<1>2. Ready(output[i], i) \in sent /\ Ready(output[j], j) \in sent
  BY Zenon DEF IndInv, DeliveredNodesAreReady
<1> QED
  BY <1>1, <1>2, ReadyAgreement, Zenon DEF IndInv

\* No two honest nodes pass different values of one A-Cast to SendResult, for
\* any n > 3t and any behaviour of at most t faulty nodes.
THEOREM AgreementHolds == Safety => []Agreement
  BY IndInvAgreement, Invariance, PTL

\* IndInv implies Integrity: the quorum behind a delivered value has an honest
\* member, which echoed what the owner broadcast.
LEMMA IndInvIntegrity == IndInv => Integrity
<1> SUFFICES ASSUME IndInv, NEW i \in Honest, Sender \in Honest, output[i] # NoValue
             PROVE  Msg(output[i]) \in sent
  BY Zenon DEF Integrity
<1>1. output[i] \in Values
  BY Zenon DEF IndInv, TypeOK
<1>2. Supported(output[i])
  BY <1>1, Zenon DEF IndInv, DeliveredNodesAreReady, ReadySupported
<1>3. PICK Q \in SUBSET Nodes :
              /\ Cardinality(Q) >= EchoThreshold
              /\ \A k \in Q \intersect Honest : Echo(output[i], k) \in sent
  BY <1>2, Zenon DEF Supported
<1>4. PICK k \in Honest : k \in Q
  BY <1>3, QuorumsMeet, Zenon
<1> QED
  BY <1>1, <1>3, <1>4, Zenon DEF IndInv, EchoFromMsg

\* An honest owner's A-Cast delivers nothing but what the owner broadcast.
THEOREM IntegrityHolds == Safety => []Integrity
  BY IndInvIntegrity, Invariance, PTL

(***************************************************************************)
(* Nothing is left half done: EndInv, and DeliveryEnds from it.            *)
(***************************************************************************)

\* The honest nodes alone reach every threshold, and are a majority among the
\* 2t + 1 that a delivery takes.
LEMMA HonestQuorum ==
    /\ IsFiniteSet(Honest)
    /\ Cardinality(Honest) >= EchoThreshold /\ Cardinality(Honest) >= DeliverThreshold
    /\ \A S \in SUBSET Nodes :
          Cardinality(S) >= DeliverThreshold => Cardinality(S \intersect Honest) >= ReadyThreshold
<1>1. IsFiniteSet(Nodes) /\ IsFiniteSet(Faulty) /\ IsFiniteSet(Honest)
  BY NodesAssumption, FS_Subset, Zenon DEF Honest
<1>2. ASSUME NEW S \in SUBSET Nodes
      PROVE  /\ Cardinality(S) \in Nat /\ Cardinality(S \intersect Honest) \in Nat
             /\ Cardinality(S) <= Cardinality(S \intersect Honest) + T
  <2>1. IsFiniteSet(S) /\ IsFiniteSet(S \intersect Faulty) /\ IsFiniteSet(S \intersect Honest)
    BY <1>1, FS_Subset, Zenon
  <2>2. Cardinality(S \intersect Faulty) <= Cardinality(Faulty)
    BY <1>1, FS_Subset, S \intersect Faulty \in SUBSET Faulty
  <2>3. /\ S = (S \intersect Honest) \union (S \intersect Faulty)
        /\ (S \intersect Honest) \intersect (S \intersect Faulty) = {}
    BY Zenon DEF Honest
  <2>4. Cardinality(S) = Cardinality(S \intersect Honest) + Cardinality(S \intersect Faulty) - 0
    BY <2>1, <2>3, FS_Union, FS_EmptySet
  <2>5. /\ Cardinality(S) \in Nat /\ Cardinality(S \intersect Honest) \in Nat
        /\ Cardinality(S \intersect Faulty) \in Nat /\ Cardinality(Faulty) \in Nat
    BY <1>1, <2>1, FS_CardinalityType, Zenon
  <2> QED
    BY <2>2, <2>4, <2>5, ResilienceAssumption
<1>3. Nodes \in SUBSET Nodes /\ Nodes \intersect Honest = Honest
  BY Zenon DEF Honest
<1>4. Cardinality(Honest) \in Nat /\ N <= Cardinality(Honest) + T
  BY <1>2, <1>3, Zenon DEF N
<1>5. Cardinality(Honest) >= EchoThreshold /\ Cardinality(Honest) >= DeliverThreshold
  BY <1>4, Bounds, ResilienceAssumption DEF EchoThreshold, DeliverThreshold
<1>6. \A S \in SUBSET Nodes :
          Cardinality(S) >= DeliverThreshold => Cardinality(S \intersect Honest) >= ReadyThreshold
  BY <1>2, ResilienceAssumption DEF DeliverThreshold, ReadyThreshold
<1> QED
  BY <1>1, <1>5, <1>6, Zenon

\* A tally that holds a set of nodes is at least as large.
LEMMA LargerTally ==
    ASSUME NEW S \in SUBSET Nodes, NEW X, X \subseteq S, NEW k \in Nat, Cardinality(X) >= k
    PROVE  Cardinality(S) >= k
<1>1. IsFiniteSet(S) /\ IsFiniteSet(X)
  BY NodesAssumption, FS_Subset, Zenon
<1>2. Cardinality(X) <= Cardinality(S) /\ Cardinality(X) \in Nat /\ Cardinality(S) \in Nat
  BY <1>1, FS_Subset, FS_CardinalityType, Zenon
<1> QED
  BY <1>2

\* At the start nothing is tallied.
LEMMA InitEnd == Init => EndInv
<1>1. Cardinality({}) = 0
  BY FS_EmptySet, Zenon
<1>2. ~ 0 >= EchoThreshold /\ ~ 0 >= ReadyThreshold /\ 0 < DeliverThreshold
  BY Bounds, ResilienceAssumption DEF EchoThreshold, ReadyThreshold, DeliverThreshold
<1> SUFFICES ASSUME Init PROVE EndInv
  BY Zenon
<1>3. \A i \in Honest, v \in Values : receivedEcho[i][v] = {} /\ receivedReady[i][v] = {}
  BY Zenon DEF Init, NoVotes
<1>4. TalliesFire
  BY <1>1, <1>2, <1>3, Zenon DEF TalliesFire
<1>5. SentEchoIsSent /\ DeliveryIsHeard
  BY Zenon DEF Init, SentEchoIsSent, DeliveryIsHeard
<1> QED
  BY <1>4, <1>5, Zenon DEF EndInv

\* READYs behind a delivery stay.
LEMMA HeardStays ==
    ASSUME DeliveryIsHeard, sent \subseteq sent', NEW i \in Honest, output[i] # NoValue
    PROVE  \E Q \in SUBSET Honest : /\ Cardinality(Q) >= ReadyThreshold
                                    /\ \A k \in Q : Ready(output[i], k) \in sent'
  BY Zenon DEF DeliveryIsHeard

\* A step that opens the A-Cast or echoes keeps EndInv.
LEMMA EchoEnd ==
    ASSUME EndInv, sent \subseteq sent', UNCHANGED <<receivedEcho, receivedReady, sentReady, output>>,
           \A i \in Honest : sentEcho'[i] => sentEcho[i] \/ \E v \in Values : Echo(v, i) \in sent'
    PROVE  EndInv'
<1> USE DEF EndInv
<1>1. SentEchoIsSent'
  BY Zenon DEF SentEchoIsSent, Echo, Honest
<1>2. TalliesFire'
  BY Zenon DEF TalliesFire, Honest, EchoThreshold, ReadyThreshold, DeliverThreshold, N
<1>3. DeliveryIsHeard'
  BY HeardStays, Zenon DEF DeliveryIsHeard, Ready, Honest, ReadyThreshold
<1> QED
  BY <1>1, <1>2, <1>3, Zenon

\* The ECHO case of OnMessage keeps EndInv: a full tally makes it send READY.
LEMMA OnEchoEnd ==
    ASSUME IndInv, EndInv, NEW i \in Honest, NEW v \in Values, NEW j \in Nodes, OnEcho(i, v, j)
    PROVE  EndInv'
<1> DEFINE votes == receivedEcho[i][v] \union {j}
           ready == Cardinality(votes) >= EchoThreshold /\ ~sentReady[i]
<1>1. /\ receivedEcho' = [receivedEcho EXCEPT ![i][v] = votes]
      /\ sentReady' = [sentReady EXCEPT ![i] = @ \/ ready]
      /\ UNCHANGED <<receivedReady, sentEcho, output>> /\ sent \subseteq sent'
  BY Zenon DEF OnEcho
<1>2. \A k \in Honest : (sentReady[k] => sentReady'[k]) /\ (k = i /\ ready => sentReady'[k])
  BY <1>1, Zenon DEF IndInv, TypeOK
<1>3. \A k \in Honest, w \in Values :
        receivedEcho'[k][w] = IF k = i /\ w = v THEN votes ELSE receivedEcho[k][w]
  BY <1>1, Zenon DEF IndInv, TypeOK
<1> HIDE DEF votes
<1>4. SentEchoIsSent'
  BY <1>1, Zenon DEF EndInv, SentEchoIsSent, Echo, Honest
<1>5. DeliveryIsHeard'
  BY <1>1, HeardStays, Zenon DEF EndInv, DeliveryIsHeard, Ready, Honest, ReadyThreshold
<1>6. TalliesFire'
  BY <1>1, <1>2, <1>3
     DEF EndInv, TalliesFire, Honest, EchoThreshold, ReadyThreshold, DeliverThreshold, N
<1> QED
  BY <1>4, <1>5, <1>6, Zenon DEF EndInv

\* The READY case of OnMessage keeps EndInv: a tally of t + 1 makes it send READY,
\* one of 2t + 1 makes it deliver.
LEMMA OnReadyEnd ==
    ASSUME IndInv, EndInv, NEW i \in Honest, NEW v \in Values, NEW j \in Nodes, OnReady(i, v, j),
           j \in Honest => Ready(v, j) \in sent
    PROVE  EndInv'
<1> DEFINE votes == receivedReady[i][v] \union {j}
           ready == Cardinality(votes) >= ReadyThreshold /\ ~sentReady[i]
           deliver == Cardinality(votes) >= DeliverThreshold
<1>1. /\ sentReady' = [sentReady EXCEPT ![i] = @ \/ ready]
      /\ sentEcho' = sentEcho /\ sent \subseteq sent' /\ output[i] = NoValue
  BY Zenon DEF OnReady
<1>2. \A k \in Honest : (sentReady[k] => sentReady'[k]) /\ (k = i /\ ready => sentReady'[k])
  BY <1>1, Zenon DEF IndInv, TypeOK
<1>3. votes \in SUBSET Nodes /\ \A k \in votes \intersect Honest : Ready(v, k) \in sent
  BY Zenon DEF IndInv, TypeOK, TalliesSound
<1>4. SentEchoIsSent'
  BY <1>1, Zenon DEF EndInv, SentEchoIsSent, Echo, Honest
<1>5. CASE deliver
  <2>1. /\ output' = [output EXCEPT ![i] = v]
        /\ receivedEcho' = [receivedEcho EXCEPT ![i] = NoVotes]
        /\ receivedReady' = [receivedReady EXCEPT ![i] = NoVotes]
    BY <1>5, Zenon DEF OnReady
  <2>2. \A k \in Honest : output'[k] = IF k = i THEN v ELSE output[k]
    BY <2>1, Zenon DEF IndInv, TypeOK
  <2>3. \A k \in Honest : k # i => receivedEcho'[k] = receivedEcho[k] /\ receivedReady'[k] = receivedReady[k]
    BY <2>1, Zenon DEF IndInv, TypeOK
  <2>4. v # NoValue
    BY NodesAssumption, Zenon
  <2>5. TalliesFire'
    BY <1>2, <2>2, <2>3, <2>4, Zenon
       DEF EndInv, TalliesFire, Honest, EchoThreshold, ReadyThreshold, DeliverThreshold, N
  <2>6. DeliveryIsHeard'
    <3> SUFFICES ASSUME NEW k \in Honest, output'[k] # NoValue
                 PROVE  \E Q \in SUBSET Honest : /\ Cardinality(Q) >= ReadyThreshold
                                                 /\ \A x \in Q : Ready(output'[k], x) \in sent'
      BY Zenon DEF DeliveryIsHeard, Ready, Honest, ReadyThreshold
    <3>1. CASE k = i
      <4>1. Cardinality(votes \intersect Honest) >= ReadyThreshold
        BY <1>3, <1>5, HonestQuorum, Zenon
      <4>2. \A x \in votes \intersect Honest : Ready(output'[k], x) \in sent'
        BY <1>1, <1>3, <2>2, <3>1, Zenon
      <4> QED
        BY <4>1, <4>2, votes \intersect Honest \in SUBSET Honest
    <3>2. CASE k # i
      BY <1>1, <2>2, <3>2, HeardStays, Zenon DEF EndInv
    <3> QED
      BY <3>1, <3>2, Zenon
  <2> QED
    BY <1>4, <2>5, <2>6, Zenon DEF EndInv
<1>6. CASE ~deliver
  <2>1. /\ receivedReady' = [receivedReady EXCEPT ![i][v] = votes]
        /\ UNCHANGED <<receivedEcho, output>>
    BY <1>6, Zenon DEF OnReady
  <2>2. \A k \in Honest, w \in Values :
          receivedReady'[k][w] = IF k = i /\ w = v THEN votes ELSE receivedReady[k][w]
    BY <2>1, Zenon DEF IndInv, TypeOK
  <2>3. Cardinality(votes) < DeliverThreshold
    <3>1. Cardinality(votes) \in Nat
      BY <1>3, NodesAssumption, FS_Subset, FS_CardinalityType, Zenon
    <3> QED
      BY <1>6, <3>1, ResilienceAssumption DEF DeliverThreshold
  <2> HIDE DEF votes
  <2>4. TalliesFire'
    BY <1>2, <2>1, <2>2, <2>3
       DEF EndInv, TalliesFire, Honest, EchoThreshold, ReadyThreshold, DeliverThreshold, N
  <2>5. DeliveryIsHeard'
    BY <1>1, <2>1, HeardStays, Zenon DEF EndInv, DeliveryIsHeard, Ready, Honest, ReadyThreshold
  <2> QED
    BY <1>4, <2>4, <2>5, Zenon DEF EndInv
<1> QED
  BY <1>5, <1>6, Zenon

\* Every step preserves EndInv.
LEMMA NextEnd == IndInv /\ EndInv /\ [Next]_vars => EndInv'
<1> SUFFICES ASSUME IndInv, EndInv, [Next]_vars PROVE EndInv'
  BY Zenon
<1>1. ASSUME NEW v \in Values, Start(v) \/ StartAndHandle(v) PROVE EndInv'
  <2>1. UNCHANGED <<receivedEcho, receivedReady, sentReady, output>> /\ sent \subseteq sent'
    BY <1>1, Zenon DEF Start, StartAndHandle
  <2>2. \A i \in Honest : sentEcho'[i] => sentEcho[i] \/ \E w \in Values : Echo(w, i) \in sent'
    BY <1>1, Zenon DEF Start, StartAndHandle, IndInv, TypeOK
  <2> QED
    BY <2>1, <2>2, EchoEnd, Zenon
<1>2. ASSUME NEW i \in Honest, NEW m \in sent \union FaultySends, OnMessage(i, m) PROVE EndInv'
  <2>1. /\ m.val \in Values
        /\ m.from \in Nodes
        /\ m.type = "READY" /\ m.from \in Honest => Ready(m.val, m.from) \in sent
    BY Received, Zenon DEF IndInv
  <2>2. CASE m.type = "MSG" /\ OnMsg(i, m.val)
    <3>1. UNCHANGED <<receivedEcho, receivedReady, sentReady, output>> /\ sent \subseteq sent'
      BY <2>2, Zenon DEF OnMsg
    <3>2. \A k \in Honest : sentEcho'[k] => sentEcho[k] \/ \E w \in Values : Echo(w, k) \in sent'
      BY <2>1, <2>2, Zenon DEF OnMsg, IndInv, TypeOK
    <3> QED
      BY <3>1, <3>2, EchoEnd, Zenon
  <2>3. CASE m.type = "ECHO" /\ OnEcho(i, m.val, m.from)
    BY <2>1, <2>3, OnEchoEnd, Zenon
  <2>4. CASE m.type = "READY" /\ OnReady(i, m.val, m.from)
    BY <2>1, <2>4, OnReadyEnd, Zenon
  <2> QED
    BY <1>2, <2>2, <2>3, <2>4, Zenon DEF OnMessage
<1>3. CASE UNCHANGED vars
  BY <1>3, Zenon DEF vars, EndInv, SentEchoIsSent, TalliesFire, DeliveryIsHeard
<1> QED
  BY <1>1, <1>2, <1>3, Zenon DEF Next

\* EndInv holds in every reachable state.
THEOREM EndInvariance == Safety => []EndInv
  BY InitEnd, NextEnd, Invariance, PTL, InitInv DEF Safety

\* READYs of all honest nodes are enough to deliver.
LEMMA AllReadyDelivers ==
    ASSUME IndInv, EndInv, \A i \in Honest : HandledAll(i), NEW v \in Values,
           \A k \in Honest : Ready(v, k) \in sent, NEW i \in Honest
    PROVE  output[i] # NoValue
<1> SUFFICES ASSUME output[i] = NoValue PROVE FALSE
  BY Zenon
<1>1. Honest \subseteq receivedReady[i][v]
  BY Zenon DEF HandledAll, Ready
<1>2. receivedReady[i][v] \in SUBSET Nodes /\ Cardinality(receivedReady[i][v]) < DeliverThreshold
  BY Zenon DEF IndInv, TypeOK, EndInv, TalliesFire
<1>3. DeliverThreshold \in Nat
  BY ResilienceAssumption, SMTT(30) DEF DeliverThreshold
<1>4. Cardinality(receivedReady[i][v]) >= DeliverThreshold
  BY <1>1, <1>2, <1>3, HonestQuorum, LargerTally, Zenon
<1>5. Cardinality(receivedReady[i][v]) \in Nat
  BY <1>2, NodesAssumption, FS_Subset, FS_CardinalityType, Zenon
<1> QED
  BY <1>2, <1>3, <1>4, <1>5

\* Totality: what one honest node has delivered, all have, once there is nothing
\* left to react to.
LEMMA DeliveredEverywhere ==
    ASSUME IndInv, EndInv, \A i \in Honest : HandledAll(i),
           NEW j \in Honest, output[j] # NoValue, NEW i \in Honest
    PROVE  output[i] = output[j]
<1> DEFINE v == output[j]
<1>1. v \in Values
  BY Zenon DEF IndInv, TypeOK
<1>2. PICK Q \in SUBSET Honest : Cardinality(Q) >= ReadyThreshold /\ \A k \in Q : Ready(v, k) \in sent
  BY Zenon DEF EndInv, DeliveryIsHeard
<1>3. Ready(v, j) \in sent
  BY Zenon DEF IndInv, DeliveredNodesAreReady
<1>4. ASSUME NEW k \in Honest PROVE Ready(v, k) \in sent
  <2>1. CASE output[k] # NoValue
    BY <2>1, IndInvAgreement, Zenon DEF Agreement, IndInv, DeliveredNodesAreReady
  <2>2. CASE output[k] = NoValue
    <3>1. Q \subseteq receivedReady[k][v]
      BY <1>2, <2>2, Zenon DEF HandledAll, Ready
    <3>2. receivedReady[k][v] \in SUBSET Nodes
      BY <1>1 DEF IndInv, TypeOK
    <3>3. Cardinality(receivedReady[k][v]) >= ReadyThreshold
      BY <1>2, <3>1, <3>2, Bounds, LargerTally, Zenon
    <3>4. sentReady[k]
      BY <1>1, <2>2, <3>3, Zenon DEF EndInv, TalliesFire
    <3>5. PICK w \in Values : Ready(w, k) \in sent
      BY <3>4, Zenon DEF IndInv, SentReadyIsSent
    <3> QED
      BY <1>1, <1>3, <3>5, ReadyAgreement, Zenon DEF IndInv
  <2> QED
    BY <2>1, <2>2, Zenon
<1> HIDE DEF v
<1>5. output[i] # NoValue
  BY <1>1, <1>4, AllReadyDelivers, Zenon
<1> QED
  BY <1>5, IndInvAgreement, Zenon DEF Agreement

\* Validity: the value of an honest owner is delivered, once there is nothing left
\* to react to.
LEMMA BroadcastDelivered ==
    ASSUME IndInv, EndInv, \A i \in Honest : HandledAll(i),
           Sender \in Honest, NEW v \in Values, Msg(v) \in sent, NEW i \in Honest
    PROVE  output[i] # NoValue
<1> SUFFICES ASSUME output[i] = NoValue PROVE FALSE
  BY Zenon
<1>1. \A k \in Honest : output[k] = NoValue
  BY DeliveredEverywhere, Zenon
<1>2. ASSUME NEW k \in Honest PROVE Echo(v, k) \in sent
  <2>1. sentEcho[k]
    BY <1>1, Zenon DEF HandledAll, Msg
  <2>2. PICK w \in Values : Echo(w, k) \in sent
    BY <2>1, Zenon DEF EndInv, SentEchoIsSent
  <2> QED
    BY <2>2, Zenon DEF IndInv, EchoFromMsg, MsgOnce
<1>3. ASSUME NEW k \in Honest PROVE Ready(v, k) \in sent
  <2>1. Honest \subseteq receivedEcho[k][v]
    BY <1>1, <1>2, Zenon DEF HandledAll, Echo
  <2>2. receivedEcho[k][v] \in SUBSET Nodes
    BY DEF IndInv, TypeOK
  <2>3. Cardinality(receivedEcho[k][v]) >= EchoThreshold
    BY <2>1, <2>2, Bounds, HonestQuorum, LargerTally, Zenon
  <2>4. sentReady[k]
    BY <1>1, <2>3, Zenon DEF EndInv, TalliesFire
  <2>5. PICK w \in Values : Ready(w, k) \in sent
    BY <2>4, Zenon DEF IndInv, SentReadyIsSent
  <2>6. PICK Q \in SUBSET Nodes : /\ Cardinality(Q) >= EchoThreshold
                                  /\ \A x \in Q \intersect Honest : Echo(w, x) \in sent
    BY <2>5, Zenon DEF IndInv, ReadySupported, Supported
  <2>7. PICK x \in Honest : x \in Q
    BY <2>6, QuorumsMeet, Zenon
  <2>8. w = v
    BY <1>2, <2>6, <2>7, Zenon DEF IndInv, EchoOnce
  <2> QED
    BY <2>5, <2>8, Zenon
<1> QED
  BY <1>3, AllReadyDelivers, Zenon

\* An A-Cast is never left half done, for any n > 3t and whatever at most t faulty
\* nodes send or withhold: when OnMessage has nothing left to react to at any honest
\* node, an honest owner's value and any delivered value are delivered everywhere.
THEOREM DeliveryEndsHolds == Safety => []DeliveryEnds
<1>1. IndInv /\ EndInv => DeliveryEnds
  <2> SUFFICES ASSUME IndInv, EndInv, \A i \in Honest : HandledAll(i),
                      NEW i \in Honest, NEW v \in Values,
                      (Sender \in Honest /\ Msg(v) \in sent) \/ (\E j \in Honest : output[j] = v)
               PROVE  output[i] = v
    BY Zenon DEF DeliveryEnds
  <2>1. CASE \E j \in Honest : output[j] = v
    BY <2>1, NodesAssumption, DeliveredEverywhere, Zenon
  <2>2. CASE Sender \in Honest /\ Msg(v) \in sent
    <3>1. output[i] # NoValue /\ output[i] \in Values
      BY <2>2, BroadcastDelivered, Zenon DEF IndInv, TypeOK
    <3>2. Msg(output[i]) \in sent
      BY <2>2, <3>1, IndInvIntegrity, Zenon DEF Integrity
    <3> QED
      BY <2>2, <3>1, <3>2, Zenon DEF IndInv, MsgOnce
  <2> QED
    BY <2>1, <2>2, Zenon
<1> QED
  BY <1>1, Invariance, EndInvariance, PTL

(***************************************************************************)
(* Refinement of reliable broadcast.                                       *)
(***************************************************************************)

\* A step that sends no MSG leaves the abstract broadcast value alone.
LEMMA SentValueStays ==
    ASSUME \A v \in Values : Msg(v) \in sent' <=> Msg(v) \in sent
    PROVE  SentValue' = SentValue
<1>1. \A v \in Values : Msg(v)' = Msg(v)
  BY Zenon DEF Msg
<1>2. (CHOOSE v \in Values : Msg(v) \in sent') = (CHOOSE v \in Values : Msg(v) \in sent)
  BY Zenon
<1> QED
  BY <1>1, <1>2, Zenon DEF SentValue, Honest, Msg

\* The first MSG of the owner sets the abstract broadcast value.
LEMMA SentValueIs ==
    ASSUME MsgOnce, Sender \in Honest, NEW v \in Values, Msg(v) \in sent
    PROVE  SentValue = v
<1>1. \A w \in Values : Msg(w) \in sent <=> w = v
  BY Zenon DEF MsgOnce
<1> QED
  BY <1>1, Zenon DEF SentValue

\* Only the two ways of starting an A-Cast send a MSG.
LEMMA HandlersSendNoMsg ==
    ASSUME IndInv, NEW i \in Honest, NEW m \in sent \union FaultySends, OnMessage(i, m)
    PROVE  \A v \in Values : Msg(v) \in sent' <=> Msg(v) \in sent
<1>1. m.val \in Values /\ i \in Nodes
  BY Received, Zenon DEF IndInv, Honest
<1>2. \/ sent' = sent
      \/ sent' = sent \union {Echo(m.val, i)}
      \/ sent' = sent \union {Ready(m.val, i)}
  BY Zenon DEF OnMessage, OnMsg, OnEcho, OnReady
<1> QED
  BY <1>1, <1>2, Kinds

\* Each step of the handlers is a step of the abstract broadcast, or none.
LEMMA StepRefines ==
    ASSUME IndInv, IndInv', [Next]_vars
    PROVE  [RB!Next]_(RB!vars)
<1>1. ASSUME NEW v \in Values, Start(v) \/ StartAndHandle(v)
      PROVE  RB!Broadcast(v)
  <2>1. Sender \in Honest /\ NotStarted /\ Msg(v) \in sent' /\ output' = output
    BY <1>1, Zenon DEF Start, StartAndHandle
  <2>2. SentValue = NoValue
    BY <2>1, Zenon DEF SentValue, NotStarted
  <2>3. SentValue' = v
    <3>1. \A w \in Values : Msg(w) \in sent' <=> w = v
      BY <2>1, Zenon DEF IndInv, MsgOnce, Msg
    <3> QED
      BY <2>1, <3>1, Zenon DEF SentValue, Honest, Msg
  <2> QED
    BY <2>1, <2>2, <2>3, Zenon DEF RB!Broadcast
<1>2. ASSUME NEW i \in Honest, NEW m \in sent \union FaultySends, OnMessage(i, m)
      PROVE  RB!Deliver(i, m.val) \/ UNCHANGED RB!vars
  <2>1. SentValue' = SentValue
    BY <1>2, HandlersSendNoMsg, SentValueStays, Zenon
  <2>2. CASE output' = output
    BY <2>1, <2>2, Zenon DEF RB!vars
  <2>3. CASE output' # output
    <3>1. /\ output[i] = NoValue
          /\ output' = [output EXCEPT ![i] = m.val]
      BY <1>2, <2>3, Zenon DEF OnMessage, OnMsg, OnEcho, OnReady
    <3>2. m.val \in Values
      BY Received, Zenon DEF IndInv
    <3>3. \A j \in Honest : output'[j] = IF j = i THEN m.val ELSE output[j]
      BY <3>1, Zenon DEF IndInv, TypeOK
    <3>4. \A j, k \in Honest :
             output'[j] # NoValue /\ output'[k] # NoValue => output'[j] = output'[k]
      <4>1. Agreement'
        BY IndInvAgreement, PTL
      <4> QED
        BY <4>1, Zenon DEF Agreement, Honest
    <3>5. \A j \in Honest : output[j] \in {NoValue, m.val}
      BY <3>1, <3>2, <3>3, <3>4, NodesAssumption, Zenon
    <3>6. Sender \in Honest => SentValue = m.val
      <4>1. Integrity'
        BY IndInvIntegrity, PTL
      <4>2. Sender \in Honest => Msg(m.val) \in sent'
        BY <3>2, <3>3, <4>1, NodesAssumption, Zenon DEF Integrity, Honest, Msg
      <4>3. Sender \in Honest => Msg(m.val) \in sent
        BY <1>2, <3>2, <4>2, HandlersSendNoMsg, Zenon
      <4> QED
        BY <3>2, <4>3, SentValueIs, Zenon DEF IndInv
    <3> QED
      BY <2>1, <3>1, <3>5, <3>6, Zenon DEF RB!Deliver
  <2> QED
    BY <2>2, <2>3, Zenon
<1>3. CASE UNCHANGED vars
  <2>1. SentValue' = SentValue
    BY <1>3, SentValueStays, Zenon DEF vars, Msg
  <2> QED
    BY <1>3, <2>1, Zenon DEF vars, RB!vars
<1>4. ASSUME NEW i \in Honest, NEW m \in sent \union FaultySends, OnMessage(i, m)
      PROVE  m.val \in Values
  BY Received, Zenon DEF IndInv
<1> QED
  BY <1>1, <1>2, <1>3, <1>4, Zenon DEF Next, RB!Next

\* A-Cast implements reliable broadcast, as far as safety goes: whatever the
\* layers above may conclude from the abstract broadcast they may conclude of
\* acast.go.
THEOREM Refinement == Safety => ImplementsSafety
<1>1. Init => RB!Init
  BY Zenon DEF Init, RB!Init, SentValue
<1>2. IndInv /\ IndInv' /\ [Next]_vars => [RB!Next]_(RB!vars)
  BY StepRefines, Zenon
<1> QED
  BY <1>1, <1>2, Invariance, PTL DEF Safety, ImplementsSafety, RB!Safety
=============================================================================
