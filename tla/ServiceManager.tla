--------------------------- MODULE ServiceManager ---------------------------
(***************************************************************************)
(* The runtime under the protocols: Network (services/network.go), one     *)
(* ServiceManager per node (services/service.go) and the way main wires    *)
(* them (main.go, node.go).                                                *)
(*                                                                         *)
(* Network.Broadcast starts one goroutine per registered inbox; each waits *)
(* until its message fits.  One loop goroutine per node takes messages out *)
(* of the inbox, runs the service's OnMessage to its end, and moves the    *)
(* results that SendResult left in awaitingMsgs to the outbox.             *)
(*                                                                         *)
(* The service is any service: OnMessage broadcasts up to MaxBurst new     *)
(* messages and sends up to MaxBurst results.  The k-th message of node j  *)
(* is <<j, k>>, and the k-th result of a node is k.                        *)
(***************************************************************************)
EXTENDS Naturals, Sequences, Functions

CONSTANTS Nodes,
          InboxSize,    \* 1000 in the code
          OutboxSize,   \* 1000 in the code
          MaxCasts,     \* bound: broadcasts of each node
          MaxResults,   \* bound: results of each node
          MaxBurst,     \* bound: broadcasts, and results, of one handler
          Stoppable     \* the nodes whose Stop may be called

ASSUME SizesAssumption == InboxSize \in Nat \ {0} /\ OutboxSize \in Nat \ {0}
ASSUME BoundsAssumption ==
    MaxBurst \in Nat /\ MaxCasts \in [Nodes -> Nat] /\ MaxResults \in [Nodes -> Nat]

VARIABLES peers,     \* the nodes registered with the network
          started,   \* the nodes whose loop has been started
          begun,     \* the nodes whose service has been started
          running,   \* the nodes whose loop goroutine runs
          stopped,   \* the nodes whose stop channel is closed
          casts,     \* broadcasts of each node so far
          inFlight,  \* inFlight[i]: messages of goroutines that wait to send to i's inbox
          inbox,
          handled,   \* the messages whose OnMessage has run
          results,   \* calls of SendResult so far
          awaitingMsgs,
          outbox,
          read       \* what the consumer of Result() has received

startup == <<peers, started, begun>>
network == <<startup, casts, inFlight>>
flow    == <<results, awaitingMsgs, outbox, read>>
vars    == <<network, flow, running, stopped, inbox, handled>>

Messages == UNION {{i} \X (1..MaxCasts[i]) : i \in Nodes}

TypeOK ==
    /\ peers \subseteq Nodes /\ started \subseteq Nodes /\ begun \subseteq started
    /\ running \subseteq Nodes /\ stopped \subseteq Nodes
    /\ \A i \in Nodes : casts[i] \in 0..MaxCasts[i]
    /\ inFlight \in [Nodes -> SUBSET Messages]
    /\ inbox \in [Nodes -> Seq(Messages)]
    /\ handled \in [Nodes -> SUBSET Messages]
    /\ \A i \in Nodes : results[i] \in 0..MaxResults[i]
    /\ \A i \in Nodes :
          /\ awaitingMsgs[i] \in Seq(1..results[i])
          /\ outbox[i] \in Seq(1..results[i])
          /\ read[i] \in Seq(1..results[i])
          /\ Len(inbox[i]) <= InboxSize /\ Len(outbox[i]) <= OutboxSize

Init ==
    /\ peers = {} /\ started = {} /\ begun = {} /\ running = {} /\ stopped = {}
    /\ casts = [i \in Nodes |-> 0]
    /\ inFlight = [i \in Nodes |-> {}]
    /\ inbox = [i \in Nodes |-> <<>>]
    /\ handled = [i \in Nodes |-> {}]
    /\ results = [i \in Nodes |-> 0]
    /\ awaitingMsgs = [i \in Nodes |-> <<>>]
    /\ outbox = [i \in Nodes |-> <<>>]
    /\ read = [i \in Nodes |-> <<>>]

-----------------------------------------------------------------------------

\* Network.Broadcast of i's next c messages.
Broadcast(i, c) ==
    /\ casts[i] + c <= MaxCasts[i]
    /\ casts' = [casts EXCEPT ![i] = @ + c]
    /\ inFlight' = [j \in Nodes |->
          IF j \in peers
          THEN inFlight[j] \union {<<i, k>> : k \in casts[i] + 1..casts[i] + c}
          ELSE inFlight[j]]

\* SendResult of i's next s results.
SendResult(i, s) ==
    /\ results[i] + s <= MaxResults[i]
    /\ results' = [results EXCEPT ![i] = @ + s]
    /\ awaitingMsgs' = [awaitingMsgs EXCEPT ![i] = @ \o [k \in 1..s |-> results[i] + k]]

Register(i) ==
    /\ i \notin peers
    /\ peers' = peers \union {i}
    /\ UNCHANGED <<started, begun, casts, inFlight, flow, running, stopped, inbox, handled>>

\* A node started before the others are registered.
StartEarly(i) ==
    /\ i \in peers \ started
    /\ started' = started \union {i}
    /\ running' = running \union {i}
    /\ UNCHANGED <<peers, begun, casts, inFlight, flow, stopped, inbox, handled>>

\* main starts nodes once all are registered.  Node.Start first starts the loop.
Start(i) ==
    /\ peers = Nodes
    /\ i \notin started
    /\ started' = started \union {i}
    /\ running' = running \union {i}
    /\ UNCHANGED <<peers, begun, casts, inFlight, flow, stopped, inbox, handled>>

\* Node.Start then starts the protocol, which broadcasts its first messages; the
\* loop may have run handlers by then.
StartService(i) ==
    /\ i \in started \ begun
    /\ begun' = begun \union {i}
    /\ \E c \in 1..MaxBurst : Broadcast(i, c)
    /\ UNCHANGED <<peers, started, flow, running, stopped, inbox, handled>>

\* An inbox without bound.
ArriveUnbounded(i, m) ==
    /\ m \in inFlight[i]
    /\ inFlight' = [inFlight EXCEPT ![i] = @ \ {m}]
    /\ inbox' = [inbox EXCEPT ![i] = Append(@, m)]
    /\ UNCHANGED <<startup, casts, flow, running, stopped, handled>>

\* A goroutine of Broadcast gets its message into the inbox of i.
Arrive(i, m) ==
    /\ m \in inFlight[i]
    /\ Len(inbox[i]) < InboxSize
    /\ inFlight' = [inFlight EXCEPT ![i] = @ \ {m}]
    /\ inbox' = [inbox EXCEPT ![i] = Append(@, m)]
    /\ UNCHANGED <<startup, casts, flow, running, stopped, handled>>

\* A loop that first waits for room in the outbox.
ReceiveAfterFlush(i) ==
    /\ i \in running
    /\ inbox[i] # <<>>
    /\ awaitingMsgs[i] = <<>>
    /\ inbox' = [inbox EXCEPT ![i] = Tail(@)]
    /\ handled' = [handled EXCEPT ![i] = @ \union {Head(inbox[i])}]
    /\ \E c, s \in 0..MaxBurst : Broadcast(i, c) /\ SendResult(i, s)
    /\ UNCHANGED <<startup, outbox, read, running, stopped>>

\* An iteration of loop whose select receives from the inbox.
Receive(i) ==
    /\ i \in running
    /\ inbox[i] # <<>>
    /\ inbox' = [inbox EXCEPT ![i] = Tail(@)]
    /\ handled' = [handled EXCEPT ![i] = @ \union {Head(inbox[i])}]
    /\ \E c, s \in 0..MaxBurst : Broadcast(i, c) /\ SendResult(i, s)
    /\ UNCHANGED <<startup, outbox, read, running, stopped>>

\* Results sent newest first, and results dropped when the outbox is full.
FlushNewest(i) ==
    /\ i \in running
    /\ awaitingMsgs[i] # <<>>
    /\ Len(outbox[i]) < OutboxSize
    /\ outbox' = [outbox EXCEPT ![i] = Append(@, awaitingMsgs[i][Len(awaitingMsgs[i])])]
    /\ awaitingMsgs' = [awaitingMsgs EXCEPT ![i] = SubSeq(@, 1, Len(@) - 1)]
    /\ UNCHANGED <<network, results, read, running, stopped, inbox, handled>>
FlushOrDrop(i) ==
    /\ i \in running
    /\ awaitingMsgs[i] # <<>>
    /\ outbox' = IF Len(outbox[i]) < OutboxSize
                 THEN [outbox EXCEPT ![i] = Append(@, Head(awaitingMsgs[i]))]
                 ELSE outbox
    /\ awaitingMsgs' = [awaitingMsgs EXCEPT ![i] = Tail(@)]
    /\ UNCHANGED <<network, results, read, running, stopped, inbox, handled>>

\* An iteration whose select sends awaitingMsgs[0] to the outbox.
Flush(i) ==
    /\ i \in running
    /\ awaitingMsgs[i] # <<>>
    /\ Len(outbox[i]) < OutboxSize
    /\ outbox' = [outbox EXCEPT ![i] = Append(@, Head(awaitingMsgs[i]))]
    /\ awaitingMsgs' = [awaitingMsgs EXCEPT ![i] = Tail(@)]
    /\ UNCHANGED <<network, results, read, running, stopped, inbox, handled>>

\* An iteration whose select sees the stop channel closed.
Return(i) ==
    /\ i \in running \intersect stopped
    /\ running' = running \ {i}
    /\ UNCHANGED <<network, flow, stopped, inbox, handled>>

Stop(i) ==
    /\ i \in Stoppable \ stopped
    /\ stopped' = stopped \union {i}
    /\ UNCHANGED <<network, flow, running, inbox, handled>>

\* The reader of Result().
Read(i) ==
    /\ outbox[i] # <<>>
    /\ read' = [read EXCEPT ![i] = Append(@, Head(outbox[i]))]
    /\ outbox' = [outbox EXCEPT ![i] = Tail(@)]
    /\ UNCHANGED <<network, results, awaitingMsgs, running, stopped, inbox, handled>>

Next ==
    \E i \in Nodes :
        \/ Register(i) \/ Start(i) \/ StartService(i) \/ Stop(i)
        \/ \E m \in Messages : Arrive(i, m)
        \/ Receive(i) \/ Flush(i) \/ Return(i)
        \/ Read(i)

Safety == Init /\ [][Next]_vars

\* main registers and starts every node.  While an inbox has room some waiting
\* goroutine uses it, and select picks among its ready cases at random, so it
\* starves none.  Nothing is assumed of the reader.
Fairness ==
    \A i \in Nodes :
        /\ WF_vars(Register(i)) /\ WF_vars(Start(i)) /\ WF_vars(StartService(i))
        /\ WF_vars(\E m \in Messages : Arrive(i, m))
        /\ WF_vars(Receive(i)) /\ WF_vars(Flush(i)) /\ WF_vars(Return(i))

Spec == Safety /\ Fairness

-----------------------------------------------------------------------------

(***************************************************************************)
(* The properties.                                                         *)
(***************************************************************************)

Broadcasts == {m \in Messages : m[2] <= casts[m[1]]}

\* Each message broadcast is in exactly one place for each node: with a waiting
\* goroutine, in the inbox, or handled.  So none is lost because an inbox is full
\* or a node registers late, and none is handled twice.
NothingLost ==
    \A i \in Nodes :
        /\ inFlight[i] \union Range(inbox[i]) \union handled[i] = Broadcasts
        /\ inFlight[i] \intersect (Range(inbox[i]) \union handled[i]) = {}
        /\ Range(inbox[i]) \intersect handled[i] = {}
        /\ IsInjective(inbox[i])

\* Results come out of Result() in the order of SendResult, without loss or
\* repetition, whatever is received between them and however full the outbox is.
ResultsInOrder ==
    \A i \in Nodes :
        read[i] \o outbox[i] \o awaitingMsgs[i] = [k \in 1..results[i] |-> k]

Net == INSTANCE AsyncNetwork WITH sent <- Broadcasts, down <- stopped

\* The runtime is the network the protocols assume, bounded inboxes and outboxes
\* included: since Broadcast never waits, and loop goes on receiving while the
\* outbox is full, nodes cannot block one another, even if nobody reads results
\* and some are stopped.
ImplementsNetwork == Net!Spec

\* If Result() is read for ever, as main and the tests do, every result is read
\* in the end: loop sends a result that waits for a full outbox although messages
\* keep arriving.  (A stopped node may keep its last results.)
AllResultsRead ==
    (\A i \in Nodes : WF_vars(Read(i)))
        => []<>(\A i \in Nodes \ stopped : Len(read[i]) = results[i])
=============================================================================
