# Asynchronous Byzantine agreement: TLA+ models and proofs

These modules model the Go program in `src/`: binary agreement among *n* nodes,
at most *t* of them faulty, *n* > 3*t*, over an asynchronous network.

## The system and its parts

| part | code | state | operations |
|---|---|---|---|
| runtime | `services/service.go`, `services/network.go`, `node.go`, `main.go` | inbox, outbox, `awaitingMsgs`, goroutines that wait to send | `Register`, `Broadcast`, `SendResult`, `loop`, `Stop` |
| A-Cast | `services/acast.go` | per UUID: ECHO and READY sets, three flags | `OnMessage` (MSG, ECHO, READY) |
| Vote | `services/vote.go` | per round: inputs, VOTE1s, REVOTEs, what was sent | `StartRound`, delivery of three payloads, `checkProgress` |
| ABA | `services/aba.go` | round, estimate, two results, COMPLETE counts, buffered messages | `Start`, `OnMessage`, `checkRoundProgress`, `handleCompleteDelivery` |
| ICC | `services/icc.go` | per round: completed secrets, sets T, A, H, S | `Start`, `OnMessage`, `checkProgress`, `checkDecision` |
| IVSS | `services/ivss.go` | per instance: polynomial, EQUALs, M-set, REVEALs, READYs | sharing, reconstruction, A-Cast deliveries |
| certification | `services/certification.go` | faulty pairs | `AddFaultyPair`, `IsFaultyPair` |
| polynomials | `utils/polynomial.go` | none | evaluation, slices of a symmetric polynomial, interpolation at 0 |

A node is one loop goroutine that hands each message to `ABAService.OnMessage`.
ABA passes it on to Vote, to the coin (ICC) of the message's round, or to the
A-Cast of COMPLETE; ICC passes messages on to IVSS; all of them broadcast through
A-Cast.  Results come back up through adapters *inside the same call*, so a
message can run through several layers, with every layer's mutex held.  The
runtime neither loses nor repeats messages but delivers them in any order.
Nothing is persisted and there are no timeouts, so there is no recovery and no
retry to model.  What is hard: orders of messages of several nodes, sets that
each node freezes at its own moment, nodes that stop in the middle, messages of
rounds a node has not reached, locks held across calls, bounded channels.

## The modules

Each component has its specification, and where another component relies on it,
an abstract specification of what it promises.

| module | what it is |
|---|---|
| `AsyncNetwork` | abstract: each broadcast message is handled once by each node, in any order |
| `ServiceManager` | runtime: bounded inboxes and outboxes, loops, the goroutines of `Broadcast`, for any service |
| `ReliableBroadcast` | abstract: one value, the same everywhere |
| `ACast` | one A-Cast instance at every honest node; also the inductive invariant |
| `ACastProofs` | the proofs about `ACast` |
| `Grading` | vote results and when two of them fit together |
| `GradedVote` | abstract: a graded vote |
| `Vote` | one round of Vote at every honest node |
| `VoteProofs` | the proofs about `Vote` |
| `ABA` | the round loop at every honest node |
| `ABAProofs` | the proofs about `ABA` |
| `Polynomial` | polynomials over a prime field |
| `IVSS` | one secret sharing, from the shares to the reconstructed secret, with the faulty pairs of certification |
| `IVSSProofs` | the proofs about `IVSS` that need no algebra: its M-sets, and the steps of the inductive invariant |
| `PolynomialProofs` | the algebra of `Polynomial`: slices, symmetric polynomials, interpolation |
| `SecretProofs` | the theorems about `IVSS` that rest on both |
| `ICC` | one round of the common coin at every live node |
| `ICCProofs` | the proofs about `ICC` |
| `RuntimeProofs` | the proofs about `ServiceManager` |
| `MCACast`, `MCVote`, `MCABA`, `MCServiceManager`, `MCIVSS`, `MCICC` | instances for TLC, with a `.cfg` per run |

The layers connect through what each promises:

* `ServiceManager` implements `AsyncNetwork`, on which `ACast` and the points and
  shares of `IVSS` rest (a message is handled once, at any later time).
* `ACast` implements `ReliableBroadcast`, on which `Vote`, ABA's COMPLETE, `ICC` and
  most of `IVSS` rest (a payload is kept once, with its sender).  The exception is
  the M-set of IVSS, which the dealer may A-Cast several times under one UUID; its
  ECHOs are therefore part of `IVSS`.
* `Vote` implements `GradedVote`, and `ABA` takes exactly those results (`Justified`,
  `Compatible`).
* `ICC` takes from `IVSS` that a secret has one value everywhere (`SecretIsShared`),
  that a live dealer's sharing ends (`SharingEnds`) and that *n*-2*t* REVEALs are
  needed, and all members' are enough, to reconstruct (`ReconstructionEnds`).
* `ABA` assumes of the coin only that it is a bit and, for liveness, that it comes;
  `QuorumTerminates` of `ICC` says when it does.

### State and actions

* **ServiceManager.**  `inFlight[i]` are the goroutines that wait to send to
  `i`'s inbox, `inbox`, `outbox` and `awaitingMsgs` the channels and the slice of the
  code.  One iteration of `loop` is one action: `Receive` (with the whole handler),
  `Flush` or `Return`, the three cases of its select.  The service is
  arbitrary: a handler broadcasts and sends results as it likes, up to a bound.
  `Start` and `StartService` are the two calls of `Node.Start`, between which the loop
  may already handle messages.
* **ACast.**  The fields of `ACastInstance` per honest node, and `sent`.  `delivered`
  is `output # NoValue`.  `Start` and `StartAndHandle` are the two ways the code
  opens an instance (IVSS; Vote, ICC and ABA).  `OnMsg`, `OnEcho` and `OnReady` are
  the cases of `OnMessage`; a copy of a message already counted changes nothing and
  is left out.  Faulty nodes send what `FaultySends` holds.
* **Vote.**  `vote1[i]` and `revote[i]` hold what `i` cast (the code's `myA`, `myB`
  and flags), `gotInput`, `gotVote1` and `gotRevote` the keys of the code's maps.
  Every action ends in `CheckProgress`, which like the code may take several
  phases in one call.  Rounds share no state, so there is one round.  A faulty node
  casts what `CheckProgress` would cast from some part of what was sent, and may stop
  after any phase; if it is in `Liars`, it names any set of any size, with any bit.
* **ABA.**  Of the messages of Vote and ICC only the one that completes a result
  matters; `voteOutput[r]` and `iccDone[r]` say where it has been handled.  `DispatchVote`
  and `DispatchIcc` contain the adapters' test that the message is of the node's round.
  `pending` holds the buffered messages a running `startRound` has still
  to dispatch; `blocked` is a node that waits for a mutex it holds.  A coin is any
  bit, different from node to node.
* **IVSS.**  The fields of the code's instance per node, with REVEALs, EQUALs and
  READYs as sets of their senders.  `OnShare` and `OnPoint` are the two direct
  messages, `OnEqual`, `OnMSet`, `OnReveal` and `OnReady` the A-Cast deliveries, each
  with the `checkCandidateSet`, `verifyMSet` or `checkInterpolationSet` it ends with.
  `EchoMSet` is A-Cast's answer to an M-set.  `checkInterpolationSet` goes through a Go
  map, so its greedy pass takes the candidates in any order.  A scenario fixes who is
  live, which share the dealer gives to whom, what each node reveals and which faulty
  pairs it knows from earlier instances.  Points, EQUALs and READYs of faulty nodes
  follow from the shares they hold, M-sets of a faulty dealer from the greedy search;
  the code would take others.  Polynomials are really evaluated and
  interpolated, over a small field.
* **ICC.**  `myT`, `myA` and `myS` are the frozen sets T, A and S, empty until they are
  sent.  `FormT`, `FormA`, `FormS` and `Decides` are the blocks of `checkProgress` and
  `checkDecision`; every handler ends with all of them, in this order.  `locked` is a
  node that waits for an IVSS instance mutex it holds, `coin` its output, after which
  it handles nothing.  The *n* secrets of a dealer complete as one event; of the
  values only which are 0 matters.  Faulty nodes are silent.

Assumed throughout: channels are authenticated (`From`, `Sender` and the owner of
a UUID are genuine), a faulty node A-Casts at most one payload of a kind per round,
and payloads survive formatting and parsing.

## What TLC checks

All instances have four nodes and *t* = 1, the smallest with a fault (two nodes
for the runtime, which has no quorums).  With *t* = 1 every quorum in
the code has its own size: *t*+1 = 2, 2*t*+1 = *n*-*t* = 3, *n* = 4.

| run | shows |
|---|---|
| `acast_faulty_sender` | Agreement, `DeliveredNodesAreReady` and refinement of `ReliableBroadcast` with a faulty owner that sends both values to whom it likes and vouches for one: if one honest node delivers, all do, and at rest all have (`DeliveryEnds`) |
| `acast_honest_sender` | Integrity, and what an honest owner broadcasts is delivered (with fairness, and at rest), with a participant that echoes one value to whom it likes or is silent, as in `main.go` |
| `vote_silent` | every honest node finishes; no phase is ever left due (`NothingIsDue`); a round at rest has given every honest node a result (`VoteEnds`) |
| `vote_crash` | results fit together and are justified by the inputs, with a fourth node that may stop after any phase, and have confidence 2 as long as at most *t* inputs dissent (`StrongMajority`) |
| `vote_lying` | **violated**: see Findings |
| `aba_order` | Agreement, Validity and `ResultsAreCurrent` over two rounds of results with different coins, votes and coins in either order at one node, buffered messages, blocked nodes and COMPLETEs of both values from a faulty node |
| `aba_sure` | `Locked` over two rounds of results with different coins; one sure node is enough for all to decide, and at rest all have (`DecisionEnds`) |
| `aba_selflock` | **violated**: see Findings |
| `runtime` | nothing lost, repeated or reordered with channels of capacity 1 and a node that is stopped; the runtime implements `AsyncNetwork` though nobody reads results; with a reader every result of a running node is read |
| `ivss` | one sound M-set, one secret, and only truly faulty pairs, with an honest dealer, bad shares, false REVEALs and different histories; nodes that end up with different secrets know a faulty pair (`Inferable`); sharing and reconstruction end from a clean start |
| `icc` | all coins of a round are equal; nobody reconstructs what it has not shared; with exactly *n*-*t* live nodes all get a coin, though those that have one help no more, and none is missing at rest (`CoinEnds`) |
| `icc_frozen` | **violated**: see Findings |

### Bounds

* `acast_*`: two values.  The faulty node sends READY of one value (faulty owner)
  or ECHO of one value (honest owner), to any subset of the nodes; with everything
  at once the graph is too large for liveness.  The theorems have no such limit.
* `vote_*`: all inputs in `vote_silent`.  In `vote_crash` two nodes begin with 1, one with
  either bit, and the faulty one with 0: three against one is a strong majority with
  four live nodes, and a tie makes all three confidence levels possible.  The set the
  faulty node names is that of the two ones and itself.  These do not tell the two
  ones apart, which is the symmetry used.  `vote_lying` has three ones and a liar that
  names any set.  `MCVote` delivers payloads that complete no
  phase together with the one that does; its header says why nothing is lost.
  `vote_silent` delivers them one by one.
* `aba_*`: `MaxRound` is the last round a node can enter; results exist for the
  rounds before it: two (one in `aba_selflock`), so that a decision of the first meets votes and
  decisions of the second.  In `aba_order` the honest nodes begin with two ones and
  either bit; the faulty node brings 0 to the first vote or nothing, and COMPLETE of
  both values.  One node has its vote and coin in either order and may block, the
  others have the vote first.  The view leaves out what no step and no property
  reads again (`LiveState` in `MCABA`).
* `runtime`: channels of capacity 1, so that both are full much of the time.  One node
  has two broadcasts and three results, the other one of each: more than the
  channels hold, with bursts of two.  The first may be stopped.
* `ivss`: the field of five elements, the smallest prime above *n*, and dealer 1, whose
  role depends on its number only through the greedy order.  Each scenario names the
  deliveries it explores in every order (shares, the second EQUAL of a pair at the
  dealer, ECHOs, M-sets, REVEALs); the others happen at once, since they commute with
  all but those.  False shares and REVEALs are of two kinds: they fit no other node's,
  or exactly one's.
* `icc`: all four nodes live, or three.  `MCICC` delivers messages that change nothing
  but a received set together with the one that lets the node go on.

Runs switch deadlock checking off because a bounded run ends: everyone has
delivered, finished, or entered the last round.

### Fairness

* A-Cast, Vote: an honest node goes on handling messages as long as one would
  change its state, since each is held by a goroutine until the loop takes it.
  Nothing is assumed of faulty nodes.  Vote also assumes that every honest node is
  started.
* ABA: a started handler runs to its end unless it blocks; the vote and the coin of
  a round complete once all honest nodes are in it (for the vote this is what
  `vote_silent` shows, for the coin `icc` with *n*-*t* live nodes; with more it is an
  assumption, which `icc_frozen` shows to be one); COMPLETEs
  of honest nodes are delivered while no honest node is blocked.
* Runtime: `select` picks at random among ready cases, so it starves none; a
  goroutine blocked on an inbox goes on when there is room.  No run
  assumes a reader; `AllResultsRead` has a fair one as its premise.  A node whose
  Stop was called owes nothing.
* ICC: only deliveries that are `Certain` are fair.  While all live nodes listen these
  are all A-Casts and sharings, and the reconstructions that *n*-*t* nodes have
  started; once a node has its coin and listens no more, only what has reached some
  live node, by the totality of A-Cast.
* IVSS needs no fairness: every delivery happens once, so a fair behaviour comes to
  rest, and `Inferable`, `SharingEnds` and `ReconstructionEnds` say what holds there
  (`AtRest`).

The other protocols have such a property too, beside the temporal one: `DeliveryEnds`,
`VoteEnds`, `DecisionEnds` and `CoinEnds` say that a state in which all is delivered that
the nodes can count on is one in which they have what they wait for.  They are
invariants, need no fairness, and are proved for every number of nodes.

`VoteFirst` are the nodes at which each vote completes before its coin.  That these are
all honest nodes is what the liveness run needs and `aba_selflock` takes away.

## What is proved

Everything here is for any number of nodes.  Each component's proofs are from the
assumptions its module names (`ResilienceAssumption`, `VoteAssumption`, `ABAAssumption`,
`IVSSAssumption`, `ICCAssumption`, `BoundsAssumption`, ...), which TLC evaluates in the
component's runs; the protocols' contain *n* > 3*t*.

| module | theorems |
|---|---|
| `ACastProofs` | `TypeCorrect`, `AgreementHolds`, `IntegrityHolds`, `DeliveredAreReady`, `DeliveryEndsHolds`, and `Refinement` of the safety part of `ReliableBroadcast` |
| `VoteProofs` | `TypeCorrect`, `NothingIsDueHolds`, `VoteEndsHolds`, `BitsAreSafeHolds`; if faulty nodes do no worse than stop (`Liars = {}`) also `GradedAgreementHolds`, `StrongMajorityHolds`, `ImplementsGradedVoteHolds` |
| `ABAProofs` | `TypeCorrect`, `AgreementHolds`, `ValidityHolds`, `LockedHolds`, `ResultsAreCurrentHolds`, `DecisionEndsHolds`, for any number of rounds |
| `PolynomialProofs` | `SlicesFit`, `SymmetricExists`, `InterpolationIsExact`, `SecretOfSlices`, for any prime, any degree and any set of points |
| `IVSSProofs` | `MSetIsSoundHolds`, whatever the dealer hands out |
| `SecretProofs` | `TypeCorrect`, `FaultyPairsAreFaultyHolds`, `InferableHolds`, `SharingEndsHolds`, `ReconstructionEndsHolds`; if at most *t* nodes reveal falsely (`FewLiars`) also `SecretIsSharedHolds` |
| `ICCProofs` | `TypeCorrect`, `CoinAgreementHolds`, `SharedBeforeReconstructionHolds`, `CoinEndsHolds` |
| `RuntimeProofs` | `TypeCorrect`, `NothingLostHolds`, `ResultsInOrderHolds`, and `RuntimeIsNetwork`, the safety part of `ImplementsNetwork`, for any capacity of the channels and any service |

None of the properties is inductive.  The strengthenings, and why they are needed:

* **A-Cast** (`IndInv`).  A node may send READY because *t*+1 others did, without having
  seen an ECHO quorum.  For every value some honest node is READY for, `ReadySupported`
  keeps a quorum of ECHOs that were really sent, next to the facts that tie counted
  votes to sent messages (`TalliesSound`) and that honest nodes echo once (`EchoOnce`).
  Two such quorums share an honest node (`QuorumsMeet`), hence all READYs of honest
  nodes are for one value; a delivery has 2*t*+1 READYs, one of them honest.
  `DeliveryEnds` needs the converse, that what is counted had its effect (`EndInv`): a
  threshold that is reached has fired, and a delivery was heard by *t*+1 honest nodes,
  whose READYs are enough to make every other honest node READY.
* **Vote** (`Inv`).  A result says nothing of the sets it was computed from, which other
  nodes' results have to overlap with.  `Explained` keeps, for each result, sets B and C
  that were really cast and that give this result; `Cast` and `Received` tie sets to
  what was sent.  Two B's share a node, and so do two C's, so two unanimous ones have the
  same bit; and of any quorum of VOTE1s at most *t* lie outside a unanimous B, so every
  REVOTE has its bit.  This needs REVOTEs that name *n*-*t* nodes and carry their majority,
  as those of all nodes but liars do.  Among liars, `BitsAreSafe` is left, and needs only
  that the honest nodes in two B's, or two C's, overlap and follow the code.
  For the refinement, `NothingIsDue` is part of the invariant: it is why StartRound
  only brings an input and never finishes the node in the same step.
  For `VoteEnds`, `EndInv` keeps that what a node cast it had received, so at rest every
  other node has it too, stopped and lying nodes' payloads included.  Then the honest
  nodes' VOTE1s and REVOTEs are valid at every node that has not finished, they are a
  quorum (`HonestQuorum`), and `NothingIsDue` leaves no phase to wait for.
* **ABA** (`Inv`).  A sure node in round *r* must bind all rounds after *r*, which looks like
  an induction over rounds.  `Carried` says it at once: if all results of *r* so far are
  for *v* (`Settled`), then *v* is all that any later round knows (`Only`).  A round in
  which one node is sure is settled because its vote is graded; entering a round, and
  finishing its vote, preserve `Only` because unanimous bits make a sure vote.
  `Completes` keeps that COMPLETEs of honest nodes are for values somebody was sure of;
  *t*+1 COMPLETEs include one of an honest node.
  `VotesCurrent` and `CoinsCurrent` tie the results in hand to the round they came from.
  Nobody leaves a round without both, so no completing message is ever of an earlier
  round (`NothingIsLate`): the adapters' test of the round never fails.
  For `DecisionEnds`, `EndInv` adds that a node never holds both results of its round
  (the handler that brings the second moves on), that a sure node has sent COMPLETE when
  it leaves the round, and that too few COMPLETEs are counted where nothing is decided.
  At rest, if nobody is blocked, all nodes are in the last round: the least round
  anyone is in was entered by everyone, so its vote and coin would be outstanding
  (`LastRound`).  Hence all honest nodes have passed the round after the sure one, where
  all of them are sure, and all their COMPLETEs, more than *t*, are counted everywhere.
* **IVSS** (`Inv`, `IInv`).  EQUALs are true whichever of share and point came first, and an
  M-set a node keeps has a quorum of ECHOs; a node echoes one UUID once, so two quorums
  have one M-set (`Inv`).  `IInv` adds that nothing that came early is forgotten: a point
  is kept or answered (`PointsAreAnswered`), the dealer has A-Cast every M-set its EQUALs
  allow and no pending one is left that could be completed with (`MSetsAreTried`), and
  after its own REVEAL a node is ready or has marked a pair that does not agree
  (`RevealsAreExamined`, `ReadysAreCounted`), whatever order the map gave.  `PairsAreFaulty`
  ties the marked pairs to false REVEALs.
* **Polynomials.**  That pairwise checks are enough is `SymmetricExists`: polynomials that
  fit pairwise, at least as many as they have coefficients, are the slices of one
  symmetric polynomial.  It divides by *x* - *c* and goes down one degree and one point
  at a time.  `InterpolationIsExact` is Lagrange's formula as the code folds it;
  with `SlicesFit` it gives that any large enough set of slices has the same secret
  (`SecretOfSlices`).  Inductions over degrees, coefficients and sets of points are
  carried out with a *set* of numbers or sets in place of a predicate (`SetInduction`,
  `FiniteSetInduction`), since the library's induction rules cannot be used with the
  installed provers.
* **ICC** (`Inv`).  The sets are nested as they are frozen (`FrozenSets`), and a coin rests on
  a pair (H, S) all of whose values at least *n*-2*t* nodes have started to reconstruct
  (`Coins`).  These and any S, which has *n*-*t* nodes, have a node in common, so each
  element of one such H is in every other: all nodes decide on the same H (`SameH`).
  For `CoinEnds`, `EndInv` keeps where received sets come from and that with *n*-*t* nodes
  nobody is locked.  A quorum is then all live nodes, so every frozen set is the same at
  all of them (`AllOrNone`), and the first node to decide had all that the others need.
* **Runtime** (`FlowInv`, `MessageInv`).  Results: read, outbox and `awaitingMsgs` in a row are
  all results ever sent; the steps are associativity of concatenation.  Messages:
  nobody runs before everyone is registered (`Registered`), without which a broadcast
  would miss an inbox.  `BoundsOK` adds the sizes of the channels and how much a
  service sends, for `TypeCorrect`.

Only model-checked: liveness, since the prover does neither fairness nor `ENABLED`.  These
are `ImplementsBroadcast` and `ImplementsGradedVoteLive` (their safety parts are proved),
`SureLeadsToDecision`, `QuorumTerminates`, `AllResultsRead`, and the fairness in
`ImplementsNetwork`.  For the protocols the `...Ends` theorems prove what such a property
says once all is delivered; that a fair behaviour gets there is what TLC adds.

## Findings

* **A node can block itself** (`aba_selflock`).  Vote delivers its result with
  `VoteService.mu` held (`services/vote.go:168`).  If the coin of the round is already
  there, `checkRoundProgress` starts the next round, whose `StartRound` locks the same
  mutex (`services/vote.go:137`).  The node then handles nothing any more, and with
  only *n*-*t* live nodes nobody decides, even if all begin with the same bit;
  `pseudocode/aba.md:49` promises termination.
* **VOTE1s are not checked** (`vote_lying`).  A faulty node's VOTE1 is counted as soon as
  the inputs it names have arrived (`services/vote.go:281`), however few they are and
  even if its bit is not their majority, and an honest node that would have had
  confidence 2 gets 1; the example in
  `docs/index.html:257-270` has Vote detect the strong majority in spite of lies.
  Consequently `StrongMajority`, `GradedVote` and everything ABA takes from it
  are stated for faulty nodes that do no worse than stop (`Liars = {}`): their VOTE1s and
  REVOTEs name *n*-*t* nodes and carry their majority.  Whatever they send, it costs
  confidence only: `BitsAreSafeHolds` proves that no two honest nodes report
  different bits, nor a bit that no honest node began with.
* **Frozen sets keep ICC from ending** (`icc_frozen`).  T_i is fixed at the first *n*-*t*
  dealers (`services/icc.go:302-313`), and only ATTACHes within the frozen T_i count
  (`services/icc.go:328`).  All T have *n*-*t* elements, so these are the ATTACHes
  with the same T.  With all four nodes correct, if no three of them have frozen the
  same T nobody has the three it needs, and there is no coin, although
  everything is delivered; `pseudocode/icc.md:69` promises termination.  With
  *n*-*t* live nodes, as `main.go` starts them, all T are the same and the coin comes
  (`QuorumTerminates`).

Further limits of the code that the properties' premises state: with all nodes live,
startReconstruction can meet the IVSS mutex that its own call chain holds
(`services/icc.go:436`, `locked` in `ICC`); the M-sets a dealer A-Casts under one UUID
can split the ECHOs, and a greedy M-set starts with node 1 even if node 1 is silent
(premises of `SharingEnds`); a node that knows other faulty pairs than the dealer may
refuse the M-set for good (`CleanStart`).

## Variants that must fail

Beside a definition there may be a wrong variant of it (`DecisionSwapped`,
`StartRoundKeeps`, ...), commented as such and used nowhere.  Each stands for a plausible
bug; put in place of the right one, TLC finds the property it is paired with in
`PROJECT.json` violated.

## Not modelled

* The logger, the input generator `gen.go`, and parsing of input and flags and
  printing in `main.go`: input and output only.
* The wording of payloads and UUIDs: a payload is a record of what is in it.
* `AddCoreInvocation` and `GetCoreInvocations` of certification: nothing calls them.
* Faulty nodes inside ICC other than silent ones, and several secrets of one dealer
  that complete apart from one another: what ICC needs of them is in `IVSS`.
* The whole stack in one instance: its layers meet only in the abstract
  specifications above; four nodes with all layers are out of TLC's reach.
* In IVSS, points, EQUALs, M-sets and READYs that do not follow from the sender's own
  state: a faulty node deals or reveals falsely, is silent, or has other faulty pairs.
* Faulty nodes of ABA as lying participants of Vote: ABA takes the results of a
  graded vote, which Vote gives if faulty nodes do no worse than stop.
* Probability: coins are arbitrary bits in `ABA`, so termination is stated from a
  round that makes a node sure on, and not with probability 1.
