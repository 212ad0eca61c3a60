--------------------------- MODULE RuntimeProofs ---------------------------
(***************************************************************************)
(* Proofs about ServiceManager for any number of nodes, any sizes of       *)
(* inboxes and outboxes and any service: no message is lost or handled     *)
(* twice, no result is lost, repeated or reordered, and every step is one  *)
(* of the network that the protocols assume.                               *)
(***************************************************************************)
EXTENDS ServiceManager, SequenceTheorems, TLAPS

\* The first n results, in order, and the s results after them.
Sent(n) == [k \in 1..n |-> k]
NextSent(n, s) == [k \in 1..s |-> n + k]

\* Concatenation, as an operator whose definition a proof step need not see.
Cat(s, t) == s \o t

\* The part of the state that results flow through.
FlowOK ==
    /\ results \in [Nodes -> Nat]
    /\ awaitingMsgs \in [Nodes -> Seq(Nat)]
    /\ outbox \in [Nodes -> Seq(Nat)]
    /\ read \in [Nodes -> Seq(Nat)]

FlowInv == FlowOK /\ ResultsInOrder

-----------------------------------------------------------------------------

\* Moving the head of a sequence to the end of the one before it changes nothing
\* in the whole.
LEMMA MoveHead ==
    ASSUME NEW S, NEW s \in Seq(S), NEW t \in Seq(S), t # <<>>
    PROVE  /\ Cat(Append(s, Head(t)), Tail(t)) = Cat(s, t)
           /\ Append(s, Head(t)) \in Seq(S) /\ Tail(t) \in Seq(S)
  <1>1. /\ Head(t) \in S /\ Head(t) = t[1] /\ Tail(t) \in Seq(S) /\ Len(Tail(t)) = Len(t) - 1
        /\ \A i \in 1..Len(Tail(t)) : Tail(t)[i] = t[i + 1]
        /\ Len(t) \in Nat \ {0} /\ Len(s) \in Nat
    BY HeadTailProperties, EmptySeq, LenProperties
  <1> DEFINE a == Append(s, Head(t))
             x == a \o Tail(t)
             y == s \o t
  <1>2. /\ a \in Seq(S) /\ Len(a) = Len(s) + 1
        /\ \A i \in 1..Len(s) : a[i] = s[i]
        /\ a[Len(s) + 1] = t[1]
    BY <1>1, AppendProperties
  <1>3. /\ x \in Seq(S) /\ Len(x) = Len(a) + Len(Tail(t))
        /\ \A i \in 1..Len(a) + Len(Tail(t)) :
              x[i] = IF i <= Len(a) THEN a[i] ELSE Tail(t)[i - Len(a)]
    BY <1>1, <1>2, ConcatProperties
  <1>4. /\ y \in Seq(S) /\ Len(y) = Len(s) + Len(t)
        /\ \A i \in 1..Len(s) + Len(t) : y[i] = IF i <= Len(s) THEN s[i] ELSE t[i - Len(s)]
    BY ConcatProperties, Zenon
  <1> HIDE DEF a, x, y
  <1> DEFINE n == Len(s)
             l == Len(t)
  <1>5. Len(x) = n + l /\ Len(y) = n + l /\ Len(a) = n + 1 /\ n \in Nat /\ l \in Nat \ {0}
    BY <1>1, <1>2, <1>3, <1>4
  <1>6. ASSUME NEW i \in 1..n + l PROVE x[i] = y[i]
    <2>0. /\ x[i] = IF i <= n + 1 THEN a[i] ELSE Tail(t)[i - (n + 1)]
          /\ y[i] = IF i <= n THEN s[i] ELSE t[i - n]
      BY <1>3, <1>4, <1>5, Zenon
    <2> HIDE DEF n, l
    <2>1. CASE i <= n
      <3>1. i <= n + 1 /\ i \in 1..n
        BY <1>5, <2>1
      <3>2. a[i] = s[i]
        BY <1>2, <3>1, Zenon DEF n
      <3> QED
        BY <2>0, <2>1, <3>1, <3>2, Zenon
    <2>2. CASE i = n + 1
      <3>1. i <= n + 1 /\ ~(i <= n) /\ i - n = 1
        BY <1>5, <2>2
      <3>2. a[i] = t[1]
        BY <1>2, <2>2, Zenon DEF n
      <3> QED
        BY <2>0, <3>1, <3>2, Zenon
    <2>3. CASE i > n + 1
      <3>1. /\ ~(i <= n + 1) /\ ~(i <= n)
            /\ i - (n + 1) \in 1..l - 1 /\ (i - (n + 1)) + 1 = i - n
        BY <1>5, <2>3
      <3>2. Tail(t)[i - (n + 1)] = t[i - n]
        BY <1>1, <3>1, Zenon DEF l
      <3> QED
        BY <2>0, <3>1, <3>2, Zenon
    <2>4. i <= n \/ i = n + 1 \/ i > n + 1
      BY <1>5
    <2> QED
      BY <2>1, <2>2, <2>3, <2>4, Zenon
  <1>7. x = y
    <2>1. \A i \in 1..Len(x) : x[i] = y[i]
      BY <1>5, <1>6, Zenon
    <2> QED
      BY <1>3, <1>4, <1>5, <2>1, SeqEqual, Zenon
  <1> QED
    BY <1>1, <1>2, <1>7, Zenon DEF a, x, y, Cat

\* Concatenation is associative; first with names for the two inner ones.
LEMMA Assoc ==
    ASSUME NEW S, NEW s \in Seq(S), NEW t \in Seq(S), NEW u \in Seq(S),
           NEW st, NEW tu, st = s \o t, tu = t \o u
    PROVE  s \o tu = st \o u
  <1> DEFINE x == s \o tu
             y == st \o u
             k == Len(s)
             l == Len(t)
             m == Len(u)
  <1>1. /\ st \in Seq(S) /\ Len(st) = k + l
        /\ \A i \in 1..k + l : st[i] = IF i <= k THEN s[i] ELSE t[i - k]
    BY ConcatProperties, Zenon
  <1>2. /\ tu \in Seq(S) /\ Len(tu) = l + m
        /\ \A i \in 1..l + m : tu[i] = IF i <= l THEN t[i] ELSE u[i - l]
    BY ConcatProperties, Zenon
  <1>3. /\ x \in Seq(S) /\ Len(x) = k + Len(tu)
        /\ \A i \in 1..k + Len(tu) : x[i] = IF i <= k THEN s[i] ELSE tu[i - k]
    BY <1>2, ConcatProperties, Zenon
  <1>4. /\ y \in Seq(S) /\ Len(y) = Len(st) + m
        /\ \A i \in 1..Len(st) + m : y[i] = IF i <= Len(st) THEN st[i] ELSE u[i - Len(st)]
    BY <1>1, ConcatProperties
  <1>5. k \in Nat /\ l \in Nat /\ m \in Nat
    OBVIOUS
  <1> HIDE DEF x, y, k, l, m
  <1>6. Len(x) = k + l + m /\ Len(y) = k + l + m
    BY <1>1, <1>2, <1>3, <1>4, <1>5
  <1>7. ASSUME NEW i \in 1..k + l + m PROVE x[i] = y[i]
    <2>0. /\ x[i] = IF i <= k THEN s[i] ELSE tu[i - k]
          /\ y[i] = IF i <= k + l THEN st[i] ELSE u[i - (k + l)]
      <3>1. i \in 1..k + Len(tu) /\ i \in 1..Len(st) + m
        BY <1>1, <1>2, <1>5
      <3> QED
        BY <1>1, <1>3, <1>4, <3>1, Zenon
    <2>1. CASE i <= k
      <3>1. i <= k + l /\ i \in 1..k + l
        BY <1>5, <2>1
      <3>2. st[i] = s[i]
        BY <1>1, <2>1, <3>1, Zenon
      <3> QED
        BY <2>0, <2>1, <3>1, <3>2, Zenon
    <2>2. CASE i > k /\ i <= k + l
      <3>1. i \in 1..k + l /\ i - k \in 1..l + m /\ i - k <= l /\ ~(i <= k)
        BY <1>5, <2>2
      <3>2. st[i] = t[i - k] /\ tu[i - k] = t[i - k]
        BY <1>1, <1>2, <3>1, Zenon
      <3> QED
        BY <2>0, <2>2, <3>1, <3>2, Zenon
    <2>3. CASE i > k + l
      <3>1. i - k \in 1..l + m /\ ~(i - k <= l) /\ ~(i <= k) /\ (i - k) - l = i - (k + l)
        BY <1>5, <2>3
      <3>2. tu[i - k] = u[i - (k + l)]
        BY <1>2, <3>1, Zenon
      <3> QED
        BY <1>5, <2>0, <2>3, <3>1, <3>2
    <2> QED
      BY <1>5, <2>1, <2>2, <2>3
  <1>8. x = y
    <2>1. \A i \in 1..Len(x) : x[i] = y[i]
      BY <1>6, <1>7, Zenon
    <2> QED
      BY <1>3, <1>4, <1>6, <2>1, SeqEqual, Zenon
  <1> QED
    BY <1>8, Zenon DEF x, y

\* The same of Cat.
LEMMA CatAssoc ==
    ASSUME NEW S, NEW s \in Seq(S), NEW t \in Seq(S), NEW u \in Seq(S)
    PROVE  Cat(s, Cat(t, u)) = Cat(Cat(s, t), u) /\ Cat(s, t) \in Seq(S)
  <1>1. ASSUME NEW st, NEW tu, st = s \o t, tu = t \o u PROVE s \o tu = st \o u
    BY <1>1, Assoc, SMTT(30)
  <1>2. s \o (t \o u) = (s \o t) \o u
    BY <1>1, Zenon
  <1>3. s \o t \in Seq(S)
    BY ConcatProperties, Zenon
  <1> QED
    BY <1>2, <1>3, Zenon DEF Cat

\* The results of one handler continue the results sent before it.
LEMMA SendAppends ==
    ASSUME NEW n \in Nat, NEW s \in Nat
    PROVE  Cat(Sent(n), NextSent(n, s)) = Sent(n + s) /\ NextSent(n, s) \in Seq(Nat)
  <1> DEFINE new == NextSent(n, s)
             S == Nat
             old == Sent(n)
             y == old \o new
  <1>1. new \in Seq(S) /\ Len(new) = s /\ \A k \in 1..s : new[k] = n + k
    BY DEF NextSent
  <1>2. /\ old \in Seq(S) /\ Len(old) = n /\ \A k \in 1..n : old[k] = k
        /\ Sent(n + s) \in Seq(S) /\ Len(Sent(n + s)) = n + s
        /\ \A k \in 1..n + s : Sent(n + s)[k] = k
    BY DEF Sent
  <1> HIDE DEF new, old, S
  <1>3. /\ y \in Seq(S) /\ Len(y) = n + s
        /\ \A k \in 1..n + s : y[k] = IF k <= n THEN old[k] ELSE new[k - n]
    <2>0. old \in Seq(S) /\ new \in Seq(S)
      BY <1>1, <1>2, Zenon
    <2>1. /\ y \in Seq(S) /\ Len(y) = Len(old) + Len(new)
          /\ \A k \in 1..Len(old) + Len(new) :
                y[k] = IF k <= Len(old) THEN old[k] ELSE new[k - Len(old)]
      BY <2>0, ConcatProperties, Zenon
    <2> HIDE DEF y
    <2> QED
      BY <1>1, <1>2, <2>1, Zenon
  <1> HIDE DEF y
  <1>4. ASSUME NEW k \in 1..n + s PROVE y[k] = Sent(n + s)[k]
    <2>1. CASE k <= n
      <3>1. k \in 1..n
        BY <2>1
      <3> QED
        BY <1>2, <1>3, <2>1, <3>1, Zenon
    <2>2. CASE k > n
      <3>1. k - n \in 1..s /\ n + (k - n) = k /\ ~(k <= n)
        BY <2>2
      <3>2. y[k] = new[k - n]
        BY <1>3, <3>1, Zenon
      <3>3. new[k - n] = n + (k - n)
        BY <1>1, <3>1, Zenon
      <3>4. Sent(n + s)[k] = k
        BY <1>2, Zenon
      <3> QED
        BY <3>1, <3>2, <3>3, <3>4, Zenon
    <2> QED
      BY <2>1, <2>2
  <1>5. y = Sent(n + s)
    BY <1>2, <1>3, <1>4, SeqEqual, Zenon
  <1> QED
    BY <1>1, <1>5, Zenon DEF y, new, old, S, Cat

\* What leaves a sequence without repetitions.
LEMMA TailOf ==
    ASSUME NEW S, NEW s \in Seq(S), s # <<>>, IsInjective(s)
    PROVE  /\ Head(s) \in Range(s) /\ Head(s) \in S
           /\ Range(Tail(s)) = Range(s) \ {Head(s)}
           /\ Tail(s) \in Seq(S) /\ IsInjective(Tail(s))
  <1> DEFINE t == Tail(s)
  <1>1. /\ Head(s) = s[1] /\ t \in Seq(S) /\ Len(t) = Len(s) - 1 /\ Len(s) \in Nat \ {0}
        /\ \A i \in 1..Len(t) : t[i] = s[i + 1]
        /\ DOMAIN s = 1..Len(s) /\ DOMAIN t = 1..Len(t) /\ s[1] \in S
    BY HeadTailProperties, EmptySeq, LenProperties
  <1> HIDE DEF t
  <1>2. Head(s) \in Range(s)
    BY <1>1 DEF Range
  <1>3. IsInjective(t)
    BY <1>1, SMTT(30) DEF IsInjective
  <1>4. \A e \in Range(t) : e \in Range(s) \ {Head(s)}
    BY <1>1 DEF Range, IsInjective
  <1>5. \A e \in Range(s) \ {Head(s)} : e \in Range(t)
    <2> SUFFICES ASSUME NEW i \in DOMAIN s, s[i] # Head(s) PROVE s[i] \in Range(t)
      BY Zenon DEF Range
    <2>1. i - 1 \in 1..Len(t) /\ (i - 1) + 1 = i
      BY <1>1
    <2>2. t[i - 1] = s[i]
      BY <1>1, <2>1, Zenon
    <2> QED
      BY <1>1, <2>1, <2>2, Zenon DEF Range
  <1> QED
    BY <1>1, <1>2, <1>3, <1>4, <1>5, Zenon DEF t

\* What enters it.
LEMMA AppendOf ==
    ASSUME NEW S, NEW s \in Seq(S), NEW m \in S, m \notin Range(s), IsInjective(s)
    PROVE  /\ Range(Append(s, m)) = Range(s) \union {m}
           /\ Append(s, m) \in Seq(S) /\ IsInjective(Append(s, m))
  <1> DEFINE t == Append(s, m)
  <1>1. /\ t \in Seq(S) /\ Len(t) = Len(s) + 1 /\ Len(s) \in Nat
        /\ \A i \in 1..Len(s) : t[i] = s[i]
        /\ t[Len(s) + 1] = m
        /\ DOMAIN s = 1..Len(s) /\ DOMAIN t = 1..Len(t)
    BY AppendProperties, LenProperties
  <1> HIDE DEF t
  <1>2. \A i \in DOMAIN t : i \in DOMAIN s \/ i = Len(s) + 1
    BY <1>1
  <1>3. \A i \in DOMAIN s : i \in DOMAIN t /\ t[i] = s[i] /\ s[i] # m
    BY <1>1 DEF Range
  <1>4. Len(s) + 1 \in DOMAIN t
    BY <1>1
  <1>5. Range(t) = Range(s) \union {m}
    BY <1>1, <1>2, <1>3, <1>4, Zenon DEF Range
  <1>6. IsInjective(t)
    <2> SUFFICES ASSUME NEW i \in DOMAIN t, NEW j \in DOMAIN t, t[i] = t[j] PROVE i = j
      BY Zenon DEF IsInjective
    <2> QED
      BY <1>1, <1>2, <1>3, Zenon DEF IsInjective
  <1> QED
    BY <1>1, <1>5, <1>6, Zenon DEF t

-----------------------------------------------------------------------------

(***************************************************************************)
(* Results: read, outbox and awaitingMsgs in a row are all results sent.   *)
(***************************************************************************)

\* FlowInv in terms of Cat.
LEMMA FlowInvCat ==
    FlowInv <=> /\ FlowOK
                /\ \A i \in Nodes :
                      Cat(Cat(read[i], outbox[i]), awaitingMsgs[i]) = Sent(results[i])
  BY Zenon DEF FlowInv, ResultsInOrder, Cat, Sent

\* Flush moves a result from awaitingMsgs to the outbox.
LEMMA FlushKeepsOrder ==
    ASSUME NEW S, NEW r \in Seq(S), NEW o \in Seq(S), NEW a \in Seq(S), a # <<>>
    PROVE  Cat(Cat(r, Append(o, Head(a))), Tail(a)) = Cat(Cat(r, o), a)
  <1> DEFINE o2 == Append(o, Head(a))
             a2 == Tail(a)
  <1>1. o2 \in Seq(S) /\ a2 \in Seq(S) /\ Cat(o2, a2) = Cat(o, a)
    BY MoveHead
  <1> HIDE DEF o2, a2
  <1>2. Cat(r, Cat(o, a)) = Cat(Cat(r, o), a)
    BY CatAssoc
  <1>3. Cat(r, Cat(o2, a2)) = Cat(Cat(r, o2), a2)
    BY <1>1, CatAssoc
  <1>4. Cat(Cat(r, o2), a2) = Cat(Cat(r, o), a)
    BY <1>1, <1>2, <1>3, Zenon
  <1> QED
    BY <1>4, Zenon DEF o2, a2

\* SendResult adds the next results after those that wait.
LEMMA SendKeepsOrder ==
    ASSUME NEW x \in Seq(Nat), NEW a \in Seq(Nat), NEW n \in Nat, NEW s \in Nat,
           Cat(x, a) = Sent(n)
    PROVE  /\ Cat(x, Cat(a, NextSent(n, s))) = Sent(n + s)
           /\ Cat(a, NextSent(n, s)) \in Seq(Nat)
  <1>1. Cat(Sent(n), NextSent(n, s)) = Sent(n + s) /\ NextSent(n, s) \in Seq(Nat)
    BY SendAppends, Zenon
  <1>2. ASSUME NEW b \in Seq(Nat) PROVE Cat(x, Cat(a, b)) = Cat(Cat(x, a), b) /\ Cat(a, b) \in Seq(Nat)
    BY CatAssoc
  <1> QED
    BY <1>1, <1>2, Zenon

\* At the start nothing has been sent.
LEMMA InitFlow ==
    Init => FlowInv
  <1> SUFFICES ASSUME Init PROVE FlowInv
    BY Zenon
  <1>1. FlowOK
    BY EmptySeq, Zenon DEF Init, FlowOK
  <1>2. <<>> \o <<>> \o <<>> = [k \in 1..0 |-> k]
    OBVIOUS
  <1> QED
    BY <1>1, <1>2, Zenon DEF Init, FlowInv, ResultsInOrder

\* An iteration of loop that receives.
LEMMA ReceiveKeepsFlow ==
    ASSUME FlowInv, NEW i \in Nodes, Receive(i)
    PROVE  FlowInv'
  <1>1. PICK s \in 0..MaxBurst : SendResult(i, s)
    BY Zenon DEF Receive
  <1>2. s \in Nat /\ results[i] \in Nat
    BY <1>1, BoundsAssumption DEF FlowInv, FlowOK
  <1> DEFINE x == Cat(read[i], outbox[i])
             b == Cat(awaitingMsgs[i], NextSent(results[i], s))
  <1>3. read[i] \in Seq(Nat) /\ outbox[i] \in Seq(Nat) /\ awaitingMsgs[i] \in Seq(Nat)
    BY Zenon DEF FlowInv, FlowOK
  <1>4. x \in Seq(Nat)
    BY <1>3, CatAssoc, Zenon
  <1>5. Cat(x, awaitingMsgs[i]) = Sent(results[i])
    BY FlowInvCat, Zenon
  <1>6. Cat(x, b) = Sent(results[i] + s) /\ b \in Seq(Nat)
    BY <1>2, <1>3, <1>4, <1>5, SendKeepsOrder, Zenon
  <1>7. /\ results' = [results EXCEPT ![i] = @ + s]
        /\ awaitingMsgs' = [awaitingMsgs EXCEPT ![i] = b]
        /\ outbox' = outbox /\ read' = read
    BY <1>1, Zenon DEF Receive, SendResult, Cat, NextSent
  <1> HIDE DEF b
  <1>8. FlowOK'
    BY <1>2, <1>6, <1>7 DEF FlowInv, FlowOK
  <1>9. ASSUME NEW j \in Nodes
        PROVE  Cat(Cat(read'[j], outbox'[j]), awaitingMsgs'[j]) = Sent(results'[j])
    <2>1. CASE j = i
      <3>1. results'[i] = results[i] + s /\ awaitingMsgs'[i] = b
        BY <1>7, Zenon DEF FlowInv, FlowOK
      <3> QED
        BY <1>6, <1>7, <2>1, <3>1, Zenon
    <2>2. CASE j # i
      <3>1. results'[j] = results[j] /\ awaitingMsgs'[j] = awaitingMsgs[j]
        BY <1>7, <2>2, Zenon DEF FlowInv, FlowOK
      <3> QED
        BY <1>7, <3>1, FlowInvCat, Zenon
    <2> QED
      BY <2>1, <2>2, Zenon
  <1> QED
    BY <1>8, <1>9, Zenon DEF FlowInv, ResultsInOrder, Cat, Sent

\* An iteration that sends a result to the outbox.
LEMMA FlushKeepsFlow ==
    ASSUME FlowInv, NEW i \in Nodes, Flush(i)
    PROVE  FlowInv'
  <1> DEFINE o2 == Append(outbox[i], Head(awaitingMsgs[i]))
             a2 == Tail(awaitingMsgs[i])
  <1>1. /\ read[i] \in Seq(Nat) /\ outbox[i] \in Seq(Nat) /\ awaitingMsgs[i] \in Seq(Nat)
        /\ awaitingMsgs[i] # <<>>
    BY Zenon DEF FlowInv, FlowOK, Flush
  <1>2. o2 \in Seq(Nat) /\ a2 \in Seq(Nat)
    BY <1>1, MoveHead, Zenon
  <1>3. Cat(Cat(read[i], o2), a2) = Cat(Cat(read[i], outbox[i]), awaitingMsgs[i])
    BY <1>1, FlushKeepsOrder
  <1>4. /\ outbox' = [outbox EXCEPT ![i] = o2]
        /\ awaitingMsgs' = [awaitingMsgs EXCEPT ![i] = a2]
        /\ results' = results /\ read' = read
    BY Zenon DEF Flush
  <1> HIDE DEF o2, a2
  <1>5. FlowOK'
    BY <1>2, <1>4, Zenon DEF FlowInv, FlowOK
  <1>6. outbox'[i] = o2 /\ awaitingMsgs'[i] = a2
    BY <1>4, Zenon DEF FlowInv, FlowOK
  <1>7. \A j \in Nodes \ {i} : outbox'[j] = outbox[j] /\ awaitingMsgs'[j] = awaitingMsgs[j]
    BY <1>4, Zenon DEF FlowInv, FlowOK
  <1>8. \A j \in Nodes : Cat(Cat(read'[j], outbox'[j]), awaitingMsgs'[j]) = Sent(results'[j])
    BY <1>3, <1>4, <1>6, <1>7, FlowInvCat, Zenon
  <1> QED
    BY <1>5, <1>8, Zenon DEF FlowInv, ResultsInOrder, Cat, Sent

\* A read of Result().
LEMMA ReadKeepsFlow ==
    ASSUME FlowInv, NEW i \in Nodes, Read(i)
    PROVE  FlowInv'
  <1> DEFINE r2 == Append(read[i], Head(outbox[i]))
             o2 == Tail(outbox[i])
  <1>1. read[i] \in Seq(Nat) /\ outbox[i] \in Seq(Nat) /\ outbox[i] # <<>>
    BY Zenon DEF FlowInv, FlowOK, Read
  <1>2. r2 \in Seq(Nat) /\ o2 \in Seq(Nat) /\ Cat(r2, o2) = Cat(read[i], outbox[i])
    BY <1>1, MoveHead
  <1>3. /\ read' = [read EXCEPT ![i] = r2]
        /\ outbox' = [outbox EXCEPT ![i] = o2]
        /\ results' = results /\ awaitingMsgs' = awaitingMsgs
    BY Zenon DEF Read
  <1> HIDE DEF r2, o2
  <1>4. FlowOK'
    BY <1>2, <1>3, Zenon DEF FlowInv, FlowOK
  <1>5. read'[i] = r2 /\ outbox'[i] = o2
    BY <1>3, Zenon DEF FlowInv, FlowOK
  <1>6. \A j \in Nodes \ {i} : read'[j] = read[j] /\ outbox'[j] = outbox[j]
    BY <1>3, Zenon DEF FlowInv, FlowOK
  <1>7. \A j \in Nodes : Cat(Cat(read'[j], outbox'[j]), awaitingMsgs'[j]) = Sent(results'[j])
    BY <1>2, <1>3, <1>5, <1>6, FlowInvCat
  <1> QED
    BY <1>4, <1>7, Zenon DEF FlowInv, ResultsInOrder, Cat, Sent

\* Every step keeps FlowInv.
LEMMA NextFlow ==
    ASSUME FlowInv, [Next]_vars
    PROVE  FlowInv'
  <1>1. CASE UNCHANGED flow
    BY <1>1, Zenon DEF flow, FlowInv, FlowOK, ResultsInOrder
  <1>2. CASE UNCHANGED vars
    BY <1>1, <1>2, Zenon DEF vars
  <1>3. ASSUME NEW i \in Nodes, Register(i) \/ Start(i) \/ StartService(i) \/ Stop(i) \/ Return(i)
        PROVE  UNCHANGED flow
    BY <1>3, Zenon DEF Register, Start, StartService, Stop, Return
  <1>4. ASSUME NEW i \in Nodes, NEW m \in Messages, Arrive(i, m) PROVE UNCHANGED flow
    BY <1>4, Zenon DEF Arrive
  <1>5. CASE Next
    <2>1. PICK i \in Nodes :
             \/ Register(i) \/ Start(i) \/ StartService(i) \/ Stop(i) \/ Return(i)
             \/ \E m \in Messages : Arrive(i, m)
             \/ Receive(i) \/ Flush(i) \/ Read(i)
      BY <1>5, Zenon DEF Next
    <2>2. CASE Receive(i)
      BY <2>2, ReceiveKeepsFlow, Zenon
    <2>3. CASE Flush(i)
      BY <2>3, FlushKeepsFlow, Zenon
    <2>4. CASE Read(i)
      BY <2>4, ReadKeepsFlow, Zenon
    <2> QED
      BY <1>1, <1>3, <1>4, <2>1, <2>2, <2>3, <2>4, Zenon
  <1> QED
    BY <1>2, <1>5, Zenon

\* Results come out of Result() in the order of SendResult, without loss or
\* repetition, for every size of the outbox and every service: loop
\* (services/service.go) moves the oldest waiting result first, and only when the
\* outbox takes it.
THEOREM ResultsInOrderHolds ==
    Safety => []ResultsInOrder
  <1>1. FlowInv => ResultsInOrder
    BY Zenon DEF FlowInv
  <1> QED
    BY InitFlow, NextFlow, <1>1, PTL DEF Safety

-----------------------------------------------------------------------------

(***************************************************************************)
(* Messages: each is in one place for each node.                           *)
(***************************************************************************)

\* Nobody runs or broadcasts before all nodes are registered, so that no
\* broadcast misses an inbox.
Registered ==
    /\ peers \subseteq Nodes
    /\ started \subseteq Nodes /\ begun \subseteq started
    /\ peers # Nodes => started = {} /\ running = {} /\ \A i \in Nodes : casts[i] = 0

MessagesOK ==
    /\ casts \in [Nodes -> Nat]
    /\ \A i \in Nodes : casts[i] <= MaxCasts[i]
    /\ inFlight \in [Nodes -> SUBSET Messages]
    /\ inbox \in [Nodes -> Seq(Messages)]
    /\ handled \in [Nodes -> SUBSET Messages]
    /\ stopped \subseteq Nodes

MessageInv == Registered /\ MessagesOK /\ NothingLost

\* The messages of a Broadcast(i, c).
NewMessages(i, c) == {<<i, k>> : k \in casts[i] + 1..casts[i] + c}

\* A message is a pair of its sender and its number.
LEMMA MessagePairs ==
    \A m : m \in Messages <=> \E i \in Nodes : \E k \in 1..MaxCasts[i] : m = <<i, k>>
  BY DEF Messages

\* Before the first step nothing is broadcast.
LEMMA InitMessages ==
    Init => MessageInv
  <1> SUFFICES ASSUME Init PROVE MessageInv
    BY Zenon
  <1>1. Broadcasts = {}
    <2> SUFFICES ASSUME NEW m \in Messages, m[2] <= casts[m[1]] PROVE FALSE
      BY Zenon DEF Broadcasts
    <2>1. PICK i \in Nodes : \E k \in 1..MaxCasts[i] : m = <<i, k>>
      BY MessagePairs, Zenon
    <2>2. PICK k \in 1..MaxCasts[i] : m = <<i, k>>
      BY <2>1, Zenon
    <2> QED
      BY <2>2, BoundsAssumption DEF Init
  <1>2. Registered
    BY Zenon DEF Init, Registered
  <1>3. <<>> \in Seq(Messages)
    BY EmptySeq, Zenon
  <1>4. MessagesOK
    BY <1>3, BoundsAssumption DEF Init, MessagesOK
  <1>5. Range(<<>>) = {} /\ IsInjective(<<>>)
    BY DEF Range, IsInjective
  <1>6. NothingLost
    BY <1>1, <1>5, Zenon DEF Init, NothingLost
  <1> QED
    BY <1>2, <1>4, <1>6, Zenon DEF MessageInv

\* Broadcast adds messages that were not there, for every node.
LEMMA BroadcastAdds ==
    ASSUME MessageInv, NEW i \in Nodes, NEW c \in Nat, Broadcast(i, c), peers = Nodes
    PROVE  /\ NewMessages(i, c) \subseteq Messages \ Broadcasts
           /\ Broadcasts' = Broadcasts \union NewMessages(i, c)
           /\ inFlight' = [j \in Nodes |-> inFlight[j] \union NewMessages(i, c)]
           /\ casts' \in [Nodes -> Nat] /\ \A j \in Nodes : casts'[j] <= MaxCasts[j]
  <1>1. /\ casts[i] \in Nat /\ casts[i] + c <= MaxCasts[i] /\ MaxCasts[i] \in Nat
        /\ casts' = [casts EXCEPT ![i] = casts[i] + c] /\ casts'[i] = casts[i] + c
    BY BoundsAssumption, Zenon DEF MessageInv, MessagesOK, Broadcast
  <1>2. casts' \in [Nodes -> Nat] /\ \A j \in Nodes : casts'[j] <= MaxCasts[j]
    BY <1>1 DEF MessageInv, MessagesOK
  <1>3. inFlight' = [j \in Nodes |-> inFlight[j] \union NewMessages(i, c)]
    BY Zenon DEF Broadcast, NewMessages
  <1>4. NewMessages(i, c) \subseteq Messages \ Broadcasts
    <2> SUFFICES ASSUME NEW k \in casts[i] + 1..casts[i] + c
                 PROVE  <<i, k>> \in Messages /\ ~(k <= casts[i])
      BY DEF NewMessages, Broadcasts
    <2>1. k \in 1..MaxCasts[i] /\ ~(k <= casts[i])
      BY <1>1
    <2> QED
      BY <2>1, MessagePairs, Zenon
  <1>5. ASSUME NEW m \in Messages
        PROVE  m[2] <= casts'[m[1]] <=> m[2] <= casts[m[1]] \/ m \in NewMessages(i, c)
    <2>0. PICK j \in Nodes : \E k \in 1..MaxCasts[j] : m = <<j, k>>
      BY MessagePairs, Zenon
    <2>1. PICK k \in 1..MaxCasts[j] : m = <<j, k>>
      BY <2>0, Zenon
    <2>2. m[1] = j /\ m[2] = k /\ k \in Nat /\ k >= 1
      BY <2>1, BoundsAssumption
    <2>3. CASE j # i
      <3>1. casts'[j] = casts[j]
        BY <1>1, <2>3, Zenon DEF MessageInv, MessagesOK
      <3>2. m \notin NewMessages(i, c)
        BY <2>1, <2>3, Zenon DEF NewMessages
      <3> QED
        BY <2>2, <3>1, <3>2, Zenon
    <2>4. CASE j = i
      <3>1. m \in NewMessages(i, c) <=> k \in casts[i] + 1..casts[i] + c
        BY <2>1, <2>4, Zenon DEF NewMessages
      <3>2. k <= casts[i] + c <=> k <= casts[i] \/ k \in casts[i] + 1..casts[i] + c
        BY <1>1, <2>2
      <3> QED
        BY <1>1, <2>2, <2>4, <3>1, <3>2, Zenon
    <2> QED
      BY <2>3, <2>4, Zenon
  <1>6. Broadcasts' = Broadcasts \union NewMessages(i, c)
    <2>1. Broadcasts' = {m \in Messages : m[2] <= casts'[m[1]]}
      BY Zenon DEF Broadcasts, Messages
    <2> QED
      BY <1>4, <1>5, <2>1, Zenon DEF Broadcasts
  <1> QED
    BY <1>2, <1>3, <1>4, <1>6, Zenon

\* A node whose service starts.
LEMMA StartServiceKeepsMessages ==
    ASSUME MessageInv, NEW i \in Nodes, StartService(i)
    PROVE  MessageInv' /\ Net!Start
  <1>1. PICK c \in 1..MaxBurst : Broadcast(i, c)
    BY Zenon DEF StartService
  <1> DEFINE new == NewMessages(i, c)
  <1>2. c \in Nat /\ peers = Nodes
    BY BoundsAssumption DEF StartService, MessageInv, Registered
  <1>3. /\ new \subseteq Messages \ Broadcasts
        /\ Broadcasts' = Broadcasts \union new
        /\ inFlight' = [j \in Nodes |-> inFlight[j] \union new]
        /\ casts' \in [Nodes -> Nat] /\ \A j \in Nodes : casts'[j] <= MaxCasts[j]
    BY <1>1, <1>2, BroadcastAdds, Zenon
  <1> HIDE DEF new
  <1>4. UNCHANGED <<peers, started, stopped, inbox, handled>> /\ begun' \subseteq started
    BY Zenon DEF StartService, MessageInv, Registered
  <1>5. Registered'
    BY <1>2, <1>4, Zenon DEF Registered, MessageInv
  <1>6. MessagesOK'
    BY <1>3, <1>4, Zenon DEF MessageInv, MessagesOK
  <1>7. NothingLost'
    BY <1>3, <1>4, Zenon DEF MessageInv, MessagesOK, NothingLost
  <1>8. Net!Start
    BY <1>3, <1>4, Zenon DEF Net!Start
  <1> QED
    BY <1>5, <1>6, <1>7, <1>8, Zenon DEF MessageInv

\* A message that gets into an inbox.
LEMMA ArriveKeepsMessages ==
    ASSUME MessageInv, NEW i \in Nodes, NEW m \in Messages, Arrive(i, m)
    PROVE  MessageInv'
  <1> DEFINE q == Append(inbox[i], m)
  <1>1. /\ inbox[i] \in Seq(Messages) /\ IsInjective(inbox[i])
        /\ m \in inFlight[i] /\ m \notin Range(inbox[i]) /\ m \notin handled[i]
    BY Zenon DEF MessageInv, MessagesOK, NothingLost, Arrive
  <1>2. Range(q) = Range(inbox[i]) \union {m} /\ q \in Seq(Messages) /\ IsInjective(q)
    BY <1>1, AppendOf
  <1>3. /\ inFlight' = [inFlight EXCEPT ![i] = inFlight[i] \ {m}]
        /\ inbox' = [inbox EXCEPT ![i] = q]
        /\ UNCHANGED <<startup, casts, running, stopped, handled>>
    BY Zenon DEF Arrive
  <1> HIDE DEF q
  <1>4. Broadcasts' = Broadcasts
    BY <1>3, Zenon DEF Broadcasts, Messages
  <1>5. inFlight'[i] = inFlight[i] \ {m} /\ inbox'[i] = q
    BY <1>3, Zenon DEF MessageInv, MessagesOK
  <1>6. \A j \in Nodes \ {i} : inFlight'[j] = inFlight[j] /\ inbox'[j] = inbox[j]
    BY <1>3, Zenon DEF MessageInv, MessagesOK
  <1>7. Registered'
    BY <1>3, ZenonT(30) DEF MessageInv, Registered, startup
  <1>8. MessagesOK'
    BY <1>2, <1>3, Zenon DEF MessageInv, MessagesOK
  <1>9. NothingLost'
    <2> SUFFICES ASSUME NEW j \in Nodes
                 PROVE  /\ inFlight'[j] \union Range(inbox'[j]) \union handled[j] = Broadcasts
                        /\ inFlight'[j] \intersect (Range(inbox'[j]) \union handled[j]) = {}
                        /\ Range(inbox'[j]) \intersect handled[j] = {}
                        /\ IsInjective(inbox'[j])
      BY <1>3, <1>4, Zenon DEF NothingLost, Range, IsInjective
    <2>0. /\ inFlight[j] \union Range(inbox[j]) \union handled[j] = Broadcasts
          /\ inFlight[j] \intersect (Range(inbox[j]) \union handled[j]) = {}
          /\ Range(inbox[j]) \intersect handled[j] = {}
          /\ IsInjective(inbox[j])
      BY Zenon DEF MessageInv, NothingLost
    <2>1. CASE j = i
      BY <1>1, <1>2, <1>5, <2>0, <2>1
    <2>2. CASE j # i
      BY <1>6, <2>0, <2>2, Zenon
    <2> QED
      BY <2>1, <2>2, Zenon
  <1> QED
    BY <1>7, <1>8, <1>9, Zenon DEF MessageInv

\* An iteration of loop that receives.
LEMMA ReceiveKeepsMessages ==
    ASSUME MessageInv, NEW i \in Nodes, Receive(i)
    PROVE  MessageInv' /\ \E m \in Messages : Net!Handle(i, m)
  <1>1. PICK c \in 0..MaxBurst : Broadcast(i, c)
    BY Zenon DEF Receive
  <1> DEFINE new == NewMessages(i, c)
             m == Head(inbox[i])
             q == Tail(inbox[i])
  <1>2. c \in Nat /\ peers = Nodes
    BY BoundsAssumption DEF MessageInv, Registered, Receive
  <1>3. /\ new \subseteq Messages \ Broadcasts
        /\ Broadcasts' = Broadcasts \union new
        /\ inFlight' = [j \in Nodes |-> inFlight[j] \union new]
        /\ casts' \in [Nodes -> Nat] /\ \A j \in Nodes : casts'[j] <= MaxCasts[j]
    BY <1>1, <1>2, BroadcastAdds, Zenon
  <1>4. inbox[i] \in Seq(Messages) /\ IsInjective(inbox[i]) /\ inbox[i] # <<>>
    BY Zenon DEF MessageInv, MessagesOK, NothingLost, Receive
  <1>5. /\ m \in Range(inbox[i]) /\ m \in Messages
        /\ Range(q) = Range(inbox[i]) \ {m}
        /\ q \in Seq(Messages) /\ IsInjective(q)
    BY <1>4, TailOf, Zenon
  <1>6. /\ inbox' = [inbox EXCEPT ![i] = q]
        /\ handled' = [handled EXCEPT ![i] = handled[i] \union {m}]
        /\ UNCHANGED <<startup, running, stopped>>
    BY Zenon DEF Receive
  <1> HIDE DEF new, m, q
  <1>7. inbox'[i] = q /\ handled'[i] = handled[i] \union {m}
    BY <1>6, Zenon DEF MessageInv, MessagesOK
  <1>8. \A j \in Nodes \ {i} : inbox'[j] = inbox[j] /\ handled'[j] = handled[j]
    BY <1>6, Zenon DEF MessageInv, MessagesOK
  <1>9. Registered'
    BY <1>2, <1>6, ZenonT(30) DEF MessageInv, Registered, startup
  <1>10. MessagesOK'
    BY <1>3, <1>5, <1>6, Zenon DEF MessageInv, MessagesOK
  <1>11. m \in Broadcasts \ handled[i]
    BY <1>5, Zenon DEF MessageInv, NothingLost
  <1>12. NothingLost'
    <2> SUFFICES ASSUME NEW j \in Nodes
                 PROVE  /\ inFlight'[j] \union Range(inbox'[j]) \union handled'[j] = Broadcasts'
                        /\ inFlight'[j] \intersect (Range(inbox'[j]) \union handled'[j]) = {}
                        /\ Range(inbox'[j]) \intersect handled'[j] = {}
                        /\ IsInjective(inbox'[j])
      BY Zenon DEF NothingLost, Range, IsInjective
    <2>0. /\ inFlight[j] \union Range(inbox[j]) \union handled[j] = Broadcasts
          /\ inFlight[j] \intersect (Range(inbox[j]) \union handled[j]) = {}
          /\ Range(inbox[j]) \intersect handled[j] = {}
          /\ IsInjective(inbox[j])
      BY Zenon DEF MessageInv, NothingLost
    <2>1. inFlight'[j] = inFlight[j] \union new
      BY <1>3, Zenon
    <2>2. CASE j = i
      BY <1>3, <1>5, <1>7, <2>0, <2>1, <2>2
    <2>3. CASE j # i
      BY <1>3, <1>8, <2>0, <2>1, <2>3, Zenon
    <2> QED
      BY <2>2, <2>3, Zenon
  <1>13. Net!Handle(i, m)
    BY <1>3, <1>6, <1>11, Zenon DEF Net!Handle
  <1> QED
    BY <1>5, <1>9, <1>10, <1>12, <1>13, Zenon DEF MessageInv

\* Every step keeps MessageInv, and is a step of the network or changes nothing in it.
LEMMA StepIsNetworkStep ==
    ASSUME MessageInv, [Next]_vars
    PROVE  MessageInv' /\ [Net!Next]_(Net!vars)
  <1>1. ASSUME UNCHANGED <<casts, inFlight, inbox, handled>>
        PROVE  /\ NothingLost' /\ Broadcasts' = Broadcasts
               /\ stopped' \subseteq Nodes => MessagesOK'
    BY <1>1, Zenon DEF MessageInv, MessagesOK, NothingLost, Broadcasts, Messages
  <1>2. CASE UNCHANGED vars
    BY <1>1, <1>2, Zenon DEF vars, network, startup, MessageInv, MessagesOK, Registered, Net!vars
  <1>3. ASSUME NEW i \in Nodes, Register(i) PROVE MessageInv' /\ UNCHANGED Net!vars
    BY <1>1, <1>3, Zenon DEF Register, MessageInv, MessagesOK, Registered, Net!vars
  <1>9. ASSUME NEW i \in Nodes, Start(i) PROVE MessageInv' /\ UNCHANGED Net!vars
    BY <1>1, <1>9, Zenon DEF Start, MessageInv, MessagesOK, Registered, Net!vars
  <1>4. ASSUME NEW i \in Nodes, Flush(i) \/ Read(i) PROVE MessageInv' /\ UNCHANGED Net!vars
    BY <1>1, <1>4, Zenon DEF Flush, Read, network, startup, MessageInv, MessagesOK, Registered, Net!vars
  <1>5. ASSUME NEW i \in Nodes, Return(i) PROVE MessageInv' /\ UNCHANGED Net!vars
    BY <1>1, <1>5, Zenon DEF Return, network, startup, MessageInv, MessagesOK, Registered, Net!vars
  <1>6. ASSUME NEW i \in Nodes, Stop(i) PROVE MessageInv' /\ Net!Stop(i)
    BY <1>1, <1>6, Zenon DEF Stop, network, startup, MessageInv, MessagesOK, Registered, Net!Stop
  <1>7. ASSUME NEW i \in Nodes, NEW m \in Messages, Arrive(i, m)
        PROVE  MessageInv' /\ UNCHANGED Net!vars
    <2>1. MessageInv'
      BY <1>7, ArriveKeepsMessages, Zenon
    <2> QED
      BY <1>7, <2>1, Zenon DEF Arrive, Broadcasts, Messages, Net!vars
  <1>8. CASE Next
    BY <1>3, <1>4, <1>5, <1>6, <1>7, <1>8, <1>9, StartServiceKeepsMessages, ReceiveKeepsMessages, Zenon
       DEF Next, Net!Next
  <1> QED
    BY <1>2, <1>8, Zenon

\* No message is lost, and none is handled twice, whatever the sizes of the inboxes,
\* the number of nodes and the service: each goroutine of Network.Broadcast
\* (services/network.go) keeps its message until the inbox takes it, and main
\* registers every node before it starts one.
THEOREM NothingLostHolds ==
    Safety => []NothingLost
  <1>1. MessageInv => NothingLost
    BY Zenon DEF MessageInv
  <1> QED
    BY InitMessages, StepIsNetworkStep, <1>1, PTL DEF Safety

\* Bounded inboxes, bounded outboxes, stopped nodes and unread results included,
\* the runtime does nothing that the protocols' network does not do: the safety
\* part of ImplementsNetwork.
THEOREM RuntimeIsNetwork ==
    Safety => Net!Init /\ [][Net!Next]_(Net!vars)
  <1>1. ASSUME Init PROVE Net!Init
    <2>1. Broadcasts = {}
      <3>1. NothingLost
        BY <1>1, InitMessages, Zenon DEF MessageInv
      <3>2. Range(<<>>) = {}
        BY DEF Range
      <3>3. CASE Nodes = {}
        BY <3>3, MessagePairs, Zenon DEF Broadcasts
      <3>4. CASE Nodes # {}
        BY <1>1, <3>1, <3>2, <3>4, Zenon DEF Init, NothingLost
      <3> QED
        BY <3>3, <3>4, Zenon
    <2> QED
      BY <1>1, <2>1, Zenon DEF Init, Net!Init
  <1> QED
    BY InitMessages, StepIsNetworkStep, <1>1, PTL DEF Safety
-----------------------------------------------------------------------------

(***************************************************************************)
(* Types and bounds.                                                       *)
(***************************************************************************)

\* What TypeOK says beyond FlowInv and MessageInv: no queue is over its size.
BoundsOK ==
    /\ running \subseteq Nodes
    /\ \A i \in Nodes :
          /\ results[i] <= MaxResults[i]
          /\ Len(inbox[i]) <= InboxSize /\ Len(outbox[i]) <= OutboxSize

RuntimeInv == FlowInv /\ MessageInv /\ BoundsOK

\* The parts of a sequence hold elements of the whole.
LEMMA CatParts ==
    ASSUME NEW S, NEW T, NEW s \in Seq(S), NEW t \in Seq(S), Cat(s, t) \in Seq(T)
    PROVE  s \in Seq(T) /\ t \in Seq(T)
  <1> DEFINE x == Cat(s, t)
             n == Len(s)
             m == Len(t)
  <1>1. /\ Len(x) = n + m /\ n \in Nat /\ m \in Nat
        /\ \A i \in 1..n + m : x[i] = IF i <= n THEN s[i] ELSE t[i - n]
        /\ s \in [1..n -> S] /\ t \in [1..m -> S]
    BY ConcatProperties, LenProperties, Zenon DEF Cat
  <1> HIDE DEF x, n, m
  <1>2. \A i \in 1..n + m : x[i] \in T
    BY <1>1, ElementOfSeq, Zenon DEF x
  <1>3. ASSUME NEW i \in 1..n PROVE s[i] \in T
    <2>1. i \in 1..n + m /\ i <= n
      BY <1>1
    <2> QED
      BY <1>1, <1>2, <2>1, Zenon
  <1>4. ASSUME NEW i \in 1..m PROVE t[i] \in T
    <2>1. n + i \in 1..n + m /\ ~(n + i <= n) /\ (n + i) - n = i
      BY <1>1
    <2>2. x[n + i] = t[(n + i) - n]
      BY <1>1, <2>1, Zenon
    <2> QED
      BY <1>2, <2>1, <2>2, Zenon
  <1>5. s \in [1..n -> T] /\ t \in [1..m -> T]
    BY <1>1, <1>3, <1>4, Zenon
  <1> QED
    BY <1>1, <1>5, SeqDef

\* Results are numbers of results sent.
LEMMA RuntimeInvType ==
    RuntimeInv => TypeOK
  <1> SUFFICES ASSUME RuntimeInv PROVE TypeOK
    BY Zenon
  <1>1. ASSUME NEW i \in Nodes
        PROVE  /\ awaitingMsgs[i] \in Seq(1..results[i])
               /\ outbox[i] \in Seq(1..results[i])
               /\ read[i] \in Seq(1..results[i])
    <2> DEFINE S == Nat
               T == 1..results[i]
               r == read[i]
               o == outbox[i]
               a == awaitingMsgs[i]
    <2>1. r \in Seq(S) /\ o \in Seq(S) /\ a \in Seq(S) /\ results[i] \in Nat
      BY Zenon DEF RuntimeInv, FlowInv, FlowOK
    <2>2. Cat(Cat(r, o), a) = Sent(results[i])
      BY FlowInvCat, Zenon DEF RuntimeInv
    <2>3. Sent(results[i]) \in Seq(T)
      BY <2>1 DEF Sent
    <2> HIDE DEF S, T, r, o, a
    <2>4. Cat(r, o) \in Seq(S)
      BY <2>1, CatAssoc, Zenon
    <2>5. Cat(r, o) \in Seq(T) /\ a \in Seq(T)
      BY <2>1, <2>2, <2>3, <2>4, CatParts, SMTT(30)
    <2>6. r \in Seq(T) /\ o \in Seq(T)
      BY <2>1, <2>5, CatParts, Zenon
    <2> QED
      BY <2>5, <2>6, Zenon DEF T, r, o, a
  <1>2. \A i \in Nodes : casts[i] \in 0..MaxCasts[i] /\ results[i] \in 0..MaxResults[i]
    BY BoundsAssumption DEF RuntimeInv, FlowInv, FlowOK, MessageInv, MessagesOK, BoundsOK
  <1> QED
    BY <1>1, <1>2, Zenon DEF TypeOK, RuntimeInv, MessageInv, MessagesOK, Registered, BoundsOK

\* An inbox or an outbox grows only while it has room, and a handler sends no more
\* results than the bound allows.
LEMMA NextBounds ==
    ASSUME RuntimeInv, [Next]_vars
    PROVE  BoundsOK'
  <1>0. /\ \A i \in Nodes : inbox[i] \in Seq(Messages) /\ outbox[i] \in Seq(Nat)
        /\ \A i \in Nodes : awaitingMsgs[i] \in Seq(Nat) /\ results[i] \in Nat
        /\ inbox \in [Nodes -> Seq(Messages)] /\ outbox \in [Nodes -> Seq(Nat)]
        /\ results \in [Nodes -> Nat]
    BY Zenon DEF RuntimeInv, FlowInv, FlowOK, MessageInv, MessagesOK
  <1>1. CASE UNCHANGED <<results, inbox, outbox>> /\ running' \subseteq Nodes
    BY <1>1, Zenon DEF RuntimeInv, BoundsOK
  <1>2. CASE UNCHANGED vars
    BY <1>1, <1>2, Zenon DEF vars, flow, RuntimeInv, BoundsOK
  <1>3. ASSUME NEW i \in Nodes, Register(i) \/ Start(i) \/ StartService(i) \/ Stop(i) \/ Return(i)
        PROVE  BoundsOK'
    BY <1>1, <1>3, Zenon DEF Register, Start, StartService, Stop, Return, flow, RuntimeInv, BoundsOK
  <1>4. ASSUME NEW i \in Nodes, NEW m \in Messages, Arrive(i, m) PROVE BoundsOK'
    <2> DEFINE q == Append(inbox[i], m)
    <2>1. Len(q) = Len(inbox[i]) + 1 /\ Len(inbox[i]) \in Nat
      BY <1>0, AppendProperties, LenProperties
    <2>2. Len(q) <= InboxSize
      BY <1>4, <2>1, SizesAssumption DEF Arrive
    <2> HIDE DEF q
    <2>3. inbox' = [inbox EXCEPT ![i] = q] /\ UNCHANGED <<results, outbox, running>>
      BY <1>4, Zenon DEF Arrive, flow, q
    <2> QED
      BY <1>0, <2>2, <2>3, Zenon DEF RuntimeInv, BoundsOK
  <1>5. ASSUME NEW i \in Nodes, Receive(i) PROVE BoundsOK'
    <2> DEFINE q == Tail(inbox[i])
    <2>1. PICK s \in 0..MaxBurst : SendResult(i, s)
      BY <1>5, Zenon DEF Receive
    <2>2. Len(q) = Len(inbox[i]) - 1 /\ Len(inbox[i]) \in Nat
      BY <1>0, <1>5, HeadTailProperties, LenProperties, Zenon DEF Receive
    <2>3. Len(q) <= InboxSize
      BY <2>2, SizesAssumption DEF RuntimeInv, BoundsOK
    <2> HIDE DEF q
    <2>4. /\ inbox' = [inbox EXCEPT ![i] = q] /\ UNCHANGED <<outbox, running>>
          /\ results' = [results EXCEPT ![i] = results[i] + s] /\ results[i] + s <= MaxResults[i]
      BY <1>5, <2>1, Zenon DEF Receive, SendResult, q
    <2> QED
      BY <1>0, <2>3, <2>4, Zenon DEF RuntimeInv, BoundsOK
  <1>6. ASSUME NEW i \in Nodes, Flush(i) PROVE BoundsOK'
    <2> DEFINE q == Append(outbox[i], Head(awaitingMsgs[i]))
    <2>1. Len(q) = Len(outbox[i]) + 1 /\ Len(outbox[i]) \in Nat
      <3>1. Head(awaitingMsgs[i]) \in Nat
        BY <1>0, <1>6, HeadTailProperties, Zenon DEF Flush
      <3> QED
        BY <1>0, <3>1, AppendProperties, LenProperties
    <2>2. Len(q) <= OutboxSize
      BY <1>6, <2>1, SizesAssumption DEF Flush
    <2> HIDE DEF q
    <2>3. outbox' = [outbox EXCEPT ![i] = q] /\ UNCHANGED <<results, inbox, running>>
      BY <1>6, Zenon DEF Flush, q
    <2> QED
      BY <1>0, <2>2, <2>3, Zenon DEF RuntimeInv, BoundsOK
  <1>7. ASSUME NEW i \in Nodes, Read(i) PROVE BoundsOK'
    <2> DEFINE q == Tail(outbox[i])
    <2>1. Len(q) = Len(outbox[i]) - 1 /\ Len(outbox[i]) \in Nat
      BY <1>0, <1>7, HeadTailProperties, LenProperties, Zenon DEF Read
    <2>2. Len(q) <= OutboxSize
      BY <2>1, SizesAssumption DEF RuntimeInv, BoundsOK
    <2> HIDE DEF q
    <2>3. outbox' = [outbox EXCEPT ![i] = q] /\ UNCHANGED <<results, inbox, running>>
      BY <1>7, Zenon DEF Read, q
    <2> QED
      BY <1>0, <2>2, <2>3, Zenon DEF RuntimeInv, BoundsOK
  <1>8. CASE Next
    BY <1>3, <1>4, <1>5, <1>6, <1>7, <1>8, Zenon DEF Next
  <1> QED
    BY <1>2, <1>8, Zenon

\* The runtime keeps its types, and no inbox or outbox is ever over its size, for
\* every number of nodes, every size and every service: a goroutine of
\* Network.Broadcast and the loop of a node (services/network.go,
\* services/service.go) send to a channel only when it has room, and the values
\* that travel to the reader are results that were sent.
THEOREM TypeCorrect ==
    Safety => []TypeOK
  <1>1. Init => RuntimeInv
    <2>1. Init => BoundsOK
      BY EmptySeq, SizesAssumption, BoundsAssumption DEF Init, BoundsOK
    <2> QED
      BY <2>1, InitFlow, InitMessages, Zenon DEF RuntimeInv
  <1>2. ASSUME RuntimeInv, [Next]_vars PROVE RuntimeInv'
    <2>1. FlowInv' /\ MessageInv'
      BY <1>2, NextFlow, StepIsNetworkStep, Zenon DEF RuntimeInv
    <2>2. BoundsOK'
      BY <1>2, NextBounds, Zenon
    <2> QED
      BY <2>1, <2>2, Zenon DEF RuntimeInv
  <1> QED
    BY <1>1, <1>2, RuntimeInvType, PTL DEF Safety
=============================================================================
