------------------------ MODULE CausalMulticastProofs ------------------------
(***************************************************************************)
(* Causal order, exactly-once delivery and their inductive invariant, for  *)
(* every set of nodes, every number of messages and every hold-back bound. *)
(***************************************************************************)
EXTENDS CausalMulticast, SequenceLemmas, TLAPS

\* A fresh node has seen and delivered nothing.
LEMMA InitCausalInv == Init => CausalInv
  BY DEF Init, CausalInv, TypeOK, Clock, Message, NobodyAhead, SeqnoIdentifies,
         CoveredIsDelivered, DeliveredIsCovered, HeldWasPassed, CausalOrder,
         NoDuplicateDelivery

\* Building a message, whether or not it reaches the wire: the new message has
\* a sequence number nobody has seen, so it is in nobody's past yet.
LEMMA SendStep ==
  ASSUME CausalInv, NEW n \in Node, NEW S, Bump(n), sent' = sent \cup S,
         \A m \in S : \E alert \in BOOLEAN, dest \in SUBSET Node :
           m = Built(n, alert, dest),
         \A a, b \in S : a = b,
         UNCHANGED <<holdback, drain, delivered>>
  PROVE  CausalInv'
<1> USE DEF CausalInv
<1>1. /\ vc' \in [Node -> Clock]
      /\ vc'[n][n] = vc[n][n] + 1
      /\ \A k, p \in Node : k # n \/ p # n => vc'[k][p] = vc[k][p]
  BY DEF Bump, TypeOK, Clock
<1>2. \A m \in S : /\ m \in Message
                   /\ m.sender = n
                   /\ m.clock = vc'[n]
                   /\ Seqno(m) = vc[n][n] + 1
  <2>1. vc'[n] = [vc[n] EXCEPT ![n] = @ + 1] /\ vc'[n] \in Clock
    BY DEF Bump, TypeOK, Clock
  <2> SUFFICES ASSUME NEW alert \in BOOLEAN, NEW dest \in SUBSET Node,
                      NEW m, m = Built(n, alert, dest)
               PROVE  /\ m \in Message
                      /\ m.sender = n
                      /\ m.clock = vc'[n]
                      /\ Seqno(m) = vc[n][n] + 1
    OBVIOUS
  <2>2. m = [sender |-> n, clock |-> vc'[n], alert |-> alert, dest |-> dest]
    BY <2>1 DEF Built
  <2> QED
    BY <1>1, <2>1, <2>2 DEF Message, Seqno
<1>3. \A m \in sent : /\ m \in Message
                      /\ m.sender \in Node
                      /\ m.clock \in [Node -> Nat]
                      /\ Seqno(m) \in Nat
                      /\ Seqno(m) <= vc[m.sender][m.sender]
  BY DEF TypeOK, Message, Clock, Seqno, NobodyAhead
<1>4. TypeOK'
  BY <1>1, <1>2 DEF TypeOK
<1>5. NobodyAhead'
  <2>1. \A k, p \in Node : vc[k][p] \in Nat /\ vc'[k][p] \in Nat /\ vc[k][p] <= vc[p][p]
    BY <1>1 DEF TypeOK, Clock, NobodyAhead
  <2>2. \A p \in Node : vc[p][p] <= vc'[p][p]
    BY <1>1, <2>1
  <2>3. \A k, p \in Node : vc'[k][p] <= vc'[p][p]
    BY <1>1, <2>1, <2>2
  <2>4. \A m \in sent : \A p \in Node : m.clock[p] \in Nat /\ m.clock[p] <= vc[p][p]
    BY <1>3 DEF NobodyAhead
  <2>5. \A m \in sent' : \A p \in Node : m.clock[p] <= vc'[p][p]
    BY <1>2, <2>1, <2>2, <2>3, <2>4
  <2> QED
    BY <2>3, <2>5 DEF NobodyAhead
<1>6. \A a \in S : \A b \in sent : a.sender = b.sender => Seqno(b) < Seqno(a)
  BY <1>2, <1>3 DEF TypeOK, Clock
<1>7. SeqnoIdentifies'
  <2> SUFFICES ASSUME NEW a \in sent', NEW b \in sent',
                      a.sender = b.sender, Seqno(a) = Seqno(b)
               PROVE  a = b
    BY DEF SeqnoIdentifies, Seqno
  <2>1. Seqno(a) \in Nat
    BY <1>2, <1>3 DEF TypeOK, Clock
  <2> QED
    BY <1>3, <1>6, <2>1 DEF SeqnoIdentifies
<1>8. \A a \in S : \A k \in Node : k # n => vc'[k][n] < Seqno(a)
  BY <1>1, <1>2 DEF TypeOK, Clock, NobodyAhead
<1>9. CoveredIsDelivered'
  <2> SUFFICES ASSUME NEW k \in Node, NEW a \in sent', a.sender # k,
                      Seqno(a) <= vc'[k][a.sender]
               PROVE  DeliveredBefore(k, a, Len(delivered[k]) + 1)
    BY DEF CoveredIsDelivered, DeliveredBefore, Seqno
  <2>1. a \in sent
    <3>1. ASSUME a \in S PROVE FALSE
      <4>1. vc'[k][n] \in Nat /\ Seqno(a) \in Nat /\ a.sender = n
        BY <1>1, <1>2, <3>1 DEF TypeOK, Clock
      <4> QED
        BY <1>8, <3>1, <4>1
    <3> QED
      BY <3>1
  <2>2. vc'[k][a.sender] = vc[k][a.sender]
    BY <1>1, <1>3, <2>1
  <2> QED
    BY <2>1, <2>2 DEF CoveredIsDelivered
<1>10. DeliveredIsCovered'
  <2> SUFFICES ASSUME NEW k \in Node, NEW i \in 1 .. Len(delivered[k])
               PROVE  /\ Passed(k, delivered[k][i])'
                      /\ delivered[k][i].sender # k
                      /\ \A p \in Node : delivered[k][i].clock[p] <= vc'[k][p]
    BY DEF DeliveredIsCovered
  <2>1. /\ Passed(k, delivered[k][i])
        /\ delivered[k][i].sender # k
        /\ \A p \in Node : delivered[k][i].clock[p] <= vc[k][p]
    BY DEF DeliveredIsCovered
  <2>2. delivered[k][i].clock \in [Node -> Nat]
    BY <1>3, <2>1 DEF Passed
  <2>3. ASSUME NEW p \in Node PROVE delivered[k][i].clock[p] <= vc'[k][p]
    <3>1. vc[k][p] \in Nat /\ vc'[k][p] \in Nat
      BY <1>1 DEF TypeOK, Clock
    <3>2. vc[k][p] <= vc'[k][p]
      BY <1>1, <3>1
    <3>3. delivered[k][i].clock[p] \in Nat /\ delivered[k][i].clock[p] <= vc[k][p]
      BY <2>1, <2>2
    <3> QED
      BY <3>1, <3>2, <3>3
  <2>4. Passed(k, delivered[k][i])'
    BY <2>1 DEF Passed
  <2> QED
    BY <2>1, <2>3, <2>4
<1>11. HeldWasPassed'
  BY DEF HeldWasPassed, Passed
<1>12. CausalOrder'
  <2> SUFFICES ASSUME NEW k \in Node, NEW i \in 1 .. Len(delivered[k]),
                      NEW a \in sent', a.sender # k, Before(a, delivered[k][i])
               PROVE  DeliveredBefore(k, a, i)
    BY DEF CausalOrder, DeliveredBefore, Before, Seqno
  <2>1. ASSUME a \in S PROVE FALSE
    <3>1. delivered[k][i] \in sent
      BY DEF DeliveredIsCovered, Passed
    <3>2. delivered[k][i].clock[n] \in Nat /\ delivered[k][i].clock[n] <= vc[n][n]
      BY <1>3, <3>1 DEF NobodyAhead
    <3>3. vc[n][n] \in Nat
      BY DEF TypeOK, Clock
    <3> QED
      BY <1>2, <2>1, <3>2, <3>3 DEF Before
  <2> QED
    BY <2>1 DEF CausalOrder
<1>13. NoDuplicateDelivery'
  BY DEF NoDuplicateDelivery
<1> QED
  BY <1>4, <1>5, <1>7, <1>9, <1>10, <1>11, <1>12, <1>13

\* Steps that change neither clocks, wire nor application keep the invariant as
\* long as the hold-back lists are made of messages already passed on.
LEMMA QuietStep ==
  ASSUME CausalInv, UNCHANGED <<vc, sent, delivered>>,
         holdback' \in [Node -> Seq(Message)], drain' \in [Node -> Nat],
         HeldWasPassed'
  PROVE  CausalInv'
  BY DEF CausalInv, TypeOK, NobodyAhead, SeqnoIdentifies, CoveredIsDelivered,
         DeliveredBefore, DeliveredIsCovered, Passed, CausalOrder, Before,
         Seqno, NoDuplicateDelivery

\* Delivering m at n: everything m depends on is covered by the clock of n, so
\* it was delivered; m itself was not; and the clock then covers m.
LEMMA DeliverStep ==
  ASSUME CausalInv, NEW n \in Node, NEW m, Passed(n, m), CanDeliver(n, m),
         DeliverToApp(n, m), UNCHANGED sent,
         holdback' \in [Node -> Seq(Message)], drain' \in [Node -> Nat],
         HeldWasPassed'
  PROVE  CausalInv'
<1> USE DEF CausalInv
<1> DEFINE L == Len(delivered[n])
           s == m.sender
<1>1. /\ m \in sent /\ m \in Message /\ s \in Node /\ s # n
      /\ m.clock \in [Node -> Nat] /\ Seqno(m) = m.clock[s]
      /\ ~m.alert /\ n \in m.dest
  BY DEF Passed, CanDeliver, Own, TypeOK, Message, Clock, Seqno
<1>2. /\ delivered' \in [Node -> Seq(Message)]
      /\ L \in Nat /\ Len(delivered'[n]) = L + 1
      /\ delivered'[n][L + 1] = m
      /\ \A i \in 1 .. L : delivered'[n][i] = delivered[n][i]
      /\ \A k \in Node \ {n} : delivered'[k] = delivered[k]
  BY <1>1 DEF DeliverToApp, TypeOK
<1>3. /\ vc' \in [Node -> Clock]
      /\ Seqno(m) = vc[n][s] + 1
      /\ vc'[n][s] = Seqno(m)
      /\ \A p \in Node \ {s} : vc'[n][p] = vc[n][p] /\ m.clock[p] <= vc[n][p]
      /\ \A k \in Node \ {n} : vc'[k] = vc[k]
  <2>1. vc' = [vc EXCEPT ![n] = Merged(n, m)]
    BY DEF DeliverToApp
  <2>2. \A p \in Node : vc[n][p] \in Nat /\ m.clock[p] \in Nat
    BY <1>1 DEF TypeOK, Clock
  <2>3. Merged(n, m) \in Clock
    BY <2>2 DEF Merged, Clock
  <2>4. /\ Seqno(m) = vc[n][s] + 1
        /\ \A p \in Node \ {s} : m.clock[p] <= vc[n][p]
    BY DEF CanDeliver
  <2>5. /\ Merged(n, m)[s] = Seqno(m)
        /\ \A p \in Node \ {s} : Merged(n, m)[p] = vc[n][p]
    <3>1. vc[n][s] \in Nat /\ Merged(n, m)[s] =
            IF m.clock[s] > vc[n][s] THEN m.clock[s] ELSE vc[n][s]
      BY <1>1, <2>2 DEF Merged
    <3>2. ASSUME NEW p \in Node \ {s} PROVE Merged(n, m)[p] = vc[n][p]
      <4>1. Merged(n, m)[p] =
              IF m.clock[p] > vc[n][p] THEN m.clock[p] ELSE vc[n][p]
        BY DEF Merged
      <4>2. m.clock[p] <= vc[n][p] /\ vc[n][p] \in Nat /\ m.clock[p] \in Nat
        BY <2>2, <2>4
      <4> QED
        BY <4>1, <4>2
    <3>3. Seqno(m) > vc[n][s]
      BY <2>4, <3>1
    <3> QED
      BY <1>1, <3>1, <3>2, <3>3
  <2> QED
    BY <1>1, <2>1, <2>3, <2>4, <2>5 DEF TypeOK
<1>4. /\ \A k, p \in Node : vc[k][p] \in Nat /\ vc'[k][p] \in Nat
      /\ \A k, p \in Node : vc[k][p] <= vc'[k][p]
      /\ \A p \in Node : vc'[p][p] = vc[p][p]
  <2>1. \A k, p \in Node : vc[k][p] \in Nat /\ vc'[k][p] \in Nat
    BY <1>3 DEF TypeOK, Clock
  <2>2. ASSUME NEW k \in Node, NEW p \in Node
        PROVE  vc[k][p] <= vc'[k][p] /\ (k = p => vc'[k][p] = vc[k][p])
    <3>1. CASE k = n /\ p = s
      BY <1>1, <1>3, <2>1, <3>1
    <3>2. CASE ~(k = n /\ p = s)
      <4>1. vc'[k][p] = vc[k][p]
        BY <1>3, <3>2
      <4> QED
        BY <2>1, <4>1
    <3> QED
      BY <3>1, <3>2
  <2> QED
    BY <2>1, <2>2
<1> HIDE DEF s
<1>5. TypeOK'
  BY <1>2, <1>3 DEF TypeOK
<1>6. NobodyAhead'
  <2>1. vc'[n][s] <= vc[s][s]
    BY <1>1, <1>3 DEF NobodyAhead
  <2>2. ASSUME NEW k \in Node, NEW p \in Node PROVE vc'[k][p] <= vc'[p][p]
    <3>1. CASE k = n /\ p = s
      BY <1>4, <2>1, <3>1
    <3>2. CASE ~(k = n /\ p = s)
      BY <1>3, <1>4, <3>2 DEF NobodyAhead
    <3> QED
      BY <3>1, <3>2
  <2> QED
    BY <1>4, <2>2 DEF NobodyAhead
<1>7. SeqnoIdentifies'
  BY DEF SeqnoIdentifies, Seqno
<1>8. \A a \in sent : a.sender \in Node /\ Seqno(a) \in Nat
  BY DEF TypeOK, Message, Clock, Seqno
<1>9. \A k \in Node :
        /\ Len(delivered[k]) \in Nat /\ Len(delivered'[k]) \in Nat
        /\ Len(delivered[k]) <= Len(delivered'[k])
        /\ \A i \in 1 .. Len(delivered[k]) : delivered'[k][i] = delivered[k][i]
  <2> SUFFICES ASSUME NEW k \in Node
               PROVE  /\ Len(delivered[k]) \in Nat /\ Len(delivered'[k]) \in Nat
                      /\ Len(delivered[k]) <= Len(delivered'[k])
                      /\ \A i \in 1 .. Len(delivered[k]) :
                           delivered'[k][i] = delivered[k][i]
    OBVIOUS
  <2>1. Len(delivered[k]) \in Nat
    BY DEF TypeOK
  <2>2. CASE k = n
    BY <1>2, <2>2
  <2>3. CASE k # n
    <3>1. delivered'[k] = delivered[k]
      BY <1>2, <2>3
    <3> QED
      BY <2>1, <3>1
  <2> QED
    BY <2>2, <2>3
<1>10. CoveredIsDelivered'
  <2> SUFFICES ASSUME NEW k \in Node, NEW a \in sent, a.sender # k,
                      Seqno(a) <= vc'[k][a.sender]
               PROVE  DeliveredBefore(k, a, Len(delivered[k]) + 1)'
    BY DEF CoveredIsDelivered, Seqno
  <2>1. CASE Seqno(a) <= vc[k][a.sender]
    <3>1. PICK j \in 1 .. Len(delivered[k]) : delivered[k][j] = a
      BY <1>9, <2>1 DEF CoveredIsDelivered, DeliveredBefore
    <3>2. j \in 1 .. Len(delivered'[k]) /\ delivered'[k][j] = a
      BY <1>9, <3>1
    <3> QED
      BY <1>9, <3>2 DEF DeliveredBefore
  <2>2. CASE ~(Seqno(a) <= vc[k][a.sender])
    <3>1. k = n /\ a.sender = s
      BY <1>3, <1>8, <2>2
    <3>2. a = m
      BY <1>1, <1>3, <1>4, <1>8, <2>2, <3>1 DEF SeqnoIdentifies, s
    <3> QED
      BY <1>2, <3>1, <3>2 DEF DeliveredBefore
  <2> QED
    BY <2>1, <2>2
<1>11. DeliveredIsCovered'
  <2>1. ASSUME NEW k \in Node, NEW d \in sent,
               \A p \in Node : d.clock[p] <= vc[k][p]
        PROVE  \A p \in Node : d.clock[p] <= vc'[k][p]
    <3>1. \A p \in Node : d.clock[p] \in Nat
      BY DEF TypeOK, Message, Clock
    <3>2. ASSUME NEW p \in Node PROVE d.clock[p] <= vc'[k][p]
      <4>1. d.clock[p] <= vc[k][p] /\ vc[k][p] <= vc'[k][p]
        BY <1>4, <2>1
      <4>2. d.clock[p] \in Nat /\ vc[k][p] \in Nat /\ vc'[k][p] \in Nat
        BY <1>4, <3>1
      <4> QED
        BY <4>1, <4>2
    <3> QED
      BY <3>2
  <2>2. ASSUME NEW p \in Node PROVE m.clock[p] <= vc'[n][p]
    <3>1. m.clock[p] \in Nat /\ vc'[n][p] \in Nat
      BY <1>1, <1>4
    <3>2. CASE p = s
      <4>1. m.clock[p] = vc'[n][p]
        BY <1>1, <1>3, <3>2
      <4> QED
        BY ONLY <3>1, <4>1
    <3>3. CASE p # s
      BY <1>3, <3>3
    <3> QED
      BY <3>2, <3>3
  <2> SUFFICES ASSUME NEW k \in Node, NEW i \in 1 .. Len(delivered'[k])
               PROVE  /\ Passed(k, delivered'[k][i])
                      /\ delivered'[k][i].sender # k
                      /\ \A p \in Node : delivered'[k][i].clock[p] <= vc'[k][p]
    BY DEF DeliveredIsCovered, Passed
  <2>3. CASE k = n /\ i = L + 1
    BY <1>1, <1>2, <2>2, <2>3 DEF s
  <2>4. CASE ~(k = n /\ i = L + 1)
    <3>1. i \in 1 .. Len(delivered[k]) /\ delivered'[k][i] = delivered[k][i]
      BY <1>2, <2>4
    <3> QED
      BY <2>1, <3>1 DEF DeliveredIsCovered, Passed
  <2> QED
    BY <2>3, <2>4
<1>12. CausalOrder'
  <2> SUFFICES ASSUME NEW k \in Node, NEW i \in 1 .. Len(delivered'[k]),
                      NEW a \in sent, a.sender # k, Before(a, delivered'[k][i])
               PROVE  DeliveredBefore(k, a, i)'
    BY DEF CausalOrder, Before, Seqno
  <2>1. CASE k = n /\ i = L + 1
    <3>1. a # m /\ Seqno(a) <= m.clock[a.sender]
      BY <1>2, <2>1 DEF Before
    <3>2. Seqno(a) <= vc[n][a.sender]
      <4>1. CASE a.sender = s
        <5>1. Seqno(a) # Seqno(m)
          BY <1>1, <3>1, <4>1 DEF SeqnoIdentifies, s
        <5>2. Seqno(a) <= Seqno(m) /\ Seqno(m) = vc[n][s] + 1
          BY <1>1, <1>3, <3>1, <4>1
        <5>3. Seqno(a) \in Nat /\ vc[n][s] \in Nat
          BY <1>1, <1>4, <1>8
        <5>4. Seqno(a) <= vc[n][s]
          BY ONLY <5>1, <5>2, <5>3
        <5> QED
          BY ONLY <4>1, <5>4
      <4>2. CASE a.sender # s
        <5>1. m.clock[a.sender] <= vc[n][a.sender]
          BY <1>3, <1>8, <4>2
        <5>2. /\ m.clock[a.sender] \in Nat /\ vc[n][a.sender] \in Nat
              /\ Seqno(a) \in Nat
          BY <1>1, <1>4, <1>8
        <5> QED
          BY <3>1, <5>1, <5>2
      <4> QED
        BY <4>1, <4>2
    <3>3. PICK j \in 1 .. L : delivered[n][j] = a
      BY <1>9, <2>1, <3>2 DEF CoveredIsDelivered, DeliveredBefore
    <3>4. j \in 1 .. i - 1 /\ delivered'[k][j] = a
      BY <1>2, <2>1, <3>3
    <3> QED
      BY <3>4 DEF DeliveredBefore
  <2>2. CASE ~(k = n /\ i = L + 1)
    <3>1. i \in 1 .. Len(delivered[k]) /\ delivered'[k][i] = delivered[k][i]
      BY <1>2, <2>2
    <3>2. PICK j \in 1 .. i - 1 : delivered[k][j] = a
      BY <3>1 DEF CausalOrder, DeliveredBefore
    <3>3. j \in 1 .. Len(delivered[k]) /\ delivered'[k][j] = a
      BY <1>9, <3>1, <3>2
    <3> QED
      BY <3>2, <3>3 DEF DeliveredBefore
  <2> QED
    BY <2>1, <2>2
<1>13. NoDuplicateDelivery'
  <2>1. \A i \in 1 .. L : delivered[n][i] # m
    <3> SUFFICES ASSUME NEW i \in 1 .. L, delivered[n][i] = m PROVE FALSE
      OBVIOUS
    <3>1. Seqno(m) <= vc[n][s]
      BY <1>1 DEF DeliveredIsCovered
    <3> QED
      BY <1>1, <1>3, <1>4, <3>1
  <2> SUFFICES ASSUME NEW k \in Node, NEW i \in 1 .. Len(delivered'[k]),
                      NEW j \in 1 .. Len(delivered'[k]), i # j
               PROVE  delivered'[k][i] # delivered'[k][j]
    BY DEF NoDuplicateDelivery
  <2>2. CASE k # n
    <3>1. delivered'[k] = delivered[k]
      BY <1>2, <2>2
    <3> QED
      BY <3>1 DEF NoDuplicateDelivery
  <2>3. CASE k = n
    <3>1. i \in 1 .. L \/ i = L + 1
      BY <1>2, <2>3
    <3>2. j \in 1 .. L \/ j = L + 1
      BY <1>2, <2>3
    <3>3. CASE i \in 1 .. L /\ j \in 1 .. L
      <4>1. delivered[k][i] # delivered[k][j]
        BY <2>3, <3>3 DEF NoDuplicateDelivery
      <4> QED
        BY <1>9, <2>3, <3>3, <4>1
    <3>4. CASE ~(i \in 1 .. L /\ j \in 1 .. L)
      BY <1>2, <2>1, <2>3, <3>1, <3>2, <3>4
    <3> QED
      BY <3>3, <3>4
  <2> QED
    BY <2>2, <2>3
<1> QED
  BY <1>5, <1>6, <1>7, <1>10, <1>11, <1>12, <1>13

\* Every step of every handler, loop iteration and send preserves the invariant.
LEMMA NextCausalInv == CausalInv /\ [Next]_vars => CausalInv'
<1> SUFFICES ASSUME CausalInv, [Next]_vars PROVE CausalInv'
  OBVIOUS
<1> USE DEF CausalInv
<1>1. CASE UNCHANGED vars
  BY <1>1, QuietStep DEF vars, TypeOK, HeldWasPassed, Passed
<1>2. ASSUME NEW n \in Node, NEW alert \in BOOLEAN, MulticastMessage(n, alert)
      PROVE  CausalInv'
  <2> DEFINE S == {Built(n, alert, Node)}
  <2>1. \A m \in S : \E al \in BOOLEAN, dest \in SUBSET Node : m = Built(n, al, dest)
    OBVIOUS
  <2>2. \A a, b \in S : a = b
    OBVIOUS
  <2>3. Bump(n) /\ sent' = sent \cup S /\ UNCHANGED <<holdback, drain, delivered>>
    BY <1>2 DEF MulticastMessage
  <2> HIDE DEF S
  <2> QED
    BY <2>1, <2>2, <2>3, SendStep
<1>3. ASSUME NEW n \in Node, NEW p \in Node, SendTo(n, p) PROVE CausalInv'
  <2> DEFINE S == {Built(n, FALSE, {p})}
  <2>1. \A m \in S : \E al \in BOOLEAN, dest \in SUBSET Node : m = Built(n, al, dest)
    OBVIOUS
  <2>2. \A a, b \in S : a = b
    OBVIOUS
  <2>3. Bump(n) /\ sent' = sent \cup S /\ UNCHANGED <<holdback, drain, delivered>>
    BY <1>3 DEF SendTo
  <2> HIDE DEF S
  <2> QED
    BY <2>1, <2>2, <2>3, SendStep
<1>4. ASSUME NEW n \in Node, SendRaises(n) PROVE CausalInv'
  <2> DEFINE S == {}
  <2>1. \A m \in S : \E al \in BOOLEAN, dest \in SUBSET Node : m = Built(n, al, dest)
    OBVIOUS
  <2>2. \A a, b \in S : a = b
    OBVIOUS
  <2>3. Bump(n) /\ sent' = sent \cup S /\ UNCHANGED <<holdback, drain, delivered>>
    BY <1>4 DEF SendRaises
  <2> HIDE DEF S
  <2> QED
    BY <2>1, <2>2, <2>3, SendStep
<1>5. ASSUME NEW n \in Node, NEW m \in sent, ReceiveAlert(n, m) PROVE CausalInv'
  BY <1>5, QuietStep DEF ReceiveAlert, Dispatch, TypeOK, HeldWasPassed, Passed
<1>6. ASSUME NEW n \in Node, NEW m \in sent, ReceiveGap(n, m) PROVE CausalInv'
  BY <1>6, QuietStep DEF ReceiveGap, Dispatch, TypeOK, HeldWasPassed, Passed
<1>7. ASSUME NEW n \in Node, NEW m \in sent, ReceiveDeliverable(n, m)
      PROVE  CausalInv'
  <2>1. Passed(n, m) /\ CanDeliver(n, m) /\ DeliverToApp(n, m) /\ UNCHANGED sent
    BY <1>7 DEF ReceiveDeliverable, Dispatch, Passed
  <2>2. holdback' \in [Node -> Seq(Message)] /\ drain' \in [Node -> Nat]
    BY <1>7 DEF ReceiveDeliverable, TypeOK
  <2>3. HeldWasPassed'
    BY <1>7, <2>1 DEF ReceiveDeliverable, HeldWasPassed, Passed
  <2> QED
    BY <2>1, <2>2, <2>3, DeliverStep
<1>8. ASSUME NEW n \in Node, NEW m \in sent, ReceiveEarly(n, m) PROVE CausalInv'
  <2>1. Passed(n, m) /\ UNCHANGED <<vc, sent, drain, delivered>>
    BY <1>8 DEF ReceiveEarly, Dispatch, Passed
  <2>2. m \in Message /\ holdback[n] \in Seq(Message)
    BY DEF TypeOK
  <2>3. holdback' = [holdback EXCEPT ![n] = Append(holdback[n], m)]
    BY <1>8 DEF ReceiveEarly
  <2>4. holdback' \in [Node -> Seq(Message)] /\ drain' \in [Node -> Nat]
    BY <2>1, <2>2, <2>3 DEF TypeOK
  <2>5. HeldWasPassed'
    <3> SUFFICES ASSUME NEW k \in Node, NEW i \in 1 .. Len(holdback'[k])
                 PROVE  Passed(k, holdback'[k][i])
      BY <2>1 DEF HeldWasPassed, Passed
    <3>1. CASE k # n
      BY <2>3, <3>1 DEF HeldWasPassed, TypeOK
    <3>2. CASE k = n
      <4>1. holdback'[n] = Append(holdback[n], m)
        BY <2>3 DEF TypeOK
      <4> QED
        BY <2>1, <2>2, <3>2, <4>1 DEF HeldWasPassed
    <3> QED
      BY <3>1, <3>2
  <2> QED
    BY <2>1, <2>4, <2>5, QuietStep
<1>9. ASSUME NEW n \in Node, DrainDeliver(n) PROVE CausalInv'
  <2> DEFINE i == drain[n]
             m == holdback[n][i]
  <2>1. i \in 1 .. Len(holdback[n]) /\ holdback[n] \in Seq(Message)
    BY <1>9 DEF DrainDeliver, TypeOK
  <2>2. Passed(n, m) /\ CanDeliver(n, m) /\ DeliverToApp(n, m) /\ UNCHANGED <<sent, drain>>
    BY <1>9, <2>1 DEF DrainDeliver, HeldWasPassed
  <2>3. holdback' = [holdback EXCEPT ![n] = RemoveAt(holdback[n], i)]
    BY <1>9 DEF DrainDeliver
  <2>4. /\ RemoveAt(holdback[n], i) \in Seq(Message)
        /\ \A j \in 1 .. Len(RemoveAt(holdback[n], i)) :
             \E k \in 1 .. Len(holdback[n]) :
               RemoveAt(holdback[n], i)[j] = holdback[n][k]
    BY <2>1, RemoveAtKeeps
  <2>5. holdback' \in [Node -> Seq(Message)] /\ drain' \in [Node -> Nat]
    BY <2>2, <2>3, <2>4 DEF TypeOK
  <2>6. HeldWasPassed'
    <3> SUFFICES ASSUME NEW k \in Node, NEW j \in 1 .. Len(holdback'[k])
                 PROVE  Passed(k, holdback'[k][j])
      BY <2>2 DEF HeldWasPassed, Passed
    <3>1. CASE k # n
      BY <2>3, <3>1 DEF HeldWasPassed, TypeOK
    <3>2. CASE k = n
      <4>1. holdback'[n] = RemoveAt(holdback[n], i)
        BY <2>3 DEF TypeOK
      <4>2. PICK l \in 1 .. Len(holdback[n]) : holdback'[n][j] = holdback[n][l]
        BY <2>4, <3>2, <4>1
      <4> QED
        BY <3>2, <4>2 DEF HeldWasPassed
    <3> QED
      BY <3>1, <3>2
  <2> QED
    BY <2>2, <2>5, <2>6, DeliverStep
<1>10. ASSUME NEW n \in Node, DrainSkip(n) \/ DrainRaises(n) \/ DrainEnd(n)
       PROVE  CausalInv'
  <2>1. drain' \in [Node -> Nat] /\ UNCHANGED <<vc, sent, holdback, delivered>>
    <3>1. drain[n] \in Nat
      BY DEF TypeOK
    <3>2. drain' = [drain EXCEPT ![n] = drain[n] + 1] \/ drain' = [drain EXCEPT ![n] = 0]
      BY <1>10 DEF DrainSkip, DrainRaises, DrainEnd
    <3>3. ASSUME drain' = [drain EXCEPT ![n] = drain[n] + 1] PROVE drain' \in [Node -> Nat]
      BY <3>1, <3>3 DEF TypeOK
    <3>4. ASSUME drain' = [drain EXCEPT ![n] = 0] PROVE drain' \in [Node -> Nat]
      BY <3>4 DEF TypeOK
    <3>5. UNCHANGED <<vc, sent, holdback, delivered>>
      BY <1>10 DEF DrainSkip, DrainRaises, DrainEnd
    <3> QED
      BY <3>2, <3>3, <3>4, <3>5
  <2> QED
    BY <2>1, QuietStep DEF TypeOK, HeldWasPassed, Passed
<1> QED
  BY <1>1, <1>2, <1>3, <1>4, <1>5, <1>6, <1>7, <1>8, <1>9, <1>10
     DEF Next, Send, Receive, Drain

\* The invariant holds in every state of every run.
THEOREM CausalInvariant == Spec => []CausalInv
<1>1. Init => CausalInv
  BY InitCausalInv
<1>2. CausalInv /\ [Next]_vars => CausalInv'
  BY NextCausalInv
<1> QED
  BY <1>1, <1>2, PTL DEF Spec

\* Type correctness of clocks, wire, hold-back lists and deliveries.
THEOREM TypeCorrectness == Spec => []TypeOK
<1>1. CausalInv => TypeOK
  BY DEF CausalInv
<1> QED
  BY <1>1, CausalInvariant, PTL

\* Causal order of what deliver passes to the application: VectorCausalBuffer
\* never hands over a message before one it depends on, under loss, delay,
\* reordering and duplication of any number of messages.
THEOREM DeliveryIsCausal == Spec => []CausalOrder
<1>1. CausalInv => CausalOrder
  BY DEF CausalInv
<1> QED
  BY <1>1, CausalInvariant, PTL

\* The application never gets one message twice.
THEOREM DeliveryIsAtMostOnce == Spec => []NoDuplicateDelivery
<1>1. CausalInv => NoDuplicateDelivery
  BY DEF CausalInv
<1> QED
  BY <1>1, CausalInvariant, PTL

\* A list that is appended to keeps its elements.
LEMMA AppendKeeps ==
  ASSUME NEW S, NEW s \in Seq(S), NEW e \in S
  PROVE  /\ \A m \in ToSet(s) : m \in ToSet(Append(s, e))
         /\ e \in ToSet(Append(s, e))
<1>1. Append(s, e) \in Seq(S) /\ Len(Append(s, e)) = Len(s) + 1
      /\ (\A k \in 1 .. Len(s) : Append(s, e)[k] = s[k])
      /\ Append(s, e)[Len(s) + 1] = e
  OBVIOUS
<1>2. DOMAIN s = 1 .. Len(s) /\ DOMAIN Append(s, e) = 1 .. Len(s) + 1
  BY <1>1
<1>3. \A k \in 1 .. Len(s) : k \in 1 .. Len(s) + 1
  OBVIOUS
<1>4. Len(s) + 1 \in 1 .. Len(s) + 1
  OBVIOUS
<1> QED
  BY <1>1, <1>2, <1>3, <1>4 DEF ToSet

\* One iteration of the drain loop that delivers.
LEMMA DrainDeliverStep ==
  ASSUME TypeOK, NEW n \in Node, DrainDeliver(n)
  PROVE  /\ \A k \in Node \ {n} : holdback'[k] = holdback[k]
         /\ drain' = drain
         /\ Len(holdback'[n]) = Len(holdback[n]) - 1
         /\ \A m \in ToSet(holdback[n]) :
              m \in ToSet(holdback'[n]) \/ m \in ToSet(delivered'[n])
<1> DEFINE h == holdback[n]
           i == drain[n]
           e == h[i]
           r == RemoveAt(h, i)
<1>1. h \in Seq(Message) /\ i \in 1 .. Len(h) /\ delivered[n] \in Seq(Message)
  BY DEF TypeOK, DrainDeliver
<1>2. e \in Message
  BY <1>1
<1>3. drain' = drain /\ holdback' = [holdback EXCEPT ![n] = r]
      /\ delivered' = [delivered EXCEPT ![n] = Append(@, e)]
  BY DEF DrainDeliver, DeliverToApp
<1>4. holdback'[n] = r /\ delivered'[n] = Append(delivered[n], e)
      /\ \A k \in Node \ {n} : holdback'[k] = holdback[k]
  BY <1>3 DEF TypeOK
<1> HIDE DEF h, i, e, r
<1>5. /\ r \in Seq(Message) /\ Len(r) = Len(h) - 1
      /\ \A k \in 1 .. Len(h) : k # i => \E j \in 1 .. Len(r) : r[j] = h[k]
  BY <1>1, RemoveAtKeeps DEF r
<1>6. ASSUME NEW m \in ToSet(h)
      PROVE  m \in ToSet(r) \/ m \in ToSet(Append(delivered[n], e))
  <2>1. PICK k \in 1 .. Len(h) : m = h[k]
    BY <1>1 DEF ToSet
  <2>2. CASE k = i
    BY <1>1, <1>2, <2>1, <2>2, AppendKeeps DEF e
  <2>3. CASE k # i
    BY <1>5, <2>1, <2>3 DEF ToSet
  <2> QED
    BY <2>2, <2>3
<1> QED
  BY <1>3, <1>4, <1>5, <1>6 DEF h

\* The steps that leave the hold-back lists alone, and those that append to one.
LEMMA OtherStep ==
  ASSUME TypeOK, NEW n \in Node, Send(n) \/ (\E m \in sent : Receive(n, m))
  PROVE  /\ Idle(n)
         /\ drain' = drain \/ drain' = [drain EXCEPT ![n] = 1]
         /\ \/ holdback' = holdback
            \/ \E m \in Message : holdback' = [holdback EXCEPT ![n] = Append(@, m)]
<1>1. CASE Send(n)
  BY <1>1 DEF Send, MulticastMessage, SendTo, SendRaises, Bump
<1>2. CASE \E m \in sent : Receive(n, m)
  <2>1. PICK m \in sent : Receive(n, m)
    BY <1>2
  <2>2. m \in Message
    BY <2>1 DEF TypeOK
  <2> QED
    BY <2>1, <2>2 DEF Receive, Dispatch, ReceiveAlert, ReceiveDeliverable,
       ReceiveEarly, ReceiveGap, DeliverToApp
<1> QED
  BY <1>1, <1>2

\* What is held leaves the hold-back list of VectorCausalBuffer only by being
\* delivered, wherever a TypeError cuts the drain loop short.
THEOREM HeldUntilDelivered == Spec => HeldLeavesByDelivery
<1> DEFINE Kept == \A n \in Node : \A m \in ToSet(holdback[n]) :
                     m \in ToSet(holdback'[n]) \/ m \in ToSet(delivered'[n])
<1>1. ASSUME TypeOK, [Next]_vars PROVE Kept
  <2>1. CASE holdback' = holdback
    BY <2>1
  <2>2. ASSUME NEW n \in Node, NEW e \in Message,
               holdback' = [holdback EXCEPT ![n] = Append(@, e)]
        PROVE  Kept
    <3>1. holdback'[n] = Append(holdback[n], e) /\ holdback[n] \in Seq(Message)
          /\ \A k \in Node \ {n} : holdback'[k] = holdback[k]
      BY <1>1, <2>2 DEF TypeOK
    <3> QED
      BY <3>1, AppendKeeps
  <2>3. ASSUME NEW n \in Node, DrainDeliver(n) PROVE Kept
    BY <1>1, <2>3, DrainDeliverStep
  <2>4. ASSUME NEW n \in Node, Send(n) \/ (\E m \in sent : Receive(n, m)) PROVE Kept
    BY <1>1, <2>1, <2>2, <2>4, OtherStep
  <2>5. ASSUME NEW n \in Node, DrainSkip(n) \/ DrainRaises(n) \/ DrainEnd(n) PROVE Kept
    BY <2>1, <2>5 DEF DrainSkip, DrainRaises, DrainEnd
  <2>6. CASE UNCHANGED vars
    BY <2>1, <2>6 DEF vars
  <2> QED
    BY <1>1, <2>3, <2>4, <2>5, <2>6 DEF Next, Drain
<1>2. TypeOK /\ [Next]_vars =>
        [\A n \in Node : \A m \in ToSet(holdback[n]) :
           \/ m \in ToSet(holdback'[n])
           \/ m \in ToSet(delivered'[n])]_vars
  BY <1>1
<1> HIDE DEF Kept
<1> QED
  BY <1>2, TypeCorrectness, PTL DEF Spec, HeldLeavesByDelivery

\* The loop at the end of VectorCausalBuffer.deliver always comes closer to its
\* end, however its list changes and whatever its iterations do.
THEOREM DrainEnds == Spec => DrainAdvances
<1> DEFINE Still(n) == UNCHANGED <<vc[n], holdback[n], drain[n], delivered[n]>>
           Closer(n) == Still(n) \/ drain'[n] = 0 \/ Left(n)' < Left(n)
<1>1. ASSUME TypeOK, [Next]_vars, NEW n \in Node, ~Idle(n) PROVE Closer(n)
  <2>1. CASE UNCHANGED vars
    BY <2>1 DEF vars
  <2>2. ASSUME NEW k \in Node, k # n,
               Send(k) \/ (\E m \in sent : Receive(k, m)) \/ Drain(k)
        PROVE  Still(n)
    BY <1>1, <2>2 DEF Send, MulticastMessage, SendTo, SendRaises, Bump, Receive,
       Dispatch, ReceiveAlert, ReceiveDeliverable, ReceiveEarly, ReceiveGap,
       DeliverToApp, Drain, DrainDeliver, DrainSkip, DrainRaises, DrainEnd, TypeOK
  <2>3. ~(Send(n) \/ \E m \in sent : Receive(n, m))
    BY <1>1, OtherStep
  <2>4. CASE DrainDeliver(n)
    <3>1. drain' = drain /\ Len(holdback'[n]) = Len(holdback[n]) - 1
      BY <1>1, <2>4, DrainDeliverStep
    <3>2. drain[n] \in Nat /\ Len(holdback[n]) \in Nat
      BY <1>1 DEF TypeOK
    <3> QED
      BY <3>1, <3>2 DEF Left
  <2>5. CASE DrainSkip(n)
    <3>1. drain'[n] = drain[n] + 1 /\ holdback' = holdback
          /\ drain[n] \in Nat /\ Len(holdback[n]) \in Nat
      BY <1>1, <2>5 DEF DrainSkip, TypeOK
    <3> QED
      BY <3>1 DEF Left
  <2>6. CASE DrainRaises(n) \/ DrainEnd(n)
    BY <1>1, <2>6 DEF DrainRaises, DrainEnd, TypeOK
  <2> QED
    BY <1>1, <2>1, <2>2, <2>3, <2>4, <2>5, <2>6 DEF Next, Drain
<1>2. TypeOK /\ [Next]_vars =>
        [\A n \in Node : ~Idle(n) =>
           \/ UNCHANGED <<vc[n], holdback[n], drain[n], delivered[n]>>
           \/ drain'[n] = 0
           \/ Left(n)' < Left(n)]_vars
  BY <1>1
<1> QED
  BY <1>2, TypeCorrectness, PTL DEF Spec, DrainAdvances

-----------------------------------------------------------------------------
(***************************************************************************)
(* CausalDelivery: clocks stand for sets of messages.                      *)
(***************************************************************************)
\* What a step can be as far as clocks, messages and deliveries go: a message is
\* built and perhaps sent, one is delivered, or nothing changes.
Builds(n, S) ==
  /\ Bump(n) /\ sent' = sent \cup S /\ UNCHANGED delivered
  /\ \A m \in S : \E alert \in BOOLEAN, dest \in SUBSET Node : m = Built(n, alert, dest)
  /\ \A a, b \in S : a = b

Delivers(n, m) ==
  /\ Passed(n, m) /\ CanDeliver(n, m) /\ DeliverToApp(n, m) /\ UNCHANGED sent

LEMMA StepShapes ==
  ASSUME CausalInv, [Next]_vars
  PROVE  \/ \E n \in Node : \E S : Builds(n, S)
         \/ \E n \in Node : \E m \in sent : Delivers(n, m)
         \/ UNCHANGED <<vc, sent, delivered>>
<1>1. ASSUME NEW n \in Node, NEW alert \in BOOLEAN, MulticastMessage(n, alert)
      PROVE  Builds(n, {Built(n, alert, Node)})
  BY <1>1 DEF MulticastMessage, Builds
<1>2. ASSUME NEW n \in Node, NEW p \in Node, SendTo(n, p)
      PROVE  Builds(n, {Built(n, FALSE, {p})})
  BY <1>2 DEF SendTo, Builds
<1>3. ASSUME NEW n \in Node, SendRaises(n) PROVE Builds(n, {})
  BY <1>3 DEF SendRaises, Builds
<1>4. ASSUME NEW n \in Node, NEW m \in sent, ReceiveDeliverable(n, m) PROVE Delivers(n, m)
  BY <1>4 DEF ReceiveDeliverable, Dispatch, Delivers, Passed
<1>5. ASSUME NEW n \in Node, DrainDeliver(n)
      PROVE  \E m \in sent : Delivers(n, m)
  <2>1. Passed(n, holdback[n][drain[n]])
    BY <1>5 DEF DrainDeliver, CausalInv, HeldWasPassed
  <2>2. Delivers(n, holdback[n][drain[n]])
    BY <1>5, <2>1 DEF DrainDeliver, Delivers
  <2> QED
    BY <2>1, <2>2 DEF Passed
<1>6. ASSUME NEW n \in Node, NEW m \in sent,
             ReceiveAlert(n, m) \/ ReceiveEarly(n, m) \/ ReceiveGap(n, m)
      PROVE  UNCHANGED <<vc, sent, delivered>>
  BY <1>6 DEF ReceiveAlert, ReceiveEarly, ReceiveGap, Dispatch
<1>7. ASSUME NEW n \in Node, DrainSkip(n) \/ DrainRaises(n) \/ DrainEnd(n)
      PROVE  UNCHANGED <<vc, sent, delivered>>
  BY <1>7 DEF DrainSkip, DrainRaises, DrainEnd
<1>8. CASE UNCHANGED vars
  BY <1>8 DEF vars
<1> QED
  BY <1>1, <1>2, <1>3, <1>4, <1>5, <1>6, <1>7, <1>8 DEF Next, Send, Receive, Drain

\* A message just built is new, and nobody has its number.
LEMMA BuiltIsNew ==
  ASSUME CausalInv, NEW n \in Node, NEW S, Builds(n, S)
  PROVE  /\ \A k \in Node \ {n} : vc'[k] = vc[k]
         /\ \A p \in Node : vc'[n][p] = IF p = n THEN vc[n][n] + 1 ELSE vc[n][p]
         /\ \A m \in S : /\ m \in Message /\ m.sender = n
                         /\ m.clock = vc'[n] /\ Seqno(m) = vc[n][n] + 1
         /\ \A a \in sent : a.clock[n] <= vc[n][n]
         /\ \A k \in Node : vc[k][n] <= vc[n][n]
<1>1. /\ vc'[n] = [vc[n] EXCEPT ![n] = @ + 1] /\ vc'[n] \in Clock
      /\ \A k \in Node \ {n} : vc'[k] = vc[k]
  BY DEF Builds, Bump, CausalInv, TypeOK, Clock
<1>2. \A p \in Node : vc'[n][p] = IF p = n THEN vc[n][n] + 1 ELSE vc[n][p]
  BY <1>1 DEF CausalInv, TypeOK, Clock
<1>3. ASSUME NEW m \in S
      PROVE  /\ m \in Message /\ m.sender = n
             /\ m.clock = vc'[n] /\ Seqno(m) = vc[n][n] + 1
  <2>1. PICK alert \in BOOLEAN, dest \in SUBSET Node : m = Built(n, alert, dest)
    BY DEF Builds
  <2>2. m = [sender |-> n, clock |-> vc'[n], alert |-> alert, dest |-> dest]
    BY <1>1, <2>1 DEF Built
  <2> QED
    BY <1>1, <1>2, <2>2 DEF Message, Seqno
<1>4. \A a \in sent : a.clock[n] <= vc[n][n]
  BY DEF CausalInv, NobodyAhead
<1>5. \A k \in Node : vc[k][n] <= vc[n][n]
  BY DEF CausalInv, NobodyAhead
<1> QED
  BY <1>1, <1>2, <1>3, <1>4, <1>5

LEMMA SentTypes ==
  ASSUME CausalInv
  PROVE  /\ \A n, p \in Node : vc[n][p] \in Nat
         /\ \A m \in sent : /\ m \in Message /\ m.sender \in Node
                            /\ m.clock \in [Node -> Nat] /\ Seqno(m) \in Nat
                            /\ \A p \in Node : m.clock[p] \in Nat
  BY DEF CausalInv, TypeOK, Message, Clock, Seqno

\* ToSet as the instance of CausalDelivery sees it.
LEMMA DeliveryToSet == \A s : Delivery!ToSet(s) = ToSet(s)
BY DEF Delivery!ToSet, ToSet

\* What n has seen is what its clock covers.
LEMMA SeenIsCovered ==
  ASSUME CausalInv, NEW n \in Node
  PROVE  Delivery!Seen(n) = {m \in sent : Seqno(m) <= vc[n][m.sender]}
<1>1. Delivery!Sent = sent
  BY DEF Delivery!Sent
<1>2. delivered[n] \in Seq(Message) /\ DOMAIN delivered[n] = 1 .. Len(delivered[n])
      /\ Len(delivered[n]) \in Nat
  BY DEF CausalInv, TypeOK
<1>3. ASSUME NEW m \in sent, Seqno(m) <= vc[n][m.sender], m.sender # n
      PROVE  m \in ToSet(delivered[n])
  <2>1. DeliveredBefore(n, m, Len(delivered[n]) + 1)
    BY <1>3 DEF CausalInv, CoveredIsDelivered
  <2>2. PICK j \in 1 .. Len(delivered[n]) + 1 - 1 : delivered[n][j] = m
    BY <2>1 DEF DeliveredBefore
  <2>3. j \in DOMAIN delivered[n]
    BY <1>2
  <2> QED
    BY <2>2, <2>3 DEF ToSet
<1>4. ASSUME NEW m \in ToSet(delivered[n]) PROVE m \in sent /\ Seqno(m) <= vc[n][m.sender]
  <2>1. PICK i \in 1 .. Len(delivered[n]) : m = delivered[n][i]
    BY <1>2 DEF ToSet
  <2>2. m \in sent /\ \A p \in Node : m.clock[p] <= vc[n][p]
    BY <2>1 DEF CausalInv, DeliveredIsCovered, Passed
  <2> QED
    BY <2>2, SentTypes DEF Seqno
<1>5. ASSUME NEW m \in sent, m.sender = n PROVE Seqno(m) <= vc[n][m.sender]
  BY <1>5, SentTypes DEF CausalInv, NobodyAhead, Seqno
<1> QED
  BY <1>1, <1>3, <1>4, <1>5, DeliveryToSet DEF Delivery!Seen

\* What the clock of a message stands for.
Covered == [m \in sent |-> {a \in sent : Before(a, m)}]

LEMMA BuildImplements ==
  ASSUME CausalInv, NEW n \in Node, NEW S, Builds(n, S)
  PROVE  Delivery!Send(n) \/ UNCHANGED <<Covered, delivered>>
<1> USE SentTypes, BuiltIsNew
<1>1. CASE S = {}
  <2>1. sent' = sent /\ delivered' = delivered
    BY <1>1 DEF Builds
  <2> QED
    BY <2>1 DEF Covered, Before, Seqno
<1>2. CASE S # {}
  <2>1. PICK m \in S : TRUE
    BY <1>2
  <2>2. sent' = sent \cup {m} /\ delivered' = delivered
    BY <2>1 DEF Builds
  <2>3. m \in Message /\ m.sender = n /\ Seqno(m) = vc[n][n] + 1
        /\ m.clock[n] = vc[n][n] + 1
        /\ \A p \in Node \ {n} : m.clock[p] = vc[n][p]
    BY DEF Seqno
  <2>4. m \notin sent
    <3>1. ASSUME m \in sent PROVE FALSE
      BY <2>3, <3>1
    <3> QED
      BY <3>1
  <2>5. ASSUME NEW x \in sent PROVE {a \in sent' : Before(a, x)} = {a \in sent : Before(a, x)}
    <3>1. ~Before(m, x)
      BY <2>3 DEF Before
    <3> QED
      BY <2>2, <3>1
  <2>6. {a \in sent' : Before(a, m)} = Delivery!Seen(n)
    <3>1. ASSUME NEW a \in sent PROVE Before(a, m) <=> Seqno(a) <= vc[n][a.sender]
      <4>1. a # m
        BY <2>4
      <4>2. CASE a.sender = n
        <5>1. Seqno(a) <= vc[n][n]
          BY <4>2 DEF Seqno
        <5> QED
          BY <2>3, <4>1, <4>2, <5>1 DEF Before
      <4>3. CASE a.sender # n
        BY <2>3, <4>1, <4>3 DEF Before
      <4> QED
        BY <4>2, <4>3
    <3>2. ~Before(m, m)
      BY DEF Before
    <3> QED
      BY <2>2, <3>1, <3>2, SeenIsCovered
  <2>7. Covered' = [x \in sent \cup {m} |-> IF x = m THEN Delivery!Seen(n) ELSE Covered[x]]
    BY <2>2, <2>4, <2>5, <2>6 DEF Covered, Before, Seqno
  <2>8. m \in DOMAIN Covered' \ Delivery!Sent
    BY <2>2, <2>4 DEF Covered, Delivery!Sent
  <2> QED
    BY <2>2, <2>3, <2>7, <2>8 DEF Delivery!Send, Delivery!Sent, Covered
<1> QED
  BY <1>1, <1>2

LEMMA DeliveryImplements ==
  ASSUME CausalInv, NEW n \in Node, NEW m \in sent, Delivers(n, m)
  PROVE  m \in Delivery!Sent /\ Delivery!Deliver(n, m)
<1> USE SentTypes
<1>1. m.sender # n /\ Seqno(m) = vc[n][m.sender] + 1
      /\ \A p \in Node \ {m.sender} : m.clock[p] <= vc[n][p]
  BY DEF Delivers, CanDeliver, Own
<1>2. m \notin Delivery!Seen(n)
  BY <1>1, SeenIsCovered
<1>3. ASSUME NEW a \in sent, Before(a, m) PROVE a \in Delivery!Seen(n)
  <2>1. CASE a.sender = m.sender
    <3>1. Seqno(a) # Seqno(m)
      BY <1>3, <2>1 DEF CausalInv, SeqnoIdentifies, Before
    <3>2. Seqno(a) <= Seqno(m)
      BY <1>3, <2>1 DEF Before, Seqno
    <3>3. vc[n][m.sender] \in Nat /\ Seqno(a) \in Nat /\ Seqno(m) \in Nat
      OBVIOUS
    <3>4. Seqno(a) <= vc[n][a.sender]
      BY <1>1, <2>1, <3>1, <3>2, <3>3
    <3> QED
      BY <3>4, SeenIsCovered
  <2>2. CASE a.sender # m.sender
    <3>1. Seqno(a) <= m.clock[a.sender] /\ m.clock[a.sender] <= vc[n][a.sender]
      BY <1>1, <1>3, <2>2 DEF Before
    <3> QED
      BY <3>1, SeenIsCovered
  <2> QED
    BY <2>1, <2>2
<1>4. ~m.alert /\ n \in m.dest
  BY DEF Delivers, Passed
<1>5. delivered' = [delivered EXCEPT ![n] = Append(@, m)] /\ sent' = sent
  BY DEF Delivers, DeliverToApp
<1> QED
  BY <1>2, <1>3, <1>4, <1>5 DEF Delivery!Deliver, Delivery!Sent, Before, Seqno

\* The clocks of application messages do all that sending along the set of earlier
\* messages would do: every step of the buffer is one of CausalDelivery, where
\* _can_deliver is the inclusion of one set in another, or a stutter.
THEOREM ClocksImplementDelivery == Spec => ImplementsDelivery
<1>1. Init => Delivery!Init
  BY DEF Init, Delivery!Init
<1>2. CausalInv /\ [Next]_vars => [Delivery!Next]_<<Covered, delivered>>
  <2> SUFFICES ASSUME CausalInv, [Next]_vars
               PROVE  Delivery!Next \/ UNCHANGED <<Covered, delivered>>
    OBVIOUS
  <2>1. ASSUME UNCHANGED <<vc, sent, delivered>> PROVE UNCHANGED <<Covered, delivered>>
    BY <2>1 DEF Covered, Before, Seqno
  <2> QED
    BY <2>1, StepShapes, BuildImplements, DeliveryImplements DEF Delivery!Next
<1> QED
  BY <1>1, <1>2, CausalInvariant, PTL DEF Spec, ImplementsDelivery, Delivery!Spec, Covered

\* Whoever has seen a message has seen what that one depends on, and no two
\* messages depend on each other.
ClockOrder ==
  /\ \A a, b \in sent : Before(a, b) =>
       ~Before(b, a) /\ \A p \in Node : a.clock[p] <= b.clock[p]
  /\ \A n \in Node : \A a \in sent : Seqno(a) <= vc[n][a.sender] =>
       \A p \in Node : a.clock[p] <= vc[n][p]

LEMMA BuildKeepsOrder ==
  ASSUME CausalInv, ClockOrder, NEW n \in Node, NEW S, Builds(n, S)
  PROVE  ClockOrder'
<1> USE SentTypes, BuiltIsNew
<1>1. sent' = sent \cup S
  BY DEF Builds
<1>2. ASSUME NEW k \in Node, NEW p \in Node
      PROVE  vc'[k][p] \in Nat /\ vc[k][p] <= vc'[k][p] /\ (k # n => vc'[k][p] = vc[k][p])
  <2>1. CASE k = n
    BY <2>1
  <2>2. CASE k # n
    BY <2>2
  <2> QED
    BY <2>1, <2>2
<1>3. ASSUME NEW m \in S, NEW a \in sent PROVE ~Before(m, a)
  BY DEF Before
<1>4. ASSUME NEW a \in sent, NEW k \in Node, Seqno(a) <= vc'[k][a.sender], NEW p \in Node
      PROVE  a.clock[p] <= vc'[k][p]
  <2>1. Seqno(a) <= vc[k][a.sender]
    <3>1. CASE k = n /\ a.sender = n
      <4>1. Seqno(a) <= vc[n][n]
        BY <3>1 DEF Seqno
      <4> QED
        BY <3>1, <4>1
    <3>2. CASE ~(k = n /\ a.sender = n)
      <4>1. vc'[k][a.sender] = vc[k][a.sender]
        BY <1>2, <3>2
      <4> QED
        BY <1>4, <4>1
    <3> QED
      BY <3>1, <3>2
  <2>2. a.clock[p] <= vc[k][p]
    BY <2>1 DEF ClockOrder
  <2> QED
    BY <1>2, <2>2
<1>5. ASSUME NEW m \in S, NEW k \in Node, Seqno(m) <= vc'[k][m.sender], NEW p \in Node
      PROVE  m.clock[p] <= vc'[k][p]
  <2>1. k = n
    <3>1. ASSUME k # n PROVE FALSE
      <4>1. vc'[k][n] <= vc[n][n] /\ Seqno(m) = vc[n][n] + 1
        BY <1>2, <3>1
      <4> QED
        BY <1>2, <1>5, <4>1
    <3> QED
      BY <3>1
  <2> QED
    BY <1>2, <2>1
<1>6. ASSUME NEW a \in sent, NEW m \in S, Before(a, m), NEW p \in Node
      PROVE  a.clock[p] <= m.clock[p]
  <2>1. Seqno(a) <= vc'[n][a.sender]
    BY <1>6 DEF Before
  <2> QED
    BY <1>4, <2>1
<1>7. ASSUME NEW a \in sent', NEW b \in sent', Before(a, b)
      PROVE  ~Before(b, a) /\ \A p \in Node : a.clock[p] <= b.clock[p]
  <2>1. CASE b \in sent
    <3>1. a \in sent
      BY <1>1, <1>3, <1>7, <2>1
    <3> QED
      BY <1>7, <2>1, <3>1 DEF ClockOrder
  <2>2. CASE b \in S
    <3>1. a # b
      BY <1>7 DEF Before
    <3>2. a \in sent
      BY <1>1, <2>2, <3>1 DEF Builds
    <3> QED
      BY <1>3, <1>6, <1>7, <2>2, <3>2
  <2> QED
    BY <1>1, <2>1, <2>2
<1> QED
  BY <1>1, <1>4, <1>5, <1>7 DEF ClockOrder, Before, Seqno

LEMMA DeliveryKeepsOrder ==
  ASSUME CausalInv, ClockOrder, NEW n \in Node, NEW m \in sent, Delivers(n, m)
  PROVE  ClockOrder'
<1> USE SentTypes
<1>1. sent' = sent /\ vc' = [vc EXCEPT ![n] = Merged(n, m)]
  BY DEF Delivers, DeliverToApp
<1>2. Seqno(m) = vc[n][m.sender] + 1 /\ \A p \in Node \ {m.sender} : m.clock[p] <= vc[n][p]
  BY DEF Delivers, CanDeliver
<1>3. \A k \in Node \ {n} : vc'[k] = vc[k]
  BY <1>1
<1>4. ASSUME NEW p \in Node
      PROVE  /\ vc'[n][p] \in Nat /\ vc[n][p] <= vc'[n][p] /\ m.clock[p] <= vc'[n][p]
             /\ p # m.sender => vc'[n][p] = vc[n][p]
             /\ vc'[n][m.sender] = Seqno(m)
  <2>1. vc'[n] = Merged(n, m)
    BY <1>1 DEF CausalInv, TypeOK
  <2>2. vc'[n][p] = (IF m.clock[p] > vc[n][p] THEN m.clock[p] ELSE vc[n][p])
        /\ vc'[n][m.sender] = (IF m.clock[m.sender] > vc[n][m.sender]
                               THEN m.clock[m.sender] ELSE vc[n][m.sender])
    BY <2>1 DEF Merged
  <2> QED
    BY <1>2, <2>2 DEF Seqno
<1>5. ASSUME NEW a \in sent, Seqno(a) <= vc'[n][a.sender], NEW p \in Node
      PROVE  a.clock[p] <= vc'[n][p]
  <2>1. CASE a = m
    BY <1>4, <2>1
  <2>2. CASE a # m
    <3>1. Seqno(a) <= vc[n][a.sender]
      <4>1. CASE a.sender = m.sender
        <5>1. Seqno(a) # Seqno(m)
          BY <2>2, <4>1 DEF CausalInv, SeqnoIdentifies
        <5>2. Seqno(a) <= Seqno(m)
          BY <1>4, <1>5, <4>1
        <5>3. vc[n][m.sender] \in Nat /\ Seqno(a) \in Nat /\ Seqno(m) \in Nat
          OBVIOUS
        <5>4. Seqno(a) <= vc[n][m.sender]
          BY <1>2, <5>1, <5>2, <5>3
        <5> QED
          BY <1>2, <4>1, <5>4
      <4>2. CASE a.sender # m.sender
        BY <1>4, <1>5, <4>2
      <4> QED
        BY <4>1, <4>2
    <3>2. a.clock[p] <= vc[n][p]
      BY <3>1 DEF ClockOrder
    <3> QED
      BY <1>4, <3>2
  <2> QED
    BY <2>1, <2>2
<1>6. ASSUME NEW k \in Node, NEW a \in sent, Seqno(a) <= vc'[k][a.sender], NEW p \in Node
      PROVE  a.clock[p] <= vc'[k][p]
  BY <1>3, <1>5, <1>6 DEF ClockOrder
<1> QED
  BY <1>1, <1>6 DEF ClockOrder, Before, Seqno

\* Entry by entry, the clocks of the messages order them: _build_message and _merge
\* keep in every clock all that the messages seen so far depended on, and two
\* messages never depend on each other.
THEOREM ClocksOrderMessages == Spec => []ClocksGiveAnOrder
<1>1. Init => ClockOrder
  BY DEF Init, ClockOrder
<1>2. CausalInv /\ ClockOrder /\ [Next]_vars => ClockOrder'
  <2>1. ASSUME ClockOrder, UNCHANGED <<vc, sent, delivered>> PROVE ClockOrder'
    BY <2>1 DEF ClockOrder, Before, Seqno
  <2> QED
    BY <2>1, StepShapes, BuildKeepsOrder, DeliveryKeepsOrder
<1>3. CausalInv /\ ClockOrder => ClocksGiveAnOrder
  <2> SUFFICES ASSUME CausalInv, ClockOrder, NEW m \in sent, NEW a \in sent, Before(a, m)
               PROVE  /\ ~Before(m, a)
                      /\ \A x \in sent : Before(x, a) => Before(x, m)
    BY DEF ClocksGiveAnOrder, Delivery!PastIsOrder, Delivery!Sent
  <2>1. ~Before(m, a) /\ \A p \in Node : a.clock[p] <= m.clock[p]
    BY DEF ClockOrder
  <2>2. ASSUME NEW x \in sent, Before(x, a) PROVE Before(x, m)
    <3>1. Seqno(x) <= a.clock[x.sender] /\ a.clock[x.sender] <= m.clock[x.sender]
      BY <2>1, <2>2, SentTypes DEF Before
    <3>2. x # m
      BY <2>1, <2>2
    <3> QED
      BY <3>1, <3>2, SentTypes DEF Before
  <2> QED
    BY <2>1, <2>2
<1> QED
  BY <1>1, <1>2, <1>3, CausalInvariant, PTL DEF Spec
=============================================================================
