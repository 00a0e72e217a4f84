-------------------------- MODULE HSCandidateProofs --------------------------
(***************************************************************************)
(* CandidateWaitsForSomething, for every ring, every number of overlapping *)
(* elections and every interleaving, as long as no probe and no reply is   *)
(* lost for good.  Nodes need not know more than their two neighbours.     *)
(***************************************************************************)
EXTENDS HSElectionProofs

-----------------------------------------------------------------------------
(***************************************************************************)
(* The inductive invariant.  A chain is what becomes of one probe: it is   *)
(* forwarded from node to node, and answered back along the same nodes.    *)
(***************************************************************************)
SameChain(x, y) ==
  /\ x.initiator = y.initiator /\ x.round = y.round
  /\ x.phase = y.phase /\ x.dir = y.dir

WireTypes ==
  /\ probes \subseteq Probe
  /\ replies \subseteq Reply
  /\ processed \subseteq probes \cup replies

\* A probe that has come hop links was sent on by the node it came from.
Trail ==
  \A p \in probes :
    /\ p.hop = 0 => p.current = p.initiator
    /\ p.hop # 0 => \E q \in probes :
         SameChain(q, p) /\ q.hop = p.hop - 1 /\ q.to = p.current

\* Of the probes of a chain only the one that came furthest is still under way.
OneFront ==
  \A p, q \in probes : SameChain(p, q) =>
    /\ p.hop = q.hop => p = q
    /\ p.hop < q.hop => p \in processed /\ p.current \in q.path /\ p.current # q.current

\* An answer goes to a node that sent the probe, which nobody carries on.
AnswersOnTheTrail ==
  \A r \in replies :
    /\ \E p \in probes : SameChain(p, r) /\ p.current = r.to
    /\ \A p \in probes : SameChain(p, r) => p \in processed

\* Of the answers of a chain only the one that is nearest to the initiator is
\* still under way.
OneAnswer ==
  \A r \in replies \ processed, s \in replies : SameChain(r, s) /\ r # s =>
    /\ s \in processed
    /\ \E p, q \in probes :
         /\ SameChain(p, r) /\ SameChain(q, r)
         /\ p.current = r.to /\ q.current = s.to /\ p.hop < q.hop

WireInv ==
  /\ RingOK
  /\ WireTypes
  /\ \A m \in probes : ProbeOK(m)
  /\ Trail
  /\ OneFront
  /\ AnswersOnTheTrail
  /\ OneAnswer

StateTypes ==
  /\ inProgress \in [Node -> BOOLEAN]
  /\ participating \in [Node -> BOOLEAN]
  /\ awaiting \in [Node -> SUBSET (Phase \X Dir)]
  /\ round \in [Node -> Nat]

NeighboursKnown == \A n \in Node : {succ[n], pred[n]} \subseteq peers[n]

\* No message is of a later election, or of a later phase, than its initiator.
NotAhead ==
  \A m \in probes \cup replies :
    /\ m.round <= round[m.initiator]
    /\ m.round = round[m.initiator] /\ inProgress[m.initiator] =>
         \A a \in awaiting[m.initiator] : m.phase <= a[1]

\* What a candidate waits for is of one phase.
OnePhase ==
  \A n \in Node : inProgress[n] => \A a, b \in awaiting[n] : a[1] = b[1]

\* Who still takes part after giving up waits for nothing.
GivenUpWaitsForNothing ==
  \A n \in Node : participating[n] => inProgress[n] \/ awaiting[n] = {}

StateInv ==
  /\ StateTypes
  /\ NotAhead
  /\ OnePhase
  /\ GivenUpWaitsForNothing
  /\ CandidateWaitsForSomething

WaitInv == WireInv /\ NeighboursKnown /\ StateInv

-----------------------------------------------------------------------------
(***************************************************************************)
(* Chains.                                                                 *)
(***************************************************************************)
LEMMA SameChainIsEquivalence ==
  /\ \A x, y : SameChain(x, y) => SameChain(y, x)
  /\ \A x, y, z : SameChain(x, y) /\ SameChain(y, z) => SameChain(x, z)
BY DEF SameChain

\* A probe is no reply.
LEMMA ProbesAreNoReplies ==
  Probe \cap Reply = {}
<1>1. SUFFICES ASSUME NEW x \in Probe, x \in Reply PROVE FALSE
  OBVIOUS
<1>2. "hop" \in DOMAIN x
  BY <1>1 DEF Probe
<1>3. "hop" \notin DOMAIN x
  BY <1>1 DEF Reply
<1> QED
  BY <1>2, <1>3

\* Nothing is dropped on its way to a neighbour.
LEMMA NothingDropped ==
  ASSUME NeighboursKnown, NEW n \in Node
  PROVE  /\ Reach(n) = Dir
         /\ \A d, x : x.to = Neighbour(n, d) => OnWire(n, {x}) = {x}
<1>1. \A d : Neighbour(n, d) \in peers[n]
  BY DEF NeighboursKnown, Neighbour
<1> QED
  BY <1>1 DEF Reach, OnWire

\* Being a good probe is a matter of the ring only.
LEMMA ProbeOKStays ==
  ASSUME UNCHANGED ring
  PROVE  (RingOK => RingOK') /\ \A m : ProbeOK(m)' <=> ProbeOK(m)
BY DEF ring, RingOK, ProbeOK, Neighbour

-----------------------------------------------------------------------------
(***************************************************************************)
(* What a step may put on the wire.                                        *)
(***************************************************************************)
\* Receiving without sending.
LEMMA WireReceive ==
  ASSUME WireInv, UNCHANGED <<ring, probes, replies>>,
         processed \subseteq processed', processed' \subseteq probes \cup replies
  PROVE  WireInv'
<1>1. RingOK' /\ \A m \in probes' : ProbeOK(m)'
  BY ProbeOKStays DEF WireInv
<1>2. WireTypes' /\ Trail'
  BY DEF WireInv, WireTypes, Trail
<1>3. OneFront' /\ AnswersOnTheTrail'
  BY DEF WireInv, OneFront, AnswersOnTheTrail
<1>4. OneAnswer'
  BY DEF WireInv, OneAnswer
<1> QED
  BY <1>1, <1>2, <1>3, <1>4 DEF WireInv

\* A probe not received yet is the front of its chain, which has no answer.
LEMMA FrontOfChain ==
  ASSUME WireInv, NEW m \in probes \ processed
  PROVE  /\ \A p \in probes : SameChain(p, m) /\ p # m => p.hop < m.hop /\ p \in processed
         /\ \A r \in replies : ~SameChain(r, m)
<1>1. m.hop \in Nat /\ \A p \in probes : p.hop \in Nat
  BY DEF WireInv, WireTypes, Probe
<1>2. \A r \in replies : ~SameChain(r, m)
  BY SameChainIsEquivalence DEF WireInv, AnswersOnTheTrail
<1>3. ASSUME NEW p \in probes, SameChain(p, m), p # m
      PROVE  p.hop < m.hop /\ p \in processed
  <2>1. SameChain(m, p)
    BY <1>3, SameChainIsEquivalence
  <2>2. ~(m.hop < p.hop) /\ p.hop # m.hop
    BY <1>3, <2>1 DEF WireInv, OneFront
  <2> QED
    BY <1>1, <1>3, <2>2 DEF WireInv, OneFront
<1> QED
  BY <1>2, <1>3

\* Sending a probe on.
LEMMA WireForward ==
  ASSUME WireInv, NEW m \in probes \ processed, m.initiator > m.to,
         UNCHANGED <<ring, replies>>, processed' = processed \cup {m},
         probes' = probes \cup {Forwarded(m)}
  PROVE  WireInv' /\ Forwarded(m) \notin processed' /\ SameChain(Forwarded(m), m)
<1> DEFINE f == Forwarded(m)
<1>1. m \in Probe /\ ProbeOK(m) /\ m.hop \in Nat /\ RingOK /\ m.to \in Node
      /\ m.to \in Nat
  BY NodesAreOrdered DEF WireInv, WireTypes, Probe
<1>2. f \in Probe /\ ProbeOK(f)
  BY <1>1, ForwardedIsOK
<1>3. /\ f.hop = m.hop + 1 /\ f.current = m.to /\ f.path = m.path \cup {m.to}
      /\ SameChain(f, m)
  BY DEF Forwarded, SameChain
<1>4. m.to # m.initiator
  BY <1>1
<1>5. m.to \notin m.path
  BY <1>1, <1>4, ProbeMeetsNewNode
<1>6. /\ \A p \in probes : SameChain(p, m) /\ p # m => p.hop < m.hop /\ p \in processed
      /\ \A r \in replies : ~SameChain(r, m)
  BY FrontOfChain
<1> HIDE DEF f
<1>7. f # m /\ f \notin probes
  BY <1>1, <1>3, <1>6
<1>8. f \notin replies /\ processed \subseteq probes \cup replies
  BY <1>2, ProbesAreNoReplies DEF WireInv, WireTypes
<1>9. f \notin processed'
  BY <1>7, <1>8
<1>10. probes' = probes \cup {f}
  BY DEF f
<1>11. WireTypes'
  BY <1>2, <1>10 DEF WireInv, WireTypes
<1>12. RingOK' /\ \A p \in probes' : ProbeOK(p)'
  BY <1>2, <1>10, ProbeOKStays DEF WireInv
<1>13. Trail'
  <2>1. f.hop # 0 /\ m.hop = f.hop - 1
    BY <1>1, <1>3
  <2>2. SameChain(m, f)
    BY <1>3, SameChainIsEquivalence
  <2> QED
    BY <1>3, <1>10, <2>1, <2>2 DEF WireInv, Trail
<1>14. \A p \in probes : SameChain(p, f) =>
         p.hop < f.hop /\ p \in processed' /\ p.current \in f.path /\ p.current # f.current
  <2> SUFFICES ASSUME NEW p \in probes, SameChain(p, f)
               PROVE  p.hop < f.hop /\ p \in processed' /\ p.current \in f.path
                      /\ p.current # f.current
    OBVIOUS
  <2>1. SameChain(p, m)
    BY <1>3, SameChainIsEquivalence
  <2>2. p.hop \in Nat /\ p.current \in p.path
    BY DEF WireInv, WireTypes, Probe, ProbeOK
  <2>3. CASE p = m
    BY <1>1, <1>3, <1>5, <2>2, <2>3
  <2>4. CASE p # m
    <3>1. p.hop < m.hop /\ p \in processed
      BY <1>6, <2>1, <2>4
    <3>2. p.current \in m.path
      BY <2>1, <3>1 DEF WireInv, OneFront
    <3> QED
      BY <1>1, <1>3, <1>5, <2>2, <3>1, <3>2
  <2> QED
    BY <2>3, <2>4
<1>15. OneFront'
  <2> SUFFICES ASSUME NEW p \in probes', NEW q \in probes', SameChain(p, q)
               PROVE  /\ p.hop = q.hop => p = q
                      /\ p.hop < q.hop => /\ p \in processed'
                                          /\ p.current \in q.path /\ p.current # q.current
    BY DEF OneFront, SameChain
  <2>1. p.hop \in Nat /\ q.hop \in Nat
    BY <1>11 DEF WireTypes, Probe
  <2>2. CASE p \in probes /\ q \in probes
    BY <2>2 DEF WireInv, OneFront
  <2>3. CASE p = f /\ q = f
    BY <2>1, <2>3
  <2>4. CASE p \in probes /\ q = f
    BY <1>14, <2>1, <2>4
  <2>5. CASE p = f /\ q \in probes
    <3>1. SameChain(q, f)
      BY <2>5, SameChainIsEquivalence
    <3> QED
      BY <1>14, <2>1, <2>5, <3>1
  <2> QED
    BY <1>10, <2>2, <2>3, <2>4, <2>5
<1>16. \A r \in replies : ~SameChain(r, f) /\ ~SameChain(f, r)
  BY <1>3, <1>6, SameChainIsEquivalence
<1>17. AnswersOnTheTrail'
  BY <1>10, <1>16 DEF WireInv, AnswersOnTheTrail
<1>18. OneAnswer'
  BY <1>10 DEF WireInv, OneAnswer
<1> QED
  BY <1>3, <1>9, <1>11, <1>12, <1>13, <1>15, <1>17, <1>18 DEF WireInv, f

\* The node an answer is sent to is the one its probe came from.
LEMMA AnswerGoesBack ==
  ASSUME WireInv, NEW m \in probes
  PROVE  Neighbour(m.to, Opposite(m.dir)) = m.current
<1>1. m.current \in Node /\ m.dir \in Dir /\ RingOK /\ m.to = Neighbour(m.current, m.dir)
  BY DEF WireInv, WireTypes, Probe, ProbeOK
<1> QED
  BY <1>1, NeighbourFacts

\* Turning a probe back, or rejecting it.
LEMMA WireAnswerProbe ==
  ASSUME WireInv, NEW m \in probes \ processed, NEW success \in BOOLEAN,
         UNCHANGED <<ring, probes>>, processed' = processed \cup {m},
         replies' = replies \cup {Answer(m, success)}
  PROVE  /\ WireInv' /\ Answer(m, success) \notin processed'
         /\ SameChain(Answer(m, success), m)
<1> DEFINE a == Answer(m, success)
<1>1. m \in Probe /\ RingOK
  BY DEF WireInv, WireTypes
<1>2. a \in Reply
  BY <1>1, AnswerIsReply
<1>3. a.to = m.current /\ SameChain(a, m)
  BY AnswerGoesBack DEF Answer, SameChain
<1>4. SameChain(m, a)
  BY <1>3, SameChainIsEquivalence
<1>5. /\ \A p \in probes : SameChain(p, m) /\ p # m => p \in processed
      /\ \A r \in replies : ~SameChain(r, m)
  BY FrontOfChain
<1> HIDE DEF a
<1>6. a \notin replies /\ a \notin probes
  BY <1>2, <1>3, <1>5, ProbesAreNoReplies DEF WireInv, WireTypes
<1>7. a \notin processed'
  BY <1>6 DEF WireInv, WireTypes
<1>8. replies' = replies \cup {a}
  BY DEF a
<1>9. RingOK' /\ \A p \in probes' : ProbeOK(p)'
  BY ProbeOKStays DEF WireInv
<1>10. WireTypes' /\ Trail' /\ OneFront'
  BY <1>2, <1>8 DEF WireInv, WireTypes, Trail, OneFront
<1>11. \A p \in probes : SameChain(p, a) => p \in processed'
  BY <1>3, <1>5, SameChainIsEquivalence
<1>12. AnswersOnTheTrail'
  BY <1>3, <1>4, <1>8, <1>11 DEF WireInv, AnswersOnTheTrail
<1>13. \A r \in replies : ~SameChain(r, a) /\ ~SameChain(a, r)
  BY <1>3, <1>5, SameChainIsEquivalence
<1>14. OneAnswer'
  BY <1>8, <1>13 DEF WireInv, OneAnswer
<1> QED
  BY <1>3, <1>7, <1>9, <1>10, <1>12, <1>14 DEF WireInv, a

\* Passing an answer on, one node nearer to the initiator.
LEMMA WirePassReply ==
  ASSUME WireInv, NEW m \in replies \ processed, m.initiator # m.to,
         UNCHANGED <<ring, probes>>, processed' = processed \cup {m},
         replies' = replies \cup {Answer(m, m.success)}
  PROVE  /\ WireInv' /\ Answer(m, m.success) \notin processed'
         /\ SameChain(Answer(m, m.success), m)
<1> DEFINE a == Answer(m, m.success)
<1>1. m \in Reply /\ m.success \in BOOLEAN /\ m.to \in Node /\ m.dir \in Dir /\ RingOK
  BY DEF WireInv, WireTypes, Reply
<1>2. a \in Reply
  BY <1>1, AnswerIsReply
<1>3. /\ a.to = Neighbour(m.to, Opposite(m.dir)) /\ SameChain(a, m)
  BY DEF Answer, SameChain
<1>4. SameChain(m, a)
  BY <1>3, SameChainIsEquivalence
<1> HIDE DEF a
<1>5. PICK p \in probes : SameChain(p, m) /\ p.current = m.to
  BY DEF WireInv, AnswersOnTheTrail
<1>6. p.hop # 0
  BY <1>5 DEF WireInv, Trail, SameChain
<1>7. PICK q \in probes : SameChain(q, p) /\ q.hop = p.hop - 1 /\ q.to = p.current
  BY <1>6 DEF WireInv, Trail
<1>8. SameChain(q, m) /\ q.dir = m.dir
  BY <1>5, <1>7, SameChainIsEquivalence DEF SameChain
<1>9. q.current = a.to
  BY <1>3, <1>5, <1>7, <1>8, AnswerGoesBack
<1>10. /\ p.hop \in Nat /\ q.hop < p.hop
       /\ \A x \in probes : x.hop \in Nat
  <2>1. \A x \in probes : x.hop \in Nat
    BY DEF WireInv, WireTypes, Probe
  <2> QED
    BY <1>6, <1>7, <2>1
<1>11. \A x, y \in probes : SameChain(x, y) /\ x.current = y.current => x = y
  <2> SUFFICES ASSUME NEW x \in probes, NEW y \in probes, SameChain(x, y),
                      x.current = y.current
               PROVE  x = y
    OBVIOUS
  <2>1. SameChain(y, x)
    BY SameChainIsEquivalence
  <2>2. ~(x.hop < y.hop) /\ ~(y.hop < x.hop)
    BY <2>1 DEF WireInv, OneFront
  <2>3. x.hop = y.hop
    BY <1>10, <2>2
  <2> QED
    BY <2>3 DEF WireInv, OneFront
<1>12. \A s \in replies : SameChain(s, m) /\ s # m =>
         /\ s \in processed
         /\ \E y \in probes : SameChain(y, m) /\ y.current = s.to /\ q.hop < y.hop
  <2> SUFFICES ASSUME NEW s \in replies, SameChain(s, m), s # m
               PROVE  /\ s \in processed
                      /\ \E y \in probes : SameChain(y, m) /\ y.current = s.to
                                           /\ q.hop < y.hop
    OBVIOUS
  <2>1. SameChain(m, s)
    BY SameChainIsEquivalence
  <2>2. s \in processed
    BY <2>1 DEF WireInv, OneAnswer
  <2>3. PICK x \in probes, y \in probes :
          /\ SameChain(x, m) /\ SameChain(y, m)
          /\ x.current = m.to /\ y.current = s.to /\ x.hop < y.hop
    BY <2>1 DEF WireInv, OneAnswer
  <2>4. SameChain(x, p)
    BY <1>5, <2>3, SameChainIsEquivalence
  <2>5. x = p
    BY <1>5, <1>11, <2>3, <2>4
  <2> QED
    BY <1>10, <2>2, <2>3, <2>5
<1>13. \A s \in replies : SameChain(s, m) =>
         /\ s \in processed'
         /\ \E y \in probes : SameChain(y, m) /\ y.current = s.to /\ q.hop < y.hop
  BY <1>5, <1>10, <1>12
<1>14. a \notin replies /\ a \notin probes
  <2>1. ASSUME a \in replies PROVE FALSE
    <3>1. PICK y \in probes : SameChain(y, m) /\ y.current = a.to /\ q.hop < y.hop
      BY <1>3, <1>13, <2>1
    <3>2. SameChain(y, q)
      BY <1>8, <3>1, SameChainIsEquivalence
    <3>3. y = q
      BY <1>9, <1>11, <3>1, <3>2
    <3> QED
      BY <1>10, <3>1, <3>3
  <2> QED
    BY <1>2, <2>1, ProbesAreNoReplies DEF WireInv, WireTypes
<1>15. a # m /\ a \notin processed'
  BY <1>14 DEF WireInv, WireTypes
<1>16. replies' = replies \cup {a}
  BY DEF a
<1>17. RingOK' /\ \A x \in probes' : ProbeOK(x)'
  BY ProbeOKStays DEF WireInv
<1>18. WireTypes' /\ Trail' /\ OneFront'
  BY <1>2, <1>16 DEF WireInv, WireTypes, Trail, OneFront
<1>19. SameChain(q, a)
  BY <1>4, <1>8, SameChainIsEquivalence
<1>20. \A x \in probes : SameChain(x, a) => x \in processed
  BY <1>3, SameChainIsEquivalence DEF WireInv, AnswersOnTheTrail
<1>21. AnswersOnTheTrail'
  BY <1>9, <1>16, <1>19, <1>20 DEF WireInv, AnswersOnTheTrail
<1>22. OneAnswer'
  <2> SUFFICES ASSUME NEW r \in replies' \ processed', NEW s \in replies',
                      SameChain(r, s), r # s
               PROVE  /\ s \in processed'
                      /\ \E x, y \in probes :
                           /\ SameChain(x, r) /\ SameChain(y, r)
                           /\ x.current = r.to /\ y.current = s.to /\ x.hop < y.hop
    BY DEF OneAnswer, SameChain
  <2>1. CASE r \in replies /\ s \in replies
    BY <2>1 DEF WireInv, OneAnswer
  <2>2. CASE r = a /\ s \in replies
    <3>1. SameChain(s, m)
      BY <1>4, <2>2, SameChainIsEquivalence, <1>3
    <3>2. PICK y \in probes : SameChain(y, m) /\ y.current = s.to /\ q.hop < y.hop
      BY <1>13, <2>2, <3>1
    <3>3. SameChain(y, a)
      BY <1>4, <3>2, SameChainIsEquivalence
    <3> QED
      BY <1>9, <1>13, <1>19, <2>2, <3>1, <3>2, <3>3
  <2>3. CASE r \in replies /\ s = a
    <3>1. SameChain(r, m)
      BY <1>3, <2>3, SameChainIsEquivalence
    <3> QED
      BY <1>13, <2>3, <3>1
  <2> QED
    BY <1>16, <2>1, <2>2, <2>3
<1> QED
  BY <1>3, <1>15, <1>17, <1>18, <1>21, <1>22 DEF WireInv, a

\* The probes of a new election, or of a new phase.
LEMMA WireNewProbes ==
  ASSUME WireInv, NEW n \in Node, NEW k \in Phase, NEW r \in Nat,
         \A x \in probes \cup replies :
           ~(x.initiator = n /\ x.round = r /\ x.phase = k),
         UNCHANGED <<ring, replies>>,
         processed \subseteq processed', processed' \subseteq probes \cup replies,
         probes' = probes \cup {NewProbe(n, k, d, r) : d \in Dir}
  PROVE  /\ WireInv'
         /\ \A d \in Dir : NewProbe(n, k, d, r) \in probes' \ processed'
<1> DEFINE new == {NewProbe(n, k, d, r) : d \in Dir}
<1>1. \A x \in new : x \in Probe /\ ProbeOK(x)
  BY NewProbeIsOK DEF WireInv
<1>2. \A x \in new : /\ x.hop = 0 /\ x.current = n /\ x.initiator = n
                     /\ x.round = r /\ x.phase = k
  BY DEF NewProbe
<1>3. \A x, y \in new : SameChain(x, y) => x = y
  BY DEF NewProbe, SameChain
<1> HIDE DEF new
<1>4. \A x \in new, y \in probes \cup replies : ~SameChain(x, y) /\ ~SameChain(y, x)
  BY <1>2 DEF SameChain
<1>5. probes' = probes \cup new
  BY DEF new
<1>6. \A x \in new : x \notin probes /\ x \notin replies
  BY <1>2
<1>7. RingOK' /\ \A x \in probes' : ProbeOK(x)'
  BY <1>1, <1>5, ProbeOKStays DEF WireInv
<1>8. WireTypes'
  BY <1>1, <1>5 DEF WireInv, WireTypes
<1>9. Trail'
  BY <1>2, <1>5 DEF WireInv, Trail
<1>10. OneFront'
  <2> SUFFICES ASSUME NEW p \in probes', NEW q \in probes', SameChain(p, q)
               PROVE  /\ p.hop = q.hop => p = q
                      /\ p.hop < q.hop => /\ p \in processed'
                                          /\ p.current \in q.path /\ p.current # q.current
    BY DEF OneFront, SameChain
  <2>1. CASE p \in probes /\ q \in probes
    BY <2>1 DEF WireInv, OneFront
  <2>2. CASE p \in new /\ q \in new
    BY <1>2, <1>3, <2>2
  <2> QED
    BY <1>4, <1>5, <2>1, <2>2
<1>11. AnswersOnTheTrail'
  BY <1>4, <1>5 DEF WireInv, AnswersOnTheTrail
<1>12. OneAnswer'
  BY <1>5 DEF WireInv, OneAnswer
<1>13. \A x \in new : x \in probes' \ processed'
  BY <1>5, <1>6
<1> QED
  BY <1>7, <1>8, <1>9, <1>10, <1>11, <1>12, <1>13 DEF WireInv, new

-----------------------------------------------------------------------------
(***************************************************************************)
(* What a step may do to the state of the candidates.                      *)
(***************************************************************************)
\* A node stops being a candidate, or hears from some of the directions it
\* waits for while the messages it still needs are kept, or replaced by their
\* successors in the chain.
Stops(n) ==
  /\ ~inProgress'[n]
  /\ participating'[n] => awaiting'[n] = {}

Hears(n) ==
  /\ inProgress'[n] = inProgress[n]
  /\ participating'[n] = participating[n]
  /\ awaiting'[n] \subseteq awaiting[n]
  /\ inProgress[n] => awaiting'[n] # {}
  /\ \A x \in (probes \cup replies) \ processed :
       x.initiator = n /\ <<x.phase, x.dir>> \in awaiting'[n] =>
         \E y \in (probes' \cup replies') \ processed' : SameChain(x, y)

LEMMA StateStep ==
  ASSUME StateInv, StateTypes', round' = round,
         \A x \in probes' \cup replies' :
           /\ x.initiator \in Node
           /\ \E y \in probes \cup replies : SameChain(x, y),
         \A n \in Node : Stops(n) \/ Hears(n)
  PROVE  StateInv'
<1>1. NotAhead'
  <2> SUFFICES ASSUME NEW x \in probes' \cup replies'
               PROVE  /\ x.round <= round[x.initiator]
                      /\ x.round = round[x.initiator] /\ inProgress'[x.initiator] =>
                           \A a \in awaiting'[x.initiator] : x.phase <= a[1]
    BY DEF NotAhead
  <2>1. PICK y \in probes \cup replies : SameChain(x, y)
    OBVIOUS
  <2>2. /\ y.round <= round[y.initiator]
        /\ y.round = round[y.initiator] /\ inProgress[y.initiator] =>
             \A a \in awaiting[y.initiator] : y.phase <= a[1]
    BY DEF StateInv, NotAhead
  <2>3. x.initiator \in Node /\ (Stops(x.initiator) \/ Hears(x.initiator))
    OBVIOUS
  <2> QED
    BY <2>1, <2>2, <2>3 DEF SameChain, Stops, Hears
<1>2. OnePhase'
  BY DEF StateInv, OnePhase, Stops, Hears
<1>3. GivenUpWaitsForNothing'
  BY DEF StateInv, GivenUpWaitsForNothing, Stops, Hears
<1>4. CandidateWaitsForSomething'
  <2> SUFFICES ASSUME NEW n \in Node, inProgress'[n]
               PROVE  /\ participating'[n]
                      /\ awaiting'[n] # {}
                      /\ \A a \in awaiting'[n] :
                           \E m \in (probes' \cup replies') \ processed' :
                             m.initiator = n /\ <<m.phase, m.dir>> = a
    BY DEF CandidateWaitsForSomething
  <2>1. Hears(n)
    BY DEF Stops
  <2>2. inProgress[n] /\ participating[n]
    BY <2>1 DEF Hears, StateInv, CandidateWaitsForSomething
  <2>3. ASSUME NEW a \in awaiting'[n]
        PROVE  \E m \in (probes' \cup replies') \ processed' :
                 m.initiator = n /\ <<m.phase, m.dir>> = a
    <3>1. PICK x \in (probes \cup replies) \ processed :
            x.initiator = n /\ <<x.phase, x.dir>> = a
      BY <2>1, <2>2, <2>3 DEF Hears, StateInv, CandidateWaitsForSomething
    <3>2. PICK y \in (probes' \cup replies') \ processed' : SameChain(x, y)
      BY <2>1, <2>3, <3>1 DEF Hears
    <3> QED
      BY <3>1, <3>2 DEF SameChain
  <2> QED
    BY <2>1, <2>2, <2>3 DEF Hears
<1> QED
  BY <1>1, <1>2, <1>3, <1>4 DEF StateInv

\* A phase begins: probes leave in both directions, and both are waited for.
LEMMA PhaseBegins ==
  ASSUME StateInv, NEW n \in Node, NEW k \in Phase, NEW r \in Nat,
         round[n] <= r, round' = [round EXCEPT ![n] = r],
         \A x \in probes \cup replies :
           /\ x.initiator \in Node /\ x.round \in Nat
           /\ x.initiator = n /\ x.round = r => x.phase <= k,
         awaiting' = [awaiting EXCEPT ![n] = {k} \X Dir],
         participating' = [participating EXCEPT ![n] = TRUE],
         inProgress' = [inProgress EXCEPT ![n] = TRUE],
         probes' = probes \cup {NewProbe(n, k, d, r) : d \in Dir},
         replies' = replies,
         \A d \in Dir : NewProbe(n, k, d, r) \in probes' \ processed',
         \A x \in processed' : x \in processed \/ x.initiator = n
  PROVE  StateInv'
<1>1. /\ inProgress \in [Node -> BOOLEAN] /\ participating \in [Node -> BOOLEAN]
      /\ awaiting \in [Node -> SUBSET (Phase \X Dir)] /\ round \in [Node -> Nat]
  BY DEF StateInv, StateTypes
<1>2. \A x \in Node : /\ inProgress'[x] = IF x = n THEN TRUE ELSE inProgress[x]
                      /\ participating'[x] = IF x = n THEN TRUE ELSE participating[x]
                      /\ awaiting'[x] = IF x = n THEN {k} \X Dir ELSE awaiting[x]
                      /\ round'[x] = IF x = n THEN r ELSE round[x]
  BY <1>1
<1>3. (\A a \in {k} \X Dir : a[1] = k) /\ (\A a \in awaiting'[n] : a[1] = k)
  <2>1. \A a \in {k} \X Dir : a[1] = k
    OBVIOUS
  <2>2. awaiting'[n] = {k} \X Dir
    BY <1>2
  <2> QED
    BY ONLY <2>1, <2>2
<1>4. StateTypes'
  BY <1>1 DEF StateTypes
<1>5. NotAhead'
  <2> SUFFICES ASSUME NEW x \in probes' \cup replies'
               PROVE  /\ x.round <= round'[x.initiator]
                      /\ x.round = round'[x.initiator] /\ inProgress'[x.initiator] =>
                           \A a \in awaiting'[x.initiator] : x.phase <= a[1]
    BY DEF NotAhead
  <2>1. CASE x \in probes \cup replies
    <3>1. /\ x.round <= round[x.initiator]
          /\ x.round = round[x.initiator] /\ inProgress[x.initiator] =>
               \A a \in awaiting[x.initiator] : x.phase <= a[1]
      BY <2>1 DEF StateInv, NotAhead
    <3>2. CASE x.initiator = n
      <4>1. x.round <= r
        BY <1>1, <2>1, <3>1, <3>2
      <4>2. x.round = r => x.phase <= k
        BY <2>1, <3>2
      <4>3. round'[n] = r
        BY <1>2
      <4> QED
        BY ONLY <1>3, <3>2, <4>1, <4>2, <4>3
    <3>3. CASE x.initiator # n
      BY <1>2, <2>1, <3>1, <3>3
    <3> QED
      BY <3>2, <3>3
  <2>2. CASE x \notin probes \cup replies
    <3>1. x.initiator = n /\ x.round = r /\ x.phase = k
      BY <2>2 DEF NewProbe
    <3>2. k <= k /\ r <= r
      BY DEF Phase
    <3>3. round'[n] = r
      BY <1>2
    <3> QED
      BY ONLY <1>3, <3>1, <3>2, <3>3
  <2> QED
    BY <2>1, <2>2
<1>6. OnePhase'
  <2> SUFFICES ASSUME NEW x \in Node, inProgress'[x],
                      NEW a \in awaiting'[x], NEW b \in awaiting'[x]
               PROVE  a[1] = b[1]
    BY DEF OnePhase
  <2>1. CASE x = n
    <3>1. a \in {k} \X Dir /\ b \in {k} \X Dir
      BY <1>2, <2>1
    <3> QED
      BY <1>3, <3>1
  <2>2. CASE x # n
    BY <1>2, <2>2 DEF StateInv, OnePhase
  <2> QED
    BY <2>1, <2>2
<1>7. GivenUpWaitsForNothing'
  BY <1>2 DEF StateInv, GivenUpWaitsForNothing
<1>8. CandidateWaitsForSomething'
  <2> SUFFICES ASSUME NEW x \in Node, inProgress'[x]
               PROVE  /\ participating'[x]
                      /\ awaiting'[x] # {}
                      /\ \A a \in awaiting'[x] :
                           \E m \in (probes' \cup replies') \ processed' :
                             m.initiator = x /\ <<m.phase, m.dir>> = a
    BY DEF CandidateWaitsForSomething
  <2>1. CASE x = n
    <3>1. \A a \in {k} \X Dir : \E d \in Dir : a = <<k, d>>
      OBVIOUS
    <3>2. \A d \in Dir :
            /\ NewProbe(n, k, d, r) \in (probes' \cup replies') \ processed'
            /\ NewProbe(n, k, d, r).initiator = n
            /\ <<NewProbe(n, k, d, r).phase, NewProbe(n, k, d, r).dir>> = <<k, d>>
      BY DEF NewProbe
    <3>3. {k} \X Dir # {}
      <4>1. <<k, "CLOCKWISE">> \in {k} \X Dir
        BY DEF Dir
      <4> QED
        BY <4>1
    <3>4. awaiting'[x] = {k} \X Dir /\ participating'[x]
      BY <1>2, <2>1
    <3>5. ASSUME NEW a \in {k} \X Dir
          PROVE  \E m \in (probes' \cup replies') \ processed' :
                   m.initiator = n /\ <<m.phase, m.dir>> = a
      <4>1. PICK d \in Dir : a = <<k, d>>
        BY <3>1
      <4> QED
        BY <3>2, <4>1
    <3> QED
      BY <2>1, <3>3, <3>4, <3>5
  <2>2. CASE x # n
    <3>1. /\ inProgress[x] /\ participating'[x] = participating[x]
          /\ awaiting'[x] = awaiting[x]
      BY <1>2, <2>2
    <3>2. \A m \in (probes \cup replies) \ processed :
            m.initiator = x => m \in (probes' \cup replies') \ processed'
      BY <2>2
    <3> QED
      BY <3>1, <3>2 DEF StateInv, CandidateWaitsForSomething
  <2> QED
    BY <2>1, <2>2
<1> QED
  BY <1>4, <1>5, <1>6, <1>7, <1>8 DEF StateInv

-----------------------------------------------------------------------------
(***************************************************************************)
(* The invariant is inductive: one lemma per kind of step.                 *)
(***************************************************************************)
LEMMA MessageTypes ==
  ASSUME WireInv, NEW x \in probes \cup replies
  PROVE  /\ x.to \in Node /\ x.initiator \in Node /\ x.round \in Nat
         /\ x.phase \in Phase /\ x.dir \in Dir
         /\ SameChain(x, x)
BY DEF WireInv, WireTypes, Probe, Reply, SameChain

LEMMA NeighboursStay ==
  ASSUME NeighboursKnown, UNCHANGED ring
  PROVE  NeighboursKnown'
BY DEF NeighboursKnown, ring

LEMMA InitWaitInv ==
  ASSUME Init
  PROVE  WaitInv
<1>1. IsRing(succ, pred)
  BY RingsAreRings DEF Init
<1>2. NeighboursKnown
  BY <1>1 DEF Init, IsRing, NeighboursKnown
<1>3. WireInv
  BY <1>1 DEF Init, WireInv, RingOK, WireTypes, Trail, OneFront, AnswersOnTheTrail, OneAnswer
<1>4. StateTypes
  BY BoundsAreNat DEF Init, StateTypes
<1>5. StateInv
  BY <1>4 DEF Init, StateInv, NotAhead, OnePhase, GivenUpWaitsForNothing,
              CandidateWaitsForSomething
<1> QED
  BY <1>2, <1>3, <1>5 DEF WaitInv

\* Nothing is received, and no node's candidacy changes but for ending.
LEMMA QuietStep ==
  ASSUME WaitInv, UNCHANGED <<ring, round, awaiting, probes, replies, processed>>,
         inProgress' \in [Node -> BOOLEAN], participating' \in [Node -> BOOLEAN],
         \A n \in Node :
           \/ inProgress'[n] = inProgress[n] /\ participating'[n] = participating[n]
           \/ ~inProgress'[n] /\ ~participating'[n]
  PROVE  WaitInv'
<1>1. WireInv' /\ NeighboursKnown'
  BY WireReceive, NeighboursStay DEF WaitInv, WireInv, WireTypes
<1>2. StateTypes'
  BY DEF WaitInv, StateInv, StateTypes
<1>3. \A x \in probes' \cup replies' :
        x.initiator \in Node /\ \E y \in probes \cup replies : SameChain(x, y)
  BY MessageTypes DEF WaitInv
<1>4. \A n \in Node : inProgress[n] => awaiting[n] # {}
  BY DEF WaitInv, StateInv, CandidateWaitsForSomething
<1>5. \A n \in Node : Stops(n) \/ Hears(n)
  BY <1>4, MessageTypes DEF Stops, Hears, WaitInv
<1>6. StateInv'
  BY <1>2, <1>3, <1>5, StateStep DEF WaitInv
<1> QED
  BY <1>1, <1>6 DEF WaitInv

\* A message is sent on, or back: somebody still carries its chain.
LEMMA SentOn ==
  ASSUME WaitInv, UNCHANGED <<ring, round, awaiting>>,
         inProgress' \in [Node -> BOOLEAN], participating' \in [Node -> BOOLEAN],
         \A n \in Node :
           \/ inProgress'[n] = inProgress[n] /\ participating'[n] = participating[n]
           \/ ~inProgress'[n] /\ ~participating'[n],
         NEW m \in (probes \cup replies) \ processed, NEW f,
         WireInv', f \notin processed', SameChain(f, m),
         processed' = processed \cup {m},
         probes' \cup replies' = probes \cup replies \cup {f}
  PROVE  WaitInv'
<1>1. NeighboursKnown'
  BY NeighboursStay DEF WaitInv
<1>2. StateTypes'
  BY DEF WaitInv, StateInv, StateTypes
<1>3. \A x \in probes' \cup replies' :
        x.initiator \in Node /\ \E y \in probes \cup replies : SameChain(x, y)
  BY MessageTypes DEF WaitInv, SameChain
<1>4. \A x \in (probes \cup replies) \ processed :
        \E y \in (probes' \cup replies') \ processed' : SameChain(x, y)
  <2> SUFFICES ASSUME NEW x \in (probes \cup replies) \ processed
               PROVE  \E y \in (probes' \cup replies') \ processed' : SameChain(x, y)
    OBVIOUS
  <2>1. CASE x = m
    BY <2>1, SameChainIsEquivalence
  <2>2. CASE x # m
    <3>1. SameChain(x, x)
      BY MessageTypes DEF WaitInv
    <3> QED
      BY <2>2, <3>1
  <2> QED
    BY <2>1, <2>2
<1>5. \A n \in Node : inProgress[n] => awaiting[n] # {}
  BY DEF WaitInv, StateInv, CandidateWaitsForSomething
<1>6. \A n \in Node : Stops(n) \/ Hears(n)
  BY <1>4, <1>5 DEF Stops, Hears
<1>7. StateInv'
  BY <1>2, <1>3, <1>6, StateStep DEF WaitInv
<1> QED
  BY <1>1, <1>7 DEF WaitInv

\* The initiator receives what it waits for, or does not.
LEMMA ReceivedAtHome ==
  ASSUME WaitInv, UNCHANGED <<ring, round, probes, replies>>,
         NEW m \in (probes \cup replies) \ processed, m.initiator = m.to,
         processed' = processed \cup {m}, StateTypes',
         \A n \in Node : n # m.to =>
           /\ inProgress'[n] = inProgress[n]
           /\ participating'[n] = participating[n]
           /\ awaiting'[n] = awaiting[n],
         \/ Stops(m.to)
         \/ /\ inProgress'[m.to] = inProgress[m.to]
            /\ participating'[m.to] = participating[m.to]
            /\ awaiting'[m.to] = Remaining(m.to, m)
            /\ inProgress[m.to] => Remaining(m.to, m) # {}
         \/ /\ ~participating[m.to]
            /\ inProgress'[m.to] = inProgress[m.to]
            /\ participating'[m.to] = participating[m.to]
            /\ awaiting'[m.to] = awaiting[m.to]
  PROVE  WaitInv'
<1>1. WireInv' /\ NeighboursKnown'
  BY WireReceive, NeighboursStay DEF WaitInv, WireInv, WireTypes
<1>2. \A x \in probes' \cup replies' :
        x.initiator \in Node /\ \E y \in probes \cup replies : SameChain(x, y)
  BY MessageTypes DEF WaitInv
<1>3. \A n \in Node : inProgress[n] => participating[n] /\ awaiting[n] # {}
  BY DEF WaitInv, StateInv, CandidateWaitsForSomething
<1>4. ASSUME NEW n \in Node
      PROVE  Stops(n) \/ Hears(n)
  <2>1. \A x \in (probes \cup replies) \ processed :
          /\ SameChain(x, x)
          /\ x # m => x \in (probes' \cup replies') \ processed'
    BY MessageTypes DEF WaitInv
  <2>2. CASE n # m.to
    <3>1. \A x \in (probes \cup replies) \ processed : x.initiator = n => x # m
      BY <2>2
    <3> QED
      BY <1>3, <2>1, <2>2, <3>1 DEF Hears
  <2>3. CASE n = m.to /\ ~Stops(m.to) /\ ~participating[m.to]
    BY <1>3, <2>3 DEF Stops
  <2>4. CASE n = m.to /\ ~Stops(m.to) /\ participating[m.to]
    <3>1. \A x \in (probes \cup replies) \ processed :
            <<x.phase, x.dir>> \in Remaining(m.to, m) => x # m
      BY DEF Remaining
    <3>2. Remaining(m.to, m) \subseteq awaiting[m.to]
      BY DEF Remaining
    <3> QED
      BY <2>1, <2>4, <3>1, <3>2 DEF Hears
  <2> QED
    BY <2>2, <2>3, <2>4
<1>5. StateInv'
  BY <1>2, <1>4, StateStep DEF WaitInv
<1> QED
  BY <1>1, <1>5 DEF WaitInv

\* A node that marks an answer it waits for is a candidate, whose other
\* outstanding answers are of the same phase.
LEMMA MarkingNode ==
  ASSUME WaitInv, NEW m \in probes \cup replies, m.initiator = m.to,
         participating[m.to], <<m.phase, m.dir>> \in awaiting[m.to]
  PROVE  /\ inProgress[m.to]
         /\ \A a \in awaiting[m.to] : a[1] = m.phase
         /\ LastAnswer(m.to, m) => Remaining(m.to, m) = {}
         /\ \A x \in probes \cup replies :
              x.initiator = m.to /\ x.round = round[m.to] => x.phase <= m.phase
<1>1. m.to \in Node
  BY MessageTypes DEF WaitInv
<1>2. inProgress[m.to]
  BY <1>1 DEF WaitInv, StateInv, GivenUpWaitsForNothing
<1>3. <<m.phase, m.dir>>[1] = m.phase
  OBVIOUS
<1>4. \A a \in awaiting[m.to] : a[1] = m.phase
  BY <1>1, <1>2, <1>3 DEF WaitInv, StateInv, OnePhase
<1>5. ASSUME LastAnswer(m.to, m), NEW a \in Remaining(m.to, m) PROVE FALSE
  <2>1. a \in awaiting[m.to] /\ awaiting[m.to] \in SUBSET (Phase \X Dir)
    BY <1>1, <1>5 DEF Remaining, WaitInv, StateInv, StateTypes
  <2>2. PICK k \in Phase, d \in Dir : a = <<k, d>>
    BY <2>1
  <2>3. k = m.phase
    BY <1>4, <2>1, <2>2
  <2> QED
    BY <1>5, <2>2, <2>3 DEF LastAnswer
<1>6. \A x \in probes \cup replies :
        x.initiator = m.to /\ x.round = round[m.to] => x.phase <= m.phase
  BY <1>2, <1>3 DEF WaitInv, StateInv, NotAhead
<1> QED
  BY <1>2, <1>4, <1>5, <1>6

LEMMA RunPhaseKeepsWait ==
  ASSUME WaitInv, NEW n \in Node, NEW k \in Phase, NEW r \in Nat,
         RunPhase(n, k, {}, r), k = 0 \/ (participating[n] /\ inProgress[n]),
         round[n] <= r, round' = [round EXCEPT ![n] = r],
         \A x \in probes \cup replies :
           x.initiator = n /\ x.round = r => x.phase < k,
         UNCHANGED <<ring, replies>>,
         processed \subseteq processed', processed' \subseteq probes \cup replies,
         \A x \in processed' : x \in processed \/ x.initiator = n
  PROVE  WaitInv'
<1>1. Reach(n) = Dir /\ Dir # {}
  BY NothingDropped DEF WaitInv, Dir
<1>2. /\ inProgress \in [Node -> BOOLEAN] /\ participating \in [Node -> BOOLEAN]
      /\ awaiting \in [Node -> SUBSET (Phase \X Dir)] /\ round \in [Node -> Nat]
  BY DEF WaitInv, StateInv, StateTypes
<1>3. /\ awaiting' = [awaiting EXCEPT ![n] = {k} \X Dir]
      /\ probes' = probes \cup {NewProbe(n, k, d, r) : d \in Dir}
  BY <1>1 DEF RunPhase
<1>4. participating' = [participating EXCEPT ![n] = TRUE]
  BY <1>1, <1>2 DEF RunPhase
<1>5. inProgress' = [inProgress EXCEPT ![n] = TRUE]
  BY <1>1, <1>2 DEF RunPhase
<1>6. \A x \in probes \cup replies :
        /\ x.initiator \in Node /\ x.round \in Nat /\ x.phase \in Nat /\ k \in Nat
        /\ x.initiator = n /\ x.round = r => x.phase < k
  BY MessageTypes DEF WaitInv, Phase
<1>7. /\ \A x \in probes \cup replies :
           ~(x.initiator = n /\ x.round = r /\ x.phase = k)
      /\ \A x \in probes \cup replies :
           /\ x.initiator \in Node /\ x.round \in Nat
           /\ x.initiator = n /\ x.round = r => x.phase <= k
  BY <1>6
<1>8. /\ WireInv'
      /\ \A d \in Dir : NewProbe(n, k, d, r) \in probes' \ processed'
  BY <1>3, <1>7, WireNewProbes DEF WaitInv
<1>9. StateInv'
  BY <1>3, <1>4, <1>5, <1>7, <1>8, PhaseBegins DEF WaitInv
<1>10. NeighboursKnown'
  BY NeighboursStay DEF WaitInv
<1> QED
  BY <1>8, <1>9, <1>10 DEF WaitInv

LEMMA StartKeepsWait ==
  ASSUME WaitInv, NEW n \in Node, StartElection(n), UNCHANGED <<ring, replies, processed>>
  PROVE  WaitInv'
<1>1. round[n] \in Nat /\ round[n] + 1 \in Nat /\ round[n] <= round[n] + 1
  BY DEF WaitInv, StateInv, StateTypes
<1>2. 0 \in Phase
  BY BoundsAreNat DEF Phase
<1>3. ASSUME NEW x \in probes \cup replies, x.initiator = n
      PROVE  x.round # round[n] + 1
  <2>1. x.round <= round[n] /\ x.round \in Nat
    BY <1>3, MessageTypes DEF WaitInv, StateInv, NotAhead
  <2> QED
    BY <1>1, <2>1
<1>4. round' = [round EXCEPT ![n] = round[n] + 1]
  BY DEF StartElection
<1>5. RunPhase(n, 0, {}, round[n] + 1)
  BY DEF StartElection
<1>6. processed \subseteq probes \cup replies
  BY DEF WaitInv, WireInv, WireTypes
<1> DEFINE r == round[n] + 1
<1>7. /\ r \in Nat /\ round[n] <= r /\ round' = [round EXCEPT ![n] = r]
      /\ RunPhase(n, 0, {}, r)
      /\ \A x \in probes \cup replies : x.initiator = n /\ x.round = r => x.phase < 0
      /\ processed \subseteq processed' /\ processed' \subseteq probes \cup replies
      /\ \A x \in processed' : x \in processed \/ x.initiator = n
      /\ UNCHANGED <<ring, replies>>
  BY <1>1, <1>3, <1>4, <1>5, <1>6
<1> HIDE DEF r
<1> QED
  BY <1>2, <1>7, RunPhaseKeepsWait

LEMMA TickKeepsWait ==
  ASSUME WaitInv, NEW n \in Node, UserElect(n) \/ Tick(n)
  PROVE  WaitInv'
<1>1. UNCHANGED <<ring, replies, processed>>
  BY DEF UserElect, Tick, RunScheduled, AutoStart, SendHeartbeat, wire
<1>2. CASE StartElection(n)
  BY <1>1, <1>2, StartKeepsWait
<1>3. CASE UNCHANGED <<state, round, probes>>
  <2>1. inProgress' = inProgress /\ participating' = participating /\ awaiting' = awaiting
        /\ round' = round /\ probes' = probes
    BY <1>3 DEF state
  <2>2. inProgress' \in [Node -> BOOLEAN] /\ participating' \in [Node -> BOOLEAN]
    BY <2>1 DEF WaitInv, StateInv, StateTypes
  <2> QED
    BY <1>1, <2>1, <2>2, QuietStep
<1> QED
  BY <1>2, <1>3 DEF UserElect, Tick, RunScheduled, AutoStart, SendHeartbeat, wire

\* Yielding to a larger initiator ends a candidacy, or changes nothing.
LEMMA YieldEndsCandidacy ==
  ASSUME StateInv, NEW n \in Node, Yield(n)
  PROVE  /\ awaiting' = awaiting
         /\ inProgress' \in [Node -> BOOLEAN] /\ participating' \in [Node -> BOOLEAN]
         /\ \A x \in Node :
              \/ inProgress'[x] = inProgress[x] /\ participating'[x] = participating[x]
              \/ ~inProgress'[x] /\ ~participating'[x]
<1>1. inProgress \in [Node -> BOOLEAN] /\ participating \in [Node -> BOOLEAN]
  BY DEF StateInv, StateTypes
<1>2. CASE Retire(n)
  BY <1>1, <1>2 DEF Retire
<1>3. CASE UNCHANGED state
  BY <1>1, <1>3 DEF state
<1> QED
  BY <1>2, <1>3 DEF Yield

LEMMA ProbeKeepsWait ==
  ASSUME WaitInv, NEW m \in probes, HandleProbe(m)
  PROVE  WaitInv'
<1>1. /\ m.to \in Node /\ m.to \in Nat /\ m.initiator \in Node /\ m.initiator \in Nat
      /\ m.dir \in Dir /\ WireInv /\ StateInv /\ NeighboursKnown
  BY NodesAreOrdered, MessageTypes DEF WaitInv
<1>2. UNCHANGED <<ring, round>> /\ processed' = processed \cup {m} /\ m \in probes \ processed
  BY DEF HandleProbe, OwnReturnMarked, OwnReturnWins, RejectProbe, TurnBack,
         ForwardProbe, ReceiveProbe
<1>3. /\ inProgress \in [Node -> BOOLEAN] /\ participating \in [Node -> BOOLEAN]
      /\ awaiting \in [Node -> SUBSET (Phase \X Dir)] /\ round \in [Node -> Nat]
      /\ Remaining(m.to, m) \in SUBSET (Phase \X Dir)
  BY <1>1 DEF StateInv, StateTypes, Remaining
<1>4. CASE OwnReturnMarked(m)
  <2>1. /\ UNCHANGED <<inProgress, participating, probes, replies>> /\ m.initiator = m.to
        /\ ~(participating[m.to] /\ LastAnswer(m.to, m))
        /\ awaiting' = IF participating[m.to]
                       THEN [awaiting EXCEPT ![m.to] = Remaining(m.to, m)] ELSE awaiting
    BY <1>4 DEF OwnReturnMarked, wire
  <2>2. StateTypes'
    BY <1>2, <1>3, <2>1 DEF StateTypes
  <2>3. CASE ~participating[m.to]
    BY <1>2, <2>1, <2>2, <2>3, ReceivedAtHome
  <2>4. CASE participating[m.to]
    <3>1. inProgress[m.to] => Remaining(m.to, m) # {}
      <4>1. CASE <<m.phase, m.dir>> \in awaiting[m.to]
        BY <2>1, <2>4, <4>1 DEF LastAnswer
      <4>2. CASE <<m.phase, m.dir>> \notin awaiting[m.to]
        BY <1>1, <4>2 DEF Remaining, StateInv, CandidateWaitsForSomething
      <4> QED
        BY <4>1, <4>2
    <3>2. /\ awaiting'[m.to] = Remaining(m.to, m)
          /\ \A n \in Node : n # m.to => awaiting'[n] = awaiting[n]
      BY <1>1, <1>3, <2>1, <2>4
    <3> QED
      BY <1>2, <2>1, <2>2, <3>1, <3>2, ReceivedAtHome
  <2> QED
    BY <2>3, <2>4
<1>5. CASE OwnReturnWins(m)
  <2>1. /\ UNCHANGED <<probes, replies>> /\ m.initiator = m.to
        /\ awaiting' = [awaiting EXCEPT ![m.to] = Remaining(m.to, m)]
        /\ participating' = [participating EXCEPT ![m.to] = FALSE]
        /\ inProgress' = [inProgress EXCEPT ![m.to] = FALSE]
    BY <1>5 DEF OwnReturnWins, Announce
  <2>2. StateTypes'
    BY <1>2, <1>3, <2>1 DEF StateTypes
  <2>3. Stops(m.to) /\ \A n \in Node : n # m.to =>
          /\ inProgress'[n] = inProgress[n]
          /\ participating'[n] = participating[n]
          /\ awaiting'[n] = awaiting[n]
    BY <1>1, <1>3, <2>1 DEF Stops
  <2> QED
    BY <1>2, <2>1, <2>2, <2>3, ReceivedAtHome
<1>6. CASE RejectProbe(m)
  <2>1. /\ inProgress' = inProgress /\ participating' = participating
        /\ awaiting' = awaiting /\ probes' = probes
        /\ replies' = replies \cup {Answer(m, FALSE)}
    BY <1>1, <1>6, NothingDropped DEF RejectProbe, Answer, state
  <2>2. /\ WireInv' /\ Answer(m, FALSE) \notin processed'
        /\ SameChain(Answer(m, FALSE), m)
    BY <1>1, <1>2, <2>1, WireAnswerProbe
  <2> QED
    BY <1>2, <1>3, <2>1, <2>2, SentOn
<1>7. CASE TurnBack(m)
  <2>1. Yield(m.to) /\ probes' = probes /\ replies' = replies \cup {Answer(m, TRUE)}
    BY <1>1, <1>7, NothingDropped DEF TurnBack, Answer
  <2>2. /\ WireInv' /\ Answer(m, TRUE) \notin processed'
        /\ SameChain(Answer(m, TRUE), m)
    BY <1>1, <1>2, <2>1, WireAnswerProbe
  <2>3. /\ awaiting' = awaiting
        /\ inProgress' \in [Node -> BOOLEAN] /\ participating' \in [Node -> BOOLEAN]
        /\ \A n \in Node :
             \/ inProgress'[n] = inProgress[n] /\ participating'[n] = participating[n]
             \/ ~inProgress'[n] /\ ~participating'[n]
    BY <1>1, <2>1, YieldEndsCandidacy
  <2> QED
    BY <1>2, <2>1, <2>2, <2>3, SentOn
<1>8. CASE ForwardProbe(m)
  <2>1. /\ Yield(m.to) /\ m.initiator > m.to
        /\ replies' = replies /\ probes' = probes \cup {Forwarded(m)}
    BY <1>1, <1>8, NothingDropped DEF ForwardProbe, Forwarded
  <2>2. WireInv' /\ Forwarded(m) \notin processed' /\ SameChain(Forwarded(m), m)
    BY <1>1, <1>2, <2>1, WireForward
  <2>3. /\ awaiting' = awaiting
        /\ inProgress' \in [Node -> BOOLEAN] /\ participating' \in [Node -> BOOLEAN]
        /\ \A n \in Node :
             \/ inProgress'[n] = inProgress[n] /\ participating'[n] = participating[n]
             \/ ~inProgress'[n] /\ ~participating'[n]
    BY <1>1, <2>1, YieldEndsCandidacy
  <2> QED
    BY <1>2, <2>1, <2>2, <2>3, SentOn
<1> QED
  BY <1>4, <1>5, <1>6, <1>7, <1>8 DEF HandleProbe

LEMMA ReplyKeepsWait ==
  ASSUME WaitInv, NEW m \in replies, HandleReply(m)
  PROVE  WaitInv'
<1>1. /\ m.to \in Node /\ m.dir \in Dir /\ m.phase \in Phase
      /\ WireInv /\ StateInv /\ NeighboursKnown
  BY MessageTypes DEF WaitInv
<1>2. UNCHANGED <<ring, round>> /\ processed' = processed \cup {m} /\ m \in replies \ processed
  BY DEF HandleReply, ForwardReply, ReplyIgnored, ReplyRejects, ReplyMarked, ReplyWins,
         ReplyNextPhase, ReplyMaxPhase, ReplyCounts, ReceiveOwnReply, ReceiveReply
<1>3. /\ inProgress \in [Node -> BOOLEAN] /\ participating \in [Node -> BOOLEAN]
      /\ awaiting \in [Node -> SUBSET (Phase \X Dir)] /\ round \in [Node -> Nat]
      /\ Remaining(m.to, m) \in SUBSET (Phase \X Dir)
  BY <1>1 DEF StateInv, StateTypes, Remaining
<1>4. CASE ForwardReply(m)
  <2>1. /\ inProgress' = inProgress /\ participating' = participating
        /\ awaiting' = awaiting /\ probes' = probes /\ m.initiator # m.to
        /\ replies' = replies \cup {Answer(m, m.success)}
    BY <1>1, <1>4, NothingDropped DEF ForwardReply, Answer, state
  <2>2. /\ WireInv' /\ Answer(m, m.success) \notin processed'
        /\ SameChain(Answer(m, m.success), m)
    BY <1>1, <1>2, <2>1, WirePassReply
  <2> QED
    BY <1>2, <1>3, <2>1, <2>2, SentOn
<1>5. ASSUME m.initiator = m.to, UNCHANGED <<probes, replies>>, StateTypes',
             Stops(m.to), \A n \in Node : n # m.to =>
               /\ inProgress'[n] = inProgress[n]
               /\ participating'[n] = participating[n]
               /\ awaiting'[n] = awaiting[n]
      PROVE  WaitInv'
  BY <1>2, <1>5, ReceivedAtHome
<1>6. CASE ReplyIgnored(m)
  <2>1. /\ UNCHANGED <<inProgress, participating, awaiting, probes, replies>>
        /\ m.initiator = m.to /\ ~participating[m.to]
    BY <1>6 DEF ReplyIgnored, ReceiveOwnReply, state
  <2>2. StateTypes'
    BY <1>2, <1>3, <2>1 DEF StateTypes
  <2> QED
    BY <1>2, <2>1, <2>2, ReceivedAtHome
<1>7. CASE ReplyRejects(m)
  <2>1. /\ UNCHANGED <<awaiting, probes, replies>> /\ m.initiator = m.to
        /\ participating' = [participating EXCEPT ![m.to] = FALSE]
        /\ inProgress' = [inProgress EXCEPT ![m.to] = FALSE]
    BY <1>7 DEF ReplyRejects, ReceiveOwnReply, Retire
  <2>2. StateTypes'
    BY <1>2, <1>3, <2>1 DEF StateTypes
  <2> QED
    BY <1>1, <1>3, <1>5, <2>1, <2>2 DEF Stops
<1>8. CASE ReplyMarked(m)
  <2>1. /\ UNCHANGED <<inProgress, participating, probes, replies>> /\ m.initiator = m.to
        /\ ~LastAnswer(m.to, m)
        /\ awaiting' = [awaiting EXCEPT ![m.to] = Remaining(m.to, m)]
    BY <1>8 DEF ReplyMarked, ReplyCounts, ReceiveOwnReply
  <2>2. StateTypes'
    BY <1>2, <1>3, <2>1 DEF StateTypes
  <2>3. inProgress[m.to] => Remaining(m.to, m) # {}
    <3>1. CASE <<m.phase, m.dir>> \in awaiting[m.to]
      BY <2>1, <3>1 DEF LastAnswer
    <3>2. CASE <<m.phase, m.dir>> \notin awaiting[m.to]
      BY <1>1, <3>2 DEF Remaining, StateInv, CandidateWaitsForSomething
    <3> QED
      BY <3>1, <3>2
  <2>4. /\ awaiting'[m.to] = Remaining(m.to, m)
        /\ \A n \in Node : n # m.to => awaiting'[n] = awaiting[n]
    BY <1>1, <1>3, <2>1
  <2> QED
    BY <1>2, <2>1, <2>2, <2>3, <2>4, ReceivedAtHome
<1>9. CASE ReplyWins(m)
  <2>1. /\ UNCHANGED <<probes, replies>> /\ m.initiator = m.to
        /\ awaiting' = [awaiting EXCEPT ![m.to] = Remaining(m.to, m)]
        /\ participating' = [participating EXCEPT ![m.to] = FALSE]
        /\ inProgress' = [inProgress EXCEPT ![m.to] = FALSE]
    BY <1>9 DEF ReplyWins, ReplyCounts, ReceiveOwnReply, Announce
  <2>2. StateTypes'
    BY <1>2, <1>3, <2>1 DEF StateTypes
  <2> QED
    BY <1>1, <1>3, <1>5, <2>1, <2>2 DEF Stops
<1>10. CASE ReplyNextPhase(m)
  <2>1. /\ m.initiator = m.to /\ participating[m.to] /\ LastAnswer(m.to, m)
        /\ m.phase < MaxPhase /\ replies' = replies
        /\ RunPhase(m.to, m.phase + 1, Remaining(m.to, m), round[m.to])
    BY <1>10 DEF ReplyNextPhase, ReplyCounts, ReceiveOwnReply
  <2>2. /\ inProgress[m.to] /\ Remaining(m.to, m) = {}
        /\ \A x \in probes \cup replies :
             x.initiator = m.to /\ x.round = round[m.to] => x.phase <= m.phase
    BY <2>1, MarkingNode DEF LastAnswer
  <2>3. m.phase + 1 \in Phase /\ round[m.to] \in Nat /\ round[m.to] <= round[m.to]
    BY <1>1, <1>3, <2>1, BoundsAreNat DEF Phase
  <2>4. round' = [round EXCEPT ![m.to] = round[m.to]]
    BY <1>2, <1>3
  <2>5. /\ processed \subseteq processed' /\ processed' \subseteq probes \cup replies
        /\ \A x \in processed' : x \in processed \/ x.initiator = m.to
    BY <1>1, <1>2, <2>1 DEF WireInv, WireTypes
  <2>6. \A x \in probes \cup replies :
          x.initiator = m.to /\ x.round = round[m.to] => x.phase < m.phase + 1
    <3>1. \A x \in probes \cup replies : x.phase \in Nat /\ m.phase \in Nat
      BY <1>1, MessageTypes DEF Phase
    <3> QED
      BY <2>2, <3>1
  <2> DEFINE n == m.to
             k == m.phase + 1
             r == round[m.to]
  <2>7. /\ n \in Node /\ k \in Phase /\ r \in Nat /\ RunPhase(n, k, {}, r)
        /\ participating[n] /\ inProgress[n]
        /\ round[n] <= r /\ round' = [round EXCEPT ![n] = r]
        /\ \A x \in probes \cup replies : x.initiator = n /\ x.round = r => x.phase < k
        /\ UNCHANGED <<ring, replies>>
        /\ processed \subseteq processed' /\ processed' \subseteq probes \cup replies
        /\ \A x \in processed' : x \in processed \/ x.initiator = n
    BY <1>1, <1>2, <2>1, <2>2, <2>3, <2>4, <2>5, <2>6
  <2> HIDE DEF n, k, r
  <2> QED
    BY <2>7, RunPhaseKeepsWait
<1>11. CASE ReplyMaxPhase(m)
  <2>1. /\ UNCHANGED <<participating, probes, replies>> /\ m.initiator = m.to
        /\ participating[m.to] /\ LastAnswer(m.to, m)
        /\ awaiting' = [awaiting EXCEPT ![m.to] = Remaining(m.to, m)]
        /\ inProgress' = [inProgress EXCEPT ![m.to] = FALSE]
    BY <1>11 DEF ReplyMaxPhase, ReplyCounts, ReceiveOwnReply, GiveUp
  <2>2. Remaining(m.to, m) = {}
    BY <2>1, MarkingNode DEF LastAnswer
  <2>3. StateTypes'
    BY <1>2, <1>3, <2>1 DEF StateTypes
  <2>4. Stops(m.to) /\ \A n \in Node : n # m.to =>
          /\ inProgress'[n] = inProgress[n]
          /\ participating'[n] = participating[n]
          /\ awaiting'[n] = awaiting[n]
    BY <1>1, <1>3, <2>1, <2>2 DEF Stops
  <2> QED
    BY <1>5, <2>1, <2>3, <2>4
<1> QED
  BY <1>4, <1>6, <1>7, <1>8, <1>9, <1>10, <1>11 DEF HandleReply

LEMMA ClaimKeepsWait ==
  ASSUME WaitInv, NEW m \in claims, HandleClaim(m)
  PROVE  WaitInv'
<1>1. UNCHANGED <<ring, round, awaiting, probes, replies, processed>>
  BY DEF HandleClaim, HandleAnnouncement, HandleHeartbeat, Retire, state, wire
<1>2. inProgress \in [Node -> BOOLEAN] /\ participating \in [Node -> BOOLEAN]
  BY DEF WaitInv, StateInv, StateTypes
<1>3. /\ inProgress' \in [Node -> BOOLEAN] /\ participating' \in [Node -> BOOLEAN]
      /\ \A n \in Node :
           \/ inProgress'[n] = inProgress[n] /\ participating'[n] = participating[n]
           \/ ~inProgress'[n] /\ ~participating'[n]
  <2>1. CASE HandleAnnouncement(m)
    BY <1>2, <2>1 DEF HandleAnnouncement, Retire
  <2>2. CASE HandleHeartbeat(m)
    BY <1>2, <2>2 DEF HandleHeartbeat, state
  <2> QED
    BY <2>1, <2>2 DEF HandleClaim
<1> QED
  BY <1>1, <1>3, QuietStep

\* A loss of a claim, or nothing at all.
LEMMA IdleKeepsWait ==
  ASSUME WaitInv, UNCHANGED <<ring, state, round, probes, replies, processed>>
  PROVE  WaitInv'
<1>1. inProgress' = inProgress /\ participating' = participating /\ awaiting' = awaiting
  BY DEF state
<1>2. inProgress' \in [Node -> BOOLEAN] /\ participating' \in [Node -> BOOLEAN]
  BY <1>1 DEF WaitInv, StateInv, StateTypes
<1> QED
  BY <1>1, <1>2, QuietStep

LEMMA NextWaitInv ==
  ASSUME Losable \cap {"ELECTION", "ELECTION_REPLY"} = {}, WaitInv, [Next]_vars
  PROVE  WaitInv'
<1>1. CASE \E n \in Node : UserElect(n) \/ Tick(n)
  BY <1>1, TickKeepsWait
<1>2. CASE Receive
  BY <1>2, ProbeKeepsWait, ReplyKeepsWait, ClaimKeepsWait DEF Receive
<1>3. CASE Lose
  BY <1>3, IdleKeepsWait DEF Lose
<1>4. CASE UNCHANGED vars
  BY <1>4, IdleKeepsWait DEF vars, wire
<1> QED
  BY <1>1, <1>2, <1>3, <1>4 DEF Next

-----------------------------------------------------------------------------
(***************************************************************************)
(* The theorem.  It holds of nodes that know only some of the others too:  *)
(* what a candidate waits for has nothing to do with how large it takes    *)
(* the ring to be.                                                         *)
(***************************************************************************)
\* Unless the network loses a probe or a reply, a candidate never waits for
\* nothing, in whatever ring, with however many elections behind it.
THEOREM CandidatesAreNotForgotten ==
  ASSUME Losable \cap {"ELECTION", "ELECTION_REPLY"} = {}
  PROVE  Spec => []CandidateWaitsForSomething
<1>1. Init => WaitInv
  BY InitWaitInv
<1>2. WaitInv /\ [Next]_vars => WaitInv'
  BY NextWaitInv
<1>3. WaitInv => CandidateWaitsForSomething
  BY DEF WaitInv, StateInv
<1> QED
  BY <1>1, <1>2, <1>3, PTL DEF Spec
=============================================================================
