-------------------------- MODULE HSElectionProofs --------------------------
(***************************************************************************)
(* LeaderIsHighest and what it rests on, for every ring, every number of   *)
(* concurrent elections and every interleaving, when each node knows all   *)
(* the others.                                                             *)
(***************************************************************************)
EXTENDS HSElection, FiniteSetTheorems, TLAPS

-----------------------------------------------------------------------------
(***************************************************************************)
(* The ring and the probes on it.                                          *)
(***************************************************************************)
\* The two directions undo each other.
LEMMA NeighbourFacts ==
  ASSUME RingOK, NEW n \in Node, NEW d \in Dir
  PROVE  /\ Neighbour(n, d) \in Node
         /\ Opposite(d) \in Dir
         /\ Neighbour(Neighbour(n, d), Opposite(d)) = n
         /\ Neighbour(n, d) # n
<1>1. d = "CLOCKWISE" \/ d = "COUNTER_CLOCKWISE"
  BY DEF Dir
<1>2. succ[n] \in Node /\ pred[n] \in Node /\ pred[succ[n]] = n /\ succ[pred[n]] = n
      /\ succ[n] # n
  BY DEF RingOK, IsRing
<1>3. pred[n] # n
  BY <1>2
<1>4. CASE d = "CLOCKWISE"
  BY <1>2, <1>4 DEF Neighbour, Opposite, Dir
<1>5. CASE d = "COUNTER_CLOCKWISE"
  BY <1>2, <1>3, <1>5 DEF Neighbour, Opposite, Dir
<1> QED
  BY <1>1, <1>4, <1>5

\* A set of nodes closed in either direction is the whole ring.
LEMMA ClosedIsAll ==
  ASSUME RingOK, NEW d \in Dir, NEW S \in SUBSET Node, S # {},
         \A x \in S : Neighbour(x, d) \in S
  PROVE  S = Node
<1>1. \A T \in SUBSET Node : T # {} /\ (\A x \in T : succ[x] \in T) => T = Node
  BY DEF RingOK, IsRing
<1>2. \A x \in Node : succ[x] \in Node /\ pred[succ[x]] = x
  BY DEF RingOK, IsRing
<1>3. CASE d = "CLOCKWISE"
  BY <1>1, <1>3 DEF Neighbour
<1>4. CASE d # "CLOCKWISE"
  <2>1. \A x \in S : pred[x] \in S
    BY <1>4 DEF Neighbour
  <2>2. \A x \in Node \ S : succ[x] \in Node \ S
    BY <1>2, <2>1
  <2> DEFINE T == Node \ S
  <2>3. T \in SUBSET Node /\ T # Node /\ \A x \in T : succ[x] \in T
    BY <2>2
  <2>4. T = {}
    BY <1>1, <2>3
  <2> QED
    BY <2>4
<1> QED
  BY <1>3, <1>4

\* A probe that is back at its initiator has met every node.
LEMMA ReturnedIsHighest ==
  ASSUME RingOK, NEW m \in Probe, ProbeOK(m), m.to = m.initiator
  PROVE  Highest(m.initiator)
<1>1. m.path \in SUBSET Node /\ m.dir \in Dir /\ m.initiator \in Node
  BY DEF Probe
<1>2. \A x \in m.path : Neighbour(x, m.dir) \in m.path
  BY DEF ProbeOK
<1>3. m.path = Node
  BY <1>1, <1>2, ClosedIsAll DEF ProbeOK
<1> QED
  BY <1>1, <1>3 DEF ProbeOK, Highest

\* A probe that reaches a node other than its initiator reaches a new one.
LEMMA ProbeMeetsNewNode ==
  ASSUME RingOK, NEW m \in Probe, ProbeOK(m), m.to # m.initiator
  PROVE  m.to \notin m.path
<1>1. m.current \in Node /\ m.dir \in Dir
  BY DEF Probe
<1>2. Neighbour(m.to, Opposite(m.dir)) = m.current
  BY <1>1, NeighbourFacts DEF ProbeOK
<1> QED
  BY <1>2 DEF ProbeOK

LEMMA PathIsFinite ==
  ASSUME NEW m \in Probe
  PROVE  IsFiniteSet(m.path) /\ m.path \subseteq Node /\ m.hop \in Nat
  BY NodesAreOrdered, FS_Subset DEF Probe

\* A probe of phase k turned by a smaller node has met at least 2 ** k of them.
LEMMA TurnedMetMany ==
  ASSUME RingOK, NEW m \in Probe, ProbeOK(m), m.initiator > m.to,
         m.hop >= m.maxHops
  PROVE  Cardinality({n \in Node : n < m.initiator}) >= MaxHops(m.phase)
<1> DEFINE smaller == {n \in Node : n < m.initiator}
           met == (m.path \ {m.initiator}) \cup {m.to}
<1>1. m.initiator \in Nat /\ m.to \in Node /\ m.to \in Nat /\ m.to # m.initiator
  <2>1. m.initiator \in Nat /\ m.to \in Node /\ m.to \in Nat
    BY NodesAreOrdered DEF Probe
  <2> QED
    BY <2>1
<1>2. m.to \notin m.path
  BY <1>1, ProbeMeetsNewNode
<1>3. IsFiniteSet(m.path \ {m.initiator}) /\ Cardinality(m.path \ {m.initiator}) = m.hop
  <2>1. Cardinality(m.path \ {m.initiator}) = Cardinality(m.path) - 1
    BY PathIsFinite, FS_RemoveElement DEF ProbeOK
  <2>2. Cardinality(m.path) = m.hop + 1 /\ m.hop \in Nat
    BY PathIsFinite DEF ProbeOK
  <2>3. IsFiniteSet(m.path \ {m.initiator})
    BY PathIsFinite, FS_RemoveElement
  <2> QED
    BY <2>1, <2>2, <2>3
<1>4. Cardinality(met) = m.hop + 1
  BY <1>2, <1>3, FS_AddElement
<1>5. met \subseteq smaller
  <2>1. \A x \in m.path : x \in Node /\ x \in Nat /\ x <= m.initiator
    BY PathIsFinite, NodesAreOrdered DEF ProbeOK
  <2> QED
    BY <1>1, <2>1
<1>6. IsFiniteSet(smaller)
  BY NodesAreOrdered, FS_Subset
<1>7. Cardinality(met) <= Cardinality(smaller) /\ Cardinality(smaller) \in Nat
  BY <1>5, <1>6, FS_Subset, FS_CardinalityType
<1>8. m.maxHops = MaxHops(m.phase) /\ m.maxHops \in Nat /\ m.hop \in Nat
  BY DEF ProbeOK, Probe
<1> HIDE DEF met, smaller
<1>9. Cardinality(smaller) >= MaxHops(m.phase)
  BY <1>4, <1>7, <1>8
<1> QED
  BY <1>9 DEF smaller

\* Sending a probe on extends its arc by one node.
LEMMA ForwardedIsOK ==
  ASSUME RingOK, NEW m \in Probe, ProbeOK(m), m.initiator > m.to
  PROVE  Forwarded(m) \in Probe /\ ProbeOK(Forwarded(m))
<1> DEFINE f == Forwarded(m)
<1>1. /\ m.initiator \in Nat /\ m.initiator \in Node /\ m.current \in Node
      /\ m.to \in Node /\ m.to \in Nat /\ m.to # m.initiator
      /\ m.dir \in Dir /\ m.path \in SUBSET Node /\ m.hop \in Nat
  <2>1. /\ m.initiator \in Nat /\ m.initiator \in Node /\ m.current \in Node
        /\ m.to \in Node /\ m.to \in Nat
        /\ m.dir \in Dir /\ m.path \in SUBSET Node /\ m.hop \in Nat
    BY NodesAreOrdered DEF Probe
  <2> QED
    BY <2>1
<1>2. m.to \notin m.path
  BY <1>1, ProbeMeetsNewNode
<1>3. Neighbour(m.to, m.dir) \in Node /\ Neighbour(m.to, Opposite(m.dir)) = m.current
  BY <1>1, NeighbourFacts DEF ProbeOK
<1>4. /\ f \in Probe
      /\ f.to = Neighbour(m.to, m.dir) /\ f.current = m.to /\ f.hop = m.hop + 1
      /\ f.path = m.path \cup {m.to} /\ f.initiator = m.initiator
      /\ f.maxHops = m.maxHops /\ f.dir = m.dir /\ f.phase = m.phase
  <2>1. /\ m.maxHops \in Nat /\ m.phase \in Phase /\ m.round \in Nat
        /\ m.path \cup {m.to} \in SUBSET Node /\ m.hop + 1 \in Nat
    BY <1>1 DEF Probe
  <2> QED
    BY <1>1, <1>3, <2>1 DEF Forwarded, Probe
<1> HIDE DEF f
<1>5. \A x \in f.path : x <= f.initiator
  BY <1>1, <1>4 DEF ProbeOK
<1>6. \A x \in f.path \ {f.current} : Neighbour(x, f.dir) \in f.path
  BY <1>4 DEF ProbeOK
<1>7. \A x \in f.path \ {f.initiator} :
        Neighbour(x, Opposite(f.dir)) \in f.path \ {f.current}
  BY <1>2, <1>3, <1>4 DEF ProbeOK
<1>8. Cardinality(f.path) = f.hop + 1
  <2>1. IsFiniteSet(m.path) /\ Cardinality(m.path) = m.hop + 1
    BY PathIsFinite DEF ProbeOK
  <2>2. Cardinality(m.path \cup {m.to}) = Cardinality(m.path) + 1
    BY <1>2, <2>1, FS_AddElement
  <2> QED
    BY <1>4, <2>1, <2>2
<1>9. ProbeOK(f)
  BY <1>4, <1>5, <1>6, <1>7, <1>8 DEF ProbeOK
<1> QED
  BY <1>4, <1>9 DEF f

\* The probes a phase starts with.
LEMMA NewProbeIsOK ==
  ASSUME RingOK, NEW n \in Node, NEW k \in Phase, NEW d \in Dir, NEW r \in Nat
  PROVE  NewProbe(n, k, d, r) \in Probe /\ ProbeOK(NewProbe(n, k, d, r))
<1> DEFINE p == NewProbe(n, k, d, r)
<1>1. /\ Neighbour(n, d) \in Node /\ MaxHops(k) \in Nat /\ n \in Nat
      /\ {n} \in SUBSET Node
  BY NeighbourFacts, HopsAreNat, NodesAreOrdered DEF Phase
<1>2. p \in Probe
  BY <1>1 DEF NewProbe, Probe
<1>3. /\ p.to = Neighbour(n, d) /\ p.initiator = n /\ p.current = n /\ p.hop = 0
      /\ p.maxHops = MaxHops(k) /\ p.dir = d /\ p.phase = k /\ p.path = {n}
  BY DEF NewProbe
<1>4. Cardinality({n}) = 1
  BY FS_Singleton
<1> HIDE DEF p
<1>5. ProbeOK(p)
  BY <1>1, <1>3, <1>4 DEF ProbeOK
<1> QED
  BY <1>2, <1>5 DEF p

\* Two highest nodes are one.
LEMMA HighestIsUnique ==
  ASSUME NEW x, NEW y, Highest(x), Highest(y)
  PROVE  x = y
  BY NodesAreOrdered DEF Highest

-----------------------------------------------------------------------------
(***************************************************************************)
(* What one step may do to each part of the invariant.                     *)
(***************************************************************************)
LEMMA RingKept ==
  ASSUME RingOK, FullViews, UNCHANGED ring
  PROVE  RingOK' /\ FullViews'
  BY DEF RingOK, FullViews, ring

\* Every probe on the wire was there before, or is a good one.
LEMMA ProbesStep ==
  ASSUME ElectionInv, UNCHANGED ring,
         \A m \in probes' : m \in probes \/ (m \in Probe /\ ProbeOK(m))
  PROVE  probes' \subseteq Probe /\ \A m \in probes' : ProbeOK(m)'
<1>1. \A m : ProbeOK(m)' <=> ProbeOK(m)
  BY DEF ring, ProbeOK, Neighbour
<1> QED
  BY <1>1 DEF ElectionInv, TypeOK

\* Every success on the wire was there before, or is the answer to a good probe.
LEMMA RepliesStep ==
  ASSUME ElectionInv,
         \A m \in replies' :
           \/ m \in replies
           \/ /\ m \in Reply
              /\ m.success =>
                   Cardinality({n \in Node : n < m.initiator}) >= MaxHops(m.phase)
  PROVE  replies' \subseteq Reply /\ TurnedProbeMetOnlySmaller'
  BY DEF ElectionInv, TypeOK, TurnedProbeMetOnlySmaller

LEMMA LeadersStay ==
  ASSUME ElectionInv, UNCHANGED leadership, claims' \subseteq claims
  PROVE  /\ leaderId' \in [Node -> Node \cup {None}] /\ isLeader' \in [Node -> BOOLEAN]
         /\ claims' \subseteq Claim
         /\ \A m \in claims' : ClaimOK(m)'
         /\ LeadersOK'
<1>1. leaderId' = leaderId /\ isLeader' = isLeader
  BY DEF leadership
<1> QED
  BY <1>1 DEF ElectionInv, TypeOK, ClaimOK, LeadersOK

LEMMA AnnounceStep ==
  ASSUME ElectionInv, NEW n \in Node, Highest(n), Announce(n)
  PROVE  /\ leaderId' \in [Node -> Node \cup {None}] /\ isLeader' \in [Node -> BOOLEAN]
         /\ participating' \in [Node -> BOOLEAN] /\ inProgress' \in [Node -> BOOLEAN]
         /\ claims' \subseteq Claim
         /\ \A m \in claims' : ClaimOK(m)'
         /\ LeadersOK'
         /\ \A x \in Node : isLeader[x] => isLeader'[x] /\ leaderId'[x] = x
<1>1. /\ leaderId \in [Node -> Node \cup {None}] /\ isLeader \in [Node -> BOOLEAN]
      /\ participating \in [Node -> BOOLEAN] /\ inProgress \in [Node -> BOOLEAN]
      /\ claims \subseteq Claim /\ peers = [x \in Node |-> Node \ {x}]
  BY DEF ElectionInv, TypeOK, FullViews
<1>2. /\ leaderId' = [leaderId EXCEPT ![n] = n] /\ isLeader' = [isLeader EXCEPT ![n] = TRUE]
      /\ participating' = [participating EXCEPT ![n] = FALSE]
      /\ inProgress' = [inProgress EXCEPT ![n] = FALSE]
  BY DEF Announce
<1>3. /\ leaderId' \in [Node -> Node \cup {None}] /\ isLeader' \in [Node -> BOOLEAN]
      /\ participating' \in [Node -> BOOLEAN] /\ inProgress' \in [Node -> BOOLEAN]
  BY <1>1, <1>2
<1>4. \A x \in Node : isLeader[x] => isLeader'[x]
  BY <1>1, <1>2
<1>5. isLeader'[n] /\ leaderId'[n] = n
  BY <1>1, <1>2
<1>6. \A m \in claims' :
        m \in claims \/ (m \in Claim /\ m.leader = n /\ m.to # n)
  BY <1>1 DEF Announce, Claims, Claim
<1>7. claims' \subseteq Claim
  BY <1>1, <1>6
<1>8. \A m \in claims' : ClaimOK(m)'
  <2>1. \A m \in claims : ClaimOK(m) /\ m.leader \in Node
    BY <1>1 DEF ElectionInv, Claim
  <2> QED
    BY <1>4, <1>5, <1>6, <2>1 DEF ClaimOK, Highest
<1>9. \A x \in Node : x # n => leaderId'[x] = leaderId[x] /\ isLeader'[x] = isLeader[x]
  BY <1>1, <1>2
<1>10. LeadersOK'
  <2>1. LeadersOK
    BY DEF ElectionInv
  <2>2. \A x \in Node : isLeader'[x] => Highest(x) /\ leaderId'[x] = x
    BY <1>5, <1>9, <2>1 DEF LeadersOK
  <2>3. \A x \in Node : leaderId'[x] # None =>
          Highest(leaderId'[x]) /\ isLeader'[leaderId'[x]]
    BY <1>4, <1>5, <1>9, <2>1 DEF LeadersOK, Highest
  <2> QED
    BY <2>2, <2>3 DEF LeadersOK, Highest
<1>11. \A x \in Node : isLeader[x] => isLeader'[x] /\ leaderId'[x] = x
  BY <1>4, <1>10 DEF LeadersOK
<1> QED
  BY <1>3, <1>7, <1>8, <1>10, <1>11

\* Whoever is told of the leader is not the leader.
LEMMA FollowStep ==
  ASSUME ElectionInv, NEW m \in claims, Follow(m), UNCHANGED claims
  PROVE  /\ leaderId' \in [Node -> Node \cup {None}] /\ isLeader' \in [Node -> BOOLEAN]
         /\ claims' \subseteq Claim
         /\ \A c \in claims' : ClaimOK(c)'
         /\ LeadersOK'
         /\ isLeader' = isLeader
         /\ Highest(m.leader) /\ isLeader[m.leader] /\ ~isLeader[m.to]
<1>1. /\ leaderId \in [Node -> Node \cup {None}] /\ isLeader \in [Node -> BOOLEAN]
      /\ claims \subseteq Claim /\ m.to \in Node /\ m.leader \in Node
  BY DEF ElectionInv, TypeOK, Claim
<1>2. Highest(m.leader) /\ isLeader[m.leader] /\ m.to # m.leader
  BY DEF ElectionInv, ClaimOK
<1>3. ~isLeader[m.to]
  BY <1>1, <1>2, HighestIsUnique DEF ElectionInv, LeadersOK
<1>4. isLeader' = isLeader
  BY <1>1, <1>3 DEF Follow
<1>5. leaderId' = [leaderId EXCEPT ![m.to] = m.leader]
  BY DEF Follow
<1>6. leaderId' \in [Node -> Node \cup {None}]
  BY <1>1, <1>5
<1>7. \A c \in claims' : ClaimOK(c)'
  BY <1>4 DEF ElectionInv, ClaimOK
<1>8. \A x \in Node : leaderId'[x] = IF x = m.to THEN m.leader ELSE leaderId[x]
  BY <1>1, <1>5
<1>9. LeadersOK'
  BY <1>1, <1>2, <1>3, <1>4, <1>8 DEF ElectionInv, LeadersOK
<1> QED
  BY <1>1, <1>2, <1>3, <1>4, <1>6, <1>7, <1>9

\* Running a phase: the new probes are good, the node's own state keeps its type.
LEMMA RunPhaseStep ==
  ASSUME ElectionInv, UNCHANGED ring, NEW n \in Node, NEW k \in Phase, NEW r \in Nat,
         NEW old \in SUBSET (Phase \X Dir), RunPhase(n, k, old, r)
  PROVE  /\ awaiting' \in [Node -> SUBSET (Phase \X Dir)]
         /\ participating' \in [Node -> BOOLEAN] /\ inProgress' \in [Node -> BOOLEAN]
         /\ probes' \subseteq Probe /\ \A m \in probes' : ProbeOK(m)'
<1>1. /\ awaiting \in [Node -> SUBSET (Phase \X Dir)]
      /\ participating \in [Node -> BOOLEAN] /\ inProgress \in [Node -> BOOLEAN]
  BY DEF ElectionInv, TypeOK
<1>2. old \cup ({k} \X Reach(n)) \in SUBSET (Phase \X Dir)
  BY DEF Reach
<1>3. awaiting' \in [Node -> SUBSET (Phase \X Dir)]
  BY <1>1, <1>2 DEF RunPhase
<1>4. participating' \in [Node -> BOOLEAN]
  BY <1>1 DEF RunPhase
<1>5. inProgress' \in [Node -> BOOLEAN]
  BY <1>1 DEF RunPhase
<1>6. \A d \in Reach(n) : NewProbe(n, k, d, r) \in Probe /\ ProbeOK(NewProbe(n, k, d, r))
  BY NewProbeIsOK DEF ElectionInv, Reach
<1>7. \A m \in probes' : m \in probes \/ (m \in Probe /\ ProbeOK(m))
  BY <1>6 DEF RunPhase
<1>8. probes' \subseteq Probe /\ \A m \in probes' : ProbeOK(m)'
  BY <1>7, ProbesStep
<1> QED
  BY <1>3, <1>4, <1>5, <1>8

LEMMA StartStep ==
  ASSUME ElectionInv, UNCHANGED ring, NEW n \in Node, StartElection(n)
  PROVE  /\ awaiting' \in [Node -> SUBSET (Phase \X Dir)]
         /\ participating' \in [Node -> BOOLEAN] /\ inProgress' \in [Node -> BOOLEAN]
         /\ round' \in [Node -> Nat]
         /\ probes' \subseteq Probe /\ \A m \in probes' : ProbeOK(m)'
<1>1. round \in [Node -> Nat] /\ round[n] + 1 \in Nat
  BY DEF ElectionInv, TypeOK
<1>2. 0 \in Phase
  BY BoundsAreNat DEF Phase
<1>3. {} \in SUBSET (Phase \X Dir)
  OBVIOUS
<1>4. RunPhase(n, 0, {}, round[n] + 1)
  BY DEF StartElection
<1>5. round' \in [Node -> Nat]
  BY <1>1 DEF StartElection
<1> QED
  BY <1>1, <1>2, <1>3, <1>4, <1>5, RunPhaseStep

\* A success is the answer to a probe that met many smaller nodes.
LEMMA AnswerIsReply ==
  ASSUME RingOK, NEW m \in Probe \cup Reply, NEW success \in BOOLEAN
  PROVE  /\ Answer(m, success) \in Reply
         /\ Answer(m, success).success = success
         /\ Answer(m, success).initiator = m.initiator
         /\ Answer(m, success).phase = m.phase
<1>1. /\ m.to \in Node /\ m.dir \in Dir /\ m.initiator \in Node /\ m.phase \in Phase
      /\ m.round \in Nat
  BY DEF Probe, Reply
<1>2. Neighbour(m.to, Opposite(m.dir)) \in Node
  BY <1>1, NeighbourFacts
<1> QED
  BY <1>1, <1>2 DEF Answer, Reply

\* With full views max_hops >= ring_size is never true where it is asked.
LEMMA NoReplyWins ==
  ASSUME ElectionInv, NEW m \in replies
  PROVE  ~ReplyWins(m)
<1> SUFFICES ASSUME ReplyWins(m) PROVE FALSE
  OBVIOUS
<1> DEFINE smaller == {n \in Node : n < m.initiator}
<1>1. m \in Reply /\ m.success /\ m.initiator = m.to /\ m.to \in Node /\ m.phase \in Phase
  BY DEF ReplyWins, ReplyCounts, ReceiveOwnReply, ElectionInv, TypeOK, Reply
<1>2. peers[m.to] = Node \ {m.to}
  BY <1>1 DEF ElectionInv, FullViews
<1>3. IsFiniteSet(Node) /\ Cardinality(Node) \in Nat
  BY NodesAreOrdered, FS_CardinalityType
<1>4. Cardinality(peers[m.to]) = Cardinality(Node) - 1
  <2>1. \A x \in Node : Cardinality(Node \ {x}) = Cardinality(Node) - 1
    BY ONLY <1>3, FS_RemoveElement
  <2> QED
    BY <1>1, <1>2, <2>1
<1>5. smaller \subseteq peers[m.to]
  <2>1. m.to \in Nat /\ \A x \in Node : x \in Nat
    BY <1>1, NodesAreOrdered
  <2>2. \A x \in Node : x < m.initiator => x # m.to
    BY ONLY <1>1, <2>1
  <2> QED
    BY <1>2, <2>2
<1>6. Cardinality(smaller) <= Cardinality(peers[m.to]) /\ Cardinality(smaller) \in Nat
  <2>1. IsFiniteSet(peers[m.to])
    BY <1>2, <1>3, FS_Subset
  <2> QED
    BY <1>5, <2>1, FS_Subset, FS_CardinalityType
<1>7. MaxHops(m.phase) >= Cardinality(peers[m.to]) + 1
  BY DEF ReplyWins, CoversRing
<1>8. Cardinality(smaller) >= MaxHops(m.phase)
  BY <1>1 DEF ElectionInv, TurnedProbeMetOnlySmaller
<1>9. MaxHops(m.phase) \in Nat
  BY <1>1, HopsAreNat DEF Phase
<1> HIDE DEF smaller
<1> QED
  BY <1>3, <1>4, <1>6, <1>7, <1>8, <1>9

-----------------------------------------------------------------------------
(***************************************************************************)
(* The invariant is inductive: one lemma per kind of step.                 *)
(***************************************************************************)
LEMMA InitElectionInv ==
  ASSUME Newcomers = {}, Init
  PROVE  ElectionInv
<1>1. IsRing(succ, pred)
  BY RingsAreRings DEF Init
<1>2. FullViews
  BY DEF Init, FullViews
<1>3. TypeOK
  BY <1>1, <1>2, BoundsAreNat DEF Init, IsRing, TypeOK, FullViews
<1> QED
  BY <1>1, <1>2, <1>3
  DEF Init, ElectionInv, RingOK, TurnedProbeMetOnlySmaller, LeadersOK

LEMMA StartingKeepsInv ==
  ASSUME ElectionInv, NEW n \in Node,
         UserElect(n) \/ RunScheduled(n) \/ AutoStart(n)
  PROVE  ElectionInv'
<1>1. UNCHANGED <<ring, leadership, replies, claims, processed, losses>>
  BY DEF UserElect, RunScheduled, AutoStart, wire
<1>2. RingOK' /\ FullViews'
  BY <1>1, RingKept DEF ElectionInv
<1>3. /\ leaderId' \in [Node -> Node \cup {None}] /\ isLeader' \in [Node -> BOOLEAN]
      /\ claims' \subseteq Claim /\ (\A m \in claims' : ClaimOK(m)') /\ LeadersOK'
  BY <1>1, LeadersStay
<1>4. /\ awaiting' \in [Node -> SUBSET (Phase \X Dir)]
      /\ participating' \in [Node -> BOOLEAN] /\ inProgress' \in [Node -> BOOLEAN]
      /\ round' \in [Node -> Nat]
      /\ probes' \subseteq Probe /\ \A m \in probes' : ProbeOK(m)'
  <2>1. CASE StartElection(n)
    BY <1>1, <2>1, StartStep
  <2>2. CASE UNCHANGED <<state, round, probes>>
    <3>1. probes' \subseteq Probe /\ \A m \in probes' : ProbeOK(m)'
      BY <1>1, <2>2, ProbesStep
    <3> QED
      BY <2>2, <3>1 DEF state, ElectionInv, TypeOK
  <2> QED
    BY <2>1, <2>2 DEF UserElect, RunScheduled, AutoStart, wire
<1>5. scheduled' \in [Node -> BOOLEAN]
  BY DEF UserElect, RunScheduled, AutoStart, ElectionInv, TypeOK
<1>6. replies' \subseteq Reply /\ TurnedProbeMetOnlySmaller'
  BY <1>1, RepliesStep
<1>7. processed' \subseteq Probe \cup Reply /\ losses' \in Nat
  BY <1>1 DEF ElectionInv, TypeOK
<1>8. TypeOK'
  BY <1>1, <1>3, <1>4, <1>5, <1>6, <1>7 DEF ring, ElectionInv, TypeOK
<1> QED
  BY <1>2, <1>3, <1>4, <1>6, <1>8 DEF ElectionInv

\* A probe comes back, is rejected, turned, or sent on.
LEMMA ProbeKeepsInv ==
  ASSUME ElectionInv, NEW m \in probes, HandleProbe(m)
  PROVE  ElectionInv'
<1>1. /\ m \in Probe /\ ProbeOK(m) /\ RingOK
      /\ m.to \in Node /\ m.to \in Nat /\ m.initiator \in Node /\ m.initiator \in Nat
  BY NodesAreOrdered DEF ElectionInv, TypeOK, Probe
<1>2. UNCHANGED <<ring, round, losses>> /\ processed' = processed \cup {m}
  BY DEF HandleProbe, OwnReturnMarked, OwnReturnWins, RejectProbe, TurnBack,
         ForwardProbe, ReceiveProbe
<1>3. RingOK' /\ FullViews'
  BY <1>2, RingKept DEF ElectionInv
<1>4. /\ awaiting \in [Node -> SUBSET (Phase \X Dir)]
      /\ participating \in [Node -> BOOLEAN] /\ inProgress \in [Node -> BOOLEAN]
      /\ scheduled \in [Node -> BOOLEAN]
  BY DEF ElectionInv, TypeOK
<1>5. Remaining(m.to, m) \in SUBSET (Phase \X Dir)
  BY <1>1, <1>4 DEF Remaining
<1>6. /\ awaiting' \in [Node -> SUBSET (Phase \X Dir)]
      /\ participating' \in [Node -> BOOLEAN] /\ inProgress' \in [Node -> BOOLEAN]
      /\ scheduled' \in [Node -> BOOLEAN]
  <2>1. CASE OwnReturnMarked(m)
    BY <1>4, <1>5, <2>1 DEF OwnReturnMarked
  <2>2. CASE OwnReturnWins(m)
    BY <1>4, <1>5, <2>2 DEF OwnReturnWins, Announce
  <2>3. CASE RejectProbe(m)
    BY <1>4, <2>3 DEF RejectProbe, state
  <2>4. CASE TurnBack(m) \/ ForwardProbe(m)
    BY <1>4, <2>4 DEF TurnBack, ForwardProbe, Yield, Retire, state
  <2> QED
    BY <2>1, <2>2, <2>3, <2>4 DEF HandleProbe
<1>7. \A p \in probes' : p \in probes \/ (p \in Probe /\ ProbeOK(p))
  <2>1. CASE ForwardProbe(m)
    <3>1. Forwarded(m) \in Probe /\ ProbeOK(Forwarded(m))
      BY <1>1, <2>1, ForwardedIsOK DEF ForwardProbe
    <3> QED
      BY <2>1, <3>1 DEF ForwardProbe, OnWire
  <2>2. CASE ~ForwardProbe(m)
    BY <2>2 DEF HandleProbe, OwnReturnMarked, OwnReturnWins, RejectProbe, TurnBack, wire
  <2> QED
    BY <2>1, <2>2
<1>8. \A r \in replies' :
        \/ r \in replies
        \/ /\ r \in Reply
           /\ r.success =>
                Cardinality({n \in Node : n < r.initiator}) >= MaxHops(r.phase)
  <2>1. CASE RejectProbe(m)
    <3>1. Answer(m, FALSE) \in Reply /\ ~Answer(m, FALSE).success
      BY <1>1, AnswerIsReply
    <3> QED
      BY <2>1, <3>1 DEF RejectProbe, OnWire
  <2>2. CASE TurnBack(m)
    <3>1. /\ Answer(m, TRUE) \in Reply /\ Answer(m, TRUE).initiator = m.initiator
          /\ Answer(m, TRUE).phase = m.phase
      BY <1>1, AnswerIsReply
    <3>2. Cardinality({n \in Node : n < m.initiator}) >= MaxHops(m.phase)
      BY <1>1, <2>2, TurnedMetMany DEF TurnBack, AtLimit
    <3> QED
      BY <2>2, <3>1, <3>2 DEF TurnBack, OnWire
  <2>3. CASE OwnReturnMarked(m) \/ OwnReturnWins(m) \/ ForwardProbe(m)
    BY <2>3 DEF OwnReturnMarked, OwnReturnWins, ForwardProbe, wire
  <2> QED
    BY <2>1, <2>2, <2>3 DEF HandleProbe
<1>9. /\ leaderId' \in [Node -> Node \cup {None}] /\ isLeader' \in [Node -> BOOLEAN]
      /\ claims' \subseteq Claim /\ (\A c \in claims' : ClaimOK(c)') /\ LeadersOK'
  <2>1. CASE OwnReturnWins(m)
    <3>1. Highest(m.to)
      BY <1>1, <2>1, ReturnedIsHighest DEF OwnReturnWins
    <3> QED
      BY <1>1, <2>1, <3>1, AnnounceStep DEF OwnReturnWins
  <2>2. CASE ~OwnReturnWins(m)
    <3>1. UNCHANGED <<leadership, claims>>
      BY <2>2 DEF HandleProbe, OwnReturnMarked, RejectProbe, TurnBack, ForwardProbe, wire
    <3> QED
      BY <3>1, LeadersStay
  <2> QED
    BY <2>1, <2>2
<1>10. probes' \subseteq Probe /\ \A p \in probes' : ProbeOK(p)'
  BY <1>2, <1>7, ProbesStep
<1>11. replies' \subseteq Reply /\ TurnedProbeMetOnlySmaller'
  BY <1>8, RepliesStep
<1>12. TypeOK'
  BY <1>1, <1>2, <1>6, <1>9, <1>10, <1>11 DEF ring, ElectionInv, TypeOK
<1> QED
  BY <1>3, <1>9, <1>10, <1>11, <1>12 DEF ElectionInv

\* A reply is passed on, ignored, counted, or starts the next phase.
LEMMA ReplyKeepsInv ==
  ASSUME ElectionInv, NEW m \in replies, HandleReply(m)
  PROVE  ElectionInv' /\ UNCHANGED leadership
<1>1. m \in Reply /\ m.to \in Node /\ m.phase \in Phase /\ m.success \in BOOLEAN /\ RingOK
  BY DEF ElectionInv, TypeOK, Reply
<1>2. ~ReplyWins(m)
  BY NoReplyWins
<1>3. /\ UNCHANGED <<ring, leadership, claims, scheduled, round, losses>>
      /\ processed' = processed \cup {m}
  BY <1>2 DEF HandleReply, ForwardReply, ReplyIgnored, ReplyRejects, ReplyMarked,
              ReplyNextPhase, ReplyMaxPhase, ReplyCounts, ReceiveOwnReply, ReceiveReply
<1>4. RingOK' /\ FullViews'
  BY <1>3, RingKept DEF ElectionInv
<1>5. /\ leaderId' \in [Node -> Node \cup {None}] /\ isLeader' \in [Node -> BOOLEAN]
      /\ claims' \subseteq Claim /\ (\A c \in claims' : ClaimOK(c)') /\ LeadersOK'
  BY <1>3, LeadersStay
<1>6. /\ awaiting \in [Node -> SUBSET (Phase \X Dir)]
      /\ participating \in [Node -> BOOLEAN] /\ inProgress \in [Node -> BOOLEAN]
      /\ round[m.to] \in Nat
  BY <1>1 DEF ElectionInv, TypeOK
<1>7. Remaining(m.to, m) \in SUBSET (Phase \X Dir)
  BY <1>1, <1>6 DEF Remaining
<1>8. /\ awaiting' \in [Node -> SUBSET (Phase \X Dir)]
      /\ participating' \in [Node -> BOOLEAN] /\ inProgress' \in [Node -> BOOLEAN]
      /\ probes' \subseteq Probe /\ \A p \in probes' : ProbeOK(p)'
  <2>1. CASE ReplyNextPhase(m)
    <3>1. m.phase + 1 \in Phase
      BY <1>1, <2>1, BoundsAreNat DEF ReplyNextPhase, Phase
    <3>2. RunPhase(m.to, m.phase + 1, Remaining(m.to, m), round[m.to])
      BY <2>1 DEF ReplyNextPhase
    <3> QED
      BY <1>1, <1>3, <1>6, <1>7, <3>1, <3>2, RunPhaseStep
  <2>2. CASE ~ReplyNextPhase(m)
    <3>1. UNCHANGED probes
      BY <1>2, <2>2
      DEF HandleReply, ForwardReply, ReplyIgnored, ReplyRejects, ReplyMarked, ReplyMaxPhase
    <3>2. probes' \subseteq Probe /\ \A p \in probes' : ProbeOK(p)'
      BY <1>3, <3>1, ProbesStep
    <3>3. /\ awaiting' \in [Node -> SUBSET (Phase \X Dir)]
          /\ participating' \in [Node -> BOOLEAN] /\ inProgress' \in [Node -> BOOLEAN]
      BY <1>2, <1>6, <1>7, <2>2
      DEF HandleReply, ForwardReply, ReplyIgnored, ReplyRejects, ReplyMarked,
          ReplyMaxPhase, GiveUp, Retire, state
    <3> QED
      BY <3>2, <3>3
  <2> QED
    BY <2>1, <2>2
<1>9. replies' \subseteq Reply /\ TurnedProbeMetOnlySmaller'
  <2>1. CASE ForwardReply(m)
    <3>1. /\ Answer(m, m.success) \in Reply /\ Answer(m, m.success).success = m.success
          /\ Answer(m, m.success).initiator = m.initiator
          /\ Answer(m, m.success).phase = m.phase
      BY <1>1, AnswerIsReply
    <3>2. m.success => Cardinality({n \in Node : n < m.initiator}) >= MaxHops(m.phase)
      BY DEF ElectionInv, TurnedProbeMetOnlySmaller
    <3> QED
      BY <2>1, <3>1, <3>2, RepliesStep DEF ForwardReply, OnWire
  <2>2. CASE ~ForwardReply(m)
    <3>1. UNCHANGED replies
      BY <2>2 DEF HandleReply, ReplyIgnored, ReplyRejects, ReplyMarked, ReplyWins,
                  ReplyNextPhase, ReplyMaxPhase, ReplyCounts, ReceiveOwnReply
    <3> QED
      BY <3>1, RepliesStep
  <2> QED
    BY <2>1, <2>2
<1>10. TypeOK'
  BY <1>1, <1>3, <1>5, <1>8, <1>9 DEF ring, ElectionInv, TypeOK
<1> QED
  BY <1>3, <1>4, <1>5, <1>8, <1>9, <1>10 DEF ElectionInv

\* An announcement or a heartbeat arrives.
LEMMA ClaimKeepsInv ==
  ASSUME ElectionInv, NEW m \in claims, HandleClaim(m)
  PROVE  ElectionInv'
<1>1. m.to \in Node /\ RingOK
  BY DEF ElectionInv, TypeOK, Claim
<1>2. Follow(m) /\ UNCHANGED <<ring, awaiting, scheduled, round, wire, processed, losses>>
  BY DEF HandleClaim, HandleAnnouncement, HandleHeartbeat, Retire, state
<1>3. RingOK' /\ FullViews'
  BY <1>2, RingKept DEF ElectionInv
<1>4. /\ leaderId' \in [Node -> Node \cup {None}] /\ isLeader' \in [Node -> BOOLEAN]
      /\ claims' \subseteq Claim /\ (\A c \in claims' : ClaimOK(c)') /\ LeadersOK'
  BY <1>2, FollowStep DEF wire
<1>5. participating' \in [Node -> BOOLEAN] /\ inProgress' \in [Node -> BOOLEAN]
  BY DEF HandleClaim, HandleAnnouncement, HandleHeartbeat, Retire, state, ElectionInv, TypeOK
<1>6. probes' \subseteq Probe /\ \A p \in probes' : ProbeOK(p)'
  BY <1>2, ProbesStep DEF wire
<1>7. replies' \subseteq Reply /\ TurnedProbeMetOnlySmaller'
  BY <1>2, RepliesStep DEF wire
<1>8. TypeOK'
  BY <1>1, <1>2, <1>4, <1>5, <1>6, <1>7 DEF ring, ElectionInv, TypeOK
<1> QED
  BY <1>3, <1>4, <1>6, <1>7, <1>8 DEF ElectionInv

\* A leader sends its heartbeats.
LEMMA HeartbeatKeepsInv ==
  ASSUME ElectionInv, NEW n \in Node, SendHeartbeat(n)
  PROVE  ElectionInv'
<1>1. UNCHANGED <<ring, leadership, state, scheduled, round, probes, replies,
                  processed, losses>> /\ isLeader[n]
  BY DEF SendHeartbeat
<1>2. RingOK' /\ FullViews'
  BY <1>1, RingKept DEF ElectionInv
<1>3. Highest(n) /\ peers[n] = Node \ {n}
  BY <1>1 DEF ElectionInv, LeadersOK, FullViews
<1>4. \A c \in claims' : c \in claims \/ (c \in Claim /\ c.leader = n /\ c.to # n)
  BY <1>3 DEF SendHeartbeat, Claims, Claim
<1>5. claims' \subseteq Claim
  BY <1>4 DEF ElectionInv, TypeOK
<1>6. \A c \in claims' : ClaimOK(c)
  BY <1>1, <1>3, <1>4 DEF ElectionInv, ClaimOK
<1>7. \A c \in claims' : ClaimOK(c)'
  BY <1>1, <1>6 DEF leadership, ClaimOK
<1>8. LeadersOK' /\ leaderId' = leaderId /\ isLeader' = isLeader
  BY <1>1 DEF leadership, ElectionInv, LeadersOK
<1>9. probes' \subseteq Probe /\ \A p \in probes' : ProbeOK(p)'
  BY <1>1, ProbesStep
<1>10. replies' \subseteq Reply /\ TurnedProbeMetOnlySmaller'
  BY <1>1, RepliesStep
<1>11. TypeOK'
  BY <1>1, <1>5, <1>8, <1>9, <1>10 DEF ring, state, ElectionInv, TypeOK
<1> QED
  BY <1>2, <1>7, <1>8, <1>9, <1>10, <1>11 DEF ElectionInv

\* The network loses a datagram.
LEMMA LossKeepsInv ==
  ASSUME ElectionInv, Lose
  PROVE  ElectionInv'
<1>1. /\ UNCHANGED <<ring, leadership, state, scheduled, round, processed>>
      /\ probes' \subseteq probes /\ replies' \subseteq replies /\ claims' \subseteq claims
      /\ losses' = losses + 1
  BY DEF Lose
<1>2. RingOK' /\ FullViews'
  BY <1>1, RingKept DEF ElectionInv
<1>3. /\ leaderId' \in [Node -> Node \cup {None}] /\ isLeader' \in [Node -> BOOLEAN]
      /\ claims' \subseteq Claim /\ (\A c \in claims' : ClaimOK(c)') /\ LeadersOK'
  BY <1>1, LeadersStay
<1>4. probes' \subseteq Probe /\ \A p \in probes' : ProbeOK(p)'
  BY <1>1, ProbesStep
<1>5. replies' \subseteq Reply /\ TurnedProbeMetOnlySmaller'
  BY <1>1, RepliesStep
<1>6. TypeOK'
  BY <1>1, <1>3, <1>4, <1>5 DEF ring, state, ElectionInv, TypeOK
<1> QED
  BY <1>2, <1>3, <1>4, <1>5, <1>6 DEF ElectionInv

LEMMA StutterKeepsInv ==
  ASSUME ElectionInv, UNCHANGED vars
  PROVE  ElectionInv'
<1>1. UNCHANGED <<ring, leadership, state, scheduled, round, probes, replies, claims,
                  processed, losses>>
  BY DEF vars, wire
<1>2. RingOK' /\ FullViews'
  BY <1>1, RingKept DEF ElectionInv
<1>3. /\ leaderId' \in [Node -> Node \cup {None}] /\ isLeader' \in [Node -> BOOLEAN]
      /\ claims' \subseteq Claim /\ (\A c \in claims' : ClaimOK(c)') /\ LeadersOK'
  BY <1>1, LeadersStay
<1>4. probes' \subseteq Probe /\ \A p \in probes' : ProbeOK(p)'
  BY <1>1, ProbesStep
<1>5. replies' \subseteq Reply /\ TurnedProbeMetOnlySmaller'
  BY <1>1, RepliesStep
<1>6. TypeOK'
  BY <1>1, <1>3, <1>4, <1>5 DEF ring, state, ElectionInv, TypeOK
<1> QED
  BY <1>2, <1>3, <1>4, <1>5, <1>6 DEF ElectionInv

LEMMA NextElectionInv ==
  ASSUME ElectionInv, [Next]_vars
  PROVE  ElectionInv'
<1>1. CASE \E n \in Node : UserElect(n) \/ RunScheduled(n) \/ AutoStart(n)
  BY <1>1, StartingKeepsInv
<1>2. CASE \E n \in Node : SendHeartbeat(n)
  BY <1>2, HeartbeatKeepsInv
<1>3. CASE Receive
  BY <1>3, ProbeKeepsInv, ReplyKeepsInv, ClaimKeepsInv DEF Receive
<1>4. CASE Lose
  BY <1>4, LossKeepsInv
<1>5. CASE UNCHANGED vars
  BY <1>5, StutterKeepsInv
<1> QED
  BY <1>1, <1>2, <1>3, <1>4, <1>5 DEF Next, Tick

\* Who leads changes in two ways only: the highest node wins, or a node that
\* does not lead is told of the highest, which does.
LEMMA LeadershipChanges ==
  ASSUME ElectionInv, [Next]_vars
  PROVE  \/ UNCHANGED leadership
         \/ \E n \in Node :
              /\ Highest(n)
              /\ leaderId' = [leaderId EXCEPT ![n] = n]
              /\ isLeader' = [isLeader EXCEPT ![n] = TRUE]
         \/ \E n, l \in Node :
              /\ Highest(l) /\ isLeader[l] /\ ~isLeader[n]
              /\ leaderId' = [leaderId EXCEPT ![n] = l]
              /\ isLeader' = isLeader
<1>1. CASE \E m \in probes : HandleProbe(m)
  <2> PICK m \in probes : HandleProbe(m)
    BY <1>1
  <2>1. m \in Probe /\ ProbeOK(m) /\ RingOK /\ m.to \in Node
    BY DEF ElectionInv, TypeOK, Probe
  <2>2. CASE OwnReturnWins(m)
    <3>1. Highest(m.to)
      BY <2>1, <2>2, ReturnedIsHighest DEF OwnReturnWins
    <3> QED
      BY <2>1, <2>2, <3>1 DEF OwnReturnWins, Announce
  <2>3. CASE ~OwnReturnWins(m)
    BY <2>3 DEF HandleProbe, OwnReturnMarked, RejectProbe, TurnBack, ForwardProbe
  <2> QED
    BY <2>2, <2>3
<1>2. CASE \E m \in replies : HandleReply(m)
  BY <1>2, ReplyKeepsInv
<1>3. CASE \E m \in claims : HandleClaim(m)
  <2> PICK m \in claims : HandleClaim(m)
    BY <1>3
  <2>1. m.to \in Node /\ m.leader \in Node
    BY DEF ElectionInv, TypeOK, Claim
  <2>2. Follow(m) /\ UNCHANGED claims
    BY DEF HandleClaim, HandleAnnouncement, HandleHeartbeat, wire
  <2>3. leaderId' = [leaderId EXCEPT ![m.to] = m.leader]
    BY <2>2 DEF Follow
  <2> QED
    BY <2>1, <2>2, <2>3, FollowStep
<1>4. CASE \E n \in Node : UserElect(n) \/ Tick(n)
  BY <1>4 DEF UserElect, Tick, RunScheduled, AutoStart, SendHeartbeat
<1>5. CASE Lose
  BY <1>5 DEF Lose
<1>6. CASE UNCHANGED vars
  BY <1>6 DEF vars
<1> QED
  BY <1>1, <1>2, <1>3, <1>4, <1>5, <1>6 DEF Next, Receive

LEMMA LeadersStepOK ==
  ASSUME ElectionInv, [Next]_vars
  PROVE  [\A n \in Node : isLeader[n] => isLeader'[n] /\ leaderId'[n] = n]_vars
<1>1. /\ leaderId \in [Node -> Node \cup {None}] /\ isLeader \in [Node -> BOOLEAN]
      /\ \A n \in Node : isLeader[n] => leaderId[n] = n
  BY DEF ElectionInv, TypeOK, LeadersOK
<1>2. CASE UNCHANGED leadership
  BY <1>1, <1>2 DEF leadership
<1>3. ASSUME NEW x \in Node, leaderId' = [leaderId EXCEPT ![x] = x],
             isLeader' = [isLeader EXCEPT ![x] = TRUE]
      PROVE  \A n \in Node : isLeader[n] => isLeader'[n] /\ leaderId'[n] = n
  BY <1>1, <1>3
<1>4. ASSUME NEW x \in Node, NEW l \in Node, ~isLeader[x],
             leaderId' = [leaderId EXCEPT ![x] = l], isLeader' = isLeader
      PROVE  \A n \in Node : isLeader[n] => isLeader'[n] /\ leaderId'[n] = n
  BY <1>1, <1>4
<1> QED
  BY <1>2, <1>3, <1>4, LeadershipChanges

\* Winning is Elect, being told is Learn.
LEMMA AgreementStep ==
  ASSUME ElectionInv, [Next]_vars
  PROVE  [Agreement!Next]_leaderId
<1>1. /\ leaderId \in [Node -> Node \cup {None}]
      /\ \A n \in Node : isLeader[n] => leaderId[n] = n
      /\ \A n \in Node : leaderId[n] # None => Highest(leaderId[n])
  BY DEF ElectionInv, TypeOK, LeadersOK
<1>2. CASE UNCHANGED leadership
  BY <1>2 DEF leadership
<1>3. ASSUME NEW n \in Node, NEW l \in Node, Highest(l), n = l \/ leaderId[l] = l,
             leaderId' = [leaderId EXCEPT ![n] = l]
      PROVE  [Agreement!Next]_leaderId
  <2>1. CASE leaderId[n] # None
    <3>1. leaderId[n] = l
      BY <1>1, <1>3, <2>1, HighestIsUnique
    <3> QED
      BY <1>1, <1>3, <3>1
  <2>2. CASE leaderId[n] = None /\ n = l
    BY <1>3, <2>2 DEF Agreement!Next, Agreement!Elect, Agreement!Highest, Highest
  <2>3. CASE leaderId[n] = None /\ leaderId[l] = l
    BY <1>3, <2>3 DEF Agreement!Next, Agreement!Learn
  <2> QED
    BY <1>3, <2>1, <2>2, <2>3
<1> QED
  BY <1>1, <1>2, <1>3, LeadershipChanges

-----------------------------------------------------------------------------
(***************************************************************************)
(* The theorems.  Newcomers = {} says that discovery has told every node   *)
(* of every other before elections begin.                                  *)
(***************************************************************************)
\* The inductive invariant holds throughout: leadership is claimed only by a
\* node whose probes went all the way round the ring.
THEOREM ElectionInvariant ==
  ASSUME Newcomers = {}
  PROVE  Spec => []ElectionInv
<1>1. Init => ElectionInv
  BY InitElectionInv
<1>2. ElectionInv /\ [Next]_vars => ElectionInv'
  BY NextElectionInv
<1> QED
  BY <1>1, <1>2, PTL DEF Spec

\* Only the highest node leads, or is taken for the leader.
THEOREM OnlyTheHighestLeads ==
  ASSUME Newcomers = {}
  PROVE  Spec => []LeaderIsHighest
<1>1. ElectionInv => LeaderIsHighest
  BY DEF ElectionInv, LeadersOK, LeaderIsHighest
<1> QED
  BY <1>1, ElectionInvariant, PTL

\* No announcement or heartbeat takes the leadership away from who has it.
THEOREM LeadershipIsKept ==
  ASSUME Newcomers = {}
  PROVE  Spec => LeaderNeverDemoted
<1>1. ElectionInv /\ [Next]_vars =>
        [\A n \in Node : isLeader[n] => isLeader'[n] /\ leaderId'[n] = n]_vars
  BY LeadersStepOK
<1> QED
  BY <1>1, ElectionInvariant, PTL DEF Spec, LeaderNeverDemoted

\* A success of phase k stands for at least 2 ** k nodes smaller than its initiator.
THEOREM SuccessesAreEarned ==
  ASSUME Newcomers = {}
  PROVE  Spec => []TurnedProbeMetOnlySmaller
<1>1. ElectionInv => TurnedProbeMetOnlySmaller
  BY DEF ElectionInv
<1> QED
  BY <1>1, ElectionInvariant, PTL

\* The service implements the abstract election.
THEOREM ElectionImplementsAgreement ==
  ASSUME Newcomers = {}
  PROVE  Spec => ImplementsAgreement
<1>1. Init => Agreement!Init
  BY DEF Init, Agreement!Init
<1>2. ElectionInv /\ [Next]_vars => [Agreement!Next]_leaderId
  BY AgreementStep
<1> QED
  BY <1>1, <1>2, ElectionInvariant, PTL DEF Spec, ImplementsAgreement, Agreement!Spec
=============================================================================
