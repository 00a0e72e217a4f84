-------------------------- MODULE RingTopologyProofs --------------------------
(***************************************************************************)
(* What holds of the pointers of every node, for all rings to start from,  *)
(* all losses and crashes and every interleaving of handlers and loops.    *)
(***************************************************************************)
EXTENDS RingTopology, SequenceLemmas, FiniteSetTheorems, TLAPS

-----------------------------------------------------------------------------
(***************************************************************************)
(* The inductive invariant.                                                *)
(***************************************************************************)
\* Pointers a node may have: not itself, and both of them once it is in a ring.
Sound(n, q) ==
  /\ q \in [succ : Pointer, pred : Pointer, established : BOOLEAN]
  /\ q.succ # n /\ q.pred # n
  /\ q.established => q.succ # None /\ q.pred # None

PointersSound ==
  /\ succ \in [Node -> Pointer] /\ pred \in [Node -> Pointer]
  /\ established \in [Node -> BOOLEAN]
  /\ \A n \in Node : Sound(n, At(n))

\* No node is a peer of itself: the own HELLOs are dropped.
PeersSound ==
  /\ peers \in [Node -> Seq(Node)]
  /\ \A n \in Node : n \notin Known(n)

\* What a datagram makes of the pointers of its addressee does not name the
\* addressee, and does not unset them.
Harmless(m) ==
  /\ m \in [type : Types, from : Node, to : Node, succ : Pointer, pred : Pointer]
  /\ m.type = "JOIN_RESPONSE" => {m.succ, m.pred} \subseteq Node \ {m.to}
  /\ m.type = "UPDATE_PREDECESSOR" => m.pred \in Node \ {m.to}
  /\ m.type \in {"JOIN_REQUEST", "NOTIFY"} => m.from # m.to

NetSound == \A m \in net : Harmless(m)

CountersSound ==
  /\ alive \subseteq Node
  /\ joining \in [Node -> BOOLEAN]
  /\ failures \in [Node -> 0 .. MaxPingFailures - 1]
  /\ losses \in 0 .. MaxLost

RingInv == PointersSound /\ PeersSound /\ NetSound /\ CountersSound

LEMMA RingInvImplies ==
  RingInv => TypeOK /\ NobodyIsItsOwnNeighbour /\ EstablishedIsLinked
<1> SUFFICES ASSUME RingInv PROVE TypeOK /\ NobodyIsItsOwnNeighbour /\ EstablishedIsLinked
  OBVIOUS
<1>1. TypeOK
  BY DEF RingInv, PointersSound, PeersSound, NetSound, CountersSound, Harmless, TypeOK
<1>2. ASSUME NEW n \in Node
      PROVE  succ[n] # n /\ pred[n] # n /\ (established[n] => succ[n] # None /\ pred[n] # None)
  BY DEF RingInv, PointersSound, Sound, At
<1> QED
  BY <1>1, <1>2 DEF NobodyIsItsOwnNeighbour, EstablishedIsLinked

-----------------------------------------------------------------------------
(***************************************************************************)
(* The repairs.                                                            *)
(***************************************************************************)
LEMMA FirstPeerIsPeer ==
  ASSUME NEW known \in Seq(Node), NEW excluded, FirstPeer(known, excluded) # None
  PROVE  /\ FirstPeer(known, excluded) \in ToSet(known) \ excluded
         /\ FirstPeer(known, excluded) \in Node
<1> DEFINE I == {i \in 1 .. Len(known) : known[i] \notin excluded}
<1>1. FirstPeer(known, excluded) = IF (IF I # {} THEN Min(I) ELSE 0) = 0 THEN None
                                   ELSE known[IF I # {} THEN Min(I) ELSE 0]
  BY DEF FirstPeer, SelectInSeq
<1>2. I # {}
  BY <1>1
<1>3. Min(I) \in I
  <2>1. I \in SUBSET Nat
    OBVIOUS
  <2> HIDE DEF I
  <2> QED
    BY <1>2, <2>1, MinIsMember
<1>4. PICK i \in 1 .. Len(known) : FirstPeer(known, excluded) = known[i] /\ known[i] \notin excluded
  BY <1>1, <1>2, <1>3
<1>5. known[i] \in Node /\ i \in DOMAIN known
  OBVIOUS
<1> QED
  BY <1>4, <1>5 DEF ToSet

\* A repair never leaves a node in the ring without a neighbour, and never makes
\* it its own.
LEMMA RepairsAreSound ==
  ASSUME NEW n \in Node, NEW known \in Seq(Node), n \notin ToSet(known),
         NEW q, Sound(n, q)
  PROVE  Sound(n, FixSuccessor(q, known)) /\ Sound(n, FixPredecessor(q, known))
<1>1. None # n
  BY NoneIsNoNode
<1>2. Sound(n, Alone)
  BY <1>1 DEF Sound, Alone, Pointer
<1>3. Sound(n, FixSuccessor(q, known))
  <2> DEFINE p == FirstPeer(known, {q.succ})
  <2>1. CASE p = None
    BY <2>1, <1>2 DEF FixSuccessor
  <2>2. CASE p # None
    <3>1. p \in ToSet(known) /\ p \in Node
      BY <2>2, FirstPeerIsPeer
    <3>2. FixSuccessor(q, known) = [q EXCEPT !.succ = p]
      BY <2>2 DEF FixSuccessor
    <3> HIDE DEF p
    <3> QED
      BY <2>2, <3>1, <3>2 DEF Sound, Pointer
  <2> QED
    BY <2>1, <2>2
<1>4. Sound(n, FixPredecessor(q, known))
  <2> DEFINE p == FirstPeer(known, {q.pred, q.succ})
  <2>1. CASE p # None
    <3>1. p \in ToSet(known) /\ p \in Node
      BY <2>1, FirstPeerIsPeer
    <3>2. FixPredecessor(q, known) = [q EXCEPT !.pred = p]
      BY <2>1 DEF FixPredecessor
    <3> HIDE DEF p
    <3> QED
      BY <2>1, <3>1, <3>2 DEF Sound, Pointer
  <2>2. CASE p = None /\ known # <<>> /\ q.succ \notin {None, q.pred}
    <3>1. FixPredecessor(q, known) = [q EXCEPT !.pred = q.succ]
      BY <2>2 DEF FixPredecessor
    <3> HIDE DEF p
    <3> QED
      BY <2>2, <3>1 DEF Sound, Pointer
  <2>3. CASE p = None /\ ~ (known # <<>> /\ q.succ \notin {None, q.pred})
    BY <2>3, <1>2 DEF FixPredecessor
  <2> QED
    BY <2>1, <2>2, <2>3
<1> QED
  BY <1>3, <1>4

\* The NOTIFY of a repair goes to another node.
LEMMA NotifyIsHarmless ==
  ASSUME NEW n \in Node, NEW q, Sound(n, q), NEW m \in NotifyOf(n, q)
  PROVE  Harmless(m)
BY DEF NotifyOf, Datagram, Harmless, Sound, Pointer, Types

\* A node takes over new pointers, the others keep theirs.
LEMMA BecomeIsSound ==
  ASSUME PointersSound, NEW n \in Node, NEW q, Sound(n, q), Become(n, q)
  PROVE  PointersSound'
<1>1. /\ succ' \in [Node -> Pointer] /\ pred' \in [Node -> Pointer]
      /\ established' \in [Node -> BOOLEAN]
  BY DEF PointersSound, Become, Sound
<1>2. ASSUME NEW x \in Node PROVE Sound(x, At(x))'
  <2>1. CASE x = n
    <3>1. At(x)' = [succ |-> q.succ, pred |-> q.pred, established |-> q.established]
      BY <2>1 DEF PointersSound, Become, At
    <3> QED
      BY <2>1, <3>1 DEF Sound
  <2>2. CASE x # n
    <3>1. At(x)' = At(x)
      BY <2>2 DEF PointersSound, Become, At
    <3> QED
      BY <3>1 DEF PointersSound, Sound
  <2> QED
    BY <2>1, <2>2
<1> QED
  BY <1>1, <1>2 DEF PointersSound

LEMMA NetStaysSound ==
  ASSUME NetSound, NEW D, \A m \in D : Harmless(m), net' \subseteq net \cup D
  PROVE  NetSound'
BY DEF NetSound, Harmless

\* The steps that move no pointer and send nothing.
LEMMA UnchangedSound ==
  /\ PointersSound /\ UNCHANGED pointers => PointersSound'
  /\ PeersSound /\ UNCHANGED peers => PeersSound'
  /\ CountersSound /\ UNCHANGED <<alive, joining, failures, losses>> => CountersSound'
BY DEF PointersSound, PeersSound, CountersSound, pointers, Sound, At, Known

-----------------------------------------------------------------------------
(***************************************************************************)
(* The start.                                                              *)
(***************************************************************************)
\* The places after and before place i of a ring of L nodes are other places.
LEMMA PlacesBeside ==
  ASSUME NEW L \in Nat, L > 1, NEW i \in 1 .. L
  PROVE  /\ ((i + 0) % L) + 1 \in (1 .. L) \ {i}
         /\ ((i + (L - 2)) % L) + 1 \in (1 .. L) \ {i}
<1>1. CASE i = 1
  <2>1. (i + 0) % L = 1 /\ (i + (L - 2)) % L = L - 1
    BY <1>1
  <2> QED
    BY <1>1, <2>1
<1>2. CASE i # 1 /\ i < L
  <2>1. (i + 0) % L = i /\ (i + (L - 2)) % L = i - 2
    BY <1>2
  <2> QED
    BY <1>2, <2>1
<1>3. CASE i # 1 /\ i = L
  <2>1. (i + 0) % L = 0 /\ (i + (L - 2)) % L = i - 2
    BY <1>3
  <2> QED
    BY <1>3, <2>1
<1> QED
  BY <1>1, <1>2, <1>3

\* In a ring to start from, the neighbours of a node are nodes other than it.
LEMMA NeighboursAreOthers ==
  ASSUME NEW n \in Founders
  PROVE  /\ n \in Node
         /\ Neighbour(n, 0) \in Node \ {n}
         /\ Neighbour(n, Len(RingOf(n)) - 2) \in Node \ {n}
<1> DEFINE r == RingOf(n)
           i == CHOOSE k \in DOMAIN r : r[k] = n
           L == Len(r)
<1>1. r \in Founded /\ n \in ToSet(r)
  BY DEF Founders, RingOf
<1>2. r \in Seq(Node) /\ L > 1 /\ IsInjective(r)
  BY <1>1, FoundedAreRings
<1>3. DOMAIN r = 1 .. L /\ L \in Nat
  BY <1>2
<1>4. i \in 1 .. L /\ r[i] = n
  BY <1>1, <1>3 DEF ToSet
<1>5. /\ Neighbour(n, 0) = r[((i + 0) % L) + 1]
      /\ Neighbour(n, Len(RingOf(n)) - 2) = r[((i + (L - 2)) % L) + 1]
  BY DEF Neighbour
<1> HIDE DEF r, i, L
<1>6. /\ ((i + 0) % L) + 1 \in (1 .. L) \ {i}
      /\ ((i + (L - 2)) % L) + 1 \in (1 .. L) \ {i}
  BY <1>2, <1>3, <1>4, PlacesBeside
<1>7. ASSUME NEW k \in (1 .. L) \ {i} PROVE r[k] \in Node \ {n}
  BY <1>2, <1>3, <1>4 DEF IsInjective, L
<1>8. n \in Node
  BY <1>2, <1>3, <1>4 DEF L
<1> QED
  BY <1>5, <1>6, <1>7, <1>8

LEMMA InitRingInv == Init => RingInv
<1> SUFFICES ASSUME Init PROVE RingInv
  OBVIOUS
<1>1. PointersSound
  <2>1. ASSUME NEW n \in Node PROVE Sound(n, At(n))
    <3>1. CASE n \in Founders
      BY <3>1, NeighboursAreOthers, NoneIsNoNode DEF Init, Sound, At, Pointer
    <3>2. CASE n \notin Founders
      <4>1. succ[n] = None /\ pred[n] = None
        BY <3>2 DEF Init
      <4>2. established = [x \in Node |-> x \in Founders]
        BY DEF Init
      <4>3. established[n] = (n \in Founders)
        BY <4>2
      <4>4. (n \in Founders) = FALSE
        BY <3>2
      <4>5. established[n] = FALSE
        BY ONLY <4>3, <4>4
      <4> QED
        BY <4>1, <4>5, NoneIsNoNode DEF Sound, At, Pointer
    <3> QED
      BY <3>1, <3>2
  <2>2. /\ succ = [n \in Node |-> succ[n]] /\ pred = [n \in Node |-> pred[n]]
        /\ established = [n \in Node |-> established[n]]
    BY DEF Init
  <2>3. ASSUME NEW n \in Node
        PROVE  succ[n] \in Pointer /\ pred[n] \in Pointer /\ established[n] \in BOOLEAN
    BY <2>1 DEF Sound, At
  <2> QED
    BY <2>1, <2>2, <2>3 DEF PointersSound
<1>2. PeersSound
  <2>1. PICK tables \in Tables :
          peers = [n \in Node |-> IF n \in Founders THEN tables[n] ELSE <<>>]
    BY DEF Init
  <2>2. ASSUME NEW n \in Founders
        PROVE  tables[n] \in Seq(Node) /\ n \notin ToSet(tables[n])
    BY TablesHoldPeers
  <2>3. <<>> \in Seq(Node) /\ ToSet(<<>>) = {}
    BY DEF ToSet
  <2> QED
    BY <2>1, <2>2, <2>3 DEF PeersSound, Known
<1>3. NetSound /\ CountersSound
  BY LimitsAreNat DEF Init, NetSound, CountersSound
<1> QED
  BY <1>1, <1>2, <1>3 DEF RingInv

-----------------------------------------------------------------------------
(***************************************************************************)
(* The steps.                                                              *)
(***************************************************************************)
\* The handlers that move one pointer of the addressee and nothing else of it.
LEMMA OnePointerMoves ==
  ASSUME PointersSound, NEW n \in Node, NEW p \in Node \ {n},
         \/ succ' = [succ EXCEPT ![n] = p] /\ UNCHANGED <<pred, established>>
         \/ pred' = [pred EXCEPT ![n] = p] /\ UNCHANGED <<succ, established>>
  PROVE  PointersSound'
<1>1. Sound(n, At(n))
  BY DEF PointersSound
<1>2. CASE succ' = [succ EXCEPT ![n] = p] /\ UNCHANGED <<pred, established>>
  <2> DEFINE q == [At(n) EXCEPT !.succ = p]
  <2>1. Sound(n, q)
    BY <1>1, NoneIsNoNode DEF Sound, Pointer, At
  <2>2. Become(n, q)
    BY <1>2 DEF Become, At, PointersSound
  <2> QED
    BY <2>1, <2>2, BecomeIsSound
<1>3. CASE pred' = [pred EXCEPT ![n] = p] /\ UNCHANGED <<succ, established>>
  <2> DEFINE q == [At(n) EXCEPT !.pred = p]
  <2>1. Sound(n, q)
    BY <1>1, NoneIsNoNode DEF Sound, Pointer, At
  <2>2. Become(n, q)
    BY <1>3 DEF Become, At, PointersSound
  <2> QED
    BY <2>1, <2>2, BecomeIsSound
<1> QED
  BY <1>2, <1>3

LEMMA PeerDiscoveredKeeps ==
  ASSUME RingInv, NEW n \in Node, NEW p \in Node, PeerDiscovered(n, p)
  PROVE  RingInv'
<1> USE DEF RingInv
<1>1. PointersSound'
  BY UnchangedSound DEF PeerDiscovered
<1>2. PeersSound'
  <2>1. peers' \in [Node -> Seq(Node)]
    BY DEF PeerDiscovered, FirstHello, PeersSound
  <2>2. ASSUME NEW x \in Node PROVE x \notin Known(x)'
    <3>1. CASE x = n
      <4>1. peers'[x] = Append(peers[x], p) /\ p # x
        BY <3>1 DEF PeerDiscovered, FirstHello, PeersSound
      <4>2. ToSet(Append(peers[x], p)) \subseteq ToSet(peers[x]) \cup {p}
        BY DEF PeersSound, ToSet
      <4> QED
        BY <4>1, <4>2 DEF PeersSound, Known
    <3>2. CASE x # n
      BY <3>2 DEF PeerDiscovered, FirstHello, PeersSound, Known
    <3> QED
      BY <3>1, <3>2
  <2> QED
    BY <2>1, <2>2 DEF PeersSound
<1>3. NetSound'
  <2> DEFINE D == {Datagram("JOIN_REQUEST", n, p, None, None)}
  <2>1. \A m \in D : Harmless(m)
    BY DEF PeerDiscovered, FirstHello, Datagram, Harmless, Types, Pointer
  <2>2. net' \subseteq net \cup D
    BY DEF PeerDiscovered, OnWire
  <2> HIDE DEF D
  <2> QED
    BY <2>1, <2>2, NetStaysSound
<1>4. CountersSound'
  BY DEF PeerDiscovered, CountersSound
<1> QED
  BY <1>1, <1>2, <1>3, <1>4

LEMMA PeerLostKeeps ==
  ASSUME RingInv, NEW n \in Node, NEW p \in Node, PeerLost(n, p)
  PROVE  RingInv'
<1> USE DEF RingInv
<1> DEFINE known == RemoveFirst(peers[n], p)
           q == IF p = succ[n] THEN FixSuccessor(At(n), known) ELSE At(n)
           r == IF p = q.pred THEN FixPredecessor(q, known) ELSE q
<1>1. /\ peers' = [peers EXCEPT ![n] = known]
      /\ Become(n, r)
      /\ net' = net \cup OnWire(ToSet(known), IF q # At(n) THEN NotifyOf(n, q) ELSE {})
      /\ UNCHANGED <<alive, joining, failures>>
  BY DEF PeerLost, TimedOut, PeersSound
<1>2. known \in Seq(Node) /\ n \notin ToSet(known)
  BY RemoveFirstKeeps DEF PeersSound, Known
<1>3. Sound(n, At(n))
  BY DEF PointersSound
<1> HIDE DEF known
<1>4. Sound(n, q)
  BY <1>2, <1>3, RepairsAreSound
<1> HIDE DEF q
<1>5. Sound(n, r)
  BY <1>2, <1>4, RepairsAreSound
<1> HIDE DEF r
<1>6. PointersSound'
  BY <1>1, <1>5, BecomeIsSound
<1>7. PeersSound'
  BY <1>1, <1>2 DEF PeersSound, Known
<1>8. NetSound'
  BY <1>1, <1>4, NotifyIsHarmless, NetStaysSound DEF OnWire
<1>9. CountersSound'
  BY <1>1, LimitsAreNat DEF PeerLost, TimedOut, CountersSound
<1> QED
  BY <1>6, <1>7, <1>8, <1>9

\* Datagrams that are received, or lost, and answered by nothing.
LEMMA NetShrinks ==
  ASSUME NetSound, net' \subseteq net
  PROVE  NetSound'
BY DEF NetSound, Harmless

LEMMA JoinTimesOutKeeps ==
  ASSUME RingInv, NEW m \in net, JoinTimesOut(m)
  PROVE  RingInv'
<1> USE DEF RingInv
<1>1. PointersSound' /\ PeersSound'
  BY UnchangedSound DEF JoinTimesOut
<1>2. NetSound'
  BY NetShrinks DEF JoinTimesOut
<1>3. CountersSound'
  BY LimitsAreNat DEF JoinTimesOut, CountersSound
<1> QED
  BY <1>1, <1>2, <1>3

LEMMA JoinIgnoredKeeps ==
  ASSUME RingInv, NEW m \in net, JoinIgnored(m)
  PROVE  RingInv'
BY UnchangedSound, NetShrinks DEF RingInv, JoinIgnored

LEMMA JoinMakesRingKeeps ==
  ASSUME RingInv, NEW m \in net, JoinMakesRing(m)
  PROVE  RingInv'
<1> USE DEF RingInv
<1>1. m.from \in Node /\ m.to \in Node /\ m.from # m.to
  BY DEF JoinMakesRing, MayJoin, Receive, NetSound, Harmless
<1>2. PointersSound'
  <2> DEFINE q == [succ |-> m.from, pred |-> m.from, established |-> TRUE]
  <2>1. Sound(m.to, q)
    BY <1>1, NoneIsNoNode DEF Sound, Pointer
  <2>2. Become(m.to, q)
    BY DEF JoinMakesRing
  <2> QED
    BY <1>1, <2>1, <2>2, BecomeIsSound
<1>3. NetSound'
  <2> DEFINE D == {Datagram("JOIN_RESPONSE", m.to, m.from, m.to, m.to)}
  <2>1. \A d \in D : Harmless(d)
    BY <1>1 DEF Datagram, Harmless, Types, Pointer
  <2>2. net' \subseteq net \cup D
    BY DEF JoinMakesRing, Answer, OnWire
  <2> HIDE DEF D
  <2> QED
    BY <2>1, <2>2, NetStaysSound
<1>4. PeersSound' /\ CountersSound'
  BY UnchangedSound DEF JoinMakesRing
<1> QED
  BY <1>2, <1>3, <1>4

\* The requester goes between two nodes: it differs from both.
LEMMA JoinInsertsKeeps ==
  ASSUME RingInv, NEW m \in net, JoinInserts(m)
  PROVE  RingInv'
<1> USE DEF RingInv
<1>1. /\ m.from \in Node /\ m.to \in Node /\ m.from # m.to
      /\ succ[m.to] \in Node /\ m.from # succ[m.to]
  BY DEF JoinInserts, MayJoin, Receive, NetSound, Harmless, PointersSound, Pointer
<1>2. PointersSound'
  BY <1>1, OnePointerMoves DEF JoinInserts
<1>3. NetSound'
  <2>1. \A d \in Insertion(m) : Harmless(d)
    BY <1>1, NoneIsNoNode DEF Insertion, Datagram, Harmless, Types, Pointer
  <2>2. net' \subseteq net \cup Insertion(m)
    BY DEF JoinInserts, Answer, OnWire
  <2> QED
    BY <2>1, <2>2, NetStaysSound
<1>4. PeersSound' /\ CountersSound'
  BY UnchangedSound DEF JoinInserts
<1> QED
  BY <1>2, <1>3, <1>4

LEMMA JoinResponseKeeps ==
  ASSUME RingInv, NEW m \in net, JoinResponse(m)
  PROVE  RingInv'
<1> USE DEF RingInv
<1>1. m.to \in Node /\ m.succ \in Node \ {m.to} /\ m.pred \in Node \ {m.to}
  BY DEF JoinResponse, Receive, NetSound, Harmless
<1>2. PointersSound'
  <2> DEFINE q == [succ |-> m.succ, pred |-> m.pred, established |-> TRUE]
  <2>1. Sound(m.to, q)
    BY <1>1, NoneIsNoNode DEF Sound, Pointer
  <2>2. Become(m.to, q)
    BY DEF JoinResponse
  <2> QED
    BY <1>1, <2>1, <2>2, BecomeIsSound
<1>3. PeersSound'
  BY UnchangedSound DEF JoinResponse
<1>4. NetSound'
  BY NetShrinks DEF JoinResponse
<1>5. CountersSound'
  BY DEF JoinResponse, CountersSound
<1> QED
  BY <1>2, <1>3, <1>4, <1>5


LEMMA UpdatePredecessorKeeps ==
  ASSUME RingInv, NEW m \in net, UpdatePredecessor(m)
  PROVE  RingInv'
<1> USE DEF RingInv
<1>1. m.to \in Node /\ m.pred \in Node \ {m.to}
  BY DEF UpdatePredecessor, Receive, NetSound, Harmless
<1>2. PointersSound'
  BY <1>1, OnePointerMoves DEF UpdatePredecessor
<1>3. NetSound'
  BY NetShrinks DEF UpdatePredecessor
<1>4. PeersSound' /\ CountersSound'
  BY UnchangedSound DEF UpdatePredecessor
<1> QED
  BY <1>2, <1>3, <1>4

LEMMA GetPredecessorKeeps ==
  ASSUME RingInv, NEW m \in net, GetPredecessor(m)
  PROVE  RingInv'
<1> USE DEF RingInv
<1>1. NetSound'
  <2> DEFINE D == {Datagram("PREDECESSOR_RESPONSE", m.to, m.from, None, pred[m.to])}
  <2>1. m.to \in Node /\ m.from \in Node /\ pred[m.to] \in Pointer
    BY DEF NetSound, Harmless, PointersSound
  <2>2. \A d \in D : Harmless(d)
    BY <2>1 DEF Datagram, Harmless, Types, Pointer
  <2>3. net' \subseteq net \cup D
    BY DEF GetPredecessor, Answer, OnWire
  <2> HIDE DEF D
  <2> QED
    BY <2>2, <2>3, NetStaysSound
<1>2. PointersSound' /\ PeersSound' /\ CountersSound'
  BY UnchangedSound DEF GetPredecessor
<1> QED
  BY <1>1, <1>2

\* The predecessor of the successor may be the node itself: then nothing moves.
LEMMA PredecessorResponseKeeps ==
  ASSUME RingInv, NEW m \in net, PredecessorResponse(m)
  PROVE  RingInv'
<1> USE DEF RingInv
<1> DEFINE p == NewSuccessor(m)
           q == [At(m.to) EXCEPT !.succ = p]
<1>1. m.to \in Node /\ Sound(m.to, At(m.to)) /\ m.pred \in Pointer
  BY DEF NetSound, Harmless, PointersSound
<1>2. p \in Pointer /\ p # m.to /\ (p = None => succ[m.to] = None)
  BY <1>1 DEF NewSuccessor, Sound, At, PointersSound
<1>3. succ' = [succ EXCEPT ![m.to] = p] /\ UNCHANGED <<pred, established>>
  BY DEF PredecessorResponse
<1>4. net' \subseteq net \cup NotifyOf(m.to, q)
  BY DEF PredecessorResponse, Answer, OnWire
<1> HIDE DEF p
<1>5. Sound(m.to, q)
  BY <1>1, <1>2 DEF Sound, At, Pointer
<1>6. PointersSound'
  <2>1. Become(m.to, q)
    BY <1>1, <1>3 DEF Become, At, PointersSound
  <2> QED
    BY <1>1, <1>5, <2>1, BecomeIsSound
<1> HIDE DEF q
<1>7. NetSound'
  BY <1>1, <1>4, <1>5, NotifyIsHarmless, NetStaysSound
<1>8. PeersSound' /\ CountersSound'
  BY UnchangedSound DEF PredecessorResponse
<1> QED
  BY <1>6, <1>7, <1>8

LEMMA NotifyKeeps ==
  ASSUME RingInv, NEW m \in net, Notify(m)
  PROVE  RingInv'
<1> USE DEF RingInv
<1>1. m.to \in Node /\ m.from \in Node \ {m.to}
  BY DEF Notify, Receive, NetSound, Harmless
<1>2. PointersSound'
  <2>1. CASE pred[m.to] = None \/ m.from \in Known(m.to)
    <3>1. pred' = [pred EXCEPT ![m.to] = m.from] /\ UNCHANGED <<succ, established>>
      BY <2>1 DEF Notify
    <3> QED
      BY <1>1, <3>1, OnePointerMoves
  <2>2. CASE ~ (pred[m.to] = None \/ m.from \in Known(m.to))
    <3>1. UNCHANGED pointers
      BY <1>1, <2>2 DEF Notify, PointersSound, pointers
    <3> QED
      BY <3>1, UnchangedSound
  <2> QED
    BY <2>1, <2>2
<1>3. NetSound'
  BY NetShrinks DEF Notify
<1>4. PeersSound' /\ CountersSound'
  BY UnchangedSound DEF Notify
<1> QED
  BY <1>2, <1>3, <1>4

LEMMA StabilizeKeeps ==
  ASSUME RingInv, NEW n \in Node, Stabilize(n)
  PROVE  RingInv'
<1> USE DEF RingInv
<1>1. NetSound'
  <2> DEFINE D == {Datagram("GET_PREDECESSOR", n, succ[n], None, None)}
  <2>1. succ[n] \in Node
    BY DEF Stabilize, PointersSound, Pointer
  <2>2. \A d \in D : Harmless(d)
    BY <2>1 DEF Datagram, Harmless, Types, Pointer
  <2>3. net' \subseteq net \cup D
    BY DEF Stabilize, Send, OnWire
  <2> HIDE DEF D
  <2> QED
    BY <2>2, <2>3, NetStaysSound
<1>2. PointersSound' /\ PeersSound' /\ CountersSound'
  BY UnchangedSound DEF Stabilize
<1> QED
  BY <1>1, <1>2

LEMMA CheckSuccessorKeeps ==
  ASSUME RingInv, NEW n \in Node, CheckSuccessor(n)
  PROVE  RingInv'
<1> USE DEF RingInv
<1>1. PeersSound' /\ UNCHANGED <<alive, joining, losses>>
  BY UnchangedSound DEF CheckSuccessor
<1>2. failures' \in [Node -> 0 .. MaxPingFailures - 1]
  BY LimitsAreNat DEF CheckSuccessor, CountersSound
<1>3. CountersSound'
  BY <1>1, <1>2 DEF CountersSound
<1>4. CASE UNCHANGED <<pointers, net>>
  BY <1>1, <1>3, <1>4, UnchangedSound, NetShrinks
<1>5. CASE ~ UNCHANGED <<pointers, net>>
  <2> DEFINE q == FixSuccessor(At(n), peers[n])
  <2>1. Become(n, q) /\ Send(n, NotifyOf(n, q))
    BY <1>5 DEF CheckSuccessor
  <2>2. Sound(n, q)
    BY RepairsAreSound DEF PointersSound, PeersSound, Known
  <2> HIDE DEF q
  <2>3. PointersSound'
    BY <2>1, <2>2, BecomeIsSound
  <2>4. NetSound'
    BY <2>1, <2>2, NotifyIsHarmless, NetStaysSound DEF Send, OnWire
  <2> QED
    BY <1>1, <1>3, <2>3, <2>4
<1> QED
  BY <1>4, <1>5

\* Four repairs in a row, each sound on what the one before it left.
LEMMA ValidateNeighboursKeeps ==
  ASSUME RingInv, NEW n \in Node, ValidateNeighbours(n)
  PROVE  RingInv'
<1> USE DEF RingInv
<1> DEFINE fixSucc(q, needed) == IF needed THEN FixSuccessor(q, peers[n]) ELSE q
           fixPred(q, needed) == IF needed THEN FixPredecessor(q, peers[n]) ELSE q
<1>1. PICK a \in {fixSucc(At(n), succ[n] \notin Known(n) \cup {None})} :
      \E b \in {fixPred(a, pred[n] \notin Known(n) /\ a.pred # None)} :
      \E c \in {fixSucc(b, b.succ = None)} :
      \E d \in {fixPred(c, c.pred = None)} :
        /\ Become(n, d)
        /\ Send(n, (IF a.succ # succ[n] THEN NotifyOf(n, a) ELSE {}) \cup
                   (IF c.succ # b.succ THEN NotifyOf(n, c) ELSE {}))
  BY DEF ValidateNeighbours
<1>2. PICK b \in {fixPred(a, pred[n] \notin Known(n) /\ a.pred # None)} :
      \E c \in {fixSucc(b, b.succ = None)} :
      \E d \in {fixPred(c, c.pred = None)} :
        /\ Become(n, d)
        /\ Send(n, (IF a.succ # succ[n] THEN NotifyOf(n, a) ELSE {}) \cup
                   (IF c.succ # b.succ THEN NotifyOf(n, c) ELSE {}))
  BY <1>1
<1>3. PICK c \in {fixSucc(b, b.succ = None)} :
      \E d \in {fixPred(c, c.pred = None)} :
        /\ Become(n, d)
        /\ Send(n, (IF a.succ # succ[n] THEN NotifyOf(n, a) ELSE {}) \cup
                   (IF c.succ # b.succ THEN NotifyOf(n, c) ELSE {}))
  BY <1>2
<1>4. PICK d \in {fixPred(c, c.pred = None)} :
        /\ Become(n, d)
        /\ Send(n, (IF a.succ # succ[n] THEN NotifyOf(n, a) ELSE {}) \cup
                   (IF c.succ # b.succ THEN NotifyOf(n, c) ELSE {}))
  BY <1>3
<1>5. ASSUME NEW q, Sound(n, q), NEW needed
      PROVE  Sound(n, fixSucc(q, needed)) /\ Sound(n, fixPred(q, needed))
  BY <1>5, RepairsAreSound DEF PeersSound, Known
<1> HIDE DEF fixSucc, fixPred
<1>6. Sound(n, a)
  BY <1>5 DEF PointersSound
<1>7. Sound(n, b)
  BY <1>5, <1>6
<1>8. Sound(n, c)
  BY <1>5, <1>7
<1>9. Sound(n, d)
  BY <1>5, <1>8
<1>10. PointersSound'
  BY <1>4, <1>9, BecomeIsSound
<1>11. NetSound'
  <2>1. \A m \in NotifyOf(n, a) \cup NotifyOf(n, c) : Harmless(m)
    BY <1>6, <1>8, NotifyIsHarmless
  <2>2. net' \subseteq net \cup (NotifyOf(n, a) \cup NotifyOf(n, c))
    BY <1>4 DEF Send, OnWire
  <2> QED
    BY <2>1, <2>2, NetStaysSound
<1>12. PeersSound' /\ CountersSound'
  BY UnchangedSound DEF ValidateNeighbours
<1> QED
  BY <1>10, <1>11, <1>12

\* The same two repairs as for a lost peer, which is still among the peers.
LEMMA LeaderTimesOutKeeps ==
  ASSUME RingInv, NEW n \in Node, NEW leader, LeaderTimesOut(n, leader)
  PROVE  RingInv'
<1> USE DEF RingInv
<1> DEFINE q == IF leader = succ[n] THEN FixSuccessor(At(n), peers[n]) ELSE At(n)
           r == IF leader = q.pred THEN FixPredecessor(q, peers[n]) ELSE q
<1>1. Become(n, r) /\ Send(n, IF q # At(n) THEN NotifyOf(n, q) ELSE {})
  BY DEF LeaderTimesOut
<1>2. peers[n] \in Seq(Node) /\ n \notin ToSet(peers[n])
  BY DEF PeersSound, Known
<1>3. Sound(n, At(n))
  BY DEF PointersSound
<1>4. Sound(n, q)
  BY <1>2, <1>3, RepairsAreSound
<1> HIDE DEF q
<1>5. Sound(n, r)
  BY <1>2, <1>4, RepairsAreSound
<1> HIDE DEF r
<1>6. PointersSound'
  BY <1>1, <1>5, BecomeIsSound
<1>7. NetSound'
  BY <1>1, <1>4, NotifyIsHarmless, NetStaysSound DEF Send, OnWire
<1>8. PeersSound' /\ CountersSound'
  BY UnchangedSound DEF LeaderTimesOut
<1> QED
  BY <1>6, <1>7, <1>8

LEMMA CrashKeeps ==
  ASSUME RingInv, NEW n \in Node, Crash(n)
  PROVE  RingInv'
<1> USE DEF RingInv
<1>1. NetSound'
  BY NetShrinks DEF Crash
<1>2. PointersSound' /\ PeersSound'
  BY UnchangedSound DEF Crash
<1>3. CountersSound'
  BY DEF Crash, CountersSound
<1> QED
  BY <1>1, <1>2, <1>3

LEMMA LoseKeeps ==
  ASSUME RingInv, NEW m \in net, Lose(m)
  PROVE  RingInv'
<1> USE DEF RingInv
<1>1. NetSound'
  BY NetShrinks DEF Lose
<1>2. PointersSound' /\ PeersSound'
  BY UnchangedSound DEF Lose
<1>3. CountersSound'
  BY LimitsAreNat DEF Lose, CountersSound
<1> QED
  BY <1>1, <1>2, <1>3

LEMMA StepKeepsRingInv == RingInv /\ [Next]_vars => RingInv'
<1> SUFFICES ASSUME RingInv, [Next]_vars PROVE RingInv'
  OBVIOUS
<1>1. ASSUME NEW m \in net, Handle(m) PROVE RingInv'
  BY <1>1, JoinTimesOutKeeps, JoinIgnoredKeeps, JoinMakesRingKeeps, JoinInsertsKeeps,
     JoinResponseKeeps, UpdatePredecessorKeeps, GetPredecessorKeeps,
     PredecessorResponseKeeps, NotifyKeeps
     DEF Handle
<1>2. ASSUME NEW m \in net, Lose(m) PROVE RingInv'
  BY <1>2, LoseKeeps
<1>3. ASSUME NEW n \in Node,
             \/ \E p \in Node : PeerDiscovered(n, p) \/ PeerLost(n, p)
             \/ Stabilize(n) \/ CheckSuccessor(n) \/ ValidateNeighbours(n)
             \/ \E leader \in {succ[n], pred[n]} \ {None} : LeaderTimesOut(n, leader)
             \/ Crash(n)
      PROVE  RingInv'
  BY <1>3, PeerDiscoveredKeeps, PeerLostKeeps, StabilizeKeeps, CheckSuccessorKeeps,
     ValidateNeighboursKeeps, LeaderTimesOutKeeps, CrashKeeps
<1>4. CASE UNCHANGED vars
  <2>1. UNCHANGED <<pointers, peers, alive, joining, failures, losses, net>>
    BY <1>4 DEF vars
  <2> QED
    BY <2>1, UnchangedSound, NetShrinks DEF RingInv
<1> QED
  BY <1>1, <1>2, <1>3, <1>4 DEF Next

-----------------------------------------------------------------------------
(***************************************************************************)
(* The theorems.                                                           *)
(***************************************************************************)
\* The inductive invariant holds throughout: a repair, an insertion or a
\* stabilization only ever sets a pointer to another node or leaves the ring.
THEOREM RingInvHolds == Spec => []RingInv
<1>1. Init => RingInv
  BY InitRingInv
<1>2. RingInv /\ [Next]_vars => RingInv'
  BY StepKeepsRingInv
<1> QED
  BY <1>1, <1>2, PTL DEF Spec

\* TypeOK: the handlers of RingService keep the types of what they work on, and
\* the count of missed liveness checks stays under max_ping_failures.
THEOREM TypesHold == Spec => []TypeOK
BY RingInvHolds, RingInvImplies, PTL

\* NobodyIsItsOwnNeighbour: no mixture of late answers, insertions and repairs
\* makes a node its own neighbour, where stabilization would stop for good.
THEOREM NeighboursHold == Spec => []NobodyIsItsOwnNeighbour
BY RingInvHolds, RingInvImplies, PTL

\* EstablishedIsLinked: a node that counts itself in the ring has both of its
\* neighbours, however many of them were lost.
THEOREM LinkedHolds == Spec => []EstablishedIsLinked
BY RingInvHolds, RingInvImplies, PTL
=============================================================================
