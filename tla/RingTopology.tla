---------------------------- MODULE RingTopology ----------------------------
(***************************************************************************)
(* RingService (services/ring_service.py) on top of what DiscoveryService  *)
(* tells it: discovery of peers, the join protocol, stabilization, the     *)
(* liveness check and the repairs, together with the heartbeat loop of     *)
(* LeaderElectionService (_validate_ring_neighbors, _check_leader_alive),  *)
(* which calls the same repairs.                                           *)
(*                                                                         *)
(* Only the ring is modelled: what these handlers do to the leader (the    *)
(* leader a JOIN_RESPONSE carries, the task started when the lost peer is  *)
(* the leader) is left to the election, and the leader whose heartbeats    *)
(* stop may be either neighbour.                                           *)
(*                                                                         *)
(* Every handler runs to its end in one step; handle_join_request, which   *)
(* may wait for the HELLO of the requester, reads nothing before the wait. *)
(* Datagrams may overtake each other, be lost, and reach a node that has   *)
(* crashed; of two identical ones in flight only one is received.          *)
(***************************************************************************)
EXTENDS Naturals, FiniteSets, Sequences, SequencesExt

CONSTANTS
  Node,             \* node ids
  None,             \* Python's None
  Founded,          \* the rings to start from, each the sequence of its nodes
  Tables,           \* the tables of their nodes to start from
  Loops,            \* the periodic loops that are past their initial sleep
  MaxPingFailures,  \* self.max_ping_failures
  MaxLost,          \* bound: datagrams lost
  MaxCrashes        \* bound: nodes that crash

ASSUME NoneIsNoNode == None \notin Node
ASSUME NodeIsFinite == IsFiniteSet(Node)
ASSUME FoundedAreRings ==
  /\ \A r \in Founded : r \in Seq(Node) /\ Len(r) > 1 /\ IsInjective(r)
  /\ \A r, s \in Founded : r # s => ToSet(r) \cap ToSet(s) = {}
Founders == UNION {ToSet(r) : r \in Founded}
\* A table is the peers of a node, in the order in which it has heard of them.
ASSUME TablesHoldPeers ==
  \A tables \in Tables : \A n \in Founders :
    /\ tables[n] \in Seq(Node) /\ IsInjective(tables[n])
    /\ ToSet(tables[n]) = Founders \ {n}
ASSUME LimitsAreNat ==
  MaxPingFailures \in Nat \ {0} /\ MaxLost \in Nat /\ MaxCrashes \in Nat

VARIABLES
  alive,        \* the nodes that have not crashed
  peers,        \* keys of messaging.peers, in the order of the dict
  succ, pred,   \* successor_id, predecessor_id
  established,  \* ring_established
  joining,      \* the node has the attribute _joining
  failures,     \* successor_failures
  net,          \* datagrams in flight
  losses        \* datagrams lost so far

pointers == <<succ, pred, established>>
vars == <<alive, peers, pointers, joining, failures, net, losses>>

Known(n) == ToSet(peers[n])

RingOf(n) == CHOOSE r \in Founded : n \in ToSet(r)
Neighbour(n, offset) ==
  LET r == RingOf(n)
      i == CHOOSE k \in DOMAIN r : r[k] = n
  IN r[((i + offset) % Len(r)) + 1]

\* A datagram; succ and pred are the pointers its payload carries, if any.
Datagram(type, from, to, s, p) ==
  [type |-> type, from |-> from, to |-> to, succ |-> s, pred |-> p]

Types == {"JOIN_REQUEST", "JOIN_RESPONSE", "UPDATE_PREDECESSOR",
          "GET_PREDECESSOR", "PREDECESSOR_RESPONSE", "NOTIFY"}

Init ==
  /\ alive = Node
  /\ \E tables \in Tables :
       peers = [n \in Node |-> IF n \in Founders THEN tables[n] ELSE <<>>]
  /\ succ = [n \in Node |-> IF n \in Founders THEN Neighbour(n, 0) ELSE None]
  /\ pred = [n \in Node |-> IF n \in Founders
                            THEN Neighbour(n, Len(RingOf(n)) - 2) ELSE None]
  /\ established = [n \in Node |-> n \in Founders]
  /\ joining = [n \in Node |-> FALSE]
  /\ failures = [n \in Node |-> 0]
  /\ net = {}
  /\ losses = 0

\* send_message_direct by a node that knows `known'; a crashed node hears nothing.
OnWire(known, datagrams) == {m \in datagrams : m.to \in known /\ m.to \in alive}
Send(n, datagrams) == net' = net \cup OnWire(Known(n), datagrams)

\* m reaches its addressee, which answers with `datagrams'.
Receive(m, type) ==
  /\ m \in net
  /\ m.type = type
Answer(m, datagrams) == net' = (net \ {m}) \cup OnWire(Known(m.to), datagrams)

-----------------------------------------------------------------------------
(***************************************************************************)
(* The repairs, as functions on the pointers of one node.                  *)
(***************************************************************************)
At(n) == [succ |-> succ[n], pred |-> pred[n], established |-> established[n]]

Become(n, q) ==
  /\ succ' = [succ EXCEPT ![n] = q.succ]
  /\ pred' = [pred EXCEPT ![n] = q.pred]
  /\ established' = [established EXCEPT ![n] = q.established]

\* Mutant: a node that leaves the ring stays marked as established.
AloneEstablished == [succ |-> None, pred |-> None, established |-> TRUE]

\* What both repairs do when there is nobody left to point to.
Alone == [succ |-> None, pred |-> None, established |-> FALSE]

\* The first of the peers that is not in `excluded'.
FirstPeer(known, excluded) ==
  LET i == SelectInSeq(known, LAMBDA p : p \notin excluded)
  IN IF i = 0 THEN None ELSE known[i]

\* Mutant: without the old successor the node leaves the ring at once.
FixSuccessorByLeaving(q, known) == Alone

\* _fix_successor: any other peer will do; without one the node leaves the ring.
FixSuccessor(q, known) ==
  LET p == FirstPeer(known, {q.succ})
  IN IF p = None THEN Alone ELSE [q EXCEPT !.succ = p]

\* _fix_predecessor: any other peer, or the successor as in a ring of two.
FixPredecessor(q, known) ==
  LET p == FirstPeer(known, {q.pred, q.succ})
  IN IF p # None THEN [q EXCEPT !.pred = p]
     ELSE IF known # <<>> /\ q.succ \notin {None, q.pred} THEN [q EXCEPT !.pred = q.succ]
     ELSE Alone

\* _notify_successor
NotifyOf(n, q) ==
  IF q.succ \in {None, n} THEN {} ELSE {Datagram("NOTIFY", n, q.succ, None, None)}

-----------------------------------------------------------------------------
(***************************************************************************)
(* Discovery callbacks and the join protocol.                              *)
(***************************************************************************)
\* The first HELLO of p, or the first since p timed out; later ones only refresh
\* last_seen, and the node's own are dropped.
FirstHello(n, p) ==
  /\ {n, p} \subseteq alive
  /\ p # n /\ p \notin Known(n)
  /\ peers' = [peers EXCEPT ![n] = Append(@, p)]

\* A node outside the ring joins through p, unless it is waiting for the answer
\* to another request.
PeerDiscovered(n, p) ==
  /\ FirstHello(n, p)
  /\ LET join == ~established[n] /\ ~joining[n]
     IN /\ joining' = [joining EXCEPT ![n] = @ \/ join]
        /\ net' = net \cup OnWire(Known(n) \cup {p},
                     IF join THEN {Datagram("JOIN_REQUEST", n, p, None, None)} ELSE {})
  /\ UNCHANGED <<alive, pointers, failures, losses>>

\* The clean-up takes out a peer that has crashed, or whose HELLOs are lost.
TimedOut(n, p) ==
  /\ n \in alive
  /\ p \in Known(n)
  /\ \/ p \notin alive /\ UNCHANGED losses
     \/ p \in alive /\ losses < MaxLost /\ losses' = losses + 1
  /\ peers' = [peers EXCEPT ![n] = RemoveFirst(@, p)]

\* Both pointers are repaired where p was the neighbour.
PeerLost(n, p) ==
  /\ TimedOut(n, p)
  /\ LET known == RemoveFirst(peers[n], p)
         q == IF p = succ[n] THEN FixSuccessor(At(n), known) ELSE At(n)
         r == IF p = q.pred THEN FixPredecessor(q, known) ELSE q
     IN /\ Become(n, r)
        /\ net' = net \cup OnWire(ToSet(known), IF q # At(n) THEN NotifyOf(n, q) ELSE {})
  /\ UNCHANGED <<alive, joining, failures>>

\* The HELLO of the requester, sent every 5 s, has not come after 5 s.
JoinTimesOut(m) ==
  /\ Receive(m, "JOIN_REQUEST")
  /\ m.from \notin Known(m.to)
  /\ net' = net \ {m}
  /\ \/ m.from \notin alive /\ UNCHANGED losses
     \/ m.from \in alive /\ losses < MaxLost /\ losses' = losses + 1
  /\ UNCHANGED <<alive, peers, pointers, joining, failures>>

\* A neighbour asks: "already in ring", and no answer.
JoinIgnored(m) ==
  /\ Receive(m, "JOIN_REQUEST")
  /\ m.from \in Known(m.to) \cap {succ[m.to], pred[m.to]}
  /\ net' = net \ {m}
  /\ UNCHANGED <<alive, peers, pointers, joining, failures, losses>>

MayJoin(m) ==
  /\ Receive(m, "JOIN_REQUEST")
  /\ m.from \in Known(m.to) \ {succ[m.to], pred[m.to]}

\* Mutant: the node that makes the ring is not marked as part of it.
JoinMakesRingUnmarked(m) ==
  /\ MayJoin(m)
  /\ succ[m.to] = None
  /\ Become(m.to, [succ |-> m.from, pred |-> m.from, established |-> FALSE])
  /\ Answer(m, {Datagram("JOIN_RESPONSE", m.to, m.from, m.to, m.to)})
  /\ UNCHANGED <<alive, peers, joining, failures, losses>>

\* Nobody joined yet: a ring of two.
JoinMakesRing(m) ==
  /\ MayJoin(m)
  /\ succ[m.to] = None
  /\ Become(m.to, [succ |-> m.from, pred |-> m.from, established |-> TRUE])
  /\ Answer(m, {Datagram("JOIN_RESPONSE", m.to, m.from, m.to, m.to)})
  /\ UNCHANGED <<alive, peers, joining, failures, losses>>

\* Mutant: the new node is told to point back at the node that took it in.
InsertionBackwards(m) ==
  {Datagram("JOIN_RESPONSE", m.to, m.from, m.to, m.to),
   Datagram("UPDATE_PREDECESSOR", m.to, succ[m.to], None, m.from)}

\* Mutant: the old successor is not told.
InsertionUntold(m) == {Datagram("JOIN_RESPONSE", m.to, m.from, succ[m.to], m.to)}

\* What the other two nodes of an insertion are told.
Insertion(m) ==
  {Datagram("JOIN_RESPONSE", m.to, m.from, succ[m.to], m.to),
   Datagram("UPDATE_PREDECESSOR", m.to, succ[m.to], None, m.from)}

\* The requester goes between the node and its successor.
JoinInserts(m) ==
  /\ MayJoin(m)
  /\ succ[m.to] # None
  /\ succ' = [succ EXCEPT ![m.to] = m.from]
  /\ Answer(m, Insertion(m))
  /\ UNCHANGED <<alive, peers, pred, established, joining, failures, losses>>

JoinResponse(m) ==
  /\ Receive(m, "JOIN_RESPONSE")
  /\ Become(m.to, [succ |-> m.succ, pred |-> m.pred, established |-> TRUE])
  /\ joining' = [joining EXCEPT ![m.to] = FALSE]
  /\ net' = net \ {m}
  /\ UNCHANGED <<alive, peers, failures, losses>>

UpdatePredecessor(m) ==
  /\ Receive(m, "UPDATE_PREDECESSOR")
  /\ pred' = [pred EXCEPT ![m.to] = m.pred]
  /\ net' = net \ {m}
  /\ UNCHANGED <<alive, peers, succ, established, joining, failures, losses>>

-----------------------------------------------------------------------------
(***************************************************************************)
(* Stabilization.                                                          *)
(***************************************************************************)
Stabilize(n) ==
  /\ "stabilization" \in Loops
  /\ n \in alive
  /\ succ[n] \notin {None, n}
  /\ Send(n, {Datagram("GET_PREDECESSOR", n, succ[n], None, None)})
  /\ UNCHANGED <<alive, peers, pointers, joining, failures, losses>>

GetPredecessor(m) ==
  /\ Receive(m, "GET_PREDECESSOR")
  /\ Answer(m, {Datagram("PREDECESSOR_RESPONSE", m.to, m.from, None, pred[m.to])})
  /\ UNCHANGED <<alive, peers, pointers, joining, failures, losses>>

\* Mutant: a successor that has no predecessor yet is not told apart.
NewSuccessorEvenNone(m) == IF m.pred = m.to THEN succ[m.to] ELSE m.pred

\* Mutant: the answer "you are my predecessor" is not told apart.
NewSuccessorItself(m) == IF m.pred = None THEN succ[m.to] ELSE m.pred

\* The successor's predecessor becomes the successor, wherever it stands.
NewSuccessor(m) == IF m.pred \in {None, m.to} THEN succ[m.to] ELSE m.pred

PredecessorResponse(m) ==
  /\ Receive(m, "PREDECESSOR_RESPONSE")
  /\ succ' = [succ EXCEPT ![m.to] = NewSuccessor(m)]
  /\ Answer(m, NotifyOf(m.to, [At(m.to) EXCEPT !.succ = NewSuccessor(m)]))
  /\ UNCHANGED <<alive, peers, pred, established, joining, failures, losses>>

Notify(m) ==
  /\ Receive(m, "NOTIFY")
  /\ pred' = [pred EXCEPT ![m.to] = IF @ = None \/ m.from \in Known(m.to)
                                    THEN m.from ELSE @]
  /\ net' = net \ {m}
  /\ UNCHANGED <<alive, peers, succ, established, joining, failures, losses>>

-----------------------------------------------------------------------------
(***************************************************************************)
(* Failure detection.                                                      *)
(***************************************************************************)
\* Mutant: the count is not reset by the repair.
CheckSuccessorCountingOn(n) ==
  /\ "liveness" \in Loops
  /\ n \in alive
  /\ succ[n] \notin {None, n}
  /\ IF succ[n] \in Known(n)
     THEN failures' = [failures EXCEPT ![n] = 0] /\ UNCHANGED <<pointers, net>>
     ELSE /\ failures' = [failures EXCEPT ![n] = @ + 1]
          /\ IF failures[n] + 1 < MaxPingFailures THEN UNCHANGED <<pointers, net>>
             ELSE LET q == FixSuccessor(At(n), peers[n])
                  IN Become(n, q) /\ Send(n, NotifyOf(n, q))
  /\ UNCHANGED <<alive, peers, joining, losses>>

\* _check_successor_alive: a successor that is no peer is replaced after some
\* checks in a row.
CheckSuccessor(n) ==
  /\ "liveness" \in Loops
  /\ n \in alive
  /\ succ[n] \notin {None, n}
  /\ IF succ[n] \in Known(n)
     THEN failures' = [failures EXCEPT ![n] = 0] /\ UNCHANGED <<pointers, net>>
     ELSE IF failures[n] + 1 < MaxPingFailures
     THEN failures' = [failures EXCEPT ![n] = @ + 1] /\ UNCHANGED <<pointers, net>>
     ELSE LET q == FixSuccessor(At(n), peers[n])
          IN /\ failures' = [failures EXCEPT ![n] = 0]
             /\ Become(n, q)
             /\ Send(n, NotifyOf(n, q))
  /\ UNCHANGED <<alive, peers, joining, losses>>

\* _validate_ring_neighbors: four repairs in a row, the first two for neighbours
\* that are no peers, the other two for missing ones.
ValidateNeighbours(n) ==
  /\ "heartbeat" \in Loops
  /\ n \in alive
  /\ LET fixSucc(q, needed) == IF needed THEN FixSuccessor(q, peers[n]) ELSE q
         fixPred(q, needed) == IF needed THEN FixPredecessor(q, peers[n]) ELSE q
     IN \E a \in {fixSucc(At(n), succ[n] \notin Known(n) \cup {None})} :
        \E b \in {fixPred(a, pred[n] \notin Known(n) /\ a.pred # None)} :
        \E c \in {fixSucc(b, b.succ = None)} :
        \E d \in {fixPred(c, c.pred = None)} :
          /\ Become(n, d)
          /\ Send(n, (IF a.succ # succ[n] THEN NotifyOf(n, a) ELSE {}) \cup
                     (IF c.succ # b.succ THEN NotifyOf(n, c) ELSE {}))
  /\ UNCHANGED <<alive, peers, joining, failures, losses>>

\* _check_leader_alive: the heartbeats of the leader have stopped coming, and both
\* pointers are repaired where it was the neighbour.
LeaderTimesOut(n, leader) ==
  /\ "heartbeat" \in Loops
  /\ n \in alive
  /\ LET q == IF leader = succ[n] THEN FixSuccessor(At(n), peers[n]) ELSE At(n)
         r == IF leader = q.pred THEN FixPredecessor(q, peers[n]) ELSE q
     IN /\ Become(n, r)
        /\ Send(n, IF q # At(n) THEN NotifyOf(n, q) ELSE {})
  /\ UNCHANGED <<alive, peers, joining, failures, losses>>

Crash(n) ==
  /\ Cardinality(Node \ alive) < MaxCrashes
  /\ n \in alive
  /\ alive' = alive \ {n}
  /\ net' = {m \in net : m.to # n}
  /\ UNCHANGED <<peers, pointers, joining, failures, losses>>

Lose(m) ==
  /\ m \in net
  /\ losses < MaxLost
  /\ losses' = losses + 1
  /\ net' = net \ {m}
  /\ UNCHANGED <<alive, peers, pointers, joining, failures>>

-----------------------------------------------------------------------------
Handle(m) ==
  \/ JoinTimesOut(m) \/ JoinIgnored(m) \/ JoinMakesRing(m) \/ JoinInserts(m) \/ JoinResponse(m)
  \/ UpdatePredecessor(m) \/ GetPredecessor(m) \/ PredecessorResponse(m) \/ Notify(m)

Next ==
  \/ \E m \in net : Handle(m) \/ Lose(m)
  \/ \E n \in Node :
       \/ \E p \in Node : PeerDiscovered(n, p) \/ PeerLost(n, p)
       \/ Stabilize(n) \/ CheckSuccessor(n) \/ ValidateNeighbours(n)
       \/ \E leader \in {succ[n], pred[n]} \ {None} : LeaderTimesOut(n, leader)
       \/ Crash(n)

Spec == Init /\ [][Next]_vars

\* HELLOs keep coming from the nodes that are alive and from nobody else,
\* datagrams that are not lost are received, the loops come round.
Fairness ==
  \A n \in Node :
    /\ WF_vars(\E p \in alive : PeerDiscovered(n, p))
    /\ WF_vars(\E p \in Node \ alive : PeerLost(n, p))
    /\ WF_vars(Stabilize(n))
    /\ WF_vars(CheckSuccessor(n))
    /\ WF_vars(ValidateNeighbours(n))
    /\ \A t \in Types : WF_vars(\E m \in net : m.to = n /\ m.type = t /\ Handle(m))

FairSpec == Spec /\ Fairness

\* A round of stabilization, three datagrams every 5 s, is over before the next one
\* of any node begins; everything else may come in the middle of it.
RoundsApart ==
  (\E n \in Node : Stabilize(n)) =>
    \A m \in net : m.type \notin {"GET_PREDECESSOR", "PREDECESSOR_RESPONSE", "NOTIFY"}

CalmSpec == Init /\ [][Next /\ RoundsApart]_vars /\ Fairness

-----------------------------------------------------------------------------
(***************************************************************************)
(* Properties.                                                             *)
(***************************************************************************)
Pointer == Node \cup {None}

\* Types; the liveness check never counts further than max_ping_failures - 1
\* between two of its rounds.
TypeOK ==
  /\ alive \subseteq Node
  /\ peers \in [Node -> Seq(Node)]
  /\ succ \in [Node -> Pointer] /\ pred \in [Node -> Pointer]
  /\ established \in [Node -> BOOLEAN] /\ joining \in [Node -> BOOLEAN]
  /\ failures \in [Node -> 0 .. MaxPingFailures - 1]
  /\ net \subseteq [type : Types, from : Node, to : Node, succ : Pointer, pred : Pointer]
  /\ losses \in 0 .. MaxLost

\* `next' walks one cycle through all of S.
OneCycle(next, S) ==
  /\ \A n \in S : next[n] \in S
  /\ \A T \in SUBSET S : T # {} /\ (\A n \in T : next[n] \in T) => T = S

\* Neither pointer of a node ever points at the node itself, whatever mixture of
\* late answers, repairs and insertions it has seen: _stabilize and
\* _notify_successor would go silent there, and the node would be cut off.
NobodyIsItsOwnNeighbour == \A n \in Node : succ[n] # n /\ pred[n] # n

\* ring_established, which decides who answers an election and who still asks to
\* join, is set only while both pointers are.
EstablishedIsLinked == \A n \in Node : established[n] => succ[n] # None /\ pred[n] # None

\* Where the successor pointer is heading: the one a JOIN_RESPONSE brings.
Heading == [n \in Node |->
  LET responses == {m \in net : m.to = n /\ m.type = "JOIN_RESPONSE"}
  IN IF responses = {} THEN succ[n] ELSE (CHOOSE m \in responses : TRUE).succ]

\* An insertion (handle_join_request, handle_join_response) never opens the ring
\* nor cuts anybody off: counting the answer on its way, the successors make one
\* cycle through every node that is in.
JoinKeepsRing == OneCycle(Heading, {n \in Node : Heading[n] # None})

\* When nothing is in flight the two pointers of every link agree.
LinksAgree == net = {} => \A n \in Node : succ[n] # None => pred[succ[n]] = n

\* "RingService joins ring when peers discovered" (low-level-arch.md:193): in the
\* end everybody alive is in a ring.
EventuallyEstablished == <>[](\A n \in alive : established[n])

\* "Periodic stabilization to maintain ring correctness" (ring_service.py:278) and
\* "RingService repairs topology" (low-level-arch.md:203): in the end the
\* successors of the nodes alive make one ring.
EventuallyOneRing == <>[](OneCycle(succ, alive))
=============================================================================
