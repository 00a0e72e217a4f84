------------------------------ MODULE Failover ------------------------------
(***************************************************************************)
(* RingService and LeaderElectionService together: what happens to the     *)
(* leadership when nodes join, crash or fall silent while the ring is      *)
(* repaired under the election.  The steps of the two services are those   *)
(* of RingTopology and HSElection; this module adds what passes between    *)
(* them: the failure detector of the heartbeat loop, the failure handler   *)
(* with its wait for a stable ring, the stability that gates an election,  *)
(* and the leader a JOIN_RESPONSE carries.                                 *)
(*                                                                         *)
(* Time is what the code compares it with: whether 3 s have passed since   *)
(* the last change of the topology (settled), and whether the last         *)
(* heartbeat is older than 10 s (heard).                                   *)
(*                                                                         *)
(* Two things differ from the components.  Announcements and heartbeats    *)
(* are received once, and stabilization does not run; the runs of the      *)
(* components have both.  The broadcast of a leader that crashes is cut    *)
(* short at any point (Crash).                                             *)
(***************************************************************************)
EXTENDS Naturals, FiniteSets, Sequences, SequencesExt

CONSTANTS
  Node, None,
  Start,        \* the ring to start from, the sequence of its members
  Tables,       \* the tables of its members to start from
  Assumed,      \* what is assumed of time, some of Assumptions
  MaxPhase,     \* self.max_phase
  Asking,       \* bound: nodes at which elect is typed, once each
  MaxRounds,    \* bound: elections started by each node
  MaxCrashes,   \* bound: nodes that crash
  MaxLost       \* bound: times the HELLOs or heartbeats of a live node stop

ASSUME NoneIsNoNode == None \notin Node
ASSUME NodesAreOrdered == Node \subseteq Nat /\ IsFiniteSet(Node)
ASSUME StartIsRing == Start \in Seq(Node) /\ Len(Start) > 1 /\ IsInjective(Start)
ASSUME TablesHoldPeers ==
  \A tables \in Tables : \A n \in ToSet(Start) :
    /\ tables[n] \in Seq(Node) /\ IsInjective(tables[n])
    /\ ToSet(tables[n]) = ToSet(Start) \ {n}
ASSUME LimitsAreNat == MaxCrashes \in Nat /\ MaxLost \in Nat

\* "delivery": a datagram takes less than 3 s.  "detection": all nodes notice a
\* crash within 3 s of each other.  "hearing": no HELLO or heartbeat of a live
\* node is so late that it times out.  "spacing": nobody crashes before the last
\* crash, join or election is over, and a new node is in the ring within 5 s.
\* "asking": elect is typed when everybody is in the ring, knows exactly those that
\* are alive, and the highest of them leads.
Assumptions == {"delivery", "detection", "hearing", "spacing", "asking"}
ASSUME AssumedAreAssumptions == Assumed \subseteq Assumptions

VARIABLES
  alive, peers, succ, pred, established, joining, failures, net, losses,
  leaderId, isLeader, inProgress, participating, awaiting, scheduled, round,
  probes, replies, claims, processed,
  settled,  \* 3 s (_min_stable_duration) since _last_topology_change
  heard,    \* age of last_heartbeat_time: "never" (None), "recent" or "old"
  created,  \* a task of _handle_leader_failure has been created
  waiting,  \* tasks of _handle_leader_failure inside wait_for_stable_ring
  loop,     \* where _heartbeat_loop is
  told,     \* current_leader of the JOIN_RESPONSE on its way to the node
  asked     \* nodes at which elect has been typed

R == INSTANCE RingTopology
  WITH Founded <- {Start}, Loops <- {"heartbeat", "liveness"}, MaxPingFailures <- 3
HS == INSTANCE HSElection
  WITH peers <- [n \in Node |-> ToSet(peers[n])],
       Rings <- {}, Newcomers <- {}, Earlier <- {}, Losable <- {}

topology == <<alive, peers, succ, pred, established, joining, failures, net, losses>>
leadership == <<leaderId, isLeader>>
state == <<inProgress, participating, awaiting>>
election == <<state, scheduled, round, probes, replies, processed>>
handlers == <<created, waiting, loop>>
vars == <<topology, leadership, election, claims, settled, heard, handlers, told, asked>>

Members == ToSet(Start)

Init ==
  /\ R!Init
  /\ leaderId = [n \in Node |-> IF n \in Members THEN Max(Members) ELSE None]
  /\ isLeader = [n \in Node |-> leaderId[n] = n]
  /\ heard = [n \in Node |-> "never"]
  /\ inProgress = [n \in Node |-> FALSE]
  /\ participating = [n \in Node |-> FALSE]
  /\ awaiting = [n \in Node |-> {}]
  /\ scheduled = [n \in Node |-> FALSE]
  /\ round = [n \in Node |-> 0]
  /\ probes = {} /\ replies = {} /\ claims = {} /\ processed = {}
  /\ settled = [n \in Node |-> TRUE]
  /\ created = [n \in Node |-> FALSE]
  /\ waiting = [n \in Node |-> 0]
  /\ loop = [n \in Node |-> IF n \in Members THEN "top" ELSE "setup"]
  /\ told = [n \in Node |-> None]
  /\ asked = {}

-----------------------------------------------------------------------------
(***************************************************************************)
(* The stability of the ring.                                              *)
(***************************************************************************)
\* is_in_ring
InRing(n) == established[n] /\ succ[n] # None

\* is_ring_stable
Stable(n) ==
  /\ established[n]
  /\ {succ[n], pred[n]} \subseteq ToSet(peers[n])
  /\ settled[n]

\* Nothing a dead node said is still on its way.
LastWordsArrived == \A m \in claims : m.to \in alive => m.leader \in alive

\* Seconds pass only while no failure handler is due for its first turn.
SecondsPass ==
  /\ \A n \in alive : ~created[n]
  /\ "delivery" \in Assumed => LastWordsArrived /\ net = {}

\* Whoever has heard of a node that is dead has noticed: by the time-out of
\* its HELLOs, or by that of its heartbeats.
AllNoticed ==
  \A n \in alive : \/ ToSet(peers[n]) \subseteq alive
                   \/ {leaderId[n], succ[n], pred[n]} \subseteq alive \cup {None}

\* 3 s pass without another change.
Settle(n) ==
  /\ n \in alive
  /\ ~settled[n]
  /\ SecondsPass
  /\ "detection" \in Assumed => AllNoticed
  /\ settled' = [settled EXCEPT ![n] = TRUE]
  /\ UNCHANGED <<topology, leadership, election, claims, heard, handlers, told, asked>>

-----------------------------------------------------------------------------
(***************************************************************************)
(* Starting an election.                                                   *)
(***************************************************************************)
\* Mutant: one of the copies of the leadership is forgotten.
DeclareSelfInNameOnly(n) ==
  /\ leaderId' = [leaderId EXCEPT ![n] = n]
  /\ HS!Retire(n)
  /\ UNCHANGED <<isLeader, round, probes>>

\* Outside any ring a node leads, and tells nobody until its next heartbeat.
DeclareSelf(n) ==
  /\ leaderId' = [leaderId EXCEPT ![n] = n]
  /\ isLeader' = [isLeader EXCEPT ![n] = TRUE]
  /\ HS!Retire(n)
  /\ UNCHANGED <<round, probes>>

\* Mutant: any ring that is not stable is taken for none.
StartElectionUnlessStable(n) ==
  \/ ~Stable(n) /\ DeclareSelf(n)
  \/ Stable(n) /\ inProgress[n] /\ UNCHANGED <<leadership, state, round, probes>>
  \/ Stable(n) /\ HS!StartElection(n) /\ UNCHANGED leadership

\* Mutant: an unstable ring does not stop the election.
StartElectionAnyway(n) ==
  \/ ~InRing(n) /\ DeclareSelf(n)
  \/ InRing(n) /\ inProgress[n] /\ UNCHANGED <<leadership, state, round, probes>>
  \/ InRing(n) /\ HS!StartElection(n) /\ UNCHANGED leadership

\* start_election
StartElection(n) ==
  \/ ~InRing(n) /\ DeclareSelf(n)
  \/ /\ InRing(n)
     /\ ~Stable(n) \/ inProgress[n]
     /\ UNCHANGED <<leadership, state, round, probes>>
  \/ /\ Stable(n)
     /\ \/ HS!StartElection(n)
        \/ ~HS!MayStart(n) /\ UNCHANGED <<state, round, probes>>
     /\ UNCHANGED leadership

RunScheduled(n) ==
  /\ n \in alive
  /\ scheduled[n]
  /\ scheduled' = [scheduled EXCEPT ![n] = FALSE]
  /\ StartElection(n)
  /\ UNCHANGED <<topology, replies, claims, processed, settled, heard, handlers, told, asked>>

\* Everybody is in the ring and knows exactly those that are alive.
Whole == \A n \in alive : established[n] /\ ToSet(peers[n]) = alive \ {n}

\* The "elect" command.
Elect(n) ==
  /\ n \in alive
  /\ n \in Asking \ asked
  /\ "asking" \in Assumed => Whole /\ isLeader[Max(alive)]
  /\ asked' = asked \cup {n}
  /\ StartElection(n)
  /\ UNCHANGED <<topology, scheduled, replies, claims, processed, settled, heard, handlers, told>>

-----------------------------------------------------------------------------
(***************************************************************************)
(* _handle_leader_failure: as a task of its own, or inside the heartbeat   *)
(* loop, which it holds up.                                                *)
(***************************************************************************)
ForgetLeader(n) ==
  /\ leaderId' = [leaderId EXCEPT ![n] = None]
  /\ isLeader' = [isLeader EXCEPT ![n] = FALSE]
  /\ heard' = [heard EXCEPT ![n] = "never"]

FailureStarts(n) ==
  /\ n \in alive
  /\ created[n]
  /\ created' = [created EXCEPT ![n] = FALSE]
  /\ ForgetLeader(n)
  /\ waiting' = [waiting EXCEPT ![n] = @ + 1]
  /\ UNCHANGED <<topology, election, claims, settled, loop, told, asked>>

\* The rest of the handler: the ring has become stable, or 10 s are over.
AfterWait(n) ==
  /\ Stable(n) \/ SecondsPass
  /\ \/ leaderId[n] # None /\ UNCHANGED <<leadership, state, round, probes>>
     \/ leaderId[n] = None /\ StartElection(n)

FailureResumes(n) ==
  /\ n \in alive
  /\ waiting[n] > 0
  /\ waiting' = [waiting EXCEPT ![n] = @ - 1]
  /\ AfterWait(n)
  /\ UNCHANGED <<topology, scheduled, replies, processed, claims, settled, heard,
                 created, loop, told, asked>>

LoopResumes(n) ==
  /\ n \in alive
  /\ loop[n] = "waiting"
  /\ loop' = [loop EXCEPT ![n] = "top"]
  /\ AfterWait(n)
  /\ UNCHANGED <<topology, scheduled, replies, processed, claims, settled, heard,
                 created, waiting, told, asked>>

-----------------------------------------------------------------------------
(***************************************************************************)
(* _heartbeat_loop                                                         *)
(***************************************************************************)
\* Both loops of a node sleep first, the heartbeat loop 5 s, the liveness check
\* 10 s.
LoopBegins(n) ==
  /\ n \in alive
  /\ loop[n] = "setup"
  /\ "spacing" \in Assumed => established[n] /\ alive \ {n} \subseteq ToSet(peers[n])
  /\ loop' = [loop EXCEPT ![n] = "top"]
  /\ UNCHANGED <<topology, leadership, election, claims, settled, heard,
                 created, waiting, told, asked>>

SendHeartbeat(n) ==
  /\ n \in alive
  /\ loop[n] = "top"
  /\ isLeader[n]
  /\ claims' = claims \cup {m \in HS!Claims(n, "LEADER_HEARTBEAT") : m.to \in alive}
  /\ UNCHANGED <<topology, leadership, election, settled, heard, handlers, told, asked>>

\* A heartbeat would reach n before its timer runs out.
HeartbeatDue(n) ==
  \/ \E m \in claims : m.type = "LEADER_HEARTBEAT" /\ m.to = n
  \/ \E l \in alive : isLeader[l] /\ n \in ToSet(peers[l])

\* 10 s without a heartbeat.
HeartbeatsStop(n) ==
  /\ n \in alive
  /\ heard[n] = "recent"
  /\ SecondsPass
  /\ "hearing" \in Assumed => ~HeartbeatDue(n)
  /\ heard' = [heard EXCEPT ![n] = "old"]
  /\ UNCHANGED <<topology, leadership, election, claims, settled, handlers, told, asked>>

\* _check_leader_alive finds the leader dead: the ring is repaired where the
\* leader is a neighbour, before the failure is handled in the loop.
HeartbeatTimesOut(n) ==
  /\ n \in alive
  /\ loop[n] = "top"
  /\ leaderId[n] # None /\ ~isLeader[n] /\ ~inProgress[n]
  /\ heard[n] = "old"
  /\ settled' = [settled EXCEPT ![n] = FALSE]
  /\ R!LeaderTimesOut(n, leaderId[n])
  /\ ForgetLeader(n)
  /\ loop' = [loop EXCEPT ![n] = "waiting"]
  /\ UNCHANGED <<election, claims, created, waiting, told, asked>>

NeedsLeader(n) == ~isLeader[n] /\ leaderId[n] = None /\ ~inProgress[n]

\* A node in a ring waits a moment, ...
AfterRepair(n) == IF InRing(n) THEN "jitter" ELSE "top"

\* No leader, no election: the loop has the neighbours repaired, for whose sake it
\* pauses where one of them was missing.
Validate(n) ==
  /\ loop[n] = "top"
  /\ NeedsLeader(n)
  /\ R!ValidateNeighbours(n)
  /\ loop' = [loop EXCEPT
       ![n] = IF {succ[n], pred[n]} \subseteq ToSet(peers[n]) THEN AfterRepair(n) ELSE "pause"]
  /\ UNCHANGED <<leadership, election, claims, settled, heard, created, waiting, told, asked>>

PauseEnds(n) ==
  /\ n \in alive
  /\ loop[n] = "pause"
  /\ loop' = [loop EXCEPT ![n] = AfterRepair(n)]
  /\ UNCHANGED <<topology, leadership, election, claims, settled, heard,
                 created, waiting, told, asked>>

\* ... and creates the task unless something came up meanwhile.
AutoStart(n) ==
  /\ n \in alive
  /\ loop[n] = "jitter"
  /\ loop' = [loop EXCEPT ![n] = "top"]
  /\ scheduled' = [scheduled EXCEPT
       ![n] = @ \/ (~inProgress[n] /\ leaderId[n] = None)]
  /\ UNCHANGED <<topology, leadership, state, round, probes, replies, processed,
                 claims, settled, heard, created, waiting, told, asked>>

-----------------------------------------------------------------------------
(***************************************************************************)
(* The election's datagrams.                                               *)
(***************************************************************************)
HandleElection(m) ==
  /\ m.to \in alive
  /\ UNCHANGED <<topology, settled, heard, handlers, told, asked>>
  /\ HS!HandleProbe(m) \/ HS!HandleReply(m)

ReceiveClaim(m, type) ==
  /\ m \in claims
  /\ m.to \in alive
  /\ m.type = type
  /\ claims' = claims \ {m}

HandleAnnouncement(m) ==
  /\ ReceiveClaim(m, "LEADER_ANNOUNCEMENT")
  /\ HS!Follow(m)
  /\ HS!Retire(m.to)
  /\ UNCHANGED <<topology, scheduled, round, probes, replies, processed, settled,
                 heard, handlers, told, asked>>

HandleHeartbeat(m) ==
  /\ ReceiveClaim(m, "LEADER_HEARTBEAT")
  /\ heard' = [heard EXCEPT ![m.to] = "recent"]
  /\ IF leaderId[m.to] = m.leader THEN UNCHANGED leadership ELSE HS!Follow(m)
  /\ UNCHANGED <<topology, election, settled, handlers, told, asked>>

-----------------------------------------------------------------------------
(***************************************************************************)
(* Members come and go.                                                    *)
(***************************************************************************)
Discovered(n, p) ==
  /\ R!PeerDiscovered(n, p)
  /\ UNCHANGED <<leadership, election, claims, settled, heard, handlers, told, asked>>

\* Mutant: nobody tells the election that the leader is lost.
LostUntold(n, p) ==
  /\ "hearing" \in Assumed => p \notin alive
  /\ "delivery" \in Assumed => LastWordsArrived
  /\ R!PeerLost(n, p)
  /\ settled' = [settled EXCEPT ![n] = FALSE]
  /\ UNCHANGED <<leadership, election, claims, heard, handlers, told, asked>>

\* Mutant: the loss of any peer is taken for that of the leader.
LostAnybody(n, p) ==
  /\ "hearing" \in Assumed => p \notin alive
  /\ "delivery" \in Assumed => LastWordsArrived
  /\ R!PeerLost(n, p)
  /\ settled' = [settled EXCEPT ![n] = FALSE]
  /\ created' = [created EXCEPT ![n] = TRUE]
  /\ UNCHANGED <<leadership, election, claims, heard, waiting, loop, told, asked>>

\* _on_peer_lost
Lost(n, p) ==
  /\ "hearing" \in Assumed => p \notin alive
  /\ "delivery" \in Assumed => LastWordsArrived
  /\ R!PeerLost(n, p)
  /\ settled' = [settled EXCEPT ![n] = FALSE]
  /\ created' = [created EXCEPT ![n] = @ \/ p = leaderId[n]]
  /\ UNCHANGED <<leadership, election, claims, heard, waiting, loop, told, asked>>

\* handle_join_request: a response carries the leader its sender knows.
HandleJoin(m) ==
  /\ \/ (R!JoinTimesOut(m) \/ R!JoinIgnored(m)) /\ UNCHANGED told
     \/ /\ R!JoinMakesRing(m) \/ R!JoinInserts(m)
        /\ told' = [told EXCEPT ![m.from] = leaderId[m.to]]
  /\ UNCHANGED <<leadership, election, claims, settled, heard, handlers, asked>>

\* Mutant: the leader in the response is not taken over.
AdoptNobody(n, l) == HS!Retire(n) /\ UNCHANGED leadership

\* The leader in a response, which may be the node itself.
AdoptLeader(n, l) ==
  /\ leaderId' = [leaderId EXCEPT ![n] = l]
  /\ isLeader' = [isLeader EXCEPT ![n] = (l = n)]
  /\ HS!Retire(n)

\* handle_join_response
HandleJoinResponse(m) ==
  /\ R!JoinResponse(m)
  /\ IF told[m.to] = None THEN UNCHANGED <<leadership, state>>
                          ELSE AdoptLeader(m.to, told[m.to])
  /\ told' = [told EXCEPT ![m.to] = None]
  /\ UNCHANGED <<scheduled, round, probes, replies, processed, claims, settled,
                 heard, handlers, asked>>

HandlePointer(m) ==
  /\ R!UpdatePredecessor(m) \/ R!Notify(m)
  /\ UNCHANGED <<leadership, election, claims, settled, heard, handlers, told, asked>>

CheckSuccessor(n) ==
  /\ loop[n] # "setup"
  /\ R!CheckSuccessor(n)
  /\ UNCHANGED <<leadership, election, claims, settled, heard, handlers, told, asked>>

HandleRing(m) == HandleJoin(m) \/ HandleJoinResponse(m) \/ HandlePointer(m)

\* The last crash, join or election is over: everybody is in the ring again and
\* follows somebody alive, and no datagram of a join or an election is on its way.
\* Failure handlers may still wait, and heartbeats and announcements still arrive.
Recovered ==
  /\ Whole
  /\ \A n \in alive :
       /\ leaderId[n] \in alive
       /\ ~inProgress[n] /\ ~scheduled[n] /\ loop[n] # "setup"
  /\ \A m \in (probes \cup replies) \ processed : m.to \notin alive
  /\ net = {}

\* A leader that crashes in the middle of a broadcast has sent to some peers only.
\* Under "spacing" that is a heartbeat, or an announcement of whom all follow already.
Crash(n) ==
  /\ "spacing" \in Assumed => Recovered
  /\ R!Crash(n)
  /\ \E unsent \in SUBSET {m \in claims : m.leader = n} :
       claims' = {m \in claims \ unsent : m.to # n}
  /\ UNCHANGED <<leadership, election, settled, heard, handlers, told, asked>>

-----------------------------------------------------------------------------
HandleClaim(m) == HandleAnnouncement(m) \/ HandleHeartbeat(m)
Tasks(n) == RunScheduled(n) \/ FailureStarts(n) \/ FailureResumes(n)
Loop(n) ==
  \/ LoopBegins(n) \/ LoopResumes(n) \/ SendHeartbeat(n) \/ HeartbeatTimesOut(n)
  \/ Validate(n) \/ PauseEnds(n) \/ AutoStart(n)

Next ==
  \/ \E n \in Node :
       \/ Settle(n) \/ Tasks(n) \/ Loop(n) \/ HeartbeatsStop(n) \/ CheckSuccessor(n)
       \/ Elect(n) \/ Crash(n)
       \/ \E p \in Node : Discovered(n, p) \/ Lost(n, p)
  \/ \E m \in probes \cup replies : HandleElection(m)
  \/ \E m \in claims : HandleClaim(m)
  \/ \E m \in net : HandleRing(m)

Spec == Init /\ [][Next]_vars

\* What a node does once its cause is there: a timer runs out, a task gets its
\* turn, a datagram arrives, and the HELLOs of a node start or stop coming.
React(n) ==
  \/ Settle(n) \/ HeartbeatsStop(n) \/ FailureStarts(n) \/ FailureResumes(n)
  \/ \E p \in alive : Discovered(n, p)
  \/ \E p \in Node \ alive : Lost(n, p)
  \/ \E m \in probes \cup replies : m.to = n /\ HandleElection(m)
  \/ \E m \in net : m.to = n /\ HandleRing(m)

\* A node reacts, and its loops come round.
FairSpec ==
  /\ Spec
  /\ \A n \in Node :
       /\ WF_vars(React(n)) /\ WF_vars(RunScheduled(n))
       /\ WF_vars(Loop(n)) /\ WF_vars(CheckSuccessor(n))
       /\ WF_vars(\E m \in claims : m.to = n /\ HandleClaim(m))

-----------------------------------------------------------------------------
(***************************************************************************)
(* Properties.                                                             *)
(***************************************************************************)
\* Whoever crashes between two elections, in the middle of a heartbeat broadcast or
\* with failure handlers of the last crash still asleep, the survivors agree in the
\* end on a leader that is alive and knows it: failures are noticed (_on_peer_lost,
\* _check_leader_alive), the handler does not give up for good when the ring is not
\* stable in time, and the last node leads itself.  It takes all of Assumptions: a
\* crash in the middle of an election leaves a candidate waiting for ever.
EventuallyLed ==
  <>[](\E l \in alive : isLeader[l] /\ \A n \in alive : leaderId[n] = l)

\* No two nodes that are alive lead at the same time: _handle_leader_failure and
\* start_election let a node declare itself only when there is nobody else, and an
\* elect is answered by the leader with an election it wins itself.  It takes
\* "asking": typed outside a ring, or in a ring with a new node above the leader,
\* elect makes a second node lead until the announcement reaches the first.
OneLiveLeader == \A n, p \in alive : isLeader[n] /\ isLeader[p] => n = p

\* "Elects node with highest UUID" (low-level-arch.md:106), also over the ring that is
\* left of a larger one: whoever leads is the leader they started with, whom a new node
\* does not challenge, or the highest that is alive, new nodes included.  Under
\* "asking" elect does not change that.
HighestSurvivorLeads ==
  \A n \in alive : isLeader[n] => n = Max(Members) \/ \A m \in alive : m <= n

\* Neither the failure of another node, nor a handler that wakes up late, nor an
\* old announcement, nor an elect takes the lead from a leader that is alive.  It
\* takes "asking", which keeps elect from a ring with a node above the leader, and
\* "spacing": no leader dies with half of its first announcement received.
LiveLeaderKept ==
  [][\A n \in alive \cap alive' : isLeader[n] => isLeader'[n] /\ leaderId'[n] = n]_vars

\* "If failed peer was leader: election triggered" (low-level-arch.md:204), and only
\* then: as long as the first leader lives its members keep to it, whoever else
\* crashes and whatever is left of the ring, and nobody starts an election.  A new
\* node does not either, "since we know the leader" (ring_service.py:250), even if its
\* uuid is the highest.  This is about elections the code starts: nobody types elect.
ElectionOnlyForTheLeader ==
  Max(Members) \in alive /\ asked = {} =>
    /\ \A n \in Members : leaderId[n] = Max(Members)
    /\ round = [n \in Node |-> 0]

\* "Treat as failed reply so election doesn't hang" (leader_election.py:252): as
\* long as a candidate waits, a probe of its own or the answer to it is on its
\* way to somebody alive.  The stability that gates an election gives it together
\* with "detection", "spacing" and "asking": who elects has noticed the last crash,
\* nobody crashes under an election, and nobody types elect before all have noticed.
CandidateWaitsForTheLiving ==
  \A n \in alive : inProgress[n] =>
    \E m \in (probes \cup replies) \ processed : m.initiator = n /\ m.to \in alive

\* is_leader and leader_id, written in eight places by two services, never say
\* different things: the heartbeat loop decides by the one, the failure handler
\* and JOIN_RESPONSE by the other.
LeaderKnowsItself == \A n \in Node : isLeader[n] <=> leaderId[n] = n

\* Joining with the leadership and the loops beside it: until somebody crashes the
\* ring is never open, and in the end all links agree.
JoinKeepsRing == alive = Node => R!JoinKeepsRing
LinksAgree == alive = Node => R!LinksAgree

\* "RingService repairs topology" (low-level-arch.md:203), with the heartbeat loop and
\* the failure handler repairing the same pointers (leader_election.py:828-848) in
\* whatever order they notice: the successors of the survivors end up in one ring.
EventuallyOneRing == <>[](Cardinality(alive) > 1 => R!OneCycle(succ, alive))
=============================================================================
