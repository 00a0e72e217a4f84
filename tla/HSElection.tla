----------------------------- MODULE HSElection -----------------------------
(***************************************************************************)
(* LeaderElectionService (services/leader_election.py) over a ring that is *)
(* established and does not change while the module looks at it: probes in *)
(* both directions, replies and rejections, the announcement, the leader's *)
(* heartbeats, and the ways an election is started.                        *)
(*                                                                         *)
(* Every handler runs to its end in one step: the only await in it is the  *)
(* sock_sendto of a datagram, which does not suspend while the socket      *)
(* buffer has room.  asyncio.create_task(start_election()) is different:   *)
(* it leaves a task pending (`scheduled') that runs in a later step.       *)
(*                                                                         *)
(* Datagrams stay on the wire once sent: they are received never, late, or *)
(* more than once.  ELECTION and ELECTION_REPLY are dropped by their       *)
(* msg_id when seen before (`processed'); announcements and heartbeats are *)
(* not.                                                                    *)
(***************************************************************************)
EXTENDS Naturals, FiniteSets

CONSTANTS
  Node,       \* node uuids; only their order matters, so they are numbers
  None,       \* Python's None
  Rings,      \* the rings to start from: records of two inverse functions
  Newcomers,  \* nodes that may have heard the HELLO of their neighbours only
  MaxPhase,   \* self.max_phase
  Earlier,    \* elections each node has behind it at the start, as alternatives
  Losable,    \* kinds of datagram the network may lose for good
  MaxRounds,  \* bound: elections started by each node, earlier ones included
  MaxLost     \* bound: datagrams lost for good

\* s and p walk the same single cycle through all nodes, in the two directions.
IsRing(s, p) ==
  /\ s \in [Node -> Node] /\ p \in [Node -> Node]
  /\ \A n \in Node : p[s[n]] = n /\ s[p[n]] = n /\ s[n] # n
  /\ \A S \in SUBSET Node : S # {} /\ (\A n \in S : s[n] \in S) => S = Node

ASSUME NodesAreOrdered == Node \subseteq Nat /\ IsFiniteSet(Node) /\ None \notin Node
ASSUME RingsAreRings == \A r \in Rings : IsRing(r.succ, r.pred)
ASSUME BoundsAreNat ==
  /\ MaxPhase \in Nat /\ MaxLost \in Nat /\ MaxRounds \in [Node -> Nat]
  /\ Earlier \subseteq [Node -> Nat]

\* 2 ** phase, max_hops in _run_phase.
MaxHops(k) == 2 ^ k
ASSUME HopsAreNat == \A k \in 0 .. MaxPhase : MaxHops(k) \in Nat

VARIABLES
  succ, pred,     \* ring_service.successor_id, predecessor_id
  peers,          \* keys of messaging.peers
  leaderId,       \* leader_id (the service's and the node's are always equal)
  isLeader,       \* is_leader
  inProgress,     \* election_in_progress
  participating,  \* is_participating
  awaiting,       \* awaiting_replies, as the set of <<phase, direction>> in it
  scheduled,      \* a created start_election task has not run yet
  round,          \* elections started so far; makes the msg_ids of two differ
  probes,         \* ELECTION datagrams sent so far
  replies,        \* ELECTION_REPLY datagrams sent so far
  claims,         \* LEADER_ANNOUNCEMENT and LEADER_HEARTBEAT datagrams so far
  processed,      \* probes and replies in processed_messages of their receiver
  losses          \* datagrams lost for good

ring == <<succ, pred, peers>>
leadership == <<leaderId, isLeader>>
state == <<inProgress, participating, awaiting>>
wire == <<probes, replies, claims>>
vars == <<ring, leadership, state, scheduled, round, wire, processed, losses>>

Dir == {"CLOCKWISE", "COUNTER_CLOCKWISE"}
Opposite(d) == IF d = "CLOCKWISE" THEN "COUNTER_CLOCKWISE" ELSE "CLOCKWISE"
Neighbour(n, d) == IF d = "CLOCKWISE" THEN succ[n] ELSE pred[n]

Phase == 0 .. MaxPhase

\* path is the debugging trail of the payload, kept as a set; the last node on
\* it is current_id.  (initiator, round, phase, dir, hop) stands for msg_id.
Probe ==
  [to : Node, initiator : Node, current : Node, hop : Nat, maxHops : Nat,
   dir : Dir, phase : Phase, path : SUBSET Node, round : Nat]

Reply ==
  [to : Node, initiator : Node, phase : Phase, dir : Dir, success : BOOLEAN,
   round : Nat]

Claim ==
  [type : {"LEADER_ANNOUNCEMENT", "LEADER_HEARTBEAT"}, to : Node, leader : Node]

\* send_message_direct drops what is addressed to somebody not in peers.
OnWire(n, datagrams) == {m \in datagrams : m.to \in peers[n]}

Init ==
  /\ \E r \in Rings : succ = r.succ /\ pred = r.pred
  /\ \E new \in SUBSET Newcomers :
       peers = [n \in Node |-> IF n \in new THEN {succ[n], pred[n]} ELSE Node \ {n}]
  /\ leaderId = [n \in Node |-> None]
  /\ isLeader = [n \in Node |-> FALSE]
  /\ inProgress = [n \in Node |-> FALSE]
  /\ participating = [n \in Node |-> FALSE]
  /\ awaiting = [n \in Node |-> {}]
  /\ scheduled = [n \in Node |-> FALSE]
  /\ round \in Earlier
  /\ probes = {} /\ replies = {} /\ claims = {} /\ processed = {}
  /\ losses = 0

-----------------------------------------------------------------------------
(***************************************************************************)
(* Starting an election and running a phase of it.                         *)
(***************************************************************************)
\* _send_election_message gives a direction up when its neighbour is not in
\* peers (_handle_failed_direction).
Reach(n) == {d \in Dir : Neighbour(n, d) \in peers[n]}

NewProbe(n, k, d, r) ==
  [to |-> Neighbour(n, d), initiator |-> n, current |-> n, hop |-> 0,
   maxHops |-> MaxHops(k), dir |-> d, phase |-> k, path |-> {n}, round |-> r]

\* _run_phase(k) for k <= max_phase, with `old' what awaiting_replies holds of
\* the other phases; an election that reaches no neighbour ends at once.
RunPhase(n, k, old, r) ==
  /\ awaiting' = [awaiting EXCEPT ![n] = old \cup ({k} \X Reach(n))]
  /\ participating' = [participating EXCEPT ![n] = (k = 0 \/ @) /\ Reach(n) # {}]
  /\ inProgress' = [inProgress EXCEPT ![n] = (k = 0 \/ @) /\ Reach(n) # {}]
  /\ probes' = probes \cup {NewProbe(n, k, d, r) : d \in Reach(n)}

MayStart(n) == round[n] < MaxRounds[n]

\* start_election on a stable ring, no election in progress.
StartElection(n) ==
  /\ ~inProgress[n]
  /\ MayStart(n)
  /\ round' = [round EXCEPT ![n] = @ + 1]
  /\ RunPhase(n, 0, {}, round[n] + 1)

\* The "elect" command.
UserElect(n) ==
  /\ StartElection(n)
  /\ UNCHANGED <<ring, leadership, scheduled, replies, claims, processed, losses>>

\* A pending task runs: start_election returns at once when one is in progress.
RunScheduled(n) ==
  /\ scheduled[n]
  /\ scheduled' = [scheduled EXCEPT ![n] = FALSE]
  /\ \/ StartElection(n)
     \/ inProgress[n] /\ UNCHANGED <<state, round, probes>>
  /\ UNCHANGED <<ring, leadership, replies, claims, processed, losses>>

\* _heartbeat_loop of a follower without a leader.
AutoStart(n) ==
  /\ ~isLeader[n]
  /\ leaderId[n] = None
  /\ ~inProgress[n]
  /\ MayStart(n)
  /\ scheduled' = [scheduled EXCEPT ![n] = TRUE]
  /\ UNCHANGED <<ring, leadership, state, round, wire, processed, losses>>

-----------------------------------------------------------------------------
(***************************************************************************)
(* handle_election_message.                                                *)
(***************************************************************************)
\* What a forgotten reset would leave behind.
RetireHalfway(n) ==
  /\ participating' = [participating EXCEPT ![n] = FALSE]
  /\ UNCHANGED <<inProgress, awaiting>>

Retire(n) ==
  /\ participating' = [participating EXCEPT ![n] = FALSE]
  /\ inProgress' = [inProgress EXCEPT ![n] = FALSE]
  /\ UNCHANGED awaiting

ReceiveProbe(m) ==
  /\ m \in probes
  /\ m \notin processed
  /\ processed' = processed \cup {m}

\* A loop over all members rather than the peers; one over the neighbour only.
ClaimsToEverybody(n, type) == {[type |-> type, to |-> p, leader |-> n] : p \in Node}
ClaimsToSuccessor(n, type) == {[type |-> type, to |-> succ[n], leader |-> n]}

\* The loop over messaging.peers of _announce_leadership and _send_heartbeat.
Claims(n, type) == {[type |-> type, to |-> p, leader |-> n] : p \in peers[n]}

\* _announce_leadership
Announce(n) ==
  /\ leaderId' = [leaderId EXCEPT ![n] = n]
  /\ isLeader' = [isLeader EXCEPT ![n] = TRUE]
  /\ participating' = [participating EXCEPT ![n] = FALSE]
  /\ inProgress' = [inProgress EXCEPT ![n] = FALSE]
  /\ claims' = claims \cup Claims(n, "LEADER_ANNOUNCEMENT")

\* What awaiting_replies holds once the answer to m has been marked.
Remaining(n, m) == awaiting[n] \ {<<m.phase, m.dir>>}
LastAnswer(n, m) ==
  /\ <<m.phase, m.dir>> \in awaiting[n]
  /\ \A d \in Dir : <<m.phase, d>> \notin Remaining(n, m)

\* _handle_own_message_return, not participating or one direction still out.
OwnReturnMarked(m) ==
  /\ ReceiveProbe(m)
  /\ m.initiator = m.to
  /\ ~(participating[m.to] /\ LastAnswer(m.to, m))
  /\ awaiting' = IF participating[m.to]
                 THEN [awaiting EXCEPT ![m.to] = Remaining(m.to, m)] ELSE awaiting
  /\ UNCHANGED <<ring, leadership, inProgress, participating, scheduled, round,
                 wire, losses>>

\* _handle_own_message_return, both directions back: the node has won.
OwnReturnWins(m) ==
  /\ ReceiveProbe(m)
  /\ m.initiator = m.to
  /\ participating[m.to]
  /\ LastAnswer(m.to, m)
  /\ awaiting' = [awaiting EXCEPT ![m.to] = Remaining(m.to, m)]
  /\ Announce(m.to)
  /\ UNCHANGED <<ring, scheduled, round, probes, replies, losses>>

\* What _send_election_reply and _send_rejection send back to where the probe m
\* came from, and how a reply m is passed on.
Answer(m, success) ==
  [to |-> Neighbour(m.to, Opposite(m.dir)), initiator |-> m.initiator,
   phase |-> m.phase, dir |-> m.dir, success |-> success, round |-> m.round]

\* The payload of a success sent for a rejection.
RejectProbeKindly(m) ==
  /\ ReceiveProbe(m)
  /\ m.initiator < m.to
  /\ replies' = replies \cup OnWire(m.to, {Answer(m, TRUE)})
  /\ scheduled' = [scheduled EXCEPT ![m.to] =
                     @ \/ (~inProgress[m.to] /\ ~participating[m.to])]
  /\ UNCHANGED <<ring, leadership, state, round, probes, claims, losses>>

RejectProbe(m) ==
  /\ ReceiveProbe(m)
  /\ m.initiator < m.to
  /\ replies' = replies \cup OnWire(m.to, {Answer(m, FALSE)})
  /\ scheduled' = [scheduled EXCEPT ![m.to] =
                     @ \/ (~inProgress[m.to] /\ ~participating[m.to])]
  /\ UNCHANGED <<ring, leadership, state, round, probes, claims, losses>>

\* A larger initiator ends the node's own candidacy, if it has one.
Yield(n) == IF participating[n] THEN Retire(n) ELSE UNCHANGED state

\* The message reached its hop limit.
AtLimit(m) == m.hop >= m.maxHops

TurnBack(m) ==
  /\ ReceiveProbe(m)
  /\ m.initiator > m.to
  /\ Yield(m.to)
  /\ AtLimit(m)
  /\ replies' = replies \cup OnWire(m.to, {Answer(m, TRUE)})
  /\ UNCHANGED <<ring, leadership, scheduled, round, probes, claims, losses>>

\* The hop not counted.
ForwardedUncounted(m) ==
  [m EXCEPT !.to = Neighbour(m.to, m.dir), !.current = m.to, !.path = @ \cup {m.to}]

\* _forward_election_message
Forwarded(m) ==
  [to |-> Neighbour(m.to, m.dir), initiator |-> m.initiator, current |-> m.to,
   hop |-> m.hop + 1, maxHops |-> m.maxHops, dir |-> m.dir, phase |-> m.phase,
   path |-> m.path \cup {m.to}, round |-> m.round]

ForwardProbe(m) ==
  /\ ReceiveProbe(m)
  /\ m.initiator > m.to
  /\ Yield(m.to)
  /\ ~AtLimit(m)
  /\ probes' = probes \cup OnWire(m.to, {Forwarded(m)})
  /\ UNCHANGED <<ring, leadership, scheduled, round, replies, claims, losses>>

-----------------------------------------------------------------------------
(***************************************************************************)
(* handle_election_reply.  Replies carry no election identity: one of an   *)
(* earlier election counts for the current one.                            *)
(***************************************************************************)
ReceiveReply(m) ==
  /\ m \in replies
  /\ m \notin processed
  /\ processed' = processed \cup {m}

ForwardReply(m) ==
  /\ ReceiveReply(m)
  /\ m.initiator # m.to
  /\ replies' = replies \cup OnWire(m.to, {Answer(m, m.success)})
  /\ UNCHANGED <<ring, leadership, state, scheduled, round, probes, claims, losses>>

ReceiveOwnReply(m) ==
  /\ ReceiveReply(m)
  /\ m.initiator = m.to
  /\ UNCHANGED <<ring, scheduled, round, replies, losses>>

ReplyIgnored(m) ==
  /\ ReceiveOwnReply(m)
  /\ ~participating[m.to]
  /\ UNCHANGED <<leadership, state, probes, claims>>

ReplyRejects(m) ==
  /\ ReceiveOwnReply(m)
  /\ participating[m.to]
  /\ ~m.success
  /\ Retire(m.to)
  /\ UNCHANGED <<leadership, probes, claims>>

\* A rejection taken for a success.
ReplyCountsAlways(m) == ReceiveOwnReply(m) /\ participating[m.to]

ReplyCounts(m) ==
  /\ ReceiveOwnReply(m)
  /\ participating[m.to]
  /\ m.success

ReplyMarked(m) ==
  /\ ReplyCounts(m)
  /\ ~LastAnswer(m.to, m)
  /\ awaiting' = [awaiting EXCEPT ![m.to] = Remaining(m.to, m)]
  /\ UNCHANGED <<leadership, inProgress, participating, probes, claims>>

\* max_hops >= ring_size, where ring_size is what this node knows of.
CoversRing(n, k) == MaxHops(k) >= Cardinality(peers[n]) + 1

ReplyWins(m) ==
  /\ ReplyCounts(m)
  /\ LastAnswer(m.to, m)
  /\ CoversRing(m.to, m.phase)
  /\ awaiting' = [awaiting EXCEPT ![m.to] = Remaining(m.to, m)]
  /\ Announce(m.to)
  /\ UNCHANGED probes

ReplyNextPhase(m) ==
  /\ ReplyCounts(m)
  /\ LastAnswer(m.to, m)
  /\ ~CoversRing(m.to, m.phase)
  /\ m.phase < MaxPhase
  /\ RunPhase(m.to, m.phase + 1, Remaining(m.to, m), round[m.to])
  /\ UNCHANGED <<leadership, claims>>

\* Giving up without saying so.
KeepsRunning(n) == UNCHANGED inProgress

\* _run_phase(max_phase + 1): is_participating is left as it is.
GiveUp(n) == inProgress' = [inProgress EXCEPT ![n] = FALSE]

ReplyMaxPhase(m) ==
  /\ ReplyCounts(m)
  /\ LastAnswer(m.to, m)
  /\ ~CoversRing(m.to, m.phase)
  /\ m.phase = MaxPhase
  /\ awaiting' = [awaiting EXCEPT ![m.to] = Remaining(m.to, m)]
  /\ GiveUp(m.to)
  /\ UNCHANGED <<leadership, participating, probes, claims>>

-----------------------------------------------------------------------------
(***************************************************************************)
(* Leader announcements and heartbeats.                                    *)
(***************************************************************************)
SendHeartbeat(n) ==
  /\ isLeader[n]
  /\ claims' = claims \cup Claims(n, "LEADER_HEARTBEAT")
  /\ UNCHANGED <<ring, leadership, state, scheduled, round, probes, replies,
                 processed, losses>>

Follow(m) ==
  /\ leaderId' = [leaderId EXCEPT ![m.to] = m.leader]
  /\ isLeader' = [isLeader EXCEPT ![m.to] = FALSE]

HandleAnnouncement(m) ==
  /\ m \in claims
  /\ m.type = "LEADER_ANNOUNCEMENT"
  /\ Follow(m)
  /\ Retire(m.to)
  /\ UNCHANGED <<ring, scheduled, round, wire, processed, losses>>

\* A heartbeat of the leader already known only restarts the failure timer.
HandleHeartbeat(m) ==
  /\ m \in claims
  /\ m.type = "LEADER_HEARTBEAT"
  /\ leaderId[m.to] # m.leader
  /\ Follow(m)
  /\ UNCHANGED <<ring, state, scheduled, round, wire, processed, losses>>

\* UDP loses a datagram nobody has received yet.
Lose ==
  /\ losses < MaxLost
  /\ losses' = losses + 1
  /\ \/ /\ "ELECTION" \in Losable
        /\ \E m \in probes \ processed : probes' = probes \ {m}
        /\ UNCHANGED <<replies, claims>>
     \/ /\ "ELECTION_REPLY" \in Losable
        /\ \E m \in replies \ processed : replies' = replies \ {m}
        /\ UNCHANGED <<probes, claims>>
     \/ /\ \E m \in claims : m.type \in Losable /\ claims' = claims \ {m}
        /\ UNCHANGED <<probes, replies>>
  /\ UNCHANGED <<ring, leadership, state, scheduled, round, processed>>

-----------------------------------------------------------------------------
HandleProbe(m) ==
  \/ OwnReturnMarked(m) \/ OwnReturnWins(m)
  \/ RejectProbe(m) \/ TurnBack(m) \/ ForwardProbe(m)

HandleReply(m) ==
  \/ ForwardReply(m) \/ ReplyIgnored(m) \/ ReplyRejects(m) \/ ReplyMarked(m)
  \/ ReplyWins(m) \/ ReplyNextPhase(m) \/ ReplyMaxPhase(m)

HandleClaim(m) == HandleAnnouncement(m) \/ HandleHeartbeat(m)

Receive ==
  \/ \E m \in probes : HandleProbe(m)
  \/ \E m \in replies : HandleReply(m)
  \/ \E m \in claims : HandleClaim(m)

Tick(n) == RunScheduled(n) \/ AutoStart(n) \/ SendHeartbeat(n)

Next ==
  \/ \E n \in Node : UserElect(n) \/ Tick(n)
  \/ Receive
  \/ Lose

Spec == Init /\ [][Next]_vars

\* A receive loop handles what has arrived, a created task gets its turn, and
\* the heartbeat loop comes round again; the user need not type anything.
FairSpec ==
  /\ Spec
  /\ WF_vars(Receive)
  /\ \A n \in Node : WF_vars(RunScheduled(n)) /\ WF_vars(AutoStart(n))
  /\ \A n \in Node : WF_vars(SendHeartbeat(n))

-----------------------------------------------------------------------------
(***************************************************************************)
(* Properties.                                                             *)
(***************************************************************************)
TypeOK ==
  /\ succ \in [Node -> Node] /\ pred \in [Node -> Node]
  /\ peers \in [Node -> SUBSET Node]
  /\ leaderId \in [Node -> Node \cup {None}]
  /\ isLeader \in [Node -> BOOLEAN]
  /\ inProgress \in [Node -> BOOLEAN]
  /\ participating \in [Node -> BOOLEAN]
  /\ awaiting \in [Node -> SUBSET (Phase \X Dir)]
  /\ scheduled \in [Node -> BOOLEAN]
  /\ round \in [Node -> Nat]
  /\ probes \subseteq Probe
  /\ replies \subseteq Reply
  /\ claims \subseteq Claim
  /\ processed \subseteq Probe \cup Reply
  /\ losses \in Nat

Highest(x) == x \in Node /\ \A y \in Node : y <= x

\* "Elects node with highest UUID": no node ever leads, or takes anybody for
\* the leader, but the highest, whatever elections overlap, whatever replies
\* of an earlier election count for a later one, and whatever is lost, late
\* or duplicated.
LeaderIsHighest ==
  \A n \in Node :
    /\ leaderId[n] # None => Highest(leaderId[n])
    /\ isLeader[n] => Highest(n)

\* A node that reaches leadership keeps it: no announcement or heartbeat on
\* the wire can take it away, although both demote whoever receives them.
LeaderNeverDemoted ==
  [][\A n \in Node : isLeader[n] => isLeader'[n] /\ leaderId'[n] = n]_vars

\* "A node proceeds to phase k+1 only if both its messages return successfully"
\* (leader_election.py:40), and what a success of phase k stands for: the probe met
\* only nodes smaller than its initiator, and no fewer than 2 ** k of them, whichever
\* election the reply belongs to.  The consequence is that in a ring all of whose
\* nodes are in peers, max_hops >= ring_size never decides an election: probes of
\* such a phase come all the way round instead of being turned.
TurnedProbeMetOnlySmaller ==
  \A m \in replies : m.success =>
    Cardinality({n \in Node : n < m.initiator}) >= MaxHops(m.phase)

\* Unless a datagram is lost, a candidate is never left waiting for nothing:
\* for every direction it has not heard from, its probe, or the answer to it,
\* is still on its way.  Answers of one election counting for the next do not
\* break this, and neither do giving up and starting again.
CandidateWaitsForSomething ==
  \A n \in Node : inProgress[n] =>
    /\ participating[n]
    /\ awaiting[n] # {}
    /\ \A a \in awaiting[n] : \E m \in (probes \cup replies) \ processed :
         m.initiator = n /\ <<m.phase, m.dir>> = a

\* Every step of the service is a step of the abstract election, or changes
\* nobody's leader.
Agreement == INSTANCE LeaderAgreement WITH leader <- leaderId
ImplementsAgreement == Agreement!Spec

\* "LeaderElectionService elects leader when ring stable": some day the highest
\* node leads and everybody knows.
EventuallyOneLeader ==
  <>[](\A n \in Node : Highest(leaderId[n]))

-----------------------------------------------------------------------------
(***************************************************************************)
(* The inductive invariant behind LeaderIsHighest.                         *)
(***************************************************************************)
RingOK == IsRing(succ, pred)

\* The nodes on the path of a probe are the arc from its initiator to
\* current_id, none of them larger than the initiator.
ProbeOK(m) ==
  /\ m.to = Neighbour(m.current, m.dir)
  /\ m.maxHops = MaxHops(m.phase)
  /\ m.initiator \in m.path /\ m.current \in m.path
  /\ \A x \in m.path : x <= m.initiator
  /\ \A x \in m.path \ {m.current} : Neighbour(x, m.dir) \in m.path
  /\ \A x \in m.path \ {m.initiator} :
       Neighbour(x, Opposite(m.dir)) \in m.path \ {m.current}
  /\ Cardinality(m.path) = m.hop + 1

\* Who claims to lead is the highest, leads, and does not tell itself so.
ClaimOK(m) == Highest(m.leader) /\ isLeader[m.leader] /\ m.to # m.leader

LeadersOK ==
  \A n \in Node :
    /\ isLeader[n] => Highest(n) /\ leaderId[n] = n
    /\ leaderId[n] # None => Highest(leaderId[n]) /\ isLeader[leaderId[n]]

FullViews == peers = [n \in Node |-> Node \ {n}]

\* Claims of leadership are backed by probes that went all the way round.
ElectionInv ==
  /\ TypeOK
  /\ RingOK
  /\ FullViews
  /\ \A m \in probes : ProbeOK(m)
  /\ TurnedProbeMetOnlySmaller
  /\ \A m \in claims : ClaimOK(m)
  /\ LeadersOK
=============================================================================
