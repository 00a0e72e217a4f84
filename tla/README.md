# Verification of the distributed emergency alert system

TLA+ models of the peer-to-peer alert system in `src/`, checked with TLC on small
instances, and proofs about them checked with TLAPS. `PROJECT.json` lists the runs, the
theorems, the source lines each definition stands for, the hazards the properties are
aimed at, and where the code and its documentation disagree.

## 1. The system

Every node is one asyncio process. Its services share one event loop, so a handler runs
alone between two `await`s that suspend. All communication is UDP: multicast for HELLO
and application messages, unicast for everything else.

| Component | State | Operations | Talks to |
|---|---|---|---|
| `Node`, command line (`main.py`) | `uuid`, `vector_clock`, `leader_id`, `is_leader`, `peers` | start, shutdown; commands `multicast`, `message`, `elect`, `setleader`, … | calls every service |
| `DiscoveryService` | `discovered_peers` with `last_seen` | HELLO every 5 s, listening, removal after 15 s | callbacks to `RingService`; passes multicast messages to `MessagingService` |
| `MessagingService` | `peers`, `history`, `sent_history` | `send_to`, `multicast_message`, `send_message_direct`, dispatch, NACK | hands each message type to its service |
| `VectorCausalBuffer` | `holdback` | `deliver` with its drain loop, `handle_nack` | reads and merges `node.vector_clock` |
| `RingService` | `successor_id`, `predecessor_id`, `ring_established`, `_joining`, `successor_failures`, time of the last topology change | discovery callbacks, join protocol, stabilization, liveness check, repairs, stability wait | control messages; starts the failure handler of the election |
| `LeaderElectionService` | `leader_id`, `is_leader`, `election_in_progress`, `is_participating`, `awaiting_replies`, `processed_messages`, `last_heartbeat_time` | Hirschberg–Sinclair election, announcement, heartbeats, failure detection | reads the pointers of the ring, calls its repairs |
| `Message` | immutable record | | |
| TCP accept path, `test_ring.py` | | unused I/O; launcher for manual tests | |

What is hard here: datagrams are lost, duplicated and reordered; nobody retransmits
control messages; discovery, repairs, stabilization and elections run as independent
tasks over the same pointers; replies of different elections look alike; each node
decides from its own table of peers; an exception in the middle of the causal buffer
leaves its handler half done.

What makes each part correct:

- causal buffer: delivery in causal order, at most once; what is held leaves only by
  being delivered; the drain loop ends;
- election: only the highest uuid ever leads; leadership is not lost to late messages;
  a candidate is never left waiting for nothing; in the end everybody follows the highest;
- ring: insertions keep one cycle; pointers agree when nothing is in flight; whoever is
  marked as established has both pointers; in the end everybody alive is in one ring,
  also after a crash;
- discovery: a peer is reported lost only after silence, and callbacks come in the order
  of the events;
- ring and leadership together: a dead leader is replaced, a live one is not; there are
  never two; a join starts no election; the copies of the leadership agree.

## 2. The modules

### Application messages: `CausalMulticast`, `CausalDelivery`, `CausalConsole`

`vc`, `holdback` and `delivered` are `node.vector_clock`, `VectorCausalBuffer.holdback`
and the calls of the application's handler. `sent` holds every datagram ever sent, and
receiving does not consume it: loss, delay and duplication need no actions of their own.

- Sending is `_build_message` (the clock is bumped for every message) followed by
  `multicast_message`, `send_to`, or a send that raises.
- Receiving splits `_handle_incoming` and `deliver` by outcome: an ALERT returns early; a
  deliverable message is delivered and the drain loop starts; an early one is held; after
  a gap the handler ends with the `TypeError` of the NACK call.
- The drain loop takes one iteration per step (`drain` is its index), so that its progress
  can be stated, but the node does nothing else meanwhile: nothing in the loop suspends.

`CausalDelivery` is what the buffer promises, with no clocks and no buffer in it: a message
carries the set of all that its sender had sent or been given before (`past`), and a node
takes a message once it has seen all of that set. What was never meant for it is in there
too: the code orders by everything a sender did, and a node that lacks a message for somebody
else waits for it. `CausalMulticast` implements it, with the messages that a clock covers for
`past` (`Covered`): the comparison of clocks in `_can_deliver` is the inclusion of sets.

`CausalConsole` adds what `_handle_incoming` prints before it asks the buffer. By that the
promise of the documentation can be stated, which is stronger than `CausalDelivery`: what a
node has shown is held or delivered (`NotReadyIsBuffered`), and at once delivered when the
node lacks nothing of it (`ReadyIsDelivered`, where what was meant for others or is an alert
is not lacked). The code does neither (section 3).

Abstracted: text of messages; `msg_id` is the sender with its sequence number; all
nodes are in every clock, with 0 for the ones not heard of, as `.get(id, 0)` reads it.
`history` is write-only.

### The election: `HSElection`, `LeaderAgreement`

`HSElection` has one action per outcome of `handle_election_message`,
`handle_election_reply`, `_handle_own_message_return`, `handle_leader_announcement` and
`handle_leader_heartbeat`, and the three ways in which an election starts: the `elect`
command, the heartbeat loop of a node without a leader, and the task a rejection
schedules, which runs in a later step. Datagrams stay on the wire; `processed` is
`processed_messages`, which makes a second copy of a probe or reply harmless;
announcements and heartbeats have no such protection and may be handled any number of
times. Ids are numbers, since the code only compares uuids.

The module assumes what `is_ring_stable` is there to establish: pointers that form one
ring and do not change. `Earlier` gives nodes elections they have behind them, by which a
run tells who starts how often. `Newcomers` are nodes that have heard the HELLO of their
neighbours only, so that their `len(messaging.peers) + 1` is not the size of the ring.

`LeaderAgreement` is what the service promises, with no elections in it: the highest node
may come to lead, others may learn it, nobody forgets. `HSElection` refines it with
`leader <- leaderId`.

Abstracted: `current_phase` (logged only); `last_heartbeat_time` (see `Failover`); the leader copies in
`Node`, always equal to the service's as long as `setleader` is not used; a `sock_sendto`
suspends only when the socket buffer is full, which is left out.

### The ring: `RingTopology`

One action per handler of `RingService` (two or three where a handler returns early),
discovery and loss of a peer, the two periodic loops, what the election does to the pointers
(`_validate_ring_neighbors`, and the repairs of `_check_leader_alive`), and crashes. `peers`
keeps the order of the dict, because both repairs take the first peer that fits; `Tables` are
the orders a run may start from, which with members that have been there for a while is any. The repairs are functions
on the pointers of one node, since `_on_peer_lost` and `_validate_ring_neighbors` run
several in a row. Received datagrams leave the network; the number of lost ones is
bounded by `MaxLost`, and losing the HELLOs of a live peer until it times out counts as
one. `Founded` lets a run start from rings that exist already: states the program reaches
by the join protocol, also two rings at a time.

`FirstHello` and `TimedOut` are what `DiscoveryService` adds: a peer enters the table with
its first HELLO and leaves it when the HELLOs stop. The callbacks of `RingService` and
`MessagingService` run in the same step, since nothing in them suspends. When a HELLO is
late enough is not computed from `last_seen`: a live peer may time out as often as
`MaxLost` allows, a dead one at any moment after its crash.

The leader, and the stability timer, are in `Failover`; here a heartbeat time-out
(`LeaderTimesOut`) may name any neighbour at any moment. `Loops` names the periodic loops
that run; each first sleeps 5 or 10 s. The heartbeat loop touches the ring on two occasions
only: while the node has no leader, and when the heartbeats of its leader stop.

### Both together: `Failover`

`Failover` takes the steps of the ring from `RingTopology` (`R`) and the handlers of the
election from `HSElection` (`HS`), both by INSTANCE over the same variables, and adds what
the two services do to each other.

| Code | Model |
|---|---|
| `is_ring_stable`, `_last_topology_change` | `Stable`; `settled` is cleared by the two changes the code records, the loss of a peer and a heartbeat time-out (joins and other repairs are not recorded), and set by `Settle` when 3 s have passed |
| `last_heartbeat_time` | `heard`: None, younger or older than 10 s (`HeartbeatsStop`) |
| `_heartbeat_loop` | `loop`, the place it is at: asleep at first, at its top, in the pause after a repair (`PauseEnds`), in the short wait before an election, inside the failure handler; one action for what the loop does from one `await` to the next |
| `_check_leader_alive` | `HeartbeatTimesOut`, which repairs the neighbours (`LeaderTimesOut` of the ring) and runs the failure handler inside the loop |
| `_handle_leader_failure` | `FailureStarts` and `FailureResumes` for the task `_on_peer_lost` creates (several may wait at once), `LoopResumes` for the one in the loop |
| `start_election` | `StartElection`: outside a ring the node leads itself; not stable, or already running: nothing; else the election of `HSElection` |
| the `elect` command | `Elect`, once at each node of `Asking` |
| leader in `JOIN_RESPONSE` | `told`, filled by `HandleJoin`, taken over by `HandleJoinResponse` |
| crash of a leader in the middle of a broadcast | `Crash` takes back any part of its announcements and heartbeats still on their way; under `spacing` these are heartbeats, or an announcement of whom all follow already |

Two things differ from the components, which check them by themselves: announcements and
heartbeats are received once, and stabilization does not run.

The code compares times: 15 s without HELLO (looked at every 5 s), 10 s without heartbeat,
3 s of stability, 10 s of waiting. Which of two timers runs out first is left open, but a run
may assume some of `Assumptions`:

| Assumption | Meaning | Why |
|---|---|---|
| `delivery` | a datagram takes less than 3 s | a local network |
| `detection` | all nodes notice a crash within 3 s of each other | not granted by the code, whose nodes look every 5 s: `FailoverWedged` drops it |
| `hearing` | HELLOs and heartbeats of a live node are never so late that it times out | three HELLOs in a row would have to be lost, or three heartbeats |
| `spacing` | nobody crashes before the last crash, join or election is over (`Recovered`), and a join takes less than the first 5 s of a node | the failures of a small group are rare |
| `asking` | `elect` is typed only when everybody is in the ring, knows exactly those that are alive, and the highest of them leads | not granted by the code, which starts the election whenever it is told to |

`spacing` cuts much away: in no run of `Failover` does a node crash in the middle of an election,
of a join, or of the announcement that makes it the leader. It has to: like a lost ELECTION, a
crash that takes a probe or its answer along leaves the candidate waiting for ever. What may
overlap with the next crash are the failure handlers of the last one, still asleep, the
heartbeat loop in one of its waits, and heartbeats of which only a part was sent.

Section 3 tells what happens without them. The theorems on joins use `hearing` and `spacing`
and that nobody types `elect` (`Asking = {}`), those on the crashes of followers use `hearing`
and speak of the time before anybody does (`asked = {}`), the others use none. All of them are
for every order of the tables; the runs start from tables in the order of the ring (`InRingOrder`). Two
members have no other; of three, each survivor of a crash is left with one entry.

## 3. The runs

`MCCausalMulticast`, `MCCausalConsole`, `MCHSElection`, `MCRing` and `MCFailover` instantiate
the modules.

| Run | Bounds | Shows |
|---|---|---|
| `CausalSafety` | 3 nodes, 3 messages, 2 held | causal order, at most once, held messages leave by delivery, the drain loop comes to its end; refinement of `CausalDelivery`, clocks order the messages; the inductive invariant |
| `ElectionSafety` | ring of 3, an election by each node, an announcement or heartbeat lost | only the highest leads and stays; a success stands for at least `max_hops` nodes, all smaller; no candidate waits for nothing; refinement; the inductive invariant; in the end all follow the highest |
| `ElectionAgain` | ring of 6; the second highest starts twice, or the highest twice and the lowest once, with `max_phase` 2 and the highest perhaps a newcomer | answers of the first election counting for the second, deciding by `max_hops >= ring_size` and giving up leave no candidate stuck |
| `RingForming` | 3 nodes from nothing, stabilization (rounds apart) and liveness check | everybody ends up established and in one ring, in whatever order requests, insertions and the datagrams of a round cross |
| `RingRepair` | ring of 3, one crash, stabilization and liveness check | the two survivors close the ring |
| `RingFaults` | 2 nodes from nothing, all loops, one loss, one crash | types; nobody is its own neighbour; established nodes have both pointers |
| `Failover` | ring of 2 with a leader, one more node with the highest uuid, two crashes, `elect` typed at the lowest node, an election by each node, all five assumptions | the insertion keeps one cycle, links agree afterwards, and nobody starts an election; in the end the survivors are one ring and follow one of them, also when a leader crashes in the middle of its heartbeats; there are never two leaders, and nobody takes the lead but the highest that is alive; a live leader keeps the lead; the crash of a follower starts no election; no candidate waits for the dead; `is_leader` and `leader_id` agree |

Why these bounds are enough to be interesting. Causal order takes a third node, whose
message depends on one that is late, and a third message to have two of one sender. In a
ring of three the probes of phase 1 come all the way round, and those of phase 0 are
turned or rejected, so every exit of the handlers but two is taken there. The two, a phase
with `max_hops >= ring_size` and the one beyond `max_phase`, need a candidate that gets two
successes at 2 or 4 hops, hence six nodes in `ElectionAgain`; there `max_phase` is
lowered to 2 to be reached at all. So does a candidate that gets a success from both sides and
still loses. Of the two rings of three one is enough: the other is the same ring with the
directions exchanged, which the election treats alike. An insertion takes a third node, and
so does a repair that leaves a ring (of two): hence three nodes in the ring runs and in
`Failover`, where all of them crash but one. The node that joins has the highest uuid, so
that the leader is not the highest of those alive and a new election would show.
The crashes are of any node that is alive. `elect` at the lowest node is the long way: the leader
rejects its probe, starts an election of its own, and everybody in between takes part; with the
leader as a second node at which it is typed the run passes too, in twice the time.

Runs that show a disagreement of the code with its documentation:

| Run | What happens |
|---|---|
| `CausalGapDropped` | after a gap a message is not buffered but dropped, and no NACK is sent |
| `ElectionPremature` | with few peers known, the second highest of twelve leads |
| `CausalSilenced` | an alert, or a message to somebody else, takes a sequence number that the receiver of the next message never merges: that message and all later ones of the sender are dropped there |
| `FailoverWedged` | two survivors notice a crash more than 3 s apart: the first elects, the second, for which the dead node is still a neighbour, rejects its probe, elects in turn, sends its probe to the dead node, and waits for ever, which blocks its loop and all its later elections |
| `FailoverUnclosed` | one of four members crashes, everybody notices in time, nothing is lost: the repairs leave a ring of two of the three survivors, and its higher node leads although the third is higher |

In `CausalSilenced` the sequence number is spent by design, `_build_message` counts for every
message, and the defect is that nothing makes up for it: alerts return before the clocks are
merged (messaging_service.py:199), and what would ask for the missing number, the NACK, raises.

`RingForming` assumes that a round of stabilization, three datagrams every 5 s, is over before
any node begins the next (`RoundsApart`); the rest, insertions included, may come in the middle
of it. Without that TLC finds a ring of three that stays open: a predecessor asked for before
UPDATE_PREDECESSOR arrives makes a node go back to its old neighbour, and the next round, which
would mend it, is undone by the NOTIFY of another one that overtakes it. One round on its own
closes the ring again, so this takes rounds that overtake each other for ever, which the
fairness of the model allows and 5 s between rounds do not.

`FailoverUnclosed` is why the run `Failover` has three nodes. The survivors of a crash
pick their new neighbours by the order of their tables, and with more than two survivors the
pointers need not make one ring. In the ring 1, 2, 4, 3, when 4 crashes, the node 2 takes 1 for its new
successor, the first of its table, and tells it so; 1 and 2 then point at each other in both
directions, and nobody points at 3. The probes of 2 come home through 1, and 2 leads, although it
knows that 3 is alive and higher. Stabilization, which `Failover` leaves out, would mend the
pointers at its next round; but that is up to 5 s away, and the ring counts as stable after
3 s. For the same reason an answer meant for 3 can miss it, so `CandidateWaitsForTheLiving`
too is a statement about three members.

What the code does not promise, and no run therefore claims:

- `deliver` (vector_causal_buffer.py:54) goes over the hold-back list once. A message before
  the index that a delivery of the same pass has made deliverable stays held until the
  next delivery, although the comment says "as much as possible".
- `_handle_incoming` prints a message before the buffer is asked, so the console follows the
  order of arrival.
- `hop_count` is compared before it is increased: a probe of phase k crosses up to 2^k + 1
  links, one more than leader_election.py:9 says.
- One lost ELECTION or ELECTION_REPLY leaves `election_in_progress` set for good; hence
  `Losable` in `ElectionSafety` names announcements and heartbeats only.
- One lost JOIN_REQUEST or JOIN_RESPONSE keeps `_joining` set, and the node outside.
- Two rings that formed apart never merge: a node in a ring joins no other.
- While the heartbeat loop repairs pointers, two crossing JOIN_REQUESTs can both be taken
  for "already in ring"; hence `RingForming` runs before that loop does. A crash while a ring
  forms may, like a lost JOIN_REQUEST, leave the node that was joining outside.
- Without `hearing`: a heartbeat 10 s late makes a follower drop a live leader, take it out of
  its ring and elect another. In a ring of three two leaders may then demote each other by
  heartbeats that cross, and nobody is left. In a ring of two a single late heartbeat is
  enough to have the lead change sides for ever. A late heartbeat of a dead leader makes its
  receiver follow the dead again, or demotes the new leader.
- A follower checks heartbeats only after it has had one: an announcement or a
  `JOIN_RESPONSE` does not set `last_heartbeat_time`. When the leader dies before that,
  the time-out of its HELLOs is what is left.
- Without `asking`: typed outside a ring, `elect` makes the node lead beside the leader of the
  ring it is about to join. In a ring with a new node above the leader, which does not challenge
  it, it makes that node lead, and until the announcement arrives the old one leads too; each
  may then get the heartbeat of the other. Typed between a crash and its detection it sends
  the probe to the dead neighbour, and the candidate hangs: a ring that has not noticed the
  crash counts as stable.
- Without `spacing`: a candidate whose probe or answer a crash takes along hangs. A leader that
  crashes with its first announcement sent to some leaves the others without one until their
  own time-outs. A node whose last peer dies while it knows no leader stays without one,
  since the loop starts elections in rings only. A survivor may repair its ring to a newcomer
  it has heard and that has not joined; probes that reach a node before its `JOIN_RESPONSE`
  does are dropped, and the candidate hangs. The heartbeat loop of a node that has not joined
  sets its pointers without `ring_established`, and its NOTIFY may make the receiver take the
  JOIN_REQUEST for "already in ring".

### Fairness

Nobody is obliged to send a message, start an election by hand, crash, or lose a datagram.
`HSElection!FairSpec` says that receive loops handle what is there, that a created task
runs, and that the heartbeat loop comes round; all are `while True` loops that catch
their exceptions. `RingTopology!FairSpec` adds HELLOs: a node that is alive is heard of
(every 5 s), a dead one times out (15 s). Fairness of receiving is per node and type of
datagram, since a node's receive loop serves all senders. `CalmSpec` is the same fairness with
`RoundsApart`.

`Failover!FairSpec` is per node. `React` is whatever a node does once the cause is there: a
timer runs out, a failure handler gets its turn, a datagram arrives, a HELLO comes or
stops coming. Created tasks, the heartbeat loop, the liveness check and the receipt of
announcements and heartbeats each have a fairness of their own, because each can be
postponed for ever by the others: the loop sends heartbeats and comes round again.

## 4. The proofs

The proof modules hold the theorems; `SequenceLemmas` has the facts about lists and about the
least and largest element of a set of numbers that several of them cite. Each inductive
invariant was an invariant of a TLC run before it was proved; `CausalInv` and
`ElectionInv` still are.

`CausalMulticastProofs`, for every set of nodes and all bounds:

- `CausalInvariant`: `CausalInv` always holds. Causal order alone is not inductive. It
  needs that nobody's entry for `p` exceeds `p`'s own (`NobodyAhead`), that a sequence
  number names one message, that whatever the clock of `n` covers was delivered
  (`CoveredIsDelivered`: no message of the own kind is merged without being delivered,
  because the sender's entry must be exactly the next one), and that what was delivered is
  covered (`DeliveredIsCovered`), which gives at-most-once delivery.
- `DeliveryIsCausal`, `DeliveryIsAtMostOnce` follow. `TypeCorrectness` is a part.
- `HeldUntilDelivered` and `DrainEnds` are action properties: what one iteration of the
  drain loop does to the list and the index, from `RemoveAtKeeps` on sequences.
- `ClocksImplementDelivery`: every step is one of `CausalDelivery`, or a stutter. Sending is
  the hard case, not delivery: that the clock of the new message covers exactly what its
  sender had sent or been given takes both halves of `CausalInv`, `CoveredIsDelivered` and
  `DeliveredIsCovered`; that the clocks of the old messages go on covering what they did is
  `NobodyAhead`, since the new message has a number nobody knew.
- `ClocksOrderMessages`: what messages depend on, by their clocks, is a strict and transitively
  closed order. Its invariant, `ClockOrder`, adds to `CausalInv` that a clock which covers a
  message is entry by entry at least that message's clock.

`HSElectionProofs`, for every ring, number of elections and losses, under the assumption
`Newcomers = {}`, that all nodes of the ring know each other:

- `ElectionInvariant`: `ElectionInv` always holds. Its core is `ProbeOK`: the nodes a
  probe has passed are an arc of the ring from its initiator, all no larger. When the
  probe comes home, the arc is closed under the successor (or predecessor), hence is the
  whole ring, and its initiator is the highest. The arc has `hop + 1` nodes, so a probe
  turned at its limit met no fewer than `max_hops` nodes, all smaller; the test
  `max_hops >= ring_size` can then never succeed (`NoReplyWins`): an election is decided
  by probes that come home, and by nothing else.
- `OnlyTheHighestLeads`, `LeadershipIsKept`, `SuccessesAreEarned` and
  `ElectionImplementsAgreement` follow from it.

`ElectionPremature` shows that the assumption is needed.

`HSCandidateProofs`, for every ring, `max_phase` and number of overlapping elections, and for
nodes that may know only their two neighbours, under the assumption that announcements and
heartbeats may be lost but probes and replies are not:

- `CandidatesAreNotForgotten`: for every answer a candidate awaits, a probe or a reply of its
  is on the wire and not handled yet, or its answer is. A lost probe breaks it, as section 3
  tells, so the assumption is not a convenience. The invariant, `WaitInv`, follows one probe
  through its life, its chain: the nodes it was forwarded by (`Trail`), and the answer that
  goes back along them (`AnswersOnTheTrail`). What makes it inductive is that a chain has one
  live end: of its probes only the one that came furthest may be unhandled (`OneFront`), once
  there is an answer none may (`AnswersOnTheTrail`), and of the answers only the one nearest
  to the initiator (`OneAnswer`). Then `processed_messages`, which drops what was handled
  before, never drops the only copy of something a candidate needs. A node on the trail passes
  an answer on because the neighbour it looks up is the one the probe came from; and a late
  answer of an old election counts for the new one only if it is of the phase the candidate is
  in (`NotAhead`, `OnePhase`), and then merely ends a wait.

`RingTopologyProofs`, for every finite set of nodes, all rings to start from, loops, losses and
crashes:

- `RingInvHolds`: `RingInv` always holds. That nobody is its own neighbour is not inductive:
  a pointer is taken over from a datagram, so what is in flight has to be known too.
  `Harmless` says it: a JOIN_RESPONSE has two neighbours and neither is its addressee, an
  UPDATE_PREDECESSOR does not name its addressee, a JOIN_REQUEST or NOTIFY does not come from
  it. PREDECESSOR_RESPONSE may name its receiver, and the handler is what tells it apart.
  The repairs pick from `peers`, which never holds the node itself (`PeersSound`); what one of
  them makes of a pair of pointers is a lemma, used once for each of the four in
  `_validate_ring_neighbors`.
- `TypesHold`, `NeighboursHold` and `LinkedHolds` follow.

`FailoverProofs`, for every finite set of nodes, every ring and every order of the tables to
start from, with any of the assumptions on time or none:

- `LeaderKnowsItselfHolds`: `is_leader` and `leader_id` always agree. The two copies are
  written together each time (`WrittenTogether`); the one place where they are written from a
  datagram sets `is_leader` to False, which is right only because nobody is told of its own
  leadership (`ClaimsAreOfOthers`), which in turn is so because the loops over the peers
  leave the sender out (`PeersAreOthers`).
- `RingStaysLinked`: types, nobody its own neighbour, and established nodes with both pointers,
  with the election and the failure handler beside the ring. The lemmas of
  `RingTopologyProofs` are used through an instance of that module (`Ring`), whose assumptions
  `Failover` proves of its constants (`RingTables`, `RingsDisjoint`, ...), and whose steps are
  shown to be those of `R` (`SameInit`, `SameNext`); the inductive invariant is that of the ring,
  and each step of `Failover` is one of the ring's or leaves it alone (`StepIsRingStep`).

and, when everybody is a member from the start and no HELLO or heartbeat of a live node is so
late that it times out (`OnlyCrashes`), for any number of crashes at any time, also several
at once, and however long datagrams take:

- `ElectionOnlyForTheLeaderHolds`: while the first leader lives and nobody types `elect`, nobody
  starts an election.
- `OneLeaderUntilItCrashes`: until then nobody else leads.

The invariant, `PeaceInv`, deliberately says nothing about the shape of the ring: whatever the
repairs make of it, the failure handler and the loop look at it only after the leader is
gone. It needs that every node alive is in the table of every other, so that the leader's
heartbeats reach all, that all claims on the wire are its own, and that all loops are at
their top. It was checked on four nodes in the ring 2, 4, 1, 3 with three crashes.

`FailoverJoinProofs`, for a ring of any size that one more node joins, without losses, under
`hearing` and `spacing`, and with nobody typing `elect` (`OneJoins`); any number of nodes may crash after the join, the new
one and the leader included:

- `JoinKeepsRingHolds`: as long as all are alive, the successors always form one cycle.
- `LinksAgreeHolds`: with nothing in flight, the two pointers of every link agree.
- `JoinedKeepToTheLeader`: while the leader lives nobody starts an election, the new node
  included, although its uuid may be the highest, and all members keep to the leader.
- `JoinMakesNoSecondLeader`: while the leader lives nobody else leads.
- `JoinKeepsLeader`: when nobody crashes at all, no step takes the lead from the leader.

The invariant has two parts, `JoinThenPeace`. Until the first crash it is `JoinInv`, which
names every ring there can be: the one to start from (`BeforeInsertion`), or that one with
the new node `x` after the member `p`, of which the new node and its successor may not have
heard yet (`AfterInsertion(x, p)`). That all are reached from each is a fact on cycles which
asks for induction; the proof takes instead the largest, or the smallest, position of a list
that the walk does not reach, and its neighbour (`StartIsOneCycle`). From the first crash on
it is `PeaceInv`: at a crash that waits until the join is over (`Recovered`) the new
node follows the leader and knows, and is known to, everybody (`RecoveredIsPeace`), and from
there the proof is that of `OneLeaderUntilItCrashes`. One newcomer is assumed because two that
have heard each other first form a ring of their own, which never merges (section 3).
`JoinInv` was checked on four nodes.

Only model-checked:

- liveness (`EventuallyOneLeader`, `EventuallyEstablished`, `EventuallyOneRing`,
  `EventuallyLed`), since fairness is out of the provers' reach;
- `CandidateWaitsForTheLiving`, which is true of three members only;
- `HighestSurvivorLeads` after the crash of the first leader: true of three members,
  and false of four (`FailoverUnclosed`);
- `OneLiveLeader` and `LiveLeaderKept` after that crash. They rest on the time assumptions and
  on elections over pointers that are being repaired, and of four members the pointers need
  not make a ring, so the argument of `HSElectionProofs` does not carry over. Simulation with
  four and five members found no counterexample.

## 5. Not modelled, and why

- NACK and retransmission: unreachable. `handle_nack` calls `send_nack` with one argument
  missing, which is modelled as the exception it is. `if_negative_ack_received` expects a
  dict where the sender would put a JSON string, and would send the old payload as a new
  message with a new sequence number.
- `sent_history` and its pruning: nothing reads it while NACKs are not sent.
- The clock of discovery: `last_seen` and the 5 s of the cleanup are a time-out that may
  come at any moment after the HELLOs stop. A finer model of the tables would show nothing
  new: the callbacks never suspend, so no HELLO is handled between a removal and its
  callbacks, and the ring service has set its callbacks before discovery listens.
- That `handle_join_request` keeps the receive loop waiting for up to 5 s: other datagrams are
  merely late, which the unordered network allows.
- `setleader`, a command for debugging: it overwrites the copies of the leader in `Node` and
  not those of the election service, so the two disagree by intention. Without it they are
  always written together. `leader <text>` sends a unicast to the leader, as `SendTo` does.
- Framing, JSON, logging, sockets, shutdown, the TCP accept path: pure I/O.
- `handle_update_successor`: `UPDATE_SUCCESSOR` is never sent.
- `_cleanup_loop`, which empties `processed_messages` at 10000 entries: beyond a small
  instance.
- A restart: a node that comes back draws a new uuid and keeps nothing, so it is a new node,
  like the one that joins in `Failover`.

## 6. State of the work

Done: the causal buffer, its console, its abstract specification and the proofs, of the
refinement too; the election on a stable ring, its abstraction and proofs, and that no
candidate is forgotten; the ring, with the proofs about its pointers; failures and joins under a
leader, over the steps of the ring, with the proofs about the pointers, the two
copies of the leadership, the crashes of followers, the join of one node, and the
crashes that follow it.

Left: the election after the crash of the first leader stays with TLC. That the highest
survivor leads is false of four members (`FailoverUnclosed`), so what remains for rings of any
size is `OneLiveLeader`: it would take an invariant on probes that cross pointers still under
repair, where the arcs of `ProbeOK` are no arcs of one ring.
