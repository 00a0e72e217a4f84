---------------------------- MODULE FailoverProofs ----------------------------
(***************************************************************************)
(* What the failures, the election and the joins cannot do to the          *)
(* leadership as each node sees it, whatever is assumed of time.           *)
(***************************************************************************)
EXTENDS Failover, SequenceLemmas, TLAPS

\* Nobody tells a node about its own leadership: the loops over the peers leave
\* the sender out, because the own HELLOs are dropped.
ClaimsAreOfOthers == \A m \in claims : m.leader # m.to

PeersAreOthers ==
  /\ peers \in [Node -> Seq(Node)]
  /\ \A n \in Node : n \notin ToSet(peers[n])

Leadership ==
  /\ leaderId = [n \in Node |-> leaderId[n]]
  /\ isLeader \in [Node -> BOOLEAN]
  /\ LeaderKnowsItself

LeaderInv == Leadership /\ PeersAreOthers /\ ClaimsAreOfOthers /\ alive \subseteq Node

-----------------------------------------------------------------------------
(***************************************************************************)
(* What the steps do to these four.                                        *)
(***************************************************************************)
\* The two copies of the leadership are written together, each time so that they
\* agree.
LEMMA WrittenTogether ==
  ASSUME Leadership, NEW n, NEW l, NEW b \in BOOLEAN, n \in Node => (b <=> l = n),
         leaderId' = [leaderId EXCEPT ![n] = l],
         isLeader' = [isLeader EXCEPT ![n] = b]
  PROVE  Leadership'
<1>1. leaderId' = [x \in Node |-> leaderId'[x]] /\ isLeader' \in [Node -> BOOLEAN]
  BY DEF Leadership
<1>2. ASSUME NEW x \in Node PROVE isLeader'[x] <=> leaderId'[x] = x
  <2>1. CASE x = n
    <3>1. isLeader'[x] = b /\ leaderId'[x] = l
      BY <2>1 DEF Leadership
    <3> QED
      BY <2>1, <3>1
  <2>2. CASE x # n
    <3>1. isLeader'[x] = isLeader[x] /\ leaderId'[x] = leaderId[x]
      BY <2>2 DEF Leadership
    <3> QED
      BY <3>1 DEF Leadership, LeaderKnowsItself
  <2> QED
    BY <2>1, <2>2
<1> QED
  BY <1>1, <1>2 DEF Leadership, LeaderKnowsItself

LEMMA UntouchedKeeps ==
  /\ Leadership /\ UNCHANGED leadership => Leadership'
  /\ PeersAreOthers /\ UNCHANGED peers => PeersAreOthers'
BY DEF Leadership, LeaderKnowsItself, PeersAreOthers, leadership

LEMMA FewerClaims ==
  ASSUME ClaimsAreOfOthers, claims' \subseteq claims
  PROVE  ClaimsAreOfOthers'
BY DEF ClaimsAreOfOthers

\* _announce_leadership and _send_heartbeat.
LEMMA BroadcastKeeps ==
  ASSUME PeersAreOthers, ClaimsAreOfOthers, NEW n \in Node, NEW type,
         claims' \subseteq claims \cup HS!Claims(n, type)
  PROVE  ClaimsAreOfOthers'
<1>1. ASSUME NEW m \in HS!Claims(n, type) PROVE m.leader # m.to
  <2>1. PICK p \in ToSet(peers[n]) : m = [type |-> type, to |-> p, leader |-> n]
    BY DEF HS!Claims
  <2> QED
    BY <2>1 DEF PeersAreOthers
<1> QED
  BY <1>1 DEF ClaimsAreOfOthers

\* start_election outside a ring, the only way it touches the leadership.
LEMMA StartElectionKeeps ==
  ASSUME Leadership, NEW n \in Node, StartElection(n)
  PROVE  Leadership'
<1>1. CASE DeclareSelf(n)
  BY <1>1, WrittenTogether DEF DeclareSelf
<1>2. CASE UNCHANGED leadership
  BY <1>2, UntouchedKeeps
<1> QED
  BY <1>1, <1>2 DEF StartElection

LEMMA ForgetLeaderKeeps ==
  ASSUME Leadership, NEW n \in Node, ForgetLeader(n)
  PROVE  Leadership'
<1>1. leaderId' = [leaderId EXCEPT ![n] = None] /\ isLeader' = [isLeader EXCEPT ![n] = FALSE]
  BY DEF ForgetLeader
<1>2. n # None
  BY NoneIsNoNode
<1> QED
  BY <1>1, <1>2, WrittenTogether

LEMMA AfterWaitKeeps ==
  ASSUME Leadership, NEW n \in Node, AfterWait(n)
  PROVE  Leadership'
BY StartElectionKeeps, UntouchedKeeps DEF AfterWait

\* A claim is always somebody else's: following it demotes the node for good
\* reason.
LEMMA FollowKeeps ==
  ASSUME Leadership, ClaimsAreOfOthers, NEW m \in claims, HS!Follow(m)
  PROVE  Leadership'
<1>1. m.leader # m.to
  BY DEF ClaimsAreOfOthers
<1>2. /\ leaderId' = [leaderId EXCEPT ![m.to] = m.leader]
      /\ isLeader' = [isLeader EXCEPT ![m.to] = FALSE]
  BY DEF HS!Follow
<1> QED
  BY <1>1, <1>2, WrittenTogether

\* Of the election's handlers only those that win touch the leadership.
LEMMA ElectionKeeps ==
  ASSUME LeaderInv, NEW m, HandleElection(m)
  PROVE  Leadership' /\ ClaimsAreOfOthers'
<1>1. m.to \in Node
  BY DEF HandleElection, LeaderInv
<1>2. HS!Announce(m.to) \/ UNCHANGED <<leadership, claims>>
  BY DEF HandleElection, HS!HandleProbe, HS!HandleReply, HS!OwnReturnMarked,
     HS!OwnReturnWins, HS!RejectProbe, HS!TurnBack, HS!ForwardProbe, HS!ForwardReply,
     HS!ReplyIgnored, HS!ReplyRejects, HS!ReplyMarked, HS!ReplyWins, HS!ReplyNextPhase,
     HS!ReplyMaxPhase, HS!ReceiveOwnReply, HS!ReplyCounts, HS!leadership, HS!wire,
     leadership
<1>3. CASE HS!Announce(m.to)
  <2>1. Leadership'
    BY <1>1, <1>3, WrittenTogether DEF HS!Announce, LeaderInv
  <2>2. ClaimsAreOfOthers'
    BY <1>1, <1>3, BroadcastKeeps DEF HS!Announce, LeaderInv
  <2> QED
    BY <2>1, <2>2
<1>4. CASE UNCHANGED <<leadership, claims>>
  BY <1>4, UntouchedKeeps, FewerClaims DEF LeaderInv
<1> QED
  BY <1>2, <1>3, <1>4

\* RemoveFirst as the instance of RingTopology sees it is the one of the lemmas.
LEMMA RemoveFirstOfRing ==
  ASSUME NEW s \in Seq(Node), NEW e
  PROVE  R!RemoveFirst(s, e) = RemoveFirst(s, e)
<1> DEFINE I == {i \in 1 .. Len(s) : s[i] = e}
           at == IF I # {} THEN Min(I) ELSE 0
<1>1. R!RemoveFirst(s, e) = IF \E i \in 1 .. Len(s) : s[i] = e
                            THEN R!RemoveAt(s, IF I # {} THEN R!Min(I) ELSE 0) ELSE s
  BY DEF R!RemoveFirst, R!SelectInSeq
<1>2. RemoveFirst(s, e) = IF \E i \in 1 .. Len(s) : s[i] = e THEN RemoveAt(s, at) ELSE s
  BY DEF RemoveFirst, SelectInSeq
<1>3. R!Min(I) = Min(I)
  BY DEF R!Min, Min
<1>4. R!RemoveAt(s, at) = RemoveAt(s, at)
  BY DEF R!RemoveAt, RemoveAt
<1> HIDE DEF I
<1> QED
  BY <1>1, <1>2, <1>3, <1>4

LEMMA DiscoveryKeeps ==
  ASSUME PeersAreOthers, NEW n \in Node, NEW p \in Node,
         R!PeerDiscovered(n, p) \/ R!PeerLost(n, p)
  PROVE  PeersAreOthers'
<1>1. ASSUME NEW s \in Seq(Node), n \notin ToSet(s), peers' = [peers EXCEPT ![n] = s]
      PROVE  PeersAreOthers'
  BY <1>1 DEF PeersAreOthers
<1>2. CASE R!PeerDiscovered(n, p)
  <2>1. peers' = [peers EXCEPT ![n] = Append(@, p)] /\ p # n
    BY <1>2 DEF R!PeerDiscovered, R!FirstHello
  <2>2. Append(peers[n], p) \in Seq(Node)
    BY DEF PeersAreOthers
  <2>3. ToSet(Append(peers[n], p)) \subseteq ToSet(peers[n]) \cup {p}
    BY DEF PeersAreOthers, ToSet
  <2> QED
    BY <1>1, <2>1, <2>2, <2>3 DEF PeersAreOthers
<1>3. CASE R!PeerLost(n, p)
  <2>1. peers' = [peers EXCEPT ![n] = R!RemoveFirst(peers[n], p)]
    BY <1>3 DEF R!PeerLost, R!TimedOut, PeersAreOthers
  <2>2. peers[n] \in Seq(Node)
    BY DEF PeersAreOthers
  <2>3. peers' = [peers EXCEPT ![n] = RemoveFirst(peers[n], p)]
    BY <2>1, <2>2, RemoveFirstOfRing
  <2>4. /\ RemoveFirst(peers[n], p) \in Seq(Node)
        /\ ToSet(RemoveFirst(peers[n], p)) \subseteq ToSet(peers[n])
    BY <2>2, RemoveFirstKeeps
  <2> QED
    BY <1>1, <2>3, <2>4 DEF PeersAreOthers
<1> QED
  BY <1>2, <1>3

-----------------------------------------------------------------------------
(***************************************************************************)
(* The start and the steps.                                                *)
(***************************************************************************)
\* ToSet as the instance of RingTopology sees it, and the one ring it starts from.
LEMMA RingToSet == \A s : R!ToSet(s) = ToSet(s)
BY DEF R!ToSet, ToSet

LEMMA FoundersOfRing == R!Founders = Members
<1>1. \A x : x \in R!Founders <=> x \in R!ToSet(Start)
  BY DEF R!Founders
<1> QED
  BY <1>1, RingToSet DEF Members

\* Whatever the order of the tables, every member starts with all the others.
LEMMA InitPeers ==
  ASSUME Init
  PROVE  /\ peers \in [Node -> Seq(Node)]
         /\ \A n \in Node : ToSet(peers[n]) = IF n \in Members THEN Members \ {n} ELSE {}
<1>1. PICK tables \in Tables :
        peers = [n \in Node |-> IF n \in Members THEN tables[n] ELSE <<>>]
  BY FoundersOfRing DEF Init, R!Init
<1>2. ASSUME NEW n \in Members
      PROVE  tables[n] \in Seq(Node) /\ ToSet(tables[n]) = Members \ {n}
  BY TablesHoldPeers DEF Members
<1>3. <<>> \in Seq(Node) /\ ToSet(<<>>) = {}
  BY DEF ToSet
<1> QED
  BY <1>1, <1>2, <1>3

LEMMA InitLeaderInv == Init => LeaderInv
<1> SUFFICES ASSUME Init PROVE LeaderInv
  OBVIOUS
<1>1. Leadership
  <2>1. /\ leaderId = [n \in Node |-> IF n \in Members THEN Max(Members) ELSE None]
        /\ isLeader = [n \in Node |-> leaderId[n] = n]
    BY DEF Init
  <2> QED
    BY <2>1 DEF Leadership, LeaderKnowsItself
<1>2. PeersAreOthers
  BY InitPeers DEF PeersAreOthers
<1>3. ClaimsAreOfOthers /\ alive \subseteq Node
  BY DEF Init, R!Init, ClaimsAreOfOthers
<1> QED
  BY <1>1, <1>2, <1>3 DEF LeaderInv

\* The steps of one node, by what they touch.
LEMMA NodeStepKeeps ==
  ASSUME LeaderInv, NEW n \in Node, Tasks(n) \/ Loop(n) \/ Elect(n)
  PROVE  LeaderInv'
<1> USE DEF LeaderInv
<1>1. UNCHANGED <<alive, peers>>
  BY DEF Tasks, Loop, RunScheduled, FailureStarts, FailureResumes, LoopBegins, LoopResumes,
     SendHeartbeat, HeartbeatTimesOut, R!LeaderTimesOut, Validate, PauseEnds, AutoStart,
     R!ValidateNeighbours, Elect, topology
<1>2. PeersAreOthers' /\ alive' \subseteq Node
  BY <1>1, UntouchedKeeps
<1>3. Leadership'
  <2>1. CASE RunScheduled(n) \/ Elect(n)
    BY <2>1, StartElectionKeeps DEF RunScheduled, Elect
  <2>2. CASE FailureStarts(n) \/ HeartbeatTimesOut(n)
    BY <2>2, ForgetLeaderKeeps DEF FailureStarts, HeartbeatTimesOut
  <2>3. CASE FailureResumes(n) \/ LoopResumes(n)
    BY <2>3, AfterWaitKeeps DEF FailureResumes, LoopResumes
  <2>4. CASE LoopBegins(n) \/ SendHeartbeat(n) \/ Validate(n) \/ PauseEnds(n) \/ AutoStart(n)
    BY <2>4, UntouchedKeeps DEF LoopBegins, SendHeartbeat, Validate, PauseEnds, AutoStart
  <2> QED
    BY <2>1, <2>2, <2>3, <2>4 DEF Tasks, Loop
<1>4. ClaimsAreOfOthers'
  <2>1. CASE SendHeartbeat(n)
    <3>1. claims' \subseteq claims \cup HS!Claims(n, "LEADER_HEARTBEAT")
      BY <2>1 DEF SendHeartbeat
    <3> QED
      BY <3>1, BroadcastKeeps
  <2>2. CASE ~ SendHeartbeat(n)
    <3>1. UNCHANGED claims
      BY <2>2 DEF Tasks, Loop, RunScheduled, FailureStarts, FailureResumes, LoopBegins,
         LoopResumes, HeartbeatTimesOut, Validate, PauseEnds, AutoStart, Elect
    <3> QED
      BY <3>1, FewerClaims
  <2> QED
    BY <2>1, <2>2
<1> QED
  BY <1>2, <1>3, <1>4

\* Time, discovery, the liveness check and crashes leave the leadership alone.
LEMMA SurroundingsKeep ==
  ASSUME LeaderInv, NEW n \in Node,
         \/ Settle(n) \/ HeartbeatsStop(n) \/ CheckSuccessor(n) \/ Crash(n)
         \/ \E p \in Node : Discovered(n, p) \/ Lost(n, p)
  PROVE  LeaderInv'
<1> USE DEF LeaderInv
<1>1. UNCHANGED leadership /\ claims' \subseteq claims
  BY DEF Settle, HeartbeatsStop, CheckSuccessor, Crash, Discovered, Lost
<1>2. Leadership' /\ ClaimsAreOfOthers'
  BY <1>1, UntouchedKeeps, FewerClaims
<1>3. PeersAreOthers'
  <2>1. CASE \E p \in Node : Discovered(n, p) \/ Lost(n, p)
    BY <2>1, DiscoveryKeeps DEF Discovered, Lost
  <2>2. CASE Settle(n) \/ HeartbeatsStop(n) \/ CheckSuccessor(n) \/ Crash(n)
    <3>1. UNCHANGED peers
      BY <2>2 DEF Settle, HeartbeatsStop, CheckSuccessor, Crash, R!CheckSuccessor, R!Crash,
         topology
    <3> QED
      BY <3>1, UntouchedKeeps
  <2> QED
    BY <2>1, <2>2
<1>4. alive' \subseteq Node
  BY DEF Settle, HeartbeatsStop, CheckSuccessor, Crash, Discovered, Lost,
     R!CheckSuccessor, R!Crash, R!PeerDiscovered, R!PeerLost, topology
<1> QED
  BY <1>2, <1>3, <1>4

LEMMA ClaimKeeps ==
  ASSUME LeaderInv, NEW m \in claims, HandleClaim(m)
  PROVE  LeaderInv'
<1> USE DEF LeaderInv
<1>1. UNCHANGED <<alive, peers>> /\ claims' \subseteq claims
  BY DEF HandleClaim, HandleAnnouncement, HandleHeartbeat, ReceiveClaim, topology
<1>2. HS!Follow(m) \/ UNCHANGED leadership
  BY DEF HandleClaim, HandleAnnouncement, HandleHeartbeat
<1> QED
  BY <1>1, <1>2, FollowKeeps, UntouchedKeeps, FewerClaims

\* A JOIN_RESPONSE may name any leader, the new node itself among them.
LEMMA RingDatagramKeeps ==
  ASSUME LeaderInv, NEW m \in net, HandleRing(m)
  PROVE  LeaderInv'
<1> USE DEF LeaderInv
<1>1. UNCHANGED <<alive, peers, claims>>
  BY DEF HandleRing, HandleJoin, HandleJoinResponse, HandlePointer, R!JoinTimesOut,
     R!JoinIgnored, R!JoinMakesRing, R!JoinInserts, R!JoinResponse, R!UpdatePredecessor,
     R!Notify
<1>2. Leadership'
  <2>1. CASE AdoptLeader(m.to, told[m.to])
    <3>1. /\ leaderId' = [leaderId EXCEPT ![m.to] = told[m.to]]
          /\ isLeader' = [isLeader EXCEPT ![m.to] = (told[m.to] = m.to)]
      BY <2>1 DEF AdoptLeader
    <3> QED
      BY <3>1, WrittenTogether
  <2>2. CASE UNCHANGED leadership
    BY <2>2, UntouchedKeeps
  <2> QED
    BY <2>1, <2>2 DEF HandleRing, HandleJoin, HandleJoinResponse, HandlePointer
<1> QED
  BY <1>1, <1>2, UntouchedKeeps, FewerClaims

LEMMA StepKeepsLeaderInv == LeaderInv /\ [Next]_vars => LeaderInv'
<1> SUFFICES ASSUME LeaderInv, [Next]_vars PROVE LeaderInv'
  OBVIOUS
<1>1. ASSUME NEW n \in Node,
             \/ Settle(n) \/ Tasks(n) \/ Loop(n) \/ HeartbeatsStop(n) \/ CheckSuccessor(n)
             \/ Elect(n) \/ Crash(n)
             \/ \E p \in Node : Discovered(n, p) \/ Lost(n, p)
      PROVE  LeaderInv'
  BY <1>1, NodeStepKeeps, SurroundingsKeep
<1>2. ASSUME NEW m \in probes \cup replies, HandleElection(m) PROVE LeaderInv'
  <2>1. UNCHANGED <<alive, peers>>
    BY <1>2 DEF HandleElection, topology
  <2> QED
    BY <1>2, <2>1, ElectionKeeps, UntouchedKeeps DEF LeaderInv
<1>3. ASSUME NEW m \in claims, HandleClaim(m) PROVE LeaderInv'
  BY <1>3, ClaimKeeps
<1>4. ASSUME NEW m \in net, HandleRing(m) PROVE LeaderInv'
  BY <1>4, RingDatagramKeeps
<1>5. CASE UNCHANGED vars
  <2>1. UNCHANGED <<alive, peers, claims, leadership>>
    BY <1>5 DEF vars, topology
  <2> QED
    BY <2>1, UntouchedKeeps, FewerClaims DEF LeaderInv
<1> QED
  BY <1>1, <1>2, <1>3, <1>4, <1>5 DEF Next

-----------------------------------------------------------------------------
(***************************************************************************)
(* The theorem.                                                            *)
(***************************************************************************)
\* LeaderKnowsItself: is_leader and leader_id, written by the election, the
\* failure handler, the heartbeats and the join response, agree in every state,
\* however many nodes crash and however late anything arrives.
THEOREM LeaderKnowsItselfHolds == Spec => []LeaderKnowsItself
<1>1. Init => LeaderInv
  BY InitLeaderInv
<1>2. LeaderInv /\ [Next]_vars => LeaderInv'
  BY StepKeepsLeaderInv
<1>3. LeaderInv => LeaderKnowsItself
  BY DEF LeaderInv, Leadership
<1> QED
  BY <1>1, <1>2, <1>3, PTL DEF Spec

-----------------------------------------------------------------------------
(***************************************************************************)
(* The ring below: each step is one of RingTopology, or leaves all that it *)
(* speaks of alone.                                                        *)
(***************************************************************************)
PointersAreFunctions ==
  /\ succ = [n \in Node |-> succ[n]] /\ pred = [n \in Node |-> pred[n]]
  /\ established = [n \in Node |-> established[n]]

LEMMA BecomeKeepsFunctions ==
  ASSUME PointersAreFunctions, NEW n, NEW q, R!Become(n, q)
  PROVE  PointersAreFunctions'
BY DEF PointersAreFunctions, R!Become

LEMMA OnePointerKeepsFunctions ==
  ASSUME PointersAreFunctions, NEW n, NEW v,
         \/ succ' = [succ EXCEPT ![n] = v] /\ UNCHANGED <<pred, established>>
         \/ pred' = [pred EXCEPT ![n] = v] /\ UNCHANGED <<succ, established>>
         \/ UNCHANGED R!pointers
  PROVE  PointersAreFunctions'
BY DEF PointersAreFunctions, R!pointers

LEMMA RingKeepsFunctions ==
  ASSUME PointersAreFunctions, [R!Next]_(R!vars)
  PROVE  PointersAreFunctions'
<1>1. ASSUME NEW m \in net, R!Handle(m) \/ R!Lose(m) PROVE PointersAreFunctions'
  <2>1. CASE R!JoinMakesRing(m) \/ R!JoinResponse(m)
    BY <2>1, BecomeKeepsFunctions DEF R!JoinMakesRing, R!JoinResponse
  <2>2. CASE R!JoinInserts(m)
    BY <2>2, OnePointerKeepsFunctions DEF R!JoinInserts
  <2>3. CASE R!PredecessorResponse(m)
    BY <2>3, OnePointerKeepsFunctions DEF R!PredecessorResponse
  <2>4. CASE R!UpdatePredecessor(m)
    BY <2>4, OnePointerKeepsFunctions DEF R!UpdatePredecessor
  <2>5. CASE R!Notify(m)
    <3>1. PICK v : pred' = [pred EXCEPT ![m.to] = v] /\ UNCHANGED <<succ, established>>
      BY <2>5 DEF R!Notify
    <3> QED
      BY <3>1, OnePointerKeepsFunctions
  <2>6. CASE \/ R!JoinTimesOut(m) \/ R!JoinIgnored(m) \/ R!GetPredecessor(m) \/ R!Lose(m)
    BY <2>6, OnePointerKeepsFunctions DEF R!JoinTimesOut, R!JoinIgnored, R!GetPredecessor,
       R!Lose
  <2> QED
    BY <1>1, <2>1, <2>2, <2>3, <2>4, <2>5, <2>6 DEF R!Handle
<1>2. ASSUME NEW n \in Node,
             \/ \E p \in Node : R!PeerDiscovered(n, p) \/ R!PeerLost(n, p)
             \/ R!Stabilize(n) \/ R!CheckSuccessor(n) \/ R!ValidateNeighbours(n)
             \/ \E l \in {succ[n], pred[n]} \ {None} : R!LeaderTimesOut(n, l)
             \/ R!Crash(n)
      PROVE  PointersAreFunctions'
  <2>1. (\E q : R!Become(n, q)) \/ UNCHANGED R!pointers
    BY <1>2 DEF R!PeerDiscovered, R!PeerLost, R!Stabilize, R!CheckSuccessor,
       R!ValidateNeighbours, R!LeaderTimesOut, R!Crash
  <2> QED
    BY <2>1, BecomeKeepsFunctions, OnePointerKeepsFunctions
<1>3. CASE UNCHANGED R!vars
  BY <1>3, OnePointerKeepsFunctions DEF R!vars
<1> QED
  BY <1>1, <1>2, <1>3 DEF R!Next

\* Only a neighbour is repaired: with any other leader nothing moves.
LEMMA TimeOutIsRingStep ==
  ASSUME PointersAreFunctions, NEW n \in Node, HeartbeatTimesOut(n)
  PROVE  [R!Next]_(R!vars)
<1>1. R!LeaderTimesOut(n, leaderId[n]) /\ leaderId[n] # None
  BY DEF HeartbeatTimesOut
<1>2. CASE leaderId[n] \in {succ[n], pred[n]}
  BY <1>1, <1>2 DEF R!Next
<1>3. CASE leaderId[n] \notin {succ[n], pred[n]}
  <2>1. R!Become(n, R!At(n)) /\ R!Send(n, {})
    BY <1>1, <1>3 DEF R!LeaderTimesOut, R!At
  <2>2. UNCHANGED R!pointers
    BY <2>1 DEF R!Become, R!At, R!pointers, PointersAreFunctions
  <2>3. net' = net
    BY <2>1 DEF R!Send, R!OnWire
  <2> QED
    BY <1>1, <2>2, <2>3 DEF R!LeaderTimesOut, R!vars
<1> QED
  BY <1>2, <1>3

\* So the composition adds nothing to the ring, and what RingTopology says of every
\* step of RingService holds with the failure handler and the election beside it.
LEMMA StepIsRingStep ==
  ASSUME PointersAreFunctions, [Next]_vars
  PROVE  [R!Next]_(R!vars)
<1>1. UNCHANGED topology => UNCHANGED R!vars
  BY DEF topology, R!vars, R!pointers
<1>2. ASSUME NEW n \in Node, Tasks(n) \/ Loop(n) \/ Elect(n) PROVE [R!Next]_(R!vars)
  <2>1. CASE HeartbeatTimesOut(n)
    BY <2>1, TimeOutIsRingStep
  <2>2. CASE Validate(n)
    BY <2>2 DEF Validate, R!Next
  <2>3. CASE ~HeartbeatTimesOut(n) /\ ~Validate(n)
    BY <1>1, <1>2, <2>3 DEF Tasks, Loop, RunScheduled, FailureStarts, FailureResumes,
       LoopBegins, LoopResumes, SendHeartbeat, PauseEnds, AutoStart, Elect
  <2> QED
    BY <2>1, <2>2, <2>3
<1>3. ASSUME NEW n \in Node,
             \/ Settle(n) \/ HeartbeatsStop(n) \/ CheckSuccessor(n) \/ Crash(n)
             \/ \E p \in Node : Discovered(n, p) \/ Lost(n, p)
      PROVE  [R!Next]_(R!vars)
  BY <1>1, <1>3 DEF Settle, HeartbeatsStop, CheckSuccessor, Crash, Discovered, Lost, R!Next
<1>4. ASSUME NEW m, HandleElection(m) \/ HandleClaim(m) PROVE [R!Next]_(R!vars)
  BY <1>1, <1>4 DEF HandleElection, HandleClaim, HandleAnnouncement, HandleHeartbeat
<1>5. ASSUME NEW m \in net, HandleRing(m) PROVE [R!Next]_(R!vars)
  <2>1. R!Handle(m)
    BY <1>5 DEF HandleRing, HandleJoin, HandleJoinResponse, HandlePointer, R!Handle
  <2> QED
    BY <2>1 DEF R!Next
<1>6. CASE UNCHANGED vars
  BY <1>1, <1>6 DEF vars
<1> QED
  BY <1>2, <1>3, <1>4, <1>5, <1>6 DEF Next

-----------------------------------------------------------------------------
(***************************************************************************)
(* What RingTopologyProofs proves of the ring holds here: its instance     *)
(* speaks of the same states and steps as R does.                          *)
(***************************************************************************)
Ring == INSTANCE RingTopologyProofs
  WITH Founded <- {Start}, Loops <- {"heartbeat", "liveness"}, MaxPingFailures <- 3

\* The assumptions of RingTopology, as the instance states them.
LEMMA RingNodes == Ring!IsFiniteSet(Node)
BY NodesAreOrdered DEF Ring!IsFiniteSet, IsFiniteSet

LEMMA RingIsInjective == Ring!IsInjective(Start)
BY StartIsRing DEF Ring!IsInjective, IsInjective

LEMMA RingMembers == Ring!Founders = Members
<1>1. \A x : x \in Ring!Founders <=> x \in Ring!ToSet(Start)
  BY DEF Ring!Founders
<1> QED
  BY <1>1 DEF Ring!ToSet, ToSet, Members

LEMMA RingTables ==
  \A tables \in Tables : \A n \in Ring!Founders :
    /\ tables[n] \in Seq(Node) /\ Ring!IsInjective(tables[n])
    /\ Ring!ToSet(tables[n]) = Ring!Founders \ {n}
<1> SUFFICES ASSUME NEW tables \in Tables, NEW n \in Ring!Founders
             PROVE  /\ tables[n] \in Seq(Node) /\ Ring!IsInjective(tables[n])
                    /\ Ring!ToSet(tables[n]) = Ring!Founders \ {n}
  OBVIOUS
<1>1. /\ tables[n] \in Seq(Node) /\ IsInjective(tables[n])
      /\ ToSet(tables[n]) = Members \ {n}
  BY TablesHoldPeers, RingMembers DEF Members
<1> QED
  BY <1>1, RingMembers DEF Ring!IsInjective, IsInjective, Ring!ToSet, ToSet

LEMMA RingFounded ==
  \A r \in {Start} : r \in Seq(Node) /\ Len(r) > 1 /\ Ring!IsInjective(r)
BY StartIsRing, RingIsInjective

LEMMA RingsDisjoint ==
  \A r, s \in {Start} : r # s => Ring!ToSet(r) \cap Ring!ToSet(s) = {}
OBVIOUS

LEMMA RingLimits == 3 \in Nat \ {0} /\ MaxLost \in Nat /\ MaxCrashes \in Nat
BY LimitsAreNat

LEMMA SameInit == R!Init <=> Ring!Init
BY DEF R!Init, Ring!Init, R!Founders, Ring!Founders, R!ToSet, Ring!ToSet, R!Neighbour,
   Ring!Neighbour, R!RingOf, Ring!RingOf

LEMMA SameVars == UNCHANGED R!vars <=> UNCHANGED Ring!vars
BY DEF R!vars, Ring!vars, R!pointers, Ring!pointers

LEMMA SameRepairs ==
  /\ \A q, known : R!FixSuccessor(q, known) = Ring!FixSuccessor(q, known)
  /\ \A q, known : R!FixPredecessor(q, known) = Ring!FixPredecessor(q, known)
  /\ \A s, e : R!RemoveFirst(s, e) = Ring!RemoveFirst(s, e)
BY DEF R!FixPredecessor, Ring!FixPredecessor, R!FixSuccessor, Ring!FixSuccessor,
   R!FirstPeer, Ring!FirstPeer, R!Alone, Ring!Alone, R!RemoveFirst, Ring!RemoveFirst,
   R!RemoveAt, Ring!RemoveAt, R!SelectInSeq, Ring!SelectInSeq, R!Min, Ring!Min

LEMMA SameWire ==
  /\ \A n : R!Known(n) = Ring!Known(n)
  /\ \A n, d : R!Send(n, d) <=> Ring!Send(n, d)
BY DEF R!ToSet, Ring!ToSet, R!Known, Ring!Known, R!OnWire, Ring!OnWire, R!Send,
   Ring!Send

LEMMA SamePointers ==
  /\ \A n : R!At(n) = Ring!At(n)
  /\ \A n, q : R!Become(n, q) <=> Ring!Become(n, q)
  /\ \A n, q : R!NotifyOf(n, q) = Ring!NotifyOf(n, q)
BY DEF R!At, Ring!At, R!Become, Ring!Become, R!NotifyOf, Ring!NotifyOf, R!Datagram,
   Ring!Datagram

LEMMA SameNext == R!Next <=> Ring!Next
<1>1. ASSUME NEW m
      PROVE  /\ R!JoinTimesOut(m) <=> Ring!JoinTimesOut(m)
             /\ R!JoinIgnored(m) <=> Ring!JoinIgnored(m)
             /\ R!JoinMakesRing(m) <=> Ring!JoinMakesRing(m)
             /\ R!JoinInserts(m) <=> Ring!JoinInserts(m)
  BY DEF R!JoinTimesOut, Ring!JoinTimesOut, R!JoinIgnored, Ring!JoinIgnored,
     R!JoinMakesRing, Ring!JoinMakesRing, R!JoinInserts, Ring!JoinInserts, R!Receive,
     Ring!Receive, R!Answer, Ring!Answer, R!MayJoin, Ring!MayJoin, R!Insertion,
     Ring!Insertion, R!Become, Ring!Become, R!Datagram, Ring!Datagram, R!pointers,
     Ring!pointers, R!ToSet, Ring!ToSet, R!Known, Ring!Known, R!OnWire, Ring!OnWire
<1>2. ASSUME NEW m
      PROVE  /\ R!JoinResponse(m) <=> Ring!JoinResponse(m)
             /\ R!UpdatePredecessor(m) <=> Ring!UpdatePredecessor(m)
  BY DEF R!JoinResponse, Ring!JoinResponse, R!UpdatePredecessor, Ring!UpdatePredecessor,
     R!Receive, Ring!Receive, R!Become, Ring!Become
<1>3. ASSUME NEW m
      PROVE  R!GetPredecessor(m) <=> Ring!GetPredecessor(m)
  BY DEF R!GetPredecessor, Ring!GetPredecessor, R!Answer, Ring!Answer, R!Receive,
     Ring!Receive, R!Datagram, Ring!Datagram, R!pointers, Ring!pointers, R!ToSet,
     Ring!ToSet, R!Known, Ring!Known, R!OnWire, Ring!OnWire
<1>4. ASSUME NEW m
      PROVE  R!PredecessorResponse(m) <=> Ring!PredecessorResponse(m)
  BY DEF R!PredecessorResponse, Ring!PredecessorResponse, R!Answer, Ring!Answer,
     R!Receive, Ring!Receive, R!NotifyOf, Ring!NotifyOf, R!Datagram, Ring!Datagram,
     R!At, Ring!At, R!NewSuccessor, Ring!NewSuccessor, R!ToSet, Ring!ToSet, R!Known,
     Ring!Known, R!OnWire, Ring!OnWire
<1>5. ASSUME NEW m
      PROVE  /\ R!Notify(m) <=> Ring!Notify(m)
             /\ R!Lose(m) <=> Ring!Lose(m)
  BY DEF R!Notify, Ring!Notify, R!Lose, Ring!Lose, R!Receive, Ring!Receive, R!pointers,
     Ring!pointers, R!ToSet, Ring!ToSet, R!Known, Ring!Known
<1>6. ASSUME NEW n, NEW p
      PROVE  R!PeerDiscovered(n, p) <=> Ring!PeerDiscovered(n, p)
  BY DEF R!PeerDiscovered, Ring!PeerDiscovered, R!FirstHello, Ring!FirstHello,
     R!Datagram, Ring!Datagram, R!pointers, Ring!pointers, R!ToSet, Ring!ToSet, R!Known,
     Ring!Known, R!OnWire, Ring!OnWire
<1>7. ASSUME NEW n, NEW p
      PROVE  R!PeerLost(n, p) <=> Ring!PeerLost(n, p)
  BY SameRepairs DEF R!PeerLost, Ring!PeerLost, R!TimedOut, Ring!TimedOut, R!At,
     Ring!At, R!Become, Ring!Become, R!NotifyOf, Ring!NotifyOf, R!Datagram,
     Ring!Datagram, R!ToSet, Ring!ToSet, R!Known, Ring!Known, R!OnWire, Ring!OnWire
<1>8. ASSUME NEW n
      PROVE  R!Stabilize(n) <=> Ring!Stabilize(n)
  BY DEF R!Stabilize, Ring!Stabilize, R!Send, Ring!Send, R!Datagram, Ring!Datagram,
     R!pointers, Ring!pointers, R!ToSet, Ring!ToSet, R!Known, Ring!Known, R!OnWire,
     Ring!OnWire
<1>9. ASSUME NEW n
      PROVE  R!CheckSuccessor(n) <=> Ring!CheckSuccessor(n)
  BY SameRepairs DEF R!CheckSuccessor, Ring!CheckSuccessor, R!At, Ring!At, R!Become,
     Ring!Become, R!Send, Ring!Send, R!NotifyOf, Ring!NotifyOf, R!Datagram,
     Ring!Datagram, R!pointers, Ring!pointers, R!ToSet, Ring!ToSet, R!Known, Ring!Known,
     R!OnWire, Ring!OnWire
<1>10. ASSUME NEW n
      PROVE  R!ValidateNeighbours(n) <=> Ring!ValidateNeighbours(n)
  BY SameWire, SamePointers, SameRepairs DEF R!ValidateNeighbours,
     Ring!ValidateNeighbours
<1>11. ASSUME NEW n, NEW p
      PROVE  R!LeaderTimesOut(n, p) <=> Ring!LeaderTimesOut(n, p)
  BY SameWire, SamePointers, SameRepairs DEF R!LeaderTimesOut, Ring!LeaderTimesOut
<1>12. ASSUME NEW n
      PROVE  R!Crash(n) <=> Ring!Crash(n)
  BY DEF R!Crash, Ring!Crash, R!pointers, Ring!pointers, R!Cardinality, Ring!Cardinality
<1> QED
  BY <1>1, <1>2, <1>3, <1>4, <1>5, <1>6, <1>7, <1>8, <1>9, <1>10, <1>11, <1>12
     DEF R!Next, Ring!Next, R!Handle, Ring!Handle

LEMMA StartKeepsRingInv == Init => Ring!RingInv
BY SameInit, Ring!InitRingInv, NoneIsNoNode, RingNodes, RingFounded, RingsDisjoint, RingTables,
   RingLimits DEF Init

LEMMA StepKeepsRing == Ring!RingInv /\ [R!Next]_(R!vars) => Ring!RingInv'
<1>1. [R!Next]_(R!vars) => [Ring!Next]_(Ring!vars)
  BY SameNext, SameVars
<1> QED
  BY <1>1, Ring!StepKeepsRingInv, NoneIsNoNode, RingNodes, RingFounded, RingsDisjoint,
     RingTables, RingLimits

LEMMA RingInvGives ==
  Ring!RingInv => R!TypeOK /\ R!NobodyIsItsOwnNeighbour /\ R!EstablishedIsLinked
<1>1. Ring!RingInv => Ring!TypeOK /\ Ring!NobodyIsItsOwnNeighbour /\ Ring!EstablishedIsLinked
  BY Ring!RingInvImplies, NoneIsNoNode, RingNodes, RingFounded, RingsDisjoint, RingTables,
     RingLimits
<1>2. R!TypeOK <=> Ring!TypeOK
  BY DEF R!TypeOK, Ring!TypeOK, R!Pointer, Ring!Pointer, R!Types, Ring!Types
<1>3. R!NobodyIsItsOwnNeighbour <=> Ring!NobodyIsItsOwnNeighbour
  BY DEF R!NobodyIsItsOwnNeighbour, Ring!NobodyIsItsOwnNeighbour
<1>4. R!EstablishedIsLinked <=> Ring!EstablishedIsLinked
  BY DEF R!EstablishedIsLinked, Ring!EstablishedIsLinked
<1> QED
  BY <1>1, <1>2, <1>3, <1>4

\* NobodyIsItsOwnNeighbour and EstablishedIsLinked of RingTopology, with the failure
\* handler and the election beside the ring: no repair that a lost leader brings
\* about points a node at itself or leaves it marked as in the ring without both
\* pointers.
THEOREM RingStaysLinked ==
  Spec => [](R!TypeOK /\ R!NobodyIsItsOwnNeighbour /\ R!EstablishedIsLinked)
<1>1. Init => Ring!RingInv /\ PointersAreFunctions
  BY StartKeepsRingInv DEF Init, R!Init, PointersAreFunctions
<1>2. PointersAreFunctions /\ Ring!RingInv /\ [Next]_vars
      => PointersAreFunctions' /\ Ring!RingInv'
  BY StepIsRingStep, RingKeepsFunctions, StepKeepsRing
<1> QED
  BY <1>1, <1>2, RingInvGives, PTL DEF Spec

-----------------------------------------------------------------------------
(***************************************************************************)
(* The members a ring starts with.                                         *)
(***************************************************************************)
\* The leader they start with.
Leader == Max(Members)

LEMMA StartFacts ==
  /\ Start \in Seq(Node) /\ Len(Start) \in Nat /\ Len(Start) > 1
  /\ DOMAIN Start = 1 .. Len(Start)
  /\ Members \subseteq Node
  /\ \A i \in 1 .. Len(Start) : Start[i] \in Members
  /\ \A n \in Members : \E i \in 1 .. Len(Start) : Start[i] = n
  /\ \A i, j \in 1 .. Len(Start) : Start[i] = Start[j] => i = j
<1>1. Start \in Seq(Node) /\ Len(Start) \in Nat /\ Len(Start) > 1
      /\ DOMAIN Start = 1 .. Len(Start)
  BY StartIsRing
<1>2. Members = {Start[i] : i \in 1 .. Len(Start)}
  BY <1>1 DEF Members, ToSet
<1>3. \A i, j \in 1 .. Len(Start) : Start[i] = Start[j] => i = j
  BY <1>1, StartIsRing DEF IsInjective
<1> QED
  BY <1>1, <1>2, <1>3

LEMMA LeaderIsMember == Leader \in Members
<1>1. Members \subseteq Node /\ Members # {}
  <2>1. 1 \in 1 .. Len(Start)
    BY StartFacts
  <2> QED
    BY <2>1, StartFacts
<1>2. Members \in SUBSET Nat /\ IsFiniteSet(Members)
  BY <1>1, NodesAreOrdered, FS_Subset
<1> QED
  BY <1>1, <1>2, MaxIsMember DEF Leader

-----------------------------------------------------------------------------
(***************************************************************************)
(* Why there is an election: as long as the first leader lives, nobody has *)
(* a reason to start one.                                                  *)
(***************************************************************************)
NoElection ==
  /\ inProgress = [n \in Node |-> FALSE]
  /\ scheduled = [n \in Node |-> FALSE]
  /\ created = [n \in Node |-> FALSE]
  /\ waiting = [n \in Node |-> 0]
  /\ round = [n \in Node |-> 0]
  /\ probes = {} /\ replies = {}

\* Everybody keeps to the leader, who sends heartbeats to all that are alive; of
\* the ring nothing is said, except that nobody has anything to join.
Peace ==
  /\ NoElection
  /\ leaderId = [n \in Node |-> Leader]
  /\ \A n \in alive : alive \ {n} \subseteq ToSet(peers[n])
  /\ \A m \in claims : m.type = "LEADER_HEARTBEAT" /\ m.leader = Leader
  /\ heard \in [Node -> {"never", "recent"}] /\ heard[Leader] = "never"
  /\ loop = [n \in Node |-> "top"]
  /\ \A m \in net : m.type = "NOTIFY"

PeaceInv == LeaderInv /\ (Leader \in alive /\ asked = {} => Peace)

\* What the theorems assume: everybody is a member from the start, and no HELLO or
\* heartbeat of a live node is so late that it times out.  Any of the others may
\* crash, at any time and all at once.
OnlyCrashes == Members = Node /\ "hearing" \in Assumed

LEMMA InitPeaceInv == OnlyCrashes /\ Init => PeaceInv
<1> SUFFICES ASSUME OnlyCrashes, Init PROVE LeaderInv /\ Peace
  BY DEF PeaceInv
<1>1. LeaderInv
  BY InitLeaderInv
<1>2. NoElection
  BY DEF Init, NoElection
<1>3. alive = Node /\ net = {} /\ claims = {}
  BY DEF Init, R!Init
<1>4. ASSUME NEW n \in Node PROVE Node \ {n} \subseteq ToSet(peers[n])
  BY InitPeers DEF OnlyCrashes
<1>5. /\ leaderId = [n \in Node |-> Leader] /\ loop = [n \in Node |-> "top"]
      /\ heard = [n \in Node |-> "never"]
  BY DEF Init, Leader, OnlyCrashes
<1>6. Leader \in Node
  BY LeaderIsMember DEF OnlyCrashes
<1> QED
  BY <1>1, <1>2, <1>3, <1>4, <1>5, <1>6 DEF Peace

\* In peace the leader, and nobody else, takes itself for the leader.
LEMMA LeaderAlone ==
  ASSUME LeaderInv, Peace
  PROVE  \A n \in Node : isLeader[n] <=> n = Leader
BY DEF LeaderInv, Leadership, LeaderKnowsItself, Peace

\* Nothing is pending, and nobody has a reason to look for another leader.
LEMMA PeaceIsQuiet ==
  ASSUME "hearing" \in Assumed, LeaderInv, Peace, Leader \in alive, NEW n \in Node
  PROVE  /\ ~Tasks(n) /\ ~HeartbeatsStop(n)
         /\ Loop(n) => SendHeartbeat(n)
         /\ \A p \in Node : ~Discovered(n, p)
<1>1. Leader \in Node /\ Leader # None
  BY NoneIsNoNode DEF LeaderInv
<1>2. ~Tasks(n)
  <2>1. ~scheduled[n] /\ ~created[n] /\ waiting[n] = 0
    BY DEF Peace, NoElection
  <2>2. ~ (waiting[n] > 0)
    BY <2>1
  <2> QED
    BY <2>1, <2>2 DEF Tasks, RunScheduled, FailureStarts, FailureResumes
<1>3. ~HeartbeatsStop(n)
  <2>1. n \in alive /\ heard[n] = "recent" => HeartbeatDue(n)
    BY <1>1, LeaderAlone DEF Peace, HeartbeatDue
  <2> QED
    BY <2>1 DEF HeartbeatsStop
<1>4. Loop(n) => SendHeartbeat(n)
  <2>1. ~LoopBegins(n) /\ ~LoopResumes(n) /\ ~PauseEnds(n) /\ ~AutoStart(n)
    BY DEF Peace, LoopBegins, LoopResumes, PauseEnds, AutoStart
  <2>2. ~HeartbeatTimesOut(n)
    BY DEF Peace, HeartbeatTimesOut
  <2>3. ~Validate(n)
    BY <1>1 DEF Peace, Validate, NeedsLeader
  <2> QED
    BY <2>1, <2>2, <2>3 DEF Loop
<1>5. \A p \in Node : ~Discovered(n, p)
  BY RingToSet DEF Peace, Discovered, R!PeerDiscovered, R!FirstHello, R!Known
<1> QED
  BY <1>2, <1>3, <1>4, <1>5

\* The variables that Peace speaks of, the datagrams apart.
peaceful == <<inProgress, scheduled, created, waiting, round, probes, replies, leaderId, loop>>

\* A crash of anybody but the leader, and what its loss does to the ring.
LEMMA LossKeepsPeace ==
  ASSUME "hearing" \in Assumed, LeaderInv, Peace, Leader \in alive,
         NEW n \in Node, NEW p \in Node, Lost(n, p)
  PROVE  Peace'
<1>1. p \notin alive /\ n \in alive
  BY DEF Lost, R!PeerLost, R!TimedOut
<1>2. peers' = [peers EXCEPT ![n] = RemoveFirst(peers[n], p)] /\ alive' = alive
  BY RemoveFirstOfRing DEF Lost, R!PeerLost, R!TimedOut, LeaderInv, PeersAreOthers
<1>3. ToSet(peers[n]) \ {p} \subseteq ToSet(RemoveFirst(peers[n], p))
  BY RemoveFirstKeeps DEF LeaderInv, PeersAreOthers
<1>4. \A x \in alive' : alive' \ {x} \subseteq ToSet(peers'[x])
  BY <1>1, <1>2, <1>3 DEF LeaderInv, PeersAreOthers, Peace
<1>5. \A m \in net' : m.type = "NOTIFY"
  BY DEF Lost, R!PeerLost, R!OnWire, R!NotifyOf, R!Datagram, Peace
<1>6. leaderId[n] # p
  BY <1>1 DEF Peace
<1>7. created' = created
  BY <1>6 DEF Lost, Peace, NoElection
<1>8. UNCHANGED <<peaceful, claims, heard>>
  BY <1>7 DEF Lost, peaceful, leadership, election, state
<1> QED
  BY <1>4, <1>5, <1>8 DEF Peace, NoElection, peaceful

LEMMA CrashKeepsPeace ==
  ASSUME LeaderInv, Peace, NEW n \in Node, Crash(n)
  PROVE  Peace'
<1>1. /\ alive' \subseteq alive /\ claims' \subseteq claims /\ net' \subseteq net
      /\ UNCHANGED <<peaceful, heard, peers>>
  BY DEF Crash, R!Crash, peaceful, leadership, election, state, handlers
<1> QED
  BY <1>1 DEF Peace, NoElection, peaceful

\* Whoever has crashed stays so, and elect is only ever typed at a node of Asking.
LEMMA NobodyComesBack ==
  [Next]_vars => /\ alive' \subseteq alive /\ asked \subseteq asked'
                 /\ asked' # asked => Asking # {} /\ asked' # {}
<1> DEFINE Kept == alive' \subseteq alive /\ asked' = asked
<1> SUFFICES ASSUME [Next]_vars
             PROVE  Kept \/ \E n \in Node : Elect(n) /\ alive' = alive
  BY DEF Elect
<1>1. ASSUME NEW n \in Node, Tasks(n) \/ Loop(n) PROVE Kept
  BY <1>1 DEF Tasks, Loop, RunScheduled, FailureStarts, FailureResumes, LoopBegins,
     LoopResumes, SendHeartbeat, HeartbeatTimesOut, R!LeaderTimesOut, Validate, PauseEnds,
     AutoStart, R!ValidateNeighbours, topology
<1>2. ASSUME NEW n \in Node,
             \/ Settle(n) \/ HeartbeatsStop(n) \/ CheckSuccessor(n) \/ Crash(n)
             \/ \E p \in Node : Discovered(n, p) \/ Lost(n, p)
      PROVE  Kept
  BY <1>2 DEF Settle, HeartbeatsStop, CheckSuccessor, R!CheckSuccessor, Crash, R!Crash,
     Discovered, R!PeerDiscovered, Lost, R!PeerLost, topology
<1>3. ASSUME NEW m, HandleElection(m) \/ HandleClaim(m) PROVE Kept
  BY <1>3 DEF HandleElection, HandleClaim, HandleAnnouncement, HandleHeartbeat, topology
<1>4. ASSUME NEW m \in net, HandleRing(m) PROVE Kept
  BY <1>4 DEF HandleRing, HandleJoin, HandleJoinResponse, HandlePointer, R!JoinTimesOut,
     R!JoinIgnored, R!JoinMakesRing, R!JoinInserts, R!JoinResponse, R!UpdatePredecessor,
     R!Notify
<1>5. CASE UNCHANGED vars
  BY <1>5 DEF vars, topology
<1>6. ASSUME NEW n \in Node, Elect(n) PROVE alive' = alive
  BY <1>6 DEF Elect, topology
<1> QED
  BY <1>1, <1>2, <1>3, <1>4, <1>5, <1>6 DEF Next

LEMMA StepKeepsPeace ==
  ASSUME "hearing" \in Assumed, PeaceInv, [Next]_vars
  PROVE  PeaceInv'
<1>1. LeaderInv /\ LeaderInv'
  BY StepKeepsLeaderInv DEF PeaceInv
<1> SUFFICES ASSUME Leader \in alive', asked' = {} PROVE Peace'
  BY <1>1 DEF PeaceInv
<1>2. Leader \in alive /\ Peace /\ \A n \in Node : ~Elect(n)
  BY NobodyComesBack DEF PeaceInv, Elect
<1>3. ASSUME NEW n \in Node, Settle(n) \/ SendHeartbeat(n) PROVE Peace'
  <2>1. /\ UNCHANGED <<peaceful, alive, peers, heard, net>>
        /\ claims' = claims \/ SendHeartbeat(n)
    BY <1>3 DEF Settle, SendHeartbeat, peaceful, topology, leadership, election, state,
       handlers
  <2>2. SendHeartbeat(n) => n = Leader
    BY <1>1, <1>2, LeaderAlone DEF SendHeartbeat
  <2>3. \A m \in claims' : m.type = "LEADER_HEARTBEAT" /\ m.leader = Leader
    BY <1>2, <2>1, <2>2 DEF SendHeartbeat, HS!Claims, Peace
  <2> QED
    BY <1>2, <2>1, <2>3 DEF Peace, NoElection, peaceful
<1>4. ASSUME NEW n \in Node, CheckSuccessor(n) PROVE Peace'
  <2>1. UNCHANGED <<peaceful, alive, peers, heard, claims>>
    BY <1>4 DEF CheckSuccessor, R!CheckSuccessor, peaceful, leadership, election, state,
       handlers
  <2>2. \A m \in net' : m.type = "NOTIFY"
    BY <1>2, <1>4 DEF CheckSuccessor, R!CheckSuccessor, R!Send, R!OnWire, R!NotifyOf,
       R!Datagram, Peace
  <2> QED
    BY <1>2, <2>1, <2>2 DEF Peace, NoElection, peaceful
<1>5. ASSUME NEW n \in Node,
             \/ Settle(n) \/ Tasks(n) \/ Loop(n) \/ HeartbeatsStop(n) \/ CheckSuccessor(n)
             \/ Elect(n) \/ Crash(n)
             \/ \E p \in Node : Discovered(n, p) \/ Lost(n, p)
      PROVE  Peace'
  BY <1>1, <1>2, <1>3, <1>4, <1>5, PeaceIsQuiet, CrashKeepsPeace, LossKeepsPeace
<1>6. probes \cup replies = {}
  BY <1>2 DEF Peace, NoElection
<1>7. ASSUME NEW m \in claims, HandleClaim(m) PROVE Peace'
  <2>1. m.type = "LEADER_HEARTBEAT" /\ m.leader = Leader /\ m.to # Leader /\ m.to \in Node
    BY <1>1, <1>2, <1>7 DEF Peace, LeaderInv, ClaimsAreOfOthers, HandleClaim,
       HandleAnnouncement, HandleHeartbeat, ReceiveClaim
  <2>2. HandleHeartbeat(m)
    BY <1>7, <2>1 DEF HandleClaim, HandleAnnouncement, ReceiveClaim
  <2>3. leaderId[m.to] = m.leader
    BY <1>2, <2>1 DEF Peace
  <2>4. /\ UNCHANGED <<peaceful, alive, peers, net>> /\ claims' \subseteq claims
        /\ heard' = [heard EXCEPT ![m.to] = "recent"]
    BY <2>2, <2>3 DEF HandleHeartbeat, ReceiveClaim, peaceful, topology, leadership,
       election, state, handlers
  <2>5. heard' \in [Node -> {"never", "recent"}] /\ heard'[Leader] = "never"
    BY <1>2, <2>1, <2>4 DEF Peace
  <2> QED
    BY <1>2, <2>4, <2>5 DEF Peace, NoElection, peaceful
<1>8. ASSUME NEW m \in net, HandleRing(m) PROVE Peace'
  <2>1. m.type = "NOTIFY"
    BY <1>2 DEF Peace
  <2>2. HandlePointer(m) /\ R!Notify(m)
    BY <1>8, <2>1 DEF HandleRing, HandleJoin, HandleJoinResponse, HandlePointer,
       R!JoinTimesOut, R!JoinIgnored, R!JoinMakesRing, R!JoinInserts, R!MayJoin,
       R!JoinResponse, R!UpdatePredecessor, R!Receive
  <2>3. UNCHANGED <<peaceful, alive, peers, heard, claims>> /\ net' \subseteq net
    BY <2>2 DEF HandlePointer, R!Notify, peaceful, leadership, election, state, handlers
  <2> QED
    BY <1>2, <2>3 DEF Peace, NoElection, peaceful
<1>9. CASE UNCHANGED vars
  <2>1. UNCHANGED <<peaceful, alive, peers, heard, claims, net>>
    BY <1>9 DEF vars, peaceful, topology, leadership, election, state, handlers
  <2> QED
    BY <1>2, <2>1 DEF Peace, NoElection, peaceful
<1> QED
  BY <1>5, <1>6, <1>7, <1>8, <1>9 DEF Next

\* What the invariant says of elections and leaders.
LEMMA PeaceInvGives ==
  ASSUME PeaceInv
  PROVE  /\ ElectionOnlyForTheLeader
         /\ Max(Members) \in alive /\ asked = {} => OneLiveLeader /\ HighestSurvivorLeads
<1>1. ElectionOnlyForTheLeader
  BY StartFacts, LeaderIsMember
     DEF PeaceInv, Peace, NoElection, ElectionOnlyForTheLeader, Leader
<1>2. ASSUME Leader \in alive, asked = {} PROVE OneLiveLeader /\ HighestSurvivorLeads
  <2>1. \A n \in alive : isLeader[n] <=> n = Leader
    BY <1>2, LeaderAlone DEF PeaceInv, LeaderInv
  <2> QED
    BY <2>1 DEF OneLiveLeader, HighestSurvivorLeads, Leader
<1> QED
  BY <1>1, <1>2 DEF Leader

\* ElectionOnlyForTheLeader, in a ring of any size and however many of its members
\* crash: _on_peer_lost, the heartbeat loop and the repairs of the ring bring no
\* election about while the leader is there.
THEOREM ElectionOnlyForTheLeaderHolds ==
  ASSUME OnlyCrashes
  PROVE  Spec => []ElectionOnlyForTheLeader
<1>1. Init => PeaceInv
  BY InitPeaceInv
<1>2. PeaceInv /\ [Next]_vars => PeaceInv'
  BY StepKeepsPeace DEF OnlyCrashes
<1>3. PeaceInv => ElectionOnlyForTheLeader
  BY PeaceInvGives
<1> QED
  BY <1>1, <1>2, <1>3, PTL DEF Spec

\* OneLiveLeader and HighestSurvivorLeads, until the first leader crashes or elect is
\* typed: the crashes of others never give the ring a second leader, nor another one.
THEOREM OneLeaderUntilItCrashes ==
  ASSUME OnlyCrashes
  PROVE  Spec => [](Max(Members) \in alive /\ asked = {}
                      => OneLiveLeader /\ HighestSurvivorLeads)
<1>1. Init => PeaceInv
  BY InitPeaceInv
<1>2. PeaceInv /\ [Next]_vars => PeaceInv'
  BY StepKeepsPeace DEF OnlyCrashes
<1>3. PeaceInv => (Max(Members) \in alive /\ asked = {}
                     => OneLiveLeader /\ HighestSurvivorLeads)
  BY PeaceInvGives
<1> QED
  BY <1>1, <1>2, <1>3, PTL DEF Spec
=============================================================================
