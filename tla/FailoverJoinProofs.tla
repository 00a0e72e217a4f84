-------------------------- MODULE FailoverJoinProofs --------------------------
(***************************************************************************)
(* One node joins a ring of any size, while no HELLO or heartbeat is lost: *)
(* the ring stays whole, the links agree in the end, and no election is    *)
(* started.  The ring never is anything but the one it started as, or that *)
(* one with the new node between two members.  When the join is over any   *)
(* node may crash, and the rest keep to the leader while it lives.         *)
(***************************************************************************)
EXTENDS FailoverProofs

\* The neighbours of a member in the ring to start from.
After(n) == R!Neighbour(n, 0)
Before(n) == R!Neighbour(n, Len(Start) - 2)

Newcomers == Node \ Members

\* The datagrams of the join of x through p.
Request(x, p) == R!Datagram("JOIN_REQUEST", x, p, None, None)
Response(x, p) == R!Datagram("JOIN_RESPONSE", p, x, After(p), p)
Update(x, p) == R!Datagram("UPDATE_PREDECESSOR", p, After(p), None, x)

-----------------------------------------------------------------------------
(***************************************************************************)
(* The inductive invariant.                                                *)
(***************************************************************************)
\* All are alive, and the members know each other.
Views ==
  /\ alive = Node /\ losses = 0
  /\ \A n \in Members : Members \ {n} \subseteq ToSet(peers[n])

\* Nobody is taken for the leader but the leader, who is heard by its peers.
LeaderSteady ==
  /\ \A n \in Node : leaderId[n] \in {None, Leader}
  /\ \A n \in Node : n \in Members \/ established[n] => leaderId[n] = Leader
  /\ \A m \in claims : /\ m.type = "LEADER_HEARTBEAT" /\ m.leader = Leader
                       /\ m.to \in ToSet(peers[Leader])
  /\ heard \in [Node -> {"never", "recent"}]
  /\ \A n \in Node : heard[n] = "recent" => n \in ToSet(peers[Leader])

\* The loops of a newcomer begin when it knows everybody.
LoopsSteady ==
  /\ loop \in [Node -> {"setup", "top"}]
  /\ \A n \in Members : loop[n] = "top"
  /\ \A n \in Node : loop[n] = "top" =>
       leaderId[n] = Leader /\ Members \ {n} \subseteq ToSet(peers[n])

PointerTypes ==
  /\ succ = [n \in Node |-> succ[n]] /\ pred = [n \in Node |-> pred[n]]
  /\ established \in [Node -> BOOLEAN] /\ joining \in [Node -> BOOLEAN]
  /\ told = [n \in Node |-> told[n]]

\* The ring is the one it started as; a newcomer may be asking to join.
BeforeInsertion ==
  /\ \A n \in Members : succ[n] = After(n) /\ pred[n] = Before(n)
  /\ \A x \in Newcomers : succ[x] = None /\ ~established[x]
  /\ \/ net = {}
     \/ \E x \in Newcomers, p \in Members : net = {Request(x, p)} /\ joining[x]

\* The member p points at x, and the other two pointers will follow.
AfterInsertion(x, p) ==
  /\ \A n \in Members : succ[n] = IF n = p THEN x ELSE After(n)
  /\ \A n \in Members : pred[n] = IF n = After(p) /\ Update(x, p) \notin net
                                  THEN x ELSE Before(n)
  /\ x \in ToSet(peers[p])
  /\ net \subseteq {Response(x, p), Update(x, p)}
  /\ Response(x, p) \in net =>
       succ[x] = None /\ ~established[x] /\ joining[x] /\ told[x] = Leader
  /\ Response(x, p) \notin net => succ[x] = After(p) /\ pred[x] = p /\ established[x]

RingShape ==
  /\ \A n \in Members : established[n]
  /\ BeforeInsertion \/ \E x \in Newcomers, p \in Members : AfterInsertion(x, p)

JoinInv ==
  /\ LeaderInv
  /\ NoElection
  /\ Views
  /\ LeaderSteady
  /\ LoopsSteady
  /\ PointerTypes
  /\ RingShape

\* What the theorems assume: nothing is lost, no time-out runs out early, the loops
\* of a new node begin late enough, nobody crashes in the middle of its join, it is
\* the only one, and nobody types elect.
OneJoins ==
  /\ MaxLost = 0 /\ Asking = {}
  /\ {"hearing", "spacing"} \subseteq Assumed
  /\ \A x, y \in Newcomers : x = y

-----------------------------------------------------------------------------
(***************************************************************************)
(* The ring to start from.                                                 *)
(***************************************************************************)
\* The neighbours of the i-th member are the next and the previous.
LEMMA NeighbourAt ==
  ASSUME NEW i \in 1 .. Len(Start)
  PROVE  /\ After(Start[i]) = Start[IF i = Len(Start) THEN 1 ELSE i + 1]
         /\ Before(Start[i]) = Start[IF i = 1 THEN Len(Start) ELSE i - 1]
<1> DEFINE n == Start[i]
           K == Len(Start)
<1>1. K \in Nat /\ K > 1 /\ DOMAIN Start = 1 .. K /\ n \in ToSet(Start)
  BY StartFacts DEF Members
<1>2. R!RingOf(n) = Start
  BY <1>1, RingToSet DEF R!RingOf
<1>3. (CHOOSE k \in DOMAIN Start : Start[k] = n) = i
  BY <1>1, StartFacts
<1>4. /\ After(n) = Start[((i + 0) % K) + 1]
      /\ Before(n) = Start[((i + (K - 2)) % K) + 1]
  BY <1>2, <1>3 DEF After, Before, R!Neighbour
<1>5. i \in Nat /\ i >= 1 /\ i <= K
  BY <1>1
<1> HIDE DEF n, K
<1>6. ((i + 0) % K) + 1 = IF i = K THEN 1 ELSE i + 1
  BY <1>1, <1>5
<1>7. ((i + (K - 2)) % K) + 1 = IF i = 1 THEN K ELSE i - 1
  <2>1. CASE i = 1
    <3>1. (i + (K - 2)) % K = K - 1
      BY <1>1, <2>1
    <3> QED
      BY <1>1, <2>1, <3>1
  <2>2. CASE i # 1
    <3>1. (i + (K - 2)) % K = i - 2
      BY <1>1, <1>5, <2>2
    <3> QED
      BY <1>1, <1>5, <2>2, <3>1
  <2> QED
    BY <2>1, <2>2
<1> QED
  BY <1>4, <1>6, <1>7 DEF n, K

\* Going on and going back undo each other.
LEMMA AfterAndBefore ==
  ASSUME NEW n \in Members
  PROVE  /\ After(n) \in Members \ {n} /\ Before(n) \in Members
         /\ Before(After(n)) = n /\ After(Before(n)) = n
<1>1. PICK i \in 1 .. Len(Start) : Start[i] = n
  BY StartFacts
<1> DEFINE j == IF i = Len(Start) THEN 1 ELSE i + 1
           k == IF i = 1 THEN Len(Start) ELSE i - 1
<1>2. /\ Len(Start) \in Nat /\ Len(Start) > 1
      /\ \A a, b \in 1 .. Len(Start) : Start[a] = Start[b] => a = b
      /\ \A a \in 1 .. Len(Start) : Start[a] \in Members
  BY StartFacts
<1>3. /\ j \in 1 .. Len(Start) /\ k \in 1 .. Len(Start) /\ j # i
      /\ (IF j = 1 THEN Len(Start) ELSE j - 1) = i
      /\ (IF k = Len(Start) THEN 1 ELSE k + 1) = i
  BY <1>2
<1>4. After(n) = Start[j] /\ Before(n) = Start[k]
  BY <1>1, NeighbourAt
<1> HIDE DEF j, k
<1>5. Before(Start[j]) = n /\ After(Start[k]) = n
  BY <1>1, <1>3, NeighbourAt
<1> QED
  BY <1>1, <1>2, <1>3, <1>4, <1>5

\* Whoever follows the neighbours from one member meets them all.
LEMMA StartIsOneCycle ==
  ASSUME NEW T \in SUBSET Members, T # {}, \A n \in T : After(n) \in T
  PROVE  T = Members
<1> DEFINE K == Len(Start)
           I == {i \in 1 .. K : Start[i] \in T}
           Out == {i \in 1 .. K : Start[i] \notin T}
<1>1. K \in Nat /\ K > 1 /\ \A n \in Members : \E i \in 1 .. K : Start[i] = n
  BY StartFacts
<1>2. I \in SUBSET Nat /\ I # {} /\ IsFiniteSet(I) /\ Out \in SUBSET Nat
  <2>1. IsFiniteSet(1 .. K)
    BY <1>1, FS_Interval
  <2> QED
    BY <1>1, <2>1, FS_Subset
<1>3. \A i \in I : (IF i = K THEN 1 ELSE i + 1) \in I
  BY <1>1, NeighbourAt
<1>4. 1 \in I
  <2>1. Max(I) \in I /\ \A i \in I : i <= Max(I)
    <3> HIDE DEF I
    <3> QED
      BY <1>2, MaxIsMember
  <2>2. PICK i \in I : \A l \in I : l <= i
    BY <2>1
  <2>3. i = K
    <3>1. ~ (i + 1 <= i)
      BY <1>1
    <3> QED
      BY <1>3, <2>2, <3>1
  <2> QED
    BY <1>3, <2>3
<1>5. ASSUME Out # {} PROVE FALSE
  <2>1. Min(Out) \in Out /\ \A i \in Out : Min(Out) <= i
    <3> HIDE DEF Out
    <3> QED
      BY <1>2, <1>5, MinIsMember
  <2>2. PICK i \in Out : \A l \in Out : i <= l
    BY <2>1
  <2>3. i # 1 /\ i - 1 \in 1 .. K
    BY <1>1, <1>4
  <2>4. i - 1 \notin Out
    BY <2>2, <2>3
  <2>5. i - 1 \in I /\ i - 1 # K
    BY <1>1, <2>3, <2>4
  <2>6. (i - 1) + 1 \in I
    BY <1>3, <2>5
  <2> QED
    BY <1>1, <2>6
<1>6. Members \subseteq T
  BY <1>1, <1>5
<1> QED
  BY <1>6

-----------------------------------------------------------------------------
(***************************************************************************)
(* The start.                                                              *)
(***************************************************************************)
LEMMA InitJoinInv == Init => JoinInv
<1> SUFFICES ASSUME Init PROVE JoinInv
  OBVIOUS
<1>1. LeaderInv
  BY InitLeaderInv
<1>2. NoElection
  BY DEF Init, NoElection
<1>3. Views
  <2>1. alive = Node /\ losses = 0
    BY DEF Init, R!Init
  <2>2. ASSUME NEW n \in Members PROVE Members \ {n} \subseteq ToSet(peers[n])
    BY InitPeers, StartFacts
  <2> QED
    BY <2>1, <2>2 DEF Views
<1>4. R!Founders = Members
  BY FoundersOfRing
<1>5. ASSUME NEW n \in Members PROVE R!RingOf(n) = Start
  BY RingToSet DEF R!RingOf, Members
<1>6. /\ succ = [n \in Node |-> IF n \in Members THEN After(n) ELSE None]
      /\ \A n \in Node : pred[n] = IF n \in Members THEN Before(n) ELSE None
      /\ pred = [n \in Node |-> pred[n]]
      /\ established = [n \in Node |-> n \in Members]
      /\ joining = [n \in Node |-> FALSE] /\ net = {}
  BY <1>4, <1>5 DEF Init, R!Init, After, Before
<1>7. leaderId = [n \in Node |-> IF n \in Members THEN Leader ELSE None]
  BY DEF Init, Leader
<1>8. LeaderSteady
  <2>1. claims = {} /\ heard = [n \in Node |-> "never"]
    BY DEF Init
  <2>2. \A n \in Node : established[n] => n \in Members
    BY <1>6
  <2> QED
    BY <1>7, <2>1, <2>2, StartFacts DEF LeaderSteady
<1>9. LoopsSteady
  <2>1. loop = [n \in Node |-> IF n \in Members THEN "top" ELSE "setup"]
    BY DEF Init
  <2> QED
    BY <1>3, <1>7, <2>1, StartFacts DEF LoopsSteady, Views
<1>10. PointerTypes
  BY <1>6 DEF Init, PointerTypes
<1>11. RingShape
  <2>1. \A n \in Node : established[n] <=> n \in Members
    BY <1>6
  <2> QED
    BY <1>6, <2>1, StartFacts DEF RingShape, BeforeInsertion, Newcomers
<1> QED
  BY <1>1, <1>2, <1>3, <1>8, <1>9, <1>10, <1>11 DEF JoinInv

-----------------------------------------------------------------------------
(***************************************************************************)
(* What cannot happen.                                                     *)
(***************************************************************************)
LEMMA MessageFacts ==
  ASSUME NEW x, NEW p
  PROVE  /\ Request(x, p).type = "JOIN_REQUEST"
         /\ Request(x, p).from = x /\ Request(x, p).to = p
         /\ Response(x, p).type = "JOIN_RESPONSE"
         /\ Response(x, p).to = x /\ Response(x, p).succ = After(p)
         /\ Response(x, p).pred = p
         /\ Update(x, p).type = "UPDATE_PREDECESSOR"
         /\ Update(x, p).to = After(p) /\ Update(x, p).pred = x
         /\ Response(x, p) # Update(x, p)
BY DEF Request, Response, Update, R!Datagram

\* Whoever leads is the leader.
LEMMA OnlyTheLeaderLeads ==
  ASSUME JoinInv, NEW n \in Node, isLeader[n]
  PROVE  n = Leader
<1>1. leaderId[n] = n
  BY DEF JoinInv, LeaderInv, Leadership, LeaderKnowsItself
<1> QED
  BY <1>1, NoneIsNoNode DEF JoinInv, LeaderSteady

LEMMA LeaderLeads ==
  ASSUME JoinInv
  PROVE  Leader \in Node /\ Leader # None /\ leaderId[Leader] = Leader /\ isLeader[Leader]
<1>1. Leader \in Members /\ Leader \in Node
  BY LeaderIsMember, StartFacts
<1>2. leaderId[Leader] = Leader
  BY <1>1 DEF JoinInv, LeaderSteady
<1> QED
  BY <1>1, <1>2, NoneIsNoNode DEF JoinInv, LeaderInv, Leadership, LeaderKnowsItself

\* No task is pending, nobody is missed, and no election is there to be run.
LEMMA NothingFails ==
  ASSUME JoinInv, OneJoins, NEW n \in Node
  PROVE  /\ ~Tasks(n) /\ ~LoopResumes(n) /\ ~HeartbeatTimesOut(n) /\ ~Validate(n)
         /\ ~PauseEnds(n) /\ ~AutoStart(n) /\ ~HeartbeatsStop(n) /\ ~Elect(n)
         /\ \A p \in Node : ~Lost(n, p)
<1>1. ~Tasks(n)
  <2>1. ~scheduled[n] /\ ~created[n] /\ waiting[n] = 0
    BY DEF JoinInv, NoElection
  <2>2. ~ (waiting[n] > 0)
    BY <2>1
  <2> QED
    BY <2>1, <2>2 DEF Tasks, RunScheduled, FailureStarts, FailureResumes
<1>2. ~LoopResumes(n) /\ ~PauseEnds(n) /\ ~AutoStart(n) /\ ~Elect(n)
  BY DEF OneJoins, JoinInv, LoopsSteady, LoopResumes, PauseEnds, AutoStart, Elect
<1>3. ~HeartbeatTimesOut(n)
  BY DEF JoinInv, LeaderSteady, HeartbeatTimesOut
<1>4. ~Validate(n)
  BY LeaderLeads DEF JoinInv, LoopsSteady, Validate, NeedsLeader
<1>5. ~HeartbeatsStop(n)
  <2>1. heard[n] = "recent" => HeartbeatDue(n)
    BY LeaderLeads DEF JoinInv, Views, LeaderSteady, HeartbeatDue
  <2> QED
    BY <2>1 DEF OneJoins, HeartbeatsStop
<1>6. \A p \in Node : ~Lost(n, p)
  BY DEF OneJoins, JoinInv, Views, Lost
<1> QED
  BY <1>1, <1>2, <1>3, <1>4, <1>5, <1>6

\* Without crashes there are none in the middle of a join either.
LEMMA NobodyCrashes ==
  ASSUME JoinInv, MaxCrashes = 0
  PROVE  \A n \in Node : ~Crash(n)
<1>1. Node \ alive = {}
  BY DEF JoinInv, Views
<1>2. R!Cardinality(Node \ alive) = Cardinality(Node \ alive)
  BY Zenon DEF R!Cardinality, Cardinality
<1>3. R!Cardinality(Node \ alive) = 0
  BY <1>1, <1>2, FS_EmptySet
<1> QED
  BY <1>3 DEF Crash, R!Crash

\* The successor of a node whose loops run is one of its peers.
LEMMA SuccessorIsPeer ==
  ASSUME JoinInv, OneJoins, NEW n \in Node, loop[n] # "setup", succ[n] # None
  PROVE  succ[n] \in ToSet(peers[n])
<1>1. Members \ {n} \subseteq ToSet(peers[n])
  BY DEF JoinInv, LoopsSteady
<1>2. CASE BeforeInsertion
  <2>1. n \in Members
    BY <1>2 DEF BeforeInsertion, Newcomers
  <2> QED
    BY <1>1, <1>2, <2>1, AfterAndBefore DEF BeforeInsertion
<1>3. ASSUME NEW x \in Newcomers, NEW p \in Members, AfterInsertion(x, p)
      PROVE  succ[n] \in ToSet(peers[n])
  <2>1. CASE n \in Members
    BY <1>1, <1>3, <2>1, AfterAndBefore DEF AfterInsertion
  <2>2. CASE n \notin Members
    <3>1. n = x
      BY <2>2 DEF OneJoins, Newcomers
    <3>2. succ[x] = After(p)
      BY <1>3, <3>1 DEF AfterInsertion
    <3>3. After(p) \in Members \ {n}
      BY <2>2, AfterAndBefore
    <3> QED
      BY <1>1, <3>1, <3>2, <3>3
  <2> QED
    BY <2>1, <2>2
<1> QED
  BY <1>2, <1>3 DEF JoinInv, RingShape

-----------------------------------------------------------------------------
(***************************************************************************)
(* What can.                                                               *)
(***************************************************************************)
ringState == <<succ, pred, established, joining, net, told>>
quietState == <<inProgress, scheduled, created, waiting, round, probes, replies>>

LEMMA UnchangedKeepsJoin ==
  ASSUME JoinInv
  PROVE  /\ UNCHANGED quietState => NoElection'
         /\ UNCHANGED <<alive, losses, peers>> => Views'
         /\ UNCHANGED <<leaderId, claims, heard, peers, established>> => LeaderSteady'
         /\ UNCHANGED <<loop, leaderId, peers>> => LoopsSteady'
         /\ UNCHANGED ringState => PointerTypes'
         /\ UNCHANGED <<ringState, peers>> => RingShape'
<1>1. UNCHANGED quietState => NoElection'
  BY DEF quietState, JoinInv, NoElection
<1>2. UNCHANGED <<alive, losses, peers>> => Views'
  BY DEF JoinInv, Views
<1>3. UNCHANGED <<leaderId, claims, heard, peers, established>> => LeaderSteady'
  BY DEF JoinInv, LeaderSteady
<1>4. UNCHANGED <<loop, leaderId, peers>> => LoopsSteady'
  BY DEF JoinInv, LoopsSteady
<1>5. UNCHANGED ringState => PointerTypes'
  BY DEF ringState, JoinInv, PointerTypes
<1>6. UNCHANGED <<ringState, peers>> => RingShape'
  BY DEF ringState, JoinInv, RingShape, BeforeInsertion, AfterInsertion
<1> QED
  BY <1>1, <1>2, <1>3, <1>4, <1>5, <1>6

LEMMA LoopKeepsJoin ==
  ASSUME JoinInv, OneJoins, LeaderInv', NEW n \in Node,
         Settle(n) \/ Loop(n) \/ CheckSuccessor(n)
  PROVE  JoinInv'
<1>1. CASE Settle(n)
  <2>1. UNCHANGED <<quietState, alive, losses, peers, leaderId, claims, heard, loop, ringState>>
    BY <1>1 DEF Settle, quietState, ringState, topology, leadership, election, state, handlers
  <2> QED
    BY <2>1, UnchangedKeepsJoin DEF JoinInv, ringState
<1>2. CASE LoopBegins(n)
  <2>1. /\ UNCHANGED <<quietState, alive, losses, peers, leaderId, claims, heard, ringState>>
        /\ loop' = [loop EXCEPT ![n] = "top"]
    BY <1>2 DEF LoopBegins, quietState, ringState, topology, leadership, election, state
  <2>2. established[n] /\ Node \ {n} \subseteq ToSet(peers[n])
    BY <1>2 DEF LoopBegins, OneJoins, JoinInv, Views
  <2>3. leaderId[n] = Leader /\ Members \ {n} \subseteq ToSet(peers[n])
    BY <2>2, StartFacts DEF JoinInv, LeaderSteady
  <2>4. LoopsSteady'
    BY <2>1, <2>3 DEF JoinInv, LoopsSteady
  <2> QED
    BY <2>1, <2>4, UnchangedKeepsJoin DEF JoinInv, ringState
<1>3. CASE SendHeartbeat(n)
  <2>1. UNCHANGED <<quietState, alive, losses, peers, leaderId, heard, loop, ringState>>
    BY <1>3 DEF SendHeartbeat, quietState, ringState, topology, leadership, election, state,
                handlers
  <2>2. n = Leader
    BY <1>3, OnlyTheLeaderLeads DEF SendHeartbeat
  <2>3. \A m \in claims' : m \in claims \/ m \in HS!Claims(n, "LEADER_HEARTBEAT")
    BY <1>3 DEF SendHeartbeat
  <2>4. \A m \in claims' : /\ m.type = "LEADER_HEARTBEAT" /\ m.leader = Leader
                           /\ m.to \in ToSet(peers[Leader])
    BY <2>2, <2>3 DEF HS!Claims, JoinInv, LeaderSteady
  <2>5. LeaderSteady'
    BY <2>1, <2>4 DEF ringState, JoinInv, LeaderSteady
  <2> QED
    BY <2>1, <2>5, UnchangedKeepsJoin DEF JoinInv, ringState
<1>4. CASE CheckSuccessor(n)
  <2>1. succ[n] \in R!Known(n)
    BY <1>4, SuccessorIsPeer, RingToSet DEF CheckSuccessor, R!CheckSuccessor, R!Known
  <2>2. UNCHANGED <<quietState, alive, losses, peers, leaderId, claims, heard, loop, ringState>>
    BY <1>4, <2>1 DEF CheckSuccessor, R!CheckSuccessor, R!pointers, quietState, ringState,
                      leadership, election, state, handlers
  <2> QED
    BY <2>2, UnchangedKeepsJoin DEF JoinInv, ringState
<1> QED
  BY <1>1, <1>2, <1>3, <1>4, NothingFails DEF Loop

LEMMA HeartbeatKeepsJoin ==
  ASSUME JoinInv, LeaderInv', NEW m \in claims, HandleClaim(m)
  PROVE  JoinInv'
<1>1. /\ m.type = "LEADER_HEARTBEAT" /\ m.leader = Leader /\ m.to \in ToSet(peers[Leader])
      /\ m.to \in Node
  BY DEF JoinInv, LeaderSteady, Views, HandleClaim, HandleAnnouncement, HandleHeartbeat,
     ReceiveClaim
<1>2. HandleHeartbeat(m)
  BY <1>1 DEF HandleClaim, HandleAnnouncement, ReceiveClaim
<1>3. UNCHANGED <<quietState, alive, losses, peers, loop, ringState>>
  BY <1>2 DEF HandleHeartbeat, quietState, ringState, topology, election, state, handlers
<1>4. /\ claims' \subseteq claims
      /\ heard' = [heard EXCEPT ![m.to] = "recent"]
      /\ leaderId' = leaderId \/ leaderId' = [leaderId EXCEPT ![m.to] = Leader]
  BY <1>1, <1>2 DEF HandleHeartbeat, ReceiveClaim, HS!Follow, leadership
<1>5. \A n \in Node : leaderId'[n] = leaderId[n] \/ leaderId'[n] = Leader
  BY <1>1, <1>4 DEF JoinInv, LeaderInv, Leadership
<1>6. LeaderSteady'
  <2>1. heard' \in [Node -> {"never", "recent"}]
    BY <1>4 DEF JoinInv, LeaderSteady
  <2>2. \A n \in Node : heard'[n] = "recent" => n \in ToSet(peers[Leader])
    BY <1>1, <1>4 DEF JoinInv, LeaderSteady
  <2>3. \A n \in Node : leaderId'[n] \in {None, Leader}
    BY <1>5 DEF JoinInv, LeaderSteady
  <2>4. \A n \in Node : n \in Members \/ established[n] => leaderId'[n] = Leader
    BY <1>5 DEF JoinInv, LeaderSteady
  <2>5. \A c \in claims' : /\ c.type = "LEADER_HEARTBEAT" /\ c.leader = Leader
                           /\ c.to \in ToSet(peers[Leader])
    BY <1>4 DEF JoinInv, LeaderSteady
  <2> QED
    BY <1>3, <2>1, <2>2, <2>3, <2>4, <2>5 DEF ringState, LeaderSteady
<1>7. LoopsSteady'
  BY <1>3, <1>5 DEF JoinInv, LoopsSteady
<1> QED
  BY <1>3, <1>6, <1>7, UnchangedKeepsJoin DEF JoinInv, ringState

\* A HELLO adds a peer, and makes a newcomer that has not asked ask to join.
LEMMA HelloKeepsJoin ==
  ASSUME JoinInv, OneJoins, LeaderInv', NEW n \in Node, NEW p \in Node, Discovered(n, p)
  PROVE  JoinInv'
<1> DEFINE join == ~established[n] /\ ~joining[n]
<1>1. /\ UNCHANGED <<quietState, alive, losses, leaderId, claims, heard, loop, succ, pred,
                     established, told>>
      /\ peers' = [peers EXCEPT ![n] = Append(@, p)] /\ p # n
      /\ joining' = [joining EXCEPT ![n] = @ \/ join]
      /\ net' = net \cup R!OnWire(R!Known(n) \cup {p},
                   IF join THEN {Request(n, p)} ELSE {})
  BY DEF Discovered, R!PeerDiscovered, R!FirstHello, R!pointers, Request, quietState,
     leadership, election, state, handlers
<1>2. \A x \in Node : ToSet(peers[x]) \subseteq ToSet(peers'[x])
  <2>1. peers \in [Node -> Seq(Node)]
    BY DEF JoinInv, LeaderInv, PeersAreOthers
  <2>2. \A x \in Node : x # n => peers'[x] = peers[x]
    BY <1>1, <2>1
  <2>3. peers'[n] = Append(peers[n], p) /\ peers[n] \in Seq(Node)
    BY <1>1, <2>1
  <2>4. ToSet(peers[n]) \subseteq ToSet(Append(peers[n], p))
    BY <2>3 DEF ToSet
  <2> QED
    BY <2>2, <2>3, <2>4
<1>3. Leader \in Node /\ Members \subseteq Node
  BY LeaderIsMember, StartFacts
<1>4. Views' /\ LoopsSteady'
  BY <1>1, <1>2, <1>3 DEF JoinInv, Views, LoopsSteady
<1>5. LeaderSteady'
  BY <1>1, <1>2, <1>3 DEF JoinInv, LeaderSteady
<1>6. PointerTypes'
  BY <1>1 DEF JoinInv, PointerTypes
<1>7. RingShape'
  <2>1. CASE ~join
    <3>1. R!OnWire(R!Known(n) \cup {p}, {}) = {}
      BY DEF R!OnWire
    <3>2. net' = net /\ joining' = joining
      BY <1>1, <2>1, <3>1 DEF JoinInv, PointerTypes
    <3>3. BeforeInsertion => BeforeInsertion'
      BY <1>1, <3>2 DEF BeforeInsertion
    <3>4. \A x \in Newcomers, q \in Members : AfterInsertion(x, q) => AfterInsertion(x, q)'
      BY <1>1, <1>2, <1>3, <3>2 DEF AfterInsertion
    <3> QED
      BY <1>1, <3>3, <3>4 DEF JoinInv, RingShape
  <2>2. CASE join
    <3>1. n \in Newcomers /\ p \in Members
      BY <1>1, <2>2 DEF JoinInv, RingShape, Newcomers, OneJoins
    <3>2. \A x \in Newcomers : x = n
      BY <3>1 DEF OneJoins
    <3>3. BeforeInsertion /\ net = {}
      BY <2>2, <3>2 DEF JoinInv, RingShape, BeforeInsertion, AfterInsertion
    <3>4. Request(n, p).to = p /\ p \in alive
      BY MessageFacts DEF JoinInv, Views
    <3>5. net' = {Request(n, p)}
      BY <1>1, <2>2, <3>3, <3>4 DEF R!OnWire
    <3>6. joining'[n]
      BY <1>1, <2>2 DEF JoinInv, PointerTypes
    <3> QED
      BY <1>1, <3>1, <3>3, <3>5, <3>6 DEF JoinInv, RingShape, BeforeInsertion
  <2> QED
    BY <2>1, <2>2
<1> QED
  BY <1>1, <1>4, <1>5, <1>6, <1>7, UnchangedKeepsJoin DEF JoinInv

\* The request, the only datagram before the insertion, is granted.
LEMMA RequestKeepsJoin ==
  ASSUME JoinInv, OneJoins, LeaderInv', NEW x \in Newcomers, NEW p \in Members,
         BeforeInsertion, net = {Request(x, p)}, joining[x], HandleRing(Request(x, p))
  PROVE  JoinInv'
<1> DEFINE m == Request(x, p)
<1>1. /\ m.type = "JOIN_REQUEST" /\ m.from = x /\ m.to = p
      /\ x \in Node /\ p \in Node /\ x \notin Members /\ x # p
      /\ succ[p] = After(p) /\ pred[p] = Before(p)
      /\ After(p) \in Members \ {p} /\ Before(p) \in Members /\ succ[p] # None
  BY MessageFacts, StartFacts, AfterAndBefore, NoneIsNoNode DEF Newcomers, BeforeInsertion
<1> HIDE DEF m
<1>2. ~R!JoinTimesOut(m) /\ ~R!JoinIgnored(m) /\ ~R!JoinMakesRing(m)
  <2>1. ~R!JoinTimesOut(m)
    BY <1>1 DEF R!JoinTimesOut, JoinInv, Views, OneJoins
  <2> QED
    BY <1>1, <2>1 DEF R!JoinIgnored, R!JoinMakesRing
<1>3. ~HandleJoinResponse(m) /\ ~HandlePointer(m)
  BY <1>1 DEF HandleJoinResponse, HandlePointer, R!JoinResponse, R!UpdatePredecessor,
     R!Notify, R!Receive
<1>4. /\ R!JoinInserts(m) /\ told' = [told EXCEPT ![x] = leaderId[p]]
      /\ UNCHANGED <<leadership, election, claims, settled, heard, handlers>>
  BY <1>1, <1>2, <1>3 DEF HandleRing, HandleJoin, m
<1>5. /\ UNCHANGED <<quietState, alive, losses, peers, leaderId, claims, heard, loop, pred,
                     established, joining>>
      /\ succ' = [succ EXCEPT ![p] = x]
  BY <1>1, <1>4 DEF R!JoinInserts, quietState, leadership, election, state, handlers
<1>6. x \in ToSet(peers[p]) /\ After(p) \in ToSet(peers[p])
  BY <1>1, <1>4, RingToSet DEF R!JoinInserts, R!MayJoin, R!Known, JoinInv, Views
<1>7. net' = {Response(x, p), Update(x, p)}
  <2>1. net' = R!OnWire(R!Known(p), R!Insertion(m))
    BY <1>1, <1>4 DEF R!JoinInserts, R!Answer, m
  <2>2. R!Insertion(m) = {Response(x, p), Update(x, p)}
    BY <1>1 DEF R!Insertion, Response, Update
  <2>3. R!Known(p) = ToSet(peers[p]) /\ x \in alive /\ After(p) \in alive
    BY <1>1, RingToSet, StartFacts DEF R!Known, JoinInv, Views
  <2>4. Response(x, p).to = x /\ Update(x, p).to = After(p)
    BY MessageFacts
  <2> QED
    BY <1>6, <2>1, <2>2, <2>3, <2>4 DEF R!OnWire
<1>8. told'[x] = Leader
  BY <1>1, <1>4 DEF JoinInv, PointerTypes, LeaderSteady
<1>9. PointerTypes'
  BY <1>4, <1>5 DEF JoinInv, PointerTypes
<1>10. \A n \in Node : succ'[n] = IF n = p THEN x ELSE succ[n]
  BY <1>5 DEF JoinInv, PointerTypes
<1>11. AfterInsertion(x, p)'
  <2>1. succ'[x] = None /\ ~established'[x] /\ joining'[x]
    BY <1>1, <1>5, <1>10 DEF BeforeInsertion
  <2>2. \A n \in Members : /\ succ'[n] = IF n = p THEN x ELSE After(n)
                           /\ pred'[n] = Before(n)
    BY <1>5, <1>10, StartFacts DEF BeforeInsertion
  <2> QED
    BY <1>5, <1>6, <1>7, <1>8, <2>1, <2>2 DEF AfterInsertion
<1>12. RingShape'
  BY <1>5, <1>11 DEF JoinInv, RingShape
<1> QED
  BY <1>5, <1>9, <1>12, UnchangedKeepsJoin DEF JoinInv

\* The new node takes its place, and the leader it is told.
LEMMA ResponseKeepsJoin ==
  ASSUME JoinInv, OneJoins, LeaderInv', NEW x \in Newcomers, NEW p \in Members,
         AfterInsertion(x, p), Response(x, p) \in net, HandleRing(Response(x, p))
  PROVE  JoinInv'
<1> DEFINE m == Response(x, p)
<1>1. /\ m.type = "JOIN_RESPONSE" /\ m.to = x /\ m.succ = After(p) /\ m.pred = p
      /\ x \in Node /\ x \notin Members /\ m \in net
      /\ m # Update(x, p)
  BY MessageFacts DEF Newcomers
<1>2. told[x] = Leader /\ succ[x] = None /\ ~established[x] /\ joining[x]
  BY DEF AfterInsertion
<1>3. HandleRing(m)
  OBVIOUS
<1> HIDE DEF m
<1>4. HandleJoinResponse(m)
  BY <1>1, <1>3 DEF HandleRing, HandleJoin, HandlePointer, R!JoinTimesOut, R!JoinIgnored,
     R!JoinMakesRing, R!JoinInserts, R!MayJoin, R!UpdatePredecessor, R!Notify, R!Receive
<1>5. AdoptLeader(x, Leader)
  BY <1>1, <1>2, <1>4, LeaderLeads DEF HandleJoinResponse
<1>6. /\ UNCHANGED <<scheduled, created, waiting, round, probes, replies, alive, losses,
                     peers, claims, heard, loop>>
      /\ inProgress' = [inProgress EXCEPT ![x] = FALSE]
      /\ leaderId' = [leaderId EXCEPT ![x] = Leader]
      /\ succ' = [succ EXCEPT ![x] = After(p)] /\ pred' = [pred EXCEPT ![x] = p]
      /\ established' = [established EXCEPT ![x] = TRUE]
      /\ joining' = [joining EXCEPT ![x] = FALSE]
      /\ told' = [told EXCEPT ![x] = None] /\ net' = net \ {m}
  BY <1>1, <1>4, <1>5 DEF HandleJoinResponse, R!JoinResponse, R!Become, AdoptLeader,
     HS!Retire, handlers
<1>7. NoElection'
  BY <1>6 DEF JoinInv, NoElection
<1>8. \A n \in Node : /\ leaderId'[n] = IF n = x THEN Leader ELSE leaderId[n]
                      /\ succ'[n] = IF n = x THEN After(p) ELSE succ[n]
                      /\ pred'[n] = IF n = x THEN p ELSE pred[n]
                      /\ established'[n] = IF n = x THEN TRUE ELSE established[n]
  BY <1>6 DEF JoinInv, LeaderInv, Leadership, PointerTypes
<1>9. LeaderSteady'
  <2>1. \A n \in Node : leaderId'[n] \in {None, Leader}
    BY <1>8 DEF JoinInv, LeaderSteady
  <2>2. \A n \in Node : n \in Members \/ established'[n] => leaderId'[n] = Leader
    BY <1>8 DEF JoinInv, LeaderSteady
  <2> QED
    BY <1>6, <2>1, <2>2 DEF JoinInv, LeaderSteady
<1>10. LoopsSteady'
  BY <1>6, <1>8 DEF JoinInv, LoopsSteady
<1>11. PointerTypes'
  BY <1>6 DEF JoinInv, PointerTypes
<1>12. AfterInsertion(x, p)'
  <2>1. \A n \in Members : succ'[n] = succ[n] /\ pred'[n] = pred[n]
    BY <1>1, <1>8, StartFacts
  <2>2. /\ Update(x, p) \in net' <=> Update(x, p) \in net
        /\ m \notin net' /\ net' \subseteq net
    BY <1>1, <1>6
  <2>3. succ'[x] = After(p) /\ pred'[x] = p /\ established'[x]
    BY <1>1, <1>8
  <2> QED
    BY <1>6, <2>1, <2>2, <2>3 DEF AfterInsertion, m
<1>13. RingShape'
  BY <1>8, <1>12, StartFacts DEF JoinInv, RingShape
<1> QED
  BY <1>6, <1>7, <1>9, <1>10, <1>11, <1>13, UnchangedKeepsJoin DEF JoinInv

\* The old successor points back at the new node.
LEMMA UpdateKeepsJoin ==
  ASSUME JoinInv, OneJoins, LeaderInv', NEW x \in Newcomers, NEW p \in Members,
         AfterInsertion(x, p), Update(x, p) \in net, HandleRing(Update(x, p))
  PROVE  JoinInv'
<1> DEFINE m == Update(x, p)
<1>1. /\ m.type = "UPDATE_PREDECESSOR" /\ m.to = After(p) /\ m.pred = x
      /\ x \in Node /\ x \notin Members /\ After(p) \in Members /\ m # Response(x, p)
  BY MessageFacts, AfterAndBefore DEF Newcomers
<1>2. HandleRing(m)
  OBVIOUS
<1> HIDE DEF m
<1>3. HandlePointer(m) /\ R!UpdatePredecessor(m)
  BY <1>1, <1>2 DEF HandleRing, HandleJoin, HandleJoinResponse, HandlePointer,
     R!JoinTimesOut, R!JoinIgnored, R!JoinMakesRing, R!JoinInserts, R!MayJoin,
     R!JoinResponse, R!Notify, R!Receive
<1>4. /\ UNCHANGED <<quietState, alive, losses, peers, leaderId, claims, heard, loop, succ,
                     established, joining, told>>
      /\ pred' = [pred EXCEPT ![After(p)] = x] /\ net' = net \ {m}
  BY <1>1, <1>3 DEF HandlePointer, R!UpdatePredecessor, quietState, leadership, election,
     state, handlers
<1>5. PointerTypes'
  BY <1>4 DEF JoinInv, PointerTypes
<1>6. \A n \in Node : pred'[n] = IF n = After(p) THEN x ELSE pred[n]
  BY <1>4 DEF JoinInv, PointerTypes
<1>7. AfterInsertion(x, p)'
  <2>1. \A n \in Members : pred'[n] = IF n = After(p) THEN x ELSE Before(n)
    BY <1>6, StartFacts DEF AfterInsertion
  <2>2. pred'[x] = pred[x] /\ succ' = succ /\ established' = established
        /\ joining' = joining /\ told' = told /\ peers' = peers
    BY <1>1, <1>4, <1>6
  <2>3. /\ Response(x, p) \in net' <=> Response(x, p) \in net
        /\ m \notin net' /\ net' \subseteq net
    BY <1>1, <1>4
  <2> QED
    BY <2>1, <2>2, <2>3 DEF AfterInsertion, m
<1>8. RingShape'
  BY <1>4, <1>7 DEF JoinInv, RingShape
<1> QED
  BY <1>4, <1>5, <1>8, UnchangedKeepsJoin DEF JoinInv

LEMMA StepKeepsJoin ==
  ASSUME OneJoins, JoinInv, [Next]_vars, \A n \in Node : ~Crash(n)
  PROVE  JoinInv'
<1>1. LeaderInv'
  BY StepKeepsLeaderInv DEF JoinInv
<1>2. ASSUME NEW n \in Node,
             \/ Settle(n) \/ Tasks(n) \/ Loop(n) \/ HeartbeatsStop(n) \/ CheckSuccessor(n)
             \/ Elect(n) \/ Crash(n)
             \/ \E p \in Node : Discovered(n, p) \/ Lost(n, p)
      PROVE  JoinInv'
  BY <1>1, <1>2, NothingFails, LoopKeepsJoin, HelloKeepsJoin
<1>3. probes \cup replies = {}
  BY DEF JoinInv, NoElection
<1>4. ASSUME NEW m \in claims, HandleClaim(m) PROVE JoinInv'
  BY <1>1, <1>4, HeartbeatKeepsJoin
<1>5. ASSUME NEW m \in net, HandleRing(m) PROVE JoinInv'
  <2>1. CASE BeforeInsertion
    <3>1. PICK x \in Newcomers, p \in Members : net = {Request(x, p)} /\ joining[x]
      BY <2>1 DEF BeforeInsertion
    <3> QED
      BY <1>1, <1>5, <2>1, <3>1, RequestKeepsJoin
  <2>2. ASSUME NEW x \in Newcomers, NEW p \in Members, AfterInsertion(x, p) PROVE JoinInv'
    <3>1. m = Response(x, p) \/ m = Update(x, p)
      BY <2>2 DEF AfterInsertion
    <3> QED
      BY <1>1, <1>5, <2>2, <3>1, ResponseKeepsJoin, UpdateKeepsJoin
  <2> QED
    BY <2>1, <2>2 DEF JoinInv, RingShape
<1>6. CASE UNCHANGED vars
  <2>1. UNCHANGED <<quietState, ringState, alive, losses, peers, leaderId, claims, heard, loop>>
    BY <1>6 DEF vars, quietState, ringState, topology, leadership, election, state, handlers
  <2> QED
    BY <1>1, <2>1, UnchangedKeepsJoin DEF ringState, JoinInv
<1> QED
  BY <1>2, <1>3, <1>4, <1>5, <1>6 DEF Next

-----------------------------------------------------------------------------
(***************************************************************************)
(* What the shape of the ring means.                                       *)
(***************************************************************************)
\* Where the successor pointers are heading: a newcomer's to the node it was put
\* before, whether the answer has arrived or not.
LEMMA HeadingOf ==
  ASSUME JoinInv, OneJoins
  PROVE  /\ R!Heading = [n \in Node |-> R!Heading[n]]
         /\ BeforeInsertion => \A n \in Node : R!Heading[n] = succ[n]
         /\ \A x \in Newcomers, p \in Members : AfterInsertion(x, p) =>
              \A n \in Node : R!Heading[n] = IF n = x THEN After(p) ELSE succ[n]
<1> DEFINE responses(n) == {m \in net : m.to = n /\ m.type = "JOIN_RESPONSE"}
<1>1. \A n \in Node : R!Heading[n] = IF responses(n) = {} THEN succ[n]
                                     ELSE (CHOOSE m \in responses(n) : TRUE).succ
  BY DEF R!Heading
<1>2. R!Heading = [n \in Node |-> R!Heading[n]]
  BY DEF R!Heading
<1> HIDE DEF responses
<1>3. ASSUME BeforeInsertion, NEW n \in Node PROVE R!Heading[n] = succ[n]
  <2>1. \A m \in net : m.type # "JOIN_RESPONSE"
    BY <1>3, MessageFacts DEF BeforeInsertion
  <2>2. responses(n) = {}
    BY <2>1 DEF responses
  <2> QED
    BY <1>1, <2>2
<1>4. ASSUME NEW x \in Newcomers, NEW p \in Members, AfterInsertion(x, p), NEW n \in Node
      PROVE  R!Heading[n] = IF n = x THEN After(p) ELSE succ[n]
  <2>1. \A m : m \in responses(n) <=> n = x /\ m = Response(x, p) /\ m \in net
    BY <1>4, MessageFacts DEF responses, AfterInsertion
  <2>2. CASE n = x /\ Response(x, p) \in net
    <3>1. responses(n) = {Response(x, p)}
      BY <2>1, <2>2
    <3>2. (CHOOSE m \in responses(n) : TRUE) = Response(x, p)
      BY <3>1
    <3> QED
      BY <1>1, <2>2, <3>1, <3>2, MessageFacts
  <2>3. CASE ~ (n = x /\ Response(x, p) \in net)
    <3>1. responses(n) = {}
      BY <2>1, <2>3
    <3>2. n = x => succ[x] = After(p)
      BY <1>4, <2>3 DEF AfterInsertion
    <3> QED
      BY <1>1, <3>1, <3>2
  <2> QED
    BY <2>2, <2>3
<1> QED
  BY <1>2, <1>3, <1>4

\* Before the insertion the heading is that of the ring to start from, ...
LEMMA StartKeepsRing ==
  ASSUME JoinInv, OneJoins, BeforeInsertion
  PROVE  JoinKeepsRing
<1> DEFINE S == {n \in Node : R!Heading[n] # None}
<1>1. \A n \in Node : R!Heading[n] = succ[n]
  BY HeadingOf
<1>2. \A n \in Members : n \in Node /\ R!Heading[n] = After(n) /\ After(n) \in Members
  BY <1>1, StartFacts, AfterAndBefore DEF BeforeInsertion
<1>3. S = Members
  <2>1. \A n \in Members : R!Heading[n] # None
    BY <1>2, StartFacts, NoneIsNoNode
  <2>2. \A n \in Node : n \notin Members => R!Heading[n] = None
    BY <1>1 DEF BeforeInsertion, Newcomers
  <2> QED
    BY <1>2, <2>1, <2>2
<1>4. ASSUME NEW T \in SUBSET Members, T # {}, \A n \in T : R!Heading[n] \in T
      PROVE  T = Members
  <2>1. \A n \in T : After(n) \in T
    BY <1>2, <1>4
  <2> QED
    BY <1>4, <2>1, StartIsOneCycle
<1>5. R!OneCycle(R!Heading, Members)
  BY <1>2, <1>4 DEF R!OneCycle
<1> QED
  BY <1>3, <1>5 DEF JoinKeepsRing, R!JoinKeepsRing

\* ... and after it the new node is on the way from one member to the next.
LEMMA InsertionKeepsRing ==
  ASSUME JoinInv, OneJoins, NEW x \in Newcomers, NEW p \in Members, AfterInsertion(x, p)
  PROVE  JoinKeepsRing
<1> DEFINE next == R!Heading
           S == {n \in Node : next[n] # None}
<1>1. \A n \in Node : next[n] = IF n = x THEN After(p) ELSE succ[n]
  BY HeadingOf
<1>2. /\ Node = Members \cup {x} /\ x \notin Members
  BY StartFacts DEF Newcomers, OneJoins
<1>3. /\ next[x] = After(p)
      /\ \A n \in Members : /\ next[n] = IF n = p THEN x ELSE After(n)
                            /\ After(n) \in Members
  BY <1>1, <1>2, AfterAndBefore DEF AfterInsertion
<1> HIDE DEF next
<1>4. \A n \in Node : next[n] \in Node
  BY <1>2, <1>3
<1>5. S = Node
  BY <1>4, NoneIsNoNode
<1>6. ASSUME NEW T \in SUBSET Node, T # {}, \A n \in T : next[n] \in T
      PROVE  T = Node
  <2>1. ASSUME NEW n \in T \ {x} PROVE After(n) \in T \ {x}
    <3>1. n \in Members /\ After(n) # x
      BY <1>2, <1>3, <2>1
    <3>2. CASE n = p
      <4>1. x \in T
        BY <1>3, <1>6, <3>1, <3>2
      <4> QED
        BY <1>3, <1>6, <3>1, <3>2, <4>1
    <3>3. CASE n # p
      BY <1>3, <1>6, <3>1, <3>3
    <3> QED
      BY <3>2, <3>3
  <2>2. T \ {x} # {}
    <3>1. x \in T => After(p) \in T \ {x}
      BY <1>2, <1>3, <1>6
    <3> QED
      BY <1>6, <3>1
  <2>3. T \ {x} = Members
    <3>1. T \ {x} \in SUBSET Members
      BY <1>2
    <3> QED
      BY <2>1, <2>2, <3>1, StartIsOneCycle
  <2>4. x \in T
    BY <1>3, <1>6, <2>3
  <2> QED
    BY <1>2, <2>3, <2>4
<1>7. R!OneCycle(next, Node)
  BY <1>4, <1>6 DEF R!OneCycle
<1> QED
  BY <1>5, <1>7 DEF JoinKeepsRing, R!JoinKeepsRing, next

\* With nothing on its way each successor points back.
LEMMA QuietLinksAgree ==
  ASSUME JoinInv, OneJoins
  PROVE  LinksAgree
<1> SUFFICES ASSUME net = {}, NEW n \in Node, succ[n] # None
             PROVE  pred[succ[n]] = n
  BY DEF LinksAgree, R!LinksAgree
<1>1. CASE BeforeInsertion
  <2>1. n \in Members
    BY <1>1 DEF BeforeInsertion, Newcomers
  <2> QED
    BY <1>1, <2>1, AfterAndBefore DEF BeforeInsertion
<1>2. ASSUME NEW x \in Newcomers, NEW p \in Members, AfterInsertion(x, p)
      PROVE  pred[succ[n]] = n
  <2>1. n = x \/ n \in Members
    BY DEF OneJoins, Newcomers
  <2>2. /\ succ[x] = After(p) /\ pred[x] = p /\ After(p) \in Members
        /\ pred[After(p)] = x
    BY <1>2, AfterAndBefore DEF AfterInsertion
  <2>3. CASE n = x \/ n = p
    BY <1>2, <2>2, <2>3, StartFacts DEF AfterInsertion, Newcomers
  <2>4. CASE n \in Members /\ n # p
    <3>1. succ[n] = After(n) /\ After(n) \in Members /\ Before(After(n)) = n
      BY <1>2, <2>4, AfterAndBefore DEF AfterInsertion
    <3>2. After(n) # After(p)
      BY <2>4, <3>1, AfterAndBefore
    <3> QED
      BY <1>2, <3>1, <3>2 DEF AfterInsertion
  <2> QED
    BY <2>1, <2>3, <2>4
<1> QED
  BY <1>1, <1>2 DEF JoinInv, RingShape

-----------------------------------------------------------------------------
(***************************************************************************)
(* After the join.                                                         *)
(***************************************************************************)
\* The join, until somebody crashes; from then on nobody joins any more.
JoinThenPeace == asked = {} /\ (JoinInv \/ (alive # Node /\ PeaceInv))

\* When everybody is in the ring and knows everybody, the newcomer is one of them.
LEMMA RecoveredIsPeace ==
  ASSUME JoinInv, Recovered
  PROVE  Peace
<1>1. alive = Node /\ net = {}
  BY DEF JoinInv, Views, Recovered
<1>2. leaderId = [n \in Node |-> Leader]
  <2>1. \A n \in Node : leaderId[n] = Leader
    BY <1>1, NoneIsNoNode DEF JoinInv, LeaderSteady, Recovered
  <2>2. leaderId = [n \in Node |-> leaderId[n]]
    BY DEF JoinInv, LeaderInv, Leadership
  <2> QED
    BY <2>1, <2>2
<1>3. \A n \in alive : alive \ {n} \subseteq ToSet(peers[n])
  BY DEF Recovered, Whole
<1>4. heard[Leader] = "never"
  <2>1. Leader \in Node /\ Leader \notin ToSet(peers[Leader])
    BY LeaderLeads DEF JoinInv, LeaderInv, PeersAreOthers
  <2> QED
    BY <2>1 DEF JoinInv, LeaderSteady
<1>5. loop = [n \in Node |-> "top"]
  BY <1>1 DEF JoinInv, LoopsSteady, Recovered
<1> QED
  BY <1>1, <1>2, <1>3, <1>4, <1>5 DEF Peace, JoinInv, LeaderSteady

LEMMA CrashEndsJoin ==
  ASSUME OneJoins, JoinInv, NEW n \in Node, Crash(n), LeaderInv'
  PROVE  alive' # Node /\ PeaceInv'
<1>1. Recovered
  BY DEF Crash, OneJoins
<1>2. Peace'
  BY <1>1, RecoveredIsPeace, CrashKeepsPeace DEF JoinInv
<1>3. n \notin alive'
  BY DEF Crash, R!Crash
<1> QED
  BY <1>2, <1>3 DEF PeaceInv

LEMMA StepKeepsJoinThenPeace == OneJoins /\ JoinThenPeace /\ [Next]_vars => JoinThenPeace'
<1> SUFFICES ASSUME OneJoins, JoinThenPeace, [Next]_vars PROVE JoinThenPeace'
  OBVIOUS
<1>0. asked' = {}
  BY NobodyComesBack DEF JoinThenPeace, OneJoins
<1>1. CASE JoinInv
  <2>1. CASE \A n \in Node : ~Crash(n)
    BY <1>0, <1>1, <2>1, StepKeepsJoin DEF JoinThenPeace
  <2>2. ASSUME NEW n \in Node, Crash(n) PROVE JoinThenPeace'
    <3>1. LeaderInv'
      BY <1>1, StepKeepsLeaderInv DEF JoinInv
    <3> QED
      BY <1>0, <1>1, <2>2, <3>1, CrashEndsJoin DEF JoinThenPeace
  <2> QED
    BY <2>1, <2>2
<1>2. CASE alive # Node /\ PeaceInv
  <2>1. PeaceInv'
    BY <1>2, StepKeepsPeace DEF OneJoins
  <2>2. alive \subseteq Node /\ alive' \subseteq alive
    BY <1>2, NobodyComesBack DEF PeaceInv, LeaderInv
  <2> QED
    BY <1>0, <1>2, <2>1, <2>2 DEF JoinThenPeace
<1> QED
  BY <1>1, <1>2 DEF JoinThenPeace

\* What the invariant says of the ring, of elections and of leaders.
LEMMA JoinThenPeaceGives ==
  ASSUME OneJoins, JoinThenPeace
  PROVE  /\ JoinKeepsRing /\ LinksAgree /\ ElectionOnlyForTheLeader
         /\ Max(Members) \in alive => OneLiveLeader /\ HighestSurvivorLeads
<1>1. CASE JoinInv
  <2>1. JoinKeepsRing /\ LinksAgree
    BY <1>1, StartKeepsRing, InsertionKeepsRing, QuietLinksAgree DEF JoinInv, RingShape
  <2>2. round = [n \in Node |-> 0]
    BY <1>1 DEF JoinInv, NoElection
  <2>3. \A n \in alive : isLeader[n] => n = Leader
    BY <1>1, OnlyTheLeaderLeads DEF JoinInv, LeaderInv
  <2>4. OneLiveLeader /\ HighestSurvivorLeads
    BY <2>3 DEF OneLiveLeader, HighestSurvivorLeads, Leader
  <2>5. \A n \in Members : leaderId[n] = Leader
    BY <1>1, StartFacts DEF JoinInv, LeaderSteady
  <2> QED
    BY <2>1, <2>2, <2>4, <2>5 DEF ElectionOnlyForTheLeader, Leader
<1>2. CASE alive # Node /\ PeaceInv
  BY <1>2, PeaceInvGives DEF JoinThenPeace, JoinKeepsRing, LinksAgree
<1> QED
  BY <1>1, <1>2 DEF JoinThenPeace

LEMMA InitJoinThenPeace == Init => JoinThenPeace
BY InitJoinInv DEF JoinThenPeace, Init

-----------------------------------------------------------------------------
\* handle_join_request and handle_join_response insert one node into a ring of
\* any size without ever opening it, whatever HELLOs and heartbeats come between
\* the three datagrams and in whatever order those arrive.
THEOREM JoinKeepsRingHolds ==
  ASSUME OneJoins
  PROVE  Spec => []JoinKeepsRing
<1>1. Init => JoinThenPeace
  BY InitJoinThenPeace
<1>2. JoinThenPeace /\ [Next]_vars => JoinThenPeace'
  BY StepKeepsJoinThenPeace
<1>3. JoinThenPeace => JoinKeepsRing
  BY JoinThenPeaceGives
<1> QED
  BY <1>1, <1>2, <1>3, PTL DEF Spec

\* When the datagrams of the join have arrived the two pointers of every link
\* agree: UPDATE_PREDECESSOR and JOIN_RESPONSE together leave no link one-way.
THEOREM LinksAgreeHolds ==
  ASSUME OneJoins
  PROVE  Spec => []LinksAgree
<1>1. Init => JoinThenPeace
  BY InitJoinThenPeace
<1>2. JoinThenPeace /\ [Next]_vars => JoinThenPeace'
  BY StepKeepsJoinThenPeace
<1>3. JoinThenPeace => LinksAgree
  BY JoinThenPeaceGives
<1> QED
  BY <1>1, <1>2, <1>3, PTL DEF Spec

\* ElectionOnlyForTheLeader, in a ring of any size that grows by one: the leader in the
\* JOIN_RESPONSE arrives before the loops of the new node look for one, so nobody starts
\* an election, and the highest uuid does not take the lead by joining.  From then on the
\* new node is a member like the others, and whichever of them crash, the rest keep to a
\* leader that lives.
THEOREM JoinedKeepToTheLeader ==
  ASSUME OneJoins
  PROVE  Spec => []ElectionOnlyForTheLeader
<1>1. Init => JoinThenPeace
  BY InitJoinThenPeace
<1>2. JoinThenPeace /\ [Next]_vars => JoinThenPeace'
  BY StepKeepsJoinThenPeace
<1>3. JoinThenPeace => ElectionOnlyForTheLeader
  BY JoinThenPeaceGives
<1> QED
  BY <1>1, <1>2, <1>3, PTL DEF Spec

\* OneLiveLeader and HighestSurvivorLeads: neither the join of a node, even one with the
\* highest uuid, nor the crashes of others after it give the ring a second leader.
THEOREM JoinMakesNoSecondLeader ==
  ASSUME OneJoins
  PROVE  Spec => [](Max(Members) \in alive => OneLiveLeader /\ HighestSurvivorLeads)
<1>1. Init => JoinThenPeace
  BY InitJoinThenPeace
<1>2. JoinThenPeace /\ [Next]_vars => JoinThenPeace'
  BY StepKeepsJoinThenPeace
<1>3. JoinThenPeace => (Max(Members) \in alive => OneLiveLeader /\ HighestSurvivorLeads)
  BY JoinThenPeaceGives
<1> QED
  BY <1>1, <1>2, <1>3, PTL DEF Spec

\* LiveLeaderKept, when nobody crashes: the leader keeps the lead while the new node
\* joins, although JOIN_RESPONSE and the heartbeats overwrite the leadership of who
\* gets them.
THEOREM JoinKeepsLeader ==
  ASSUME OneJoins, MaxCrashes = 0
  PROVE  Spec => LiveLeaderKept
<1>1. Init => JoinInv
  BY InitJoinInv
<1>2. JoinInv /\ [Next]_vars => JoinInv'
  BY StepKeepsJoin, NobodyCrashes
<1>3. JoinInv /\ JoinInv' =>
        \A n \in alive \cap alive' : isLeader[n] => isLeader'[n] /\ leaderId'[n] = n
  <2> SUFFICES ASSUME JoinInv, JoinInv', NEW n \in alive, isLeader[n]
               PROVE  isLeader'[n] /\ leaderId'[n] = n
    OBVIOUS
  <2>1. n \in Node
    BY DEF JoinInv, LeaderInv
  <2>2. n = Leader /\ Leader \in Members
    BY <2>1, OnlyTheLeaderLeads, LeaderIsMember
  <2>3. leaderId'[n] = n
    BY <2>1, <2>2 DEF JoinInv, LeaderSteady
  <2> QED
    BY <2>1, <2>3 DEF JoinInv, LeaderInv, Leadership, LeaderKnowsItself
<1> QED
  BY <1>1, <1>2, <1>3, PTL DEF Spec, LiveLeaderKept
=============================================================================
