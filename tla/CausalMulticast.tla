--------------------------- MODULE CausalMulticast ---------------------------
(***************************************************************************)
(* Application messages of the alert system: MessagingService (building,   *)
(* sending and dispatching, services/messaging_service.py) together with   *)
(* VectorCausalBuffer (services/vector_causal_buffer.py).                  *)
(*                                                                         *)
(* A node is one asyncio process.  Neither final_handler nor the buffer    *)
(* ever suspends, so VectorCausalBuffer.deliver runs to its end before any *)
(* other coroutine of the node does.  Its drain loop is modelled one       *)
(* iteration per step, with drain[n] the loop index (0 when the loop is    *)
(* not running): while drain[n] # 0 the node can do nothing else, so the   *)
(* handler stays atomic with respect to everything that reads its state.   *)
(*                                                                         *)
(* Datagrams travel over UDP.  A datagram once sent stays in `sent' and    *)
(* may be received never (loss), late (reordering) or more than once       *)
(* (duplication).                                                          *)
(***************************************************************************)
EXTENDS Naturals, Sequences, SequencesExt, FiniteSetsExt

CONSTANTS
  Node,      \* the node ids (uuids)
  MaxBuilt,  \* bound: messages built by all nodes together
  MaxHeld    \* bound: messages in one hold-back list

ASSUME BoundsAreNat == MaxBuilt \in Nat /\ MaxHeld \in Nat

VARIABLES
  vc,         \* vc[n]: node.vector_clock; an absent key of the dict reads 0
  sent,       \* every APP datagram put on the wire so far
  holdback,   \* holdback[n]: the list VectorCausalBuffer.holdback
  drain,      \* drain[n]: 1-based index of the drain loop, 0 when idle
  delivered   \* delivered[n]: messages final_handler was called with, in order

vars == <<vc, sent, holdback, drain, delivered>>

(***************************************************************************)
(* Message: the sender, its clock when the message was built, whether the  *)
(* payload is an ALERT, and where the datagram goes (the multicast group,  *)
(* which loops back to the sender, or one peer).  (sender, own entry of    *)
(* the clock) stands for msg_id.                                           *)
(***************************************************************************)
Clock == [Node -> Nat]

Message == [sender : Node, clock : Clock, alert : BOOLEAN, dest : SUBSET Node]

Seqno(m) == m.clock[m.sender]

Init ==
  /\ vc = [n \in Node |-> [p \in Node |-> 0]]
  /\ sent = {}
  /\ holdback = [n \in Node |-> <<>>]
  /\ drain = [n \in Node |-> 0]
  /\ delivered = [n \in Node |-> <<>>]

Idle(n) == drain[n] = 0

-----------------------------------------------------------------------------
(***************************************************************************)
(* Sending.                                                                *)
(***************************************************************************)

\* _build_message: the clock is bumped for every message, whatever its
\* destination and kind, and before anything is put on the wire.
Bump(n) ==
  /\ Idle(n)
  /\ MapThenSumSet(LAMBDA p : vc[p][p], Node) < MaxBuilt
  /\ vc' = [vc EXCEPT ![n][n] = @ + 1]

Built(n, alert, dest) ==
  [sender |-> n, clock |-> [vc[n] EXCEPT ![n] = @ + 1],
   alert |-> alert, dest |-> dest]

MulticastMessage(n, alert) ==
  /\ Bump(n)
  /\ sent' = sent \cup {Built(n, alert, Node)}
  /\ UNCHANGED <<holdback, drain, delivered>>

SendTo(n, p) ==
  /\ p # n                                   \* messaging.peers never holds n
  /\ Bump(n)
  /\ sent' = sent \cup {Built(n, FALSE, {p})}
  /\ UNCHANGED <<holdback, drain, delivered>>

\* sock_sendto raises: the sequence number is used up, nothing was sent.
SendRaises(n) ==
  /\ Bump(n)
  /\ UNCHANGED <<sent, holdback, drain, delivered>>

-----------------------------------------------------------------------------
(***************************************************************************)
(* VectorCausalBuffer._can_deliver.  The sender's entry is the first key   *)
(* of every clock (Node.__init__ puts it there), so it is tested first; a  *)
(* mismatch calls handle_nack, which calls send_nack with one argument     *)
(* missing: TypeError, raised out of deliver.                              *)
(***************************************************************************)
Own(n, m) == m.sender = n

Raises(n, m) == ~Own(n, m) /\ Seqno(m) # vc[n][m.sender] + 1

\* FIFO order only; a sequence number that need not be the next one.
CanDeliverInFifo(n, m) == ~Own(n, m) /\ Seqno(m) = vc[n][m.sender] + 1

CanDeliverAgain(n, m) ==
  /\ ~Own(n, m)
  /\ Seqno(m) <= vc[n][m.sender] + 1
  /\ \A p \in Node \ {m.sender} : m.clock[p] <= vc[n][p]

CanDeliver(n, m) ==
  /\ ~Own(n, m)
  /\ Seqno(m) = vc[n][m.sender] + 1
  /\ \A p \in Node \ {m.sender} : m.clock[p] <= vc[n][p]

\* The node's own message, or one that waits for a message of someone else.
MustWait(n, m) == ~CanDeliver(n, m) /\ ~Raises(n, m)

\* An assignment where the maximum is due.
Overwritten(n, m) == m.clock

Merged(n, m) ==
  [p \in Node |-> IF m.clock[p] > vc[n][p] THEN m.clock[p] ELSE vc[n][p]]

DeliverToApp(n, m) ==
  /\ delivered' = [delivered EXCEPT ![n] = Append(@, m)]
  /\ vc' = [vc EXCEPT ![n] = Merged(n, m)]

-----------------------------------------------------------------------------
(***************************************************************************)
(* Receiving: _handle_incoming returns at once for an ALERT and hands      *)
(* everything else to deliver.  What it prints on the way is modelled in   *)
(* CausalConsole.                                                          *)
(***************************************************************************)
Dispatch(n, m) ==
  /\ m \in sent
  /\ n \in m.dest
  /\ Idle(n)
  /\ UNCHANGED sent

ReceiveAlert(n, m) ==
  /\ Dispatch(n, m)
  /\ m.alert
  /\ UNCHANGED <<vc, holdback, drain, delivered>>

ReceiveDeliverable(n, m) ==
  /\ Dispatch(n, m)
  /\ ~m.alert
  /\ CanDeliver(n, m)
  /\ DeliverToApp(n, m)
  /\ drain' = [drain EXCEPT ![n] = 1]
  /\ UNCHANGED holdback

ReceiveEarly(n, m) ==
  /\ Dispatch(n, m)
  /\ ~m.alert
  /\ MustWait(n, m)
  /\ Len(holdback[n]) < MaxHeld
  /\ holdback' = [holdback EXCEPT ![n] = Append(@, m)]
  /\ UNCHANGED <<vc, drain, delivered>>

\* The TypeError ends deliver before the append; the receive loop logs it.
ReceiveGap(n, m) ==
  /\ Dispatch(n, m)
  /\ ~m.alert
  /\ Raises(n, m)
  /\ UNCHANGED <<vc, holdback, drain, delivered>>

-----------------------------------------------------------------------------
(***************************************************************************)
(* The loop at the end of deliver: one iteration on holdback[n][drain[n]]. *)
(***************************************************************************)
\* The delivered message left in the list.
DrainDeliverKeeps(n) ==
  /\ drain[n] \in 1 .. Len(holdback[n])
  /\ CanDeliver(n, holdback[n][drain[n]])
  /\ DeliverToApp(n, holdback[n][drain[n]])
  /\ UNCHANGED <<sent, holdback, drain>>

\* pop(0) for pop(i).
DrainDeliverPopsFirst(n) ==
  /\ drain[n] \in 1 .. Len(holdback[n])
  /\ CanDeliver(n, holdback[n][drain[n]])
  /\ DeliverToApp(n, holdback[n][drain[n]])
  /\ holdback' = [holdback EXCEPT ![n] = Tail(@)]
  /\ UNCHANGED <<sent, drain>>

DrainDeliver(n) ==
  /\ drain[n] \in 1 .. Len(holdback[n])
  /\ CanDeliver(n, holdback[n][drain[n]])
  /\ DeliverToApp(n, holdback[n][drain[n]])
  /\ holdback' = [holdback EXCEPT ![n] = RemoveAt(@, drain[n])]
  /\ UNCHANGED <<sent, drain>>

DrainSkip(n) ==
  /\ drain[n] \in 1 .. Len(holdback[n])
  /\ MustWait(n, holdback[n][drain[n]])
  /\ drain' = [drain EXCEPT ![n] = @ + 1]
  /\ UNCHANGED <<vc, sent, holdback, delivered>>

\* The TypeError of a held message ends the loop, wherever it stands.
DrainRaises(n) ==
  /\ drain[n] \in 1 .. Len(holdback[n])
  /\ Raises(n, holdback[n][drain[n]])
  /\ drain' = [drain EXCEPT ![n] = 0]
  /\ UNCHANGED <<vc, sent, holdback, delivered>>

DrainEnd(n) ==
  /\ drain[n] > Len(holdback[n])
  /\ drain' = [drain EXCEPT ![n] = 0]
  /\ UNCHANGED <<vc, sent, holdback, delivered>>

Drain(n) == DrainDeliver(n) \/ DrainSkip(n) \/ DrainRaises(n) \/ DrainEnd(n)

-----------------------------------------------------------------------------
Send(n) ==
  \/ \E alert \in BOOLEAN : MulticastMessage(n, alert)
  \/ \E p \in Node : SendTo(n, p)
  \/ SendRaises(n)

Receive(n, m) ==
  \/ ReceiveAlert(n, m)
  \/ ReceiveDeliverable(n, m)
  \/ ReceiveEarly(n, m)
  \/ ReceiveGap(n, m)

Next ==
  \E n \in Node :
    \/ Send(n)
    \/ \E m \in sent : Receive(n, m)
    \/ Drain(n)

Spec == Init /\ [][Next]_vars

-----------------------------------------------------------------------------
(***************************************************************************)
(* Properties.                                                             *)
(***************************************************************************)
TypeOK ==
  /\ vc \in [Node -> Clock]
  /\ sent \subseteq Message
  /\ holdback \in [Node -> Seq(Message)]
  /\ drain \in [Node -> Nat]
  /\ delivered \in [Node -> Seq(Message)]

\* a is in the causal past of b as the clocks record it.
Before(a, b) == a # b /\ Seqno(a) <= b.clock[a.sender]

DeliveredBefore(n, a, i) == \E j \in 1 .. i - 1 : delivered[n][j] = a

\* Causal order: when a message reaches the application of n, every message
\* in its causal past (those of n itself apart) has already reached it, even
\* though UDP loses, reorders and duplicates: deliver only lets a message
\* through when no entry of its clock is missing.
CausalOrder ==
  \A n \in Node : \A i \in 1 .. Len(delivered[n]) :
    \A a \in sent :
      (a.sender # n /\ Before(a, delivered[n][i])) => DeliveredBefore(n, a, i)

\* No message reaches the application twice, however many copies the network
\* makes and however many of them sit in the hold-back list.
NoDuplicateDelivery ==
  \A n \in Node : \A i, j \in 1 .. Len(delivered[n]) :
    i # j => delivered[n][i] # delivered[n][j]

\* A held message leaves the hold-back list only by being delivered, also when
\* a TypeError cuts the drain loop short.
HeldLeavesByDelivery ==
  [][\A n \in Node : \A m \in ToSet(holdback[n]) :
        \/ m \in ToSet(holdback'[n])
        \/ m \in ToSet(delivered'[n])]_vars

\* What the drain loop of n has left to look at.
Left(n) == Len(holdback[n]) + 1 - drain[n]

\* Every iteration of the drain loop ends it or brings it closer to its end,
\* although the list changes under the index: no receive handler occupies its
\* node for ever.
DrainAdvances ==
  [][\A n \in Node : ~Idle(n) =>
       \/ UNCHANGED <<vc[n], holdback[n], drain[n], delivered[n]>>
       \/ drain'[n] = 0
       \/ Left(n)' < Left(n)]_vars

-----------------------------------------------------------------------------
(***************************************************************************)
(* What the clocks stand for.                                              *)
(***************************************************************************)
\* The clock of a message covers exactly what its sender had seen.
Delivery == INSTANCE CausalDelivery
  WITH past <- [m \in sent |-> {a \in sent : Before(a, m)}]

\* Vector clocks are as good as sending along the set of all earlier messages: no
\* step of the buffer delivers a message before one that its sender had sent or
\* been given, and the test on clocks (_can_deliver) never mistakes an older
\* message, or one that is under way elsewhere, for one that was seen.
ImplementsDelivery == Delivery!Spec

\* Comparing clocks entry by entry gives an order on the messages: the maximum in
\* _merge loses nothing that the messages delivered before depended on.
ClocksGiveAnOrder == Delivery!PastIsOrder

-----------------------------------------------------------------------------
(***************************************************************************)
(* The inductive invariant behind CausalOrder.                             *)
(***************************************************************************)
\* Nobody knows more of p than p itself has built.
NobodyAhead ==
  /\ \A n, p \in Node : vc[n][p] <= vc[p][p]
  /\ \A m \in sent : \A p \in Node : m.clock[p] <= vc[p][p]

SeqnoIdentifies ==
  \A a, b \in sent : a.sender = b.sender /\ Seqno(a) = Seqno(b) => a = b

\* vc[n][p] only grows by deliveries, one at a time: what it covers was delivered.
CoveredIsDelivered ==
  \A n \in Node : \A a \in sent :
    a.sender # n /\ Seqno(a) <= vc[n][a.sender] =>
      DeliveredBefore(n, a, Len(delivered[n]) + 1)

\* Only what _handle_incoming passes on gets delivered, or held.
Passed(n, m) == m \in sent /\ ~m.alert /\ n \in m.dest

DeliveredIsCovered ==
  \A n \in Node : \A i \in 1 .. Len(delivered[n]) :
    /\ Passed(n, delivered[n][i])
    /\ delivered[n][i].sender # n
    /\ \A p \in Node : delivered[n][i].clock[p] <= vc[n][p]

HeldWasPassed ==
  \A n \in Node : \A i \in 1 .. Len(holdback[n]) : Passed(n, holdback[n][i])

CausalInv ==
  /\ TypeOK
  /\ NobodyAhead
  /\ SeqnoIdentifies
  /\ CoveredIsDelivered
  /\ DeliveredIsCovered
  /\ HeldWasPassed
  /\ CausalOrder
  /\ NoDuplicateDelivery
=============================================================================
