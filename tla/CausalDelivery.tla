---------------------------- MODULE CausalDelivery ----------------------------
(***************************************************************************)
(* What MessagingService and VectorCausalBuffer promise the application,   *)
(* with no clocks, buffers or datagrams in it: every message knows the     *)
(* messages its sender had seen, and a node gets it after all of those.    *)
(* Nothing says that a message is ever delivered.                          *)
(***************************************************************************)
EXTENDS Sequences, SequencesExt

CONSTANT Node

VARIABLES
  past,       \* past[m]: what the sender of m had seen when it sent m
  delivered   \* delivered[n]: messages the application of n got, in order

Sent == DOMAIN past

\* What n has seen: its own messages, and those its application got.
Seen(n) == {m \in Sent : m.sender = n} \cup ToSet(delivered[n])

Init ==
  /\ past = [m \in {} |-> {}]
  /\ delivered = [n \in Node |-> <<>>]

Send(n) ==
  /\ \E m \in DOMAIN past' \ Sent :
       /\ m.sender = n
       /\ past' = [x \in Sent \cup {m} |-> IF x = m THEN Seen(n) ELSE past[x]]
  /\ UNCHANGED delivered

Deliver(n, m) ==
  /\ ~m.alert /\ n \in m.dest
  /\ m \notin Seen(n)
  /\ past[m] \subseteq Seen(n)
  /\ delivered' = [delivered EXCEPT ![n] = Append(@, m)]
  /\ UNCHANGED past

Next == \E n \in Node : Send(n) \/ \E m \in Sent : Deliver(n, m)

Spec == Init /\ [][Next]_<<past, delivered>>

-----------------------------------------------------------------------------
\* What a message depends on is an order: it holds all that the messages in it
\* depend on, and no message depends on itself, directly or through others.
PastIsOrder ==
  \A m \in Sent : \A a \in past[m] :
    a \in Sent /\ past[a] \subseteq past[m] /\ m \notin past[a]
=============================================================================
