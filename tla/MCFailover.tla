----------------------------- MODULE MCFailover -----------------------------
(* Instances of Failover. *)
EXTENDS Failover

OneRound == [n \in Node |-> 1]
RingOfTwo == <<1, 2>>
RingOfThree == <<1, 2, 3>>
RingOfFour == <<1, 2, 4, 3>>

\* Who has heard of the others in the order of the ring.
InRingOrder == {[n \in Members |-> RemoveFirst(Start, n)]}

\* Each node looks for dead peers every 5 s, so two of them notice a crash up to
\* 5 s apart (discovery.py:316).
SlowDetection == Assumptions \ {"detection"}
=============================================================================
