--------------------------- MODULE LeaderAgreement ---------------------------
(***************************************************************************)
(* What LeaderElectionService promises on a stable ring, with no elections,*)
(* probes or datagrams in it: the highest node may come to lead, and a     *)
(* node may learn who leads.  A leader known is never given up.            *)
(***************************************************************************)
EXTENDS Naturals

CONSTANTS Node, None

VARIABLE leader   \* leader[n]: whom n takes for the leader

Highest(x) == x \in Node /\ \A y \in Node : y <= x

Init == leader = [n \in Node |-> None]

Elect(n) ==
  /\ Highest(n)
  /\ leader[n] = None
  /\ leader' = [leader EXCEPT ![n] = n]

Learn(n, l) ==
  /\ leader[n] = None
  /\ leader[l] = l
  /\ leader' = [leader EXCEPT ![n] = l]

Next == \E n \in Node : Elect(n) \/ \E l \in Node : Learn(n, l)

Spec == Init /\ [][Next]_leader
=============================================================================
