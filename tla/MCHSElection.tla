---------------------------- MODULE MCHSElection ----------------------------
(* Model-checking instances of HSElection. *)
EXTENDS HSElection, SequencesExt

\* The inverse of a successor function.
Backwards(s) == [n \in Node |-> CHOOSE p \in Node : s[p] = n]

\* A ring written as the sequence of its nodes, clockwise.
Cycle(seq) ==
  LET at(n) == CHOOSE i \in DOMAIN seq : seq[i] = n
      s == [n \in Node |-> seq[(at(n) % Len(seq)) + 1]]
  IN [succ |-> s, pred |-> Backwards(s)]

\* Elections started: one by every node, or only by some.
NoneEarlier == {[n \in Node |-> 0]}
OneRound == [n \in Node |-> 1]
SecondOnly == [n \in Node |-> IF n = 11 THEN 1 ELSE 0]

\* Of six nodes either the second highest starts twice, or the highest twice
\* and the lowest once.
LowestOnceOthersTwice == [n \in Node |-> CASE n = 1 -> 1 [] n \in {5, 6} -> 2 [] OTHER -> 0]
AllButSecondDone == [LowestOnceOthersTwice EXCEPT ![5] = 0]
SecondDone == [n \in Node |-> IF n = 5 THEN 2 ELSE 0]
EitherDone == {AllButSecondDone, SecondDone}

\* Particular rings.
Ascending == {Cycle([i \in 1 .. Cardinality(Node) |-> i])}

\* The second highest has two smaller nodes on each side.
SecondIsolated == {Cycle(<<5, 1, 2, 6, 3, 4>>)}

\* The second highest has all but the highest within 2^2 + 1 links.
HighestOpposite == {Cycle(<<11, 1, 2, 3, 4, 5, 12, 6, 7, 8, 9, 10>>)}
=============================================================================
