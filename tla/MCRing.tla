------------------------------- MODULE MCRing -------------------------------
(***************************************************************************)
(* Instances of RingTopology: the rings its runs start from.  The names of *)
(* the nodes are strings, which the definitions below can mention.         *)
(***************************************************************************)
EXTENDS RingTopology

Nothing == {}
RingOfThree == {<<"a", "b", "c">>}

\* Whatever order each node has heard of the others in.
AnyOrder ==
  {tables \in [Founders -> UNION {SetToSeqs(Founders \ {n}) : n \in Founders}] :
     \A n \in Founders : ToSet(tables[n]) = Founders \ {n}}
=============================================================================
