---------------------------- MODULE SequenceLemmas ----------------------------
(***************************************************************************)
(* Facts about lists and their indices that several proofs need.           *)
(***************************************************************************)
EXTENDS Naturals, Sequences, SequencesExt, SequenceTheorems, FiniteSetTheorems,
        WellFoundedInduction, TLAPS

\* Min of the community modules is a member: what `the first index such that'
\* rests on.
LEMMA MinIsMember ==
  ASSUME NEW S \in SUBSET Nat, S # {}
  PROVE  Min(S) \in S /\ \A y \in S : Min(S) <= y
<1> DEFINE R == {ss \in Nat \X Nat : ss[1] < ss[2]}
<1>1. IsWellFoundedOn(R, Nat)
  BY NatLessThanWellFounded, Zenon DEF OpToRel
<1> HIDE DEF R
<1>2. PICK x \in S : \A y \in S : ~ (<<y, x>> \in R)
  BY <1>1, WFMin
<1>3. ASSUME NEW y \in S
      PROVE  x <= y
  <2>1. x \in Nat /\ y \in Nat
    OBVIOUS
  <2>2. <<y, x>> \notin R
    BY <1>2
  <2>3. ~ (y < x)
    BY <2>1, <2>2, <<y, x>>[1] = y, <<y, x>>[2] = x, <<y, x>> \in Nat \X Nat DEF R
  <2> QED
    BY <2>1, <2>3
<1> QED
  BY <1>3 DEF Min

\* So is Max, of a finite set: the election among the members has a winner.
LEMMA MaxIsMember ==
  ASSUME NEW S \in SUBSET Nat, S # {}, IsFiniteSet(S)
  PROVE  Max(S) \in S /\ \A y \in S : y <= Max(S)
<1> DEFINE above(x) == {y \in S : y > x}
           D == {Cardinality(above(x)) : x \in S}
<1>1. \A x \in S : IsFiniteSet(above(x)) /\ Cardinality(above(x)) \in Nat
  BY FS_Subset, FS_CardinalityType
<1>2. D \in SUBSET Nat /\ D # {}
  BY <1>1
<1>3. Min(D) \in D /\ \A d \in D : Min(D) <= d
  <2> HIDE DEF D
  <2> QED
    BY <1>2, MinIsMember
<1>4. PICK x \in S : \A z \in S : Cardinality(above(x)) <= Cardinality(above(z))
  <2>1. PICK x \in S : Min(D) = Cardinality(above(x))
    BY <1>3
  <2>2. \A z \in S : Cardinality(above(z)) \in D
    OBVIOUS
  <2> HIDE DEF D, above
  <2> QED
    BY <1>3, <2>1, <2>2
<1>5. ASSUME NEW z \in S, z > x PROVE FALSE
  <2>1. z \in Nat /\ x \in Nat /\ S \subseteq Nat
    OBVIOUS
  <2>2. above(z) \subseteq above(x) /\ z \in above(x) /\ z \notin above(z)
    <3>1. \A y \in S : y > z => y > x
      BY <1>5, <2>1
    <3>2. ~ (z > z)
      BY <2>1
    <3> QED
      BY <1>5, <3>1, <3>2
  <2> HIDE DEF above
  <2>3. Cardinality(above(z)) <= Cardinality(above(x)) /\ above(z) # above(x)
    BY <1>1, <2>2, FS_Subset
  <2>4. Cardinality(above(z)) = Cardinality(above(x))
    BY <1>1, <1>4, <2>3
  <2> QED
    BY <1>1, <2>2, <2>3, <2>4, FS_Subset
<1>6. \A y \in S : x >= y
  <2>1. \A y \in S : y \in Nat /\ x \in Nat
    OBVIOUS
  <2> QED
    BY <1>5, <2>1
<1>7. Max(S) \in S /\ \A y \in S : Max(S) >= y
  BY <1>6 DEF Max
<1>8. \A y \in S : y \in Nat
  OBVIOUS
<1> QED
  BY <1>7, <1>8

\* Removing one entry of a list (a message that is held back, a peer) leaves all
\* the others in it, and nothing else.
LEMMA RemoveAtKeeps ==
  ASSUME NEW S, NEW s \in Seq(S), NEW i \in 1 .. Len(s)
  PROVE  /\ RemoveAt(s, i) \in Seq(S)
         /\ Len(RemoveAt(s, i)) = Len(s) - 1
         /\ \A j \in 1 .. Len(RemoveAt(s, i)) :
              \E k \in 1 .. Len(s) : k # i /\ RemoveAt(s, i)[j] = s[k]
         /\ \A k \in 1 .. Len(s) : k # i =>
              \E j \in 1 .. Len(RemoveAt(s, i)) : RemoveAt(s, i)[j] = s[k]
<1> DEFINE front == SubSeq(s, 1, i - 1)
           back == SubSeq(s, i + 1, Len(s))
<1>1. front \in Seq(S) /\ Len(front) = i - 1
      /\ \A j \in 1 .. i - 1 : front[j] = s[j]
  OBVIOUS
<1>2. back \in Seq(S) /\ Len(back) = Len(s) - i
      /\ \A j \in 1 .. Len(s) - i : back[j] = s[i + j]
  OBVIOUS
<1>3. RemoveAt(s, i) = front \o back
  BY DEF RemoveAt
<1> HIDE DEF front, back
<1>4. /\ front \o back \in Seq(S)
      /\ Len(front \o back) = Len(s) - 1
      /\ \A j \in 1 .. Len(s) - 1 :
           (front \o back)[j] = IF j <= i - 1 THEN front[j] ELSE back[j - (i - 1)]
  BY <1>1, <1>2, ConcatProperties
<1>5. ASSUME NEW j \in 1 .. Len(s) - 1
      PROVE  \E k \in 1 .. Len(s) : k # i /\ (front \o back)[j] = s[k]
  <2>1. CASE j <= i - 1
    BY <1>1, <1>4, <2>1
  <2>2. CASE j > i - 1
    <3>1. (front \o back)[j] = back[j - (i - 1)] /\ j - (i - 1) \in 1 .. Len(s) - i
      BY <1>4, <2>2
    <3>2. (front \o back)[j] = s[i + (j - (i - 1))] /\ i + (j - (i - 1)) \in 1 .. Len(s) \ {i}
      BY <1>2, <3>1
    <3> QED
      BY <3>2
  <2>3. j <= i - 1 \/ j > i - 1
    OBVIOUS
  <2> QED
    BY ONLY <2>1, <2>2, <2>3
<1>6. ASSUME NEW k \in 1 .. Len(s), k # i
      PROVE  \E j \in 1 .. Len(s) - 1 : (front \o back)[j] = s[k]
  <2>1. CASE k < i
    <3>1. k \in 1 .. i - 1 /\ k \in 1 .. Len(s) - 1
      BY <2>1
    <3> QED
      BY <1>1, <1>4, <3>1
  <2>2. CASE k > i
    <3>1. PICK j \in 1 .. Len(s) - 1 : j = k - 1
      BY <2>2
    <3>2. ~(j <= i - 1) /\ j - (i - 1) \in 1 .. Len(s) - i /\ i + (j - (i - 1)) = k
      BY <2>2, <3>1
    <3>3. (front \o back)[j] = back[j - (i - 1)]
      BY <1>4, <3>2
    <3>4. (front \o back)[j] = s[i + (j - (i - 1))]
      BY <1>2, <3>2, <3>3
    <3> QED
      BY <3>2, <3>4
  <2>3. k < i \/ k > i
    BY <1>6
  <2> QED
    BY ONLY <2>1, <2>2, <2>3
<1> QED
  BY <1>3, <1>4, <1>5, <1>6

\* Without one of its entries a list holds the others, and only entries it held;
\* without one of entries that all differ, it does not hold that one any more.
LEMMA RemoveFirstKeeps ==
  ASSUME NEW S, NEW s \in Seq(S), NEW e
  PROVE  /\ RemoveFirst(s, e) \in Seq(S)
         /\ ToSet(RemoveFirst(s, e)) \subseteq ToSet(s)
         /\ ToSet(s) \ {e} \subseteq ToSet(RemoveFirst(s, e))
         /\ IsInjective(s) => e \notin ToSet(RemoveFirst(s, e))
<1> DEFINE I == {i \in 1 .. Len(s) : s[i] = e}
<1>1. CASE I = {}
  <2>1. RemoveFirst(s, e) = s
    BY <1>1 DEF RemoveFirst
  <2> QED
    BY <1>1, <2>1 DEF ToSet
<1>2. CASE I # {}
  <2>1. RemoveFirst(s, e) = RemoveAt(s, IF I # {} THEN Min(I) ELSE 0)
    BY <1>2 DEF RemoveFirst, SelectInSeq
  <2>2. Min(I) \in I
    <3>1. I \in SUBSET Nat
      OBVIOUS
    <3> HIDE DEF I
    <3> QED
      BY <1>2, <3>1, MinIsMember
  <2>3. PICK i \in 1 .. Len(s) : s[i] = e /\ RemoveFirst(s, e) = RemoveAt(s, i)
    BY <1>2, <2>1, <2>2
  <2> DEFINE t == RemoveAt(s, i)
  <2>4. /\ t \in Seq(S)
        /\ \A j \in 1 .. Len(t) : \E k \in 1 .. Len(s) : k # i /\ t[j] = s[k]
        /\ \A k \in 1 .. Len(s) : k # i => \E j \in 1 .. Len(t) : t[j] = s[k]
    BY RemoveAtKeeps
  <2> HIDE DEF t
  <2>5. /\ ToSet(t) = {t[j] : j \in 1 .. Len(t)}
        /\ ToSet(s) = {s[j] : j \in 1 .. Len(s)}
        /\ DOMAIN s = 1 .. Len(s)
    BY <2>4 DEF ToSet
  <2>6. ToSet(t) \subseteq ToSet(s)
    BY <2>4, <2>5
  <2>7. ToSet(s) \ {e} \subseteq ToSet(t)
    BY <2>3, <2>4, <2>5
  <2>8. IsInjective(s) => e \notin ToSet(t)
    <3>1. IsInjective(s) => \A k \in 1 .. Len(s) : k # i => s[k] # e
      BY <2>3, <2>5 DEF IsInjective
    <3> QED
      BY <2>4, <2>5, <3>1
  <2> QED
    BY <2>3, <2>4, <2>6, <2>7, <2>8 DEF t
<1> QED
  BY <1>1, <1>2
=============================================================================
