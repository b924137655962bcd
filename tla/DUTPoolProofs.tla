---------------------------- MODULE DUTPoolProofs ----------------------------
(***************************************************************************)
(* Lemmas about what the DUT pool selects: an allocation consists of free  *)
(* DUTs, and it is not empty unless the request asks for none.             *)
(***************************************************************************)
EXTENDS DUTPool, FiniteSetTheorems, WellFoundedInduction, TLAPS

\* An allocation consists of free DUTs.
LEMMA SelectsFree ==
    ASSUME NEW req, NEW free, NEW d, Selects(req, free, d)
    PROVE  d \subseteq free
<1>1. CASE FindDutsMatchingTopology(req, free, d)
  BY <1>1 DEF FindDutsMatchingTopology, Matching
<1>2. CASE TakeNamed(req, free, d)
  BY <1>2 DEF TakeNamed, FirstN, AvailableNamed
<1>3. CASE d = FirstN(free, req.count, SlotPos)
  BY <1>3 DEF FirstN
<1>4. QED BY <1>1, <1>2, <1>3 DEF Selects

\* The order list[:n] follows has a first element.
LEMMA FirstExists ==
    ASSUME NEW S, S # {}, NEW pos, \A x \in S : pos[x] \in Nat
    PROVE  \E x \in S : \A y \in S : pos[x] <= pos[y]
<1> DEFINE R == OpToRel(<, Nat)
           T == {pos[x] : x \in S}
<1>1. IsWellFoundedOn(R, Nat)
  BY NatLessThanWellFounded
<1>2. T \subseteq Nat /\ T # {}
  OBVIOUS
<1>3. PICK m \in T : \A k \in T : ~(<<k, m>> \in R)
  <2> HIDE DEF R, T
  <2>1. QED BY <1>1, <1>2, WFMin
<1>4. \A k \in T : ~(k < m)
  BY <1>2, <1>3 DEF OpToRel
<1>5. PICK x \in S : pos[x] = m
  OBVIOUS
<1>6. \A y \in S : ~(pos[y] < pos[x])
  BY <1>4, <1>5
<1>7. QED BY <1>6

\* A set of at least n > 0 elements has some.
LEMMA LargeNotEmpty ==
    ASSUME NEW S, NEW n \in Nat \ {0}, Cardinality(S) >= n
    PROVE  S # {}
<1>1. Cardinality({}) = 0
  BY FS_EmptySet
<1>2. ~(Cardinality({}) >= n)
  BY <1>1
<1>3. QED BY <1>2

\* The n first elements of a set that is not empty are not none.
LEMMA FirstNSome ==
    ASSUME NEW S, S # {}, NEW n \in Nat \ {0}, NEW pos,
           \A x \in S : pos[x] \in Nat,
           \A x, y \in S : pos[x] = pos[y] => x = y
    PROVE  FirstN(S, n, pos) # {}
<1>1. PICK x \in S : \A y \in S : pos[x] <= pos[y]
  BY FirstExists
<1>2. {y \in S : pos[y] <= pos[x]} = {x}
  BY <1>1
<1>3. Cardinality({y \in S : pos[y] <= pos[x]}) <= n
  BY <1>2, FS_Singleton
<1>4. QED BY <1>3 DEF FirstN

\* A request for DUTs gets some.
LEMMA SelectsSome ==
    ASSUME NEW req \in ResourceRequirement, req.count # 0,
           NEW free \in SUBSET Dut, NEW d, Selects(req, free, d)
    PROVE  d # {}
<1>1. req.count \in Nat \ {0} /\ Cardinality(free) >= req.count /\ req.named \in Seq(DutName)
  BY DEF ResourceRequirement, Selects
<1>2. CASE FindDutsMatchingTopology(req, free, d)
  BY <1>1, <1>2, FS_EmptySet DEF FindDutsMatchingTopology, Matching
<1>3. CASE TakeNamed(req, free, d)
  <2> DEFINE available == AvailableNamed(req, free)
  <2>1. Cardinality(available) >= req.count
    BY <1>3 DEF TakeNamed
  <2>2. available # {}
    BY <1>1, <2>1, LargeNotEmpty
  <2>3. \A i \in available : i \in Nat
    BY <1>1 DEF AvailableNamed
  <2>4. FirstN(available, req.count, [i \in available |-> i]) # {}
    <3> DEFINE pos == [i \in available |-> i]
    <3>1. /\ \A i \in available : pos[i] \in Nat
          /\ \A i, j \in available : pos[i] = pos[j] => i = j
      BY <2>3
    <3> HIDE DEF available, pos
    <3>2. FirstN(available, req.count, pos) # {}
      BY <1>1, <2>2, <3>1, FirstNSome
    <3>3. QED BY <3>2 DEF pos
  <2>5. QED BY <1>3, <2>4 DEF TakeNamed
<1>4. CASE d = FirstN(free, req.count, SlotPos)
  <2>1. free # {}
    BY <1>1, LargeNotEmpty
  <2>2. /\ \A x \in free : SlotPos[x] \in Nat
        /\ \A x, y \in free : SlotPos[x] = SlotPos[y] => x = y
    BY PoolAssumption DEF IsInjective
  <2>3. QED BY <1>1, <1>4, <2>1, <2>2, FirstNSome
<1>5. QED BY <1>2, <1>3, <1>4 DEF Selects
=============================================================================
