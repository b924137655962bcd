--------------------------- MODULE BatchOperations ----------------------------
(***************************************************************************)
(* What the operations of the batch scheduler keep, whichever data they    *)
(* start from. The lemmas come in the order in which the operations call   *)
(* each other: first lists and loops, then sending tests to a node, a round*)
(* of schedule(), and the end of a worker.                                 *)
(***************************************************************************)
EXTENDS BatchScheduler, SequenceTheorems, WellFoundedInduction, TLAPS

(***************************************************************************)
(* Lists and loops.                                                        *)
(***************************************************************************)

(* What holds of 0, and of n when it holds of n - 1, holds up to N.        *)
LEMMA Induct ==
    ASSUME NEW N \in Nat, NEW S, 0 \in S, \A n \in 1 .. N : n - 1 \in S => n \in S
    PROVE  \A n \in 0 .. N : n \in S
<1> DEFINE T == {n \in 0 .. N : n \notin S}
           R == OpToRel(<, Nat)
<1>1. SUFFICES ASSUME T # {} PROVE FALSE
  OBVIOUS
<1>2. T \subseteq Nat
  OBVIOUS
<1>3. PICK m \in T : \A k \in T : ~(<<k, m>> \in R)
  <2>1. IsWellFoundedOn(R, Nat)
    BY NatLessThanWellFounded
  <2> HIDE DEF R, T
  <2>2. QED BY <1>1, <1>2, <2>1, WFMin
<1>4. \A k \in T : ~(k < m)
  BY <1>2, <1>3 DEF OpToRel
<1>5. m \in 0 .. N /\ m \notin S
  OBVIOUS
<1>6. m \in 1 .. N
  BY <1>5
<1>7. m - 1 \notin T
  BY <1>4, <1>6
<1>8. QED BY <1>5, <1>6, <1>7

(* schedule_locked goes over the nodes one by one.                         *)
LEMMA ScheduleUnfolds ==
    ASSUME NEW d, NEW finished, Len(d.nodes) \in Nat
    PROVE  \E f : /\ f[0] = d
                  /\ \A n \in 1 .. Len(d.nodes) : f[n] = Visit(f[n - 1], d.nodes[n], finished)
                  /\ Schedule(d, finished) = f[Len(d.nodes)]
<1> DEFINE N == Len(d.nodes)
           After(k, f) ==
               f = [n \in 0 .. k |-> IF n = 0 THEN d ELSE Visit(f[n - 1], d.nodes[n], finished)]
           S == {k \in 0 .. N : \E f : After(k, f)}
<1>1. 0 \in S
  <2> DEFINE g == [n \in 0 .. 0 |-> d]
  <2>1. After(0, g)
    OBVIOUS
  <2> HIDE DEF After, g
  <2>2. QED BY <2>1
<1>2. ASSUME NEW k \in 1 .. N, k - 1 \in S PROVE k \in S
  <2>1. PICK f : After(k - 1, f)
    BY <1>2
  <2> DEFINE g == [n \in 0 .. k |-> IF n = k THEN Visit(f[k - 1], d.nodes[k], finished) ELSE f[n]]
  <2>2. After(k, g)
    BY <2>1
  <2> HIDE DEF After, g
  <2>3. QED BY <2>2
<1>3. \E f : After(N, f)
  <2> HIDE DEF S
  <2>1. \A k \in 0 .. N : k \in S
    BY <1>1, <1>2, Induct
  <2> USE DEF S
  <2> HIDE DEF After
  <2>2. QED BY <2>1
<1> DEFINE g == CHOOSE f : After(N, f)
<1>4. After(N, g)
  <2> HIDE DEF After
  <2>1. QED BY <1>3
<1>5. Schedule(d, finished) = g[N]
  BY DEF Schedule
<1>6. g[0] = d /\ \A n \in 1 .. N : g[n] = Visit(g[n - 1], d.nodes[n], finished)
  <2> HIDE DEF g
  <2>1. QED BY <1>4
<1> HIDE DEF g
<1>7. QED BY <1>5, <1>6

(* finish_node_locked considers the workers one by one.                    *)
LEMMA ConsiderAllUnfolds ==
    ASSUME NEW d, Len(setup.workers) \in Nat
    PROVE  \E f : /\ f[0] = d
                  /\ \A n \in 1 .. Len(setup.workers) : f[n] = Consider(f[n - 1], n)
                  /\ ConsiderAll(d) = f[Len(setup.workers)]
<1> DEFINE N == Len(setup.workers)
           After(k, f) == f = [n \in 0 .. k |-> IF n = 0 THEN d ELSE Consider(f[n - 1], n)]
           S == {k \in 0 .. N : \E f : After(k, f)}
<1>1. 0 \in S
  <2> DEFINE g == [n \in 0 .. 0 |-> d]
  <2>1. After(0, g)
    OBVIOUS
  <2> HIDE DEF After, g
  <2>2. QED BY <2>1
<1>2. ASSUME NEW k \in 1 .. N, k - 1 \in S PROVE k \in S
  <2>1. PICK f : After(k - 1, f)
    BY <1>2
  <2> DEFINE g == [n \in 0 .. k |-> IF n = k THEN Consider(f[k - 1], k) ELSE f[n]]
  <2>2. After(k, g)
    BY <2>1
  <2> HIDE DEF After, g
  <2>3. QED BY <2>2
<1>3. \E f : After(N, f)
  <2> HIDE DEF S
  <2>1. \A k \in 0 .. N : k \in S
    BY <1>1, <1>2, Induct
  <2> USE DEF S
  <2> HIDE DEF After
  <2>2. QED BY <2>1
<1> DEFINE g == CHOOSE f : After(N, f)
<1>4. After(N, g)
  <2> HIDE DEF After
  <2>1. QED BY <1>3
<1>5. ConsiderAll(d) = g[N]
  BY DEF ConsiderAll
<1>6. g[0] = d /\ \A n \in 1 .. N : g[n] = Consider(g[n - 1], n)
  <2> HIDE DEF g
  <2>1. g = [n \in 0 .. N |-> IF n = 0 THEN d ELSE Consider(g[n - 1], n)]
    BY <1>4
  <2>2. g[0] = d
    BY <2>1
  <2>3. ASSUME NEW n \in 1 .. N PROVE g[n] = Consider(g[n - 1], n)
    <3>1. n \in 0 .. N /\ n # 0
      OBVIOUS
    <3>2. QED BY <2>1, <3>1
  <2>4. QED BY <2>2, <2>3
<1> HIDE DEF g
<1>7. QED BY <1>5, <1>6

(* To remove the first occurrence of the head leaves the tail.             *)
LEMMA RemoveHead ==
    ASSUME NEW S, NEW q \in Seq(S), q # <<>>
    PROVE  RemoveFirst(q, Head(q)) = Tail(q)
<1> DEFINE I == {i \in 1 .. Len(q) : q[i] = Head(q)}
<1>1. 1 \in I /\ \A i \in I : 1 =< i
  OBVIOUS
<1>2. Min(I) = 1
  BY <1>1 DEF Min
<1>3. SelectInSeq(q, LAMBDA v : v = Head(q)) = 1
  BY <1>1, <1>2 DEF SelectInSeq
<1>4. RemoveFirst(q, Head(q)) = RemoveAt(q, 1)
  BY <1>1, <1>3 DEF RemoveFirst
<1>5. SubSeq(q, 1, 0) = <<>> /\ SubSeq(q, 2, Len(q)) = Tail(q)
  BY SubSeqEmpty, TailIsSubSeq
<1>6. <<>> \o Tail(q) = Tail(q)
  BY ConcatEmptySeq, HeadTailProperties
<1>7. QED BY <1>4, <1>5, <1>6 DEF RemoveAt

(* In a list without duplicates the removed element is gone, the others    *)
(* stay.                                                                   *)
LEMMA RemoveOne ==
    ASSUME NEW S, NEW q \in Seq(S), IsInjective(q), NEW w
    PROVE  LET r == RemoveFirst(q, w) IN
           r \in Seq(S) /\ IsInjective(r) /\ ToSet(r) = ToSet(q) \ {w}
<1> DEFINE I == {i \in 1 .. Len(q) : q[i] = w}
<1>1. CASE w \notin ToSet(q)
  <2>1. RemoveFirst(q, w) = q
    BY <1>1 DEF RemoveFirst, ToSet
  <2>2. QED BY <1>1, <2>1
<1>2. CASE w \in ToSet(q)
  <2>1. PICK i \in 1 .. Len(q) : q[i] = w
    BY <1>2 DEF ToSet
  <2>2. I = {i}
    BY <2>1 DEF IsInjective
  <2>3. Min(I) = i
    BY <2>1, <2>2 DEF Min
  <2>4. SelectInSeq(q, LAMBDA v : v = w) = i
    BY <2>2, <2>3 DEF SelectInSeq
  <2> DEFINE r == RemoveFirst(q, w)
             left == SubSeq(q, 1, i - 1)
             right == SubSeq(q, i + 1, Len(q))
  <2>5. r = left \o right
    BY <2>1, <2>4 DEF RemoveFirst, RemoveAt
  <2>6. /\ left \in Seq(S) /\ Len(left) = i - 1 /\ \A j \in 1 .. i - 1 : left[j] = q[j]
    <3>1. \A j \in 1 .. i - 1 : q[j] \in S
      BY <2>1, ElementOfSeq
    <3>2. QED BY <2>1, <3>1, SubSeqProperties
  <2>7. /\ right \in Seq(S) /\ Len(right) = Len(q) - i
        /\ \A j \in 1 .. Len(q) - i : right[j] = q[j + i]
    <3>1. \A j \in i + 1 .. Len(q) : q[j] \in S
      BY <2>1, ElementOfSeq
    <3>2. i \in Int /\ Len(q) \in Int
      BY <2>1
    <3> HIDE DEF right
    <3>3. /\ right \in Seq(S)
          /\ Len(right) = IF i + 1 <= Len(q) THEN Len(q) - (i + 1) + 1 ELSE 0
          /\ \A j \in 1 .. Len(q) - (i + 1) + 1 : right[j] = q[i + 1 + j - 1]
      BY <3>1, <3>2, SubSeqProperties DEF right
    <3>4. QED BY <2>1, <3>2, <3>3
  <2> HIDE DEF left, right, r
  <2>8. r \in Seq(S) /\ Len(r) = Len(q) - 1
    <3>1. i \in Nat /\ Len(q) \in Nat
      BY <2>1
    <3>2. left \o right \in Seq(S) /\ Len(left \o right) = Len(left) + Len(right)
      BY <2>6, <2>7, ConcatProperties
    <3>3. QED BY <2>5, <2>6, <2>7, <3>1, <3>2
  <2>9. \A j \in 1 .. Len(r) : r[j] = IF j < i THEN q[j] ELSE q[j + 1]
    <3>1. \A j \in 1 .. Len(left) + Len(right) :
             r[j] = IF j <= Len(left) THEN left[j] ELSE right[j - Len(left)]
      BY <2>5, <2>6, <2>7, ConcatProperties
    <3>2. i \in 1 .. Len(q) /\ Len(q) \in Nat
      BY <2>1
    <3>3. ASSUME NEW j \in 1 .. Len(q) - 1 PROVE r[j] = IF j < i THEN q[j] ELSE q[j + 1]
      <4>1. CASE j < i
        <5>1. j \in 1 .. i - 1 /\ j \in 1 .. Len(left) + Len(right) /\ j <= Len(left)
          BY <2>6, <2>7, <3>2, <4>1
        <5>2. QED BY <2>6, <3>1, <4>1, <5>1
      <4>2. CASE ~ (j < i)
        <5>1. j - (i - 1) \in 1 .. Len(q) - i /\ j \in 1 .. Len(left) + Len(right)
          BY <2>6, <2>7, <3>2, <4>2
        <5>2. r[j] = right[j - (i - 1)]
          BY <2>6, <3>1, <3>2, <4>2, <5>1
        <5>3. right[j - (i - 1)] = q[j - (i - 1) + i]
          BY <2>7, <5>1
        <5>4. j - (i - 1) + i = j + 1
          BY <3>2
        <5>5. QED BY <4>2, <5>2, <5>3, <5>4
      <4>3. QED BY <4>1, <4>2
    <3>4. QED BY <2>8, <3>3
  <2>10. IsInjective(r)
    <3>1. \A a, b \in 1 .. Len(q) : q[a] = q[b] => a = b
      BY DEF IsInjective
    <3>2. i \in 1 .. Len(q) /\ Len(q) \in Nat /\ Len(r) = Len(q) - 1 /\ DOMAIN r = 1 .. Len(r)
      BY <2>1, <2>8
    <3>3. ASSUME NEW a \in 1 .. Len(r), NEW b \in 1 .. Len(r), r[a] = r[b] PROVE a = b
      <4>1. /\ a \in 1 .. Len(q) /\ a + 1 \in 1 .. Len(q)
            /\ b \in 1 .. Len(q) /\ b + 1 \in 1 .. Len(q)
        BY <3>2
      <4>2. /\ r[a] = IF a < i THEN q[a] ELSE q[a + 1]
            /\ r[b] = IF b < i THEN q[b] ELSE q[b + 1]
        BY <2>9
      <4>3. CASE a < i /\ b < i
        BY <3>1, <3>3, <4>1, <4>2, <4>3
      <4>4. CASE ~ (a < i) /\ ~ (b < i)
        <5>1. a + 1 = b + 1
          BY <3>1, <3>3, <4>1, <4>2, <4>4
        <5>2. QED BY <5>1, <3>2
      <4>5. CASE a < i /\ ~ (b < i)
        <5>1. a = b + 1
          BY <3>1, <3>3, <4>1, <4>2, <4>5
        <5>2. QED BY <5>1, <3>2, <4>5
      <4>6. CASE ~ (a < i) /\ b < i
        <5>1. a + 1 = b
          BY <3>1, <3>3, <4>1, <4>2, <4>6
        <5>2. QED BY <5>1, <3>2, <4>6
      <4>7. QED BY <4>3, <4>4, <4>5, <4>6
    <3>4. QED BY <3>2, <3>3 DEF IsInjective
  <2>11. ToSet(r) \subseteq ToSet(q) \ {w}
    <3>1. i \in 1 .. Len(q) /\ Len(q) \in Nat /\ Len(r) = Len(q) - 1
      BY <2>1, <2>8
    <3>2. \A k \in 1 .. Len(q) : k # i => q[k] \in ToSet(q) \ {w}
      BY <2>1 DEF IsInjective, ToSet
    <3>3. ASSUME NEW j \in 1 .. Len(r) PROVE r[j] \in ToSet(q) \ {w}
      <4>1. CASE j < i
        <5>1. j \in 1 .. Len(q) /\ j # i /\ r[j] = q[j]
          BY <2>9, <3>1, <4>1
        <5>2. QED BY <3>2, <5>1
      <4>2. CASE ~ (j < i)
        <5>1. j + 1 \in 1 .. Len(q) /\ j + 1 # i /\ r[j] = q[j + 1]
          BY <2>9, <3>1, <4>2
        <5>2. QED BY <3>2, <5>1
      <4>3. QED BY <4>1, <4>2
    <3>4. DOMAIN r = 1 .. Len(r)
      BY <2>8
    <3>5. QED BY <3>3, <3>4 DEF ToSet
  <2>12. ASSUME NEW x \in ToSet(q) \ {w} PROVE x \in ToSet(r)
    <3>1. PICK k \in 1 .. Len(q) : q[k] = x
      BY DEF ToSet
    <3>2. CASE k < i
      BY <2>1, <2>8, <2>9, <3>1, <3>2 DEF ToSet
    <3>3. CASE k > i
      <4>1. k - 1 \in 1 .. Len(r) /\ r[k - 1] = x
        BY <2>1, <2>8, <2>9, <3>1, <3>3
      <4>2. QED BY <4>1, <2>8 DEF ToSet
    <3>4. QED BY <2>1, <3>1, <3>2, <3>3
  <2>13. QED BY <2>8, <2>10, <2>11, <2>12 DEF r
<1>3. QED BY <1>1, <1>2

(* A concatenation has the elements of both parts.                         *)
LEMMA ToSetConcat ==
    ASSUME NEW S, NEW s \in Seq(S), NEW t \in Seq(S)
    PROVE  ToSet(s \o t) = ToSet(s) \cup ToSet(t)
<1>1. /\ s \o t \in Seq(S) /\ Len(s \o t) = Len(s) + Len(t)
      /\ \A i \in 1 .. Len(s) + Len(t) :
            (s \o t)[i] = IF i <= Len(s) THEN s[i] ELSE t[i - Len(s)]
  BY ConcatProperties
<1>2. Len(s) \in Nat /\ Len(t) \in Nat
  OBVIOUS
<1>3. /\ DOMAIN s = 1 .. Len(s) /\ DOMAIN t = 1 .. Len(t)
      /\ DOMAIN (s \o t) = 1 .. Len(s) + Len(t)
  BY <1>1
<1> DEFINE u == s \o t
<1> HIDE DEF u
<1>4. ToSet(u) \subseteq ToSet(s) \cup ToSet(t)
  <2>1. SUFFICES ASSUME NEW i \in 1 .. Len(s) + Len(t)
                 PROVE  u[i] \in ToSet(s) \cup ToSet(t)
    BY <1>3 DEF ToSet, u
  <2>2. CASE i <= Len(s)
    BY <1>1, <1>2, <1>3, <2>2 DEF ToSet, u
  <2>3. CASE ~ (i <= Len(s))
    <3>1. i - Len(s) \in 1 .. Len(t)
      BY <1>2, <2>3
    <3>2. u[i] = t[i - Len(s)]
      BY <1>1, <2>3 DEF u
    <3>3. QED BY <1>3, <3>1, <3>2 DEF ToSet
  <2>4. QED BY <2>2, <2>3
<1>5. ToSet(s) \subseteq ToSet(u)
  <2>1. SUFFICES ASSUME NEW i \in 1 .. Len(s) PROVE s[i] \in ToSet(u)
    BY <1>3 DEF ToSet
  <2>2. i \in DOMAIN u /\ u[i] = s[i]
    BY <1>1, <1>2, <1>3 DEF u
  <2>3. QED BY <2>2 DEF ToSet
<1>6. ToSet(t) \subseteq ToSet(u)
  <2>1. SUFFICES ASSUME NEW i \in 1 .. Len(t) PROVE t[i] \in ToSet(u)
    BY <1>3 DEF ToSet
  <2>2. i + Len(s) \in 1 .. Len(s) + Len(t) /\ ~ (i + Len(s) <= Len(s)) /\ i + Len(s) - Len(s) = i
    BY <1>2
  <2>3. i + Len(s) \in DOMAIN u /\ u[i + Len(s)] = t[i]
    BY <1>1, <1>3, <2>2 DEF u
  <2>4. QED BY <2>3 DEF ToSet
<1>7. QED BY <1>4, <1>5, <1>6 DEF u

(* The head of one list may as well be the end of the list before it.      *)
LEMMA HeadMoves ==
    ASSUME NEW S, NEW r \in Seq(S), NEW b \in Seq(S), b # <<>>
    PROVE  r \o b = Append(r, Head(b)) \o Tail(b)
<1>1. Head(b) \in S /\ Tail(b) \in Seq(S) /\ <<Head(b)>> \in Seq(S) /\ Head(b) = b[1]
  BY HeadTailProperties
<1>2. b = <<Head(b)>> \o Tail(b)
  <2>1. Len(b) \in Nat \ {0}
    BY EmptySeq
  <2>2. SubSeq(b, 1, Len(b)) = <<b[1]>> \o SubSeq(b, 1 + 1, Len(b))
    BY <2>1, SubSeqRecursiveFirst
  <2>3. QED BY <1>1, <2>2, SubSeqFull, TailIsSubSeq
<1>3. Append(r, Head(b)) = r \o <<Head(b)>>
  BY <1>1, AppendIsConcat
<1> DEFINE h == <<Head(b)>>
           t == Tail(b)
<1> HIDE DEF h, t
<1>4. (r \o h) \o t = r \o (h \o t)
  BY <1>1, ConcatAssociative DEF h, t
<1>5. QED BY <1>2, <1>3, <1>4 DEF h, t

(* When a list begins with another they have the same head, and their tails*)
(* stand in the same relation.                                             *)
LEMMA HeadDrops ==
    ASSUME NEW S, NEW q \in Seq(S), NEW r \in Seq(S), r # <<>>,
           Len(r) <= Len(q), \A i \in 1 .. Len(r) : r[i] = q[i]
    PROVE  /\ q # <<>> /\ Head(r) = Head(q)
           /\ Tail(q) \in Seq(S) /\ Tail(r) \in Seq(S)
           /\ Len(Tail(r)) <= Len(Tail(q))
           /\ \A i \in 1 .. Len(Tail(r)) : Tail(r)[i] = Tail(q)[i]
           /\ \A b \in Seq(S) : q = r \o b => Tail(q) = Tail(r) \o b
<1>1. Len(r) \in Nat \ {0} /\ Len(q) \in Nat
  BY EmptySeq
<1>2. q # <<>>
  BY <1>1
<1>3. Head(r) = Head(q)
  <2>1. Head(r) = r[1] /\ Head(q) = q[1]
    OBVIOUS
  <2>2. QED BY <1>1, <2>1
<1> DEFINE u == Tail(q)
           v == Tail(r)
<1>4. /\ u \in Seq(S) /\ Len(u) = Len(q) - 1 /\ \A i \in 1 .. Len(u) : u[i] = q[i + 1]
      /\ v \in Seq(S) /\ Len(v) = Len(r) - 1 /\ \A i \in 1 .. Len(v) : v[i] = r[i + 1]
  BY <1>2, HeadTailProperties
<1> HIDE DEF u, v
<1>5. Len(v) <= Len(u) /\ \A i \in 1 .. Len(v) : v[i] = u[i]
  <2>1. Len(v) <= Len(u)
    BY <1>1, <1>4
  <2>2. ASSUME NEW i \in 1 .. Len(v) PROVE v[i] = u[i]
    <3>1. i + 1 \in 1 .. Len(r) /\ i \in 1 .. Len(u)
      BY <1>1, <1>4, <2>1
    <3>2. QED BY <1>4, <3>1
  <2>3. QED BY <2>1, <2>2
<1>6. ASSUME NEW b \in Seq(S), q = r \o b PROVE u = v \o b
  <2>1. /\ Len(q) = Len(r) + Len(b) /\ Len(b) \in Nat
        /\ \A i \in 1 .. Len(r) + Len(b) : q[i] = IF i <= Len(r) THEN r[i] ELSE b[i - Len(r)]
    BY <1>6, ConcatProperties
  <2> DEFINE x == v \o b
  <2>2. /\ x \in Seq(S) /\ Len(x) = Len(v) + Len(b)
        /\ \A i \in 1 .. Len(v) + Len(b) : x[i] = IF i <= Len(v) THEN v[i] ELSE b[i - Len(v)]
    BY <1>4, ConcatProperties
  <2> HIDE DEF x
  <2>3. Len(u) = Len(x)
    BY <1>1, <1>4, <2>1, <2>2
  <2>4. ASSUME NEW i \in 1 .. Len(u) PROVE u[i] = x[i]
    <3>1. /\ u[i] = q[i + 1] /\ i + 1 \in 1 .. Len(r) + Len(b) /\ i \in 1 .. Len(v) + Len(b)
      BY <1>1, <1>4, <2>1
    <3>2. CASE i <= Len(v)
      <4>1. i + 1 <= Len(r) /\ i \in 1 .. Len(v)
        BY <1>1, <1>4, <3>2
      <4>2. QED BY <1>4, <2>1, <2>2, <3>1, <3>2, <4>1
    <3>3. CASE ~ (i <= Len(v))
      <4>1. ~ (i + 1 <= Len(r)) /\ i + 1 - Len(r) = i - Len(v)
        BY <1>1, <1>4, <3>3
      <4>2. q[i + 1] = b[i + 1 - Len(r)]
        BY <2>1, <3>1, <4>1
      <4>3. x[i] = b[i - Len(v)]
        BY <2>2, <3>1, <3>3
      <4>4. QED BY <3>1, <4>1, <4>2, <4>3
    <3>4. QED BY <3>2, <3>3
  <2>5. QED BY <1>4, <2>2, <2>3, <2>4, SeqEqual DEF x
<1>7. QED BY <1>2, <1>3, <1>4, <1>5, <1>6 DEF u, v

(***************************************************************************)
(* Setups, and which module is the next.                                   *)
(***************************************************************************)

(* What the assumptions on a setup say of its workers and modules.         *)
LEMMA SetupFacts ==
    ASSUME setup \in Setups
    PROVE  /\ Len(setup.workers) \in Nat /\ Worker = 1 .. Len(setup.workers)
           /\ \A m \in Module : /\ setup.modules[m].tests \in Seq(Test) /\ Tests(m) \subseteq Test
                                /\ setup.modules[m].tests # <<>>
                                /\ IsInjective(setup.modules[m].tests)
                                /\ Tests(m) \cap InfraTests = {}
                                /\ NodesOf(m) \subseteq Worker
           /\ \A m, n \in Module : m # n => Tests(m) \cap Tests(n) = {}
           /\ \A w \in Worker : Devices(w) \subseteq Device
<1>1. TestbedsAssumption(setup) /\ ModulesAssumption(setup)
  BY SetupsAssumption
<1>2. Len(setup.workers) \in Nat /\ Worker = 1 .. Len(setup.workers)
  BY <1>1 DEF TestbedsAssumption, Worker
<1>3. ASSUME NEW m \in Module
      PROVE  /\ setup.modules[m].tests \in Seq(Test) /\ Tests(m) \subseteq Test
             /\ setup.modules[m].tests # <<>>
             /\ IsInjective(setup.modules[m].tests)
             /\ Tests(m) \cap InfraTests = {}
             /\ NodesOf(m) \subseteq Worker
  <2>1. Tests(m) \subseteq Test
    BY DEF Test
  <2>2. setup.modules[m].tests \in Seq(Tests(m))
    BY <1>1 DEF ModulesAssumption, Module, Tests
  <2>3. setup.modules[m].tests \in Seq(Test)
    BY <2>1, <2>2, SeqMonotonic
  <2>4. /\ setup.modules[m].tests # <<>>
        /\ IsInjective(setup.modules[m].tests)
        /\ Tests(m) \cap InfraTests = {}
        /\ setup.modules[m].fits \subseteq Worker
    BY <1>1 DEF ModulesAssumption, Module, Tests, Worker
  <2>5. NodesOf(m) \subseteq Worker
    BY <2>4 DEF NodesOf, Matching, Larger, WholeBed
  <2>6. QED BY <2>1, <2>3, <2>4, <2>5
<1>4. ASSUME NEW m \in Module, NEW n \in Module, m # n PROVE Tests(m) \cap Tests(n) = {}
  BY <1>1, <1>4 DEF ModulesAssumption, Module, Tests
<1>5. \A w \in Worker : Devices(w) \subseteq Device
  BY DEF Device
<1>6. QED BY <1>2, <1>3, <1>4, <1>5

(* Among modules one comes first: of the highest order, and of those the   *)
(* one collected first. So the choice of AssignTest is not void.           *)
LEMMA BestExists ==
    ASSUME setup \in Setups, NEW T, T \subseteq Module, T # {}
    PROVE  \E m \in T : \A n \in T \ {m} : Before(m, n)
<1> DEFINE N == Len(setup.modules)
           O(m) == setup.modules[m].order
           U(k) == T \cap 1 .. k
           Best(X) == \E m \in X : \A n \in X \ {m} : Before(m, n)
           S == {k \in 0 .. N : U(k) = {} \/ Best(U(k))}
<1>1. N \in Nat
  BY SetupsAssumption DEF ModulesAssumption
<1>2. Module = 1 .. N /\ \A m \in Module : O(m) \in Int
  BY SetupsAssumption DEF ModulesAssumption, Module, ModulesOf
<1>3. \A m, n : Before(m, n) <=> O(m) > O(n) \/ (O(m) = O(n) /\ m < n)
  BY DEF Before
<1> HIDE DEF O
<1>4. 0 \in S
  BY <1>1
<1>5. ASSUME NEW k \in 1 .. N, k - 1 \in S PROVE k \in S
  <2>1. k \in 0 .. N /\ (U(k - 1) = {} \/ Best(U(k - 1)))
    BY <1>1, <1>5
  <2>2. U(k) = {} \/ Best(U(k))
    <3>1. CASE k \notin T
      <4>1. U(k) = U(k - 1)
        BY <1>1, <3>1
      <4> HIDE DEF U
      <4>2. QED BY <2>1, <4>1
    <3>2. CASE k \in T /\ U(k - 1) = {}
      <4>1. U(k) = {k}
        BY <1>1, <3>2
      <4> HIDE DEF U
      <4>2. QED BY <4>1
    <3>3. CASE k \in T /\ Best(U(k - 1))
      <4>1. PICK m \in U(k - 1) : \A n \in U(k - 1) \ {m} : Before(m, n)
        BY <3>3
      <4>2. k \in Module /\ m \in Module /\ m < k /\ k \in Nat /\ m \in Nat
        BY <1>1, <1>2, <4>1
      <4>3. \A n \in U(k) : n \in Module /\ n \in Nat /\ n <= k /\ (n = k \/ n \in U(k - 1))
        BY <1>1, <1>2
      <4>4. k \in U(k) /\ m \in U(k)
        BY <3>3, <4>1, <4>2
      <4> HIDE DEF U
      <4>5. CASE O(k) > O(m)
        <5>1. \A n \in U(k) \ {k} : Before(k, n)
          BY <1>2, <1>3, <4>1, <4>2, <4>3, <4>5
        <5>2. QED BY <4>4, <5>1
      <4>6. CASE ~ (O(k) > O(m))
        <5>1. \A n \in U(k) \ {m} : Before(m, n)
          BY <1>2, <1>3, <4>1, <4>2, <4>3, <4>6
        <5>2. QED BY <4>4, <5>1
      <4>7. QED BY <4>5, <4>6
    <3>4. QED BY <2>1, <3>1, <3>2, <3>3
  <2> HIDE DEF U, Best
  <2>3. QED BY <2>1, <2>2
<1>6. N \in S
  <2> HIDE DEF S, N
  <2>1. QED BY <1>1, <1>4, <1>5, Induct
<1>7. U(N) = T
  BY <1>2
<1>8. Best(T)
  <2> HIDE DEF U, Best
  <2>1. U(N) = {} \/ Best(U(N))
    BY <1>6
  <2>2. QED BY <1>7, <2>1
<1>9. QED BY <1>8

(***************************************************************************)
(* The parts of the inductive invariant that speak of tests, for any data d*)
(* and processes P. F are workers that are ending: their tests are still to*)
(* be reported.                                                            *)
(***************************************************************************)

(* A list has no test twice, those that prepare the devices apart.         *)
OnceIn(q) == \A i, j \in DOMAIN q : q[i] = q[j] /\ q[i] \notin InfraTests => i = j

(* Where a module's test is: nowhere while the module is pending, then in  *)
(* exactly one node's list until it was run or reported.                   *)
Placed(d) == \A m \in Module : \A t \in Tests(m) :
    /\ m \in d.main => t \notin d.ran \cup d.nes /\ \A w \in Worker : t \notin ToSet(d.queue[w])
    /\ m \notin d.main => t \in d.ran \cup d.nes \/ \E w \in Worker : t \in ToSet(d.queue[w])
    /\ t \in d.ran => \A w \in Worker : t \notin ToSet(d.queue[w])
    /\ \A v, w \in Worker : t \in ToSet(d.queue[v]) /\ t \in ToSet(d.queue[w]) => v = w

(* No node has a test twice.                                               *)
Once(d) == \A w \in Worker : OnceIn(d.queue[w])

(* A worker that is started and has not ended.                             *)
HeldBy(d, w) == w \in d.started /\ d.completed[w] = "False"

(* There is nothing to run for a worker, or it is excluded.                *)
Nothing(d, w) == Pending(d, w) = {} \/ d.excluded[w] # 0

(* The applicable workers include those that a pending module waits for.   *)
(* UpdateApplicable makes them the same, and pending modules only get      *)
(* fewer.                                                                  *)
Noted(d) == \A w \in Worker : d.completed[w] # "None" /\ Pending(d, w) # {} => w \in d.applicable

(* A worker that has ended is left with no test that was not reported, and *)
(* one that has not started has no tests.                                  *)
Ended(d, F) == \A w \in Worker :
    /\ w \notin F /\ d.completed[w] # "False" => ToSet(d.queue[w]) \ InfraTests \subseteq d.nes
    /\ w \notin d.started => d.queue[w] = <<>>

(* The controller's list of a node's tests begins with those it has not    *)
(* heard of yet, then come those its process has still to run; a process   *)
(* that has tests to run belongs to a worker that is started and has not   *)
(* ended.                                                                  *)
InStep(d, P) == \A w \in Worker :
    /\ Len(P[w].reports) <= Len(d.queue[w])
    /\ \A i \in 1 .. Len(P[w].reports) : P[w].reports[i] = d.queue[w][i]
    /\ P[w].phase = "run" => d.queue[w] = P[w].reports \o d.inbox[w]
    /\ P[w].phase = "run" /\ d.inbox[w] # <<>> => HeldBy(d, w)

(* A worker finishes well, is told to shut down, or leaves, only when there*)
(* is nothing for it.                                                      *)
Left(d, P) == \A w \in Worker :
    \/ d.completed[w] = "True"
    \/ w \in d.shut /\ P[w].phase \in {"run", "done"}
    \/ P[w].phase = "gone"
    => Nothing(d, w)

(* All of it.                                                              *)
TestsInv(d, P, F) ==
    Placed(d) /\ Once(d) /\ Ended(d, F) /\ InStep(d, P) /\ Left(d, P)

(***************************************************************************)
(* Sending tests to a node.                                                *)
(***************************************************************************)

(* Nobody starts or ends, and no device changes hands.                     *)
SameHolders(d, e) ==
    /\ e.started = d.started /\ e.completed = d.completed /\ e.excluded = d.excluded
    /\ e.errored = d.errored /\ e.free = d.free /\ e.out = d.out /\ e.nodes = d.nodes

(* Lists that share no test may be joined.                                 *)
LEMMA OnceConcat ==
    ASSUME NEW S, NEW q \in Seq(S), NEW X \in Seq(S), OnceIn(q), OnceIn(X),
           ToSet(q) \cap ToSet(X) \subseteq InfraTests
    PROVE  OnceIn(q \o X)
<1> DEFINE u == q \o X
<1>1. /\ u \in Seq(S) /\ Len(u) = Len(q) + Len(X)
      /\ \A i \in 1 .. Len(q) + Len(X) : u[i] = IF i <= Len(q) THEN q[i] ELSE X[i - Len(q)]
  BY ConcatProperties
<1> HIDE DEF u
<1>2. Len(q) \in Nat /\ Len(X) \in Nat
  OBVIOUS
<1>3. DOMAIN q = 1 .. Len(q) /\ DOMAIN X = 1 .. Len(X) /\ DOMAIN u = 1 .. Len(u)
  BY <1>1
<1>4. SUFFICES ASSUME NEW i \in 1 .. Len(u), NEW j \in 1 .. Len(u),
                      u[i] = u[j], u[i] \notin InfraTests, i < j
               PROVE  FALSE
  BY <1>1, <1>2, <1>3 DEF OnceIn, u
<1>5. CASE j <= Len(q)
  <2>1. i \in DOMAIN q /\ j \in DOMAIN q /\ q[i] = q[j] /\ q[i] \notin InfraTests
    BY <1>1, <1>2, <1>3, <1>4, <1>5
  <2>2. i = j
    BY <2>1 DEF OnceIn
  <2>3. QED BY <2>2, <1>4
<1>6. CASE i > Len(q)
  <2>1. i - Len(q) \in DOMAIN X /\ j - Len(q) \in DOMAIN X
    BY <1>1, <1>2, <1>3, <1>4, <1>6
  <2>2. u[i] = X[i - Len(q)] /\ u[j] = X[j - Len(q)]
    BY <1>1, <1>2, <1>4, <1>6
  <2>3. i - Len(q) = j - Len(q)
    BY <1>4, <2>1, <2>2 DEF OnceIn
  <2>4. QED BY <2>3, <1>2, <1>4
<1>7. CASE i <= Len(q) /\ j > Len(q)
  <2>1. i \in DOMAIN q /\ j - Len(q) \in DOMAIN X
    BY <1>1, <1>2, <1>3, <1>4, <1>7
  <2>2. u[i] = q[i] /\ u[j] = X[j - Len(q)]
    BY <1>1, <1>2, <1>4, <1>7
  <2>3. u[i] \in ToSet(q) \cap ToSet(X)
    BY <1>4, <2>1, <2>2 DEF ToSet
  <2>4. QED BY <2>3, <1>4
<1>8. QED BY <1>2, <1>4, <1>5, <1>6, <1>7

(* The head of a list does not come again.                                 *)
LEMMA OnceTail ==
    ASSUME NEW S, NEW q \in Seq(S), q # <<>>, OnceIn(q)
    PROVE  /\ OnceIn(Tail(q)) /\ ToSet(q) = ToSet(Tail(q)) \cup {Head(q)}
           /\ Head(q) \in InfraTests \/ Head(q) \notin ToSet(Tail(q))
<1> DEFINE u == Tail(q)
<1>1. /\ u \in Seq(S) /\ Len(u) = Len(q) - 1
      /\ \A i \in 1 .. Len(u) : u[i] = q[i + 1]
  BY HeadTailProperties
<1>2. Head(q) = q[1] /\ Len(q) \in Nat \ {0}
  BY EmptySeq
<1> HIDE DEF u
<1>3. DOMAIN q = 1 .. Len(q) /\ DOMAIN u = 1 .. Len(u)
  BY <1>1
<1>4. OnceIn(u)
  <2>1. SUFFICES ASSUME NEW i \in 1 .. Len(u), NEW j \in 1 .. Len(u),
                        u[i] = u[j], u[i] \notin InfraTests
                 PROVE  i = j
    BY <1>3 DEF OnceIn
  <2>2. /\ i + 1 \in DOMAIN q /\ j + 1 \in DOMAIN q
        /\ q[i + 1] = q[j + 1] /\ q[i + 1] \notin InfraTests
    BY <1>1, <1>2, <1>3, <2>1
  <2>3. i + 1 = j + 1
    BY <2>2 DEF OnceIn
  <2>4. QED BY <2>3
<1>5. ToSet(q) \subseteq ToSet(u) \cup {q[1]}
  <2>1. SUFFICES ASSUME NEW i \in 1 .. Len(q) PROVE q[i] \in ToSet(u) \cup {q[1]}
    BY <1>3 DEF ToSet
  <2>2. CASE i # 1
    <3>1. i - 1 \in DOMAIN u /\ u[i - 1] = q[i - 1 + 1] /\ i - 1 + 1 = i
      BY <1>1, <1>2, <1>3, <2>2
    <3>2. QED BY <3>1 DEF ToSet
  <2>3. QED BY <2>2
<1>6. ToSet(u) \cup {q[1]} \subseteq ToSet(q)
  <2>1. q[1] \in ToSet(q)
    BY <1>2, <1>3 DEF ToSet
  <2>2. ASSUME NEW i \in 1 .. Len(u) PROVE u[i] \in ToSet(q)
    <3>1. i + 1 \in DOMAIN q
      BY <1>1, <1>2, <1>3
    <3>2. QED BY <1>1, <3>1 DEF ToSet
  <2>3. QED BY <1>3, <2>1, <2>2 DEF ToSet
<1>7. q[1] \in InfraTests \/ q[1] \notin ToSet(u)
  <2>1. SUFFICES ASSUME NEW i \in 1 .. Len(u), q[1] = u[i], q[1] \notin InfraTests PROVE FALSE
    BY <1>3 DEF ToSet
  <2>2. 1 \in DOMAIN q /\ i + 1 \in DOMAIN q /\ q[1] = q[i + 1]
    BY <1>1, <1>2, <1>3, <2>1
  <2>3. i + 1 = 1
    BY <2>1, <2>2 DEF OnceIn
  <2>4. QED BY <2>3
<1>8. QED BY <1>2, <1>4, <1>5, <1>6, <1>7 DEF u

(* The tests that are sent for a module are its tests and perhaps the one  *)
(* that ends it.                                                           *)
LEMMA ModuleTests ==
    ASSUME setup \in Setups, NEW m \in Module, NEW last \in {<<InfraLast>>, <<>>}
    PROVE  LET X == setup.modules[m].tests \o last IN
           /\ X \in Seq(Test) /\ X # <<>> /\ OnceIn(X) /\ ToSet(X) \ InfraTests = Tests(m)
<1> DEFINE q == setup.modules[m].tests
           X == q \o last
<1>1. /\ q \in Seq(Test) /\ q # <<>> /\ IsInjective(q) /\ ToSet(q) = Tests(m)
      /\ ToSet(q) \cap InfraTests = {}
  BY SetupFacts DEF Tests
<1>2. last \in Seq(Test) /\ Len(last) \in 0 .. 1 /\ \A i \in 1 .. Len(last) : last[i] \in InfraTests
  <2>1. InfraLast \in InfraTests /\ InfraLast \in Test
    BY DEF Test, InfraTests
  <2>2. CASE last = <<>>
    BY <2>2
  <2>3. CASE last = <<InfraLast>>
    BY <2>1, <2>3
  <2>4. QED BY <2>2, <2>3
<1>3. ToSet(last) \subseteq InfraTests
  BY <1>2 DEF ToSet
<1> HIDE DEF q
<1>4. X \in Seq(Test) /\ Len(X) = Len(q) + Len(last) /\ Len(q) \in Nat
  BY <1>1, <1>2, ConcatProperties
<1>5. \A i \in 1 .. Len(q) + Len(last) : X[i] = IF i <= Len(q) THEN q[i] ELSE last[i - Len(q)]
  BY <1>1, <1>2, ConcatProperties
<1>6. X # <<>>
  BY <1>1, <1>2, ConcatSimplifications
<1>7. ToSet(X) = ToSet(q) \cup ToSet(last)
  BY <1>1, <1>2, ToSetConcat
<1> HIDE DEF X
<1>8. OnceIn(X)
  <2>1. SUFFICES ASSUME NEW i \in 1 .. Len(X), NEW j \in 1 .. Len(X),
                        X[i] = X[j], X[i] \notin InfraTests
                 PROVE  i = j
    BY <1>4 DEF OnceIn
  <2>2. \A k \in 1 .. Len(X) : X[k] \notin InfraTests => k \in 1 .. Len(q) /\ X[k] = q[k]
    <3>1. SUFFICES ASSUME NEW k \in 1 .. Len(X), X[k] \notin InfraTests
                   PROVE k \in 1 .. Len(q) /\ X[k] = q[k]
      OBVIOUS
    <3>2. CASE k <= Len(q)
      BY <1>4, <1>5, <3>2
    <3>3. CASE ~ (k <= Len(q))
      <4>1. k - Len(q) \in 1 .. Len(last)
        BY <1>4, <1>2, <3>3
      <4>2. X[k] = last[k - Len(q)]
        BY <1>4, <1>5, <3>3
      <4>3. QED BY <1>2, <3>1, <4>1, <4>2
    <3>4. QED BY <3>2, <3>3
  <2>3. i \in DOMAIN q /\ j \in DOMAIN q /\ q[i] = q[j]
    BY <1>1, <2>1, <2>2
  <2>4. QED BY <1>1, <2>3 DEF IsInjective
<1>9. QED BY <1>1, <1>3, <1>4, <1>6, <1>7, <1>8 DEF X, q

(* A node's list grows by X, and nothing else of it changes.               *)
Added(d, e, w, X) ==
    /\ X \in Seq(Test) /\ e.queue = [d.queue EXCEPT ![w] = d.queue[w] \o X]
    /\ SameHolders(d, e) /\ e.inbox = d.inbox /\ e.shut = d.shut
    /\ e.ran = d.ran /\ e.nes = d.nes /\ e.applicable = d.applicable

(* The first tests sent to a node.                                         *)
AddsInfra(d, e, w) ==
    \E X \in Seq(Test) :
        /\ Added(d, e, w, X) /\ e.main = d.main
        /\ w \in d.infra /\ e.infra = d.infra \ {w} /\ Len(X) = 2 /\ ToSet(X) \subseteq InfraTests

(* The tests of a module that is pending for the node, no longer pending   *)
(* then.                                                                   *)
AddsModule(d, e, w) ==
    \E X \in Seq(Test) : \E m \in Pending(d, w) :
        /\ Added(d, e, w, X) /\ e.main = d.main \ {m}
        /\ w \notin d.infra /\ e.infra = d.infra /\ X # <<>>
        /\ OnceIn(X) /\ ToSet(X) \ InfraTests = Tests(m)

(* assign_test does one or the other when a module is pending.             *)
LEMMA AssignTestAdds ==
    ASSUME setup \in Setups, NEW d \in Data, NEW w \in Worker, Pending(d, w) # {}
    PROVE  LET e == AssignTest(d, w) IN e \in Data /\ (AddsInfra(d, e, w) \/ AddsModule(d, e, w))
<1> DEFINE e == AssignTest(d, w)
<1>1. d.queue[w] \in Seq(Test)
  BY DEF Data
<1>2. CASE w \in d.infra
  <2> DEFINE X == <<InfraFirst, InfraSecond>>
  <2>1. X \in Seq(Test) /\ Len(X) = 2 /\ ToSet(X) \subseteq InfraTests
    BY DEF Test, InfraTests, ToSet
  <2>2. e = [d EXCEPT !.infra = @ \ {w}, !.queue[w] = @ \o X]
    BY <1>2 DEF AssignTest
  <2>3. d.queue[w] \o X \in Seq(Test)
    BY <1>1, <2>1, ConcatProperties
  <2> HIDE DEF X, e
  <2>4. e \in Data /\ e.main = d.main /\ e.infra = d.infra \ {w}
    BY <2>2, <2>3 DEF Data
  <2>5. Added(d, e, w, X)
    BY <2>1, <2>2 DEF Data, Added, SameHolders
  <2>6. AddsInfra(d, e, w)
    BY <1>2, <2>1, <2>4, <2>5 DEF AddsInfra
  <2>7. QED BY <2>4, <2>6 DEF e
<1>3. CASE w \notin d.infra
  <2> DEFINE m == CHOOSE m \in Pending(d, w) : \A n \in Pending(d, w) \ {m} : Before(m, n)
             last == IF setup.infra THEN <<InfraLast>> ELSE <<>>
             X == setup.modules[m].tests \o last
  <2>1. m \in Pending(d, w)
    <3>1. Pending(d, w) \subseteq Module
      BY DEF Pending, Data
    <3>2. \E n \in Pending(d, w) : \A k \in Pending(d, w) \ {n} : Before(n, k)
      BY <3>1, BestExists
    <3>3. QED BY <3>2
  <2>2. m \in Module
    BY <2>1 DEF Pending, Data
  <2>3. e = [d EXCEPT !.main = @ \ {m}, !.queue[w] = (@ \o setup.modules[m].tests) \o last]
    BY <1>3 DEF AssignTest
  <2>4. last \in {<<InfraLast>>, <<>>} /\ last \in Seq(Test)
    <3>1. InfraLast \in Test
      BY DEF Test, InfraTests
    <3> HIDE DEF m
    <3>2. last = <<InfraLast>> \/ last = <<>>
      OBVIOUS
    <3> HIDE DEF last
    <3>3. CASE last = <<>>
      BY <3>3
    <3>4. CASE last = <<InfraLast>>
      BY <3>1, <3>4
    <3>5. QED BY <3>2, <3>3, <3>4
  <2> HIDE DEF m, last, e
  <2>5. /\ X \in Seq(Test) /\ X # <<>> /\ OnceIn(X) /\ ToSet(X) \ InfraTests = Tests(m)
    BY <2>2, <2>4, ModuleTests
  <2>6. (d.queue[w] \o setup.modules[m].tests) \o last = d.queue[w] \o X
    <3> DEFINE p == d.queue[w]
               q == setup.modules[m].tests
    <3>1. p \in Seq(Test) /\ q \in Seq(Test) /\ last \in Seq(Test)
      BY <1>1, <2>2, <2>4, SetupFacts
    <3> HIDE DEF p, q
    <3>2. (p \o q) \o last = p \o (q \o last)
      BY <3>1, ConcatAssociative
    <3>3. QED BY <3>2 DEF p, q
  <2>7. d.queue[w] \o X \in Seq(Test)
    BY <1>1, <2>5, ConcatProperties
  <2> HIDE DEF X
  <2>8. /\ e.main = d.main \ {m} /\ e.infra = d.infra
        /\ e.queue = [d.queue EXCEPT ![w] = (d.queue[w] \o setup.modules[m].tests) \o last]
        /\ SameHolders(d, e) /\ e.inbox = d.inbox /\ e.shut = d.shut
        /\ e.ran = d.ran /\ e.nes = d.nes /\ e.applicable = d.applicable
    BY <2>3 DEF Data, SameHolders
  <2>9. e \in Data
    <3>1. (d.queue[w] \o setup.modules[m].tests) \o last \in Seq(Test)
      BY <2>6, <2>7
    <3>2. QED BY <2>3, <3>1 DEF Data
  <2>10. Added(d, e, w, X)
    BY <2>5, <2>6, <2>8 DEF Added
  <2>11. AddsModule(d, e, w)
    BY <1>3, <2>1, <2>5, <2>8, <2>10 DEF AddsModule
  <2>12. QED BY <2>9, <2>11 DEF e
<1>4. QED BY <1>2, <1>3

(* Either way every test is where it should be.                            *)
LEMMA AddingKeeps ==
    ASSUME setup \in Setups, NEW d \in Data, NEW e \in Data, NEW w \in Worker,
           AddsInfra(d, e, w) \/ AddsModule(d, e, w), Placed(d), Once(d)
    PROVE  Placed(e) /\ Once(e) /\ e.main \subseteq d.main
<1>1. PICK X \in Seq(Test) :
         /\ Added(d, e, w, X)
         /\ \/ e.main = d.main /\ ToSet(X) \subseteq InfraTests
            \/ \E m \in d.main : /\ e.main = d.main \ {m} /\ OnceIn(X)
                                 /\ ToSet(X) \ InfraTests = Tests(m)
  BY DEF AddsInfra, AddsModule, Pending
<1>2. /\ d.queue[w] \in Seq(Test)
      /\ \A v \in Worker : e.queue[v] = IF v = w THEN d.queue[w] \o X ELSE d.queue[v]
      /\ e.ran = d.ran /\ e.nes = d.nes /\ d.main \subseteq Module
  BY <1>1 DEF Added, Data
<1>3. \A v \in Worker : ToSet(e.queue[v]) = ToSet(d.queue[v]) \cup (IF v = w THEN ToSet(X) ELSE {})
  BY <1>1, <1>2, ToSetConcat
<1>4. \A m \in Module : Tests(m) \cap InfraTests = {}
  BY SetupFacts
<1>5. \A m, n \in Module : m # n => Tests(m) \cap Tests(n) = {}
  BY SetupFacts
<1>6. CASE e.main = d.main /\ ToSet(X) \subseteq InfraTests
  <2>1. \A m \in Module : \A t \in Tests(m) : \A v \in Worker :
           t \in ToSet(e.queue[v]) <=> t \in ToSet(d.queue[v])
    BY <1>3, <1>4, <1>6
  <2>2. Placed(e)
    BY <1>2, <1>6, <2>1 DEF Placed
  <2>3. Once(e)
    <3>1. OnceIn(d.queue[w] \o X)
      BY <1>2, <1>6, OnceConcat DEF Once, OnceIn, ToSet
    <3>2. QED BY <1>2, <3>1 DEF Once
  <2>4. QED BY <1>6, <2>2, <2>3
<1>7. ASSUME NEW m \in d.main, e.main = d.main \ {m}, OnceIn(X), ToSet(X) \ InfraTests = Tests(m)
      PROVE  Placed(e) /\ Once(e) /\ e.main \subseteq d.main
  <2>1. \A n \in Module : \A t \in Tests(n) : \A v \in Worker :
           t \in ToSet(e.queue[v]) <=> t \in ToSet(d.queue[v]) \/ (v = w /\ n = m)
    BY <1>2, <1>3, <1>4, <1>5, <1>7
  <2>2. \A t \in Tests(m) : \A v \in Worker : t \notin ToSet(d.queue[v]) /\ t \notin d.ran
    BY <1>2, <1>7 DEF Placed
  <2>3. Placed(e)
    BY <1>2, <1>7, <2>1, <2>2 DEF Placed
  <2>4. ToSet(d.queue[w]) \cap ToSet(X) \subseteq InfraTests
    BY <1>7, <2>2
  <2>5. OnceIn(d.queue[w] \o X)
    BY <1>2, <1>7, <2>4, OnceConcat DEF Once
  <2>6. Once(e)
    BY <1>2, <2>5 DEF Once
  <2>7. QED BY <1>7, <2>3, <2>6
<1>8. QED BY <1>1, <1>6, <1>7

(* A node's list has grown and every test is where it should be.           *)
Grown(d, e, w) ==
    /\ e \in Data /\ Placed(e) /\ Once(e) /\ e.main \subseteq d.main
    /\ \E X : Added(d, e, w, X)

(* A node with fewer than two tests gets some, unless nothing is pending   *)
(* for it.                                                                 *)
LEMMA AssignMoreGrows ==
    ASSUME setup \in Setups, NEW d \in Data, NEW w \in Worker, Placed(d), Once(d)
    PROVE  LET e == AssignMore(d, w) IN
           /\ Grown(d, e, w)
           /\ \/ Pending(d, w) = {} /\ e = d
              \/ Len(e.queue[w]) >= 2
              \/ Len(d.queue[w]) < Len(e.queue[w])
<1> DEFINE e == AssignMore(d, w)
<1>1. d.queue[w] \in Seq(Test)
  BY DEF Data
<1>2. Grown(d, d, w)
  <2>1. d.queue[w] \o <<>> = d.queue[w] /\ <<>> \in Seq(Test)
    BY <1>1, ConcatEmptySeq
  <2>2. d.queue = [d.queue EXCEPT ![w] = d.queue[w]]
    BY DEF Data
  <2>3. d.queue = [d.queue EXCEPT ![w] = d.queue[w] \o <<>>]
    BY <2>1, <2>2
  <2>4. Added(d, d, w, <<>>)
    BY <2>1, <2>3 DEF Added, SameHolders
  <2>5. QED BY <2>4 DEF Grown
<1>3. CASE Len(d.queue[w]) >= 2
  BY <1>2, <1>3 DEF AssignMore
<1>4. CASE ~ (Len(d.queue[w]) >= 2) /\ Pending(d, w) = {}
  BY <1>2, <1>4 DEF AssignMore, AssignTest
<1>5. CASE ~ (Len(d.queue[w]) >= 2) /\ Pending(d, w) # {}
  <2>1. e = AssignTest(d, w)
    BY <1>5 DEF AssignMore
  <2> HIDE DEF e
  <2>2. e \in Data /\ (AddsInfra(d, e, w) \/ AddsModule(d, e, w))
    BY <1>5, <2>1, AssignTestAdds
  <2>3. Placed(e) /\ Once(e) /\ e.main \subseteq d.main
    BY <2>2, AddingKeeps
  <2>4. PICK X \in Seq(Test) : Added(d, e, w, X) /\ X # <<>>
    <3>1. \A X \in Seq(Test) : Len(X) = 2 => X # <<>>
      OBVIOUS
    <3>2. QED BY <2>2, <3>1 DEF AddsInfra, AddsModule
  <2>5. Grown(d, e, w)
    BY <2>2, <2>3, <2>4 DEF Grown
  <2>6. e.queue[w] = d.queue[w] \o X
    BY <2>4 DEF Added, Data
  <2>7. /\ Len(e.queue[w]) = Len(d.queue[w]) + Len(X)
        /\ Len(X) \in Nat \ {0} /\ Len(d.queue[w]) \in Nat
    BY <1>1, <2>4, <2>6, ConcatProperties, EmptySeq
  <2>8. Len(d.queue[w]) < Len(e.queue[w])
    BY <2>4, <2>7
  <2>9. QED BY <2>5, <2>8 DEF e
<1>6. QED BY <1>3, <1>4, <1>5

(* To grow twice is to grow.                                               *)
LEMMA GrownTwice ==
    ASSUME NEW d \in Data, NEW e \in Data, NEW f \in Data, NEW w \in Worker,
           Grown(d, e, w), Grown(e, f, w)
    PROVE  Grown(d, f, w)
<1>1. PICK X : Added(d, e, w, X)
  BY DEF Grown
<1>2. PICK Y : Added(e, f, w, Y)
  BY DEF Grown
<1>3. d.queue[w] \in Seq(Test) /\ X \in Seq(Test) /\ Y \in Seq(Test)
  BY <1>1, <1>2 DEF Data, Added
<1>4. X \o Y \in Seq(Test) /\ (d.queue[w] \o X) \o Y = d.queue[w] \o (X \o Y)
  <2> DEFINE p == d.queue[w]
  <2>1. p \in Seq(Test)
    BY <1>3
  <2> HIDE DEF p
  <2>2. (p \o X) \o Y = p \o (X \o Y)
    BY <1>3, <2>1, ConcatAssociative
  <2>3. X \o Y \in Seq(Test)
    BY <1>3, ConcatProperties
  <2>4. QED BY <2>2, <2>3 DEF p
<1>5. f.queue = [d.queue EXCEPT ![w] = (d.queue[w] \o X) \o Y]
  BY <1>1, <1>2 DEF Added, Data
<1>6. Added(d, f, w, X \o Y)
  BY <1>1, <1>2, <1>4, <1>5 DEF Added, SameHolders
<1>7. QED BY <1>6 DEF Grown

(* After the second time a node has two tests or nothing is pending.       *)
LEMMA AssignTwice ==
    ASSUME setup \in Setups, NEW d \in Data, NEW w \in Worker, Placed(d), Once(d)
    PROVE  LET e == AssignMore(AssignMore(d, w), w) IN
           Grown(d, e, w) /\ (Len(e.queue[w]) >= 2 \/ Pending(e, w) = {})
<1> DEFINE e1 == AssignMore(d, w)
           e == AssignMore(e1, w)
<1>1. /\ Grown(d, e1, w)
      /\ \/ Pending(d, w) = {} /\ e1 = d
         \/ Len(e1.queue[w]) >= 2
         \/ Len(d.queue[w]) < Len(e1.queue[w])
  BY AssignMoreGrows
<1> HIDE DEF e1
<1>2. e1 \in Data /\ Placed(e1) /\ Once(e1)
  BY <1>1 DEF Grown
<1>3. /\ Grown(e1, e, w)
      /\ \/ Pending(e1, w) = {} /\ e = e1
         \/ Len(e.queue[w]) >= 2
         \/ Len(e1.queue[w]) < Len(e.queue[w])
  BY <1>2, AssignMoreGrows
<1> HIDE DEF e
<1>4. Grown(d, e, w)
  <2>1. e \in Data
    BY <1>3 DEF Grown
  <2>2. QED BY <1>1, <1>2, <1>3, <2>1, GrownTwice
<1>5. Len(d.queue[w]) \in Nat /\ Len(e1.queue[w]) \in Nat /\ Len(e.queue[w]) \in Nat
  BY <1>2, <1>3 DEF Data, Grown
<1>6. Len(e.queue[w]) >= 2 \/ Pending(e, w) = {}
  <2>1. CASE Len(e1.queue[w]) < Len(e.queue[w])
    <3>1. CASE Len(e1.queue[w]) >= 2 \/ Len(d.queue[w]) < Len(e1.queue[w])
      BY <1>5, <2>1, <3>1
    <3>2. CASE Pending(d, w) = {} /\ e1 = d
      <4>1. Pending(e, w) = {}
        BY <1>3, <3>2 DEF Grown, Pending
      <4>2. QED BY <4>1
    <3>3. QED BY <1>1, <3>1, <3>2
  <2>2. QED BY <1>3, <2>1
<1>7. QED BY <1>4, <1>6 DEF e, e1

(* The tests X were sent to a node: to a worker that has not ended, or     *)
(* none.                                                                   *)
Passed(d, e, w, X) ==
    /\ X \in Seq(Test)
    /\ e.queue = [d.queue EXCEPT ![w] = d.queue[w] \o X]
    /\ e.inbox = [d.inbox EXCEPT ![w] = d.inbox[w] \o X]
    /\ X = <<>> \/ HeldBy(d, w)

(* A node was offered tests. It is told to shut down only when there is    *)
(* nothing for it.                                                         *)
Served(d, e, w) ==
    /\ e \in Data /\ Placed(e) /\ Once(e) /\ e.main \subseteq d.main
    /\ SameHolders(d, e) /\ e.ran = d.ran /\ e.nes = d.nes
    /\ \E X : Passed(d, e, w, X)
    /\ e.shut = d.shut \/ (e.shut = d.shut \cup {w} /\ Nothing(e, w))
    /\ Noted(d) => Noted(e)

(* What is sent is what the list has grown by.                             *)
LEMMA SentIsAdded ==
    ASSUME NEW d \in Data, NEW e \in Data, NEW w \in Worker, NEW X \in Seq(Test),
           e.queue[w] = d.queue[w] \o X
    PROVE  Sent(d, e, w) = X
<1> DEFINE q == d.queue[w]
<1>1. q \in Seq(Test)
  BY DEF Data
<1> HIDE DEF q
<1>2. Sent(d, e, w) = SubSeq(q \o X, Len(q) + 1, Len(q) + Len(X))
  <2>1. Len(q \o X) = Len(q) + Len(X)
    BY <1>1, ConcatProperties
  <2>2. QED BY <2>1 DEF Sent, q
<1>3. CASE X = <<>>
  <2>1. SubSeq(q \o X, Len(q) + 1, Len(q) + Len(X)) = <<>>
    BY <1>1, <1>3, SubSeqEmpty
  <2>2. QED BY <1>2, <1>3, <2>1
<1>4. CASE X # <<>>
  <2>1. Len(X) \in Nat \ {0} /\ Len(q) \in Nat
    BY <1>1, <1>4, EmptySeq
  <2>2. SubSeq(q \o X, Len(q) + 1, Len(q) + Len(X))
          = SubSeq(X, Len(q) + 1 - Len(q), Len(q) + Len(X) - Len(q))
    BY <1>1, <2>1, SubSeqOfConcat2
  <2>3. Len(q) + 1 - Len(q) = 1 /\ Len(q) + Len(X) - Len(q) = Len(X)
    BY <2>1
  <2>4. SubSeq(X, 1, Len(X)) = X
    BY SubSeqFull
  <2>5. QED BY <1>2, <2>2, <2>3, <2>4
<1>5. QED BY <1>3, <1>4

(* UpdateApplicable makes Noted true and changes nothing else.             *)
LEMMA Notes ==
    ASSUME NEW d \in Data
    PROVE  LET e == UpdateApplicable(d) IN
           /\ e \in Data /\ Noted(e) /\ SameHolders(d, e) /\ e.main = d.main /\ e.queue = d.queue
           /\ e.inbox = d.inbox /\ e.shut = d.shut /\ e.ran = d.ran /\ e.nes = d.nes
<1> DEFINE A == {w \in Worker : d.completed[w] # "None" /\ Pending(d, w) # {}}
           e == UpdateApplicable(d)
<1>1. e = [d EXCEPT !.applicable = A] /\ A \subseteq Worker
  BY DEF UpdateApplicable
<1> HIDE DEF e
<1>2. /\ e \in Data /\ SameHolders(d, e) /\ e.main = d.main /\ e.queue = d.queue
      /\ e.inbox = d.inbox /\ e.shut = d.shut /\ e.ran = d.ran /\ e.nes = d.nes
      /\ e.applicable = A
  <2> HIDE DEF A
  <2>1. QED BY <1>1 DEF Data, SameHolders
<1>3. \A w : Pending(e, w) = Pending(d, w)
  BY <1>2 DEF Pending
<1>4. Noted(e)
  BY <1>2, <1>3 DEF Noted, SameHolders
<1>5. QED BY <1>2, <1>4 DEF e

(* Noted stays true while pending modules only get fewer.                  *)
LEMMA NotedShrinks ==
    ASSUME NEW d \in Data, NEW e \in Data, Noted(d), e.main \subseteq d.main,
           e.completed = d.completed, e.applicable = d.applicable
    PROVE  Noted(e)
BY DEF Noted, Pending

(* A node may also be offered nothing.                                     *)
LEMMA ServesNothing ==
    ASSUME NEW d \in Data, NEW w \in Worker, Placed(d), Once(d)
    PROVE  Served(d, d, w) /\ Passed(d, d, w, <<>>)
<1>1. d.queue[w] \o <<>> = d.queue[w] /\ d.inbox[w] \o <<>> = d.inbox[w] /\ <<>> \in Seq(Test)
  <2>1. d.queue[w] \in Seq(Test) /\ d.inbox[w] \in Seq(Test)
    BY DEF Data
  <2>2. QED BY <2>1, ConcatEmptySeq
<1>2. /\ d.queue = [d.queue EXCEPT ![w] = d.queue[w] \o <<>>]
      /\ d.inbox = [d.inbox EXCEPT ![w] = d.inbox[w] \o <<>>]
  BY <1>1 DEF Data
<1>3. SameHolders(d, d)
  BY DEF SameHolders
<1>4. Passed(d, d, w, <<>>)
  BY <1>1, <1>2 DEF Passed
<1>5. QED BY <1>3, <1>4 DEF Served

(* To fill a node's list serves it.                                        *)
LEMMA LoadServes ==
    ASSUME setup \in Setups, NEW d \in Data, NEW w \in Worker,
           Placed(d), Once(d), HeldBy(d, w), Noted(d)
    PROVE  Served(d, Load(d, w), w) /\ Noted(Load(d, w))
<1> DEFINE new == AssignMore(AssignMore(d, w), w)
           f == [new EXCEPT !.inbox[w] = @ \o Sent(d, new, w)]
           e == Load(d, w)
<1>1. CASE Len(d.queue[w]) >= 2
  <2>1. e = d
    BY <1>1 DEF Load
  <2>2. QED BY <2>1, ServesNothing
<1>2. CASE ~ (Len(d.queue[w]) >= 2)
  <2>1. Grown(d, new, w) /\ (Len(new.queue[w]) >= 2 \/ Pending(new, w) = {})
    BY AssignTwice
  <2>2. e = ShutIfShort(f, w)
    BY <1>2 DEF Load
  <2> HIDE DEF new
  <2>3. PICK X \in Seq(Test) : Added(d, new, w, X)
    BY <2>1 DEF Grown, Added
  <2>4. new \in Data /\ Placed(new) /\ Once(new) /\ new.main \subseteq d.main
    BY <2>1 DEF Grown
  <2>5. Sent(d, new, w) = X
    <3>1. new.queue[w] = d.queue[w] \o X
      BY <2>3 DEF Added, Data
    <3>2. QED BY <2>4, <3>1, SentIsAdded
  <2>6. f = [new EXCEPT !.inbox[w] = @ \o X] /\ new.inbox[w] \o X \in Seq(Test)
    <3>1. new.inbox[w] \in Seq(Test)
      BY <2>4 DEF Data
    <3>2. QED BY <2>5, <3>1, ConcatProperties
  <2> HIDE DEF f
  <2>7. /\ f \in Data /\ f.main = new.main /\ f.queue = new.queue /\ SameHolders(new, f)
        /\ f.ran = new.ran /\ f.nes = new.nes /\ f.applicable = new.applicable /\ f.shut = new.shut
        /\ f.inbox = [new.inbox EXCEPT ![w] = new.inbox[w] \o X]
    BY <2>4, <2>6 DEF Data, SameHolders
  <2>8. e = IF Len(f.queue[w]) >= 2 THEN f ELSE [f EXCEPT !.shut = @ \cup {w}]
    BY <2>2 DEF ShutIfShort
  <2> HIDE DEF e
  <2>9. /\ e \in Data /\ e.main = f.main /\ e.queue = f.queue /\ SameHolders(f, e)
        /\ e.ran = f.ran /\ e.nes = f.nes /\ e.applicable = f.applicable /\ e.inbox = f.inbox
        /\ e.shut = f.shut \/ (e.shut = f.shut \cup {w} /\ ~ (Len(f.queue[w]) >= 2))
    <3>1. CASE Len(f.queue[w]) >= 2
      <4>1. e = f
        BY <2>8, <3>1
      <4>2. QED BY <2>7, <4>1 DEF SameHolders
    <3>2. CASE ~ (Len(f.queue[w]) >= 2)
      <4>1. e = [f EXCEPT !.shut = f.shut \cup {w}]
        BY <2>8, <3>2
      <4>2. QED BY <2>7, <3>2, <4>1 DEF Data, SameHolders
    <3>3. QED BY <3>1, <3>2
  <2>10. Placed(e) /\ Once(e)
    BY <2>4, <2>7, <2>9 DEF Placed, Once
  <2>11. SameHolders(d, e) /\ e.ran = d.ran /\ e.nes = d.nes /\ e.applicable = d.applicable
    BY <2>3, <2>7, <2>9 DEF Added, SameHolders
  <2>12. /\ e.queue = [d.queue EXCEPT ![w] = d.queue[w] \o X]
         /\ e.inbox = [d.inbox EXCEPT ![w] = d.inbox[w] \o X]
         /\ e.main \subseteq d.main
    BY <2>3, <2>4, <2>7, <2>9 DEF Added
  <2>13. e.shut = d.shut \/ (e.shut = d.shut \cup {w} /\ Nothing(e, w))
    <3>1. Pending(new, w) = {} => Pending(e, w) = {}
      BY <2>7, <2>9 DEF Pending
    <3>2. QED BY <2>1, <2>3, <2>7, <2>9, <3>1 DEF Nothing, Added
  <2>14. Noted(e)
    BY <2>9, <2>11, <2>12, NotedShrinks DEF SameHolders
  <2>15. Served(d, e, w)
    <3>1. Passed(d, e, w, X)
      BY <2>12 DEF Passed
    <3>2. QED BY <2>9, <2>10, <2>11, <2>12, <2>13, <2>14, <3>1 DEF Served
  <2>16. QED BY <2>14, <2>15 DEF e
<1>3. QED BY <1>1, <1>2

(* So does schedule_node_locked; where it tries to send tests it refreshes *)
(* the applicable workers.                                                 *)
LEMMA ScheduleNodeServes ==
    ASSUME setup \in Setups, NEW d \in Data, NEW w \in Worker, Placed(d), Once(d)
    PROVE  /\ Served(d, ScheduleNode(d, w), w)
           /\ w \notin d.shut /\ d.excluded[w] = 0 /\ HeldBy(d, w) => Noted(ScheduleNode(d, w))
<1> DEFINE e == ScheduleNode(d, w)
<1>1. CASE w \in d.shut
  BY <1>1, ServesNothing DEF ScheduleNode
<1>2. CASE w \notin d.shut /\ d.excluded[w] # 0
  <2>1. e = [d EXCEPT !.shut = d.shut \cup {w}]
    BY <1>2 DEF ScheduleNode
  <2> HIDE DEF e
  <2>2. /\ e \in Data /\ e.main = d.main /\ e.queue = d.queue /\ SameHolders(d, e)
        /\ e.ran = d.ran /\ e.nes = d.nes /\ e.applicable = d.applicable /\ e.inbox = d.inbox
        /\ e.shut = d.shut \cup {w}
    BY <2>1 DEF Data, SameHolders
  <2>3. Placed(e) /\ Once(e)
    BY <2>2 DEF Placed, Once
  <2>4. Passed(d, e, w, <<>>)
    BY <2>2, ServesNothing DEF Passed
  <2>5. Noted(d) => Noted(e)
    BY <2>2, NotedShrinks DEF SameHolders
  <2>6. Nothing(e, w)
    BY <1>2, <2>2 DEF Nothing, SameHolders
  <2>7. Served(d, e, w)
    BY <2>2, <2>3, <2>4, <2>5, <2>6 DEF Served
  <2>8. QED BY <1>2, <2>7 DEF e
<1>3. CASE w \notin d.shut /\ d.excluded[w] = 0 /\ ~ HeldBy(d, w)
  <2>1. e = d
    BY <1>3 DEF ScheduleNode, HeldBy
  <2>2. QED BY <1>3, <2>1, ServesNothing
<1>4. CASE w \notin d.shut /\ d.excluded[w] = 0 /\ HeldBy(d, w)
  <2> DEFINE d1 == UpdateApplicable(d)
  <2>1. e = Load(d1, w)
    BY <1>4 DEF ScheduleNode, HeldBy
  <2>2. /\ d1 \in Data /\ Noted(d1) /\ SameHolders(d, d1) /\ d1.main = d.main
        /\ d1.queue = d.queue /\ d1.inbox = d.inbox /\ d1.shut = d.shut
        /\ d1.ran = d.ran /\ d1.nes = d.nes
    BY Notes
  <2> HIDE DEF d1, e
  <2>3. Placed(d1) /\ Once(d1) /\ HeldBy(d1, w) /\ \A X : Passed(d1, e, w, X) => Passed(d, e, w, X)
    BY <1>4, <2>2 DEF Placed, Once, HeldBy, SameHolders, Passed
  <2>4. Served(d1, e, w) /\ Noted(e)
    BY <2>1, <2>2, <2>3, LoadServes
  <2>5. Served(d, e, w)
    BY <2>2, <2>3, <2>4 DEF Served, SameHolders
  <2>6. QED BY <2>4, <2>5 DEF e
<1>5. QED BY <1>1, <1>2, <1>3, <1>4

(* Serving a node keeps what is said of tests, of all nodes.               *)
LEMMA ServingKeeps ==
    ASSUME setup \in Setups, NEW d \in Data, NEW e, NEW w \in Worker, Served(d, e, w),
           NEW P \in [Worker -> Process], NEW F, Ended(d, F), InStep(d, P), Left(d, P)
    PROVE  Ended(e, F) /\ InStep(e, P) /\ Left(e, P)
<1>1. PICK X \in Seq(Test) : Passed(d, e, w, X)
  BY DEF Served, Passed
<1>2. /\ e \in Data /\ SameHolders(d, e) /\ e.main \subseteq d.main /\ e.nes = d.nes
      /\ \A v \in Worker : HeldBy(e, v) <=> HeldBy(d, v)
  BY DEF Served, SameHolders, HeldBy
<1>3. /\ \A v \in Worker : d.queue[v] \in Seq(Test) /\ d.inbox[v] \in Seq(Test)
      /\ \A v \in Worker : P[v].reports \in Seq(Test)
  BY DEF Data, Process
<1>4. \A v \in Worker : /\ e.queue[v] = IF v = w THEN d.queue[w] \o X ELSE d.queue[v]
                        /\ e.inbox[v] = IF v = w THEN d.inbox[w] \o X ELSE d.inbox[v]
  BY <1>1 DEF Passed, Data
<1>5. ASSUME X = <<>> PROVE Ended(e, F) /\ InStep(e, P)
  <2>1. \A v \in Worker : e.queue[v] = d.queue[v] /\ e.inbox[v] = d.inbox[v]
    BY <1>3, <1>4, <1>5, ConcatEmptySeq
  <2>2. Ended(e, F) /\ InStep(e, P)
    BY <1>2, <2>1 DEF Ended, InStep, SameHolders
  <2>3. QED BY <2>2
<1>6. ASSUME HeldBy(d, w) PROVE Ended(e, F) /\ InStep(e, P)
  <2>1. Ended(e, F)
    BY <1>2, <1>4, <1>6 DEF Ended, SameHolders, HeldBy
  <2>2. InStep(e, P)
    <3>1. SUFFICES ASSUME NEW v \in Worker
                   PROVE  /\ Len(P[v].reports) <= Len(e.queue[v])
                          /\ \A i \in 1 .. Len(P[v].reports) : P[v].reports[i] = e.queue[v][i]
                          /\ P[v].phase = "run" => e.queue[v] = P[v].reports \o e.inbox[v]
                          /\ P[v].phase = "run" /\ e.inbox[v] # <<>> => HeldBy(e, v)
      BY DEF InStep
    <3>2. CASE v # w
      BY <1>2, <1>4, <3>2 DEF InStep
    <3>3. CASE v = w
      <4> DEFINE q == d.queue[w]
                 b == d.inbox[w]
                 r == P[w].reports
      <4>1. q \in Seq(Test) /\ b \in Seq(Test) /\ r \in Seq(Test)
        BY <1>3
      <4>2. /\ Len(r) <= Len(q) /\ \A i \in 1 .. Len(r) : r[i] = q[i]
            /\ P[w].phase = "run" => q = r \o b
        BY DEF InStep
      <4>3. e.queue[w] = q \o X /\ e.inbox[w] = b \o X
        BY <1>4
      <4> HIDE DEF q, b, r
      <4>4. /\ Len(q \o X) = Len(q) + Len(X)
            /\ \A i \in 1 .. Len(q) + Len(X) :
                  (q \o X)[i] = IF i <= Len(q) THEN q[i] ELSE X[i - Len(q)]
        BY <4>1, ConcatProperties
      <4>5. Len(q) \in Nat /\ Len(X) \in Nat /\ Len(r) \in Nat
        BY <4>1
      <4>6. Len(r) <= Len(q \o X) /\ \A i \in 1 .. Len(r) : r[i] = (q \o X)[i]
        BY <4>2, <4>4, <4>5
      <4>7. (r \o b) \o X = r \o (b \o X)
        BY <4>1, ConcatAssociative
      <4>8. QED BY <1>2, <1>6, <3>3, <4>2, <4>3, <4>6, <4>7 DEF r
    <3>4. QED BY <3>2, <3>3
  <2>3. QED BY <2>1, <2>2
<1>7. Left(e, P)
  <2>1. \A v \in Worker : Nothing(d, v) => Nothing(e, v)
    BY <1>2 DEF Nothing, Pending, SameHolders
  <2>2. e.shut = d.shut \/ (e.shut = d.shut \cup {w} /\ Nothing(e, w))
    BY DEF Served
  <2>3. QED BY <1>2, <2>1, <2>2 DEF Left, SameHolders
<1>8. QED BY <1>1, <1>5, <1>6, <1>7 DEF Passed

(***************************************************************************)
(* A round of schedule(), and a test that completed.                       *)
(***************************************************************************)

(* Reporting the tests of an ending worker as not executed ends it.        *)
LEMMA ReportingKeeps ==
    ASSUME setup \in Setups, NEW d \in Data, NEW w \in Worker,
           NEW P \in [Worker -> Process], TestsInv(d, P, {w})
    PROVE  LET e == ReportUnexecuted(d, w) IN
           e \in Data /\ SameHolders(d, e) /\ TestsInv(e, P, {}) /\ (Noted(d) => Noted(e))
<1> DEFINE e == ReportUnexecuted(d, w)
           N == ToSet(d.queue[w]) \ InfraTests
           d1 == [d EXCEPT !.nes = d.nes \cup N]
<1>1. CASE d.queue[w] = <<>>
  <2>1. e = d /\ N = {}
    BY <1>1 DEF ReportUnexecuted, ToSet
  <2>2. Ended(d, {})
    BY <2>1 DEF TestsInv, Ended
  <2>3. QED BY <2>1, <2>2 DEF TestsInv, SameHolders
<1>2. CASE d.queue[w] # <<>>
  <2>1. e = UpdateApplicable(d1)
    BY <1>2 DEF ReportUnexecuted
  <2>2. N \subseteq Test
    <3>1. d.queue[w] \in Seq(Test)
      BY DEF Data
    <3>2. QED BY <3>1 DEF ToSet
  <2> HIDE DEF N
  <2>3. d1 \in Data
    BY <2>2 DEF Data
  <2>4. /\ SameHolders(d, d1) /\ d1.main = d.main /\ d1.queue = d.queue
        /\ d1.inbox = d.inbox /\ d1.shut = d.shut /\ d1.ran = d.ran /\ d1.nes = d.nes \cup N
    BY DEF Data, SameHolders
  <2> HIDE DEF d1, e
  <2>5. /\ e \in Data /\ Noted(e) /\ SameHolders(d1, e) /\ e.main = d1.main /\ e.queue = d1.queue
        /\ e.inbox = d1.inbox /\ e.shut = d1.shut /\ e.ran = d1.ran /\ e.nes = d1.nes
    BY <2>1, <2>3, Notes
  <2>6. /\ SameHolders(d, e) /\ e.main = d.main /\ e.queue = d.queue
        /\ e.inbox = d.inbox /\ e.shut = d.shut /\ e.ran = d.ran /\ e.nes = d.nes \cup N
    BY <2>4, <2>5 DEF SameHolders
  <2>7. Placed(e)
    <3>1. \A m \in Module : \A t \in Tests(m) : t \in N => m \notin d.main
      BY DEF TestsInv, Placed, N
    <3>2. QED BY <2>6, <3>1 DEF TestsInv, Placed
  <2>8. Once(e) /\ InStep(e, P) /\ Left(e, P)
    <3>1. Once(e)
      BY <2>6 DEF TestsInv, Once
    <3>2. InStep(e, P)
      <4>1. \A v \in Worker : HeldBy(e, v) <=> HeldBy(d, v)
        BY <2>6 DEF HeldBy, SameHolders
      <4>2. InStep(d, P)
        BY DEF TestsInv
      <4>3. QED BY <2>6, <4>1, <4>2 DEF InStep
    <3>3. \A v \in Worker : Nothing(d, v) => Nothing(e, v)
      BY <2>6 DEF Nothing, Pending, SameHolders
    <3>4. Left(e, P)
      BY <2>6, <3>3 DEF TestsInv, Left, SameHolders
    <3>5. QED BY <3>1, <3>2, <3>4
  <2>9. Ended(e, {})
    BY <2>6 DEF TestsInv, Ended, SameHolders, N
  <2>10. QED BY <2>5, <2>6, <2>7, <2>8, <2>9 DEF TestsInv, e
<1>3. QED BY <1>1, <1>2

(* A round of schedule() upon the end of a worker serves the other nodes   *)
(* and reports its tests.                                                  *)
LEMMA ScheduleKeeps ==
    ASSUME setup \in Setups, NEW d \in Data, NEW w \in Worker, w \in ToSet(d.nodes),
           NEW P \in [Worker -> Process], TestsInv(d, P, {w}), Noted(d)
    PROVE  LET e == Schedule(d, {w}) IN
           e \in Data /\ SameHolders(d, e) /\ TestsInv(e, P, {}) /\ Noted(e)
<1> DEFINE N == Len(d.nodes)
<1>1. N \in Nat /\ d.nodes \in Seq(Worker) /\ DOMAIN d.nodes = 1 .. N
  BY DEF Data
<1>2. PICK f : /\ f[0] = d
               /\ \A n \in 1 .. N : f[n] = Visit(f[n - 1], d.nodes[n], {w})
               /\ Schedule(d, {w}) = f[N]
  BY <1>1, ScheduleUnfolds
<1> HIDE DEF N
<1> DEFINE Seen(k) == \E j \in 1 .. k : d.nodes[j] = w
           S == {k \in 0 .. N : /\ f[k] \in Data /\ SameHolders(d, f[k]) /\ Noted(f[k])
                                /\ IF Seen(k) THEN TestsInv(f[k], P, {})
                                   ELSE TestsInv(f[k], P, {w})}
<1>3. 0 \in S
  BY <1>1, <1>2 DEF SameHolders
<1>4. ASSUME NEW k \in 1 .. N, k - 1 \in S PROVE k \in S
  <2> DEFINE v == d.nodes[k]
             c == f[k - 1]
             e == f[k]
  <2>1. e = Visit(c, v, {w}) /\ v \in Worker
    <3>1. e = Visit(c, v, {w})
      BY <1>2
    <3>2. v \in Worker
      BY <1>1 DEF N
    <3>3. QED BY <3>1, <3>2
  <2>2. /\ c \in Data /\ SameHolders(d, c) /\ Noted(c)
        /\ IF Seen(k - 1) THEN TestsInv(c, P, {}) ELSE TestsInv(c, P, {w})
    BY <1>4
  <2>3. Seen(k) <=> Seen(k - 1) \/ v = w
    <3>1. \A j \in 1 .. k : j = k \/ j \in 1 .. k - 1
      BY <1>1
    <3>2. k \in 1 .. k /\ \A j \in 1 .. k - 1 : j \in 1 .. k
      BY <1>1
    <3>3. QED BY <3>1, <3>2
  <2> HIDE DEF v, c, e, Seen
  <2>4. TestsInv(c, P, {w})
    BY <2>2 DEF TestsInv, Ended
  <2>5. CASE v = w
    <3>1. e = ReportUnexecuted(c, w)
      BY <2>1, <2>5 DEF Visit
    <3>2. e \in Data /\ SameHolders(c, e) /\ TestsInv(e, P, {}) /\ Noted(e)
      BY <2>2, <2>4, <3>1, ReportingKeeps
    <3>3. SameHolders(d, e)
      BY <2>2, <3>2 DEF SameHolders
    <3>4. QED BY <1>1, <2>3, <2>5, <3>2, <3>3 DEF e
  <2>6. CASE v # w
    <3>1. e = ScheduleNode(c, v)
      BY <2>1, <2>6 DEF Visit
    <3>2. Served(c, e, v)
      BY <2>1, <2>2, <2>4, <3>1, ScheduleNodeServes DEF TestsInv
    <3>3. e \in Data /\ SameHolders(c, e) /\ Noted(e) /\ Placed(e) /\ Once(e)
      BY <2>2, <3>2 DEF Served
    <3>4. SameHolders(d, e)
      BY <2>2, <3>3 DEF SameHolders
    <3>5. ASSUME NEW F, TestsInv(c, P, F) PROVE TestsInv(e, P, F)
      BY <2>1, <2>2, <3>2, <3>3, <3>5, ServingKeeps DEF TestsInv
    <3>6. QED BY <1>1, <2>2, <2>3, <2>6, <3>3, <3>4, <3>5 DEF e
  <2>7. QED BY <2>5, <2>6
<1>5. N \in S
  <2> HIDE DEF S
  <2>1. N \in Nat
    BY <1>1
  <2>2. QED BY <1>3, <1>4, <2>1, Induct
<1>6. Seen(N)
  BY <1>1 DEF ToSet, N
<1>7. QED BY <1>2, <1>5, <1>6

(* The first round serves all nodes, and as some node is started it        *)
(* refreshes the applicable workers.                                       *)
LEMMA FirstScheduleKeeps ==
    ASSUME setup \in Setups, NEW d \in Data, d.shut = {}, IsInjective(d.nodes),
           NEW w \in ToSet(d.nodes), HeldBy(d, w), d.excluded[w] = 0,
           NEW P \in [Worker -> Process], TestsInv(d, P, {})
    PROVE  LET e == Schedule(d, {}) IN
           e \in Data /\ SameHolders(d, e) /\ TestsInv(e, P, {}) /\ Noted(e)
<1> DEFINE N == Len(d.nodes)
<1>1. N \in Nat /\ d.nodes \in Seq(Worker) /\ DOMAIN d.nodes = 1 .. N
  BY DEF Data
<1>2. PICK f : /\ f[0] = d
               /\ \A n \in 1 .. N : f[n] = Visit(f[n - 1], d.nodes[n], {})
               /\ Schedule(d, {}) = f[N]
  BY <1>1, ScheduleUnfolds
<1>3. PICK i \in 1 .. N : d.nodes[i] = w
  BY <1>1 DEF ToSet
<1> HIDE DEF N
<1> DEFINE S == {k \in 0 .. N : /\ f[k] \in Data /\ SameHolders(d, f[k]) /\ TestsInv(f[k], P, {})
                                /\ k < i => \A j \in k + 1 .. N : d.nodes[j] \notin f[k].shut
                                /\ i <= k => Noted(f[k])}
<1>4. 0 \in S
  BY <1>1, <1>2 DEF SameHolders
<1>5. ASSUME NEW k \in 1 .. N, k - 1 \in S PROVE k \in S
  <2> DEFINE v == d.nodes[k]
             c == f[k - 1]
             e == f[k]
  <2>1. e = Visit(c, v, {}) /\ v \in Worker
    BY <1>1, <1>2 DEF N
  <2>2. /\ c \in Data /\ SameHolders(d, c) /\ TestsInv(c, P, {})
        /\ k - 1 < i => \A j \in k .. N : d.nodes[j] \notin c.shut
        /\ i <= k - 1 => Noted(c)
    BY <1>5
  <2> HIDE DEF c, e
  <2>3. e = ScheduleNode(c, v)
    BY <2>1 DEF Visit
  <2>4. Served(c, e, v) /\ (v \notin c.shut /\ c.excluded[v] = 0 /\ HeldBy(c, v) => Noted(e))
    BY <2>1, <2>2, <2>3, ScheduleNodeServes DEF TestsInv
  <2>5. e \in Data /\ SameHolders(c, e) /\ Placed(e) /\ Once(e)
    BY <2>4 DEF Served
  <2>6. SameHolders(d, e)
    BY <2>2, <2>5 DEF SameHolders
  <2>7. TestsInv(e, P, {})
    BY <2>1, <2>2, <2>4, <2>5, ServingKeeps DEF TestsInv
  <2>8. ASSUME k < i PROVE \A j \in k + 1 .. N : d.nodes[j] \notin e.shut
    <3>1. e.shut \subseteq c.shut \cup {v}
      BY <2>4 DEF Served
    <3>2. \A j \in k + 1 .. N : d.nodes[j] \notin c.shut
      BY <1>1, <2>2, <2>8
    <3>3. \A j \in k + 1 .. N : d.nodes[j] # v
      BY <1>1 DEF IsInjective
    <3>4. QED BY <3>1, <3>2, <3>3
  <2>9. ASSUME i <= k PROVE Noted(e)
    <3>1. CASE i = k
      <4>1. v \notin c.shut
        BY <1>1, <2>2, <3>1
      <4>2. c.excluded[v] = 0 /\ HeldBy(c, v)
        BY <1>3, <2>2, <3>1 DEF SameHolders, HeldBy
      <4>3. QED BY <2>4, <4>1, <4>2
    <3>2. CASE i # k
      BY <1>1, <2>2, <2>4, <2>9, <3>2 DEF Served
    <3>3. QED BY <3>1, <3>2
  <2>10. QED BY <1>1, <2>5, <2>6, <2>7, <2>8, <2>9 DEF e
<1>6. N \in S
  <2> HIDE DEF S
  <2>1. N \in Nat
    BY <1>1
  <2>2. QED BY <1>4, <1>5, <2>1, Induct
<1>7. QED BY <1>1, <1>2, <1>6

(* When a report is taken the test leaves the node's list, which is then   *)
(* filled up.                                                              *)
LEMMA CompletingKeeps ==
    ASSUME setup \in Setups, NEW d \in Data, NEW w \in Worker,
           NEW P \in [Worker -> Process], NEW Q \in [Worker -> Process],
           P[w].reports # <<>>, Q = [P EXCEPT ![w].reports = Tail(@)],
           TestsInv(d, P, {}), Noted(d)
    PROVE  LET e == Complete(d, w, Head(P[w].reports)) IN
           e \in Data /\ SameHolders(d, e) /\ TestsInv(e, Q, {}) /\ Noted(e)
<1> DEFINE q == d.queue[w]
           r == P[w].reports
           b == d.inbox[w]
           h == Head(q)
           u == Tail(q)
           d1 == [d EXCEPT !.queue[w] = u, !.ran = @ \cup {h}]
           e == Complete(d, w, Head(r))
<1>1. q \in Seq(Test) /\ r \in Seq(Test) /\ b \in Seq(Test)
  BY DEF Data, Process
<1>2. /\ Len(r) <= Len(q) /\ \A i \in 1 .. Len(r) : r[i] = q[i]
      /\ P[w].phase = "run" => q = r \o b
  BY DEF TestsInv, InStep
<1>3. /\ Q[w].reports = Tail(r) /\ Q[w].phase = P[w].phase
      /\ \A v \in Worker : /\ Q[v].phase = P[v].phase
                           /\ v # w => Q[v].reports = P[v].reports
  <2> HIDE DEF q, b, h, u, d1, e
  <2>1. QED BY DEF Process
<1>4. r # <<>> /\ OnceIn(q)
  BY DEF TestsInv, Once
<1> HIDE DEF q, r, b
<1>5. /\ q # <<>> /\ Head(r) = h /\ u \in Seq(Test) /\ Tail(r) \in Seq(Test)
      /\ Len(Tail(r)) <= Len(u) /\ \A i \in 1 .. Len(Tail(r)) : Tail(r)[i] = u[i]
      /\ q = r \o b => u = Tail(r) \o b
  BY <1>1, <1>2, <1>4, HeadDrops
<1>6. h \in Test
  BY <1>1, <1>5, HeadTailProperties
<1>7. /\ OnceIn(u) /\ ToSet(q) = ToSet(u) \cup {h} /\ (h \in InfraTests \/ h \notin ToSet(u))
  BY <1>1, <1>4, <1>5, OnceTail
<1>8. e = ScheduleNode(d1, w)
  <2>1. RemoveFirst(q, h) = u
    BY <1>1, <1>5, RemoveHead
  <2>2. QED BY <1>5, <2>1 DEF Complete, q
<1> HIDE DEF h, u
<1>9. /\ d1 \in Data /\ SameHolders(d, d1) /\ d1.main = d.main /\ d1.inbox = d.inbox
      /\ d1.ran = d.ran \cup {h} /\ d1.nes = d.nes /\ d1.applicable = d.applicable
      /\ d1.shut = d.shut /\ d1.queue = [d.queue EXCEPT ![w] = u]
  <2> DEFINE c == [d EXCEPT !.queue[w] = u]
  <2>1. d1 = [c EXCEPT !.ran = @ \cup {h}]
    BY DEF Data
  <2>2. /\ c \in Data /\ SameHolders(d, c) /\ c.main = d.main /\ c.inbox = d.inbox
        /\ c.ran = d.ran /\ c.nes = d.nes /\ c.applicable = d.applicable
        /\ c.shut = d.shut /\ c.queue = [d.queue EXCEPT ![w] = u]
    BY <1>5 DEF Data, SameHolders
  <2> HIDE DEF c, d1
  <2>3. /\ d1 \in Data /\ SameHolders(c, d1) /\ d1.main = c.main /\ d1.inbox = c.inbox
        /\ d1.ran = c.ran \cup {h} /\ d1.nes = c.nes /\ d1.applicable = c.applicable
        /\ d1.shut = c.shut /\ d1.queue = c.queue
    BY <1>6, <2>1, <2>2 DEF Data, SameHolders
  <2>4. QED BY <2>2, <2>3 DEF SameHolders
<1> HIDE DEF d1
<1>10. \A v \in Worker : d1.queue[v] = IF v = w THEN u ELSE d.queue[v]
  BY <1>9 DEF Data
<1>11. /\ Placed(d) /\ Once(d) /\ Ended(d, {}) /\ InStep(d, P) /\ Left(d, P)
  BY DEF TestsInv
<1>12. Placed(d1)
  <2>1. \A v \in Worker : ToSet(d1.queue[v]) \subseteq ToSet(d.queue[v])
    BY <1>7, <1>10 DEF q
  <2>2. SUFFICES ASSUME NEW m \in Module, NEW t \in Tests(m)
                 PROVE  /\ m \in d1.main => /\ t \notin d1.ran \cup d1.nes
                                            /\ \A v \in Worker : t \notin ToSet(d1.queue[v])
                        /\ m \notin d1.main => \/ t \in d1.ran \cup d1.nes
                                               \/ \E v \in Worker : t \in ToSet(d1.queue[v])
                        /\ t \in d1.ran => \A v \in Worker : t \notin ToSet(d1.queue[v])
                        /\ \A v, x \in Worker :
                              t \in ToSet(d1.queue[v]) /\ t \in ToSet(d1.queue[x]) => v = x
    BY DEF Placed
  <2>3. t \notin InfraTests
    BY SetupFacts
  <2>4. h \in ToSet(d.queue[w]) /\ d1.queue[w] = u
    BY <1>7, <1>10 DEF q
  <2>5. /\ m \in d.main => t \notin d.ran \cup d.nes /\ \A v \in Worker : t \notin ToSet(d.queue[v])
        /\ m \notin d.main => t \in d.ran \cup d.nes \/ \E v \in Worker : t \in ToSet(d.queue[v])
        /\ t \in d.ran => \A v \in Worker : t \notin ToSet(d.queue[v])
        /\ \A v, x \in Worker : t \in ToSet(d.queue[v]) /\ t \in ToSet(d.queue[x]) => v = x
    BY <1>11 DEF Placed
  <2>6. m \in d1.main => /\ t \notin d1.ran \cup d1.nes
                         /\ \A v \in Worker : t \notin ToSet(d1.queue[v])
    BY <1>9, <2>1, <2>4, <2>5
  <2>7. m \notin d1.main => \/ t \in d1.ran \cup d1.nes
                            \/ \E v \in Worker : t \in ToSet(d1.queue[v])
    <3>1. ASSUME NEW v \in Worker, t \in ToSet(d.queue[v]), t # h PROVE t \in ToSet(d1.queue[v])
      BY <1>7, <1>10, <3>1 DEF q
    <3>2. QED BY <1>9, <2>5, <3>1
  <2>8. t \in d1.ran => \A v \in Worker : t \notin ToSet(d1.queue[v])
    <3>1. CASE t = h
      <4>1. t \notin ToSet(d1.queue[w])
        BY <1>7, <2>3, <2>4, <3>1
      <4>2. \A v \in Worker : v # w => t \notin ToSet(d.queue[v])
        BY <2>4, <2>5, <3>1
      <4>3. QED BY <2>1, <4>1, <4>2
    <3>2. CASE t # h
      BY <1>9, <2>1, <2>5, <3>2
    <3>3. QED BY <3>1, <3>2
  <2>9. \A v, x \in Worker : t \in ToSet(d1.queue[v]) /\ t \in ToSet(d1.queue[x]) => v = x
    BY <2>1, <2>5
  <2>10. QED BY <2>6, <2>7, <2>8, <2>9
<1>13. Once(d1)
  BY <1>7, <1>10, <1>11 DEF Once
<1>14. Ended(d1, {})
  <2>1. SUFFICES ASSUME NEW v \in Worker
                 PROVE  /\ d1.completed[v] # "False" =>
                              ToSet(d1.queue[v]) \ InfraTests \subseteq d1.nes
                        /\ v \notin d1.started => d1.queue[v] = <<>>
    BY DEF Ended
  <2>2. /\ d.completed[v] # "False" => ToSet(d.queue[v]) \ InfraTests \subseteq d.nes
        /\ v \notin d.started => d.queue[v] = <<>>
    BY <1>11 DEF Ended
  <2>3. ToSet(d1.queue[v]) \subseteq ToSet(d.queue[v])
    BY <1>7, <1>10 DEF q
  <2>4. v \notin d1.started => d1.queue[v] = <<>>
    BY <1>5, <1>9, <1>10, <2>2 DEF SameHolders, q
  <2>5. QED BY <1>9, <2>2, <2>3, <2>4 DEF SameHolders
<1>15. InStep(d1, Q)
  <2>1. SUFFICES ASSUME NEW v \in Worker
                 PROVE  /\ Len(Q[v].reports) <= Len(d1.queue[v])
                        /\ \A i \in 1 .. Len(Q[v].reports) : Q[v].reports[i] = d1.queue[v][i]
                        /\ Q[v].phase = "run" => d1.queue[v] = Q[v].reports \o d1.inbox[v]
                        /\ Q[v].phase = "run" /\ d1.inbox[v] # <<>> => HeldBy(d1, v)
    BY DEF InStep
  <2>2. /\ Len(P[v].reports) <= Len(d.queue[v])
        /\ \A i \in 1 .. Len(P[v].reports) : P[v].reports[i] = d.queue[v][i]
        /\ P[v].phase = "run" => d.queue[v] = P[v].reports \o d.inbox[v]
        /\ P[v].phase = "run" /\ d.inbox[v] # <<>> => HeldBy(d, v)
    BY <1>11 DEF InStep
  <2>3. d1.inbox[v] = d.inbox[v] /\ (HeldBy(d1, v) <=> HeldBy(d, v))
    BY <1>9 DEF HeldBy, SameHolders
  <2>4. CASE v = w
    <3>1. Q[w].reports = Tail(r) /\ d1.queue[w] = u /\ d1.inbox[w] = b
      BY <1>3, <1>9, <1>10 DEF b
    <3>2. /\ Len(Tail(r)) <= Len(u) /\ \A i \in 1 .. Len(Tail(r)) : Tail(r)[i] = u[i]
          /\ Q[w].phase = "run" => u = Tail(r) \o b
      BY <1>2, <1>3, <1>5
    <3>3. Q[w].phase = "run" /\ d1.inbox[w] # <<>> => HeldBy(d1, w)
      BY <1>3, <2>2, <2>3, <2>4
    <3>4. QED BY <2>4, <3>1, <3>2, <3>3
  <2>5. CASE v # w
    <3>1. Q[v].reports = P[v].reports /\ d1.queue[v] = d.queue[v] /\ Q[v].phase = P[v].phase
      BY <1>3, <1>10, <2>5
    <3>2. QED BY <2>2, <2>3, <3>1
  <2>6. QED BY <2>4, <2>5
<1>16. Left(d1, Q)
  <2>1. \A v \in Worker : Nothing(d, v) => Nothing(d1, v)
    BY <1>9 DEF Nothing, Pending, SameHolders
  <2>2. QED BY <1>3, <1>9, <1>11, <2>1 DEF Left, SameHolders
<1>17. Noted(d1)
  BY <1>9, NotedShrinks DEF SameHolders
<1>18. Served(d1, e, w)
  BY <1>8, <1>9, <1>12, <1>13, ScheduleNodeServes
<1> HIDE DEF e
<1>19. Ended(e, {}) /\ InStep(e, Q) /\ Left(e, Q)
  BY <1>9, <1>14, <1>15, <1>16, <1>18, ServingKeeps
<1>20. e \in Data /\ SameHolders(d1, e) /\ Placed(e) /\ Once(e) /\ Noted(e)
  BY <1>17, <1>18 DEF Served
<1>21. QED BY <1>9, <1>19, <1>20 DEF TestsInv, SameHolders, e, r

(***************************************************************************)
(* The end of a worker: the parts of the invariant that speak of devices,  *)
(* and what an operation on them may do to the tests.                      *)
(***************************************************************************)

(* Each device is free, excluded or held.                                  *)
Accounted(d) == \A w \in Worker : \A x \in Devices(w) :
    x \in d.free \cup d.out \/ \E v \in Worker : HeldBy(d, v) /\ x \in Devices(v)

(* While no device is excluded, a held device is not free and is held once.*)
Disjoint(d) ==
    /\ d.out = {}
    /\ \A w \in Worker : HeldBy(d, w) =>
          /\ Devices(w) \cap d.free = {}
          /\ \A v \in Worker \ {w} : HeldBy(d, v) => Devices(v) \cap Devices(w) = {}

(* Disjoint needs that no process can name a device as lost: a device of a *)
(* dead worker that is excluded from the free ones may return to them.     *)
DevicesInv(d) == Accounted(d) /\ (~ setup.exclude => Disjoint(d))

(* No test and no node moves.                                              *)
SameTests(d, e) ==
    /\ e.main = d.main /\ e.queue = d.queue /\ e.inbox = d.inbox /\ e.ran = d.ran
    /\ e.nes = d.nes /\ e.applicable = d.applicable /\ e.shut = d.shut /\ e.nodes = d.nodes

(* What may happen to workers: they start, and they end. One with a running*)
(* process does not end, one that ends well had nothing to do, and one that*)
(* ends either was ending or had not started, and is excluded for good.    *)
Progress(d, e, P, F) ==
    /\ d.started \subseteq e.started
    /\ \A v \in Worker :
          /\ HeldBy(d, v) /\ P[v].phase = "run" => HeldBy(e, v)
          /\ d.excluded[v] # 0 => e.excluded[v] # 0
          /\ e.completed[v] # "None" => d.completed[v] # "None"
          /\ e.completed[v] # "False" => d.completed[v] # "False" \/ v \in F \/ v \notin d.started
          /\ e.completed[v] = "True" => d.completed[v] = "True" \/ Nothing(d, v)

(* If only that happens, what is said of tests remains true.               *)
LEMMA HoldersKeep ==
    ASSUME NEW d \in Data, NEW e \in Data, SameTests(d, e),
           NEW P \in [Worker -> Process], NEW F, NEW G \in SUBSET F, Progress(d, e, P, F),
           TestsInv(d, P, G), Noted(d)
    PROVE  TestsInv(e, P, F) /\ Noted(e)
<1>1. Placed(e) /\ Once(e)
  BY DEF SameTests, TestsInv, Placed, Once
<1>2. Ended(e, F)
  <2>1. ASSUME NEW v \in Worker
        PROVE  /\ v \notin F /\ e.completed[v] # "False" =>
                     ToSet(e.queue[v]) \ InfraTests \subseteq e.nes
               /\ v \notin e.started => e.queue[v] = <<>>
    <3>1. v \notin d.started => d.queue[v] = <<>> /\ ToSet(d.queue[v]) = {}
      BY DEF TestsInv, Ended, ToSet
    <3>2. v \notin G /\ d.completed[v] # "False" => ToSet(d.queue[v]) \ InfraTests \subseteq d.nes
      BY DEF TestsInv, Ended
    <3>3. QED BY <3>1, <3>2 DEF Progress, SameTests
  <2>2. QED BY <2>1 DEF Ended
<1>3. InStep(e, P)
  BY DEF SameTests, Progress, TestsInv, InStep
<1>4. \A v \in Worker : Nothing(d, v) => Nothing(e, v)
  BY DEF SameTests, Progress, Nothing, Pending
<1>5. Left(e, P)
  BY <1>4 DEF SameTests, Progress, TestsInv, Left
<1>6. Noted(e)
  BY DEF SameTests, Progress, Noted, Pending
<1>7. QED BY <1>1, <1>2, <1>3, <1>5, <1>6 DEF TestsInv

(* All of the invariant's parts but those on the processes.                *)
Kept(d, e, P, F) ==
    e \in Data /\ e.nodes = d.nodes /\ TestsInv(e, P, F) /\ DevicesInv(e) /\ Noted(e)

(* A worker that starts, is passed over or is excluded when devices come   *)
(* back: the parts are kept, and no worker that had ended runs again.      *)
LEMMA ConsiderKeeps ==
    ASSUME setup \in Setups, NEW d \in Data, NEW w \in Worker,
           NEW P \in [Worker -> Process], NEW F, TestsInv(d, P, F), DevicesInv(d), Noted(d)
    PROVE  LET e == Consider(d, w) IN
           /\ Kept(d, e, P, F)
           /\ \A v \in Worker : d.completed[v] # "False" => e.completed[v] # "False"
<1> DEFINE e == Consider(d, w)
<1>1. Devices(w) \subseteq Device
  BY SetupFacts
<1>2. CASE ~ Waits(d, w)
  BY <1>2 DEF Consider, Kept
<1>3. CASE Waits(d, w) /\ Devices(w) \cap d.out # {}
  <2>1. e = [d EXCEPT !.completed[w] = "None", !.excluded[w] = 2,
                      !.free = @ \cup (Devices(w) \ d.out)]
    BY <1>3 DEF Consider
  <2> HIDE DEF e
  <2>2. /\ e \in Data /\ SameTests(d, e) /\ e.started = d.started /\ e.out = d.out
        /\ e.completed = [d.completed EXCEPT ![w] = "None"]
        /\ e.excluded = [d.excluded EXCEPT ![w] = 2]
        /\ e.free = d.free \cup (Devices(w) \ d.out)
    <3> DEFINE e1 == [d EXCEPT !.completed[w] = "None", !.excluded[w] = 2]
    <3>1. /\ e1 \in Data /\ SameTests(d, e1) /\ e1.started = d.started /\ e1.out = d.out
          /\ e1.completed = [d.completed EXCEPT ![w] = "None"]
          /\ e1.excluded = [d.excluded EXCEPT ![w] = 2] /\ e1.free = d.free
      <4> DEFINE e0 == [d EXCEPT !.completed[w] = "None"]
      <4>1. /\ e0 \in Data /\ SameTests(d, e0) /\ e0.started = d.started /\ e0.out = d.out
            /\ e0.completed = [d.completed EXCEPT ![w] = "None"]
            /\ e0.excluded = d.excluded /\ e0.free = d.free
        BY DEF Data, SameTests
      <4>2. e1 = [e0 EXCEPT !.excluded[w] = 2]
        OBVIOUS
      <4> HIDE DEF e0, e1
      <4>3. /\ e1 \in Data /\ SameTests(e0, e1) /\ e1.started = e0.started /\ e1.out = e0.out
            /\ e1.completed = e0.completed
            /\ e1.excluded = [e0.excluded EXCEPT ![w] = 2] /\ e1.free = e0.free
        <5>1. 2 \in 0 .. 2
          OBVIOUS
        <5>2. QED BY <4>1, <4>2, <5>1 DEF Data, SameTests
      <4>4. QED BY <4>1, <4>3 DEF SameTests
    <3>2. e = [e1 EXCEPT !.free = @ \cup (Devices(w) \ d.out)]
      BY <2>1
    <3> HIDE DEF e1
    <3>3. /\ e \in Data /\ SameTests(e1, e) /\ e.started = e1.started /\ e.out = e1.out
          /\ e.completed = e1.completed /\ e.excluded = e1.excluded
          /\ e.free = e1.free \cup (Devices(w) \ d.out)
      BY <1>1, <3>1, <3>2 DEF Data, SameTests
    <3>4. QED BY <3>1, <3>3 DEF SameTests
  <2>3. w \notin d.started /\ d.completed[w] = "False"
    BY <1>3 DEF Waits
  <2>4. \A v \in Worker : HeldBy(e, v) <=> HeldBy(d, v)
    BY <2>2, <2>3 DEF HeldBy, Data
  <2>5. Progress(d, e, P, F)
    BY <2>2, <2>3, <2>4 DEF Progress, Data
  <2>6. TestsInv(e, P, F) /\ Noted(e)
    BY <2>2, <2>5, HoldersKeep
  <2>7. Accounted(e)
    BY <2>2, <2>4 DEF DevicesInv, Accounted
  <2>8. setup.exclude
    BY <1>3 DEF DevicesInv, Disjoint
  <2>9. \A v \in Worker : d.completed[v] # "False" => e.completed[v] # "False"
    BY <2>2 DEF Data
  <2>10. QED BY <2>2, <2>6, <2>7, <2>8, <2>9 DEF DevicesInv, Kept, SameTests, e
<1>4. CASE Waits(d, w) /\ Devices(w) \cap d.out = {} /\ w \notin d.applicable
  <2>1. e = [d EXCEPT !.started = @ \cup {w}, !.completed[w] = "True"]
    BY <1>4 DEF Consider
  <2> HIDE DEF e
  <2>2. /\ e \in Data /\ SameTests(d, e) /\ e.started = d.started \cup {w} /\ e.out = d.out
        /\ e.completed = [d.completed EXCEPT ![w] = "True"]
        /\ e.excluded = d.excluded /\ e.free = d.free
    BY <2>1 DEF Data, SameTests
  <2>3. w \notin d.started /\ d.completed[w] = "False" /\ Nothing(d, w)
    BY <1>4 DEF Waits, Noted, Nothing
  <2>4. \A v \in Worker : HeldBy(e, v) <=> HeldBy(d, v)
    BY <2>2, <2>3 DEF HeldBy, Data
  <2>5. Progress(d, e, P, F)
    BY <2>2, <2>3, <2>4 DEF Progress, Data
  <2>6. TestsInv(e, P, F) /\ Noted(e)
    BY <2>2, <2>5, HoldersKeep
  <2>7. DevicesInv(e)
    BY <2>2, <2>4 DEF DevicesInv, Accounted, Disjoint
  <2>8. \A v \in Worker : d.completed[v] # "False" => e.completed[v] # "False"
    BY <2>2 DEF Data
  <2>9. QED BY <2>2, <2>6, <2>7, <2>8 DEF Kept, SameTests, e
<1>5. CASE /\ Waits(d, w) /\ Devices(w) \cap d.out = {} /\ w \in d.applicable
           /\ Devices(w) \subseteq d.free
  <2>1. e = [d EXCEPT !.started = @ \cup {w}, !.free = @ \ Devices(w)]
    BY <1>5 DEF Consider
  <2> HIDE DEF e
  <2>2. /\ e \in Data /\ SameTests(d, e) /\ e.started = d.started \cup {w} /\ e.out = d.out
        /\ e.completed = d.completed /\ e.excluded = d.excluded /\ e.free = d.free \ Devices(w)
    BY <2>1 DEF Data, SameTests
  <2>3. w \notin d.started /\ d.completed[w] = "False"
    BY <1>5 DEF Waits
  <2>4. \A v \in Worker : HeldBy(e, v) <=> HeldBy(d, v) \/ v = w
    BY <2>2, <2>3 DEF HeldBy
  <2>5. Progress(d, e, P, F)
    BY <2>2, <2>4 DEF Progress
  <2>6. TestsInv(e, P, F) /\ Noted(e)
    BY <2>2, <2>5, HoldersKeep
  <2>7. Accounted(e)
    BY <2>2, <2>4 DEF DevicesInv, Accounted
  <2>8. ASSUME ~ setup.exclude PROVE Disjoint(e)
    <3>1. /\ d.out = {}
          /\ \A u \in Worker : HeldBy(d, u) =>
                /\ Devices(u) \cap d.free = {}
                /\ \A v \in Worker \ {u} : HeldBy(d, v) => Devices(v) \cap Devices(u) = {}
      BY <2>8 DEF DevicesInv, Disjoint
    <3>2. \A u \in Worker : HeldBy(d, u) =>
              Devices(u) \cap Devices(w) = {} /\ Devices(u) \cap e.free = {}
      BY <1>5, <2>2, <3>1
    <3>3. QED BY <2>2, <2>4, <3>1, <3>2 DEF Disjoint
  <2>9. QED BY <2>2, <2>6, <2>7, <2>8 DEF DevicesInv, Kept, SameTests, e
<1>6. CASE /\ Waits(d, w) /\ Devices(w) \cap d.out = {} /\ w \in d.applicable
           /\ ~ (Devices(w) \subseteq d.free)
  BY <1>6 DEF Consider, Kept
<1>7. QED BY <1>2, <1>3, <1>4, <1>5, <1>6

(* So it is when all workers are considered.                               *)
LEMMA ConsiderAllKeeps ==
    ASSUME setup \in Setups, NEW d \in Data, NEW w \in Worker, d.completed[w] # "False",
           NEW P \in [Worker -> Process], NEW F, TestsInv(d, P, F), DevicesInv(d), Noted(d)
    PROVE  LET e == ConsiderAll(d) IN Kept(d, e, P, F) /\ e.completed[w] # "False"
<1> DEFINE N == Len(setup.workers)
<1>1. N \in Nat /\ Worker = 1 .. N
  BY SetupFacts
<1>2. PICK f : /\ f[0] = d
               /\ \A n \in 1 .. N : f[n] = Consider(f[n - 1], n)
               /\ ConsiderAll(d) = f[N]
  BY <1>1, ConsiderAllUnfolds
<1> HIDE DEF N
<1> DEFINE S == {k \in 0 .. N : Kept(d, f[k], P, F) /\ f[k].completed[w] # "False"}
<1>3. 0 \in S
  BY <1>1, <1>2 DEF Kept
<1>4. ASSUME NEW k \in 1 .. N, k - 1 \in S PROVE k \in S
  <2> DEFINE c == f[k - 1]
             e == f[k]
  <2>1. e = Consider(c, k) /\ k \in Worker /\ k \in 0 .. N
    BY <1>1, <1>2
  <2>2. Kept(d, c, P, F) /\ c.completed[w] # "False"
    BY <1>4
  <2> HIDE DEF c, e
  <2>3. c \in Data /\ TestsInv(c, P, F) /\ DevicesInv(c) /\ Noted(c)
    BY <2>2 DEF Kept
  <2>4. /\ Kept(c, e, P, F)
        /\ \A v \in Worker : c.completed[v] # "False" => e.completed[v] # "False"
    BY <2>1, <2>3, ConsiderKeeps
  <2>5. Kept(d, e, P, F)
    BY <2>2, <2>4 DEF Kept
  <2>6. QED BY <2>1, <2>2, <2>4, <2>5 DEF e
<1>5. N \in S
  <2> HIDE DEF S
  <2>1. N \in Nat
    BY <1>1
  <2>2. QED BY <1>3, <1>4, <2>1, Induct
<1>6. QED BY <1>2, <1>5

(* A worker that brings back its devices must not be running, and if it    *)
(* ends well there must be nothing for it.                                 *)
LEMMA ReleaseKeeps ==
    ASSUME setup \in Setups, NEW d \in Data, NEW w \in Worker,
           NEW error \in BOOLEAN, NEW lost \in SUBSET Devices(w), ~ setup.exclude => lost = {},
           HeldBy(d, w), ~ error => Nothing(d, w),
           NEW P \in [Worker -> Process], P[w].phase # "run",
           TestsInv(d, P, {}), DevicesInv(d), Noted(d)
    PROVE  LET e == Release(d, w, error, lost) IN
           Kept(d, e, P, {w}) /\ e.completed[w] # "False"
<1> DEFINE status == IF error THEN "None" ELSE "True"
           why == IF lost # {} THEN 1 ELSE d.excluded[w]
           e1 == [d EXCEPT !.excluded[w] = why]
           e2 == [e1 EXCEPT !.completed[w] = status]
           e3 == [e2 EXCEPT !.out = @ \cup lost]
           e == [e3 EXCEPT !.free = @ \cup (Devices(w) \ lost)]
<1>1. Release(d, w, error, lost) = e
  BY DEF Release
<1>2. /\ Devices(w) \subseteq Device /\ status \in {"None", "True"}
      /\ status = "True" => Nothing(d, w)
      /\ why \in 0 .. 2 /\ (d.excluded[w] # 0 => why # 0)
  <2>1. d.excluded[w] \in 0 .. 2
    BY DEF Data
  <2>2. QED BY <2>1, SetupFacts
<1> HIDE DEF status, why
<1>3. /\ e1 \in Data /\ SameTests(d, e1) /\ e1.started = d.started /\ e1.out = d.out
      /\ e1.completed = d.completed /\ e1.free = d.free
      /\ e1.excluded = [d.excluded EXCEPT ![w] = why]
  BY <1>2 DEF Data, SameTests
<1> HIDE DEF e1
<1>4. /\ e2 \in Data /\ SameTests(e1, e2) /\ e2.started = e1.started /\ e2.out = e1.out
      /\ e2.completed = [e1.completed EXCEPT ![w] = status] /\ e2.free = e1.free
      /\ e2.excluded = e1.excluded
  BY <1>2, <1>3 DEF Data, SameTests
<1> HIDE DEF e2
<1>5. /\ e3 \in Data /\ SameTests(e2, e3) /\ e3.started = e2.started /\ e3.out = e2.out \cup lost
      /\ e3.completed = e2.completed /\ e3.free = e2.free /\ e3.excluded = e2.excluded
  BY <1>2, <1>4 DEF Data, SameTests
<1> HIDE DEF e3
<1>6. /\ e \in Data /\ SameTests(e3, e) /\ e.started = e3.started /\ e.out = e3.out
      /\ e.completed = e3.completed /\ e.free = e3.free \cup (Devices(w) \ lost)
      /\ e.excluded = e3.excluded
  BY <1>2, <1>5 DEF Data, SameTests
<1> HIDE DEF e
<1>7. /\ SameTests(d, e) /\ e.started = d.started /\ e.out = d.out \cup lost
      /\ e.completed = [d.completed EXCEPT ![w] = status]
      /\ e.free = d.free \cup (Devices(w) \ lost) /\ e.excluded = [d.excluded EXCEPT ![w] = why]
  BY <1>3, <1>4, <1>5, <1>6 DEF SameTests
<1>8. e.completed[w] # "False" /\ \A v \in Worker : HeldBy(e, v) <=> HeldBy(d, v) /\ v # w
  BY <1>2, <1>7 DEF HeldBy, Data
<1>9. Progress(d, e, P, {w})
  BY <1>2, <1>7, <1>8 DEF Progress, Data, HeldBy
<1>10. TestsInv(e, P, {w}) /\ Noted(e)
  BY <1>6, <1>7, <1>9, HoldersKeep
<1>11. Accounted(e)
  BY <1>7, <1>8 DEF DevicesInv, Accounted
<1>12. ASSUME ~ setup.exclude PROVE Disjoint(e)
  <2>1. lost = {} /\ Disjoint(d)
    BY <1>12 DEF DevicesInv
  <2>2. \A v \in Worker \ {w} : HeldBy(d, v) => Devices(v) \cap Devices(w) = {}
    BY <2>1 DEF Disjoint
  <2>3. QED BY <1>7, <1>8, <2>1, <2>2 DEF Disjoint
<1>13. QED BY <1>1, <1>6, <1>7, <1>8, <1>10, <1>11, <1>12 DEF Kept, SameTests, DevicesInv

(* The whole of finish_node_locked.                                        *)
LEMMA FinishNodeKeeps ==
    ASSUME setup \in Setups, NEW d \in Data, NEW w \in Worker, w \in ToSet(d.nodes),
           NEW error \in BOOLEAN, NEW lost \in SUBSET Devices(w), ~ setup.exclude => lost = {},
           ~ error => Nothing(d, w),
           NEW P \in [Worker -> Process], P[w].phase # "run",
           TestsInv(d, P, {}), DevicesInv(d), Noted(d)
    PROVE  LET e == FinishNode(d, w, error, lost) IN
           Kept(d, e, P, {}) /\ e.completed[w] # "False"
<1> DEFINE e == FinishNode(d, w, error, lost)
<1>1. CASE ~ HeldBy(d, w)
  <2>1. e = [d EXCEPT !.errored = @ \cup {w}, !.completed[w] = "None"]
    BY <1>1 DEF FinishNode, HeldBy
  <2> HIDE DEF e
  <2>2. /\ e \in Data /\ SameTests(d, e) /\ e.started = d.started /\ e.out = d.out
        /\ e.completed = [d.completed EXCEPT ![w] = "None"]
        /\ e.excluded = d.excluded /\ e.free = d.free
    BY <2>1 DEF Data, SameTests
  <2>3. e.completed[w] # "False" /\ \A v \in Worker : HeldBy(e, v) <=> HeldBy(d, v)
    BY <1>1, <2>2 DEF HeldBy, Data
  <2>4. Progress(d, e, P, {})
    BY <1>1, <2>2, <2>3 DEF Progress, Data, HeldBy
  <2>5. TestsInv(e, P, {}) /\ Noted(e)
    BY <2>2, <2>4, HoldersKeep
  <2>6. DevicesInv(e)
    BY <2>2, <2>3 DEF DevicesInv, Accounted, Disjoint
  <2>7. QED BY <2>2, <2>3, <2>5, <2>6 DEF Kept, SameTests, e
<1>2. CASE HeldBy(d, w)
  <2> DEFINE d1 == Release(d, w, error, lost)
             d2 == ConsiderAll(d1)
  <2>1. e = Schedule(d2, {w})
    BY <1>2 DEF FinishNode, HeldBy
  <2>2. Kept(d, d1, P, {w}) /\ d1.completed[w] # "False"
    BY <1>2, ReleaseKeeps
  <2> HIDE DEF d1
  <2>3. Kept(d1, d2, P, {w}) /\ d2.completed[w] # "False"
    BY <2>2, ConsiderAllKeeps DEF Kept
  <2> HIDE DEF d2, e
  <2>4. d2 \in Data /\ w \in ToSet(d2.nodes) /\ TestsInv(d2, P, {w}) /\ Noted(d2) /\ DevicesInv(d2)
    BY <2>2, <2>3 DEF Kept
  <2>5. e \in Data /\ SameHolders(d2, e) /\ TestsInv(e, P, {}) /\ Noted(e)
    BY <2>1, <2>4, ScheduleKeeps
  <2>6. DevicesInv(e)
    BY <2>4, <2>5 DEF SameHolders, DevicesInv, Accounted, Disjoint, HeldBy
  <2>7. e.nodes = d.nodes /\ e.completed[w] # "False"
    BY <2>2, <2>3, <2>5 DEF Kept, SameHolders
  <2>8. QED BY <2>5, <2>6, <2>7 DEF Kept, e
<1>3. QED BY <1>1, <1>2

(* tests_finished holds only when no node has work.                        *)
LEMMA ShutDownKeeps ==
    ASSUME NEW d \in Data, NEW P \in [Worker -> Process],
           TestsInv(d, P, {}), DevicesInv(d), Noted(d)
    PROVE  LET e == ShutDownWhenFinished(d) IN Kept(d, e, P, {})
<1> DEFINE e == ShutDownWhenFinished(d)
<1>1. CASE ~ TestsFinished(d)
  BY <1>1 DEF ShutDownWhenFinished, Kept
<1>2. CASE TestsFinished(d)
  <2>1. e = [d EXCEPT !.shut = @ \cup ToSet(d.nodes)]
    BY <1>2 DEF ShutDownWhenFinished
  <2>2. ToSet(d.nodes) \subseteq Worker
    <3>1. d.nodes \in Seq(Worker)
      BY DEF Data
    <3>2. QED BY <3>1 DEF ToSet
  <2> HIDE DEF e
  <2>3. /\ e \in Data /\ e.main = d.main /\ e.queue = d.queue /\ SameHolders(d, e)
        /\ e.ran = d.ran /\ e.nes = d.nes /\ e.applicable = d.applicable /\ e.inbox = d.inbox
        /\ e.shut = d.shut \cup ToSet(d.nodes)
    BY <2>1, <2>2 DEF Data, SameHolders
  <2>4. \A w \in Worker : HeldBy(e, w) <=> HeldBy(d, w)
    BY <2>3 DEF SameHolders, HeldBy
  <2>5. \A w \in Worker : Nothing(e, w) <=> Nothing(d, w)
    BY <2>3 DEF SameHolders, Nothing, Pending
  <2>6. ASSUME NEW w \in ToSet(d.nodes) PROVE Nothing(d, w)
    <3>1. d.excluded[w] # 0 \/ d.completed[w] = "True"
      BY <1>2 DEF TestsFinished, IsActive
    <3>2. QED BY <2>2, <3>1 DEF TestsInv, Left, Nothing
  <2>7. Placed(e) /\ Once(e)
    BY <2>3 DEF TestsInv, Placed, Once
  <2>8. Ended(e, {}) /\ InStep(e, P)
    BY <2>3, <2>4 DEF TestsInv, Ended, InStep, SameHolders
  <2>9. Left(e, P)
    BY <2>3, <2>5, <2>6 DEF TestsInv, Left, SameHolders
  <2>10. DevicesInv(e)
    BY <2>3, <2>4 DEF DevicesInv, Accounted, Disjoint, SameHolders
  <2>11. Noted(e)
    BY <2>3, NotedShrinks DEF SameHolders
  <2>12. QED BY <2>3, <2>7, <2>8, <2>9, <2>10, <2>11 DEF Kept, TestsInv, SameHolders, e
<1>3. QED BY <1>1, <1>2

(* A node whose worker has ended may be removed with its list.             *)
LEMMA RemoveNodeKeeps ==
    ASSUME setup \in Setups, NEW d \in Data, NEW w \in Worker,
           d.completed[w] # "False", IsInjective(d.nodes),
           NEW P \in [Worker -> Process], P[w].reports = <<>>, P[w].phase # "run",
           TestsInv(d, P, {}), DevicesInv(d), Noted(d)
    PROVE  LET e == RemoveNode(d, w) IN
           /\ e \in Data /\ TestsInv(e, P, {}) /\ DevicesInv(e) /\ Noted(e)
           /\ IsInjective(e.nodes) /\ ToSet(e.nodes) = ToSet(d.nodes) \ {w}
<1> DEFINE e == RemoveNode(d, w)
<1>1. e = [d EXCEPT !.nodes = RemoveFirst(d.nodes, w), !.queue[w] = <<>>]
  BY DEF RemoveNode
<1>2. /\ RemoveFirst(d.nodes, w) \in Seq(Worker) /\ IsInjective(RemoveFirst(d.nodes, w))
      /\ ToSet(RemoveFirst(d.nodes, w)) = ToSet(d.nodes) \ {w}
  <2>1. d.nodes \in Seq(Worker)
    BY DEF Data
  <2>2. QED BY <2>1, RemoveOne
<1> HIDE DEF e
<1>3. /\ e \in Data /\ e.main = d.main /\ e.queue = [d.queue EXCEPT ![w] = <<>>]
      /\ e.started = d.started /\ e.completed = d.completed /\ e.excluded = d.excluded
      /\ e.free = d.free /\ e.out = d.out /\ e.shut = d.shut
      /\ e.ran = d.ran /\ e.nes = d.nes /\ e.applicable = d.applicable /\ e.inbox = d.inbox
      /\ e.nodes = RemoveFirst(d.nodes, w)
  <2> DEFINE n == RemoveFirst(d.nodes, w)
  <2>1. e = [d EXCEPT !.nodes = n, !.queue[w] = <<>>] /\ n \in Seq(Worker)
    BY <1>1, <1>2
  <2>2. <<>> \in Seq(Test)
    OBVIOUS
  <2> HIDE DEF n
  <2>3. e.nodes = n
    BY <2>1 DEF Data
  <2>4. QED BY <2>1, <2>2, <2>3 DEF Data, n
<1>4. \A v \in Worker : e.queue[v] = IF v = w THEN <<>> ELSE d.queue[v]
  BY <1>3 DEF Data
<1>5. ToSet(d.queue[w]) \ InfraTests \subseteq d.nes
  BY DEF TestsInv, Ended
<1>6. \A v \in Worker : ToSet(e.queue[v]) = IF v = w THEN {} ELSE ToSet(d.queue[v])
  BY <1>4 DEF ToSet
<1>7. Placed(e)
  <2>1. \A m \in Module : \A t \in Tests(m) : t \in ToSet(d.queue[w]) => t \in d.nes
    <3>1. \A m \in Module : Tests(m) \cap InfraTests = {}
      BY SetupFacts
    <3>2. QED BY <1>5, <3>1
  <2>2. QED BY <1>3, <1>6, <2>1 DEF TestsInv, Placed
<1>8. Once(e)
  BY <1>4 DEF TestsInv, Once, OnceIn
<1>9. \A v \in Worker : HeldBy(e, v) <=> HeldBy(d, v)
  BY <1>3 DEF HeldBy
<1>10. \A v \in Worker : Nothing(e, v) <=> Nothing(d, v)
  BY <1>3 DEF Nothing, Pending
<1>11. Ended(e, {})
  BY <1>3, <1>4, <1>6 DEF TestsInv, Ended
<1>12. InStep(e, P)
  <2>1. InStep(d, P)
    BY DEF TestsInv
  <2>2. SUFFICES ASSUME NEW v \in Worker
                 PROVE  /\ Len(P[v].reports) <= Len(e.queue[v])
                        /\ \A i \in 1 .. Len(P[v].reports) : P[v].reports[i] = e.queue[v][i]
                        /\ P[v].phase = "run" => e.queue[v] = P[v].reports \o e.inbox[v]
                        /\ P[v].phase = "run" /\ e.inbox[v] # <<>> => HeldBy(e, v)
    BY DEF InStep
  <2>3. CASE v = w
    <3>1. e.queue[v] = <<>> /\ P[v].reports = <<>> /\ P[v].phase # "run"
      BY <1>4, <2>3
    <3>2. Len(P[v].reports) = 0 /\ Len(e.queue[v]) = 0
      BY <3>1, EmptySeq
    <3>3. QED BY <3>1, <3>2
  <2>4. CASE v # w
    <3>1. /\ e.queue[v] = d.queue[v] /\ e.inbox[v] = d.inbox[v]
          /\ HeldBy(e, v) <=> HeldBy(d, v)
      BY <1>3, <1>4, <1>9, <2>4
    <3>2. QED BY <2>1, <3>1 DEF InStep
  <2>5. QED BY <2>3, <2>4
<1>13. Left(e, P)
  BY <1>3, <1>10 DEF TestsInv, Left
<1>14. DevicesInv(e)
  BY <1>3, <1>9 DEF DevicesInv, Accounted, Disjoint
<1>15. Noted(e)
  BY <1>3, NotedShrinks
<1>16. QED BY <1>2, <1>3, <1>7, <1>8, <1>11, <1>12, <1>13, <1>14, <1>15 DEF TestsInv, e

===============================================================================
