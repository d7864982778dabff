------------------------- MODULE ReplyRoutingProofs -------------------------
(* Proofs about ReplyRouting, for any set of sends: where pi queues the     *)
(* sends of a mode in order and answers what it deferred in time, replies   *)
(* go back to where the message they answer came from.                      *)
EXTENDS ReplyRouting, FiniteSetTheorems, WellFoundedInduction, TLAPS

--------------------
(* Sequences as orders: what is in one, and what comes before what. *)

\* Of the naturals with a property there is a least one.
LEMMA Least ==
    ASSUME NEW X \in SUBSET Nat, X # {}
    PROVE  \E n \in X : \A m \in X : n <= m
<1> DEFINE R == OpToRel(<, Nat)
<1>1. R = {p \in Nat \X Nat : p[1] < p[2]} BY Zenon DEF OpToRel
<1>2. IsWellFoundedOn(R, Nat) BY NatLessThanWellFounded, Zenon
<1> HIDE DEF R
<1>3. PICK n \in X : \A m \in X : <<m, n>> \notin R BY <1>2, WFMin, Zenon
<1>4. \A m \in X : ~(m < n) BY <1>3, <1>1
<1> QED BY <1>4

LEMMA AppendView ==
    ASSUME NEW S, NEW p \in Seq(S), NEW x \in S
    PROVE  /\ Append(p, x) \in Seq(S)
           /\ ToSet(Append(p, x)) = ToSet(p) \cup {x}
           /\ \A s, t : Ahead(Append(p, x), s, t) <=> Ahead(p, s, t) \/ (s \in ToSet(p) /\ t = x)
<1> DEFINE r == Append(p, x)
<1>1. r \in Seq(S) /\ Len(r) = Len(p) + 1 /\ Len(p) \in Nat OBVIOUS
<1>2. \A i \in 1..(Len(p) + 1) : r[i] = IF i <= Len(p) THEN p[i] ELSE x OBVIOUS
<1>3. DOMAIN p = 1..Len(p) /\ DOMAIN r = 1..(Len(p) + 1) BY <1>1
<1> HIDE DEF r
<1>4. ToSet(r) = ToSet(p) \cup {x}
  <2>1. \A y \in ToSet(r) : y \in ToSet(p) \cup {x} BY <1>1, <1>2, <1>3 DEF ToSet
  <2>2. \A y \in ToSet(p) : y \in ToSet(r) BY <1>1, <1>2, <1>3 DEF ToSet
  <2>3. x \in ToSet(r)
    <3>1. Len(p) + 1 \in DOMAIN r /\ r[Len(p) + 1] = x BY <1>1, <1>2, <1>3
    <3> QED BY <3>1 DEF ToSet
  <2> QED BY <2>1, <2>2, <2>3
<1>5. ASSUME NEW s, NEW t, Ahead(r, s, t) PROVE Ahead(p, s, t) \/ (s \in ToSet(p) /\ t = x)
  <2>1. PICK i \in 1..(Len(p) + 1), j \in 1..(Len(p) + 1) : i < j /\ r[i] = s /\ r[j] = t
    BY <1>3, <1>5 DEF Ahead
  <2>2. i \in 1..Len(p) /\ p[i] = s BY <2>1, <1>1, <1>2
  <2>3. CASE j <= Len(p)
    <3>1. j \in 1..Len(p) /\ p[j] = t BY <2>1, <2>3, <1>1, <1>2
    <3> QED BY <3>1, <2>1, <2>2, <1>3 DEF Ahead
  <2>4. CASE ~(j <= Len(p)) BY <2>1, <2>2, <2>4, <1>2, <1>3 DEF ToSet
  <2> QED BY <2>3, <2>4
<1>6. ASSUME NEW s, NEW t, Ahead(p, s, t) PROVE Ahead(r, s, t)
  <2>1. PICK i \in 1..Len(p), j \in 1..Len(p) : i < j /\ p[i] = s /\ p[j] = t
    BY <1>3, <1>6 DEF Ahead
  <2>2. i \in DOMAIN r /\ j \in DOMAIN r /\ r[i] = s /\ r[j] = t BY <2>1, <1>1, <1>2, <1>3
  <2> QED BY <2>1, <2>2 DEF Ahead
<1>7. ASSUME NEW s \in ToSet(p) PROVE Ahead(r, s, x)
  <2>1. PICK i \in 1..Len(p) : p[i] = s BY <1>3 DEF ToSet
  <2>2. i \in DOMAIN r /\ r[i] = s /\ Len(p) + 1 \in DOMAIN r /\ r[Len(p) + 1] = x /\ i < Len(p) + 1
    BY <2>1, <1>1, <1>2, <1>3
  <2> QED BY <2>2 DEF Ahead
<1> QED BY <1>1, <1>4, <1>5, <1>6, <1>7 DEF r

LEMMA ConcatView ==
    ASSUME NEW S, NEW p \in Seq(S), NEW q \in Seq(S)
    PROVE  /\ p \o q \in Seq(S)
           /\ ToSet(p \o q) = ToSet(p) \cup ToSet(q)
           /\ \A s, t : Ahead(p \o q, s, t) <=>
                 Ahead(p, s, t) \/ Ahead(q, s, t) \/ (s \in ToSet(p) /\ t \in ToSet(q))
<1> DEFINE r == p \o q
<1>1. /\ r \in Seq(S) /\ Len(r) = Len(p) + Len(q) /\ Len(p) \in Nat /\ Len(q) \in Nat
      /\ \A i \in 1..(Len(p) + Len(q)) : r[i] = IF i <= Len(p) THEN p[i] ELSE q[i - Len(p)]
  OBVIOUS
<1>2. DOMAIN p = 1..Len(p) /\ DOMAIN q = 1..Len(q) /\ DOMAIN r = 1..(Len(p) + Len(q)) BY <1>1
<1> HIDE DEF r
<1>3. \A i \in DOMAIN p : i \in DOMAIN r /\ r[i] = p[i] BY <1>1, <1>2
<1>4. \A i \in DOMAIN q : Len(p) + i \in DOMAIN r /\ r[Len(p) + i] = q[i] BY <1>1, <1>2
<1>5. \A i \in DOMAIN r : IF i <= Len(p) THEN i \in DOMAIN p /\ r[i] = p[i]
                          ELSE i - Len(p) \in DOMAIN q /\ r[i] = q[i - Len(p)]
  BY <1>1, <1>2
<1>6. ToSet(r) = ToSet(p) \cup ToSet(q)
  <2>1. \A y \in ToSet(r) : y \in ToSet(p) \cup ToSet(q) BY <1>5 DEF ToSet
  <2>2. \A y \in ToSet(p) \cup ToSet(q) : y \in ToSet(r) BY <1>3, <1>4 DEF ToSet
  <2> QED BY <2>1, <2>2
<1>7. ASSUME NEW s, NEW t, Ahead(r, s, t)
      PROVE  Ahead(p, s, t) \/ Ahead(q, s, t) \/ (s \in ToSet(p) /\ t \in ToSet(q))
  <2>1. PICK i \in DOMAIN r, j \in DOMAIN r : i < j /\ r[i] = s /\ r[j] = t BY <1>7 DEF Ahead
  <2>2. CASE j <= Len(p)
    <3>1. i <= Len(p) BY <2>1, <2>2, <1>1, <1>2
    <3> QED BY <3>1, <2>1, <2>2, <1>5 DEF Ahead
  <2>3. CASE i <= Len(p) /\ ~(j <= Len(p)) BY <2>1, <2>3, <1>5 DEF ToSet
  <2>4. CASE ~(i <= Len(p))
    <3>1. ~(j <= Len(p)) /\ i - Len(p) < j - Len(p) BY <2>1, <2>4, <1>1, <1>2
    <3> QED BY <3>1, <2>1, <2>4, <1>5 DEF Ahead
  <2> QED BY <2>2, <2>3, <2>4
<1>8. ASSUME NEW s, NEW t, Ahead(p, s, t) PROVE Ahead(r, s, t) BY <1>3, <1>8 DEF Ahead
<1>9. ASSUME NEW s, NEW t, Ahead(q, s, t) PROVE Ahead(r, s, t)
  <2>1. PICK i \in DOMAIN q, j \in DOMAIN q : i < j /\ q[i] = s /\ q[j] = t BY <1>9 DEF Ahead
  <2>2. Len(p) + i < Len(p) + j BY <2>1, <1>1, <1>2
  <2> QED BY <2>1, <2>2, <1>4 DEF Ahead
<1>10. ASSUME NEW s \in ToSet(p), NEW t \in ToSet(q) PROVE Ahead(r, s, t)
  <2>1. PICK i \in DOMAIN p, j \in DOMAIN q : p[i] = s /\ q[j] = t BY DEF ToSet
  <2>2. i < Len(p) + j BY <1>1, <1>2
  <2> QED BY <2>1, <2>2, <1>3, <1>4 DEF Ahead
<1> QED BY <1>1, <1>6, <1>7, <1>8, <1>9, <1>10 DEF r

\* Counting a finite set of naturals from below numbers it.
LEMMA Numbered ==
    ASSUME NEW n \in Nat, NEW I \in SUBSET (1..n)
    PROVE  LET f == [i \in I |-> Cardinality({j \in I : j <= i})] IN
           /\ Cardinality(I) \in Nat
           /\ \A i \in I : f[i] \in 1..Cardinality(I)
           /\ \A i, j \in I : i < j => f[i] < f[j]
           /\ \A k \in 1..Cardinality(I) : \E i \in I : f[i] = k
<1> DEFINE below(i) == {j \in I : j <= i}
           f == [i \in I |-> Cardinality({j \in I : j <= i})]
<1>0. IsFiniteSet(1..n) /\ \A i \in I : i \in Int BY FS_Interval
<1>1. IsFiniteSet(I) /\ Cardinality(I) \in Nat
  <2>1. IsFiniteSet(I) BY <1>0, FS_Subset
  <2> QED BY <2>1, FS_CardinalityType
<1>2. ASSUME NEW i \in I
      PROVE  /\ IsFiniteSet(below(i)) /\ Cardinality(below(i)) \in 1..Cardinality(I)
  <2>1. below(i) \subseteq I /\ i \in below(i) OBVIOUS
  <2>2. IsFiniteSet(below(i)) /\ Cardinality(below(i)) <= Cardinality(I) BY <2>1, <1>1, FS_Subset
  <2>3. Cardinality(below(i)) \in Nat BY <2>2, FS_CardinalityType
  <2>4. Cardinality(below(i)) # 0 BY <2>1, <2>2, FS_EmptySet
  <2> QED BY <2>2, <2>3, <2>4, <1>1
<1>3. ASSUME NEW i \in I, NEW j \in I, i < j PROVE f[i] < f[j]
  <2>1. IsFiniteSet(below(i) \cup {j}) /\ Cardinality(below(i) \cup {j}) = Cardinality(below(i)) + 1
    <3>1. j \notin below(i) BY <1>3
    <3> HIDE DEF below
    <3> QED BY <3>1, <1>2, FS_AddElement
  <2>2. below(i) \cup {j} \subseteq below(j)
    <3>1. \A x \in I : x <= i => x <= j BY <1>0, <1>3
    <3>2. j \in below(j) BY <1>0
    <3>3. \A x \in below(i) : x \in below(j) BY <3>1
    <3> HIDE DEF below
    <3> QED BY <3>2, <3>3
  <2>3. Cardinality(below(i) \cup {j}) <= Cardinality(below(j))
    <3> HIDE DEF below
    <3> QED BY <2>2, <1>2, FS_Subset
  <2>4. f[i] = Cardinality(below(i)) /\ f[j] = Cardinality(below(j)) OBVIOUS
  <2> QED BY <2>1, <2>3, <2>4, <1>2
<1>4. \A i \in I : f[i] \in 1..Cardinality(I) BY <1>2
<1>5. f \in Injection(I, 1..Cardinality(I))
  <2>1. f \in [I -> 1..Cardinality(I)] BY <1>4
  <2>2. \A i, j \in I : i # j => f[i] # f[j]
    <3>1. \A i, j \in I : i # j => i < j \/ j < i BY <1>0
    <3> HIDE DEF f
    <3> QED BY <3>1, <1>1, <1>3, <1>4
  <2> HIDE DEF f
  <2> QED BY <2>1, <2>2 DEF Injection, IsInjective
<1>6. f \in Surjection(I, 1..Cardinality(I))
  <2>1. IsFiniteSet(1..Cardinality(I)) /\ Cardinality(1..Cardinality(I)) = Cardinality(I)
    BY <1>1, FS_Interval
  <2> QED BY <2>1, <1>5, FS_Injection
<1>7. \A k \in 1..Cardinality(I) : \E i \in I : f[i] = k BY <1>6 DEF Surjection
<1> QED BY <1>1, <1>3, <1>4, <1>7

\* What Only keeps is numbered in the order it had: g says where each was.
Picks(g, r, p, T) ==
    /\ g \in [DOMAIN r -> DOMAIN p]
    /\ \A k \in DOMAIN r : r[k] = p[g[k]] /\ p[g[k]] \in T
    /\ \A k, l \in DOMAIN r : k < l <=> g[k] < g[l]
    /\ \A i \in DOMAIN p : p[i] \in T => \E k \in DOMAIN r : g[k] = i

LEMMA OnlyPicks ==
    ASSUME NEW S, NEW p \in Seq(S), NEW T, NEW r, r = Only(p, T)
    PROVE  r \in Seq(S) /\ \E g : Picks(g, r, p, T)
<1> DEFINE I == {i \in DOMAIN p : p[i] \in T}
           f == [i \in I |-> Cardinality({j \in I : j <= i})]
           g == [k \in 1..Cardinality(I) |-> CHOOSE i \in I : Cardinality({j \in I : j <= i}) = k]
<1>1. DOMAIN p = 1..Len(p) /\ Len(p) \in Nat /\ I \in SUBSET (1..Len(p)) OBVIOUS
<1>2. /\ Cardinality(I) \in Nat
      /\ \A i \in I : f[i] \in 1..Cardinality(I)
      /\ \A i, j \in I : i < j => f[i] < f[j]
      /\ \A k \in 1..Cardinality(I) : \E i \in I : f[i] = k
  <2> HIDE DEF I
  <2> QED BY <1>1, Numbered, Zenon
<1>3. r = [k \in 1..Cardinality(I) |-> p[g[k]]]
  <2>1. r = [k \in 1..Cardinality(I) |-> p[CHOOSE i \in I : Cardinality({j \in I : j <= i}) = k]]
    BY Zenon DEF Only
  <2> QED BY <2>1
<1>4. \A k \in 1..Cardinality(I) : g[k] \in I /\ f[g[k]] = k
  <2>1. ASSUME NEW k \in 1..Cardinality(I)
        PROVE  g[k] \in I /\ Cardinality({j \in I : j <= g[k]}) = k
    <3>1. \E i \in I : Cardinality({j \in I : j <= i}) = k BY <1>2
    <3>2. g[k] = CHOOSE i \in I : Cardinality({j \in I : j <= i}) = k OBVIOUS
    <3> HIDE DEF I, f, g
    <3> QED BY <3>1, <3>2, Zenon
  <2> QED BY <2>1
<1>5. \A i \in I : p[i] \in T /\ i \in DOMAIN p /\ p[i] \in S BY <1>1
<1>6. \A i \in DOMAIN p : p[i] \in T => i \in I OBVIOUS
<1>7. DOMAIN g = 1..Cardinality(I) OBVIOUS
<1>8. \A i, j \in I : f[i] < f[j] => i < j
  <2> HIDE DEF f, I
  <2>1. \A i \in I : i \in Int /\ f[i] \in Int BY <1>1, <1>2
  <2> QED BY <2>1, <1>2
<1> HIDE DEF f, g, I
<1>9. r \in Seq(S) /\ DOMAIN r = 1..Cardinality(I) BY <1>2, <1>3, <1>4, <1>5
<1>10. g \in [DOMAIN r -> DOMAIN p] BY <1>4, <1>5, <1>7, <1>9 DEF g
<1>11. \A k \in DOMAIN r : r[k] = p[g[k]] /\ p[g[k]] \in T BY <1>3, <1>4, <1>5, <1>9
<1>12. \A k, l \in DOMAIN r : k < l <=> g[k] < g[l]
  <2> SUFFICES ASSUME NEW k \in 1..Cardinality(I), NEW l \in 1..Cardinality(I)
               PROVE  k < l <=> g[k] < g[l]
    BY <1>9
  <2>1. g[k] \in I /\ g[l] \in I /\ f[g[k]] = k /\ f[g[l]] = l BY <1>4
  <2> QED BY <2>1, <1>2, <1>8
<1>13. \A i \in DOMAIN p : p[i] \in T => \E k \in DOMAIN r : g[k] = i
  <2> SUFFICES ASSUME NEW i \in I PROVE \E k \in DOMAIN r : g[k] = i BY <1>6
  <2>1. f[i] \in DOMAIN r /\ f[g[f[i]]] = f[i] /\ g[f[i]] \in I BY <1>2, <1>4, <1>9
  <2>2. ~(i < g[f[i]]) /\ ~(g[f[i]] < i) BY <2>1, <1>2
  <2>3. i \in Nat /\ g[f[i]] \in Nat BY <2>1, <1>1
  <2>4. g[f[i]] = i BY <2>2, <2>3
  <2> QED BY <2>1, <2>4
<1>14. Picks(g, r, p, T) BY <1>10, <1>11, <1>12, <1>13 DEF Picks
<1> QED BY <1>9, <1>14

LEMMA OnlyView ==
    ASSUME NEW S, NEW p \in Seq(S), NEW T
    PROVE  /\ Only(p, T) \in Seq(S)
           /\ ToSet(Only(p, T)) = ToSet(p) \cap T
           /\ \A s, t : Ahead(Only(p, T), s, t) <=> Ahead(p, s, t) /\ s \in T /\ t \in T
<1> DEFINE r == Only(p, T)
<1>0. r = Only(p, T) OBVIOUS
<1> HIDE DEF r
<1>1. r \in Seq(S) BY <1>0, OnlyPicks
<1>2. PICK g : Picks(g, r, p, T) BY <1>0, OnlyPicks
<1>3. ToSet(r) = ToSet(p) \cap T
  <2>1. \A y \in ToSet(r) : y \in ToSet(p) \cap T BY <1>2 DEF ToSet, Picks
  <2>2. \A y \in ToSet(p) \cap T : y \in ToSet(r) BY <1>2 DEF ToSet, Picks
  <2> QED BY <2>1, <2>2
<1>4. ASSUME NEW s, NEW t, Ahead(r, s, t) PROVE Ahead(p, s, t) /\ s \in T /\ t \in T
  BY <1>2, <1>4 DEF Ahead, Picks
<1>5. ASSUME NEW s \in T, NEW t \in T, Ahead(p, s, t) PROVE Ahead(r, s, t)
  <2>1. PICK i \in DOMAIN p, j \in DOMAIN p : i < j /\ p[i] = s /\ p[j] = t BY <1>5 DEF Ahead
  <2>2. PICK k \in DOMAIN r, l \in DOMAIN r : g[k] = i /\ g[l] = j BY <2>1, <1>2 DEF Picks
  <2> QED BY <2>1, <2>2, <1>2 DEF Ahead, Picks
<1> QED BY <1>0, <1>1, <1>3, <1>4, <1>5

\* Nothing is in p twice.
Single(p) == \A s : ~Ahead(p, s, s)

LEMMA SingleAt ==
    ASSUME NEW S, NEW p \in Seq(S), Single(p), NEW i \in DOMAIN p, NEW j \in DOMAIN p, p[i] = p[j]
    PROVE  i = j
<1>1. ~(i < j) /\ ~(j < i) BY DEF Single, Ahead
<1>2. i \in Nat /\ j \in Nat OBVIOUS
<1> QED BY <1>1, <1>2

LEMMA AheadIn ==
    ASSUME NEW p, NEW s, NEW t, Ahead(p, s, t)
    PROVE  s \in ToSet(p) /\ t \in ToSet(p)
BY DEF Ahead, ToSet

LEMMA Either ==
    ASSUME NEW S, NEW p \in Seq(S), NEW s \in ToSet(p), NEW t \in ToSet(p), s # t
    PROVE  Ahead(p, s, t) \/ Ahead(p, t, s)
<1>1. PICK i \in DOMAIN p, j \in DOMAIN p : p[i] = s /\ p[j] = t BY DEF ToSet
<1>2. i < j \/ j < i BY <1>1
<1> QED BY <1>1, <1>2 DEF Ahead

LEMMA NotBoth ==
    ASSUME NEW S, NEW p \in Seq(S), Single(p), NEW s, NEW t, Ahead(p, s, t)
    PROVE  ~Ahead(p, t, s)
<1> SUFFICES ASSUME Ahead(p, t, s) PROVE FALSE OBVIOUS
<1>1. PICK i \in DOMAIN p, j \in DOMAIN p : i < j /\ p[i] = s /\ p[j] = t BY DEF Ahead
<1>2. PICK k \in DOMAIN p, l \in DOMAIN p : k < l /\ p[k] = t /\ p[l] = s BY DEF Ahead
<1>3. i = l /\ j = k BY <1>1, <1>2, SingleAt
<1> QED BY <1>1, <1>2, <1>3

LEMMA TailView ==
    ASSUME NEW S, NEW p \in Seq(S), p # <<>>, Single(p)
    PROVE  /\ Head(p) \in S /\ Head(p) \in ToSet(p) /\ Tail(p) \in Seq(S)
           /\ ToSet(Tail(p)) = ToSet(p) \ {Head(p)}
           /\ \A s, t : Ahead(Tail(p), s, t) <=> Ahead(p, s, t) /\ s # Head(p)
           /\ \A t \in ToSet(p) \ {Head(p)} : Ahead(p, Head(p), t)
<1> DEFINE r == Tail(p)
           h == Head(p)
<1>1. /\ h = p[1] /\ r \in Seq(S) /\ Len(p) \in Nat \ {0} /\ Len(r) = Len(p) - 1
      /\ \A i \in 1..(Len(p) - 1) : r[i] = p[i + 1]
  OBVIOUS
<1>2. DOMAIN p = 1..Len(p) /\ DOMAIN r = 1..(Len(p) - 1) BY <1>1
<1> HIDE DEF r, h
<1>3. 1 \in DOMAIN p /\ h \in S /\ h \in ToSet(p) BY <1>1, <1>2 DEF ToSet
<1>4. \A i \in DOMAIN r : i + 1 \in DOMAIN p /\ r[i] = p[i + 1] /\ i + 1 # 1 BY <1>1, <1>2
<1>5. \A i \in DOMAIN p : p[i] # h => i - 1 \in DOMAIN r /\ r[i - 1] = p[i] BY <1>1, <1>2
<1>6. \A i \in DOMAIN r : r[i] # h BY <1>1, <1>3, <1>4, SingleAt
<1>7. ToSet(r) = ToSet(p) \ {h}
  <2>1. \A y \in ToSet(r) : y \in ToSet(p) /\ y # h BY <1>4, <1>6 DEF ToSet
  <2>2. \A y \in ToSet(p) : y # h => y \in ToSet(r) BY <1>5 DEF ToSet
  <2> QED BY <2>1, <2>2
<1>8. ASSUME NEW s, NEW t, Ahead(r, s, t) PROVE Ahead(p, s, t) /\ s # h
  <2>1. PICK i \in DOMAIN r, j \in DOMAIN r : i < j /\ r[i] = s /\ r[j] = t BY <1>8 DEF Ahead
  <2>2. i + 1 < j + 1 BY <2>1, <1>1, <1>2
  <2> QED BY <2>1, <2>2, <1>4, <1>6 DEF Ahead
<1>9. ASSUME NEW s, NEW t, Ahead(p, s, t), s # h PROVE Ahead(r, s, t)
  <2>1. PICK i \in DOMAIN p, j \in DOMAIN p : i < j /\ p[i] = s /\ p[j] = t BY <1>9 DEF Ahead
  <2>2. t # h
    <3> SUFFICES ASSUME t = h PROVE FALSE OBVIOUS
    <3>1. j = 1 BY <2>1, <1>1, <1>3, SingleAt
    <3> QED BY <3>1, <2>1, <1>1, <1>2
  <2>3. i - 1 < j - 1 BY <2>1, <1>1, <1>2
  <2> QED BY <2>1, <2>2, <2>3, <1>5, <1>9 DEF Ahead
<1>10. ASSUME NEW t \in ToSet(p), t # h PROVE Ahead(p, h, t)
  <2>1. PICK i \in DOMAIN p : p[i] = t BY DEF ToSet
  <2>2. 1 < i BY <2>1, <1>10, <1>1, <1>2
  <2> QED BY <2>1, <2>2, <1>1, <1>3 DEF Ahead
<1> QED BY <1>1, <1>3, <1>7, <1>8, <1>9, <1>10 DEF r, h

LEMMA FirstIsHead ==
    ASSUME NEW S, NEW p \in Seq(S), Single(p), NEW x \in ToSet(p),
           \A y \in ToSet(p) : y # x => Ahead(p, x, y)
    PROVE  p # <<>> /\ Head(p) = x
<1>1. p # <<>> BY DEF ToSet
<1>2. Head(p) \in ToSet(p) /\ \A t \in ToSet(p) \ {Head(p)} : Ahead(p, Head(p), t) BY <1>1, TailView
<1> QED BY <1>1, <1>2, NotBoth

\* A sequence without repetition is known by what is in it and in which order.
LEMMA SameView ==
    ASSUME NEW S, NEW p \in Seq(S), NEW q \in Seq(S), Single(p), Single(q),
           ToSet(p) = ToSet(q), \A s, t : Ahead(p, s, t) => Ahead(q, s, t)
    PROVE  p = q
<1>1. /\ DOMAIN p = 1..Len(p) /\ DOMAIN q = 1..Len(q) /\ Len(p) \in Nat /\ Len(q) \in Nat OBVIOUS
<1> DEFINE Bad == {n \in Nat : n >= 1 /\ ~(n \in DOMAIN p /\ n \in DOMAIN q /\ p[n] = q[n])
                                 /\ (n \in DOMAIN p \/ n \in DOMAIN q)}
<1>2. CASE Bad = {}
  <2>1. \A n \in 1..Len(p) : n \in DOMAIN q /\ p[n] = q[n] BY <1>1, <1>2
  <2>2. \A n \in 1..Len(q) : n \in DOMAIN p BY <1>1, <1>2
  <2>3. Len(p) = Len(q)
    <3> DEFINE m == Len(p)
               n == Len(q)
    <3>1. m \in 1..m => m \in 1..n BY <2>1, <1>1
    <3>2. n \in 1..n => n \in 1..m BY <2>2, <1>1
    <3>3. m \in Nat /\ n \in Nat BY <1>1
    <3> HIDE DEF m, n
    <3>4. m = n BY <3>1, <3>2, <3>3
    <3> QED BY <3>4 DEF m, n
  <2> QED BY <2>1, <2>3, <1>1
<1>3. CASE Bad # {}
  <2>1. PICK n \in Bad : \A m \in Bad : n <= m BY <1>3, Least
  <2>2. n \in Nat \ {0} /\ \A m \in Nat : m < n => m \notin Bad BY <2>1
  <2>3. \A m \in 1..(n - 1) : m \in DOMAIN p /\ m \in DOMAIN q /\ p[m] = q[m]
    <3> SUFFICES ASSUME NEW m \in 1..(n - 1) PROVE m \in DOMAIN p /\ m \in DOMAIN q /\ p[m] = q[m]
      OBVIOUS
    <3>1. m \notin Bad /\ m \in Nat /\ m >= 1 BY <2>2
    <3>2. m \in DOMAIN p \/ m \in DOMAIN q BY <2>1, <2>2, <1>1
    <3> QED BY <3>1, <3>2
  \* The element of one at n is in the other further on, with another before it.
  <2>4. ASSUME n \in DOMAIN p PROVE \E k \in DOMAIN q : q[k] = p[n] /\ n <= k
    <3>1. PICK k \in DOMAIN q : q[k] = p[n] BY <2>4 DEF ToSet
    <3>2. ~(k < n)
      <4> SUFFICES ASSUME k < n PROVE FALSE OBVIOUS
      <4>1. k \in 1..(n - 1) BY <2>2, <1>1
      <4>2. k \in DOMAIN p /\ p[k] = p[n] BY <4>1, <2>3, <3>1
      <4>3. k = n BY <4>2, <2>4, SingleAt
      <4> QED BY <4>1, <4>3, <2>2
    <3> QED BY <3>1, <3>2, <2>2, <1>1
  <2>5. ASSUME n \in DOMAIN q PROVE \E k \in DOMAIN p : p[k] = q[n] /\ n <= k
    <3>1. PICK k \in DOMAIN p : p[k] = q[n] BY <2>5 DEF ToSet
    <3>2. ~(k < n)
      <4> SUFFICES ASSUME k < n PROVE FALSE OBVIOUS
      <4>1. k \in 1..(n - 1) BY <2>2, <1>1
      <4>2. k \in DOMAIN q /\ q[k] = q[n] BY <4>1, <2>3, <3>1
      <4>3. k = n BY <4>2, <2>5, SingleAt
      <4> QED BY <4>1, <4>3, <2>2
    <3> QED BY <3>1, <3>2, <2>2, <1>1
  <2>6. n \in DOMAIN p /\ n \in DOMAIN q
    <3>1. n \in DOMAIN p => n \in DOMAIN q BY <2>4, <2>2, <1>1
    <3>2. n \in DOMAIN q => n \in DOMAIN p BY <2>5, <2>2, <1>1
    <3> QED BY <2>1, <3>1, <3>2
  <2>7. p[n] # q[n] BY <2>1, <2>6
  <2>8. PICK k \in DOMAIN q : q[k] = p[n] /\ n <= k BY <2>4, <2>6
  <2>9. PICK l \in DOMAIN p : p[l] = q[n] /\ n <= l BY <2>5, <2>6
  <2>10. n < k /\ n < l BY <2>6, <2>7, <2>8, <2>9, <2>2, <1>1
  <2>11. Ahead(p, p[n], q[n]) BY <2>6, <2>9, <2>10 DEF Ahead
  <2>12. Ahead(q, q[n], p[n]) BY <2>6, <2>8, <2>10 DEF Ahead
  <2> QED BY <2>11, <2>12, NotBoth
<1> QED BY <1>2, <1>3

--------------------
(* The queues: who is in one, in which state, and before whom. *)

LEMMA SentView ==
    ASSUME NEW q \in Seq(Entry)
    PROVE  /\ Sends(q) \in Seq(Send) /\ Len(Sends(q)) = Len(q)
           /\ \A e \in ToSet(q) : e \in Entry
           /\ \A s : s \in Sent(q) <=> \E e \in ToSet(q) : e.send = s
           /\ \A s, t : Order(q, s, t) <=>
                 \E e, f \in ToSet(q) : e.send = s /\ f.send = t /\ Ahead(q, e, f)
<1>1. /\ Sends(q) \in Seq(Send) /\ Len(Sends(q)) = Len(q) /\ DOMAIN Sends(q) = DOMAIN q
      /\ \A i \in DOMAIN q : q[i] \in Entry /\ Sends(q)[i] = q[i].send
  <2>1. DOMAIN q = 1..Len(q) /\ Len(q) \in Nat /\ \A i \in 1..Len(q) : q[i] \in Entry OBVIOUS
  <2>2. \A e \in Entry : e.send \in Send BY DEF Entry
  <2>3. Sends(q) = [i \in 1..Len(q) |-> q[i].send] BY <2>1 DEF Sends
  <2>4. Sends(q) \in Seq(Send) BY <2>1, <2>2, <2>3
  <2>5. DOMAIN Sends(q) = 1..Len(q) BY <2>3
  <2>6. Len(Sends(q)) = Len(q) BY <2>1, <2>4, <2>5
  <2> QED BY <2>1, <2>3, <2>4, <2>5, <2>6
<1>2. \A s : s \in Sent(q) <=> \E e \in ToSet(q) : e.send = s BY <1>1 DEF Sent, ToSet
<1>3. ASSUME NEW s, NEW t, Order(q, s, t)
      PROVE  \E e, f \in ToSet(q) : e.send = s /\ f.send = t /\ Ahead(q, e, f)
  BY <1>1, <1>3 DEF Order, Ahead, ToSet
<1>4. ASSUME NEW e \in ToSet(q), NEW f \in ToSet(q), Ahead(q, e, f)
      PROVE  Order(q, e.send, f.send)
  BY <1>1, <1>4 DEF Order, Ahead
<1>5. \A e \in ToSet(q) : e \in Entry BY <1>1 DEF ToSet
<1> QED BY <1>1, <1>2, <1>3, <1>4, <1>5

LEMMA HeldView ==
    ASSUME NEW q \in Seq(Entry)
    PROVE  /\ Sent(q) \subseteq Send
           /\ \A s : s \in Sent(q) <=> \E x \in State : Holds(q, s, x)
           /\ \A s, x : Holds(q, s, x) => s \in Send /\ x \in State /\ s \in Sent(q)
<1>1. \A e \in ToSet(q) : e \in Entry BY SentView
<1>2. \A e \in Entry : e.send \in Send /\ e.state \in State /\ e = [send |-> e.send, state |-> e.state]
  BY DEF Entry
<1>3. \A s, x : [send |-> s, state |-> x].send = s /\ [send |-> s, state |-> x].state = x OBVIOUS
<1>4. \A s : s \in Sent(q) <=> \E e \in ToSet(q) : e.send = s BY SentView
<1>5. ASSUME NEW s, NEW x, Holds(q, s, x) PROVE s \in Send /\ x \in State /\ s \in Sent(q)
  BY <1>1, <1>2, <1>3, <1>4, <1>5 DEF Holds
<1>6. ASSUME NEW s \in Sent(q) PROVE s \in Send /\ \E x \in State : Holds(q, s, x)
  <2>1. PICK e \in ToSet(q) : e.send = s BY <1>4
  <2> QED BY <2>1, <1>1, <1>2 DEF Holds
<1> QED BY <1>5, <1>6

LEMMA OneState ==
    ASSUME NEW q \in Seq(Entry), Single(Sends(q))
    PROVE  /\ Single(q)
           /\ \A e, f \in ToSet(q) : e.send = f.send => e = f
           /\ \A s, x, y : Holds(q, s, x) /\ Holds(q, s, y) => x = y
<1>1. Single(q)
  <2> SUFFICES ASSUME NEW e, Ahead(q, e, e) PROVE FALSE BY DEF Single
  <2>1. e \in ToSet(q) BY AheadIn
  <2>2. Order(q, e.send, e.send) BY <2>1, SentView
  <2> QED BY <2>2 DEF Order, Single
<1>2. ASSUME NEW e \in ToSet(q), NEW f \in ToSet(q), e.send = f.send PROVE e = f
  <2> SUFFICES ASSUME e # f PROVE FALSE OBVIOUS
  <2>1. Ahead(q, e, f) \/ Ahead(q, f, e) BY Either
  <2>2. Order(q, e.send, e.send) BY <2>1, <1>2, SentView
  <2> QED BY <2>2 DEF Order, Single
<1>3. ASSUME NEW s, NEW x, NEW y, Holds(q, s, x), Holds(q, s, y) PROVE x = y
  <2>1. [send |-> s, state |-> x].send = [send |-> s, state |-> y].send OBVIOUS
  <2>2. [send |-> s, state |-> x] = [send |-> s, state |-> y] BY <2>1, <1>2, <1>3 DEF Holds
  <2>3. [send |-> s, state |-> x].state = [send |-> s, state |-> y].state BY <2>2
  <2> QED BY <2>3
<1> QED BY <1>1, <1>2, <1>3

LEMMA OrderIn ==
    ASSUME NEW q \in Seq(Entry), NEW s, NEW t, Order(q, s, t)
    PROVE  s \in Sent(q) /\ t \in Sent(q)
BY AheadIn DEF Order, Sent

LEMMA OrderIsTotal ==
    ASSUME NEW q \in Seq(Entry), Single(Sends(q)), NEW s \in Sent(q), NEW t \in Sent(q), s # t
    PROVE  Order(q, s, t) <=> ~Order(q, t, s)
<1>1. Sends(q) \in Seq(Send) BY SentView
<1>2. Order(q, s, t) \/ Order(q, t, s) BY <1>1, Either DEF Order, Sent
<1>3. Order(q, s, t) => ~Order(q, t, s) BY <1>1, NotBoth DEF Order
<1> QED BY <1>2, <1>3

LEMMA OnlyQueue ==
    ASSUME NEW q \in Seq(Entry), Single(Sends(q)), NEW T, NEW r, r = Only(q, T)
    PROVE  /\ r \in Seq(Entry) /\ Single(Sends(r))
           /\ \A s, x : Holds(r, s, x) <=> Holds(q, s, x) /\ [send |-> s, state |-> x] \in T
           /\ \A s, t : Order(r, s, t) <=> Order(q, s, t) /\ s \in Sent(r) /\ t \in Sent(r)
<1>1. /\ r \in Seq(Entry) /\ ToSet(r) = ToSet(q) \cap T
      /\ \A e, f : Ahead(r, e, f) <=> Ahead(q, e, f) /\ e \in T /\ f \in T
  BY OnlyView
<1>2. \A s, x : Holds(r, s, x) <=> Holds(q, s, x) /\ [send |-> s, state |-> x] \in T
  BY <1>1 DEF Holds
<1>3. ASSUME NEW s, NEW t, Order(r, s, t) PROVE Order(q, s, t) /\ s \in Sent(r) /\ t \in Sent(r)
  <2>1. PICK e \in ToSet(r), f \in ToSet(r) : e.send = s /\ f.send = t /\ Ahead(r, e, f)
    BY <1>1, <1>3, SentView
  <2>2. e \in ToSet(q) /\ f \in ToSet(q) /\ Ahead(q, e, f) BY <2>1, <1>1
  <2> QED BY <2>1, <2>2, <1>1, <1>3, SentView, OrderIn
<1>4. ASSUME NEW s \in Sent(r), NEW t \in Sent(r), Order(q, s, t) PROVE Order(r, s, t)
  <2>1. PICK e \in ToSet(q), f \in ToSet(q) : e.send = s /\ f.send = t /\ Ahead(q, e, f)
    BY <1>4, SentView
  <2>2. PICK d \in ToSet(r), g \in ToSet(r) : d.send = s /\ g.send = t BY <1>1, SentView
  <2>3. d = e /\ g = f BY <2>1, <2>2, <1>1, OneState
  <2> QED BY <2>1, <2>2, <2>3, <1>1, SentView
<1>5. Single(Sends(r)) BY <1>3 DEF Single, Order
<1> QED BY <1>1, <1>2, <1>3, <1>4, <1>5

LEMMA WithoutView ==
    ASSUME NEW q \in Seq(Entry), Single(Sends(q)), NEW u, NEW r, r = Without(q, u)
    PROVE  /\ r \in Seq(Entry) /\ Single(Sends(r))
           /\ \A s, x : Holds(r, s, x) <=> Holds(q, s, x) /\ s # u
           /\ Sent(r) = Sent(q) \ {u}
           /\ \A s, t : Order(r, s, t) <=> Order(q, s, t) /\ s # u /\ t # u
<1> DEFINE T == {e \in ToSet(q) : e.send # u}
<1>1. r = Only(q, T) BY DEF Without
<1>2. \A s, x : Holds(q, s, x) => ([send |-> s, state |-> x] \in T <=> s # u) BY DEF Holds
<1> HIDE DEF T
<1>3. /\ r \in Seq(Entry) /\ Single(Sends(r))
      /\ \A s, x : Holds(r, s, x) <=> Holds(q, s, x) /\ [send |-> s, state |-> x] \in T
      /\ \A s, t : Order(r, s, t) <=> Order(q, s, t) /\ s \in Sent(r) /\ t \in Sent(r)
  BY <1>1, OnlyQueue
<1>4. \A s, x : Holds(r, s, x) <=> Holds(q, s, x) /\ s # u BY <1>2, <1>3
<1>5. Sent(r) = Sent(q) \ {u}
  <2>1. \A s : s \in Sent(r) <=> s \in Sent(q) /\ s # u BY <1>3, <1>4, HeldView
  <2> QED BY <2>1
<1>6. \A s, t : Order(q, s, t) => s \in Sent(q) /\ t \in Sent(q) BY OrderIn
<1> QED BY <1>3, <1>4, <1>5, <1>6

LEMMA InStateView ==
    ASSUME NEW q \in Seq(Entry), Single(Sends(q)), NEW X, NEW r, r = InState(q, X)
    PROVE  /\ r \in Seq(Entry) /\ Single(Sends(r))
           /\ \A s, x : Holds(r, s, x) <=> Holds(q, s, x) /\ x \in X
           /\ \A s, t : Order(r, s, t) <=> Order(q, s, t) /\ s \in Sent(r) /\ t \in Sent(r)
<1> DEFINE T == {e \in ToSet(q) : e.state \in X}
<1>1. r = Only(q, T) BY DEF InState
<1>2. \A s, x : Holds(q, s, x) => ([send |-> s, state |-> x] \in T <=> x \in X) BY DEF Holds
<1> HIDE DEF T
<1>3. /\ r \in Seq(Entry) /\ Single(Sends(r))
      /\ \A s, x : Holds(r, s, x) <=> Holds(q, s, x) /\ [send |-> s, state |-> x] \in T
      /\ \A s, t : Order(r, s, t) <=> Order(q, s, t) /\ s \in Sent(r) /\ t \in Sent(r)
  BY <1>1, OnlyQueue
<1> QED BY <1>2, <1>3

LEMMA RecordedView ==
    ASSUME NEW q \in Seq(Entry), Single(Sends(q)), NEW u \in Send \ Sent(q), NEW x \in State,
           NEW r, r = Recorded(q, u, x)
    PROVE  /\ r \in Seq(Entry) /\ Single(Sends(r))
           /\ \A s, y : Holds(r, s, y) <=> Holds(q, s, y) \/ (s = u /\ y = x)
           /\ Sent(r) = Sent(q) \cup {u}
           /\ \A s, t : Order(r, s, t) <=> Order(q, s, t) \/ (s \in Sent(q) /\ t = u)
<1> DEFINE e == [send |-> u, state |-> x]
<1>1. e \in Entry /\ e.send = u /\ e.state = x BY DEF Entry
<1>2. r = Append(q, e) BY DEF Recorded
<1>3. \A s, y : [send |-> s, state |-> y] = e <=> s = u /\ y = x
  <2>1. \A s, y : [send |-> s, state |-> y].send = s /\ [send |-> s, state |-> y].state = y OBVIOUS
  <2> QED BY <2>1, <1>1
<1> HIDE DEF e
<1>4. r \in Seq(Entry) /\ ToSet(r) = ToSet(q) \cup {e} BY <1>1, <1>2, AppendView
<1>5. \A s, y : Holds(r, s, y) <=> Holds(q, s, y) \/ (s = u /\ y = x) BY <1>3, <1>4 DEF Holds
<1>6. Sends(r) = Append(Sends(q), u)
  <2>1. /\ DOMAIN q = 1..Len(q) /\ Len(q) \in Nat /\ DOMAIN r = 1..(Len(q) + 1)
        /\ \A i \in 1..(Len(q) + 1) : r[i] = IF i <= Len(q) THEN q[i] ELSE e
    BY <1>1, <1>2
  <2>2. /\ DOMAIN Sends(q) = 1..Len(q) /\ Sends(q) \in Seq(Send) /\ Len(Sends(q)) = Len(q)
        /\ \A i \in 1..Len(q) : Sends(q)[i] = q[i].send
    BY <2>1, SentView DEF Sends
  <2>3. Sends(r) = [i \in 1..(Len(q) + 1) |-> r[i].send] BY <2>1 DEF Sends
  <2>4. Append(Sends(q), u) = [i \in 1..(Len(q) + 1) |-> IF i <= Len(q) THEN Sends(q)[i] ELSE u]
    <3> DEFINE p == Sends(q)
    <3>1. p \in Seq(Send) /\ Len(p) = Len(q) BY <2>2
    <3> HIDE DEF p
    <3> DEFINE a == Append(p, u)
    <3>2. a \in Seq(Send) /\ Len(a) = Len(p) + 1 /\ Len(p) \in Nat BY <3>1
    <3>3. \A i \in 1..(Len(p) + 1) : a[i] = IF i <= Len(p) THEN p[i] ELSE u BY <3>1
    <3> HIDE DEF a
    <3>4. a = [i \in 1..(Len(p) + 1) |-> a[i]] BY <3>2
    <3>5. a = [i \in 1..(Len(p) + 1) |-> IF i <= Len(p) THEN p[i] ELSE u] BY <3>3, <3>4
    <3> QED BY <3>1, <3>5 DEF p, a
  <2>5. \A i \in 1..(Len(q) + 1) : r[i].send = IF i <= Len(q) THEN Sends(q)[i] ELSE u
    BY <2>1, <2>2, <1>1
  <2> QED BY <2>3, <2>4, <2>5
<1>7. Sends(q) \in Seq(Send) BY SentView
<1>8. /\ Sent(r) = Sent(q) \cup {u}
      /\ \A s, t : Order(r, s, t) <=> Order(q, s, t) \/ (s \in Sent(q) /\ t = u)
  BY <1>6, <1>7, AppendView DEF Sent, Order
<1>9. Single(Sends(r)) BY <1>8 DEF Single, Order
<1> QED BY <1>4, <1>5, <1>8, <1>9

LEMMA ConcatQueue ==
    ASSUME NEW q \in Seq(Entry), NEW r \in Seq(Entry)
    PROVE  /\ q \o r \in Seq(Entry)
           /\ \A s, x : Holds(q \o r, s, x) <=> Holds(q, s, x) \/ Holds(r, s, x)
           /\ \A s, t : Order(q \o r, s, t) <=>
                 Order(q, s, t) \/ Order(r, s, t) \/ (s \in Sent(q) /\ t \in Sent(r))
           /\ Sent(q \o r) = Sent(q) \cup Sent(r)
<1> DEFINE c == q \o r
<1>1. /\ c \in Seq(Entry) /\ ToSet(c) = ToSet(q) \cup ToSet(r)
      /\ \A e, f : Ahead(c, e, f) <=>
            Ahead(q, e, f) \/ Ahead(r, e, f) \/ (e \in ToSet(q) /\ f \in ToSet(r))
  BY ConcatView
<1> HIDE DEF c
<1>2. \A s, x : Holds(c, s, x) <=> Holds(q, s, x) \/ Holds(r, s, x) BY <1>1 DEF Holds
<1>3. Sent(c) = Sent(q) \cup Sent(r)
  <2>1. \A s : s \in Sent(c) <=> s \in Sent(q) \/ s \in Sent(r) BY <1>1, SentView
  <2> QED BY <2>1
<1>4. ASSUME NEW s, NEW t, Order(c, s, t)
      PROVE  Order(q, s, t) \/ Order(r, s, t) \/ (s \in Sent(q) /\ t \in Sent(r))
  <2>1. PICK e \in ToSet(c), f \in ToSet(c) : e.send = s /\ f.send = t /\ Ahead(c, e, f)
    BY <1>1, <1>4, SentView
  <2>2. CASE Ahead(q, e, f) BY <2>1, <2>2, SentView, AheadIn
  <2>3. CASE Ahead(r, e, f) BY <2>1, <2>3, SentView, AheadIn
  <2>4. CASE e \in ToSet(q) /\ f \in ToSet(r) BY <2>1, <2>4, SentView
  <2> QED BY <2>1, <2>2, <2>3, <2>4, <1>1
<1>5. ASSUME NEW s, NEW t, Order(q, s, t) \/ Order(r, s, t) \/ (s \in Sent(q) /\ t \in Sent(r))
      PROVE  Order(c, s, t)
  <2>1. \E e, f \in ToSet(c) : e.send = s /\ f.send = t /\ Ahead(c, e, f)
    <3>1. CASE Order(q, s, t) BY <3>1, <1>1, SentView
    <3>2. CASE Order(r, s, t) BY <3>2, <1>1, SentView
    <3>3. CASE s \in Sent(q) /\ t \in Sent(r) BY <3>3, <1>1, SentView
    <3> QED BY <1>5, <3>1, <3>2, <3>3
  <2> QED BY <2>1, <1>1, SentView
<1> QED BY <1>1, <1>2, <1>3, <1>4, <1>5 DEF c

LEMMA OneEntryQueue ==
    ASSUME NEW u \in Send, NEW x \in State
    PROVE  LET q == <<[send |-> u, state |-> x]>> IN
           /\ q \in Seq(Entry) /\ Sent(q) = {u}
           /\ \A s, y : Holds(q, s, y) <=> s = u /\ y = x
           /\ \A s, t : ~Order(q, s, t)
<1> DEFINE e == [send |-> u, state |-> x]
           q == <<e>>
<1>1. e \in Entry /\ e.send = u /\ e.state = x BY DEF Entry
<1>2. \A s, y : [send |-> s, state |-> y] = e <=> s = u /\ y = x
  <2>1. \A s, y : [send |-> s, state |-> y].send = s /\ [send |-> s, state |-> y].state = y OBVIOUS
  <2> QED BY <2>1, <1>1
<1> HIDE DEF e
<1>3. q \in Seq(Entry) /\ DOMAIN q = {1} /\ q[1] = e BY <1>1
<1> HIDE DEF q
<1>4. ToSet(q) = {e} /\ \A d, f : ~Ahead(q, d, f) BY <1>3 DEF ToSet, Ahead
<1>5. \A s, y : Holds(q, s, y) <=> s = u /\ y = x BY <1>2, <1>4 DEF Holds
<1>6. Sent(q) = {u} /\ \A s, t : ~Order(q, s, t) BY <1>1, <1>3, <1>4, SentView
<1> QED BY <1>3, <1>5, <1>6 DEF q, e

LEMMA WithStateView ==
    ASSUME NEW q \in Seq(Entry), Single(Sends(q)), NEW u, NEW x \in State,
           NEW r, r = WithState(q, u, x)
    PROVE  /\ r \in Seq(Entry) /\ Single(Sends(r)) /\ Sent(r) = Sent(q)
           /\ \A s, y : Holds(r, s, y) <=>
                 (s = u /\ y = x /\ u \in Sent(q)) \/ (s # u /\ Holds(q, s, y))
           /\ \A s, t : Order(r, s, t) <=> Order(q, s, t)
<1>1. /\ DOMAIN q = 1..Len(q) /\ Len(q) \in Nat /\ \A i \in 1..Len(q) : q[i] \in Entry OBVIOUS
<1>2. \A e \in Entry : /\ [e EXCEPT !.state = x] \in Entry /\ [e EXCEPT !.state = x].send = e.send
                       /\ [e EXCEPT !.state = x] = [send |-> e.send, state |-> x]
  BY DEF Entry
<1>3. r = [i \in 1..Len(q) |-> IF q[i].send = u THEN [q[i] EXCEPT !.state = x] ELSE q[i]]
  BY <1>1 DEF WithState
<1>4. /\ DOMAIN r = 1..Len(q)
      /\ \A i \in 1..Len(q) : /\ r[i] \in Entry /\ r[i].send = q[i].send
                              /\ r[i] = IF q[i].send = u THEN [send |-> u, state |-> x] ELSE q[i]
  BY <1>1, <1>2, <1>3
<1>5. r \in Seq(Entry) BY <1>1, <1>3, <1>4
<1>6. Sends(r) = Sends(q) BY <1>1, <1>4 DEF Sends
<1>7. Single(Sends(r)) /\ Sent(r) = Sent(q) /\ \A s, t : Order(r, s, t) <=> Order(q, s, t)
  BY <1>6 DEF Sent, Order
<1>8. \A s, y : [send |-> s, state |-> y].send = s /\ [send |-> s, state |-> y].state = y OBVIOUS
<1>9. ASSUME NEW s, NEW y, Holds(r, s, y)
      PROVE  (s = u /\ y = x /\ u \in Sent(q)) \/ (s # u /\ Holds(q, s, y))
  <2>1. PICK i \in 1..Len(q) : r[i] = [send |-> s, state |-> y] BY <1>4, <1>9 DEF Holds, ToSet
  <2>2. r[i].send = s /\ r[i].state = y /\ q[i].send = s BY <2>1, <1>4, <1>8
  <2>3. CASE s = u
    <3>1. r[i] = [send |-> u, state |-> x] BY <2>2, <2>3, <1>4
    <3>2. y = x BY <3>1, <2>2, <1>8
    <3>3. u \in Sent(r) BY <1>5, <1>9, <2>3, HeldView
    <3> QED BY <2>3, <3>2, <3>3, <1>7
  <2>4. CASE s # u
    <3>1. q[i] = [send |-> s, state |-> y] BY <2>1, <2>2, <2>4, <1>4
    <3> QED BY <3>1, <2>4, <1>1 DEF Holds, ToSet
  <2> QED BY <2>3, <2>4
<1>10. ASSUME u \in Sent(q) PROVE Holds(r, u, x)
  <2>1. PICK e \in ToSet(q) : e.send = u BY <1>10, SentView
  <2>2. PICK i \in 1..Len(q) : q[i].send = u BY <2>1, <1>1 DEF ToSet
  <2>3. r[i] = [send |-> u, state |-> x] BY <2>2, <1>4
  <2> QED BY <2>3, <1>4 DEF Holds, ToSet
<1>11. ASSUME NEW s, NEW y, s # u, Holds(q, s, y) PROVE Holds(r, s, y)
  <2>1. PICK i \in 1..Len(q) : q[i] = [send |-> s, state |-> y] BY <1>1, <1>11 DEF Holds, ToSet
  <2>2. q[i].send # u BY <2>1, <1>8, <1>11
  <2>3. r[i] = [send |-> s, state |-> y] BY <2>1, <2>2, <1>4
  <2> QED BY <2>3, <1>4 DEF Holds, ToSet
<1> QED BY <1>5, <1>7, <1>9, <1>10, <1>11

LEMMA PromotedView ==
    ASSUME NEW q \in Seq(Entry), Single(Sends(q)), NEW u \in Send \ Sent(q),
           NEW r, r = Promoted(q, u)
    PROVE  /\ r \in Seq(Entry) /\ Single(Sends(r)) /\ Sent(r) = Sent(q) \cup {u}
           /\ \A s, x : Holds(r, s, x) <=> Holds(q, s, x) \/ (s = u /\ x = "started")
           /\ \A s, t \in Sent(q) :
                 Order(r, s, t) <=>
                    \/ Holds(q, s, "started") /\ ~Holds(q, t, "started")
                    \/ Order(q, s, t) /\ (Holds(q, s, "started") <=> Holds(q, t, "started"))
           /\ \A t \in Sent(q) : /\ Order(r, u, t) <=> ~Holds(q, t, "started")
                                 /\ Order(r, t, u) <=> Holds(q, t, "started")
<1> DEFINE a == InState(q, Started)
           b == InState(q, State \ Started)
           e == <<[send |-> u, state |-> "started"]>>
<1>1. r = (a \o e) \o b BY DEF Promoted
<1>2. a = InState(q, Started) /\ b = InState(q, State \ Started) OBVIOUS
<1> HIDE DEF a, b
<1>3. /\ a \in Seq(Entry) /\ Single(Sends(a))
      /\ \A s, x : Holds(a, s, x) <=> Holds(q, s, x) /\ x \in Started
      /\ \A s, t : Order(a, s, t) <=> Order(q, s, t) /\ s \in Sent(a) /\ t \in Sent(a)
  BY <1>2, InStateView
<1>4. /\ b \in Seq(Entry) /\ Single(Sends(b))
      /\ \A s, x : Holds(b, s, x) <=> Holds(q, s, x) /\ x \in State \ Started
      /\ \A s, t : Order(b, s, t) <=> Order(q, s, t) /\ s \in Sent(b) /\ t \in Sent(b)
  BY <1>2, InStateView
<1>5. /\ e \in Seq(Entry) /\ Sent(e) = {u}
      /\ \A s, y : Holds(e, s, y) <=> s = u /\ y = "started"
      /\ \A s, t : ~Order(e, s, t)
  BY OneEntryQueue, Zenon DEF State
<1> HIDE DEF e
<1>6. \A s : s \in Sent(a) <=> Holds(q, s, "started") BY <1>3, HeldView DEF Started, State
<1>7. \A s : s \in Sent(b) <=> s \in Sent(q) /\ ~Holds(q, s, "started")
  <2>1. \A s : s \in Sent(b) <=> \E x \in State : Holds(q, s, x) /\ x # "started"
    BY <1>4, HeldView DEF Started
  <2>2. \A s, x : Holds(q, s, x) /\ Holds(q, s, "started") => x = "started" BY OneState
  <2>3. \A s : s \in Sent(q) <=> \E x \in State : Holds(q, s, x) BY HeldView
  <2> QED BY <2>1, <2>2, <2>3
<1>8. /\ a \o e \in Seq(Entry)
      /\ \A s, x : Holds(a \o e, s, x) <=> Holds(a, s, x) \/ Holds(e, s, x)
      /\ \A s, t : Order(a \o e, s, t) <=> Order(a, s, t) \/ Order(e, s, t) \/ (s \in Sent(a) /\ t \in Sent(e))
      /\ Sent(a \o e) = Sent(a) \cup Sent(e)
  BY <1>3, <1>5, ConcatQueue
<1> DEFINE c == a \o e
<1> HIDE DEF c
<1>9. /\ r \in Seq(Entry)
      /\ \A s, x : Holds(r, s, x) <=> Holds(c, s, x) \/ Holds(b, s, x)
      /\ \A s, t : Order(r, s, t) <=> Order(c, s, t) \/ Order(b, s, t) \/ (s \in Sent(c) /\ t \in Sent(b))
      /\ Sent(r) = Sent(c) \cup Sent(b)
  <2>1. r = c \o b /\ c \in Seq(Entry) BY <1>1, <1>8 DEF c
  <2> QED BY <2>1, <1>4, ConcatQueue
<1>10. \A s : s \in Sent(c) <=> Holds(q, s, "started") \/ s = u BY <1>5, <1>6, <1>8 DEF c
<1>11. \A s, t : Order(c, s, t) <=>
           \/ Order(q, s, t) /\ Holds(q, s, "started") /\ Holds(q, t, "started")
           \/ Holds(q, s, "started") /\ t = u
  BY <1>3, <1>5, <1>6, <1>8 DEF c
<1>12. \A s, t : Order(b, s, t) <=>
           /\ Order(q, s, t) /\ ~Holds(q, s, "started") /\ ~Holds(q, t, "started")
  BY <1>4, <1>7, OrderIn
<1>13. \A s, x : Holds(q, s, x) => s \in Sent(q) /\ x \in State BY HeldView
<1>14. \A s, x : Holds(r, s, x) <=> Holds(q, s, x) \/ (s = u /\ x = "started")
  BY <1>3, <1>4, <1>5, <1>8, <1>9, <1>13 DEF c, Started
<1>15. Sent(r) = Sent(q) \cup {u}
  <2>1. \A s : s \in Sent(r) <=> s \in Sent(q) \/ s = u BY <1>7, <1>9, <1>10, <1>13
  <2> QED BY <2>1
<1>16. \A s, t : Order(q, s, t) => s \in Sent(q) /\ t \in Sent(q) BY OrderIn
<1>17. \A s, t : Order(r, s, t) <=>
           \/ Order(q, s, t) /\ Holds(q, s, "started") /\ Holds(q, t, "started")
           \/ Holds(q, s, "started") /\ t = u
           \/ Order(q, s, t) /\ ~Holds(q, s, "started") /\ ~Holds(q, t, "started")
           \/ (Holds(q, s, "started") \/ s = u) /\ t \in Sent(q) /\ ~Holds(q, t, "started")
  BY <1>7, <1>9, <1>10, <1>11, <1>12
<1>18. u \notin Sent(q) /\ ~Holds(q, u, "started") BY <1>13
<1>19. \A s : ~Order(q, s, s) BY DEF Order, Single
<1>20. Single(Sends(r))
  <2>1. \A s : ~Order(r, s, s) BY <1>17, <1>18, <1>19
  <2> QED BY <2>1 DEF Order, Single
<1>21. \A s, t \in Sent(q) :
                 Order(r, s, t) <=>
                    \/ Holds(q, s, "started") /\ ~Holds(q, t, "started")
                    \/ Order(q, s, t) /\ (Holds(q, s, "started") <=> Holds(q, t, "started"))
  BY <1>17, <1>18
<1>22. \A t \in Sent(q) : /\ Order(r, u, t) <=> ~Holds(q, t, "started")
                          /\ Order(r, t, u) <=> Holds(q, t, "started")
  BY <1>16, <1>17, <1>18
<1> QED BY <1>9, <1>14, <1>15, <1>20, <1>21, <1>22

LEMMA TrimmedView ==
    ASSUME NEW q \in Seq(Entry), Single(Sends(q)), NEW n \in Nat, n = Len(InState(q, InPi)),
           NEW r, r = Trimmed(q, n)
    PROVE  /\ r \in Seq(Entry) /\ Single(Sends(r))
           /\ \A s, x : Holds(r, s, x) <=> Holds(q, s, x) /\ x \in {"pending", "queued"}
           /\ \A s, t : Order(r, s, t) <=> Order(q, s, t) /\ s \in Sent(r) /\ t \in Sent(r)
<1> DEFINE keep == ToSet(InState(q, InPi))
           T == {e \in ToSet(q) : e.state = "pending" \/ e \in keep}
<1>1. Newest(InState(q, InPi), n) = InState(q, InPi) BY DEF Newest
<1>2. r = Only(q, T) BY <1>1 DEF Trimmed
<1>3. keep = ToSet(q) \cap {e \in ToSet(q) : e.state \in InPi} BY OnlyView DEF InState
<1>4. \A s, x : Holds(q, s, x) => ([send |-> s, state |-> x] \in T <=> x \in {"pending", "queued"})
  <2> SUFFICES ASSUME NEW s, NEW x, Holds(q, s, x)
               PROVE  [send |-> s, state |-> x] \in T <=> x \in {"pending", "queued"}
    OBVIOUS
  <2> DEFINE e == [send |-> s, state |-> x]
  <2>1. e \in ToSet(q) /\ e.state = x BY DEF Holds
  <2> HIDE DEF e, keep
  <2>2. e \in keep <=> x = "queued" BY <2>1, <1>3 DEF InPi
  <2>3. e \in T <=> x \in {"pending", "queued"} BY <2>1, <2>2
  <2> QED BY <2>3 DEF e
<1> HIDE DEF T
<1>5. /\ r \in Seq(Entry) /\ Single(Sends(r))
      /\ \A s, x : Holds(r, s, x) <=> Holds(q, s, x) /\ [send |-> s, state |-> x] \in T
      /\ \A s, t : Order(r, s, t) <=> Order(q, s, t) /\ s \in Sent(r) /\ t \in Sent(r)
  BY <1>2, OnlyQueue
<1> QED BY <1>4, <1>5

\* A queue of pi that mirrors the entries in a state is what those are, in order.
LEMMA MirrorIsEqual ==
    ASSUME NEW q \in Seq(Entry), Single(Sends(q)), NEW p \in Seq(Send), NEW x \in State,
           Mirrors(p, q, x)
    PROVE  /\ Single(p)
           /\ Sends(InState(q, {x})) = p /\ Len(InState(q, {x})) = Len(p)
<1> DEFINE r == InState(q, {x})
<1>1. /\ r \in Seq(Entry) /\ Single(Sends(r))
      /\ \A s, y : Holds(r, s, y) <=> Holds(q, s, y) /\ y \in {x}
      /\ \A s, t : Order(r, s, t) <=> Order(q, s, t) /\ s \in Sent(r) /\ t \in Sent(r)
  BY InStateView
<1> HIDE DEF r
<1>2. Sends(r) \in Seq(Send) /\ Len(Sends(r)) = Len(r) BY <1>1, SentView
<1>3. ToSet(p) \subseteq Send BY DEF ToSet
<1>4. Single(p)
  <2> SUFFICES ASSUME NEW s, Ahead(p, s, s) PROVE FALSE BY DEF Single
  <2>1. s \in Send BY <1>3, AheadIn
  <2> QED BY <2>1 DEF Mirrors, Single, Order
<1>5. \A s : s \in Sent(r) <=> Holds(q, s, x) BY <1>1, HeldView
<1>6. ToSet(Sends(r)) = ToSet(p)
  <2>1. \A s : Holds(q, s, x) => s \in Send BY HeldView
  <2>2. \A s : s \in Sent(r) <=> s \in ToSet(p) BY <1>3, <1>5, <2>1 DEF Mirrors
  <2> QED BY <2>2 DEF Sent
<1>7. \A s, t : Ahead(Sends(r), s, t) => Ahead(p, s, t)
  <2> SUFFICES ASSUME NEW s, NEW t, Order(r, s, t) PROVE Ahead(p, s, t) BY DEF Order
  <2>1. Order(q, s, t) /\ Holds(q, s, x) /\ Holds(q, t, x) /\ s \in Send /\ t \in Send
    BY <1>1, <1>5, HeldView
  <2> QED BY <2>1 DEF Mirrors
<1>8. Sends(r) = p BY <1>1, <1>2, <1>4, <1>6, <1>7, SameView
<1> QED BY <1>2, <1>4, <1>8 DEF r

\* It goes on doing so when those entries stay and keep their order.
LEMMA MirrorKept ==
    ASSUME NEW p, NEW q, NEW r, NEW x, Mirrors(p, q, x),
           \A s \in Send : Holds(r, s, x) <=> Holds(q, s, x),
           \A s, t \in Send : Holds(q, s, x) /\ Holds(q, t, x) => (Order(r, s, t) <=> Order(q, s, t))
    PROVE  Mirrors(p, r, x)
BY DEF Mirrors

\* A message that goes to pi's queue with its entry at the end of those.
LEMMA MirrorGrows ==
    ASSUME NEW p \in Seq(Send), NEW q, NEW r, NEW x, NEW u \in Send, Mirrors(p, q, x),
           ~Holds(q, u, x),
           \A s \in Send : Holds(r, s, x) <=> Holds(q, s, x) \/ s = u,
           \A s, t \in Send : Holds(q, s, x) /\ Holds(q, t, x) => (Order(r, s, t) <=> Order(q, s, t)),
           \A s \in Send : Holds(q, s, x) => Order(r, s, u) /\ ~Order(r, u, s),
           ~Order(r, u, u)
    PROVE  Mirrors(Append(p, u), r, x)
<1>1. /\ ToSet(Append(p, u)) = ToSet(p) \cup {u}
      /\ \A s, t : Ahead(Append(p, u), s, t) <=> Ahead(p, s, t) \/ (s \in ToSet(p) /\ t = u)
  BY AppendView
<1> QED BY <1>1 DEF Mirrors

\* p2 is p without s.
Loses(p2, p, s) ==
    /\ p2 \in Seq(Send)
    /\ \A t : t \in ToSet(p2) <=> t \in ToSet(p) /\ t # s
    /\ \A t, u : Ahead(p2, t, u) <=> Ahead(p, t, u) /\ t # s /\ u # s

\* One that leaves it with its entry.
LEMMA MirrorShrinks ==
    ASSUME NEW p, NEW p2, NEW q, NEW r, NEW x, NEW u, Mirrors(p, q, x), Loses(p2, p, u),
           \A s, y : Holds(r, s, y) <=> Holds(q, s, y) /\ s # u,
           \A s, t : Order(r, s, t) <=> Order(q, s, t) /\ s # u /\ t # u
    PROVE  Mirrors(p2, r, x)
BY DEF Mirrors, Loses

LEMMA EmptyMirror ==
    ASSUME NEW r, NEW x, \A s \in Send : ~Holds(r, s, x)
    PROVE  Mirrors(<<>>, r, x)
<1>1. ToSet(<<>>) = {} /\ \A s, t : ~Ahead(<<>>, s, t) BY DEF ToSet, Ahead
<1> QED BY <1>1 DEF Mirrors

--------------------
(* The invariant holds initially, ... *)

\* What it says of the sequences as such.
LEMMA Basics ==
    ASSUME IInv
    PROVE  /\ promptOrSteer \in Seq(Entry) /\ Single(Sends(promptOrSteer))
           /\ followUp \in Seq(Entry) /\ Single(Sends(followUp))
           /\ inFlight \in Seq(Send) /\ Single(inFlight)
           /\ starting \in Seq(Send) /\ Single(starting)
           /\ steering \in Seq(Send) /\ Single(steering)
           /\ following \in Seq(Send) /\ Single(following)
<1>1. /\ promptOrSteer \in Seq(Entry) /\ followUp \in Seq(Entry)
      /\ inFlight \in Seq(Send) /\ starting \in Seq(Send) /\ steering \in Seq(Send) /\ following \in Seq(Send)
  BY DEF IInv, TypeOK
<1>2. Single(Sends(promptOrSteer))
  <2> SUFFICES ASSUME NEW s, Order(promptOrSteer, s, s) PROVE FALSE BY DEF Single, Order
  <2>1. s \in Send BY <1>1, OrderIn, HeldView
  <2> QED BY <2>1 DEF IInv, OneEntry
<1>3. Single(Sends(followUp))
  <2> SUFFICES ASSUME NEW s, Order(followUp, s, s) PROVE FALSE BY DEF Single, Order
  <2>1. s \in Send BY <1>1, OrderIn, HeldView
  <2> QED BY <2>1 DEF IInv, OneEntry
<1>4. Single(inFlight)
  <2> SUFFICES ASSUME NEW s, Ahead(inFlight, s, s) PROVE FALSE BY DEF Single
  <2>1. s \in Send BY <1>1, AheadIn DEF ToSet
  <2> QED BY <2>1 DEF IInv, InFlightWaits
<1>5. Single(starting) /\ Single(steering) /\ Single(following)
  BY <1>1, <1>2, <1>3, MirrorIsEqual DEF IInv, Mirrored, State
<1> QED BY <1>1, <1>2, <1>3, <1>4, <1>5

LEMMA InitHolds == Init => IInv
<1> SUFFICES ASSUME Init PROVE IInv OBVIOUS
<1> USE DEF Init
<1>1. TypeOK
  <2>1. <<>> \in Seq(Entry) /\ <<>> \in Seq(Send) OBVIOUS
  <2> QED BY <2>1 DEF TypeOK
<1>2. /\ \A s, x : ~Holds(<<>>, s, x)
      /\ \A s : s \notin Sent(<<>>)
      /\ \A s, t : ~Order(<<>>, s, t) /\ ~Ahead(<<>>, s, t)
      /\ ToSet(<<>>) = {}
  <2>1. Sends(<<>>) = <<>> /\ DOMAIN <<>> = {} BY DEF Sends
  <2> QED BY <2>1 DEF Holds, Sent, Order, Ahead, ToSet
<1>3. Mirrored BY <1>2, EmptyMirror DEF Mirrored
<1>4. OneEntry /\ StartedFirst /\ InFlightWaits /\ Attributed
  BY <1>2 DEF OneEntry, StartedFirst, InFlightWaits, Waiting, Attributed
<1> QED BY <1>1, <1>3, <1>4 DEF IInv

--------------------
(* ... and every step keeps it: the sends, ... *)

LEMMA SendMessageStep ==
    ASSUME IInv, NEW s \in Send, NEW m \in Mode, SendMessage(s, m)
    PROVE  IInv'
<1> DEFINE x == IF settling THEN "deferred" ELSE "pending"
<1>0. x \in {"pending", "deferred"} /\ x \in State BY DEF State
<1>1. /\ mode[s] = None /\ mode' = [mode EXCEPT ![s] = m] /\ inFlight' = Append(inFlight, s)
      /\ \/ m = "followUp" /\ followUp' = Recorded(followUp, s, x) /\ promptOrSteer' = promptOrSteer
         \/ m = "promptOrSteer" /\ promptOrSteer' = Recorded(promptOrSteer, s, x) /\ followUp' = followUp
      /\ UNCHANGED <<current, piVars>>
  BY DEF SendMessage, Mode
<1> HIDE DEF x
<1>2. s \notin Sent(promptOrSteer) /\ s \notin Sent(followUp) /\ s \notin ToSet(inFlight)
  <2>1. None # "followUp" /\ None # "promptOrSteer" BY NoneIsNoSend DEF Mode
  <2> QED BY <2>1, <1>1 DEF IInv, OneEntry, InFlightWaits
<1>3. /\ inFlight' \in Seq(Send) /\ ToSet(inFlight') = ToSet(inFlight) \cup {s}
      /\ \A t, u : Ahead(inFlight', t, u) <=> Ahead(inFlight, t, u) \/ (t \in ToSet(inFlight) /\ u = s)
  BY <1>1, Basics, AppendView
<1>4. \A t, u : Ahead(inFlight, t, u) => t \in ToSet(inFlight) /\ u \in ToSet(inFlight) BY AheadIn
<1>5. mode' \in [Send -> Mode \cup {None}] /\ mode'[s] = m /\ \A t \in Send \ {s} : mode'[t] = mode[t]
  BY <1>1 DEF IInv, TypeOK
<1>6. /\ m = "followUp" \/ m = "promptOrSteer" BY DEF Mode
<1>7. CASE m = "followUp"
  <2>1. promptOrSteer' = promptOrSteer /\ followUp' = Recorded(followUp, s, x) BY <1>1, <1>7
  <2>2. /\ followUp' \in Seq(Entry) /\ Single(Sends(followUp'))
        /\ \A t, y : Holds(followUp', t, y) <=> Holds(followUp, t, y) \/ (t = s /\ y = x)
        /\ Sent(followUp') = Sent(followUp) \cup {s}
        /\ \A t, u : Order(followUp', t, u) <=> Order(followUp, t, u) \/ (t \in Sent(followUp) /\ u = s)
    BY <1>0, <1>2, <2>1, Basics, RecordedView
  <2>3. TypeOK' /\ Attributed'
    BY <1>1, <1>3, <1>5, <2>1, <2>2 DEF IInv, TypeOK, Attributed, piVars, SendMessage
  <2>4. OneEntry'
    <3>1. \A t, y : Holds(followUp, t, y) => t \in Sent(followUp) BY Basics, HeldView
    <3> QED BY <3>1, <1>0, <1>2, <1>5, <1>7, <2>1, <2>2 DEF IInv, OneEntry
  <2>5. Mirrored'
    <3>1. \A t, y : Holds(followUp, t, y) => t \in Sent(followUp) BY Basics, HeldView
    <3>2. Mirrors(following, followUp', "queued")
      BY <1>0, <1>2, <2>2, <3>1, MirrorKept DEF IInv, Mirrored
    <3> QED BY <1>1, <2>1, <3>2 DEF IInv, Mirrored, piVars
  <2>6. StartedFirst' BY <2>1 DEF IInv, StartedFirst
  <2>7. InFlightWaits'
    <3>1. \A t, y : Holds(followUp, t, y) => t \in Sent(followUp) BY Basics, HeldView
    <3>2. /\ \A t \in Send : ~Ahead(inFlight', t, t)
          /\ \A t \in Send : t \in ToSet(inFlight') =>
                \/ mode'[t] = "followUp" /\ Awaits(followUp', t)
                \/ mode'[t] = "promptOrSteer" /\ Awaits(promptOrSteer', t)
      BY <1>0, <1>2, <1>3, <1>5, <1>7, <2>1, <2>2 DEF IInv, InFlightWaits, Awaits
    <3>3. Waiting(followUp, inFlight)'
      BY <1>0, <1>2, <1>3, <1>4, <2>2, <3>1 DEF IInv, InFlightWaits, Waiting
    <3>4. Waiting(promptOrSteer, inFlight)' BY <1>2, <1>3, <2>1 DEF IInv, InFlightWaits, Waiting
    <3> QED BY <3>2, <3>3, <3>4 DEF InFlightWaits
  <2> QED BY <2>3, <2>4, <2>5, <2>6, <2>7 DEF IInv
<1>8. CASE m = "promptOrSteer"
  <2>1. followUp' = followUp /\ promptOrSteer' = Recorded(promptOrSteer, s, x) BY <1>1, <1>8
  <2>2. /\ promptOrSteer' \in Seq(Entry) /\ Single(Sends(promptOrSteer'))
        /\ \A t, y : Holds(promptOrSteer', t, y) <=> Holds(promptOrSteer, t, y) \/ (t = s /\ y = x)
        /\ Sent(promptOrSteer') = Sent(promptOrSteer) \cup {s}
        /\ \A t, u : Order(promptOrSteer', t, u) <=>
              Order(promptOrSteer, t, u) \/ (t \in Sent(promptOrSteer) /\ u = s)
    BY <1>0, <1>2, <2>1, Basics, RecordedView
  <2>3. TypeOK' /\ Attributed'
    BY <1>1, <1>3, <1>5, <2>1, <2>2 DEF IInv, TypeOK, Attributed, piVars, SendMessage
  <2>4. OneEntry'
    <3>1. m # None BY NoneIsNoSend
    <3> QED BY <3>1, <1>0, <1>2, <1>5, <1>8, <2>1, <2>2 DEF IInv, OneEntry
  <2>5. \A t, y : Holds(promptOrSteer, t, y) => t \in Sent(promptOrSteer) BY Basics, HeldView
  <2>6. Mirrored'
    <3>1. Mirrors(starting, promptOrSteer', "started") /\ Mirrors(steering, promptOrSteer', "queued")
      BY <1>0, <1>2, <2>2, <2>5, MirrorKept DEF IInv, Mirrored
    <3> QED BY <1>1, <2>1, <3>1 DEF IInv, Mirrored, piVars
  <2>7. StartedFirst' BY <1>0, <1>2, <2>2, <2>5 DEF IInv, StartedFirst
  <2>8. InFlightWaits'
    <3>2. /\ \A t \in Send : ~Ahead(inFlight', t, t)
          /\ \A t \in Send : t \in ToSet(inFlight') =>
                \/ mode'[t] = "followUp" /\ Awaits(followUp', t)
                \/ mode'[t] = "promptOrSteer" /\ Awaits(promptOrSteer', t)
      BY <1>0, <1>2, <1>3, <1>5, <1>8, <2>1, <2>2 DEF IInv, InFlightWaits, Awaits
    <3>3. Waiting(promptOrSteer, inFlight)'
      BY <1>0, <1>2, <1>3, <1>4, <2>2, <2>5 DEF IInv, InFlightWaits, Waiting
    <3>4. Waiting(followUp, inFlight)' BY <1>2, <1>3, <2>1 DEF IInv, InFlightWaits, Waiting
    <3> QED BY <3>2, <3>3, <3>4 DEF InFlightWaits
  <2> QED BY <2>3, <2>4, <2>6, <2>7, <2>8 DEF IInv
<1> QED BY <1>6, <1>7, <1>8

\* What is in flight is in the queue of its mode, and in no other.
LEMMA InFlightAt ==
    ASSUME IInv, NEW s \in ToSet(inFlight)
    PROVE  /\ s \in Send
           /\ \/ /\ mode[s] = "followUp" /\ s \in Sent(followUp) /\ s \notin Sent(promptOrSteer)
                 /\ \A x : Holds(followUp, s, x) => x \in {"pending", "deferred"}
              \/ /\ mode[s] = "promptOrSteer" /\ s \in Sent(promptOrSteer) /\ s \notin Sent(followUp)
                 /\ \A x : Holds(promptOrSteer, s, x) => x \in {"pending", "deferred"}
<1>1. s \in Send BY Basics DEF ToSet
<1>2. /\ \A t, x, y : Holds(followUp, t, x) /\ Holds(followUp, t, y) => x = y
      /\ \A t, x, y : Holds(promptOrSteer, t, x) /\ Holds(promptOrSteer, t, y) => x = y
  BY Basics, OneState
<1>3. /\ \A t, x : Holds(followUp, t, x) => t \in Sent(followUp)
      /\ \A t, x : Holds(promptOrSteer, t, x) => t \in Sent(promptOrSteer)
  BY Basics, HeldView
<1>4. CASE mode[s] = "followUp" /\ Awaits(followUp, s)
  BY <1>1, <1>2, <1>3, <1>4 DEF IInv, OneEntry, Awaits
<1>5. CASE mode[s] = "promptOrSteer" /\ Awaits(promptOrSteer, s)
  BY <1>1, <1>2, <1>3, <1>5 DEF IInv, OneEntry, Awaits
<1> QED BY <1>1, <1>4, <1>5 DEF IInv, InFlightWaits

LEMMA AnswersView ==
    ASSUME IInv, NEW s \in Send, Answers(s)
    PROVE  /\ s \in ToSet(inFlight)
           /\ inFlight' \in Seq(Send) /\ ToSet(inFlight') = ToSet(inFlight) \ {s}
           /\ \A t, u : Ahead(inFlight', t, u) <=> Ahead(inFlight, t, u) /\ t # s /\ u # s
           /\ UNCHANGED <<mode, settling, answering>>
<1>1. /\ s \in ToSet(inFlight) /\ UNCHANGED <<mode, settling, answering>>
      /\ inFlight' = Only(inFlight, ToSet(inFlight) \ {s}) /\ inFlight \in Seq(Send)
  BY Basics DEF Answers
<1>2. /\ inFlight' \in Seq(Send) /\ ToSet(inFlight') = ToSet(inFlight) \cap (ToSet(inFlight) \ {s})
      /\ \A t, u : Ahead(inFlight', t, u) <=>
            Ahead(inFlight, t, u) /\ t \in ToSet(inFlight) \ {s} /\ u \in ToSet(inFlight) \ {s}
  BY <1>1, OnlyView
<1>3. \A t, u : Ahead(inFlight, t, u) => t \in ToSet(inFlight) /\ u \in ToSet(inFlight) BY AheadIn
<1> QED BY <1>1, <1>2, <1>3

\* Once s is answered, its entry may be gone, or queued ahead of what still waits.
LEMMA StillWaiting ==
    ASSUME NEW q, NEW r, NEW p, NEW p2, NEW s \in Send, Waiting(q, p),
           \A t \in Send : t \in ToSet(p2) <=> t \in ToSet(p) /\ t # s,
           \A t, u \in Send : Ahead(p2, t, u) <=> Ahead(p, t, u) /\ t # s /\ u # s,
           \A t \in Send \ {s} : /\ Holds(r, t, "pending") => Holds(q, t, "pending")
                                 /\ Holds(r, t, "queued") => Holds(q, t, "queued")
                                 /\ t \in Sent(r) => t \in Sent(q),
           \A t, u \in Send \ {s} : t \in Sent(r) /\ u \in Sent(r) => (Order(r, t, u) <=> Order(q, t, u)),
           \A t : Holds(r, t, "queued") => t \in Sent(r),
           ~Holds(r, s, "pending"),
           Holds(r, s, "queued") =>
              \A t \in Send \ {s} : t \in ToSet(p) /\ t \in Sent(q) => Order(r, s, t)
    PROVE  Waiting(r, p2)
<1> SUFFICES ASSUME NEW t \in Send, NEW u \in Send
             PROVE  /\ Holds(r, t, "pending") => t \in ToSet(p2)
                    /\ Holds(r, t, "queued") /\ u \in ToSet(p2) /\ u \in Sent(r) => Order(r, t, u)
                    /\ Ahead(p2, t, u) /\ t \in Sent(r) /\ u \in Sent(r) => Order(r, t, u)
  BY DEF Waiting
<1>1. Holds(r, t, "pending") => t \in ToSet(p2) BY DEF Waiting
<1>2. Holds(r, t, "queued") /\ u \in ToSet(p2) /\ u \in Sent(r) => Order(r, t, u)
  <2>1. CASE t = s BY <2>1
  <2>2. CASE t # s BY <2>2 DEF Waiting
  <2> QED BY <2>1, <2>2
<1>3. Ahead(p2, t, u) /\ t \in Sent(r) /\ u \in Sent(r) => Order(r, t, u) BY DEF Waiting
<1> QED BY <1>1, <1>2, <1>3

\* What is left in flight keeps its entry if the others do.
LEMMA StillAwaited ==
    ASSUME IInv, NEW s \in Send, Answers(s),
           \A t \in Send \ {s} : /\ Awaits(followUp, t) => Awaits(followUp', t)
                                 /\ Awaits(promptOrSteer, t) => Awaits(promptOrSteer', t)
    PROVE  \A t \in Send :
              /\ ~Ahead(inFlight', t, t)
              /\ t \in ToSet(inFlight') =>
                    \/ mode'[t] = "followUp" /\ Awaits(followUp', t)
                    \/ mode'[t] = "promptOrSteer" /\ Awaits(promptOrSteer', t)
<1>1. /\ ToSet(inFlight') = ToSet(inFlight) \ {s} /\ mode' = mode
      /\ \A t, u : Ahead(inFlight', t, u) <=> Ahead(inFlight, t, u) /\ t # s /\ u # s
  BY AnswersView
<1> QED BY <1>1 DEF IInv, InFlightWaits

LEMMA PreflightStartedStep ==
    ASSUME IInv, NEW s \in Send, PreflightStarted(s)
    PROVE  IInv'
<1> DEFINE w == Without(promptOrSteer, s)
<1>1. /\ Answers(s) /\ starting' = Append(starting, s) /\ running' = TRUE
      /\ UNCHANGED <<current, steering, following>>
  BY DEF PreflightStarted
<1>2. /\ s \in ToSet(inFlight)
      /\ inFlight' \in Seq(Send) /\ ToSet(inFlight') = ToSet(inFlight) \ {s}
      /\ \A t, u : Ahead(inFlight', t, u) <=> Ahead(inFlight, t, u) /\ t # s /\ u # s
      /\ UNCHANGED <<mode, settling, answering>>
  BY <1>1, AnswersView
<1>3. /\ \/ s \in Sent(promptOrSteer)
         \/ s \in Sent(followUp)
      /\ ~Holds(promptOrSteer, s, "started") /\ ~Holds(promptOrSteer, s, "queued")
      /\ ~Holds(followUp, s, "queued")
      /\ mode[s] # None
  <2>1. /\ \A t, x : Holds(followUp, t, x) => t \in Sent(followUp)
        /\ \A t, x : Holds(promptOrSteer, t, x) => t \in Sent(promptOrSteer)
    BY Basics, HeldView
  <2>2. None # "followUp" /\ None # "promptOrSteer" BY NoneIsNoSend DEF Mode
  <2> QED BY <1>2, <2>1, <2>2, InFlightAt
<1>4. promptOrSteer' = Promoted(w, s) /\ followUp' = Without(followUp, s)
  BY <1>3 DEF PreflightStarted, Routed, Sent
<1>5. w = Without(promptOrSteer, s) OBVIOUS
<1> HIDE DEF w
<1>6. /\ w \in Seq(Entry) /\ Single(Sends(w))
      /\ \A t, x : Holds(w, t, x) <=> Holds(promptOrSteer, t, x) /\ t # s
      /\ Sent(w) = Sent(promptOrSteer) \ {s}
      /\ \A t, u : Order(w, t, u) <=> Order(promptOrSteer, t, u) /\ t # s /\ u # s
  BY <1>5, Basics, WithoutView
<1>7. /\ promptOrSteer' \in Seq(Entry) /\ Single(Sends(promptOrSteer'))
      /\ Sent(promptOrSteer') = Sent(w) \cup {s}
      /\ \A t, x : Holds(promptOrSteer', t, x) <=> Holds(w, t, x) \/ (t = s /\ x = "started")
      /\ \A t, u \in Sent(w) :
            Order(promptOrSteer', t, u) <=>
               \/ Holds(w, t, "started") /\ ~Holds(w, u, "started")
               \/ Order(w, t, u) /\ (Holds(w, t, "started") <=> Holds(w, u, "started"))
      /\ \A t \in Sent(w) : /\ Order(promptOrSteer', s, t) <=> ~Holds(w, t, "started")
                            /\ Order(promptOrSteer', t, s) <=> Holds(w, t, "started")
  BY <1>4, <1>6, PromotedView
<1>8. /\ followUp' \in Seq(Entry) /\ Single(Sends(followUp'))
      /\ \A t, x : Holds(followUp', t, x) <=> Holds(followUp, t, x) /\ t # s
      /\ Sent(followUp') = Sent(followUp) \ {s}
      /\ \A t, u : Order(followUp', t, u) <=> Order(followUp, t, u) /\ t # s /\ u # s
  BY <1>4, Basics, WithoutView
<1>9. /\ \A t, x : Holds(promptOrSteer', t, x) <=>
            (Holds(promptOrSteer, t, x) /\ t # s) \/ (t = s /\ x = "started")
      /\ Sent(promptOrSteer') = Sent(promptOrSteer) \cup {s}
      /\ \A t \in Sent(promptOrSteer) \ {s} :
            /\ Order(promptOrSteer', s, t) <=> ~Holds(promptOrSteer, t, "started")
            /\ Order(promptOrSteer', t, s) <=> Holds(promptOrSteer, t, "started")
  BY <1>6, <1>7
<1>10. \A t \in Sent(promptOrSteer) : t \in Send BY Basics, HeldView
\* What had started was ahead of the rest already.
<1>11. ASSUME NEW t \in Sent(promptOrSteer) \ {s}, NEW u \in Sent(promptOrSteer) \ {s}
       PROVE  Order(promptOrSteer', t, u) <=> Order(promptOrSteer, t, u)
  <2>1. CASE Holds(promptOrSteer, t, "started") <=> Holds(promptOrSteer, u, "started")
    BY <2>1, <1>6, <1>7
  <2>2. CASE Holds(promptOrSteer, t, "started") /\ ~Holds(promptOrSteer, u, "started")
    <3>1. Order(promptOrSteer, t, u) BY <2>2, <1>10 DEF IInv, StartedFirst
    <3> QED BY <3>1, <2>2, <1>6, <1>7
  <2>3. CASE ~Holds(promptOrSteer, t, "started") /\ Holds(promptOrSteer, u, "started")
    <3>1. Order(promptOrSteer, u, t) /\ t # u BY <2>3, <1>10 DEF IInv, StartedFirst
    <3>2. ~Order(promptOrSteer, t, u) BY <3>1, Basics, OrderIsTotal
    <3> QED BY <3>2, <2>3, <1>6, <1>7
  <2> QED BY <2>1, <2>2, <2>3
<1> HIDE DEF w
<1>12. /\ \A t, x : Holds(promptOrSteer, t, x) => t \in Sent(promptOrSteer)
       /\ \A t, x : Holds(promptOrSteer', t, x) => t \in Sent(promptOrSteer')
       /\ \A t, x : Holds(followUp, t, x) => t \in Sent(followUp)
       /\ \A t, x : Holds(followUp', t, x) => t \in Sent(followUp')
  BY <1>7, <1>8, Basics, HeldView
<1>13. \A t : ~Order(promptOrSteer', t, t) /\ ~Order(followUp', t, t)
  BY <1>7, <1>8 DEF Single, Order
<1>14. TypeOK' /\ Attributed'
  <2>1. starting' \in Seq(Send) BY <1>1, Basics
  <2> QED BY <2>1, <1>1, <1>2, <1>7, <1>8 DEF IInv, TypeOK, Attributed
<1>15. OneEntry' BY <1>2, <1>3, <1>8, <1>9, <1>12, <1>13 DEF IInv, OneEntry
<1>16. Mirrored'
  <2>1. Mirrors(starting', promptOrSteer', "started")
    <3>1. \A t \in Send : Holds(promptOrSteer', t, "started") <=> Holds(promptOrSteer, t, "started") \/ t = s
      BY <1>3, <1>9
    <3>2. \A t, u \in Send : Holds(promptOrSteer, t, "started") /\ Holds(promptOrSteer, u, "started")
             => (Order(promptOrSteer', t, u) <=> Order(promptOrSteer, t, u))
      BY <1>3, <1>11, <1>12
    <3>3. \A t \in Send : Holds(promptOrSteer, t, "started")
             => Order(promptOrSteer', t, s) /\ ~Order(promptOrSteer', s, t)
      BY <1>3, <1>9, <1>12
    <3>4. Mirrors(starting, promptOrSteer, "started") /\ starting \in Seq(Send)
      BY Basics DEF IInv, Mirrored
    <3> QED BY <3>1, <3>2, <3>3, <3>4, <1>1, <1>3, <1>13, MirrorGrows
  <2>2. Mirrors(steering, promptOrSteer', "queued")
    BY <1>3, <1>9, <1>11, <1>12, MirrorKept DEF IInv, Mirrored
  <2>3. Mirrors(following, followUp', "queued") BY <1>3, <1>8, MirrorKept DEF IInv, Mirrored
  <2> QED BY <1>1, <2>1, <2>2, <2>3 DEF Mirrored
<1>17. StartedFirst' BY <1>9, <1>11, <1>12 DEF IInv, StartedFirst
<1>18. InFlightWaits'
  <2>1. Waiting(promptOrSteer', inFlight')
    <3>1. \A t \in Send \ {s} :
             /\ Holds(promptOrSteer', t, "pending") => Holds(promptOrSteer, t, "pending")
             /\ Holds(promptOrSteer', t, "queued") => Holds(promptOrSteer, t, "queued")
             /\ t \in Sent(promptOrSteer') => t \in Sent(promptOrSteer)
      BY <1>9
    <3>2. \A t, u \in Send \ {s} : t \in Sent(promptOrSteer') /\ u \in Sent(promptOrSteer')
             => (Order(promptOrSteer', t, u) <=> Order(promptOrSteer, t, u))
      BY <1>9, <1>11
    <3>3. ~Holds(promptOrSteer', s, "pending") /\ ~Holds(promptOrSteer', s, "queued") BY <1>9
    <3>4. Waiting(promptOrSteer, inFlight) BY DEF IInv, InFlightWaits
    <3> QED BY <3>1, <3>2, <3>3, <3>4, <1>2, <1>12, StillWaiting
  <2>2. Waiting(followUp', inFlight')
    <3>1. \A t \in Send \ {s} : /\ Holds(followUp', t, "pending") => Holds(followUp, t, "pending")
                                /\ Holds(followUp', t, "queued") => Holds(followUp, t, "queued")
                                /\ t \in Sent(followUp') => t \in Sent(followUp)
      BY <1>8
    <3>2. \A t, u \in Send \ {s} : t \in Sent(followUp') /\ u \in Sent(followUp')
             => (Order(followUp', t, u) <=> Order(followUp, t, u))
      BY <1>8
    <3>3. ~Holds(followUp', s, "pending") /\ ~Holds(followUp', s, "queued") BY <1>8
    <3>4. Waiting(followUp, inFlight) BY DEF IInv, InFlightWaits
    <3> QED BY <3>1, <3>2, <3>3, <3>4, <1>2, <1>12, StillWaiting
  <2>3. \A t \in Send \ {s} : /\ Awaits(followUp, t) => Awaits(followUp', t)
                              /\ Awaits(promptOrSteer, t) => Awaits(promptOrSteer', t)
    BY <1>8, <1>9 DEF Awaits
  <2> QED BY <1>1, <2>1, <2>2, <2>3, StillAwaited DEF InFlightWaits
<1> QED BY <1>14, <1>15, <1>16, <1>17, <1>18 DEF IInv

LEMMA LosesNothing ==
    ASSUME NEW p \in Seq(Send), NEW s, s \notin ToSet(p)
    PROVE  Loses(p, p, s)
BY AheadIn DEF Loses

LEMMA LosesOne ==
    ASSUME NEW p \in Seq(Send), NEW s
    PROVE  Loses(Only(p, ToSet(p) \ {s}), p, s)
<1> DEFINE r == Only(p, ToSet(p) \ {s})
<1>1. /\ r \in Seq(Send) /\ ToSet(r) = ToSet(p) \cap (ToSet(p) \ {s})
      /\ \A t, u : Ahead(r, t, u) <=> Ahead(p, t, u) /\ t \in ToSet(p) \ {s} /\ u \in ToSet(p) \ {s}
  BY OnlyView
<1> HIDE DEF r
<1>2. \A t, u : Ahead(p, t, u) => t \in ToSet(p) /\ u \in ToSet(p) BY AheadIn
<1>3. Loses(r, p, s) BY <1>1, <1>2 DEF Loses
<1> QED BY <1>3 DEF r

LEMMA LosesHead ==
    ASSUME NEW p \in Seq(Send), p # <<>>, Single(p)
    PROVE  Loses(Tail(p), p, Head(p)) /\ Head(p) \in ToSet(p)
<1>1. /\ Head(p) \in ToSet(p) /\ Tail(p) \in Seq(Send)
      /\ ToSet(Tail(p)) = ToSet(p) \ {Head(p)}
      /\ \A s, t : Ahead(Tail(p), s, t) <=> Ahead(p, s, t) /\ s # Head(p)
      /\ \A t \in ToSet(p) \ {Head(p)} : Ahead(p, Head(p), t)
  BY TailView
<1>2. \A t, u : Ahead(p, t, u) => ~Ahead(p, u, t) /\ t \in ToSet(p) BY NotBoth, AheadIn
<1> QED BY <1>1, <1>2 DEF Loses, Single

\* A send leaves both sides at once.
LEMMA GoneFromBoth ==
    ASSUME IInv, NEW s \in Send,
           promptOrSteer' = Without(promptOrSteer, s), followUp' = Without(followUp, s),
           mode' = mode, Loses(inFlight', inFlight, s), Loses(starting', starting, s),
           Loses(steering', steering, s), Loses(following', following, s)
    PROVE  /\ promptOrSteer' \in Seq(Entry) /\ followUp' \in Seq(Entry)
           /\ OneEntry' /\ Mirrored' /\ StartedFirst' /\ InFlightWaits'
<1>1. /\ promptOrSteer' \in Seq(Entry) /\ Single(Sends(promptOrSteer'))
      /\ \A t, x : Holds(promptOrSteer', t, x) <=> Holds(promptOrSteer, t, x) /\ t # s
      /\ Sent(promptOrSteer') = Sent(promptOrSteer) \ {s}
      /\ \A t, u : Order(promptOrSteer', t, u) <=> Order(promptOrSteer, t, u) /\ t # s /\ u # s
  BY Basics, WithoutView
<1>2. /\ followUp' \in Seq(Entry) /\ Single(Sends(followUp'))
      /\ \A t, x : Holds(followUp', t, x) <=> Holds(followUp, t, x) /\ t # s
      /\ Sent(followUp') = Sent(followUp) \ {s}
      /\ \A t, u : Order(followUp', t, u) <=> Order(followUp, t, u) /\ t # s /\ u # s
  BY Basics, WithoutView
<1>3. /\ \A t, x : Holds(promptOrSteer', t, x) => t \in Sent(promptOrSteer')
      /\ \A t, x : Holds(followUp', t, x) => t \in Sent(followUp')
  BY <1>1, <1>2, HeldView
<1>4. OneEntry' BY <1>1, <1>2 DEF IInv, OneEntry
<1>5. Mirrored'
  <2>1. Mirrors(starting', promptOrSteer', "started") BY <1>1, MirrorShrinks DEF IInv, Mirrored
  <2>2. Mirrors(steering', promptOrSteer', "queued") BY <1>1, MirrorShrinks DEF IInv, Mirrored
  <2>3. Mirrors(following', followUp', "queued") BY <1>2, MirrorShrinks DEF IInv, Mirrored
  <2> QED BY <2>1, <2>2, <2>3 DEF Mirrored
<1>6. StartedFirst' BY <1>1 DEF IInv, StartedFirst
<1>7. InFlightWaits'
  <2>1. Waiting(promptOrSteer', inFlight')
    <3>1. /\ ~Holds(promptOrSteer', s, "pending") /\ ~Holds(promptOrSteer', s, "queued")
          /\ \A t \in Send \ {s} :
                /\ Holds(promptOrSteer', t, "pending") => Holds(promptOrSteer, t, "pending")
                /\ Holds(promptOrSteer', t, "queued") => Holds(promptOrSteer, t, "queued")
                /\ t \in Sent(promptOrSteer') => t \in Sent(promptOrSteer)
          /\ \A t, u \in Send \ {s} : t \in Sent(promptOrSteer') /\ u \in Sent(promptOrSteer')
                => (Order(promptOrSteer', t, u) <=> Order(promptOrSteer, t, u))
      BY <1>1
    <3>2. Waiting(promptOrSteer, inFlight) BY DEF IInv, InFlightWaits
    <3> QED BY <3>1, <3>2, <1>3, StillWaiting DEF Loses
  <2>2. Waiting(followUp', inFlight')
    <3>1. /\ ~Holds(followUp', s, "pending") /\ ~Holds(followUp', s, "queued")
          /\ \A t \in Send \ {s} : /\ Holds(followUp', t, "pending") => Holds(followUp, t, "pending")
                                   /\ Holds(followUp', t, "queued") => Holds(followUp, t, "queued")
                                   /\ t \in Sent(followUp') => t \in Sent(followUp)
          /\ \A t, u \in Send \ {s} : t \in Sent(followUp') /\ u \in Sent(followUp')
                => (Order(followUp', t, u) <=> Order(followUp, t, u))
      BY <1>2
    <3>2. Waiting(followUp, inFlight) BY DEF IInv, InFlightWaits
    <3> QED BY <3>1, <3>2, <1>3, StillWaiting DEF Loses
  <2>3. \A t \in Send :
           /\ ~Ahead(inFlight', t, t)
           /\ t \in ToSet(inFlight') =>
                 \/ mode'[t] = "followUp" /\ Awaits(followUp', t)
                 \/ mode'[t] = "promptOrSteer" /\ Awaits(promptOrSteer', t)
    BY <1>1, <1>2 DEF IInv, InFlightWaits, Loses, Awaits
  <2> QED BY <2>1, <2>2, <2>3 DEF InFlightWaits
<1> QED BY <1>1, <1>2, <1>4, <1>5, <1>6, <1>7

\* What pi holds of a send, by the state of its entry.
LEMMA NotInPi ==
    ASSUME IInv, NEW s \in Send
    PROVE  /\ s \in ToSet(starting) <=> Holds(promptOrSteer, s, "started")
           /\ s \in ToSet(steering) <=> Holds(promptOrSteer, s, "queued")
           /\ s \in ToSet(following) <=> Holds(followUp, s, "queued")
           /\ s \in ToSet(inFlight) =>
                 s \notin ToSet(starting) /\ s \notin ToSet(steering) /\ s \notin ToSet(following)
           /\ s \in ToSet(starting) => s \notin ToSet(steering) /\ s \notin ToSet(following)
           /\ s \in ToSet(steering) => s \notin ToSet(following)
<1>1. /\ s \in ToSet(starting) <=> Holds(promptOrSteer, s, "started")
      /\ s \in ToSet(steering) <=> Holds(promptOrSteer, s, "queued")
      /\ s \in ToSet(following) <=> Holds(followUp, s, "queued")
  BY DEF IInv, Mirrored, Mirrors
<1>2. /\ \A t, x : Holds(followUp, t, x) => t \in Sent(followUp)
      /\ \A t, x : Holds(promptOrSteer, t, x) => t \in Sent(promptOrSteer)
  BY Basics, HeldView
<1>3. \A x, y : Holds(promptOrSteer, s, x) /\ Holds(promptOrSteer, s, y) => x = y
  BY Basics, OneState
<1>4. s \in Sent(promptOrSteer) => s \notin Sent(followUp) BY DEF IInv, OneEntry
<1>5. s \in ToSet(inFlight) =>
         s \notin ToSet(starting) /\ s \notin ToSet(steering) /\ s \notin ToSet(following)
  BY <1>1, <1>2, InFlightAt
<1>6. ~("started" = "queued") OBVIOUS
<1> QED BY <1>1, <1>2, <1>3, <1>4, <1>5, <1>6

LEMMA PreflightDroppedStep ==
    ASSUME IInv, NEW s \in Send, PreflightDropped(s)
    PROVE  IInv'
<1>1. /\ Answers(s) /\ UNCHANGED <<current, starting, steering, following, running>>
      /\ promptOrSteer' = Without(promptOrSteer, s) /\ followUp' = Without(followUp, s)
  BY DEF PreflightDropped, Drop
<1>2. s \in ToSet(inFlight) /\ UNCHANGED <<mode, settling, answering>> /\ Loses(inFlight', inFlight, s)
  BY <1>1, AnswersView DEF Loses
<1>3. Loses(starting', starting, s) /\ Loses(steering', steering, s) /\ Loses(following', following, s)
  BY <1>1, <1>2, NotInPi, Basics, LosesNothing
<1>4. /\ promptOrSteer' \in Seq(Entry) /\ followUp' \in Seq(Entry)
      /\ OneEntry' /\ Mirrored' /\ StartedFirst' /\ InFlightWaits'
  BY <1>1, <1>2, <1>3, GoneFromBoth
<1>5. TypeOK' /\ Attributed' BY <1>1, <1>2, <1>4 DEF IInv, TypeOK, Attributed, Loses
<1> QED BY <1>4, <1>5 DEF IInv

LEMMA RunThrowsStep ==
    ASSUME IInv, NEW s \in Send, RunThrows(s)
    PROVE  IInv'
<1>1. /\ s \in ToSet(starting) /\ starting' = Only(starting, ToSet(starting) \ {s})
      /\ UNCHANGED <<current, mode, inFlight, steering, following, running, settling, answering>>
      /\ promptOrSteer' = Without(promptOrSteer, s) /\ followUp' = Without(followUp, s)
  BY DEF RunThrows, Drop
<1>2. /\ Loses(starting', starting, s) /\ Loses(inFlight', inFlight, s)
      /\ Loses(steering', steering, s) /\ Loses(following', following, s)
  BY <1>1, NotInPi, Basics, LosesNothing, LosesOne
<1>3. /\ promptOrSteer' \in Seq(Entry) /\ followUp' \in Seq(Entry)
      /\ OneEntry' /\ Mirrored' /\ StartedFirst' /\ InFlightWaits'
  BY <1>1, <1>2, GoneFromBoth
<1>4. TypeOK' /\ Attributed' BY <1>1, <1>2, <1>3 DEF IInv, TypeOK, Attributed, Loses
<1> QED BY <1>3, <1>4 DEF IInv

\* ... so it mirrors what it did and its sends still wait.
LEMMA QueuedElsewhereWaits ==
    ASSUME NEW q, NEW r, NEW p, NEW p2, NEW s, Waiting(q, p), s \notin Sent(q), Sent(r) = Sent(q),
           \A t, x : Holds(r, t, x) <=> Holds(q, t, x),
           \A t, x : Holds(q, t, x) => t \in Sent(q),
           \A t, u : Order(r, t, u) <=> Order(q, t, u),
           Loses(p2, p, s)
    PROVE  Waiting(r, p2)
BY DEF Waiting, Loses

\* The entry of the send pi queues is behind those queued, before those in flight.
LEMMA QueuedHere ==
    ASSUME NEW q \in Seq(Entry), Single(Sends(q)), NEW s \in Sent(q), s \in Send,
           NEW r, r = WithState(q, s, "queued"), ~Holds(q, s, "queued"),
           NEW f \in Seq(Send), Waiting(q, f), s \in ToSet(f), NEW f2, Loses(f2, f, s),
           \A t \in ToSet(f) : t \in Sent(q) => ~Ahead(f, t, s),
           NEW p \in Seq(Send), Mirrors(p, q, "queued")
    PROVE  Mirrors(Append(p, s), r, "queued") /\ Waiting(r, f2)
<1>1. "queued" \in State BY DEF State
<1>2. /\ r \in Seq(Entry) /\ Single(Sends(r)) /\ Sent(r) = Sent(q)
      /\ \A t, y : Holds(r, t, y) <=>
            (t = s /\ y = "queued" /\ s \in Sent(q)) \/ (t # s /\ Holds(q, t, y))
      /\ \A t, u : Order(r, t, u) <=> Order(q, t, u)
  BY <1>1, WithStateView
<1>3. \A t, x : Holds(q, t, x) => t \in Sent(q) BY HeldView
<1>4. \A t : ~Order(r, t, t) BY <1>2 DEF Single, Order
<1>5. \A t \in Send : Holds(q, t, "queued") => Order(q, t, s) BY DEF Waiting
<1>6. Mirrors(Append(p, s), r, "queued")
  <2>1. \A t \in Send : Holds(r, t, "queued") <=> Holds(q, t, "queued") \/ t = s BY <1>2
  <2>2. \A t, u \in Send : Holds(q, t, "queued") /\ Holds(q, u, "queued")
           => (Order(r, t, u) <=> Order(q, t, u))
    BY <1>2
  <2>3. \A t \in Send : Holds(q, t, "queued") => Order(r, t, s) /\ ~Order(r, s, t)
    BY <1>2, <1>3, <1>4, <1>5, OrderIsTotal
  <2> QED BY <2>1, <2>2, <2>3, <1>4, MirrorGrows
<1>7. \A t \in Send \ {s} : t \in ToSet(f) /\ t \in Sent(q) => Order(q, s, t)
  <2>1. SUFFICES ASSUME NEW t \in Send \ {s}, t \in ToSet(f), t \in Sent(q) PROVE Order(q, s, t)
    OBVIOUS
  <2>2. Ahead(f, s, t) BY <2>1, Either
  <2> QED BY <2>1, <2>2 DEF Waiting
<1>8. Waiting(r, f2)
  <2>1. /\ \A t \in Send : t \in ToSet(f2) <=> t \in ToSet(f) /\ t # s
        /\ \A t, u \in Send : Ahead(f2, t, u) <=> Ahead(f, t, u) /\ t # s /\ u # s
    BY DEF Loses
  <2>2. \A t \in Send \ {s} : /\ Holds(r, t, "pending") => Holds(q, t, "pending")
                              /\ Holds(r, t, "queued") => Holds(q, t, "queued")
                              /\ t \in Sent(r) => t \in Sent(q)
    BY <1>2
  <2>3. \A t, u \in Send \ {s} : t \in Sent(r) /\ u \in Sent(r) => (Order(r, t, u) <=> Order(q, t, u))
    BY <1>2
  <2>4. \A t : Holds(r, t, "queued") => t \in Sent(r) BY <1>2, <1>3
  <2>5. ~Holds(r, s, "pending") BY <1>2
  <2>6. Holds(r, s, "queued") =>
           \A t \in Send \ {s} : t \in ToSet(f) /\ t \in Sent(q) => Order(r, s, t)
    BY <1>2, <1>7
  <2> QED BY ONLY <2>1, <2>2, <2>3, <2>4, <2>5, <2>6, Waiting(q, f), s \in Send, StillWaiting
<1> QED BY <1>6, <1>8

LEMMA PreflightQueuedStep ==
    ASSUME IInv, QueuesInOrder, NEW s \in Send, PreflightQueued(s)
    PROVE  IInv'
<1>1. /\ Answers(s) /\ UNCHANGED <<current, starting, running>>
      /\ \A t \in Before(s) : mode[t] # mode[s]
      /\ promptOrSteer' = WithState(promptOrSteer, s, "queued")
      /\ followUp' = WithState(followUp, s, "queued")
      /\ \/ mode[s] = "followUp" /\ following' = Append(following, s) /\ steering' = steering
         \/ mode[s] # "followUp" /\ steering' = Append(steering, s) /\ following' = following
  BY DEF PreflightQueued
<1>2. /\ s \in ToSet(inFlight) /\ UNCHANGED <<mode, settling, answering>>
      /\ Loses(inFlight', inFlight, s)
  BY <1>1, AnswersView DEF Loses
<1>3. "queued" \in State BY DEF State
<1>4. /\ promptOrSteer' \in Seq(Entry) /\ Sent(promptOrSteer') = Sent(promptOrSteer)
      /\ Single(Sends(promptOrSteer'))
      /\ \A t, y : Holds(promptOrSteer', t, y) <=>
            (t = s /\ y = "queued" /\ s \in Sent(promptOrSteer)) \/ (t # s /\ Holds(promptOrSteer, t, y))
      /\ \A t, u : Order(promptOrSteer', t, u) <=> Order(promptOrSteer, t, u)
  BY <1>1, <1>3, Basics, WithStateView
<1>5. /\ followUp' \in Seq(Entry) /\ Sent(followUp') = Sent(followUp)
      /\ Single(Sends(followUp'))
      /\ \A t, y : Holds(followUp', t, y) <=>
            (t = s /\ y = "queued" /\ s \in Sent(followUp)) \/ (t # s /\ Holds(followUp, t, y))
      /\ \A t, u : Order(followUp', t, u) <=> Order(followUp, t, u)
  BY <1>1, <1>3, Basics, WithStateView
<1>6. /\ \A t, x : Holds(promptOrSteer, t, x) => t \in Sent(promptOrSteer)
      /\ \A t, x : Holds(followUp, t, x) => t \in Sent(followUp)
  BY Basics, HeldView
<1>7. /\ ~Holds(promptOrSteer, s, "started") /\ ~Holds(promptOrSteer, s, "queued")
      /\ ~Holds(followUp, s, "queued")
  BY <1>2, <1>6, InFlightAt
<1>8. TypeOK' /\ Attributed'
  <2>1. steering \in Seq(Send) /\ following \in Seq(Send) BY Basics
  <2>2. Append(steering, s) \in Seq(Send) /\ Append(following, s) \in Seq(Send) BY <2>1
  <2>3. steering' \in Seq(Send) /\ following' \in Seq(Send) BY <2>1, <2>2, <1>1
  <2> QED BY <2>3, <1>1, <1>2, <1>4, <1>5 DEF IInv, TypeOK, Attributed, Loses
<1>9. OneEntry' BY <1>2, <1>4, <1>5, <1>6, <1>7 DEF IInv, OneEntry
<1>10. Mirrors(starting', promptOrSteer', "started")
  <2>1. \A t \in Send : Holds(promptOrSteer', t, "started") <=> Holds(promptOrSteer, t, "started")
    BY <1>4, <1>7
  <2>2. Mirrors(starting, promptOrSteer, "started") BY DEF IInv, Mirrored
  <2> QED BY <2>1, <2>2, <1>1, <1>4, MirrorKept
<1>11. StartedFirst' BY <1>4, <1>7 DEF IInv, StartedFirst
<1>12. \A t \in Send \ {s} : /\ Awaits(followUp, t) => Awaits(followUp', t)
                             /\ Awaits(promptOrSteer, t) => Awaits(promptOrSteer', t)
  BY <1>4, <1>5 DEF Awaits
<1>13. Waiting(promptOrSteer, inFlight) /\ Waiting(followUp, inFlight) BY DEF IInv, InFlightWaits
<1>14. Mirrors(steering, promptOrSteer, "queued") /\ Mirrors(following, followUp, "queued")
  BY DEF IInv, Mirrored
<1>15. CASE mode[s] = "followUp"
  <2>1. s \in Sent(followUp) /\ s \notin Sent(promptOrSteer) BY <1>2, <1>15, InFlightAt
  <2>2. \A t \in ToSet(inFlight) : t \in Sent(followUp) => ~Ahead(inFlight, t, s)
    BY <1>1, <1>15, InFlightAt DEF Before
  <2>3. Mirrors(following', followUp', "queued") /\ Waiting(followUp', inFlight')
    BY <2>1, <2>2, <1>1, <1>2, <1>7, <1>13, <1>14, <1>15, Basics, QueuedHere
  <2>4. \A t, x : Holds(promptOrSteer', t, x) <=> Holds(promptOrSteer, t, x) BY <2>1, <1>4, <1>6
  <2>5. Waiting(promptOrSteer', inFlight')
    BY <2>1, <2>4, <1>2, <1>4, <1>6, <1>13, QueuedElsewhereWaits
  <2>6. Mirrors(steering', promptOrSteer', "queued") BY <2>4, <1>1, <1>4, <1>14, <1>15, MirrorKept
  <2>7. InFlightWaits' BY <2>3, <2>5, <1>1, <1>12, StillAwaited DEF InFlightWaits
  <2> QED BY <2>3, <2>6, <2>7, <1>8, <1>9, <1>10, <1>11 DEF IInv, Mirrored
<1>16. CASE mode[s] # "followUp"
  <2>1. s \in Sent(promptOrSteer) /\ s \notin Sent(followUp) /\ mode[s] = "promptOrSteer"
    BY <1>2, <1>16, InFlightAt
  <2>2. \A t \in ToSet(inFlight) : t \in Sent(promptOrSteer) => ~Ahead(inFlight, t, s)
    BY <2>1, <1>1, InFlightAt DEF Before
  <2>3. Mirrors(steering', promptOrSteer', "queued") /\ Waiting(promptOrSteer', inFlight')
    BY <2>1, <2>2, <1>1, <1>2, <1>7, <1>13, <1>14, <1>16, Basics, QueuedHere
  <2>4. \A t, x : Holds(followUp', t, x) <=> Holds(followUp, t, x) BY <2>1, <1>5, <1>6
  <2>5. Waiting(followUp', inFlight') BY <2>1, <2>4, <1>2, <1>5, <1>6, <1>13, QueuedElsewhereWaits
  <2>6. Mirrors(following', followUp', "queued") BY <2>4, <1>1, <1>5, <1>14, <1>16, MirrorKept
  <2>7. InFlightWaits' BY <2>3, <2>5, <1>1, <1>12, StillAwaited DEF InFlightWaits
  <2> QED BY <2>3, <2>6, <2>7, <1>8, <1>9, <1>10, <1>11 DEF IInv, Mirrored
<1> QED BY <1>15, <1>16

LEMMA DeferredLostStep ==
    ASSUME IInv, NEW s \in Send, DeferredLost(s)
    PROVE  IInv'
<1>1. /\ Answers(s) /\ IsDeferred(s)
      /\ UNCHANGED <<promptOrSteer, followUp, current, starting, steering, following, running>>
  BY DEF DeferredLost, routing
<1>2. /\ s \in ToSet(inFlight) /\ UNCHANGED <<mode, settling, answering>>
      /\ Loses(inFlight', inFlight, s)
  BY <1>1, AnswersView DEF Loses
<1>3. Holds(promptOrSteer, s, "deferred") \/ Holds(followUp, s, "deferred")
  BY <1>1 DEF IsDeferred, Holds, ToSet
<1>4. /\ \A t, x : Holds(promptOrSteer, t, x) => t \in Sent(promptOrSteer)
      /\ \A t, x : Holds(followUp, t, x) => t \in Sent(followUp)
      /\ \A t, x, y : Holds(promptOrSteer, t, x) /\ Holds(promptOrSteer, t, y) => x = y
      /\ \A t, x, y : Holds(followUp, t, x) /\ Holds(followUp, t, y) => x = y
  BY Basics, HeldView, OneState
<1>5. s \in Sent(promptOrSteer) => s \notin Sent(followUp) BY DEF IInv, OneEntry
<1>6. /\ ~Holds(promptOrSteer, s, "pending") /\ ~Holds(promptOrSteer, s, "queued")
      /\ ~Holds(followUp, s, "pending") /\ ~Holds(followUp, s, "queued")
  BY <1>3, <1>4, <1>5
<1>7. Waiting(promptOrSteer, inFlight') /\ Waiting(followUp, inFlight')
  BY <1>2, <1>6 DEF IInv, InFlightWaits, Waiting, Loses
<1>8. InFlightWaits' BY <1>1, <1>7, StillAwaited DEF InFlightWaits
<1>9. TypeOK' /\ Attributed' /\ OneEntry' /\ Mirrored' /\ StartedFirst'
  BY <1>1, <1>2 DEF IInv, TypeOK, Attributed, OneEntry, Mirrored, StartedFirst, Loses
<1> QED BY <1>8, <1>9 DEF IInv

\* The entry before all others is the head of its queue.
LEMMA HeadEntry ==
    ASSUME NEW q \in Seq(Entry), Single(Sends(q)), NEW s \in Sent(q),
           \A t \in Sent(q) : t # s => Order(q, s, t)
    PROVE  q # <<>> /\ Head(q).send = s
<1>1. Sends(q) \in Seq(Send) /\ Len(Sends(q)) = Len(q) BY SentView
<1>2. Sends(q) # <<>> /\ Head(Sends(q)) = s BY <1>1, FirstIsHead DEF Sent, Order
<1>3. Len(q) \in Nat /\ DOMAIN q = 1..Len(q) /\ Len(q) > 0 BY <1>1, <1>2
<1>4. Sends(q)[1] = s BY <1>1, <1>2
<1>5. Sends(q)[1] = q[1].send BY <1>3 DEF Sends
<1>6. q # <<>> /\ Head(q) = q[1] BY <1>3
<1> QED BY <1>4, <1>5, <1>6

LEMMA NoEntry ==
    ASSUME NEW q \in Seq(Entry), Sent(q) = {}
    PROVE  q = <<>>
<1>1. Sends(q) \in Seq(Send) /\ Len(Sends(q)) = Len(q) BY SentView
<1>2. Len(q) \in Nat /\ DOMAIN Sends(q) = 1..Len(q) BY <1>1
<1>3. Len(q) = 0
  <2>1. SUFFICES ASSUME Len(q) # 0 PROVE FALSE OBVIOUS
  <2>2. 1 \in DOMAIN Sends(q) BY <1>2, <2>1
  <2>3. Sends(q)[1] \in Sent(q) BY <2>2 DEF Sent, ToSet
  <2> QED BY <2>3
<1> QED BY <1>3

\* What takeForUserMessage takes: the first known entry.
LEMMA NextKnown ==
    ASSUME IInv, NEW a, a = InState(promptOrSteer, Known), NEW b, b = InState(followUp, Known),
           a \o b # <<>>
    PROVE  promptOrSteer \o followUp # <<>> /\ NextEntry = Head(a \o b)
<1>1. /\ a \in Seq(Entry) /\ b \in Seq(Entry)
      /\ promptOrSteer \in Seq(Entry) /\ followUp \in Seq(Entry)
  BY Basics, InStateView
<1>2. /\ \A s, x : Holds(a, s, x) => Holds(promptOrSteer, s, x)
      /\ \A s, x : Holds(b, s, x) => Holds(followUp, s, x)
  BY Basics, InStateView
<1>3. NextEntry = Head((a \o b) \o promptOrSteer \o followUp) BY DEF NextEntry
<1>4. Head((a \o b) \o promptOrSteer \o followUp) = Head(a \o b)
  <2>1. a \o b \in Seq(Entry) /\ promptOrSteer \o followUp \in Seq(Entry) BY <1>1
  <2>2. \A p, q, r \in Seq(Entry) : p # <<>> => Head(p \o q \o r) = Head(p) OBVIOUS
  <2> QED BY <2>1, <2>2, <1>1
<1>5. promptOrSteer \o followUp # <<>>
  <2>1. SUFFICES ASSUME promptOrSteer \o followUp = <<>> PROVE FALSE OBVIOUS
  <2>2. promptOrSteer = <<>> /\ followUp = <<>>
    <3>1. \A p, q \in Seq(Entry) : p \o q = <<>> => p = <<>> /\ q = <<>> OBVIOUS
    <3> QED BY <3>1, <2>1, <1>1
  <2>3. \A s, x : ~Holds(<<>>, s, x) BY DEF Holds, ToSet
  <2>4. \A s, x : ~Holds(a, s, x) /\ ~Holds(b, s, x) BY <1>2, <2>2, <2>3
  <2>5. Sent(a) = {} /\ Sent(b) = {} BY <1>1, <2>4, HeldView
  <2>6. a = <<>> /\ b = <<>> BY <1>1, <2>5, NoEntry
  <2> QED BY <2>6
<1> QED BY <1>3, <1>4, <1>5

\* It is the entry of the message pi delivers.
LEMMA NextIsStarting ==
    ASSUME IInv, starting # <<>>
    PROVE  promptOrSteer \o followUp # <<>> /\ NextEntry.send = Head(starting)
<1> DEFINE a == InState(promptOrSteer, Known)
           b == InState(followUp, Known)
           h == Head(starting)
<1>1. /\ a \in Seq(Entry) /\ Single(Sends(a)) /\ b \in Seq(Entry)
      /\ \A s, x : Holds(a, s, x) <=> Holds(promptOrSteer, s, x) /\ x \in Known
      /\ \A s, t : Order(a, s, t) <=> Order(promptOrSteer, s, t) /\ s \in Sent(a) /\ t \in Sent(a)
  BY Basics, InStateView
<1>2. /\ h \in Send /\ h \in ToSet(starting)
      /\ \A t \in ToSet(starting) \ {h} : Ahead(starting, h, t)
  BY Basics, TailView
<1>3. a = InState(promptOrSteer, Known) /\ b = InState(followUp, Known) OBVIOUS
<1> HIDE DEF a, b, h
<1>4. /\ \A s : s \in Sent(a) <=> \E x \in State : Holds(a, s, x)
      /\ \A s, x : Holds(a, s, x) => s \in Send /\ s \in Sent(a)
      /\ \A s, x : Holds(promptOrSteer, s, x) => s \in Sent(promptOrSteer)
      /\ \A s, x, y : Holds(promptOrSteer, s, x) /\ Holds(promptOrSteer, s, y) => x = y
  BY <1>1, Basics, HeldView, OneState
<1>5. Holds(promptOrSteer, h, "started") /\ h \in Sent(a) BY <1>1, <1>2, <1>4, NotInPi DEF Known
<1>6. ASSUME NEW t \in Sent(a), t # h PROVE Order(a, h, t)
  <2>1. t \in Send /\ t \in Sent(promptOrSteer) BY <1>1, <1>4
  <2>2. CASE Holds(promptOrSteer, t, "started")
    <3>1. Ahead(starting, h, t) BY <1>2, <1>6, <2>1, <2>2, NotInPi
    <3>2. Order(promptOrSteer, h, t) BY <3>1, <1>2, <2>1 DEF IInv, Mirrored, Mirrors
    <3> QED BY <3>2, <1>1, <1>5, <1>6
  <2>3. CASE ~Holds(promptOrSteer, t, "started")
    <3>1. Order(promptOrSteer, h, t) BY <1>2, <1>5, <2>1, <2>3 DEF IInv, StartedFirst
    <3> QED BY <3>1, <1>1, <1>5, <1>6
  <2> QED BY <2>2, <2>3
<1>7. a # <<>> /\ Head(a).send = h BY <1>1, <1>5, <1>6, HeadEntry
<1>8. a \o b # <<>> /\ Head(a \o b) = Head(a) BY <1>1, <1>7
<1>9. promptOrSteer \o followUp # <<>> /\ NextEntry = Head(a \o b) BY <1>3, <1>8, NextKnown
<1> QED BY <1>7, <1>8, <1>9 DEF h

LEMMA NextIsSteering ==
    ASSUME IInv, starting = <<>>, steering # <<>>
    PROVE  promptOrSteer \o followUp # <<>> /\ NextEntry.send = Head(steering)
<1> DEFINE a == InState(promptOrSteer, Known)
           b == InState(followUp, Known)
           h == Head(steering)
<1>1. /\ a \in Seq(Entry) /\ Single(Sends(a)) /\ b \in Seq(Entry)
      /\ \A s, x : Holds(a, s, x) <=> Holds(promptOrSteer, s, x) /\ x \in Known
      /\ \A s, t : Order(a, s, t) <=> Order(promptOrSteer, s, t) /\ s \in Sent(a) /\ t \in Sent(a)
  BY Basics, InStateView
<1>2. /\ h \in Send /\ h \in ToSet(steering) /\ ToSet(starting) = {}
      /\ \A t \in ToSet(steering) \ {h} : Ahead(steering, h, t)
  <2>1. ToSet(<<>>) = {} BY DEF ToSet
  <2> QED BY <2>1, Basics, TailView
<1>3. a = InState(promptOrSteer, Known) /\ b = InState(followUp, Known) OBVIOUS
<1> HIDE DEF a, b, h
<1>4. /\ \A s : s \in Sent(a) <=> \E x \in State : Holds(a, s, x)
      /\ \A s, x : Holds(a, s, x) => s \in Send /\ s \in Sent(a)
  BY <1>1, Basics, HeldView
<1>5. Holds(promptOrSteer, h, "queued") /\ h \in Sent(a) BY <1>1, <1>2, <1>4, NotInPi DEF Known
<1>6. ASSUME NEW t \in Sent(a), t # h PROVE Order(a, h, t)
  <2>1. t \in Send /\ (Holds(promptOrSteer, t, "started") \/ Holds(promptOrSteer, t, "queued"))
    BY <1>1, <1>4 DEF Known
  <2>2. t \in ToSet(steering) BY <1>2, <2>1, NotInPi
  <2>3. Order(promptOrSteer, h, t) BY <1>2, <1>6, <2>1, <2>2 DEF IInv, Mirrored, Mirrors
  <2> QED BY <2>3, <1>1, <1>5, <1>6
<1>7. a # <<>> /\ Head(a).send = h BY <1>1, <1>5, <1>6, HeadEntry
<1>8. a \o b # <<>> /\ Head(a \o b) = Head(a) BY <1>1, <1>7
<1>9. promptOrSteer \o followUp # <<>> /\ NextEntry = Head(a \o b) BY <1>3, <1>8, NextKnown
<1> QED BY <1>7, <1>8, <1>9 DEF h

LEMMA NextIsFollowing ==
    ASSUME IInv, starting = <<>>, steering = <<>>, following # <<>>
    PROVE  promptOrSteer \o followUp # <<>> /\ NextEntry.send = Head(following)
<1> DEFINE a == InState(promptOrSteer, Known)
           b == InState(followUp, Known)
           h == Head(following)
<1>1. /\ a \in Seq(Entry) /\ b \in Seq(Entry) /\ Single(Sends(b))
      /\ \A s, x : Holds(a, s, x) <=> Holds(promptOrSteer, s, x) /\ x \in Known
      /\ \A s, x : Holds(b, s, x) <=> Holds(followUp, s, x) /\ x \in Known
      /\ \A s, t : Order(b, s, t) <=> Order(followUp, s, t) /\ s \in Sent(b) /\ t \in Sent(b)
  BY Basics, InStateView
<1>2. /\ h \in Send /\ h \in ToSet(following) /\ ToSet(starting) = {} /\ ToSet(steering) = {}
      /\ \A t \in ToSet(following) \ {h} : Ahead(following, h, t)
  <2>1. ToSet(<<>>) = {} BY DEF ToSet
  <2> QED BY <2>1, Basics, TailView
<1>3. a = InState(promptOrSteer, Known) /\ b = InState(followUp, Known) OBVIOUS
<1> HIDE DEF a, b, h
<1>4. /\ \A s : s \in Sent(a) <=> \E x \in State : Holds(a, s, x)
      /\ \A s : s \in Sent(b) <=> \E x \in State : Holds(b, s, x)
      /\ \A s, x : Holds(a, s, x) => s \in Send
      /\ \A s, x : Holds(b, s, x) => s \in Send /\ s \in Sent(b)
      /\ \A s, x : Holds(followUp, s, x) => s \in Sent(followUp)
  BY <1>1, Basics, HeldView
<1>5. Holds(followUp, h, "queued") /\ h \in Sent(b) BY <1>1, <1>2, <1>4, NotInPi DEF Known
<1>6. ASSUME NEW t \in Sent(b), t # h PROVE Order(b, h, t)
  <2>1. t \in Send /\ (Holds(followUp, t, "started") \/ Holds(followUp, t, "queued"))
    BY <1>1, <1>4 DEF Known
  <2>2. ~Holds(followUp, t, "started") BY <1>4, <2>1 DEF IInv, OneEntry
  <2>3. t \in ToSet(following) BY <2>1, <2>2, NotInPi
  <2>4. Order(followUp, h, t) BY <1>2, <1>6, <2>1, <2>3 DEF IInv, Mirrored, Mirrors
  <2> QED BY <2>4, <1>1, <1>5, <1>6
<1>7. b # <<>> /\ Head(b).send = h BY <1>1, <1>5, <1>6, HeadEntry
<1>8. a = <<>>
  <2>1. \A s, x : ~Holds(a, s, x) BY <1>1, <1>2, <1>4, NotInPi DEF Known
  <2> QED BY <2>1, <1>1, <1>4, NoEntry
<1>9. a \o b = b BY <1>1, <1>8
<1>10. promptOrSteer \o followUp # <<>> /\ NextEntry = Head(a \o b) BY <1>3, <1>7, <1>9, NextKnown
<1> QED BY <1>7, <1>9, <1>10 DEF h

\* pi delivers the message whose entry is taken.
LEMMA DeliverStep ==
    ASSUME IInv, NEW s \in Send, Deliver(s), promptOrSteer \o followUp # <<>>, NextEntry.send = s,
           Loses(starting', starting, s), Loses(steering', steering, s), Loses(following', following, s),
           s \notin ToSet(inFlight)
    PROVE  IInv'
<1>1. /\ answering' = s /\ current' = s /\ UNCHANGED <<mode, inFlight, running, settling>>
      /\ promptOrSteer' = Without(promptOrSteer, s) /\ followUp' = Without(followUp, s)
  BY DEF Deliver, Take
<1>2. Loses(inFlight', inFlight, s) BY <1>1, Basics, LosesNothing
<1>3. /\ promptOrSteer' \in Seq(Entry) /\ followUp' \in Seq(Entry)
      /\ OneEntry' /\ Mirrored' /\ StartedFirst' /\ InFlightWaits'
  BY <1>1, <1>2, GoneFromBoth
<1>4. TypeOK' /\ Attributed' BY <1>1, <1>2, <1>3 DEF IInv, TypeOK, Attributed, Loses
<1> QED BY <1>3, <1>4 DEF IInv

LEMMA UserMessageStep ==
    ASSUME IInv, UserMessage
    PROVE  IInv'
<1>1. CASE starting # <<>> /\ Deliver(Head(starting)) /\ starting' = Tail(starting)
           /\ UNCHANGED <<steering, following>>
  <2> DEFINE s == Head(starting)
  <2>1. /\ s \in Send /\ s \in ToSet(starting) /\ Loses(starting', starting, s)
    BY <1>1, Basics, LosesHead, TailView
  <2>2. s \notin ToSet(steering) /\ s \notin ToSet(following) /\ s \notin ToSet(inFlight)
    BY <2>1, NotInPi
  <2>3. Loses(steering', steering, s) /\ Loses(following', following, s)
    BY <1>1, <2>2, Basics, LosesNothing
  <2>4. promptOrSteer \o followUp # <<>> /\ NextEntry.send = s BY <1>1, NextIsStarting
  <2> QED BY <1>1, <2>1, <2>2, <2>3, <2>4, DeliverStep
<1>2. CASE starting = <<>> /\ steering # <<>> /\ Deliver(Head(steering)) /\ steering' = Tail(steering)
           /\ UNCHANGED <<starting, following>>
  <2> DEFINE s == Head(steering)
  <2>1. /\ s \in Send /\ s \in ToSet(steering) /\ Loses(steering', steering, s)
    BY <1>2, Basics, LosesHead, TailView
  <2>2. s \notin ToSet(starting) /\ s \notin ToSet(following) /\ s \notin ToSet(inFlight)
    BY <2>1, NotInPi
  <2>3. Loses(starting', starting, s) /\ Loses(following', following, s)
    BY <1>2, <2>2, Basics, LosesNothing
  <2>4. promptOrSteer \o followUp # <<>> /\ NextEntry.send = s BY <1>2, NextIsSteering
  <2> QED BY <1>2, <2>1, <2>2, <2>3, <2>4, DeliverStep
<1>3. CASE starting = <<>> /\ steering = <<>> /\ following # <<>> /\ Deliver(Head(following))
           /\ following' = Tail(following) /\ UNCHANGED <<starting, steering>>
  <2> DEFINE s == Head(following)
  <2>1. /\ s \in Send /\ s \in ToSet(following) /\ Loses(following', following, s)
    BY <1>3, Basics, LosesHead, TailView
  <2>2. s \notin ToSet(starting) /\ s \notin ToSet(steering) /\ s \notin ToSet(inFlight)
    BY <2>1, NotInPi
  <2>3. Loses(starting', starting, s) /\ Loses(steering', steering, s)
    BY <1>3, <2>2, Basics, LosesNothing
  <2>4. promptOrSteer \o followUp # <<>> /\ NextEntry.send = s BY <1>3, NextIsFollowing
  <2> QED BY <1>3, <2>1, <2>2, <2>3, <2>4, DeliverStep
<1> QED BY <1>1, <1>2, <1>3 DEF UserMessage

\* Those that stay in a queue that loses entries still wait, in order.
LEMMA FilteredWaits ==
    ASSUME NEW q \in Seq(Entry), NEW r \in Seq(Entry), NEW p, NEW X, Waiting(q, p),
           \A s, x : Holds(r, s, x) <=> Holds(q, s, x) /\ x \in X,
           \A s, t : Order(r, s, t) <=> Order(q, s, t) /\ s \in Sent(r) /\ t \in Sent(r)
    PROVE  Waiting(r, p) /\ \A s : s \in Sent(r) => s \in Sent(q)
<1>1. /\ \A s : s \in Sent(r) => s \in Sent(q)
      /\ \A s, x : Holds(r, s, x) => s \in Sent(r)
  BY HeldView
<1> QED BY <1>1 DEF Waiting

\* A queue of pi whose entries all stay is still mirrored.
LEMMA FilteredMirror ==
    ASSUME NEW q, NEW r \in Seq(Entry), NEW p, NEW X, NEW x \in X, Mirrors(p, q, x),
           \A s, y : Holds(r, s, y) <=> Holds(q, s, y) /\ y \in X,
           \A s, t : Order(r, s, t) <=> Order(q, s, t) /\ s \in Sent(r) /\ t \in Sent(r)
    PROVE  Mirrors(p, r, x)
<1>1. \A s, y : Holds(r, s, y) => s \in Sent(r) BY HeldView
<1>2. \A s \in Send : Holds(r, s, x) <=> Holds(q, s, x) OBVIOUS
<1>3. \A s, t \in Send : Holds(q, s, x) /\ Holds(q, t, x) => (Order(r, s, t) <=> Order(q, s, t))
  BY <1>1, <1>2
<1> QED BY <1>2, <1>3, MirrorKept

LEMMA SettleStep ==
    ASSUME IInv, DeferredInTime, Settle
    PROVE  IInv'
<1> DEFINE X == {"pending", "queued"}
<1>1. /\ promptOrSteer' = Trimmed(promptOrSteer, Len(steering))
      /\ followUp' = Trimmed(followUp, Len(following))
      /\ starting' = <<>> /\ running' = FALSE /\ settling' = TRUE
      /\ UNCHANGED <<current, mode, inFlight, steering, following, answering>>
      /\ \A s \in ToSet(inFlight) : ~IsDeferred(s)
  BY DEF Settle
<1>2. /\ promptOrSteer \in Seq(Entry) /\ Single(Sends(promptOrSteer))
      /\ followUp \in Seq(Entry) /\ Single(Sends(followUp))
      /\ steering \in Seq(Send) /\ following \in Seq(Send)
  BY Basics
<1>3. Mirrors(steering, promptOrSteer, "queued") /\ Mirrors(following, followUp, "queued")
  BY DEF IInv, Mirrored
<1>4. /\ Len(steering) \in Nat /\ Len(steering) = Len(InState(promptOrSteer, InPi))
      /\ Len(following) \in Nat /\ Len(following) = Len(InState(followUp, InPi))
  <2>1. "queued" \in State /\ InPi = {"queued"} BY DEF State, InPi
  <2>2. Len(steering) \in Nat /\ Len(following) \in Nat BY <1>2
  <2> QED BY <2>1, <2>2, <1>2, <1>3, MirrorIsEqual
<1>5. /\ promptOrSteer' \in Seq(Entry) /\ Single(Sends(promptOrSteer'))
      /\ \A s, x : Holds(promptOrSteer', s, x) <=> Holds(promptOrSteer, s, x) /\ x \in X
      /\ \A s, t : Order(promptOrSteer', s, t) <=>
            Order(promptOrSteer, s, t) /\ s \in Sent(promptOrSteer') /\ t \in Sent(promptOrSteer')
  BY <1>1, <1>2, <1>4, TrimmedView
<1>6. /\ followUp' \in Seq(Entry) /\ Single(Sends(followUp'))
      /\ \A s, x : Holds(followUp', s, x) <=> Holds(followUp, s, x) /\ x \in X
      /\ \A s, t : Order(followUp', s, t) <=>
            Order(followUp, s, t) /\ s \in Sent(followUp') /\ t \in Sent(followUp')
  BY <1>1, <1>2, <1>4, TrimmedView
<1> HIDE DEF X
<1>7. Waiting(promptOrSteer, inFlight) /\ Waiting(followUp, inFlight) BY DEF IInv, InFlightWaits
<1>8. /\ Waiting(promptOrSteer', inFlight') /\ \A s : s \in Sent(promptOrSteer') => s \in Sent(promptOrSteer)
      /\ Waiting(followUp', inFlight') /\ \A s : s \in Sent(followUp') => s \in Sent(followUp)
  BY <1>1, <1>2, <1>5, <1>6, <1>7, FilteredWaits
<1>9. TypeOK' /\ Attributed'
  <2>1. starting' \in Seq(Send) BY <1>1
  <2> QED BY <2>1, <1>1, <1>5, <1>6 DEF IInv, TypeOK, Attributed
<1>10. /\ \A s : s \in Sent(promptOrSteer') =>
             s \in Sent(promptOrSteer) /\ ~Holds(promptOrSteer, s, "started")
       /\ \A s : ~Holds(followUp', s, "started") /\ ~Holds(promptOrSteer', s, "started")
  <2>1. \A s, x, y : Holds(promptOrSteer, s, x) /\ Holds(promptOrSteer, s, y) => x = y
    BY <1>2, OneState
  <2>2. \A s : s \in Sent(promptOrSteer') => \E x \in State : Holds(promptOrSteer', s, x)
    BY <1>5, HeldView
  <2>3. "started" \notin X BY DEF X
  <2> QED BY <2>1, <2>2, <2>3, <1>5, <1>6, <1>8
<1>11. \A s : ~Order(promptOrSteer', s, s) /\ ~Order(followUp', s, s)
  BY <1>5, <1>6 DEF Single, Order
<1>12. OneEntry' BY <1>1, <1>8, <1>10, <1>11 DEF IInv, OneEntry
<1>13. Mirrored'
  <2>1. Mirrors(starting', promptOrSteer', "started") BY <1>1, <1>10, EmptyMirror
  <2>2. Mirrors(steering', promptOrSteer', "queued") /\ Mirrors(following', followUp', "queued")
    <3>1. "queued" \in X BY DEF X
    <3> QED BY <3>1, <1>1, <1>3, <1>5, <1>6, FilteredMirror
  <2> QED BY <2>1, <2>2 DEF Mirrored
<1>14. StartedFirst' BY <1>10 DEF StartedFirst
<1>15. ASSUME NEW s \in ToSet(inFlight) PROVE ~Holds(promptOrSteer, s, "deferred") /\ ~Holds(followUp, s, "deferred")
  BY <1>1 DEF IsDeferred, Holds, ToSet
<1>16. InFlightWaits' BY <1>1, <1>5, <1>6, <1>8, <1>15 DEF IInv, InFlightWaits, Awaits, X
<1> QED BY <1>9, <1>12, <1>13, <1>14, <1>16 DEF IInv

LEMMA ClearQueuesStep ==
    ASSUME IInv, ClearQueues
    PROVE  IInv'
<1> DEFINE X == State \ InPi
<1>1. /\ promptOrSteer' = InState(promptOrSteer, X) /\ followUp' = InState(followUp, X)
      /\ steering' = <<>> /\ following' = <<>>
      /\ UNCHANGED <<current, mode, inFlight, starting, running, settling, answering>>
  BY DEF ClearQueues, Cleared
<1>2. /\ promptOrSteer \in Seq(Entry) /\ Single(Sends(promptOrSteer))
      /\ followUp \in Seq(Entry) /\ Single(Sends(followUp))
  BY Basics
<1>3. /\ "queued" \notin X
      /\ "started" \in X /\ "pending" \in X /\ "deferred" \in X
  BY DEF State, InPi
<1> HIDE DEF X
<1>4. /\ promptOrSteer' \in Seq(Entry) /\ Single(Sends(promptOrSteer'))
      /\ \A s, x : Holds(promptOrSteer', s, x) <=> Holds(promptOrSteer, s, x) /\ x \in X
      /\ \A s, t : Order(promptOrSteer', s, t) <=>
            Order(promptOrSteer, s, t) /\ s \in Sent(promptOrSteer') /\ t \in Sent(promptOrSteer')
  BY <1>1, <1>2, InStateView
<1>5. /\ followUp' \in Seq(Entry) /\ Single(Sends(followUp'))
      /\ \A s, x : Holds(followUp', s, x) <=> Holds(followUp, s, x) /\ x \in X
      /\ \A s, t : Order(followUp', s, t) <=>
            Order(followUp, s, t) /\ s \in Sent(followUp') /\ t \in Sent(followUp')
  BY <1>1, <1>2, InStateView
<1>6. Waiting(promptOrSteer, inFlight) /\ Waiting(followUp, inFlight) BY DEF IInv, InFlightWaits
<1>7. /\ Waiting(promptOrSteer', inFlight') /\ \A s : s \in Sent(promptOrSteer') => s \in Sent(promptOrSteer)
      /\ Waiting(followUp', inFlight') /\ \A s : s \in Sent(followUp') => s \in Sent(followUp)
  BY <1>1, <1>2, <1>4, <1>5, <1>6, FilteredWaits
<1>8. TypeOK' /\ Attributed' BY <1>1, <1>4, <1>5 DEF IInv, TypeOK, Attributed
<1>9. \A s : ~Order(promptOrSteer', s, s) /\ ~Order(followUp', s, s) BY <1>4, <1>5 DEF Single, Order
<1>10. OneEntry' BY <1>1, <1>3, <1>4, <1>5, <1>7, <1>9 DEF IInv, OneEntry
<1>11. Mirrored'
  <2>1. Mirrors(starting', promptOrSteer', "started")
    BY <1>1, <1>3, <1>4, FilteredMirror DEF IInv, Mirrored
  <2>2. Mirrors(steering', promptOrSteer', "queued") /\ Mirrors(following', followUp', "queued")
    BY <1>1, <1>3, <1>4, <1>5, EmptyMirror
  <2> QED BY <2>1, <2>2 DEF Mirrored
<1>12. StartedFirst'
  <2>1. \A s, x : Holds(promptOrSteer', s, x) => s \in Sent(promptOrSteer') BY <1>4, HeldView
  <2> QED BY <2>1, <1>3, <1>4, <1>7 DEF IInv, StartedFirst
<1>13. InFlightWaits' BY <1>1, <1>3, <1>4, <1>5, <1>7 DEF IInv, InFlightWaits, Awaits
<1> QED BY <1>8, <1>10, <1>11, <1>12, <1>13 DEF IInv

LEMMA SettledStep == ASSUME IInv, Settled PROVE IInv'
BY DEF Settled, routing, IInv, TypeOK, Attributed, OneEntry, Mirrored, StartedFirst, InFlightWaits

LEMMA StutterStep == ASSUME IInv, UNCHANGED vars PROVE IInv'
BY DEF vars, routing, piVars, IInv, TypeOK, Attributed, OneEntry, Mirrored, StartedFirst, InFlightWaits

--------------------
(* ... every step keeps it, ... *)

LEMMA NextStep ==
    ASSUME QueuesInOrder, DeferredInTime, IInv, [Next]_vars
    PROVE  IInv'
<1>1. ASSUME NEW s \in Send,
             \/ \E m \in Mode : SendMessage(s, m)
             \/ PreflightStarted(s) \/ PreflightQueued(s) \/ PreflightDropped(s)
             \/ DeferredLost(s) \/ RunThrows(s)
      PROVE  IInv'
  BY <1>1, SendMessageStep, PreflightStartedStep, PreflightQueuedStep, PreflightDroppedStep,
     DeferredLostStep, RunThrowsStep
<1>2. CASE UserMessage BY <1>2, UserMessageStep
<1>3. CASE Settle BY <1>3, SettleStep
<1>4. CASE Settled BY <1>4, SettledStep
<1>5. CASE ClearQueues BY <1>5, ClearQueuesStep
<1>6. CASE UNCHANGED vars BY <1>6, StutterStep
<1> QED BY <1>1, <1>2, <1>3, <1>4, <1>5, <1>6 DEF Next

--------------------
(* ... and it says that the queues are what pi holds. *)

LEMMA InvIsAligned == ASSUME IInv PROVE Aligned
<1>1. /\ "started" \in State /\ "queued" \in State
      /\ Started = {"started"} /\ InPi = {"queued"}
  BY DEF State, Started, InPi
<1>2. /\ Mirrors(starting, promptOrSteer, "started")
      /\ Mirrors(steering, promptOrSteer, "queued") /\ Mirrors(following, followUp, "queued")
  BY DEF IInv, Mirrored
<1>3. Sends(InState(promptOrSteer, Started)) = starting BY <1>1, <1>2, Basics, MirrorIsEqual
<1>4. Sends(InState(promptOrSteer, InPi)) = steering BY <1>1, <1>2, Basics, MirrorIsEqual
<1>5. Sends(InState(followUp, InPi)) = following BY <1>1, <1>2, Basics, MirrorIsEqual
<1> QED BY <1>3, <1>4, <1>5 DEF Aligned

LEMMA InvKeepsInFlight == ASSUME IInv PROVE InFlightKeepsEntry
BY InFlightAt DEF InFlightKeepsEntry, Sent

LEMMA InvStaleIsDeferred == ASSUME IInv PROVE StaleIsDeferred
<1> DEFINE all == ToSet(inFlight \o starting \o steering \o following)
<1>1. all = ToSet(inFlight) \cup ToSet(starting) \cup ToSet(steering) \cup ToSet(following)
  <2>1. /\ inFlight \in Seq(Send) /\ starting \in Seq(Send)
        /\ steering \in Seq(Send) /\ following \in Seq(Send)
    BY Basics
  <2>2. /\ inFlight \o starting \in Seq(Send)
        /\ ToSet(inFlight \o starting) = ToSet(inFlight) \cup ToSet(starting)
    BY <2>1, ConcatView
  <2>3. /\ (inFlight \o starting) \o steering \in Seq(Send)
        /\ ToSet((inFlight \o starting) \o steering) = ToSet(inFlight \o starting) \cup ToSet(steering)
    BY <2>1, <2>2, ConcatView
  <2>4. ToSet(((inFlight \o starting) \o steering) \o following)
           = ToSet((inFlight \o starting) \o steering) \cup ToSet(following)
    BY <2>1, <2>3, ConcatView
  <2> QED BY <2>2, <2>3, <2>4
<1> HIDE DEF all
<1>2. ASSUME NEW i \in DOMAIN promptOrSteer
      PROVE  promptOrSteer[i].send \in all \/ promptOrSteer[i].state = "deferred"
  <2> DEFINE e == promptOrSteer[i]
  <2>0. e \in Entry BY Basics
  <2>1. e = [send |-> e.send, state |-> e.state] /\ e.send \in Send /\ e.state \in State
    BY <2>0 DEF Entry
  <2>2. Holds(promptOrSteer, e.send, e.state) BY <2>1 DEF Holds, ToSet
  <2>3. e.state = "pending" => e.send \in ToSet(inFlight)
    BY <2>1, <2>2 DEF IInv, InFlightWaits, Waiting
  <2> QED BY <2>1, <2>2, <2>3, <1>1, NotInPi DEF State
<1>3. ASSUME NEW i \in DOMAIN followUp
      PROVE  followUp[i].send \in all \/ followUp[i].state = "deferred"
  <2> DEFINE e == followUp[i]
  <2>0. e \in Entry BY Basics
  <2>1. e = [send |-> e.send, state |-> e.state] /\ e.send \in Send /\ e.state \in State
    BY <2>0 DEF Entry
  <2>2. Holds(followUp, e.send, e.state) BY <2>1 DEF Holds, ToSet
  <2>3. e.state = "pending" => e.send \in ToSet(inFlight)
    BY <2>1, <2>2 DEF IInv, InFlightWaits, Waiting
  <2>4. e.state # "started" BY <2>1, <2>2, Basics, HeldView DEF IInv, OneEntry
  <2> QED BY <2>1, <2>2, <2>3, <2>4, <1>1, NotInPi DEF State
<1> QED BY <1>2, <1>3 DEF StaleIsDeferred, all

--------------------
(* Types are kept whatever pi does. *)

LEMMA QueueTypes ==
    ASSUME NEW q \in Seq(Entry), NEW s \in Send, NEW x \in State, NEW X, NEW n \in Nat
    PROVE  /\ Recorded(q, s, x) \in Seq(Entry) /\ Without(q, s) \in Seq(Entry)
           /\ WithState(q, s, x) \in Seq(Entry) /\ Promoted(q, s) \in Seq(Entry)
           /\ InState(q, X) \in Seq(Entry) /\ Trimmed(q, n) \in Seq(Entry)
           /\ Cleared(q) \in Seq(Entry)
<1>1. \A T : Only(q, T) \in Seq(Entry) BY OnlyView
<1>2. \A Y : InState(q, Y) \in Seq(Entry) BY <1>1 DEF InState
<1>3. Without(q, s) \in Seq(Entry) /\ Trimmed(q, n) \in Seq(Entry) /\ Cleared(q) \in Seq(Entry)
  BY <1>1, <1>2 DEF Without, Trimmed, Cleared
<1>4. [send |-> s, state |-> x] \in Entry /\ [send |-> s, state |-> "started"] \in Entry
  BY DEF Entry, State
<1>5. Recorded(q, s, x) \in Seq(Entry) BY <1>4 DEF Recorded
<1>6. Promoted(q, s) \in Seq(Entry)
  <2>1. <<[send |-> s, state |-> "started"]>> \in Seq(Entry) BY <1>4
  <2> QED BY <1>2, <2>1 DEF Promoted
<1>7. WithState(q, s, x) \in Seq(Entry)
  <2>1. \A e \in Entry : [e EXCEPT !.state = x] \in Entry BY DEF Entry
  <2> QED BY <2>1 DEF WithState
<1> QED BY <1>2, <1>3, <1>5, <1>6, <1>7

LEMMA SendTypes ==
    ASSUME NEW p \in Seq(Send), NEW s \in Send
    PROVE  /\ Append(p, s) \in Seq(Send) /\ Only(p, ToSet(p) \ {s}) \in Seq(Send)
           /\ p # <<>> => Head(p) \in Send /\ Tail(p) \in Seq(Send)
BY OnlyView

LEMMA DeliverTypes ==
    ASSUME TypeOK, NEW s \in Send, Deliver(s)
    PROVE  /\ current' \in Send \cup {None} /\ answering' \in Send
           /\ promptOrSteer' \in Seq(Entry) /\ followUp' \in Seq(Entry)
           /\ UNCHANGED <<mode, inFlight, running, settling>>
<1>1. promptOrSteer \in Seq(Entry) /\ followUp \in Seq(Entry) BY DEF TypeOK
<1>2. /\ answering' = s /\ Take /\ UNCHANGED <<mode, inFlight, running, settling>> BY DEF Deliver
<1>3. CASE promptOrSteer \o followUp = <<>> BY <1>1, <1>2, <1>3 DEF Take
<1>4. CASE promptOrSteer \o followUp # <<>>
  <2>1. InState(promptOrSteer, Known) \in Seq(Entry) /\ InState(followUp, Known) \in Seq(Entry)
    BY <1>1, OnlyView DEF InState
  <2>2. NextEntry \in Entry
    <3> DEFINE k == InState(promptOrSteer, Known) \o InState(followUp, Known)
    <3>1. k \in Seq(Entry) BY <2>1
    <3>2. NextEntry = Head(k \o promptOrSteer \o followUp) BY DEF NextEntry
    <3> HIDE DEF k
    <3>3. \A a, b, c \in Seq(Entry) : b \o c # <<>> => Head(a \o b \o c) \in Entry OBVIOUS
    <3> QED BY <3>1, <3>2, <3>3, <1>1, <1>4
  <2>3. NextEntry.send \in Send BY <2>2 DEF Entry
  <2> QED BY <1>1, <1>2, <1>4, <2>3, OnlyView DEF Take, Without
<1> QED BY <1>3, <1>4

LEMMA TypeStep == ASSUME TypeOK, [Next]_vars PROVE TypeOK'
<1>1. /\ promptOrSteer \in Seq(Entry) /\ followUp \in Seq(Entry)
      /\ current \in Send \cup {None} /\ answering \in Send \cup {None}
      /\ mode \in [Send -> Mode \cup {None}]
      /\ inFlight \in Seq(Send) /\ starting \in Seq(Send)
      /\ steering \in Seq(Send) /\ following \in Seq(Send)
      /\ running \in BOOLEAN /\ settling \in BOOLEAN
  BY DEF TypeOK
<1>2. "pending" \in State /\ "deferred" \in State /\ "queued" \in State BY DEF State
<1>3. ASSUME NEW s \in Send, NEW m \in Mode, SendMessage(s, m) PROVE TypeOK'
  <2> DEFINE x == IF settling THEN "deferred" ELSE "pending"
  <2>1. Recorded(promptOrSteer, s, x) \in Seq(Entry) /\ Recorded(followUp, s, x) \in Seq(Entry)
    BY <1>1, <1>2, QueueTypes
  <2>2. /\ \/ followUp' = Recorded(followUp, s, x) /\ promptOrSteer' = promptOrSteer
           \/ promptOrSteer' = Recorded(promptOrSteer, s, x) /\ followUp' = followUp
        /\ mode' = [mode EXCEPT ![s] = m] /\ inFlight' = Append(inFlight, s)
        /\ UNCHANGED <<current, starting, steering, following, running, settling, answering>>
    BY <1>3 DEF SendMessage, piVars
  <2> HIDE DEF x
  <2>3. promptOrSteer' \in Seq(Entry) /\ followUp' \in Seq(Entry) BY <1>1, <2>1, <2>2
  <2>4. inFlight' \in Seq(Send) /\ mode' \in [Send -> Mode \cup {None}] BY <1>1, <2>2, SendTypes
  <2> QED BY <1>1, <2>2, <2>3, <2>4 DEF TypeOK
<1>4. ASSUME NEW s \in Send, Answers(s)
      PROVE  inFlight' \in Seq(Send) /\ UNCHANGED <<mode, settling, answering>>
  BY <1>1, <1>4, SendTypes DEF Answers
<1>5. ASSUME NEW s \in Send, PreflightStarted(s) PROVE TypeOK'
  <2>1. Without(promptOrSteer, s) \in Seq(Entry) /\ Without(followUp, s) \in Seq(Entry)
    BY <1>1, OnlyView DEF Without
  <2>2. Promoted(Without(promptOrSteer, s), s) \in Seq(Entry) BY <1>2, <2>1, QueueTypes
  <2> QED BY <1>1, <1>4, <1>5, <2>1, <2>2, SendTypes DEF PreflightStarted, TypeOK
<1>6. ASSUME NEW s \in Send, PreflightQueued(s) PROVE TypeOK'
  BY <1>1, <1>2, <1>4, <1>6, QueueTypes, SendTypes DEF PreflightQueued, TypeOK
<1>7. ASSUME NEW s \in Send, PreflightDropped(s) PROVE TypeOK'
  BY <1>1, <1>2, <1>4, <1>7, OnlyView DEF PreflightDropped, Drop, Without, TypeOK
<1>8. ASSUME NEW s \in Send, DeferredLost(s) PROVE TypeOK'
  BY <1>1, <1>4, <1>8 DEF DeferredLost, routing, TypeOK
<1>9. ASSUME NEW s \in Send, RunThrows(s) PROVE TypeOK'
  BY <1>1, <1>9, OnlyView DEF RunThrows, Drop, Without, TypeOK
<1>10. CASE UserMessage
  <2>1. ASSUME NEW p \in {starting, steering, following}, p # <<>>, Deliver(Head(p))
        PROVE  /\ current' \in Send \cup {None} /\ answering' \in Send
               /\ promptOrSteer' \in Seq(Entry) /\ followUp' \in Seq(Entry)
               /\ UNCHANGED <<mode, inFlight, running, settling>>
               /\ Tail(p) \in Seq(Send)
    <3>1. Head(p) \in Send /\ Tail(p) \in Seq(Send) BY <1>1, <2>1
    <3> QED BY <3>1, <2>1, DeliverTypes
  <2>2. CASE starting # <<>> /\ Deliver(Head(starting)) /\ starting' = Tail(starting)
             /\ UNCHANGED <<steering, following>>
    BY <1>1, <2>1, <2>2 DEF TypeOK
  <2>3. CASE steering # <<>> /\ Deliver(Head(steering)) /\ steering' = Tail(steering)
             /\ UNCHANGED <<starting, following>>
    BY <1>1, <2>1, <2>3 DEF TypeOK
  <2>4. CASE following # <<>> /\ Deliver(Head(following)) /\ following' = Tail(following)
             /\ UNCHANGED <<starting, steering>>
    BY <1>1, <2>1, <2>4 DEF TypeOK
  <2> QED BY <1>10, <2>2, <2>3, <2>4 DEF UserMessage
<1>11. CASE Settle
  <2>1. \A q \in Seq(Entry) : \A n : Trimmed(q, n) \in Seq(Entry) BY OnlyView DEF Trimmed
  <2>2. /\ promptOrSteer' = Trimmed(promptOrSteer, Len(steering))
        /\ followUp' = Trimmed(followUp, Len(following))
        /\ running' = FALSE /\ settling' = TRUE /\ starting' = <<>>
        /\ UNCHANGED <<current, mode, inFlight, steering, following, answering>>
    BY <1>11 DEF Settle
  <2>3. promptOrSteer' \in Seq(Entry) /\ followUp' \in Seq(Entry) /\ starting' \in Seq(Send)
    BY <1>1, <2>1, <2>2
  <2> QED BY <1>1, <2>2, <2>3 DEF TypeOK
<1>12. CASE Settled BY <1>1, <1>12 DEF Settled, routing, TypeOK
<1>13. CASE ClearQueues BY <1>1, <1>13, OnlyView DEF ClearQueues, Cleared, InState, TypeOK
<1>14. CASE UNCHANGED vars BY <1>1, <1>14 DEF vars, routing, piVars, TypeOK
<1> QED BY <1>3, <1>5, <1>6, <1>7, <1>8, <1>9, <1>10, <1>11, <1>12, <1>13, <1>14 DEF Next

--------------------
(* Theorems. *)

\* Where pi keeps to the order the pool relies on, the routing queues, pi's queues
\* and the sends in flight fit together in every state.
THEOREM Invariance == ASSUME QueuesInOrder, DeferredInTime PROVE Spec => []IInv
<1>1. Init => IInv BY InitHolds
<1>2. IInv /\ [Next]_vars => IInv' BY NextStep
<1> QED BY <1>1, <1>2, PTL DEF Spec

\* Every variable holds a value of its type, whatever pi does.
THEOREM TypesHold == Spec => []TypeOK
<1>1. Init => TypeOK
  <2>1. <<>> \in Seq(Entry) /\ <<>> \in Seq(Send) OBVIOUS
  <2> QED BY <2>1 DEF Init, TypeOK
<1>2. TypeOK /\ [Next]_vars => TypeOK' BY TypeStep
<1> QED BY <1>1, <1>2, PTL DEF Spec

\* The agent's output goes back to the origin of the message it answers
\* (takeForUserMessage), for any number of sends.
THEOREM RepliesGoBack == ASSUME QueuesInOrder, DeferredInTime PROVE Spec => []Attributed
<1>1. IInv => Attributed BY DEF IInv
<1> QED BY <1>1, Invariance, PTL

\* The routing queues mirror pi's: nothing is missing, left over or out of order.
THEOREM QueuesMirrorPi == ASSUME QueuesInOrder, DeferredInTime PROVE Spec => []MirrorsPi
<1>1. IInv => MirrorsPi BY InvIsAligned, InvKeepsInFlight, InvStaleIsDeferred DEF MirrorsPi
<1> QED BY <1>1, Invariance, PTL

========================================
