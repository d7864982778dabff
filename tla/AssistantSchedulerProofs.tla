---------------------- MODULE AssistantSchedulerProofs ----------------------
(* Proofs about AssistantScheduler, for any jobs, occurrences, sessions and *)
(* bounds: its types, and that a job is decided once and runs alone.        *)
EXTENDS AssistantScheduler, FiniteSetTheorems, WellFoundedInduction, TLAPS

--------------------
(* Numbers and sequences. *)

\* Of the naturals with a property there is a least one.
LEMMA Least ==
    ASSUME NEW X \in SUBSET Nat, X # {}
    PROVE  \E n \in X : \A m \in X : n <= m
<1> DEFINE R == OpToRel(<, Nat)
<1>1. R = {p \in Nat \X Nat : p[1] < p[2]} BY Zenon DEF OpToRel
<1>2. IsWellFoundedOn(R, Nat) BY NatLessThanWellFounded, Zenon
<1> HIDE DEF R
<1>3. PICK n \in X : \A m \in X : <<m, n>> \notin R BY <1>2, WFMin, Zenon
<1>4. \A m \in X : ~(m < n) BY <1>3, <1>1
<1> QED BY <1>4

LEMMA MinIsLeast ==
    ASSUME NEW X \in SUBSET Nat, X # {}
    PROVE  Min(X) \in X /\ \A m \in X : Min(X) <= m
<1>1. \E n \in X : \A m \in X : n =< m BY Least
<1> QED BY <1>1, Zenon DEF Min

\* Of the naturals below a bound there is a greatest one.
LEMMA MaxIsGreatest ==
    ASSUME NEW b \in Nat, NEW X \in SUBSET (0..b), X # {}
    PROVE  Max(X) \in X /\ \A m \in X : Max(X) >= m
<1> DEFINE Y == {b - m : m \in X}
<1>1. \A m \in X : m \in Nat /\ m <= b /\ b - m \in Nat /\ b - m \in Y OBVIOUS
<1>2. \A y \in Y : \E m \in X : y = b - m OBVIOUS
<1> HIDE DEF Y
<1>3. Y \in SUBSET Nat /\ Y # {} BY <1>1, <1>2
<1>4. PICK n \in Y : \A m \in Y : n <= m BY <1>3, Least
<1>5. PICK x \in X : n = b - x BY <1>2
<1>7. \A m \in X : b - x <= b - m BY <1>1, <1>4, <1>5
<1>8. \A m \in X : x >= m BY <1>1, <1>7
<1>6. \E y \in X : \A m \in X : y >= m BY <1>8
<1> QED BY <1>6, Zenon DEF Max

\* q is drawn from p: each of its elements from a place of its own.
Draws(g, q, p) ==
    /\ g \in [DOMAIN q -> DOMAIN p]
    /\ \A k \in DOMAIN q : q[k] = p[g[k]]
    /\ \A k, l \in DOMAIN q : g[k] = g[l] => k = l
Drawn(q, p) == \E g : Draws(g, q, p)

LEMMA DrawnSelf ==
    ASSUME NEW p
    PROVE  Drawn(p, p)
<1>1. Draws([k \in DOMAIN p |-> k], p, p) BY DEF Draws
<1> QED BY <1>1 DEF Drawn

\* What is left of a sequence from one of its places on.
LEMMA DrawnSuffix ==
    ASSUME NEW S, NEW p \in Seq(S), NEW k \in 1..(Len(p) + 1), NEW w, w = SubSeq(p, k, Len(p))
    PROVE  w \in Seq(S) /\ Drawn(w, p)
<1>0. Len(p) \in Nat /\ DOMAIN p = 1..Len(p) OBVIOUS
<1>1. PICK n : n = Len(p) /\ n \in Nat /\ DOMAIN p = 1..n BY <1>0
<1>2. k \in 1..(n + 1) BY <1>1
<1>3. PICK m \in Nat : m = n + 1 - k BY <1>1, <1>2
<1>4. w \in Seq(S) /\ Len(w) = m /\ \A i \in 1..m : w[i] = p[i + k - 1] BY <1>1, <1>2, <1>3
<1>5. DOMAIN w = 1..m BY <1>4
<1>6. Draws([i \in 1..m |-> i + k - 1], w, p)
  <2>1. \A i \in 1..m : i + k - 1 \in 1..n BY <1>1, <1>2, <1>3
  <2>2. \A i, l \in 1..m : i + k - 1 = l + k - 1 => i = l BY <1>2
  <2> QED BY <1>1, <1>4, <1>5, <2>1, <2>2 DEF Draws
<1> QED BY <1>4, <1>6 DEF Drawn

LEMMA DrawnTail ==
    ASSUME NEW S, NEW p \in Seq(S), p # <<>>
    PROVE  /\ Tail(p) \in Seq(S) /\ Drawn(Tail(p), p) /\ Head(p) \in S /\ Head(p) = p[1] /\ 1 \in DOMAIN p
           /\ \A i \in DOMAIN Tail(p) : i + 1 \in DOMAIN p /\ Tail(p)[i] = p[i + 1] /\ i \in Nat \ {0}
<1>1. PICK n : n = Len(p) /\ n \in Nat \ {0} /\ DOMAIN p = 1..n OBVIOUS
<1>2. /\ Tail(p) \in Seq(S) /\ Len(Tail(p)) = n - 1 /\ n - 1 \in Nat
      /\ \A i \in 1..(n - 1) : Tail(p)[i] = p[i + 1]
      /\ Head(p) \in S /\ Head(p) = p[1]
  BY <1>1
<1>3. DOMAIN Tail(p) = 1..(n - 1) BY <1>2
<1>4. Draws([i \in 1..(n - 1) |-> i + 1], Tail(p), p)
  <2>1. \A i \in 1..(n - 1) : i + 1 \in 1..n BY <1>1
  <2>2. \A i, l \in 1..(n - 1) : i + 1 = l + 1 => i = l BY <1>1
  <2> QED BY <1>1, <1>2, <1>3, <2>1, <2>2 DEF Draws
<1>5. \A i \in 1..(n - 1) : i + 1 \in 1..n /\ i \in Nat \ {0} BY <1>1
<1> QED BY <1>1, <1>2, <1>3, <1>4, <1>5 DEF Drawn

\* Counting a finite set of naturals from below numbers it.
LEMMA Numbered ==
    ASSUME NEW n \in Nat, NEW I \in SUBSET (1..n)
    PROVE  LET f == [i \in I |-> Cardinality({j \in I : j <= i})] IN
           /\ Cardinality(I) \in Nat
           /\ \A k \in 1..Cardinality(I) : \E i \in I : f[i] = k
<1> DEFINE below(i) == {j \in I : j <= i}
           f == [i \in I |-> Cardinality({j \in I : j <= i})]
<1>0. IsFiniteSet(1..n) /\ \A i \in I : i \in Int BY FS_Interval
<1>1. IsFiniteSet(I) /\ Cardinality(I) \in Nat
  <2>1. IsFiniteSet(I) BY <1>0, FS_Subset
  <2> QED BY <2>1, FS_CardinalityType
<1>2. ASSUME NEW i \in I
      PROVE  /\ IsFiniteSet(below(i)) /\ Cardinality(below(i)) \in 1..Cardinality(I)
  <2>1. below(i) \subseteq I /\ i \in below(i) OBVIOUS
  <2>2. IsFiniteSet(below(i)) /\ Cardinality(below(i)) <= Cardinality(I) BY <2>1, <1>1, FS_Subset
  <2>3. Cardinality(below(i)) \in Nat BY <2>2, FS_CardinalityType
  <2>4. Cardinality(below(i)) # 0 BY <2>1, <2>2, FS_EmptySet
  <2> QED BY <2>2, <2>3, <2>4, <1>1
<1>3. ASSUME NEW i \in I, NEW j \in I, i < j PROVE f[i] < f[j]
  <2>1. IsFiniteSet(below(i) \cup {j}) /\ Cardinality(below(i) \cup {j}) = Cardinality(below(i)) + 1
    <3>1. j \notin below(i) BY <1>3
    <3> HIDE DEF below
    <3> QED BY <3>1, <1>2, FS_AddElement
  <2>2. below(i) \cup {j} \subseteq below(j)
    <3>1. \A x \in I : x <= i => x <= j BY <1>0, <1>3
    <3>2. j \in below(j) BY <1>0
    <3>3. \A x \in below(i) : x \in below(j) BY <3>1
    <3> HIDE DEF below
    <3> QED BY <3>2, <3>3
  <2>3. Cardinality(below(i) \cup {j}) <= Cardinality(below(j))
    <3> HIDE DEF below
    <3> QED BY <2>2, <1>2, FS_Subset
  <2>4. f[i] = Cardinality(below(i)) /\ f[j] = Cardinality(below(j)) OBVIOUS
  <2> QED BY <2>1, <2>3, <2>4, <1>2
<1>4. \A i \in I : f[i] \in 1..Cardinality(I) BY <1>2
<1>5. f \in Injection(I, 1..Cardinality(I))
  <2>1. f \in [I -> 1..Cardinality(I)] BY <1>4
  <2>2. \A i, j \in I : i # j => f[i] # f[j]
    <3>1. \A i, j \in I : i # j => i < j \/ j < i BY <1>0
    <3> HIDE DEF f
    <3> QED BY <3>1, <1>1, <1>3, <1>4
  <2> HIDE DEF f
  <2> QED BY <2>1, <2>2 DEF Injection, IsInjective
<1>6. f \in Surjection(I, 1..Cardinality(I))
  <2>1. IsFiniteSet(1..Cardinality(I)) /\ Cardinality(1..Cardinality(I)) = Cardinality(I)
    BY <1>1, FS_Interval
  <2> QED BY <2>1, <1>5, FS_Injection
<1>7. \A k \in 1..Cardinality(I) : \E i \in I : f[i] = k BY <1>6 DEF Surjection
<1> QED BY <1>1, <1>7

\* A selection is drawn from what it selects from.
LEMMA DrawnOnly ==
    ASSUME NEW S, NEW p \in Seq(S), NEW T, NEW r, r = Only(p, T)
    PROVE  r \in Seq(S) /\ Drawn(r, p) /\ \A k \in DOMAIN r : r[k] \in T
<1> DEFINE I == {i \in DOMAIN p : p[i] \in T}
           f == [i \in I |-> Cardinality({l \in I : l <= i})]
           g == [k \in 1..Cardinality(I) |-> CHOOSE i \in I : Cardinality({l \in I : l <= i}) = k]
<1>1. DOMAIN p = 1..Len(p) /\ Len(p) \in Nat /\ I \in SUBSET (1..Len(p)) OBVIOUS
<1>2. /\ Cardinality(I) \in Nat
      /\ \A k \in 1..Cardinality(I) : \E i \in I : f[i] = k
  <2> HIDE DEF I
  <2> QED BY <1>1, Numbered, Zenon
<1>3. r = [k \in 1..Cardinality(I) |-> p[g[k]]]
  <2>1. r = [k \in 1..Cardinality(I) |-> p[CHOOSE i \in I : Cardinality({l \in I : l <= i}) = k]]
    BY Zenon DEF Only
  <2> QED BY <2>1
<1>4. \A k \in 1..Cardinality(I) : g[k] \in I /\ f[g[k]] = k
  <2>1. ASSUME NEW k \in 1..Cardinality(I)
        PROVE  g[k] \in I /\ Cardinality({l \in I : l <= g[k]}) = k
    <3>1. \E i \in I : Cardinality({l \in I : l <= i}) = k BY <1>2
    <3>2. g[k] = CHOOSE i \in I : Cardinality({l \in I : l <= i}) = k OBVIOUS
    <3> HIDE DEF I, f, g
    <3> QED BY <3>1, <3>2, Zenon
  <2> QED BY <2>1
<1>5. \A i \in I : p[i] \in T /\ i \in DOMAIN p /\ p[i] \in S BY <1>1
<1>6. DOMAIN g = 1..Cardinality(I) OBVIOUS
<1> HIDE DEF f, g, I
<1>7. r \in Seq(S) /\ DOMAIN r = 1..Cardinality(I) BY <1>2, <1>3, <1>4, <1>5
<1>8. g \in [DOMAIN r -> DOMAIN p] BY <1>4, <1>5, <1>6, <1>7 DEF g
<1>9. \A k \in DOMAIN r : r[k] = p[g[k]] /\ p[g[k]] \in T BY <1>3, <1>4, <1>5, <1>7
<1>10. \A k, l \in DOMAIN r : g[k] = g[l] => k = l BY <1>4, <1>7
<1>11. Draws(g, r, p) BY <1>8, <1>9, <1>10 DEF Draws
<1> QED BY <1>7, <1>9, <1>11 DEF Drawn

--------------------
(* Jobs in flight and the log, without the state. *)

Pend == [job : Job, for : Nat]
LogEntry == [for : Nat, outcome : Outcomes, place : {"file", "memory", "lost"}]
Logs == [Job -> Seq(LogEntry)]

\* No run that is known of has decided the occurrence.
Kept(c) == {i \in DOMAIN c : c[i].place # "lost"}
Free(l, j, t) == \A i \in Kept(l[j]) : l[j][i].for = t => l[j][i].outcome = "failed"
NoneTwice(l) ==
    \A j \in Job : \A i, k \in Kept(l[j]) :
        /\ l[j][i].for = l[j][k].for
        /\ l[j][i].outcome # "failed" /\ l[j][k].outcome # "failed"
        => i = k
Apart(P, X) ==
    /\ \A i, k \in DOMAIN P : P[i].job = P[k].job => i = k
    /\ \A i \in DOMAIN P : \A x \in X : P[i].job # x.job
    /\ \A x, y \in X : x.job = y.job => x = y
AllFree(P, X, l) ==
    /\ \A i \in DOMAIN P : Free(l, P[i].job, P[i].for)
    /\ \A x \in X : Free(l, x.job, x.for)
LEMMA PendElement ==
    ASSUME NEW P \in Seq(Pend), NEW i \in DOMAIN P
    PROVE  P[i] \in Pend /\ P[i].job \in Job /\ P[i].for \in Nat
<1>1. P[i] \in Pend OBVIOUS
<1> QED BY <1>1 DEF Pend

Sound(P, X, l) == Apart(P, X) /\ AllFree(P, X, l) /\ NoneTwice(l)

LEMMA SoundDrawn ==
    ASSUME NEW P, NEW q, NEW X, NEW l, Sound(P, X, l), Drawn(q, P)
    PROVE  Sound(q, X, l)
<1>1. PICK g : Draws(g, q, P) BY DEF Drawn
<1>2. \A k \in DOMAIN q : g[k] \in DOMAIN P /\ q[k] = P[g[k]] BY <1>1 DEF Draws
<1>3. \A k, i \in DOMAIN q : g[k] = g[i] => k = i BY <1>1 DEF Draws
<1>4. Apart(q, X) BY <1>2, <1>3 DEF Sound, Apart
<1>5. AllFree(q, X, l) BY <1>2 DEF Sound, AllFree
<1> QED BY <1>4, <1>5 DEF Sound

LEMMA EntryIsLog ==
    \A t \in Nat, o \in Outcomes, p \in Place :
        Entry(t, o, p) \in LogEntry /\ Entry(t, o, p).for = t /\ Entry(t, o, p).outcome = o
<1> QED BY DEF Entry, LogEntry, Place

\* One more entry: it decides what it is about, unless it says failed.
Adds(l, m, j, e) ==
    /\ m \in Logs
    /\ \A k \in Job : \A t : Free(l, k, t) /\ (k = j /\ e.for = t => e.outcome = "failed") => Free(m, k, t)
    /\ NoneTwice(l) /\ (e.outcome = "failed" \/ Free(l, j, e.for)) => NoneTwice(m)
LEMMA EntryAdded ==
    ASSUME NEW l \in Logs, NEW j \in Job, NEW e \in LogEntry, NEW m, m = [l EXCEPT ![j] = Append(@, e)]
    PROVE  Adds(l, m, j, e)
<1>1. PICK n : n = Len(l[j]) /\ n \in Nat /\ DOMAIN l[j] = 1..n /\ l[j] \in Seq(LogEntry)
  BY DEF Logs
<1>2. /\ m[j] = Append(l[j], e) /\ \A k \in Job : k # j => m[k] = l[k]
      /\ m \in [Job -> Seq(LogEntry)]
  BY <1>1 DEF Logs
<1>3. DOMAIN m[j] = 1..(n + 1) /\ m[j][n + 1] = e /\ \A i \in 1..n : m[j][i] = l[j][i] BY <1>1, <1>2
<1>4. \A i \in DOMAIN m[j] : i \in 1..n \/ i = n + 1 BY <1>1, <1>3
<1>7. \A i \in Kept(m[j]) : \/ i \in Kept(l[j]) /\ m[j][i] = l[j][i]
                            \/ i = n + 1 /\ m[j][i] = e
  BY <1>1, <1>3, <1>4 DEF Kept
<1>5. ASSUME NEW k \in Job, NEW t, Free(l, k, t), k = j /\ e.for = t => e.outcome = "failed"
      PROVE  Free(m, k, t)
  <2>1. CASE k # j BY <1>2, <1>5, <2>1 DEF Free
  <2>2. CASE k = j BY <1>5, <1>7, <2>2 DEF Free
  <2> QED BY <2>1, <2>2
<1>6. ASSUME NoneTwice(l), e.outcome = "failed" \/ Free(l, j, e.for) PROVE NoneTwice(m)
  <2> SUFFICES ASSUME NEW k \in Job, NEW a \in Kept(m[k]), NEW b \in Kept(m[k]),
                      m[k][a].for = m[k][b].for, m[k][a].outcome # "failed", m[k][b].outcome # "failed"
               PROVE  a = b
    BY DEF NoneTwice
  <2>1. CASE k # j BY <1>2, <1>6, <2>1 DEF NoneTwice
  <2>2. CASE k = j
    <3>1. CASE /\ a \in Kept(l[j]) /\ m[j][a] = l[j][a]
               /\ b \in Kept(l[j]) /\ m[j][b] = l[j][b]
      BY <1>6, <2>2, <3>1 DEF NoneTwice
    <3>2. CASE a \in Kept(l[j]) /\ m[j][a] = l[j][a] /\ b = n + 1 /\ m[j][b] = e
      BY <1>6, <2>2, <3>2 DEF Free
    <3>3. CASE b \in Kept(l[j]) /\ m[j][b] = l[j][b] /\ a = n + 1 /\ m[j][a] = e
      BY <1>6, <2>2, <3>3 DEF Free
    <3>4. a \in Kept(m[j]) /\ b \in Kept(m[j]) BY <2>2
    <3> QED BY <1>7, <3>1, <3>2, <3>3, <3>4
  <2> QED BY <2>1, <2>2
<1> QED BY <1>2, <1>5, <1>6 DEF Logs, Adds

LEMMA SoundFailed ==
    ASSUME NEW P \in Seq(Pend), NEW X \in SUBSET Pend, NEW l \in Logs, Sound(P, X, l),
           NEW j \in Job, NEW t \in Nat, NEW p \in Place, NEW m,
           m = [l EXCEPT ![j] = Append(@, Entry(t, "failed", p))]
    PROVE  Sound(P, X, m)
<1>1. PICK e : e = Entry(t, "failed", p) /\ e \in LogEntry /\ e.outcome = "failed"
  BY EntryIsLog DEF Outcomes
<1>0. m = [l EXCEPT ![j] = Append(@, e)] BY <1>1
<1>2. /\ \A k \in Job : \A u : Free(l, k, u) => Free(m, k, u)
      /\ NoneTwice(l) => NoneTwice(m)
  <2>1. Adds(l, m, j, e) BY <1>0, <1>1, EntryAdded
  <2> QED BY <1>1, <2>1 DEF Adds
<1>3. \A i \in DOMAIN P : P[i].job \in Job BY PendElement
<1>4. \A x \in X : x.job \in Job BY DEF Pend
<1> QED BY <1>2, <1>3, <1>4 DEF Sound, AllFree

\* The head is sent: its run is in the log, and it is in flight no more.
LEMMA SoundFires ==
    ASSUME NEW P \in Seq(Pend), NEW X \in SUBSET Pend, NEW l \in Logs, Sound(P, X, l), P # <<>>,
           NEW p \in Place, NEW m, m = [l EXCEPT ![Head(P).job] = Append(@, Entry(Head(P).for, "fired", p))]
    PROVE  Sound(Tail(P), X, m)
<1>1. /\ Tail(P) \in Seq(Pend) /\ Drawn(Tail(P), P) /\ Head(P) \in Pend /\ Head(P) = P[1] /\ 1 \in DOMAIN P
      /\ \A i \in DOMAIN Tail(P) : i + 1 \in DOMAIN P /\ Tail(P)[i] = P[i + 1] /\ i \in Nat \ {0}
  BY DrawnTail
<1>2. PICK h : h = Head(P) /\ h \in Pend /\ h.job \in Job /\ h.for \in Nat BY <1>1 DEF Pend
<1>3. PICK e : e = Entry(h.for, "fired", p) /\ e \in LogEntry /\ e.for = h.for
  BY <1>2, EntryIsLog DEF Outcomes
<1>0. m = [l EXCEPT ![h.job] = Append(@, e)] BY <1>2, <1>3
<1>4. Free(l, h.job, h.for) BY <1>1, <1>2 DEF Sound, AllFree
<1>5. /\ \A k \in Job : \A u : Free(l, k, u) /\ k # h.job => Free(m, k, u)
      /\ NoneTwice(m)
  <2>1. /\ \A k \in Job : \A u : Free(l, k, u) /\ (k = h.job /\ e.for = u => e.outcome = "failed") => Free(m, k, u)
        /\ NoneTwice(l) /\ (e.outcome = "failed" \/ Free(l, h.job, e.for)) => NoneTwice(m)
    <3>1. PICK j \in Job : j = h.job BY <1>2
    <3>2. m = [l EXCEPT ![j] = Append(@, e)] BY <1>0, <3>1
    <3>3. Adds(l, m, j, e) BY <1>3, <3>2, EntryAdded
    <3> QED BY <3>1, <3>3 DEF Adds
  <2>2. NoneTwice(l) BY DEF Sound
  <2> QED BY <1>3, <1>4, <2>1, <2>2
<1>6. Sound(Tail(P), X, l) BY <1>1, SoundDrawn
<1>7. \A i \in DOMAIN Tail(P) : Tail(P)[i].job # h.job
  <2> SUFFICES ASSUME NEW i \in DOMAIN Tail(P), P[i + 1].job = P[1].job PROVE FALSE BY <1>1, <1>2
  <2>1. i + 1 = 1 BY <1>1 DEF Sound, Apart
  <2> QED BY <1>1, <2>1
<1>8. \A x \in X : x.job # h.job BY <1>1, <1>2 DEF Sound, Apart
<1>9. \A i \in DOMAIN Tail(P) : Tail(P)[i].job \in Job BY <1>1, PendElement
<1>10. \A x \in X : x.job \in Job BY DEF Pend
<1> QED BY <1>5, <1>6, <1>7, <1>8, <1>9, <1>10 DEF Sound, AllFree

\* The session of an isolated job exists, or it does not.
LEMMA SoundCreated ==
    ASSUME NEW P \in Seq(Pend), NEW X \in SUBSET Pend, NEW l \in Logs, Sound(P, X, l), NEW x \in X,
           NEW p \in Place, NEW q \in Place,
           NEW m, \/ \E o \in {"fired", "failed"} : m = [l EXCEPT ![x.job] = Append(@, Entry(x.for, o, p))]
                  \/ m = [l EXCEPT ![x.job] = Append(Append(@, Entry(x.for, "fired", p)), Entry(x.for, "failed", q))]
    PROVE  m \in Logs /\ Sound(P, X \ {x}, m)
<1>1. /\ x.job \in Job /\ x.for \in Nat
      /\ \A o \in {"fired", "failed"}, at \in Place :
            Entry(x.for, o, at) \in LogEntry /\ Entry(x.for, o, at).for = x.for
  BY EntryIsLog DEF Pend, Outcomes
<1>2. Free(l, x.job, x.for) BY DEF Sound, AllFree
<1>3. \A y \in X \ {x} : y.job \in Job /\ y.job # x.job BY DEF Sound, Apart, Pend
<1>4. \A i \in DOMAIN P : P[i].job \in Job /\ P[i].job # x.job BY PendElement DEF Sound, Apart
<1>5. ASSUME NEW o \in {"fired", "failed"}, NEW r, r = [l EXCEPT ![x.job] = Append(@, Entry(x.for, o, p))]
      PROVE  r \in Logs /\ Sound(P, X \ {x}, r)
  <2>0. PICK e : e = Entry(x.for, o, p) /\ e \in LogEntry /\ e.for = x.for BY <1>1
  <2>4. r = [l EXCEPT ![x.job] = Append(@, e)] BY <1>5, <2>0
  <2>1. /\ r \in Logs
        /\ \A k \in Job : \A u : Free(l, k, u) /\ k # x.job => Free(r, k, u)
        /\ NoneTwice(r)
    <3>1. /\ r \in Logs
          /\ \A k \in Job : \A u : Free(l, k, u) /\ (k = x.job /\ e.for = u => e.outcome = "failed") => Free(r, k, u)
          /\ NoneTwice(l) /\ (e.outcome = "failed" \/ Free(l, x.job, e.for)) => NoneTwice(r)
      <4>1. PICK j \in Job : j = x.job BY <1>1
      <4>2. r = [l EXCEPT ![j] = Append(@, e)] BY <2>4, <4>1
      <4>3. Adds(l, r, j, e) BY <2>0, <4>2, EntryAdded
      <4> QED BY <4>1, <4>3 DEF Adds
    <3>2. NoneTwice(l) BY DEF Sound
    <3> QED BY <1>2, <2>0, <3>1, <3>2
  <2>2. Apart(P, X \ {x}) BY DEF Sound, Apart
  <2>3. AllFree(P, X \ {x}, r) BY <1>3, <1>4, <2>1 DEF Sound, AllFree
  <2> QED BY <2>1, <2>2, <2>3 DEF Sound
<1>6. CASE \E o \in {"fired", "failed"} : m = [l EXCEPT ![x.job] = Append(@, Entry(x.for, o, p))]
  BY <1>5, <1>6
<1>7. CASE m = [l EXCEPT ![x.job] = Append(Append(@, Entry(x.for, "fired", p)), Entry(x.for, "failed", q))]
  <2> DEFINE r == [l EXCEPT ![x.job] = Append(@, Entry(x.for, "fired", p))]
  <2>1. r \in Logs /\ Sound(P, X \ {x}, r) BY <1>5
  <2>2. m = [r EXCEPT ![x.job] = Append(@, Entry(x.for, "failed", q))] BY <1>1, <1>7 DEF Logs
  <2> HIDE DEF r
  <2>3. Sound(P, X \ {x}, m) BY <1>1, <2>1, <2>2, SoundFailed
  <2>4. m \in Logs
    <3>1. PICK e : e = Entry(x.for, "failed", q) /\ e \in LogEntry BY <1>1
    <3>2. PICK j \in Job : j = x.job BY <1>1
    <3>3. m = [r EXCEPT ![j] = Append(@, e)] BY <2>2, <3>1, <3>2
    <3>4. Adds(r, m, j, e) BY <2>1, <3>1, <3>3, EntryAdded
    <3> QED BY <3>4 DEF Adds
  <2> QED BY <2>3, <2>4
<1> QED BY <1>6, <1>7

--------------------
(* Planning and the drain. *)

Marks == {"none", "sent", "expired", "started"}
SeenJobs == [seen : BOOLEAN, first : Nat, on : BOOLEAN, changed : Nat]
DrainState == [on : BOOLEAN, job : 0..NumJobs, at : Nat]

LEMMA JobIsNat ==
    /\ NumJobs \in Nat /\ IsFiniteSet(Job) /\ \A j \in Job : j \in Nat /\ j \in 0..NumJobs
<1>1. NumJobs \in Nat BY Jobs
<1> QED BY <1>1, FS_Interval DEF Job

LEMMA TrackedType ==
    ASSUME TypeOK, NEW j \in Job
    PROVE  Tracked(j) \in SeenJobs
<1>1. seen[j] \in SeenJobs /\ now \in Nat BY Bounds DEF TypeOK, SeenJobs
<1> QED BY <1>1 DEF Tracked, SeenJobs

\* What a job is planned for is no later than now, and no run that is known of was for it.
LEMMA PlanIsOpen ==
    ASSUME TypeOK, NEW j \in Job, NEW s, NEW p, p = Plan(j, s)
    PROVE  /\ p.job = j /\ p.for \in Nat /\ p.state \in {"idle", "due", "missed"}
           /\ p.state # "idle" => \A i \in Known(j) : log[j][i].for # p.for
<1>1. now \in Nat /\ Times[j] \in SUBSET Nat /\ log[j] \in Seq(LogEntry)
  <2>1. now \in Nat BY Bounds DEF TypeOK
  <2>2. Times[j] \in SUBSET Nat BY Jobs
  <2>3. log[j] \in Seq(LogEntry) BY DEF TypeOK, LogEntry
  <2> QED BY <2>1, <2>2, <2>3
<1>2. Open(j, s) \in SUBSET (0..now) BY <1>1 DEF Open
<1>3. CASE schedule[j] # "on" \/ Open(j, s) = {}
  <2>1. p = [job |-> j, state |-> "idle", for |-> 0] BY <1>3 DEF Plan
  <2> QED BY <2>1
<1>4. CASE ~(schedule[j] # "on" \/ Open(j, s) = {})
  <2> DEFINE t == Max(Open(j, s))
  <2>1. t \in Open(j, s) BY <1>1, <1>2, <1>4, MaxIsGreatest
  <2>2. p = [job |-> j, state |-> IF t + Grace >= now THEN "due" ELSE "missed", for |-> t]
    BY <1>4 DEF Plan
  <2>3. t \in Nat BY <1>2, <2>1
  <2> HIDE DEF t
  <2>4. \A i \in Known(j) : log[j][i].for # t
    <3>1. CASE j \in Recurring
      <4>1. \A b \in RunsOf(j) : t > b BY <2>1, <3>1 DEF Open
      <4>2. \A i \in Known(j) : log[j][i].for \in RunsOf(j) BY DEF RunsOf
      <4> QED BY <2>3, <4>1, <4>2
    <3>2. CASE j \notin Recurring
      <4>1. Known(j) = {} BY <2>1, <3>2 DEF Open
      <4> QED BY <4>1
    <3> QED BY <3>1, <3>2
  <2>5. p.job = j /\ p.for = t /\ p.state \in {"due", "missed"} BY <2>2
  <2> QED BY <2>3, <2>4, <2>5
<1> QED BY <1>3, <1>4

LEMMA DueJobs ==
    ASSUME TypeOK, NEW kind, NEW x \in Due(kind)
    PROVE  /\ x \in Pend /\ x.job \in Planned /\ Kind[x.job] = kind
           /\ Plan(x.job, Tracked(x.job)).state = "due"
           /\ \A i \in Known(x.job) : log[x.job][i].for # x.for
           /\ x.for = Plan(x.job, Tracked(x.job)).for
<1>1. PICK j \in Planned : /\ x = [job |-> j, for |-> Plan(j, Tracked(j)).for]
                           /\ Plan(j, Tracked(j)).state = "due" /\ Kind[j] = kind
  BY DEF Due
<1>2. j \in Job BY DEF Planned
<1>3. PICK p : p = Plan(j, Tracked(j)) OBVIOUS
<1>4. /\ p.for \in Nat /\ p.state = "due"
      /\ p.state # "idle" => \A i \in Known(j) : log[j][i].for # p.for
  BY <1>1, <1>2, <1>3, PlanIsOpen
<1>5. x.job = j /\ x.for = p.for BY <1>1, <1>3
<1>6. x \in Pend BY <1>1, <1>2, <1>3, <1>4 DEF Pend
<1> QED BY <1>1, <1>3, <1>4, <1>5, <1>6

LEMMA DueIsFinite ==
    ASSUME TypeOK, NEW kind
    PROVE  IsFiniteSet(Due(kind)) /\ Cardinality(Due(kind)) \in Nat
<1> DEFINE f == [x \in Due(kind) |-> x.job]
<1>1. \A x \in Due(kind) : x.job \in Job BY DueJobs DEF Planned
<1>2. \A x, y \in Due(kind) : x.job = y.job => x = y BY DEF Due
<1>3. f \in Injection(Due(kind), Job)
  <2>1. f \in [Due(kind) -> Job] BY <1>1
  <2> QED BY <2>1, <1>2 DEF Injection, IsInjective
<1>4. IsFiniteSet(Due(kind)) BY <1>3, JobIsNat, FS_Injection
<1> QED BY <1>4, FS_CardinalityType

\* What is due inline is in the order of the file, each job once.
LEMMA FiredInOrder ==
    ASSUME TypeOK, NEW q \in InFileOrder(Due("inline"))
    PROVE  /\ q \in Seq(Pend)
           /\ \A i \in DOMAIN q : q[i] \in Due("inline")
           /\ \A i, k \in DOMAIN q : q[i].job = q[k].job => i = k
<1>1. PICK n : n = Cardinality(Due("inline")) /\ n \in Nat BY DueIsFinite
<1>2. /\ q \in [1..n -> Due("inline")]
      /\ \A i, k \in DOMAIN q : i < k => q[i].job < q[k].job
  BY <1>1 DEF InFileOrder
<1>3. DOMAIN q = 1..n /\ \A i \in 1..n : q[i] \in Due("inline") BY <1>2
<1>4. \A i \in 1..n : q[i] \in Pend BY <1>3, DueJobs
<1>5. q \in [1..n -> Pend] BY <1>2, <1>4
<1>6. q \in Seq(Pend) BY <1>1, <1>5
<1>7. \A i \in 1..n : q[i].job \in Nat BY <1>4, JobIsNat DEF Pend
<1>8. \A i, k \in 1..n : i < k \/ k < i \/ i = k OBVIOUS
<1>9. \A i, k \in 1..n : q[i].job = q[k].job => i = k
  <2>1. ASSUME NEW i \in 1..n, NEW k \in 1..n, i < k PROVE q[i].job # q[k].job
    BY <1>2, <1>3, <1>7, <2>1
  <2> QED BY <1>8, <2>1
<1> QED BY <1>3, <1>6, <1>9

LEMMA ConcatParts ==
    ASSUME NEW S, NEW p \in Seq(S), NEW q \in Seq(S)
    PROVE  /\ p \o q \in Seq(S)
           /\ \A i \in DOMAIN (p \o q) :
                 \/ i \in DOMAIN p /\ (p \o q)[i] = p[i]
                 \/ i - Len(p) \in DOMAIN q /\ (p \o q)[i] = q[i - Len(p)] /\ i \notin DOMAIN p
<1>0. Len(p) \in Nat /\ Len(q) \in Nat /\ DOMAIN p = 1..Len(p) /\ DOMAIN q = 1..Len(q) OBVIOUS
<1>1. PICK a, b : a = Len(p) /\ b = Len(q) /\ a \in Nat /\ b \in Nat /\ DOMAIN p = 1..a /\ DOMAIN q = 1..b
  BY <1>0
<1>2. PICK r : r = p \o q OBVIOUS
<1>3. /\ r \in Seq(S) /\ Len(r) = a + b
      /\ \A i \in 1..(a + b) : r[i] = IF i <= a THEN p[i] ELSE q[i - a]
  BY <1>1, <1>2
<1>4. DOMAIN r = 1..(a + b) BY <1>3
<1>5. \A i \in 1..(a + b) : i \in 1..a \/ (i - a \in 1..b /\ ~(i <= a)) BY <1>1
<1> QED BY <1>1, <1>2, <1>3, <1>4, <1>5

LEMMA ConcatOne ==
    ASSUME NEW S, NEW c \in Seq(S), NEW e \in S
    PROVE  c \o <<e>> = Append(c, e) /\ c \o <<>> = c
<1>1. Len(c) \in Nat /\ DOMAIN c = 1..Len(c) OBVIOUS
<1>2. /\ <<e>> \in Seq(S) /\ Len(<<e>>) = 1 /\ <<e>>[1] = e OBVIOUS
<1>3. /\ c \o <<e>> \in Seq(S) /\ Len(c \o <<e>>) = Len(c) + 1
      /\ \A i \in 1..(Len(c) + 1) : (c \o <<e>>)[i] = IF i <= Len(c) THEN c[i] ELSE <<e>>[i - Len(c)]
  BY <1>2
<1>4. /\ Append(c, e) \in Seq(S) /\ Len(Append(c, e)) = Len(c) + 1
      /\ \A i \in 1..(Len(c) + 1) : Append(c, e)[i] = IF i <= Len(c) THEN c[i] ELSE e
  OBVIOUS
<1>5. \A i \in 1..(Len(c) + 1) : (c \o <<e>>)[i] = Append(c, e)[i] BY <1>1, <1>2, <1>3, <1>4
<1>6. c \o <<e>> = Append(c, e) BY <1>1, <1>3, <1>4, <1>5
<1>7. c \o <<>> = c OBVIOUS
<1> QED BY <1>6, <1>7

\* A plan writes an entry only for an occurrence the log does not know, and never for a
\* job that is fired.
LEMMA VerdictAdds ==
    ASSUME TypeOK, NEW j \in Job, NEW p, p = Plan(j, Tracked(j)), NEW at \in Place, NEW r,
           r = log[j] \o Verdict(p, at)
    PROVE  \/ r = log[j]
           \/ /\ \E e \in LogEntry : r = Append(log[j], e) /\ \A i \in Known(j) : log[j][i].for # e.for
              /\ p.state = "missed" \/ Kind[j] = "shell"
<1>1. /\ p.job = j /\ p.for \in Nat
      /\ p.state # "idle" => \A i \in Known(j) : log[j][i].for # p.for
  BY PlanIsOpen
<1>2. log[j] \in Seq(LogEntry) BY DEF TypeOK, LogEntry
<1>3. \A o \in {"skipped", "refused"} : Entry(p.for, o, at) \in LogEntry /\ Entry(p.for, o, at).for = p.for
  BY <1>1, EntryIsLog DEF Outcomes
<1>4. CASE p.state = "missed"
  <2>1. PICK e \in LogEntry : e = Entry(p.for, "skipped", at) /\ e.for = p.for BY <1>3
  <2>2. r = log[j] \o <<e>> BY <1>4, <2>1 DEF Verdict
  <2>3. r = Append(log[j], e) BY <1>2, <2>2, ConcatOne
  <2> QED BY <1>1, <1>4, <2>1, <2>3
<1>5. CASE p.state = "due" /\ Kind[j] = "shell"
  <2>1. PICK e \in LogEntry : e = Entry(p.for, "refused", at) /\ e.for = p.for BY <1>3
  <2>2. r = log[j] \o <<e>> BY <1>1, <1>5, <2>1 DEF Verdict
  <2>3. r = Append(log[j], e) BY <1>2, <2>2, ConcatOne
  <2> QED BY <1>1, <1>5, <2>1, <2>3
<1>6. CASE p.state # "missed" /\ ~(p.state = "due" /\ Kind[j] = "shell")
  <2>1. r = log[j] \o <<>> BY <1>1, <1>6 DEF Verdict
  <2> QED BY <1>2, <2>1
<1> QED BY <1>4, <1>5, <1>6

\* An entry for an occurrence that no known run was for decides none a second time.
LEMMA NoneTwiceStill ==
    ASSUME TypeOK, NoneTwice(log), NEW m,
           \A j \in Job : \/ m[j] = log[j]
                         \/ \E e \in LogEntry : m[j] = Append(log[j], e) /\ \A i \in Known(j) : log[j][i].for # e.for
    PROVE  NoneTwice(m)
<1>3. \A j \in Job : Kept(log[j]) = Known(j) /\ log[j] \in Seq(LogEntry) BY DEF Kept, Known, TypeOK, LogEntry
<1> SUFFICES ASSUME NEW j \in Job, NEW a \in Kept(m[j]), NEW b \in Kept(m[j]),
                    m[j][a].for = m[j][b].for, m[j][a].outcome # "failed", m[j][b].outcome # "failed"
             PROVE  a = b
  BY DEF NoneTwice
<1>1. CASE m[j] = log[j]
  <2>1. a \in Kept(log[j]) /\ b \in Kept(log[j]) BY <1>1
  <2> QED BY <1>1, <2>1 DEF NoneTwice
<1>2. CASE \E e \in LogEntry : m[j] = Append(log[j], e) /\ \A i \in Known(j) : log[j][i].for # e.for
  <2>1. PICK e \in LogEntry : m[j] = Append(log[j], e) /\ \A i \in Known(j) : log[j][i].for # e.for
    BY <1>2
  <2>2. PICK n : n = Len(log[j]) /\ n \in Nat /\ DOMAIN log[j] = 1..n BY <1>3
  <2>3. DOMAIN m[j] = 1..(n + 1) /\ m[j][n + 1] = e /\ \A i \in 1..n : m[j][i] = log[j][i]
    BY <1>3, <2>1, <2>2
  <2>4. \A i \in Kept(m[j]) :
           \/ i \in Known(j) /\ i \in Kept(log[j]) /\ m[j][i] = log[j][i]
           \/ i = n + 1 /\ m[j][i] = e
    BY <1>3, <2>2, <2>3 DEF Kept
  <2>5. CASE /\ a \in Kept(log[j]) /\ m[j][a] = log[j][a]
             /\ b \in Kept(log[j]) /\ m[j][b] = log[j][b]
    BY <2>5 DEF NoneTwice
  <2> QED BY <2>1, <2>4, <2>5
<1> QED BY <1>1, <1>2

LEMMA TickLog ==
    ASSUME TypeOK,
           NEW at \in [Job -> Place], NEW m,
           m = [j \in Job |-> IF j \in Planned THEN log[j] \o Verdict(Plan(j, Tracked(j)), at[j]) ELSE log[j]]
    PROVE  /\ m \in Logs
           /\ \A j \in Job : j \notin Planned => m[j] = log[j]
           /\ \A j \in Planned : Plan(j, Tracked(j)).state = "due" /\ Kind[j] # "shell" => m[j] = log[j]
           /\ NoneTwice(log) => NoneTwice(m)
<1>0. Planned \subseteq Job BY DEF Planned
<1>1. ASSUME NEW j \in Planned
      PROVE  \/ m[j] = log[j]
             \/ /\ \E e \in LogEntry : m[j] = Append(log[j], e) /\ \A i \in Known(j) : log[j][i].for # e.for
                /\ Plan(j, Tracked(j)).state = "missed" \/ Kind[j] = "shell"
  <2>1. PICK p : p = Plan(j, Tracked(j)) OBVIOUS
  <2>2. m[j] = log[j] \o Verdict(p, at[j]) /\ j \in Job BY <1>0, <2>1
  <2> QED BY <2>1, <2>2, VerdictAdds
<1>2. \A j \in Job : j \notin Planned => m[j] = log[j] OBVIOUS
<1>3. \A j \in Job : log[j] \in Seq(LogEntry) BY DEF TypeOK, LogEntry
<1>4. \A j \in Job : \/ m[j] = log[j]
                     \/ \E e \in LogEntry : m[j] = Append(log[j], e) /\ \A i \in Known(j) : log[j][i].for # e.for
  BY <1>1, <1>2
<1>5. DOMAIN m = Job /\ m = [j \in Job |-> m[j]] OBVIOUS
<1>6. m \in Logs
  <2>1. \A j \in Job : m[j] \in Seq(LogEntry)
    <3> SUFFICES ASSUME NEW j \in Job PROVE m[j] \in Seq(LogEntry) OBVIOUS
    <3>1. \A e \in LogEntry : Append(log[j], e) \in Seq(LogEntry) BY <1>3
    <3> QED BY <1>3, <1>4, <3>1
  <2> QED BY <1>5, <2>1 DEF Logs
<1>7. NoneTwice(log) => NoneTwice(m) BY <1>4, NoneTwiceStill
<1>8. \A j \in Planned : Plan(j, Tracked(j)).state = "due" /\ Kind[j] # "shell" => m[j] = log[j]
  BY <1>1
<1> QED BY <1>2, <1>6, <1>7, <1>8

\* What a tick fires joins what is in flight: jobs that were not, for occurrences that no
\* run was for.
LEMMA TickSound ==
    ASSUME TypeOK, Sound(pending, starting, log), NEW q \in InFileOrder(Due("inline")),
           NEW at \in [Job -> Place], NEW m,
           m = [j \in Job |-> IF j \in Planned THEN log[j] \o Verdict(Plan(j, Tracked(j)), at[j]) ELSE log[j]]
    PROVE  Sound(pending \o q, starting \cup Due("isolated"), m)
<1> DEFINE P == pending \o q
           X == starting \cup Due("isolated")
<1>1. /\ m \in Logs
      /\ \A j \in Job : j \notin Planned => m[j] = log[j]
      /\ \A j \in Planned : Plan(j, Tracked(j)).state = "due" /\ Kind[j] # "shell" => m[j] = log[j]
      /\ NoneTwice(m)
  <2>1. NoneTwice(log) BY DEF Sound
  <2> QED BY <2>1, TickLog
<1>2. pending \in Seq(Pend) /\ starting \subseteq Pend BY DEF TypeOK, Pend
<1>3. /\ q \in Seq(Pend)
      /\ \A i \in DOMAIN q : q[i] \in Due("inline")
      /\ \A i, k \in DOMAIN q : q[i].job = q[k].job => i = k
  BY FiredInOrder
<1>4. \A i \in DOMAIN P :
         \/ i \in DOMAIN pending /\ P[i] = pending[i]
         \/ i - Len(pending) \in DOMAIN q /\ P[i] = q[i - Len(pending)] /\ i \notin DOMAIN pending
  BY <1>2, <1>3, ConcatParts
<1>5. /\ \A i \in DOMAIN pending : pending[i].job \in Job /\ pending[i].job \notin Planned
      /\ \A x \in starting : x.job \in Job /\ x.job \notin Planned
  <2>1. \A i \in DOMAIN pending : pending[i].job \notin Planned BY DEF Planned, InFlight
  <2>2. \A x \in starting : x.job \notin Planned BY DEF Planned, InFlight
  <2>3. \A i \in DOMAIN pending : pending[i].job \in Job BY <1>2, PendElement
  <2> QED BY <1>2, <2>1, <2>2, <2>3 DEF Pend
<1>6. \A kind \in {"inline", "isolated"} : \A x \in Due(kind) :
         x.job \in Planned /\ Kind[x.job] = kind /\ m[x.job] = log[x.job] /\ Free(m, x.job, x.for)
  <2> SUFFICES ASSUME NEW kind \in {"inline", "isolated"}, NEW x \in Due(kind)
               PROVE  x.job \in Planned /\ Kind[x.job] = kind /\ m[x.job] = log[x.job] /\ Free(m, x.job, x.for)
    OBVIOUS
  <2>1. /\ x.job \in Planned /\ Kind[x.job] = kind /\ Plan(x.job, Tracked(x.job)).state = "due"
        /\ \A i \in Known(x.job) : log[x.job][i].for # x.for
    BY DueJobs
  <2>2. m[x.job] = log[x.job] BY <1>1, <2>1
  <2> QED BY <2>1, <2>2 DEF Free, Kept, Known
<1>7. \A x, y \in Due("isolated") : x.job = y.job => x = y BY DEF Due
<1>8. ASSUME NEW i \in DOMAIN P, NEW k \in DOMAIN P, P[i].job = P[k].job PROVE i = k
  <2>1. CASE i \in DOMAIN pending /\ P[i] = pending[i] /\ k \in DOMAIN pending /\ P[k] = pending[k]
    BY <1>8, <2>1 DEF Sound, Apart
  <2>2. CASE /\ i - Len(pending) \in DOMAIN q /\ P[i] = q[i - Len(pending)]
             /\ k - Len(pending) \in DOMAIN q /\ P[k] = q[k - Len(pending)]
    <3>1. i - Len(pending) = k - Len(pending) BY <1>3, <1>8, <2>2
    <3>2. i \in Int /\ k \in Int /\ Len(pending) \in Int BY <1>2, <1>3, ConcatParts
    <3> QED BY <3>1, <3>2
  <2>3. CASE i \in DOMAIN pending /\ P[i] = pending[i] /\ k - Len(pending) \in DOMAIN q /\ P[k] = q[k - Len(pending)]
    BY <1>3, <1>5, <1>6, <1>8, <2>3
  <2>4. CASE k \in DOMAIN pending /\ P[k] = pending[k] /\ i - Len(pending) \in DOMAIN q /\ P[i] = q[i - Len(pending)]
    BY <1>3, <1>5, <1>6, <1>8, <2>4
  <2> QED BY <1>4, <2>1, <2>2, <2>3, <2>4
<1>9. ASSUME NEW i \in DOMAIN P, NEW x \in X PROVE P[i].job # x.job
  <2>1. CASE i \in DOMAIN pending /\ P[i] = pending[i] BY <1>5, <1>6, <2>1 DEF Sound, Apart
  <2>2. CASE i - Len(pending) \in DOMAIN q /\ P[i] = q[i - Len(pending)] BY <1>3, <1>5, <1>6, <2>2
  <2> QED BY <1>4, <2>1, <2>2
<1>10. ASSUME NEW x \in X, NEW y \in X, x.job = y.job PROVE x = y
  BY <1>5, <1>6, <1>7, <1>10 DEF Sound, Apart
<1>11. ASSUME NEW i \in DOMAIN P PROVE Free(m, P[i].job, P[i].for)
  <2>1. CASE i \in DOMAIN pending /\ P[i] = pending[i]
    <3>1. m[pending[i].job] = log[pending[i].job] /\ Free(log, pending[i].job, pending[i].for)
      BY <1>1, <1>5, <2>1 DEF Sound, AllFree
    <3> QED BY <2>1, <3>1 DEF Free
  <2>2. CASE i - Len(pending) \in DOMAIN q /\ P[i] = q[i - Len(pending)] BY <1>3, <1>6, <2>2
  <2> QED BY <1>4, <2>1, <2>2
<1>12. ASSUME NEW x \in X PROVE Free(m, x.job, x.for)
  <2>1. CASE x \in starting BY <1>1, <1>5, <2>1 DEF Sound, AllFree, Free
  <2>2. CASE x \in Due("isolated") BY <1>6, <2>2
  <2> QED BY <2>1, <2>2
<1> HIDE DEF P, X
<1>13. Apart(P, X) /\ AllFree(P, X, m) BY <1>8, <1>9, <1>10, <1>11, <1>12 DEF Apart, AllFree
<1>14. Sound(P, X, m) BY <1>1, <1>13 DEF Sound
<1> QED BY <1>14 DEF P, X

\* What the loop of the drain leaves is drawn from what it was given.
LEMMA WantedDrawn ==
    ASSUME NEW P \in Seq(Pend), NEW R, NEW w, w = Wanted(P, R)
    PROVE  w \in Seq(Pend) /\ Drawn(w, P)
<1> DEFINE X == {Len(P) + 1} \cup {i \in DOMAIN P : R[P[i].job] = "on"}
           k == Min(X)
<1>0. Len(P) \in Nat /\ DOMAIN P = 1..Len(P) OBVIOUS
<1>1. X \in SUBSET Nat /\ X # {} /\ \A i \in X : i \in 1..(Len(P) + 1) BY <1>0
<1> HIDE DEF X
<1>2. k \in X BY <1>1, MinIsLeast
<1>3. w = SubSeq(P, k, Len(P)) BY DEF Wanted, X
<1> HIDE DEF k
<1> QED BY <1>1, <1>2, <1>3, DrawnSuffix

\* What DrainInline does to the jobs that wait, the drain and the marks.
Drains(P, Q, M) ==
    /\ pending' \in Seq(Pend) /\ Drawn(pending', P)
    /\ drain' \in DrainState /\ TakenIsJob'
    /\ \/ drain' = drain \/ ~drain'.on
       \/ pending' # <<>> /\ Head(pending') = [job |-> drain'.job, for |-> drain'.at]
    /\ marks' \in [Session -> Marks]
    /\ marks' = M \/ marks' = Looked(cur', Q, M)

LEMMA LoopDrains ==
    ASSUME NEW P \in Seq(Pend), NEW R, NEW Q, NEW M \in [Session -> Marks], DrainLoop(P, R, Q, M)
    PROVE  Drains(P, Q, M)
<1> DEFINE W == Wanted(P, R)
<1>1. W \in Seq(Pend) /\ Drawn(W, P) /\ pending' = W BY WantedDrawn DEF DrainLoop
<1>2. NoDrain \in DrainState /\ ~NoDrain.on BY JobIsNat DEF NoDrain, DrainState
<1>3. Looked(cur', Q, M) \in [Session -> Marks] BY DEF Looked, Marks
<1>4. marks' = M \/ marks' = Looked(cur', Q, M) BY DEF DrainLoop
<1>5. \/ drain' = NoDrain
      \/ W # <<>> /\ drain' = [on |-> TRUE, job |-> Head(W).job, at |-> Head(W).for]
  BY DEF DrainLoop
<1> HIDE DEF W
<1>6. CASE drain' = NoDrain BY <1>1, <1>2, <1>3, <1>4, <1>6 DEF Drains, TakenIsJob
<1>7. CASE W # <<>> /\ drain' = [on |-> TRUE, job |-> Head(W).job, at |-> Head(W).for]
  <2>1. PICK h : h = Head(W) /\ h \in Pend BY <1>1, <1>7
  <2>2. h.job \in Job /\ h.for \in Nat /\ h = [job |-> h.job, for |-> h.for] /\ h.job \in 0..NumJobs
    BY <2>1, JobIsNat DEF Pend
  <2>3. drain' = [on |-> TRUE, job |-> h.job, at |-> h.for] BY <1>7, <2>1
  <2>4. drain' \in DrainState /\ drain'.job \in Job /\ h = [job |-> drain'.job, for |-> drain'.at]
    BY <2>2, <2>3 DEF DrainState
  <2> QED BY <1>1, <1>3, <1>4, <1>7, <2>1, <2>4 DEF Drains, TakenIsJob
<1> QED BY <1>5, <1>6, <1>7

LEMMA InlineDrains ==
    ASSUME TypeOK, TakenIsJob, NEW P \in Seq(Pend), NEW R, NEW Q, NEW M \in [Session -> Marks],
           DrainInline(P, R, Q, M)
    PROVE  Drains(P, Q, M)
<1>1. CASE drain.on \/ P = <<>>
  <2>1. pending' = P /\ marks' = M /\ drain' = drain BY <1>1 DEF DrainInline
  <2>2. drain \in DrainState BY DEF TypeOK, DrainState
  <2>3. TakenIsJob' BY <2>1 DEF TakenIsJob
  <2> QED BY <2>1, <2>2, <2>3, DrawnSelf DEF Drains
<1>2. CASE ~(drain.on \/ P = <<>>) BY <1>2, LoopDrains DEF DrainInline
<1> QED BY <1>1, <1>2

\* A step that leaves the jobs, the drain and the marks alone.
LEMMA NothingDrains ==
    ASSUME TypeOK, TakenIsJob, UNCHANGED <<pending, drain>>, marks' \in [Session -> Marks]
    PROVE  Drains(pending, pi', marks')
<1>1. pending \in Seq(Pend) /\ drain \in DrainState BY DEF TypeOK, Pend, DrainState
<1>2. TakenIsJob' BY DEF TakenIsJob
<1> QED BY <1>1, <1>2, DrawnSelf DEF Drains

\* The jobs in flight stay sound where a step draws from them, unless the drain has
\* been raced.
LEMMA OnceFrom ==
    ASSUME Watch, NEW P, NEW Q, NEW M, Drains(P, Q, M),
           "drain" \notin raced => Sound(P, starting', log')
    PROVE  OnceInv'
<1> SUFFICES ASSUME "drain" \notin raced'
             PROVE  InFlightOnce' /\ InFlightUndecided' /\ DecidedOnce' /\ TakenIsHead'
  BY DEF OnceInv
<1>1. "drain" \notin raced /\ ~Shifted BY DEF Watch
<1>2. Sound(pending', starting', log') BY <1>1, SoundDrawn DEF Drains
<1>3. InFlightOnce' /\ InFlightUndecided' /\ DecidedOnce'
  <2>1. InFlightOnce' BY <1>2 DEF Sound, Apart, InFlightOnce
  <2>2. InFlightUndecided' BY <1>2 DEF Sound, AllFree, InFlightUndecided, Undecided, Free, Known, Kept
  <2>3. DecidedOnce' BY <1>2 DEF Sound, NoneTwice, DecidedOnce, Known, Kept
  <2> QED BY <2>1, <2>2, <2>3
<1>4. TakenIsHead' BY <1>1 DEF Drains, Shifted, TakenIsHead
<1> QED BY <1>3, <1>4

LEMMA OnceSound ==
    ASSUME OnceInv, "drain" \notin raced
    PROVE  Sound(pending, starting, log) /\ TakenIsHead
<1>1. InFlightOnce /\ InFlightUndecided /\ DecidedOnce /\ TakenIsHead BY DEF OnceInv
<1>2. Apart(pending, starting) BY <1>1 DEF InFlightOnce, Apart
<1>3. AllFree(pending, starting, log)
  BY <1>1 DEF InFlightUndecided, Undecided, AllFree, Free, Known, Kept
<1>4. NoneTwice(log) BY <1>1 DEF DecidedOnce, NoneTwice, Known, Kept
<1> QED BY <1>1, <1>2, <1>3, <1>4 DEF Sound

--------------------
(* What a step keeps. *)

SendSet == [job : Job, for : Nat, mark : Session, st : {"loading", "prompting", "running"}, at : Session]
PiState == [kind : {"none", "server", "cli", "oldcli"}, run : {"no", "run", "ended"}, queue : Nat]
Schedules == [Job -> {"absent", "off", "on"}]

\* Every variable is as it was, or of its type.
LEMMA TypesFrom ==
    ASSUME TypeOK, Watch, NEW P, NEW Q, NEW M, Drains(P, Q, M),
           now' = now \/ now' \in 0..MaxTime, cur' = cur \/ cur' \in Session, started' \in BOOLEAN,
           schedule' = schedule \/ schedule' \in Schedules, read' = read \/ read' \in Schedules,
           log' = log \/ log' \in Logs, seen' = seen \/ seen' \in [Job -> SeenJobs],
           starting' = starting \/ starting' \subseteq Pend,
           sends' \subseteq sends \/ sends' \subseteq SendSet,
           pi' = pi \/ pi' \in [Session -> PiState],
           told' = told \/ told' \in [Session -> SUBSET (Job \X Nat)],
           lost' = lost \/ lost' \subseteq Session
    PROVE  TypeOK'
<1>1. /\ now' \in 0..MaxTime /\ cur' \in Session /\ started' \in BOOLEAN
      /\ schedule' \in Schedules /\ read' \in Schedules
  BY DEF TypeOK, Schedules
<1>2. log' \in Logs BY DEF TypeOK, Logs, LogEntry
<1>3. seen' \in [Job -> SeenJobs] BY DEF TypeOK, SeenJobs
<1>4. starting' \subseteq Pend BY DEF TypeOK, Pend
<1>5. sends' \subseteq SendSet BY DEF TypeOK, SendSet
<1>6. pi' \in [Session -> PiState] BY DEF TypeOK, PiState
<1>7. told' \in [Session -> SUBSET (Job \X Nat)] /\ lost' \subseteq Session BY DEF TypeOK
<1>8. raced' \subseteq {"send", "drain"} BY DEF TypeOK, Watch
<1>9. pending' \in Seq(Pend) /\ drain' \in DrainState /\ marks' \in [Session -> Marks] BY DEF Drains
<1> QED BY <1>1, <1>2, <1>3, <1>4, <1>5, <1>6, <1>7, <1>8, <1>9
        DEF TypeOK, Schedules, Logs, LogEntry, SeenJobs, Pend, SendSet, PiState, DrainState, Marks

\* What TypeOK says of what the proofs use most.
LEMMA Basics ==
    ASSUME TypeOK
    PROVE  /\ pending \in Seq(Pend) /\ starting \subseteq Pend /\ log \in Logs /\ drain \in DrainState
           /\ cur \in Session /\ marks \in [Session -> Marks] /\ sends \subseteq SendSet
           /\ pi \in [Session -> PiState] /\ told \in [Session -> SUBSET (Job \X Nat)]
           /\ schedule \in Schedules /\ lost \subseteq Session
<1>1. pending \in Seq(Pend) /\ starting \subseteq Pend /\ log \in Logs /\ drain \in DrainState
  BY DEF TypeOK, Pend, Logs, LogEntry, DrainState
<1>2. cur \in Session /\ marks \in [Session -> Marks] /\ sends \subseteq SendSet
  BY DEF TypeOK, Marks, SendSet
<1>3. pi \in [Session -> PiState] /\ told \in [Session -> SUBSET (Job \X Nat)]
  BY DEF TypeOK, PiState
<1>4. schedule \in Schedules /\ lost \subseteq Session BY DEF TypeOK, Schedules
<1> QED BY <1>1, <1>2, <1>3, <1>4

LEMMA SendFields ==
    ASSUME TypeOK, NEW x \in sends
    PROVE  /\ x \in SendSet /\ x.job \in Job /\ x.for \in Nat /\ x.mark \in Session /\ x.at \in Session
           /\ x.st \in {"loading", "prompting", "running"}
<1>1. x \in SendSet BY Basics
<1> QED BY <1>1 DEF SendSet

\* What a session was told of keeps to its mark.
TellsAs(s, M) ==
    told'[s] # {} =>
        /\ pi'[s].kind # "none" /\ M[s] # "none" /\ ~(Cli(s, pi') /\ M[s] = "expired")
        /\ \A a, b \in told'[s] : a = b

LEMMA TellsSame ==
    ASSUME AloneInv, "send" \notin raced, NEW s \in Session, NEW M,
           \/ told'[s] = {}
           \/ told'[s] = told[s] /\ pi'[s].kind = pi[s].kind /\ M[s] \in {marks[s], "started"}
    PROVE  TellsAs(s, M)
<1>1. ToldIsMarked /\ NoTerminalIsSlow BY DEF AloneInv
<1>2. CASE told'[s] = {} BY <1>2 DEF TellsAs
<1>3. CASE told'[s] = told[s] /\ pi'[s].kind = pi[s].kind /\ M[s] \in {marks[s], "started"}
  BY <1>1, <1>3 DEF TellsAs, ToldIsMarked, NoTerminalIsSlow, Cli
<1> QED BY <1>2, <1>3

LEMMA NotOvertaken ==
    ASSUME TypeOK', Watch, "send" \notin raced'
    PROVE  /\ "send" \notin raced /\ ~Overtaken /\ NoTerminalIsSlow'
           /\ \A x \in OnItsWay : x \in sends' =>
                 /\ cur' = cur
                 /\ \A s \in {x.mark, x.at, cur} :
                       /\ marks'[s] = marks[s] \/ marks'[s] = "expired"
                       /\ pi'[s].kind = pi[s].kind
                       /\ pi[s].run = "no" => pi'[s].run = "no"
<1>1. "send" \notin raced /\ ~Overtaken BY DEF Watch
<1>2. NoTerminalIsSlow' BY <1>1 DEF Overtaken, NoTerminalIsSlow, Cli
<1>3. ASSUME NEW x \in OnItsWay, x \in sends'
      PROVE  /\ cur' = cur
             /\ \A s \in {x.mark, x.at, cur} :
                   /\ marks'[s] = marks[s] \/ marks'[s] = "expired"
                   /\ pi'[s].kind = pi[s].kind
                   /\ pi[s].run = "no" => pi'[s].run = "no"
  <2>1. x \in sends \cap sends' /\ x.st # "running" BY <1>3 DEF OnItsWay
  <2> QED BY <1>1, <2>1 DEF Overtaken
<1> QED BY <1>1, <1>2, <1>3

\* What is on its way stays alone where nothing new gets on its way.
LEMMA AloneFrom ==
    ASSUME TypeOK, TypeOK', AloneInv, Watch, NEW P, NEW M, Drains(P, pi', M),
           OnItsWay' \subseteq OnItsWay,
           "send" \notin raced' /\ "send" \notin raced /\ ~Overtaken =>
              /\ \A x \in sends' : x \in sends \/ x.mark = x.at
              /\ \A x \in OnItsWay' : told'[cur] = {}
              /\ \A s \in Session : TellsAs(s, M)
    PROVE  AloneInv'
<1> SUFFICES ASSUME "send" \notin raced'
             PROVE  OneOnItsWay' /\ WayIsMarked' /\ SentWhereMarked' /\ ToldIsMarked' /\ NoTerminalIsSlow'
  BY DEF AloneInv
<1>1. /\ "send" \notin raced /\ ~Overtaken /\ NoTerminalIsSlow'
      /\ \A x \in OnItsWay : x \in sends' =>
            /\ cur' = cur
            /\ \A s \in {x.mark, x.at, cur} :
                  /\ marks'[s] = marks[s] \/ marks'[s] = "expired"
                  /\ pi'[s].kind = pi[s].kind
  BY NotOvertaken
<1>2. OneOnItsWay /\ WayIsMarked /\ SentWhereMarked BY <1>1 DEF AloneInv
<1>3. OneOnItsWay' BY <1>2 DEF OneOnItsWay
<1>4. WayIsMarked'
  <2> SUFFICES ASSUME NEW x \in OnItsWay'
               PROVE  /\ x.at = cur' /\ marks'[cur'] \in {"sent", "expired"} /\ told'[cur'] = {}
                      /\ x.st = "prompting" => pi'[cur'].kind = "server"
    BY DEF WayIsMarked
  <2>1. x \in OnItsWay /\ x \in sends' BY DEF OnItsWay
  <2>2. cur' = cur /\ (marks'[cur] = marks[cur] \/ marks'[cur] = "expired") /\ pi'[cur].kind = pi[cur].kind
    BY <1>1, <2>1
  <2>3. x.at = cur /\ marks[cur] \in {"sent", "expired"} /\ (x.st = "prompting" => pi[cur].kind = "server")
    BY <1>2, <2>1 DEF WayIsMarked
  <2>4. told'[cur] = {} BY <1>1
  <2> QED BY <2>2, <2>3, <2>4
<1>5. SentWhereMarked' BY <1>1, <1>2 DEF SentWhereMarked
<1>6. ToldIsMarked'
  <2> SUFFICES ASSUME NEW s \in Session, told'[s] # {}
               PROVE  /\ pi'[s].kind # "none" /\ marks'[s] # "none"
                      /\ \A a, b \in told'[s] : a = b
    BY DEF ToldIsMarked
  <2>1. /\ pi'[s].kind # "none" /\ M[s] # "none" /\ ~(Cli(s, pi') /\ M[s] = "expired")
        /\ \A a, b \in told'[s] : a = b
    BY <1>1 DEF TellsAs
  <2>2. marks' = M \/ marks' = Looked(cur', pi', M) BY DEF Drains
  <2>3. CASE marks' = M BY <2>1, <2>3
  <2>4. CASE marks' = Looked(cur', pi', M)
    <3>1. s = cur' => ~Forgets(s, pi', M) BY <2>1 DEF Forgets
    <3>2. marks'[s] # "none" BY <2>1, <2>4, <3>1 DEF Looked
    <3> QED BY <2>1, <3>2
  <2> QED BY <2>2, <2>3, <2>4
<1> QED BY <1>1, <1>3, <1>4, <1>5, <1>6

\* The jobs in flight are as they were.
LEMMA OnceQuiet ==
    ASSUME TypeOK, OnceInv, Watch, NEW Q, NEW M, Drains(pending, Q, M), UNCHANGED <<starting, log>>
    PROVE  OnceInv'
<1>1. "drain" \notin raced => Sound(pending, starting', log') BY OnceSound
<1> QED BY <1>1, OnceFrom

--------------------
(* The steps. *)

LEMMA InitHolds == Init => IInv
<1> SUFFICES ASSUME Init PROVE IInv OBVIOUS
<1>1. NumJobs \in Nat /\ 0 \in 0..NumJobs /\ First \in Session /\ 0 \in 0..MaxTime
  BY JobIsNat, Bounds
<1>2. schedule \in Schedules BY DEF Init, Schedules
<1>3. <<>> \in Seq(Pend) /\ <<>> \in Seq(LogEntry) /\ log \in Logs BY DEF Init, Logs
<1>4. seen \in [Job -> SeenJobs] /\ drain \in DrainState /\ ~drain.on /\ pi \in [Session -> PiState]
  BY <1>1 DEF Init, Unseen, SeenJobs, NoDrain, DrainState, Gone, PiState
<1>5. TypeOK
  <2>1. now \in 0..MaxTime /\ cur \in Session /\ started \in BOOLEAN /\ read \in Schedules
    BY <1>1 DEF Init, Schedules
  <2>2. /\ pending \in Seq(Pend) /\ starting \subseteq Pend /\ marks \in [Session -> Marks]
        /\ sends \subseteq SendSet /\ told \in [Session -> SUBSET (Job \X Nat)]
        /\ lost \subseteq Session /\ raced \subseteq {"send", "drain"}
    BY <1>3 DEF Init, Marks
  <2> QED BY <1>2, <1>3, <1>4, <2>1, <2>2
          DEF TypeOK, Schedules, Logs, LogEntry, SeenJobs, Pend, SendSet, PiState, DrainState, Marks
<1>6. TakenIsJob /\ RunIsResident BY <1>4 DEF Init, TakenIsJob, RunIsResident, Gone
<1>7. OnceInv
  BY <1>4 DEF Init, OnceInv, InFlightOnce, InFlightUndecided, DecidedOnce, TakenIsHead, Undecided,
         Known
<1>8. AloneInv
  BY DEF Init, AloneInv, OneOnItsWay, WayIsMarked, SentWhereMarked, ToldIsMarked, NoTerminalIsSlow, OnItsWay
<1> QED BY <1>5, <1>6, <1>7, <1>8 DEF IInv

LEMMA Unmoved ==
    ASSUME IInv, started' \in BOOLEAN,
           UNCHANGED <<now, diskVars, loopVars, starting, marks, sends, pi, histVars, used>>
    PROVE  IInv'
<1>1. TypeOK' BY DEF IInv, TypeOK, diskVars, loopVars, histVars
<1>2. TakenIsJob' /\ RunIsResident'
  BY DEF IInv, TakenIsJob, RunIsResident, diskVars, loopVars, histVars
<1>3. OnceInv'
  BY DEF IInv, OnceInv, InFlightOnce, InFlightUndecided, DecidedOnce, TakenIsHead, Undecided,
         Known, diskVars, loopVars, histVars
<1>4. AloneInv'
  BY DEF IInv, AloneInv, OneOnItsWay, WayIsMarked, SentWhereMarked, ToldIsMarked, NoTerminalIsSlow,
         OnItsWay, Cli, diskVars, loopVars, histVars
<1> QED BY <1>1, <1>2, <1>3, <1>4 DEF IInv

\* Nothing about sends, exchanges and marks changes but what the drain forgets.
LEMMA AloneQuiet ==
    ASSUME TypeOK, TypeOK', AloneInv, Watch, NEW P, Drains(P, pi', marks),
           UNCHANGED <<cur, sends, pi, told>>
    PROVE  AloneInv'
<1>1. OnItsWay' \subseteq OnItsWay BY DEF OnItsWay
<1>2. ASSUME "send" \notin raced
      PROVE  /\ \A x \in OnItsWay' : told'[cur] = {}
             /\ \A s \in Session : TellsAs(s, marks)
  <2>1. \A x \in OnItsWay' : told'[cur] = {} BY <1>1, <1>2 DEF AloneInv, WayIsMarked
  <2>2. \A s \in Session : TellsAs(s, marks) BY <1>2, TellsSame
  <2> QED BY <2>1, <2>2
<1> QED BY <1>1, <1>2, AloneFrom

LEMMA TickKeeps ==
    ASSUME IInv, Tick
    PROVE  IInv'
<1>1. TypeOK /\ TakenIsJob /\ RunIsResident /\ OnceInv /\ AloneInv /\ Watch BY DEF IInv, Tick
<1>2. PICK q \in InFileOrder(Due("inline")) : DrainInline(Present(pending \o q), schedule, pi, marks)
  BY DEF Tick
<1>3. q \in Seq(Pend) /\ pending \in Seq(Pend) /\ pending \o q \in Seq(Pend)
  <2>1. q \in Seq(Pend) BY <1>1, <1>2, FiredInOrder
  <2>2. pending \in Seq(Pend) BY <1>1, Basics
  <2> QED BY <2>1, <2>2
<1> DEFINE P == Present(pending \o q)
<1>4. P \in Seq(Pend) /\ Drawn(P, pending \o q) BY <1>3, DrawnOnly DEF Present
<1>5. marks \in [Session -> Marks] BY <1>1, Basics
<1>6. Drains(P, pi', marks)
  <2>1. pi' = pi BY DEF Tick
  <2> HIDE DEF P
  <2>2. DrainInline(P, schedule, pi, marks) BY <1>2 DEF P
  <2> QED BY <1>1, <1>4, <1>5, <2>1, <2>2, InlineDrains
<1>12. PICK at \in [Job -> Place] :
          log' = [j \in Job |-> IF j \in Planned THEN log[j] \o Verdict(Plan(j, Tracked(j)), at[j]) ELSE log[j]]
  BY DEF Tick, Places
<1>7. log' \in Logs BY <1>1, <1>12, TickLog
<1>8. OnceInv'
  <2>1. ASSUME "drain" \notin raced PROVE Sound(P, starting', log')
    <3>1. Sound(pending, starting, log) BY <1>1, <2>1, OnceSound
    <3>2. starting' = starting \cup Due("isolated") BY DEF Tick
    <3>3. Sound(pending \o q, starting', log') BY <1>1, <1>2, <1>12, <3>1, <3>2, TickSound
    <3> HIDE DEF P
    <3> QED BY <1>4, <3>3, SoundDrawn
  <2> HIDE DEF P
  <2> QED BY <1>1, <1>6, <2>1, OnceFrom
<1>9. TypeOK'
  <2>1. /\ now' = now /\ cur' = cur /\ started' \in BOOLEAN /\ schedule' = schedule
        /\ sends' \subseteq sends /\ pi' = pi /\ told' = told /\ lost' = lost
    BY <1>1 DEF Tick, TypeOK
  <2>2. read' \in Schedules BY <1>1, Basics DEF Tick
  <2>3. seen' \in [Job -> SeenJobs]
    <3>1. Unseen \in SeenJobs BY DEF Unseen, SeenJobs
    <3>2. seen' = [j \in Job |-> IF schedule[j] = "absent" THEN Unseen ELSE Tracked(j)] BY DEF Tick
    <3>3. \A j \in Job : Tracked(j) \in SeenJobs BY <1>1, TrackedType
    <3> QED BY <3>1, <3>2, <3>3
  <2>4. starting' \subseteq Pend
    <3>1. starting' = starting \cup Due("isolated") BY DEF Tick
    <3>2. \A x \in Due("isolated") : x \in Pend BY <1>1, DueJobs
    <3>3. starting \subseteq Pend BY <1>1, Basics
    <3> QED BY <3>1, <3>2, <3>3
  <2> HIDE DEF P
  <2> QED BY <1>1, <1>6, <1>7, <2>1, <2>2, <2>3, <2>4, TypesFrom
<1>10. AloneInv'
  <2>1. UNCHANGED <<cur, sends, pi, told>> BY DEF Tick
  <2> HIDE DEF P
  <2> QED BY <1>1, <1>6, <1>9, <2>1, AloneQuiet
<1>11. RunIsResident' /\ TakenIsJob'
  <2>1. pi' = pi BY DEF Tick
  <2> QED BY <1>1, <1>6, <2>1 DEF RunIsResident, Drains
<1> QED BY <1>8, <1>9, <1>10, <1>11 DEF IInv

\* What the drain removes is drawn from what waits.
LEMMA RestDrawn ==
    ASSUME TypeOK, NEW r, r = IF pending = <<>> THEN <<>> ELSE Tail(pending)
    PROVE  r \in Seq(Pend) /\ Drawn(r, pending)
<1>1. pending \in Seq(Pend) BY Basics
<1>2. CASE pending = <<>> BY <1>1, <1>2, DrawnSelf
<1>3. CASE pending # <<>> BY <1>1, <1>3, DrawnTail
<1> QED BY <1>2, <1>3

\* Where the controller answers and the session is idle, nothing is on its way to it
\* and it was told of nothing.
LEMMA IdleIsFree ==
    ASSUME TypeOK, AloneInv, "send" \notin raced, Answers, Idle(cur, pi, marks)
    PROVE  OnItsWay = {} /\ told[cur] = {}
<1>1. WayIsMarked /\ ToldIsMarked /\ NoTerminalIsSlow /\ cur \in Session BY Basics DEF AloneInv
<1>2. told[cur] = {} BY <1>1 DEF ToldIsMarked, NoTerminalIsSlow, Idle, Forgets
<1>3. ASSUME NEW x \in OnItsWay PROVE FALSE
  <2>1. x \in sends /\ x.st # "running" /\ x.st # "loading" BY DEF OnItsWay, Answers
  <2>2. x.st = "prompting" BY <2>1, SendFields
  <2>3. pi[cur].kind = "server" /\ marks[cur] \in {"sent", "expired"}
    BY <1>1, <1>3, <2>2 DEF WayIsMarked
  <2> QED BY <2>3 DEF Idle, Forgets, Cli
<1> QED BY <1>2, <1>3

LEMMA DrainResumesKeeps ==
    ASSUME IInv, DrainResumes
    PROVE  IInv'
<1>0. TypeOK /\ TakenIsJob /\ RunIsResident /\ OnceInv /\ AloneInv /\ Watch
  BY DEF IInv, DrainResumes
<1>1. /\ UNCHANGED <<now, schedule, cur, started, read, seen, starting, pi, told, lost, used>>
      /\ drain.on /\ Answers /\ drain' = NoDrain
  BY DEF DrainResumes
<1>2. /\ pending \in Seq(Pend) /\ starting \subseteq Pend /\ log \in Logs /\ drain \in DrainState
      /\ cur \in Session /\ marks \in [Session -> Marks] /\ sends \subseteq SendSet
  BY <1>0, Basics
<1>3. NoDrain \in DrainState /\ ~NoDrain.on BY JobIsNat DEF NoDrain, DrainState
<1>4. drain.job \in Job /\ drain.at \in Nat BY <1>0, <1>1, <1>2 DEF TakenIsJob, DrainState
<1>5. RunIsResident' /\ TakenIsJob' BY <1>0, <1>1, <1>3 DEF RunIsResident, TakenIsJob
<1>6. CASE ~Idle(cur, pi, marks) /\ marks' = Looked(cur, pi, marks) /\ UNCHANGED <<pending, log, sends>>
  <2>1. marks' \in [Session -> Marks] BY <1>2, <1>6 DEF Looked, Marks
  <2>2. Drains(pending, pi', marks) BY <1>1, <1>2, <1>3, <1>5, <1>6, <2>1, DrawnSelf DEF Drains
  <2>3. OnceInv' BY <1>0, <1>1, <1>6, <2>2, OnceQuiet
  <2>4. TypeOK'
    <3>1. /\ now' = now /\ cur' = cur /\ started' \in BOOLEAN /\ schedule' = schedule /\ read' = read
          /\ log' = log /\ seen' = seen /\ starting' = starting /\ sends' \subseteq sends /\ pi' = pi
          /\ told' = told /\ lost' = lost
      BY <1>0, <1>1, <1>6 DEF TypeOK
    <3> QED BY <1>0, <2>2, <3>1, TypesFrom
  <2>5. AloneInv' BY <1>0, <1>1, <1>6, <2>2, <2>4, AloneQuiet
  <2> QED BY <1>5, <2>3, <2>4, <2>5 DEF IInv
<1>7. ASSUME NEW r, r = IF pending = <<>> THEN <<>> ELSE Tail(pending), NEW y,
             y = [job |-> drain.job, for |-> drain.at, mark |-> cur, st |-> "loading", at |-> cur],
             Idle(cur, pi, marks), pending' = r, marks' = [marks EXCEPT ![cur] = "sent"],
             Logged(drain.job, drain.at, "fired"), sends' = sends \cup {y}
      PROVE  IInv'
  <2>1. marks' \in [Session -> Marks] BY <1>2, <1>7 DEF Marks
  <2>2. r \in Seq(Pend) /\ Drawn(r, pending) BY <1>0, <1>7, RestDrawn
  <2>3. Drains(r, pi', marks') BY <1>1, <1>3, <1>5, <1>7, <2>1, <2>2, DrawnSelf DEF Drains
  <2>4. y \in SendSet /\ y.mark = cur /\ y.at = cur /\ y.st = "loading"
    BY <1>2, <1>4, <1>7 DEF SendSet
  <2>5. PICK p \in Place : log' = [log EXCEPT ![drain.job] = Append(@, Entry(drain.at, "fired", p))]
    BY <1>7 DEF Logged, Places, Place
  <2>6. log' \in Logs
    <3>1. PICK j \in Job, e \in LogEntry : j = drain.job /\ e = Entry(drain.at, "fired", p)
      BY <1>4, EntryIsLog DEF Outcomes
    <3>2. log' = [log EXCEPT ![j] = Append(@, e)] BY <2>5, <3>1
    <3>3. Adds(log, log', j, e) BY <1>2, <3>1, <3>2, EntryAdded
    <3> QED BY <3>3 DEF Adds
  <2>7. OnceInv'
    <3>1. ASSUME "drain" \notin raced PROVE Sound(r, starting', log')
      <4>1. Sound(pending, starting, log) /\ TakenIsHead BY <1>0, <3>1, OnceSound
      <4>2. pending # <<>> /\ Head(pending) = [job |-> drain.job, for |-> drain.at]
        BY <1>1, <4>1 DEF TakenIsHead
      <4>3. Head(pending).job = drain.job /\ Head(pending).for = drain.at BY <4>2
      <4>4. log' = [log EXCEPT ![Head(pending).job] = Append(@, Entry(Head(pending).for, "fired", p))]
        BY <2>5, <4>3
      <4>5. Sound(Tail(pending), starting, log') BY <1>2, <4>1, <4>2, <4>4, SoundFires
      <4> QED BY <1>1, <1>7, <4>2, <4>5
    <3> QED BY <1>0, <2>3, <3>1, OnceFrom
  <2>8. TypeOK'
    <3>1. /\ now' = now /\ cur' = cur /\ started' \in BOOLEAN /\ schedule' = schedule /\ read' = read
          /\ seen' = seen /\ starting' = starting /\ pi' = pi /\ told' = told /\ lost' = lost
      BY <1>0, <1>1 DEF TypeOK
    <3>2. sends' \subseteq SendSet BY <1>2, <1>7, <2>4
    <3> QED BY <1>0, <2>3, <2>6, <3>1, <3>2, TypesFrom
  <2>9. AloneInv'
    <3> SUFFICES ASSUME "send" \notin raced'
                 PROVE  OneOnItsWay' /\ WayIsMarked' /\ SentWhereMarked' /\ ToldIsMarked' /\ NoTerminalIsSlow'
      BY DEF AloneInv
    <3>1. "send" \notin raced /\ NoTerminalIsSlow' BY <1>0, <2>8, NotOvertaken
    <3>2. OnItsWay = {} /\ told[cur] = {} BY <1>0, <1>1, <1>7, <3>1, IdleIsFree
    <3>3. ToldIsMarked /\ SentWhereMarked BY <1>0, <3>1 DEF AloneInv
    <3>4. \A x \in OnItsWay' : x = y BY <1>7, <3>2 DEF OnItsWay
    <3>5. OneOnItsWay' BY <3>4 DEF OneOnItsWay
    <3>6. marks'[cur] = "sent" /\ \A s \in Session : marks'[s] = "sent" \/ marks'[s] = marks[s]
      BY <1>2, <1>7
    <3>7. WayIsMarked' BY <1>1, <2>4, <3>2, <3>4, <3>6 DEF WayIsMarked
    <3>8. SentWhereMarked' BY <1>7, <2>4, <3>3 DEF SentWhereMarked
    <3>9. ToldIsMarked' BY <1>1, <3>3, <3>6 DEF ToldIsMarked
    <3> QED BY <3>1, <3>5, <3>7, <3>8, <3>9
  <2> QED BY <1>5, <2>7, <2>8, <2>9 DEF IInv
<1> QED BY <1>6, <1>7 DEF DrainResumes

LEMMA EnsureFailsKeeps ==
    ASSUME IInv, EnsureFails
    PROVE  IInv'
<1>0. TypeOK /\ TakenIsJob /\ RunIsResident /\ OnceInv /\ AloneInv /\ Watch BY DEF IInv, EnsureFails
<1>1. /\ UNCHANGED <<now, schedule, cur, started, read, seen, starting, sends, pi, told, lost, used>>
      /\ drain.on /\ Logged(drain.job, drain.at, "failed")
  BY DEF EnsureFails
<1>2. /\ pending \in Seq(Pend) /\ starting \subseteq Pend /\ log \in Logs /\ drain \in DrainState
      /\ marks \in [Session -> Marks]
  BY <1>0, Basics
<1>3. PICK r : r = (IF pending = <<>> THEN <<>> ELSE Tail(pending)) /\ DrainLoop(r, read, pi, marks)
  BY DEF EnsureFails
<1>4. r \in Seq(Pend) /\ Drawn(r, pending) BY <1>0, <1>3, RestDrawn
<1>5. Drains(r, pi', marks) BY <1>1, <1>2, <1>3, <1>4, LoopDrains
<1>6. PICK j \in Job, t \in Nat : j = drain.job /\ t = drain.at
  BY <1>0, <1>1, <1>2 DEF TakenIsJob, DrainState
<1>7. PICK p \in Place : log' = [log EXCEPT ![j] = Append(@, Entry(t, "failed", p))] BY <1>1, <1>6 DEF Logged, Places, Place
<1>8. log' \in Logs
  <2>1. PICK e \in LogEntry : e = Entry(t, "failed", p) BY <1>6, EntryIsLog DEF Outcomes
  <2>2. Adds(log, log', j, e) BY <1>2, <1>7, <2>1, EntryAdded
  <2> QED BY <2>2 DEF Adds
<1>9. OnceInv'
  <2>1. ASSUME "drain" \notin raced PROVE Sound(r, starting', log')
    <3>1. Sound(r, starting, log) BY <1>0, <1>4, <2>1, OnceSound, SoundDrawn
    <3>2. Sound(r, starting, log') BY <1>2, <1>4, <1>7, <3>1, SoundFailed
    <3> QED BY <1>1, <3>2
  <2> QED BY <1>0, <1>5, <2>1, OnceFrom
<1>10. TypeOK'
  <2>1. /\ now' = now /\ cur' = cur /\ started' \in BOOLEAN /\ schedule' = schedule /\ read' = read
        /\ seen' = seen /\ starting' = starting /\ sends' \subseteq sends /\ pi' = pi
        /\ told' = told /\ lost' = lost
    BY <1>0, <1>1 DEF TypeOK
  <2> QED BY <1>0, <1>5, <1>8, <2>1, TypesFrom
<1>11. AloneInv' BY <1>0, <1>1, <1>5, <1>10, AloneQuiet
<1>12. RunIsResident' /\ TakenIsJob' BY <1>0, <1>1, <1>5 DEF RunIsResident, Drains
<1> QED BY <1>9, <1>10, <1>11, <1>12 DEF IInv

LEMMA IsolatedCreatedKeeps ==
    ASSUME IInv, Watch, NEW x \in starting, IsolatedCreated(x)
    PROVE  IInv'
<1>0. TypeOK /\ TakenIsJob /\ RunIsResident /\ OnceInv /\ AloneInv BY DEF IInv
<1>1. /\ UNCHANGED <<now, schedule, cur, started, read, seen, pending, drain, marks, sends, pi, told, lost, used>>
      /\ starting' = starting \ {x}
  BY DEF IsolatedCreated, loopVars
<1>2. PICK p \in Place, q \in Place :
         \/ \E o \in {"fired", "failed"} : log' = [log EXCEPT ![x.job] = Append(@, Entry(x.for, o, p))]
         \/ log' = [log EXCEPT ![x.job] = Append(Append(@, Entry(x.for, "fired", p)), Entry(x.for, "failed", q))]
  BY DEF IsolatedCreated, Logged, Places, Place
<1>3. /\ pending \in Seq(Pend) /\ starting \in SUBSET Pend /\ log \in Logs /\ marks \in [Session -> Marks]
  BY <1>0, Basics
<1>4. Drains(pending, pi', marks') BY <1>0, <1>1, <1>3, NothingDrains
<1>5. log' \in Logs
  <2>1. /\ x.job \in Job
        /\ \A o \in {"fired", "failed"}, at \in Place : Entry(x.for, o, at) \in LogEntry
    BY <1>3, EntryIsLog DEF Pend, Outcomes
  <2>2. log[x.job] \in Seq(LogEntry) BY <1>3, <2>1 DEF Logs
  <2>3. /\ \A o \in {"fired", "failed"} : Append(log[x.job], Entry(x.for, o, p)) \in Seq(LogEntry)
        /\ Append(Append(log[x.job], Entry(x.for, "fired", p)), Entry(x.for, "failed", q)) \in Seq(LogEntry)
    BY <2>1, <2>2
  <2> QED BY <1>2, <1>3, <2>1, <2>3 DEF Logs
<1>6. OnceInv'
  <2>1. ASSUME "drain" \notin raced PROVE Sound(pending, starting', log')
    <3>1. Sound(pending, starting, log) BY <1>0, <2>1, OnceSound
    <3>2. Sound(pending, starting \ {x}, log') BY <1>2, <1>3, <3>1, SoundCreated
    <3> QED BY <1>1, <3>2
  <2> QED BY <1>4, <2>1, OnceFrom
<1>7. TypeOK'
  <2>1. /\ now' = now /\ cur' = cur /\ started' \in BOOLEAN /\ schedule' = schedule /\ read' = read
        /\ seen' = seen /\ starting' \subseteq Pend /\ sends' \subseteq sends /\ pi' = pi
        /\ told' = told /\ lost' = lost
    BY <1>0, <1>1, <1>3 DEF TypeOK
  <2> QED BY <1>0, <1>4, <1>5, <2>1, TypesFrom
<1>8. AloneInv'
  <2>1. UNCHANGED <<cur, sends, pi, told>> /\ marks' = marks BY <1>1
  <2>2. Drains(pending, pi', marks) BY <1>4, <2>1
  <2> QED BY <1>0, <1>7, <2>1, <2>2, AloneQuiet
<1>9. RunIsResident' /\ TakenIsJob' BY <1>0, <1>1, <1>4 DEF RunIsResident, Drains
<1> QED BY <1>6, <1>7, <1>8, <1>9 DEF IInv

\* A send is taken off the way, and its mark with it where that is due.
LEMMA ReturnsDrains ==
    ASSUME TypeOK, TakenIsJob, NEW x \in sends, NEW Q, Returns(x, Q)
    PROVE  \E M \in [Session -> Marks] :
              /\ Drains(pending, Q, M)
              /\ \/ M = marks
                 \/ /\ M = [marks EXCEPT ![x.mark] = "none"]
                    /\ Q[x.mark].kind = "server" /\ ~Streaming(x.mark, Q)
<1>1. pending \in Seq(Pend) /\ marks \in [Session -> Marks] /\ drain \in DrainState BY Basics
<1> DEFINE N == [marks EXCEPT ![x.mark] = "none"]
<1>2. N \in [Session -> Marks] BY <1>1 DEF Marks
<1>3. CASE Q[x.mark].kind = "server" /\ ~Streaming(x.mark, Q)
  <2>1. DrainInline(pending, read, Q, N) BY <1>3 DEF Returns
  <2> HIDE DEF N
  <2>2. Drains(pending, Q, N) BY <1>1, <1>2, <2>1, InlineDrains
  <2> QED BY <1>2, <1>3, <2>2 DEF N
<1>4. CASE ~(Q[x.mark].kind = "server" /\ ~Streaming(x.mark, Q))
  <2>1. UNCHANGED <<pending, drain, marks>> BY <1>4 DEF Returns
  <2>2. TakenIsJob' BY <2>1 DEF TakenIsJob
  <2>3. Drains(pending, Q, marks) BY <1>1, <2>1, <2>2, DrawnSelf DEF Drains
  <2> QED BY <1>1, <2>3
<1> QED BY <1>3, <1>4

\* A send that is done leaves its session told of nothing, unless it was overtaken.
LEMMA DoneIsForgotten ==
    ASSUME TypeOK, AloneInv, "send" \notin raced, ~Overtaken, NEW x \in sends,
           sends' = sends \ {x}, told' = told, x.st # "running" \/ pi[x.at].run = "no"
    PROVE  told[x.mark] = {}
<1>1. CASE x.st = "running" BY <1>1 DEF Overtaken
<1>2. CASE x.st # "running"
  <2>1. x \in OnItsWay BY <1>2 DEF OnItsWay
  <2> QED BY <2>1 DEF AloneInv, WayIsMarked, SentWhereMarked
<1> QED BY <1>1, <1>2

\* A send is done and no run follows: what it marked is idle again.
LEMMA DoneKeeps ==
    ASSUME IInv, Watch, NEW x \in sends, KeepLoop, sends' = sends \ {x}, UNCHANGED <<pi, told, lost>>,
           x.st # "running" \/ pi[x.at].run = "no",
           NEW M \in [Session -> Marks], M = marks \/ M = [marks EXCEPT ![x.mark] = "none"],
           Drains(pending, pi, M),
           log' = log \/ Logged(x.job, x.for, "failed")
    PROVE  IInv'
<1>0. TypeOK /\ TakenIsJob /\ RunIsResident /\ OnceInv /\ AloneInv BY DEF IInv
<1>1. UNCHANGED <<now, schedule, cur, started, read, seen, starting, used>> BY DEF KeepLoop
<1>2. /\ pending \in Seq(Pend) /\ starting \in SUBSET Pend /\ log \in Logs /\ marks \in [Session -> Marks]
  BY <1>0, Basics
<1>3. PICK j \in Job, t \in Nat : j = x.job /\ t = x.for BY <1>0, SendFields
<1>4. PICK p : \/ log' = log
               \/ p \in Place /\ log' = [log EXCEPT ![j] = Append(@, Entry(t, "failed", p))]
  BY <1>3 DEF Logged, Places, Place
<1>5. log' \in Logs
  <2>1. CASE log' = log BY <1>2, <2>1
  <2>2. CASE p \in Place /\ log' = [log EXCEPT ![j] = Append(@, Entry(t, "failed", p))]
    <3>1. PICK e \in LogEntry : e = Entry(t, "failed", p) BY <1>3, <2>2, EntryIsLog DEF Outcomes
    <3>2. Adds(log, log', j, e) BY <1>2, <1>3, <2>2, <3>1, EntryAdded
    <3> QED BY <3>2 DEF Adds
  <2> QED BY <1>4, <2>1, <2>2
<1>6. OnceInv'
  <2>1. ASSUME "drain" \notin raced PROVE Sound(pending, starting', log')
    <3>1. Sound(pending, starting, log) BY <1>0, <2>1, OnceSound
    <3>2. CASE log' = log BY <1>1, <3>1, <3>2
    <3>3. CASE p \in Place /\ log' = [log EXCEPT ![j] = Append(@, Entry(t, "failed", p))]
      BY <1>1, <1>2, <1>3, <3>1, <3>3, SoundFailed
    <3> QED BY <1>4, <3>2, <3>3
  <2> QED BY <2>1, OnceFrom
<1>7. TypeOK'
  <2>1. /\ now' = now /\ cur' = cur /\ started' \in BOOLEAN /\ schedule' = schedule /\ read' = read
        /\ seen' = seen /\ starting' = starting /\ sends' \subseteq sends /\ pi' = pi
        /\ told' = told /\ lost' = lost
    BY <1>0, <1>1 DEF TypeOK
  <2> QED BY <1>0, <1>5, <2>1, TypesFrom
<1>8. AloneInv'
  <2>1. OnItsWay' \subseteq OnItsWay BY DEF OnItsWay
  <2>2. ASSUME "send" \notin raced, ~Overtaken
        PROVE  /\ \A y \in OnItsWay' : told'[cur] = {}
               /\ \A s \in Session : TellsAs(s, M)
    <3>1. \A y \in OnItsWay' : told'[cur] = {} BY <1>0, <2>1, <2>2 DEF AloneInv, WayIsMarked
    <3>2. told[x.mark] = {} BY <1>0, <2>2, DoneIsForgotten
    <3>3. \A s \in Session : s # x.mark => M[s] = marks[s] BY <1>2
    <3>4. \A s \in Session : TellsAs(s, M)
      <4> SUFFICES ASSUME NEW s \in Session PROVE TellsAs(s, M) OBVIOUS
      <4>1. told'[s] = {} \/ (told'[s] = told[s] /\ pi'[s].kind = pi[s].kind /\ M[s] \in {marks[s], "started"})
        BY <3>2, <3>3
      <4> QED BY <1>0, <2>2, <4>1, TellsSame
    <3> QED BY <3>1, <3>4
  <2>3. \A y \in sends' : y \in sends OBVIOUS
  <2>4. Drains(pending, pi', M) OBVIOUS
  <2> QED BY <1>0, <1>7, <2>1, <2>2, <2>3, <2>4, AloneFrom
<1>9. RunIsResident' /\ TakenIsJob' BY <1>0 DEF RunIsResident, Drains
<1> QED BY <1>6, <1>7, <1>8, <1>9 DEF IInv

LEMMA PromptHandledKeeps ==
    ASSUME IInv, Watch, NEW x \in sends, PromptHandled(x)
    PROVE  IInv'
<1>1. /\ x.st = "prompting" /\ sends' = sends \ {x} /\ UNCHANGED <<pi, log, told, lost>> /\ KeepLoop
      /\ Returns(x, pi)
  BY DEF PromptHandled
<1>2. PICK M \in [Session -> Marks] :
         Drains(pending, pi, M) /\ (M = marks \/ M = [marks EXCEPT ![x.mark] = "none"])
  BY <1>1, ReturnsDrains DEF IInv
<1> QED BY <1>1, <1>2, DoneKeeps

LEMMA InterruptedKeeps ==
    ASSUME IInv, Watch, NEW x \in sends, Interrupted(x)
    PROVE  IInv'
<1>1. /\ x.st = "running" /\ pi[x.at].run = "no"
      /\ sends' = sends \ {x} /\ UNCHANGED <<pi, log, told, lost>> /\ KeepLoop
      /\ Returns(x, pi)
  BY DEF Interrupted
<1>2. PICK M \in [Session -> Marks] :
         Drains(pending, pi, M) /\ (M = marks \/ M = [marks EXCEPT ![x.mark] = "none"])
  BY <1>1, ReturnsDrains DEF IInv
<1> QED BY <1>1, <1>2, DoneKeeps

LEMMA SendFailsKeeps ==
    ASSUME IInv, Watch, NEW x \in sends, SendFails(x)
    PROVE  IInv'
<1>1. /\ x.st # "running" \/ pi[x.at].run = "no"
      /\ sends' = sends \ {x} /\ UNCHANGED <<pi, told, lost>> /\ KeepLoop
      /\ Logged(x.job, x.for, "failed")
  BY DEF SendFails
<1>2. PICK M \in [Session -> Marks] : M = [marks EXCEPT ![x.mark] = "none"]
  <2>1. marks \in [Session -> Marks] BY Basics DEF IInv
  <2> QED BY <2>1 DEF Marks
<1>3. DrainInline(pending, read, pi, M) /\ pending \in Seq(Pend) BY <1>2, Basics DEF SendFails, IInv
<1>4. Drains(pending, pi, M) BY <1>3, InlineDrains DEF IInv
<1> QED BY <1>1, <1>2, <1>4, DoneKeeps

\* A step that neither sends nor drains: what happens in the sessions, to the marks and
\* to the file.
LEMMA LeavesAlone ==
    ASSUME IInv, Watch, UNCHANGED <<pending, drain, starting, log, sends, read, seen, started>>,
           now' = now \/ now' \in 0..MaxTime, cur' = cur \/ cur' \in Session,
           schedule' = schedule \/ schedule' \in Schedules, marks' \in [Session -> Marks],
           pi' \in [Session -> PiState], RunIsResident',
           told' \in [Session -> SUBSET (Job \X Nat)], lost' \subseteq Session,
           "send" \notin raced /\ ~Overtaken =>
              /\ told'[cur] = {} \/ told'[cur] = told[cur]
              /\ \A s \in Session : TellsAs(s, marks')
    PROVE  IInv'
<1>0. TypeOK /\ TakenIsJob /\ OnceInv /\ AloneInv BY DEF IInv
<1>1. Drains(pending, pi', marks') BY <1>0, NothingDrains
<1>2. OnceInv' BY <1>0, <1>1, OnceQuiet
<1>3. TypeOK'
  <2>1. started' \in BOOLEAN BY <1>0 DEF TypeOK
  <2> QED BY <1>0, <1>1, <2>1, TypesFrom
<1>4. AloneInv'
  <2>1. OnItsWay' \subseteq OnItsWay BY DEF OnItsWay
  <2>2. ASSUME "send" \notin raced, ~Overtaken
        PROVE  /\ \A x \in OnItsWay' : told'[cur] = {}
               /\ \A s \in Session : TellsAs(s, marks')
    BY <1>0, <2>1, <2>2 DEF AloneInv, WayIsMarked
  <2>3. \A x \in sends' : x \in sends OBVIOUS
  <2> QED BY <1>0, <1>1, <1>3, <2>1, <2>2, <2>3, AloneFrom
<1>5. TakenIsJob' BY <1>1 DEF Drains
<1> QED BY <1>2, <1>3, <1>4, <1>5 DEF IInv

\* In one session something starts, ends, comes or goes.
LEMMA SessionKeeps ==
    ASSUME IInv, Watch, UNCHANGED <<pending, drain, starting, log, sends, read, seen, started>>,
           UNCHANGED <<now, cur, schedule>>, NEW s \in Session, NEW p \in PiState,
           pi' = [pi EXCEPT ![s] = p], p.run # "no" => p.kind # "none",
           marks' = marks \/ marks' = [marks EXCEPT ![s] = "started"],
           \/ told' = told /\ p.kind = pi[s].kind
           \/ told' = [told EXCEPT ![s] = {}],
           lost' \subseteq Session
    PROVE  IInv'
<1>0. TypeOK /\ AloneInv /\ RunIsResident BY DEF IInv
<1>1. /\ cur \in Session /\ marks \in [Session -> Marks] /\ pi \in [Session -> PiState]
      /\ told \in [Session -> SUBSET (Job \X Nat)]
  BY <1>0, Basics
<1>2. marks' \in [Session -> Marks] /\ pi' \in [Session -> PiState] BY <1>1 DEF Marks
<1>3. RunIsResident' BY <1>0, <1>1 DEF RunIsResident
<1>4. told' \in [Session -> SUBSET (Job \X Nat)] BY <1>1
<1>5. \A t \in Session : told'[t] = {} \/ told'[t] = told[t] BY <1>1
<1>6. ASSUME "send" \notin raced, ~Overtaken, NEW t \in Session PROVE TellsAs(t, marks')
  <2>1. \/ told'[t] = {}
        \/ told'[t] = told[t] /\ pi'[t].kind = pi[t].kind /\ marks'[t] \in {marks[t], "started"}
    BY <1>1
  <2> QED BY <1>0, <1>6, <2>1, TellsSame
<1> QED BY <1>1, <1>2, <1>3, <1>4, <1>5, <1>6, LeavesAlone

\* What an agent, or a terminal, is.
LEMMA PiFields ==
    ASSUME TypeOK, NEW s \in Session
    PROVE  /\ pi[s] \in PiState /\ pi[s].kind \in {"none", "server", "cli", "oldcli"}
           /\ pi[s].run \in {"no", "run", "ended"} /\ pi[s].queue \in Nat
<1>1. pi[s] \in PiState BY Basics
<1> QED BY <1>1 DEF PiState

LEMMA RunStartsKeeps ==
    ASSUME IInv, Watch, NEW s \in Session, RunStarts(s) \/ RelayStarts(s)
    PROVE  IInv'
<1>1. TypeOK /\ pi[s] \in PiState /\ pi \in [Session -> PiState] /\ lost \subseteq Session
  BY PiFields, Basics DEF IInv
<1> DEFINE p == [pi[s] EXCEPT !.run = "run"]
<1>2. p \in PiState /\ p.run = "run" /\ p.kind = pi[s].kind BY <1>1 DEF PiState
<1>3. /\ pi' = [pi EXCEPT ![s] = p] /\ marks' = [marks EXCEPT ![s] = "started"]
      /\ UNCHANGED <<cur, pending, drain, sends, told, lost>>
  BY DEF RunStarts, RelayStarts
<1>4. UNCHANGED <<now, schedule, log, started, read, seen, starting>>
  BY DEF RunStarts, RelayStarts, KeepWork
<1>5. pi[s].kind # "none" BY DEF RunStarts, RelayStarts, Cli
<1> HIDE DEF p
<1> QED BY <1>1, <1>2, <1>3, <1>4, <1>5, SessionKeeps

LEMMA SteerKeeps ==
    ASSUME IInv, Watch, NEW s \in Session, Steer(s)
    PROVE  IInv'
<1>1. TypeOK /\ pi[s] \in PiState /\ pi \in [Session -> PiState] /\ lost \subseteq Session
  BY PiFields, Basics DEF IInv
<1> DEFINE p == [pi[s] EXCEPT !.queue = 1]
<1>2. p \in PiState /\ p.kind = pi[s].kind /\ pi[s].kind = "server" BY <1>1 DEF PiState, Steer
<1>3. pi' = [pi EXCEPT ![s] = p] /\ UNCHANGED <<cur, pending, drain, marks, sends, told, lost>>
  BY DEF Steer
<1>4. UNCHANGED <<now, schedule, log, started, read, seen, starting>> BY DEF Steer, KeepWork
<1> HIDE DEF p
<1> QED BY <1>1, <1>2, <1>3, <1>4, SessionKeeps

LEMMA ContinuesKeeps ==
    ASSUME IInv, Watch, NEW s \in Session, Continues(s)
    PROVE  IInv'
<1>1. TypeOK /\ RunIsResident /\ pi[s] \in PiState /\ pi \in [Session -> PiState] /\ lost \subseteq Session
  BY PiFields, Basics DEF IInv
<1> DEFINE p == [pi[s] EXCEPT !.run = "run", !.queue = @ - 1]
<1>2. p \in PiState /\ p.kind = pi[s].kind
  <2>1. pi[s].queue \in Nat /\ pi[s].queue > 0 BY <1>1, PiFields DEF Continues
  <2>2. pi[s].queue - 1 \in Nat BY <2>1
  <2> QED BY <1>1, <2>2 DEF PiState
<1>3. /\ pi' = [pi EXCEPT ![s] = p] /\ marks' = [marks EXCEPT ![s] = "started"]
      /\ UNCHANGED <<cur, pending, drain, sends, told, lost>>
  BY <1>1 DEF Continues
<1>4. UNCHANGED <<now, schedule, log, started, read, seen, starting>> BY DEF Continues, KeepWork
<1>5. pi[s].kind # "none" BY <1>1 DEF Continues, RunIsResident
<1> HIDE DEF p
<1> QED BY <1>1, <1>2, <1>3, <1>4, <1>5, SessionKeeps

LEMMA RegisterKeeps ==
    ASSUME IInv, Watch, NEW s \in Session, NEW kind \in {"cli", "oldcli"}, NEW running \in BOOLEAN,
           Register(s, kind, running)
    PROVE  IInv'
<1>1. TypeOK /\ lost \subseteq Session BY Basics DEF IInv
<1> DEFINE p == [kind |-> kind, run |-> IF running THEN "run" ELSE "no", queue |-> 0]
<1>2. p \in PiState /\ p.kind # "none" BY DEF PiState
<1>3. /\ pi' = [pi EXCEPT ![s] = p] /\ told' = [told EXCEPT ![s] = {}]
      /\ UNCHANGED <<cur, pending, drain, marks, sends>> /\ lost' \subseteq Session
  BY <1>1 DEF Register
<1>4. UNCHANGED <<now, schedule, log, started, read, seen, starting>> BY DEF Register, KeepWork
<1> HIDE DEF p
<1> QED BY <1>2, <1>3, <1>4, SessionKeeps

LEMMA DepartsKeeps ==
    ASSUME IInv, Watch, NEW s \in Session, NEW kind \in {"server", "none"}, Departs(s, kind)
    PROVE  IInv'
<1>1. TypeOK /\ lost \subseteq Session BY Basics DEF IInv
<1> DEFINE p == [Gone EXCEPT !.kind = kind]
<1>2. p \in PiState /\ p.run = "no" BY DEF PiState, Gone
<1>3. /\ pi' = [pi EXCEPT ![s] = p] /\ told' = [told EXCEPT ![s] = {}]
      /\ UNCHANGED <<cur, pending, drain, marks, sends>> /\ lost' \subseteq Session
  BY <1>1 DEF Departs
<1>4. UNCHANGED <<now, schedule, log, started, read, seen, starting>> BY DEF Departs, KeepWork
<1> HIDE DEF p
<1> QED BY <1>2, <1>3, <1>4, SessionKeeps

LEMMA ResetKeeps ==
    ASSUME IInv, Watch, NEW s \in Session, Reset(s)
    PROVE  IInv'
<1>0. TypeOK /\ RunIsResident /\ AloneInv BY DEF IInv
<1>1. /\ cur \in Session /\ marks \in [Session -> Marks] /\ pi \in [Session -> PiState]
      /\ told \in [Session -> SUBSET (Job \X Nat)] /\ lost \subseteq Session
  BY <1>0, Basics
<1>2. /\ s # cur /\ pi[s].kind = "none" /\ cur' = s
      /\ pi' = [pi EXCEPT ![s].kind = "server", ![cur].queue = 0]
      /\ UNCHANGED <<pending, drain, marks, sends, told, lost>>
  BY DEF Reset
<1>3. UNCHANGED <<now, schedule, log, started, read, seen, starting>> BY DEF Reset, KeepWork
<1>4. pi' = [pi EXCEPT ![s] = [@ EXCEPT !.kind = "server"], ![cur] = [@ EXCEPT !.queue = 0]]
  BY <1>1, <1>2
<1>5. [pi[s] EXCEPT !.kind = "server"] \in PiState /\ [pi[cur] EXCEPT !.queue = 0] \in PiState
  BY <1>1 DEF PiState
<1>6. pi' \in [Session -> PiState] BY <1>1, <1>2, <1>4, <1>5
<1>7. /\ pi'[s].kind = "server" /\ pi'[cur].run = pi[cur].run
      /\ \A t \in Session : t # s => pi'[t].kind = pi[t].kind
      /\ \A t \in Session : t # s /\ t # cur => pi'[t].run = pi[t].run
  BY <1>1, <1>2, <1>4 DEF PiState
<1>8. RunIsResident' BY <1>0, <1>1, <1>7 DEF RunIsResident
<1>9. ASSUME "send" \notin raced, NEW t \in Session PROVE TellsAs(t, marks')
  <2>1. told'[t] = {} \/ t # s BY <1>0, <1>2, <1>9 DEF AloneInv, ToldIsMarked
  <2> QED BY <1>0, <1>2, <1>7, <1>9, <2>1, TellsSame
<1> QED BY <1>1, <1>2, <1>3, <1>6, <1>8, <1>9, LeavesAlone

LEMMA MarkAgesKeeps ==
    ASSUME IInv, Watch, NEW s \in Session, MarkAges(s)
    PROVE  IInv'
<1>0. TypeOK /\ RunIsResident /\ AloneInv BY DEF IInv
<1>1. /\ cur \in Session /\ marks \in [Session -> Marks] /\ pi \in [Session -> PiState]
      /\ told \in [Session -> SUBSET (Job \X Nat)] /\ lost \subseteq Session
  BY <1>0, Basics
<1>2. /\ marks' = [marks EXCEPT ![s] = "expired"] /\ marks' \in [Session -> Marks]
      /\ UNCHANGED <<cur, pending, drain, sends, pi, told, lost>>
  BY <1>1 DEF MarkAges, Marks
<1>3. UNCHANGED <<now, schedule, log, started, read, seen, starting>> BY DEF MarkAges, KeepWork
<1>4. RunIsResident' BY <1>0, <1>2 DEF RunIsResident
<1>5. ASSUME "send" \notin raced, ~Overtaken, NEW t \in Session PROVE TellsAs(t, marks')
  <2>1. ~(Cli(t, pi') /\ marks'[t] = "expired") BY <1>5 DEF Overtaken, Cli
  <2>2. marks[t] # "none" => marks'[t] # "none" BY <1>1, <1>2
  <2> QED BY <1>0, <1>2, <1>5, <2>1, <2>2 DEF AloneInv, ToldIsMarked, TellsAs
<1> QED BY <1>1, <1>2, <1>3, <1>4, <1>5, LeavesAlone

LEMMA TimePassesKeeps ==
    ASSUME IInv, Watch, TimePasses
    PROVE  IInv'
<1>0. TypeOK /\ RunIsResident /\ AloneInv BY DEF IInv
<1>1. /\ cur \in Session /\ marks \in [Session -> Marks] /\ pi \in [Session -> PiState]
      /\ told \in [Session -> SUBSET (Job \X Nat)] /\ lost \subseteq Session
  BY <1>0, Basics
<1>2. UNCHANGED <<schedule, log, cur, started, read, seen, pending, drain, starting, marks, sends, pi, told, lost>>
  BY DEF TimePasses, diskVars, loopVars
<1>3. now' \in 0..MaxTime BY <1>0, Bounds DEF TimePasses, TypeOK
<1>4. RunIsResident' BY <1>0, <1>2 DEF RunIsResident
<1>5. ASSUME "send" \notin raced, NEW t \in Session PROVE TellsAs(t, marks')
  BY <1>0, <1>2, <1>5, TellsSame
<1> QED BY <1>1, <1>2, <1>3, <1>4, <1>5, LeavesAlone

LEMMA EditKeeps ==
    ASSUME IInv, Watch, NEW j \in Job, NEW as \in {"off", "on"}, Edit(j, as)
    PROVE  IInv'
<1>0. TypeOK /\ RunIsResident /\ AloneInv BY DEF IInv
<1>1. /\ cur \in Session /\ marks \in [Session -> Marks] /\ pi \in [Session -> PiState]
      /\ told \in [Session -> SUBSET (Job \X Nat)] /\ lost \subseteq Session /\ schedule \in Schedules
  BY <1>0, Basics
<1>2. UNCHANGED <<now, log, cur, started, read, seen, pending, drain, starting, marks, sends, pi, told, lost>>
  BY DEF Edit, loopVars
<1>3. schedule' \in Schedules BY <1>1 DEF Edit, Schedules
<1>4. RunIsResident' BY <1>0, <1>2 DEF RunIsResident
<1>5. ASSUME "send" \notin raced, NEW t \in Session PROVE TellsAs(t, marks')
  BY <1>0, <1>2, <1>5, TellsSame
<1> QED BY <1>1, <1>2, <1>3, <1>4, <1>5, LeavesAlone

LEMMA RemoveJobKeeps ==
    ASSUME IInv, Watch, NEW j \in Job, RemoveJob(j)
    PROVE  IInv'
<1>0. TypeOK /\ TakenIsJob /\ RunIsResident /\ OnceInv /\ AloneInv BY DEF IInv
<1>1. /\ pending \in Seq(Pend) /\ drain \in DrainState /\ marks \in [Session -> Marks]
      /\ schedule \in Schedules
  BY <1>0, Basics
<1>2. /\ UNCHANGED <<now, log, cur, started, read, seen, drain, starting, marks, sends, pi, told, lost>>
      /\ schedule' = [schedule EXCEPT ![j] = "absent"]
  BY DEF RemoveJob
<1>3. PICK r : r = Only(pending, {p \in ToSet(pending) : p.job # j}) OBVIOUS
<1>4. r \in Seq(Pend) /\ Drawn(r, pending) /\ pending' = r BY <1>1, <1>3, DrawnOnly DEF RemoveJob
<1>5. Drains(r, pi', marks)
  <2>1. TakenIsJob' BY <1>0, <1>2 DEF TakenIsJob
  <2> QED BY <1>1, <1>2, <1>4, <2>1, DrawnSelf DEF Drains
<1>6. OnceInv'
  <2>1. ASSUME "drain" \notin raced PROVE Sound(r, starting', log')
    <3>1. Sound(r, starting, log) BY <1>0, <1>4, <2>1, OnceSound, SoundDrawn
    <3> QED BY <1>2, <3>1
  <2> QED BY <1>5, <2>1, OnceFrom
<1>7. TypeOK'
  <2>1. started' \in BOOLEAN /\ schedule' \in Schedules BY <1>0, <1>1, <1>2 DEF TypeOK, Schedules
  <2> QED BY <1>0, <1>2, <1>5, <2>1, TypesFrom
<1>8. AloneInv' BY <1>0, <1>2, <1>5, <1>7, AloneQuiet
<1>9. RunIsResident' /\ TakenIsJob' BY <1>0, <1>2, <1>5 DEF RunIsResident, Drains
<1> QED BY <1>6, <1>7, <1>8, <1>9 DEF IInv

\* What the log still knows after a restart is what its file has.
LEMMA LogForgotten ==
    ASSUME TypeOK, NEW m, m = [j \in Job |-> [i \in DOMAIN log[j] |-> Forgotten(log[j][i])]]
    PROVE  /\ m \in Logs
           /\ \A j \in Job : \A i \in Kept(m[j]) : i \in Kept(log[j]) /\ m[j][i] = log[j][i]
<1>1. \A e \in LogEntry : /\ Forgotten(e) \in LogEntry
                          /\ Forgotten(e).place # "lost" => Forgotten(e) = e
  BY DEF Forgotten, Entry, LogEntry
<1>2. ASSUME NEW j \in Job
      PROVE  /\ m[j] \in Seq(LogEntry)
             /\ \A i \in Kept(m[j]) : i \in Kept(log[j]) /\ m[j][i] = log[j][i]
  <2>1. log[j] \in Seq(LogEntry) BY Basics DEF Logs
  <2>2. PICK n \in Nat : DOMAIN log[j] = 1..n BY <2>1
  <2>3. m[j] = [i \in 1..n |-> Forgotten(log[j][i])] /\ \A i \in 1..n : log[j][i] \in LogEntry
    BY <2>1, <2>2
  <2>4. m[j] \in [1..n -> LogEntry] BY <1>1, <2>3
  <2> QED BY <1>1, <2>2, <2>3, <2>4 DEF Kept
<1> QED BY <1>2 DEF Logs

LEMMA CrashKeeps ==
    ASSUME IInv, Watch, Crash
    PROVE  IInv'
<1>0. TypeOK /\ OnceInv BY DEF IInv
<1>1. /\ started' = FALSE /\ pending' = <<>> /\ drain' = NoDrain /\ starting' = {} /\ sends' = {}
      /\ marks' = [s \in Session |-> "none"] /\ pi' = [s \in Session |-> Gone]
      /\ told' = [s \in Session |-> {}] /\ lost' = {}
      /\ read' = [j \in Job |-> "absent"] /\ seen' = [j \in Job |-> Unseen]
      /\ log' = [j \in Job |-> [i \in DOMAIN log[j] |-> Forgotten(log[j][i])]]
      /\ UNCHANGED <<now, schedule, cur>>
  BY DEF Crash
<1>2. /\ drain' \in DrainState /\ ~drain'.on BY <1>1, JobIsNat DEF NoDrain, DrainState
<1>3. Unseen \in SeenJobs /\ Gone \in PiState /\ Gone.run = "no"
  BY DEF Unseen, SeenJobs, Gone, PiState
<1>4. TakenIsJob' /\ RunIsResident' BY <1>1, <1>2, <1>3 DEF TakenIsJob, RunIsResident
<1>5. Drains(<<>>, pi', marks')
  <2>1. <<>> \in Seq(Pend) /\ marks' \in [Session -> Marks] BY <1>1 DEF Marks
  <2> QED BY <1>1, <1>2, <1>4, <2>1, DrawnSelf DEF Drains
<1>9. /\ log' \in Logs
      /\ \A j \in Job : \A i \in Kept(log'[j]) : i \in Kept(log[j]) /\ log'[j][i] = log[j][i]
  <2>1. PICK m : m = log' OBVIOUS
  <2>2. m = [j \in Job |-> [i \in DOMAIN log[j] |-> Forgotten(log[j][i])]] BY <1>1, <2>1
  <2>3. /\ m \in Logs
        /\ \A j \in Job : \A i \in Kept(m[j]) : i \in Kept(log[j]) /\ m[j][i] = log[j][i]
    BY <1>0, <2>2, LogForgotten
  <2> QED BY <2>1, <2>3
<1>6. OnceInv'
  <2>1. ASSUME "drain" \notin raced PROVE Sound(<<>>, starting', log')
    <3>2. NoneTwice(log) BY <1>0, <2>1, OnceSound DEF Sound
    <3>1. NoneTwice(log') BY <1>9, <3>2 DEF NoneTwice
    <3> QED BY <1>1, <3>1 DEF Sound, Apart, AllFree
  <2> QED BY <1>5, <2>1, OnceFrom
<1>7. TypeOK'
  <2>1. read' \in Schedules /\ seen' \in [Job -> SeenJobs] /\ pi' \in [Session -> PiState]
    BY <1>1, <1>3 DEF Schedules
  <2>2. told' \in [Session -> SUBSET (Job \X Nat)] /\ sends' \subseteq sends /\ starting' \subseteq Pend
    BY <1>1
  <2> QED BY <1>0, <1>1, <1>5, <1>9, <2>1, <2>2, TypesFrom
<1>8. AloneInv'
  <2>1. OnItsWay' = {} BY <1>1 DEF OnItsWay
  <2> QED BY <1>1, <2>1 DEF AloneInv, OneOnItsWay, WayIsMarked, SentWhereMarked, ToldIsMarked, NoTerminalIsSlow
<1> QED BY <1>4, <1>6, <1>7, <1>8 DEF IInv

\* The run of a session settles: its sends are done, and it was told of nothing any more.
LEMMA SettlesKeeps ==
    ASSUME IInv, Watch, NEW s \in Session, NEW p \in PiState, p.kind = pi[s].kind, p.run = "no",
           NEW Q, Q = [pi EXCEPT ![s] = p], Settles(s, Q), KeepWork, cur' = cur, lost' \subseteq Session
    PROVE  IInv'
<1>0. TypeOK /\ TakenIsJob /\ RunIsResident /\ OnceInv /\ AloneInv BY DEF IInv
<1>1. /\ pending \in Seq(Pend) /\ marks \in [Session -> Marks] /\ pi \in [Session -> PiState]
      /\ told \in [Session -> SUBSET (Job \X Nat)] /\ cur \in Session
  BY <1>0, Basics
<1>2. UNCHANGED <<now, schedule, log, started, read, seen, starting>> BY DEF KeepWork
<1> DEFINE ended == {x \in sends : x.st = "running" /\ x.at = s}
           freed == {s} \cup {x.mark : x \in {y \in ended : Q[y.mark].kind = "server" /\ ~Streaming(y.mark, Q)}}
           N == [t \in Session |-> IF t \in freed THEN "none" ELSE marks[t]]
<1>3. /\ sends' = sends \ ended /\ told' = [told EXCEPT ![s] = {}] /\ pi' = Q
      /\ DrainInline(pending, read, Q, N)
  BY DEF Settles
<1>4. "send" \notin raced => freed = {s}
  <2>1. ASSUME "send" \notin raced, NEW x \in ended PROVE x.mark = s
    BY <1>0, <2>1 DEF AloneInv, SentWhereMarked
  <2> QED BY <2>1
<1> HIDE DEF freed
<1>5. N \in [Session -> Marks] BY <1>1 DEF Marks
<1>6. \A t \in Session : t \notin freed => N[t] = marks[t] OBVIOUS
<1>7. sends' \subseteq sends BY <1>3
<1> HIDE DEF N, ended
<1>8. Drains(pending, pi', N) BY <1>0, <1>1, <1>3, <1>5, InlineDrains
<1>9. OnceInv' BY <1>0, <1>2, <1>8, OnceQuiet
<1>10. pi' \in [Session -> PiState] /\ told' \in [Session -> SUBSET (Job \X Nat)] BY <1>1, <1>3
<1>11. TypeOK'
  <2>1. started' \in BOOLEAN BY <1>0, <1>2 DEF TypeOK
  <2> QED BY <1>0, <1>2, <1>7, <1>8, <1>10, <2>1, TypesFrom
<1>12. AloneInv'
  <2>1. OnItsWay' \subseteq OnItsWay /\ \A x \in sends' : x \in sends BY <1>7 DEF OnItsWay
  <2>2. ASSUME "send" \notin raced
        PROVE  /\ \A x \in OnItsWay' : told'[cur] = {}
               /\ \A t \in Session : TellsAs(t, N)
    <3>1. \A x \in OnItsWay' : told'[cur] = {}
      BY <1>0, <1>1, <1>3, <2>1, <2>2 DEF AloneInv, WayIsMarked
    <3>2. ASSUME NEW t \in Session PROVE TellsAs(t, N)
      <4>1. told'[t] = {} \/ (told'[t] = told[t] /\ pi'[t].kind = pi[t].kind /\ N[t] \in {marks[t], "started"})
        BY <1>1, <1>3, <1>4, <1>6, <2>2
      <4> QED BY <1>0, <2>2, <4>1, TellsSame
    <3> QED BY <3>1, <3>2
  <2> QED BY <1>0, <1>8, <1>11, <2>1, <2>2, AloneFrom
<1>13. RunIsResident' /\ TakenIsJob'
  <2>1. RunIsResident' BY <1>0, <1>1, <1>3 DEF RunIsResident
  <2> QED BY <1>8, <2>1 DEF Drains
<1> QED BY <1>9, <1>11, <1>12, <1>13 DEF IInv

LEMMA AgentEndKeeps ==
    ASSUME IInv, Watch, NEW s \in Session, AgentEnd(s)
    PROVE  IInv'
<1>1. TypeOK /\ RunIsResident /\ pi[s] \in PiState /\ pi \in [Session -> PiState] /\ lost \subseteq Session
  BY PiFields, Basics DEF IInv
<1>2. pi[s].run = "run" /\ cur' = cur /\ lost' \subseteq Session /\ KeepWork BY <1>1 DEF AgentEnd
<1>3. CASE pi[s].kind = "oldcli"
  <2>1. PICK p \in PiState : p = [pi[s] EXCEPT !.run = "no"] BY <1>1 DEF PiState
  <2>2. p.run = "no" /\ p.kind = pi[s].kind BY <1>1, <2>1 DEF PiState
  <2>3. PICK Q : Q = [pi EXCEPT ![s] = p] OBVIOUS
  <2>4. Q = [pi EXCEPT ![s].run = "no"] BY <2>1, <2>3
  <2>5. Settles(s, Q) BY <1>3, <2>4 DEF AgentEnd
  <2> QED BY <1>2, <2>2, <2>3, <2>5, SettlesKeeps
<1>4. CASE pi[s].kind # "oldcli"
  <2>1. PICK p \in PiState : p = [pi[s] EXCEPT !.run = "ended"] BY <1>1 DEF PiState
  <2>2. p.kind = pi[s].kind /\ pi[s].kind # "none" BY <1>1, <1>2, <2>1 DEF PiState, RunIsResident
  <2>3. pi' = [pi EXCEPT ![s] = p] /\ UNCHANGED <<pending, drain, marks, sends, told>>
    BY <1>4, <2>1 DEF AgentEnd
  <2>4. UNCHANGED <<now, schedule, log, started, read, seen, starting>> BY <1>2 DEF KeepWork
  <2> QED BY <1>2, <2>2, <2>3, <2>4, SessionKeeps
<1> QED BY <1>3, <1>4

LEMMA AgentSettledKeeps ==
    ASSUME IInv, Watch, NEW s \in Session, AgentSettled(s)
    PROVE  IInv'
<1>1. TypeOK /\ pi[s] \in PiState /\ pi \in [Session -> PiState] /\ lost \subseteq Session
  BY PiFields, Basics DEF IInv
<1>2. cur' = cur /\ lost' \subseteq Session /\ KeepWork BY <1>1 DEF AgentSettled
<1>3. PICK aborted \in BOOLEAN :
         Settles(s, [pi EXCEPT ![s].run = "no", ![s].queue = IF aborted THEN LeftQueued(s) ELSE 0])
  BY DEF AgentSettled
<1>4. PICK n \in Nat : n = IF aborted THEN LeftQueued(s) ELSE 0 BY <1>1 DEF PiState, LeftQueued
<1>5. PICK p \in PiState : p = [pi[s] EXCEPT !.run = "no", !.queue = n] BY <1>1 DEF PiState
<1>6. p.run = "no" /\ p.kind = pi[s].kind BY <1>1, <1>5 DEF PiState
<1>7. PICK Q : Q = [pi EXCEPT ![s] = p] OBVIOUS
<1>8. Q = [pi EXCEPT ![s].run = "no", ![s].queue = n] BY <1>1, <1>5, <1>7
<1>9. Settles(s, Q) BY <1>3, <1>4, <1>8
<1> QED BY <1>2, <1>6, <1>7, <1>9, SettlesKeeps

\* pi runs the prompt of a send: its session was told of it and of nothing else.
LEMMA PromptStartsKeeps ==
    ASSUME IInv, Watch, NEW x \in sends, PromptStarts(x)
    PROVE  IInv'
<1>0. TypeOK /\ TakenIsJob /\ RunIsResident /\ OnceInv /\ AloneInv BY DEF IInv
<1>1. /\ marks \in [Session -> Marks] /\ pi \in [Session -> PiState] /\ cur \in Session
      /\ told \in [Session -> SUBSET (Job \X Nat)] /\ sends \subseteq SendSet
  BY <1>0, Basics
<1>2. PICK s \in Session : s = x.at BY <1>0, SendFields
<1>3. PICK p \in PiState : p = [pi[s] EXCEPT !.run = "run"] BY <1>1 DEF PiState
<1>4. p.kind = pi[s].kind /\ pi[s].kind = "server" BY <1>1, <1>2, <1>3 DEF PiState, PromptStarts
<1>5. PICK y : y = [x EXCEPT !.st = "running"] OBVIOUS
<1>A. y \in SendSet /\ y.st = "running" /\ y.mark = x.mark /\ y.at = x.at
  <2>1. x \in SendSet BY <1>0, SendFields
  <2> QED BY <1>5, <2>1 DEF SendSet
<1>6. /\ x.st = "prompting" /\ sends' = (sends \ {x}) \cup {y} /\ pi' = [pi EXCEPT ![s] = p]
      /\ marks' = [marks EXCEPT ![s] = "started"]
      /\ told' = [told EXCEPT ![s] = @ \cup {<<x.job, x.for>>}]
      /\ UNCHANGED <<pending, drain, log, lost>>
  BY <1>2, <1>3, <1>5, <1>A DEF PromptStarts
<1>7. UNCHANGED <<now, schedule, cur, started, read, seen, starting>> BY DEF PromptStarts, KeepLoop
<1>8. pi' \in [Session -> PiState] /\ marks' \in [Session -> Marks] /\ sends' \subseteq SendSet
  BY <1>1, <1>A, <1>6 DEF Marks
<1>9. told' \in [Session -> SUBSET (Job \X Nat)]
  <2>1. <<x.job, x.for>> \in Job \X Nat BY <1>0, SendFields
  <2> QED BY <1>1, <1>6, <2>1
<1>10. Drains(pending, pi', marks') BY <1>0, <1>6, <1>8, NothingDrains
<1>11. OnceInv' BY <1>0, <1>6, <1>7, <1>10, OnceQuiet
<1>12. TypeOK'
  <2>1. started' \in BOOLEAN BY <1>0, <1>7 DEF TypeOK
  <2> QED BY <1>0, <1>6, <1>7, <1>8, <1>9, <1>10, <2>1, TypesFrom
<1>13. AloneInv'
  <2>1. OnItsWay' \subseteq OnItsWay \ {x} /\ x \in OnItsWay BY <1>5, <1>A, <1>6 DEF OnItsWay
  <2>2. ASSUME "send" \notin raced
        PROVE  /\ \A z \in sends' : z \in sends \/ z.mark = z.at
               /\ \A z \in OnItsWay' : told'[cur] = {}
               /\ \A t \in Session : TellsAs(t, marks')
    <3>1. \A z \in sends' : z \in sends \/ z.mark = z.at
      BY <1>0, <1>5, <1>A, <1>6, <2>2 DEF AloneInv, SentWhereMarked
    <3>2. OnItsWay' = {} BY <1>0, <2>1, <2>2 DEF AloneInv, OneOnItsWay
    <3>3. s = cur /\ told[s] = {} BY <1>0, <1>2, <2>1, <2>2 DEF AloneInv, WayIsMarked
    <3>4. TellsAs(s, marks')
      <4>1. told'[s] = {<<x.job, x.for>>} /\ pi'[s].kind = "server" /\ marks'[s] = "started"
        BY <1>1, <1>4, <1>6, <3>3
      <4> QED BY <4>1 DEF TellsAs
    <3>5. ASSUME NEW t \in Session, t # s PROVE TellsAs(t, marks')
      <4>1. told'[t] = told[t] /\ pi'[t].kind = pi[t].kind /\ marks'[t] = marks[t]
        BY <1>1, <1>6, <3>5
      <4> QED BY <1>0, <2>2, <4>1, TellsSame
    <3> QED BY <3>1, <3>2, <3>4, <3>5
  <2> QED BY <1>0, <1>10, <1>12, <2>1, <2>2, AloneFrom
<1>14. RunIsResident' /\ TakenIsJob'
  <2>1. RunIsResident' BY <1>0, <1>1, <1>4, <1>6 DEF RunIsResident
  <2> QED BY <1>10, <2>1 DEF Drains
<1> QED BY <1>11, <1>12, <1>13, <1>14 DEF IInv

\* The controller delivers a send to the session the pointer names: an agent is to be
\* given the prompt, ...
LEMMA LoadsKeeps ==
    ASSUME IInv, Watch, NEW x \in sends, x.st = "loading", KeepLoop,
           pi' \in [Session -> PiState], pi'[cur].kind = "server",
           \A t \in Session : t # cur => pi'[t].kind = pi[t].kind,
           \A t \in Session : pi'[t].run = pi[t].run,
           NEW y \in SendSet, y.st = "prompting", y.mark = x.mark, y.at = cur,
           sends' = (sends \ {x}) \cup {y},
           UNCHANGED <<pending, drain, marks, told>>, UNCHANGED <<log, lost>>
    PROVE  IInv'
<1>0. TypeOK /\ TakenIsJob /\ RunIsResident /\ OnceInv /\ AloneInv BY DEF IInv
<1>1. /\ marks \in [Session -> Marks] /\ pi \in [Session -> PiState] /\ cur \in Session
      /\ told \in [Session -> SUBSET (Job \X Nat)] /\ sends \subseteq SendSet
  BY <1>0, Basics
<1>2. UNCHANGED <<now, schedule, cur, started, read, seen, starting>> BY DEF KeepLoop
<1>4. sends' = (sends \ {x}) \cup {y} /\ sends' \subseteq SendSet BY <1>1
<1>6. Drains(pending, pi', marks') BY <1>0, <1>1, NothingDrains
<1>7. OnceInv'
  <2>1. Drains(pending, pi', marks) BY <1>6
  <2> QED BY <1>0, <1>2, <2>1, OnceQuiet
<1>8. TypeOK'
  <2>1. started' \in BOOLEAN BY <1>0, <1>2 DEF TypeOK
  <2> QED BY <1>0, <1>2, <1>4, <1>6, <2>1, TypesFrom
<1>9. AloneInv'
  <2> SUFFICES ASSUME "send" \notin raced'
               PROVE  OneOnItsWay' /\ WayIsMarked' /\ SentWhereMarked' /\ ToldIsMarked' /\ NoTerminalIsSlow'
    BY DEF AloneInv
  <2>1. "send" \notin raced /\ NoTerminalIsSlow' BY <1>8, NotOvertaken
  <2>2. OneOnItsWay /\ WayIsMarked /\ SentWhereMarked /\ ToldIsMarked BY <1>0, <2>1 DEF AloneInv
  <2>3. x \in OnItsWay BY DEF OnItsWay
  <2>4. \A z \in OnItsWay' : z = y BY <1>4, <2>2, <2>3 DEF OneOnItsWay, OnItsWay
  <2>5. OneOnItsWay' BY <2>4 DEF OneOnItsWay
  <2>6. x.at = cur /\ marks[cur] \in {"sent", "expired"} /\ told[cur] = {} /\ x.mark = cur
    BY <2>2, <2>3 DEF WayIsMarked, SentWhereMarked
  <2>7. WayIsMarked' BY <1>2, <2>4, <2>6 DEF WayIsMarked
  <2>8. SentWhereMarked' BY <1>4, <2>2, <2>6 DEF SentWhereMarked
  <2>9. ToldIsMarked' BY <2>2, <2>6 DEF ToldIsMarked
  <2> QED BY <2>1, <2>5, <2>7, <2>8, <2>9
<1>10. RunIsResident' /\ TakenIsJob'
  <2>0. \A t \in Session : pi'[t].kind = "none" => pi[t].kind = "none" BY <1>1
  <2>1. RunIsResident' BY <1>0, <2>0 DEF RunIsResident
  <2> QED BY <1>6, <2>1 DEF Drains
<1> QED BY <1>7, <1>8, <1>9, <1>10 DEF IInv

\* ... a terminal or a run under way is told.
LEMMA RelaysKeeps ==
    ASSUME IInv, Watch, NEW x \in sends, x.st = "loading", KeepLoop,
           Cli(cur, pi) \/ Streaming(cur, pi), pi[cur].kind # "none", pi' \in [Session -> PiState],
           \A t \in Session : pi'[t].kind = pi[t].kind /\ pi'[t].run = pi[t].run,
           sends' = sends \ {x}, told' = [told EXCEPT ![cur] = @ \cup {<<x.job, x.for>>}],
           UNCHANGED <<log, lost>>, NEW M \in [Session -> Marks], Drains(pending, pi', M),
           \/ M = marks
           \/ /\ M = [marks EXCEPT ![x.mark] = "none"]
              /\ pi'[x.mark].kind = "server" /\ ~Streaming(x.mark, pi')
    PROVE  IInv'
<1>0. TypeOK /\ TakenIsJob /\ RunIsResident /\ OnceInv /\ AloneInv BY DEF IInv
<1>1. /\ marks \in [Session -> Marks] /\ pi \in [Session -> PiState] /\ cur \in Session
      /\ told \in [Session -> SUBSET (Job \X Nat)] /\ sends \subseteq SendSet
  BY <1>0, Basics
<1>2. UNCHANGED <<now, schedule, cur, started, read, seen, starting>> BY DEF KeepLoop
<1>5. told' \in [Session -> SUBSET (Job \X Nat)]
  <2>1. <<x.job, x.for>> \in Job \X Nat BY <1>0, SendFields
  <2> QED BY <1>1, <2>1
<1>6. OnceInv' BY <1>0, <1>2, OnceQuiet
<1>7. TypeOK'
  <2>1. started' \in BOOLEAN BY <1>0, <1>2 DEF TypeOK
  <2>2. sends' \subseteq sends OBVIOUS
  <2> QED BY <1>0, <1>2, <1>5, <2>1, <2>2, TypesFrom
<1>8. AloneInv'
  <2>1. OnItsWay' \subseteq OnItsWay \ {x} /\ x \in OnItsWay BY DEF OnItsWay
  <2>2. ASSUME "send" \notin raced
        PROVE  /\ \A z \in sends' : z \in sends
               /\ \A z \in OnItsWay' : told'[cur] = {}
               /\ \A t \in Session : TellsAs(t, M)
    <3>1. \A z \in sends' : z \in sends OBVIOUS
    <3>2. OnItsWay' = {} BY <1>0, <2>1, <2>2 DEF AloneInv, OneOnItsWay
    <3>3. x.mark = cur /\ told[cur] = {} /\ marks[cur] \in {"sent", "expired"}
      BY <1>0, <2>1, <2>2 DEF AloneInv, WayIsMarked, SentWhereMarked, OnItsWay
    <3>4. M[cur] = marks[cur] /\ \A t \in Session : M[t] = marks[t] BY <1>1, <3>3 DEF Cli, Streaming
    <3>5. TellsAs(cur, M)
      <4>1. told'[cur] = {<<x.job, x.for>>} /\ pi'[cur].kind = pi[cur].kind /\ pi'[cur].kind # "none"
        BY <1>1, <3>3
      <4>2. ~(Cli(cur, pi') /\ M[cur] = "expired") /\ M[cur] # "none"
        BY <1>0, <1>1, <2>2, <3>3, <3>4, <4>1 DEF AloneInv, NoTerminalIsSlow, Cli
      <4> QED BY <4>1, <4>2 DEF TellsAs
    <3>6. ASSUME NEW t \in Session, t # cur PROVE TellsAs(t, M)
      <4>1. told'[t] = told[t] /\ pi'[t].kind = pi[t].kind /\ M[t] = marks[t] BY <1>1, <3>4, <3>6
      <4> QED BY <1>0, <2>2, <4>1, TellsSame
    <3> QED BY <3>1, <3>2, <3>5, <3>6
  <2>3. OnItsWay' \subseteq OnItsWay BY <2>1
  <2> QED BY <1>0, <1>7, <2>2, <2>3, AloneFrom
<1>9. RunIsResident' /\ TakenIsJob'
  <2>1. RunIsResident' BY <1>0 DEF RunIsResident
  <2> QED BY <2>1 DEF Drains
<1> QED BY <1>6, <1>7, <1>8, <1>9 DEF IInv

LEMMA DeliverKeeps ==
    ASSUME IInv, Watch, NEW x \in sends, Deliver(x)
    PROVE  IInv'
<1>1. /\ cur \in Session /\ pi \in [Session -> PiState] /\ TypeOK /\ TakenIsJob /\ RunIsResident
  BY Basics DEF IInv
<1>2. PICK Q : Q = IF pi[cur].kind = "none" THEN [pi EXCEPT ![cur].kind = "server"] ELSE pi OBVIOUS
<1>3. PICK relay : relay = [pi EXCEPT ![cur].queue = IF Cli(cur, pi) THEN @ ELSE @ + 1] OBVIOUS
<1>B. PICK y : y = [x EXCEPT !.st = "prompting", !.at = cur] OBVIOUS
<1>4. x.st = "loading" /\ KeepLoop /\ UNCHANGED <<log, lost>> BY DEF Deliver
<1>5. \/ /\ ~Cli(cur, Q) /\ pi' = Q
         /\ sends' = (sends \ {x}) \cup {y}
         /\ UNCHANGED <<pending, drain, marks, told>>
      \/ /\ Cli(cur, Q) \/ Streaming(cur, Q)
         /\ pi' = relay /\ sends' = sends \ {x}
         /\ told' = [told EXCEPT ![cur] = @ \cup {<<x.job, x.for>>}]
         /\ Returns(x, relay)
  BY <1>2, <1>3, <1>B DEF Deliver
<1>6. CASE /\ ~Cli(cur, Q) /\ pi' = Q /\ sends' = (sends \ {x}) \cup {y}
           /\ UNCHANGED <<pending, drain, marks, told>>
  <2>1. /\ pi' \in [Session -> PiState] /\ pi'[cur].kind = "server"
        /\ \A t \in Session : t # cur => pi'[t].kind = pi[t].kind
        /\ \A t \in Session : pi'[t].run = pi[t].run
    <3>1. CASE pi[cur].kind = "none"
      <4>1. PICK p \in PiState : p = [pi[cur] EXCEPT !.kind = "server"] BY <1>1 DEF PiState
      <4>2. p.kind = "server" /\ p.run = pi[cur].run BY <1>1, <4>1 DEF PiState
      <4>3. pi' = [pi EXCEPT ![cur] = p] BY <1>1, <1>2, <1>6, <3>1, <4>1
      <4> QED BY <1>1, <4>2, <4>3
    <3>2. CASE pi[cur].kind # "none" BY <1>1, <1>2, <1>6, <3>2, PiFields DEF Cli
    <3> QED BY <3>1, <3>2
  <2>2. y \in SendSet /\ y.st = "prompting" /\ y.mark = x.mark /\ y.at = cur
    <3>1. x \in SendSet BY <1>1, SendFields
    <3> QED BY <1>1, <1>B, <3>1 DEF SendSet
  <2> QED BY <1>4, <1>6, <2>1, <2>2, LoadsKeeps
<1>7. CASE /\ Cli(cur, Q) \/ Streaming(cur, Q)
           /\ pi' = relay /\ sends' = sends \ {x}
           /\ told' = [told EXCEPT ![cur] = @ \cup {<<x.job, x.for>>}]
           /\ Returns(x, relay)
  <2>1. (Cli(cur, pi) \/ Streaming(cur, pi)) /\ pi[cur].kind # "none"
    BY <1>1, <1>2, <1>7 DEF Cli, Streaming, RunIsResident, PiState
  <2>2. PICK M \in [Session -> Marks] :
           /\ Drains(pending, relay, M)
           /\ \/ M = marks
              \/ /\ M = [marks EXCEPT ![x.mark] = "none"]
                 /\ relay[x.mark].kind = "server" /\ ~Streaming(x.mark, relay)
    BY <1>1, <1>7, ReturnsDrains
  <2>3. pi' \in [Session -> PiState] /\ \A t \in Session : pi'[t].kind = pi[t].kind /\ pi'[t].run = pi[t].run
    <3>1. pi[cur].queue \in Nat /\ pi[cur].queue + 1 \in Nat BY <1>1, PiFields
    <3>2. PICK n \in Nat : n = IF Cli(cur, pi) THEN pi[cur].queue ELSE pi[cur].queue + 1 BY <3>1
    <3>3. PICK p \in PiState : p = [pi[cur] EXCEPT !.queue = n] BY <1>1 DEF PiState
    <3>4. p.kind = pi[cur].kind /\ p.run = pi[cur].run BY <1>1, <3>3 DEF PiState
    <3>5. pi' = [pi EXCEPT ![cur] = p] BY <1>1, <1>3, <1>7, <3>2, <3>3
    <3> QED BY <1>1, <3>4, <3>5
  <2> QED BY <1>4, <1>7, <2>1, <2>2, <2>3, RelaysKeeps
<1> QED BY <1>5, <1>6, <1>7

--------------------
(* The theorems. *)

LEMMA SendStepKeeps ==
    ASSUME IInv, SendStep
    PROVE  IInv'
<1>1. PICK x \in sends : \/ Deliver(x) \/ PromptStarts(x) \/ PromptHandled(x)
                         \/ SendFails(x) \/ Interrupted(x)
  BY DEF SendStep
<1>2. Watch BY DEF SendStep
<1> QED BY <1>1, <1>2, DeliverKeeps, PromptStartsKeeps, PromptHandledKeeps, SendFailsKeeps, InterruptedKeeps

LEMMA RunStepKeeps ==
    ASSUME IInv, RunStep
    PROVE  IInv'
BY AgentEndKeeps, ContinuesKeeps, AgentSettledKeeps DEF RunStep

LEMMA OthersKeeps ==
    ASSUME IInv, Others
    PROVE  IInv'
<1>1. PICK s \in Session :
         \/ RunStarts(s) \/ RelayStarts(s) \/ Steer(s) \/ Reset(s)
         \/ \E kind \in {"cli", "oldcli"}, running \in BOOLEAN : Register(s, kind, running)
         \/ \E kind \in {"server", "none"} : Departs(s, kind)
  BY DEF Others
<1>2. Watch BY DEF Others
<1>3. CASE RunStarts(s) \/ RelayStarts(s) BY <1>2, <1>3, RunStartsKeeps
<1>4. CASE Steer(s) BY <1>2, <1>4, SteerKeeps
<1>5. CASE Reset(s) BY <1>2, <1>5, ResetKeeps
<1>6. CASE \E kind \in {"cli", "oldcli"}, running \in BOOLEAN : Register(s, kind, running)
  BY <1>2, <1>6, RegisterKeeps
<1>7. CASE \E kind \in {"server", "none"} : Departs(s, kind) BY <1>2, <1>7, DepartsKeeps
<1> QED BY <1>1, <1>3, <1>4, <1>5, <1>6, <1>7

LEMMA OutsideKeeps ==
    ASSUME IInv, Outside
    PROVE  IInv'
<1>1. /\ \/ TimePasses \/ Crash
         \/ \E j \in Job : RemoveJob(j) \/ \E as \in {"off", "on"} : Edit(j, as)
      /\ Watch
  BY DEF Outside
<1> QED BY <1>1, TimePassesKeeps, CrashKeeps, RemoveJobKeeps, EditKeeps

LEMMA NextKeeps ==
    ASSUME IInv, [Next]_vars
    PROVE  IInv'
<1>0. TypeOK BY DEF IInv
<1>1. CASE Start
  <2>1. started' \in BOOLEAN BY <1>1 DEF Start
  <2> QED BY <1>1, <2>1, Unmoved DEF Start
<1>2. CASE UNCHANGED vars
  <2>1. started' \in BOOLEAN BY <1>0, <1>2 DEF vars, TypeOK
  <2> QED BY <1>2, <2>1, Unmoved DEF vars
<1>3. CASE Tick BY <1>3, TickKeeps
<1>4. CASE DrainResumes BY <1>4, DrainResumesKeeps
<1>5. CASE EnsureFails BY <1>5, EnsureFailsKeeps
<1>6. CASE SendStep BY <1>6, SendStepKeeps
<1>7. CASE IsolatedStep BY <1>7, IsolatedCreatedKeeps DEF IsolatedStep
<1>8. CASE RunStep BY <1>8, RunStepKeeps
<1>9. CASE Others BY <1>9, OthersKeeps
<1>10. CASE AMinutePasses BY <1>10, MarkAgesKeeps DEF AMinutePasses
<1>11. CASE Outside BY <1>11, OutsideKeeps
<1> QED BY <1>1, <1>2, <1>3, <1>4, <1>5, <1>6, <1>7, <1>8, <1>9, <1>10, <1>11 DEF Next

\* Whatever ticks, drains, sends, runs, terminals, edits and crashes come between: a job
\* is in flight once and for an occurrence no run the server knows of decided yet (a run
\* that could not be appended to the log file is known until the next restart), and one job at most is on
\* its way to a session, which is marked and was told of no other (fire, drainInline,
\* dispatchInline and onEvent of assistant-scheduler.ts).
THEOREM Invariance == Spec => []IInv
<1>1. Init => IInv BY InitHolds
<1>2. IInv /\ [Next]_vars => IInv' BY NextKeeps
<1> QED BY <1>1, <1>2, PTL DEF Spec

\* Every variable of the scheduler, its controller and its sessions keeps to its type.
THEOREM TypesHold == Spec => []TypeOK
<1>1. IInv => TypeOK BY DEF IInv
<1> QED BY <1>1, Invariance, PTL

\* At most one entry of the run log decides an occurrence, unless the drain was raced:
\* OnceInv says so of any two.
LEMMA FiredOnce ==
    ASSUME IInv
    PROVE  FiredOnceUnlessRaced
<1> SUFFICES ASSUME "drain" \notin raced, NEW j \in Job, NEW t \in Times[j]
             PROVE  Cardinality(Decided(j, t)) <= 1
  BY DEF FiredOnceUnlessRaced
<1> DEFINE D == Decided(j, t)
<1>1. \A i, k \in D : i = k
  <2>1. DecidedOnce BY DEF IInv, OnceInv
  <2> QED BY <2>1 DEF Decided, DecidedOnce, Known
<1> HIDE DEF D
<1>2. CASE D = {} BY <1>2, FS_EmptySet DEF D
<1>3. CASE D # {}
  <2>1. PICK i : D = {i} BY <1>1, <1>3
  <2>2. Cardinality(D) = 1 BY <2>1, FS_Singleton
  <2> QED BY <2>2 DEF D
<1> QED BY <1>2, <1>3

\* An exchange was told of one job at most, unless a send was raced: ToldIsMarked says
\* that any two are one.
LEMMA OneJob ==
    ASSUME IInv
    PROVE  OneJobAtATime
<1> SUFFICES ASSUME "send" \notin raced, NEW s \in Session
             PROVE  Cardinality(told[s]) <= 1
  BY DEF OneJobAtATime, JobsNeverMerge
<1>1. \A a, b \in told[s] : a = b
  <2>1. ToldIsMarked BY DEF IInv, AloneInv
  <2> QED BY <2>1 DEF ToldIsMarked
<1>2. CASE told[s] = {} BY <1>2, FS_EmptySet
<1>3. CASE told[s] # {}
  <2>1. PICK a : told[s] = {a} BY <1>1, <1>3
  <2>2. Cardinality(told[s]) = 1 BY <2>1, FS_Singleton
  <2> QED BY <2>2
<1> QED BY <1>2, <1>3

\* An occurrence of a job is decided once across crashes, restarts, late ticks and edits,
\* unless the pending jobs changed under a drain or the log file missed the run that
\* decided it and the server was restarted (RunLog.append); and a job never merges into a running
\* exchange ("the next waits for the settle of the previous one",
\* assistant-scheduler.ts:29), unless something came between its dispatch and its delivery.
THEOREM RunsHold == Spec => []RunsOnceAndAlone
<1>1. IInv => RunsOnceAndAlone BY FiredOnce, OneJob DEF RunsOnceAndAlone
<1> QED BY <1>1, Invariance, PTL

========================================
