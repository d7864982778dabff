---------------------------- MODULE ViewerProofs ----------------------------
(***************************************************************************)
(* Proofs about viewers: those who share a working folder (FolderConflict, *)
(* any files, folders and viewers), and one of them with its client over   *)
(* sockets that fail (ClientSession, any sessions, messages and texts).    *)
(***************************************************************************)
EXTENDS FolderConflict, ClientSession, SequenceTheorems, WellFoundedInduction, TLAPS

--------------------
(* FolderConflict: viewers that share a working folder. *)

ClientType == [at : File \cup {None}, painted : File \cup {None},
               pending : Folder \cup {None}, missing : Folder \cup {None},
               readOnly : BOOLEAN, observer : BOOLEAN, continued : BOOLEAN]
ScreenType == [file : File \cup {None}, want : File \cup {None, "new"},
               readOnly : BOOLEAN, banner : BOOLEAN, continued : BOOLEAN,
               missing : BOOLEAN]
OpType == [n : 1..MaxEvents, v : Viewer, kind : {"meta", "build", "create"},
           file : File \cup {None}, folder : Folder, warm : BOOLEAN]

LEMMA TypesOf ==
    ASSUME TypeOK
    PROVE  /\ client \in [Viewer -> ClientType] /\ screen \in [Viewer -> ScreenType]
           /\ clients \in [File -> SUBSET Viewer] /\ \A f \in File \ resident : clients[f] = {}
           /\ resident \subseteq File /\ exists \subseteq File /\ gone \subseteq File
           /\ usable \subseteq Folder /\ open \subseteq Viewer /\ overtaken \subseteq Viewer
           /\ ghost \subseteq Viewer \ open /\ owed \in BOOLEAN /\ silent \in BOOLEAN
           /\ events \in 0..MaxEvents
           /\ \A v \in Viewer : client[v] \in ClientType /\ screen[v] \in ScreenType
BY DEF TypeOK, ClientType, ScreenType

LEMMA TypesAre ==
    ASSUME client' \in [Viewer -> ClientType], screen' \in [Viewer -> ScreenType],
           clients' \in [File -> SUBSET Viewer], \A f \in File \ resident' : clients'[f] = {},
           resident' \subseteq File, exists' \subseteq File, gone' \subseteq File,
           usable' \subseteq Folder, open' \subseteq Viewer, overtaken' \subseteq Viewer,
           ghost' \subseteq Viewer \ open', owed' \in BOOLEAN, silent' \in BOOLEAN,
           events' \in 0..MaxEvents, OpsAreLoads'
    PROVE  TypeOK'
<1>1. \A op \in ops' : op.kind \in {"meta", "build", "create"} /\ op.n \in 1..MaxEvents
  BY DEF OpsAreLoads
<1> QED BY <1>1 DEF TypeOK, ClientType, ScreenType

--------------------
(* The operators. *)

\* A viewer that moves is counted where it goes and nowhere it was attached to;
\* nobody else is touched.
LEMMA MovedFacts ==
    ASSUME clients \in [File -> SUBSET Viewer], client \in [Viewer -> ClientType],
           NEW v \in Viewer, NEW f \in File \cup {None}, NEW R
    PROVE  /\ Moved(v, f, R) \in [File -> SUBSET Viewer]
           /\ \A g \in File, w \in Viewer \ {v} : w \in Moved(v, f, R)[g] <=> w \in clients[g]
           /\ \A g \in File : v \in Moved(v, f, R)[g] =>
                IF g = f THEN f \in R \/ v \in clients[g]
                ELSE g # client[v].at /\ v \in clients[g]
           /\ \A g \in File : clients[g] = {} /\ ~(g = f /\ f \in R) => Moved(v, f, R)[g] = {}
           /\ f = None /\ client[v].at = None => Moved(v, f, R) = clients
<1>1. None \notin File BY Shape
<1> DEFINE M == Moved(v, f, R)
<1>2. \A g \in File : M[g] = IF g = f /\ f \in R THEN clients[g] \cup {v}
                             ELSE IF g = f THEN clients[g]
                             ELSE IF g = client[v].at THEN clients[g] \ {v} ELSE clients[g]
  BY DEF Moved
<1>3. M \in [File -> SUBSET Viewer] BY DEF Moved
<1>4. f = None /\ client[v].at = None => M = clients
  <2> SUFFICES ASSUME f = None, client[v].at = None PROVE M = clients OBVIOUS
  <2>1. \A g \in File : M[g] = clients[g] BY <1>1, <1>2
  <2> QED BY <1>3, <2>1
<1> HIDE DEF M
<1>5. \A g \in File, w \in Viewer \ {v} : w \in M[g] <=> w \in clients[g] BY <1>2
<1>6. \A g \in File : v \in M[g] => IF g = f THEN f \in R \/ v \in clients[g]
                                    ELSE g # client[v].at /\ v \in clients[g]
  BY <1>2
<1>7. \A g \in File : clients[g] = {} /\ ~(g = f /\ f \in R) => M[g] = {} BY <1>2
<1> QED BY <1>3, <1>4, <1>5, <1>6, <1>7 DEF M

LEMMA MovedAway ==
    ASSUME clients \in [File -> SUBSET Viewer], client \in [Viewer -> ClientType],
           NEW v \in Viewer, clients' = Moved(v, None, resident)
    PROVE  /\ clients' \in [File -> SUBSET Viewer]
           /\ \A g \in File, w \in Viewer \ {v} : w \in clients'[g] <=> w \in clients[g]
           /\ \A g \in File : v \in clients'[g] => g # client[v].at /\ v \in clients[g]
           /\ \A g \in File : clients[g] = {} => clients'[g] = {}
           /\ client[v].at = None => clients' = clients
<1> DEFINE M == Moved(v, None, resident)
<1>1. None \notin File /\ None \in File \cup {None} BY Shape
<1>2. /\ M \in [File -> SUBSET Viewer]
      /\ \A g \in File, w \in Viewer \ {v} : w \in M[g] <=> w \in clients[g]
      /\ \A g \in File : v \in M[g] =>
           IF g = None THEN None \in resident \/ v \in clients[g]
           ELSE g # client[v].at /\ v \in clients[g]
      /\ \A g \in File : clients[g] = {} /\ ~(g = None /\ None \in resident) => M[g] = {}
      /\ None = None /\ client[v].at = None => M = clients
  BY <1>1, MovedFacts
<1>3. clients' = M OBVIOUS
<1> HIDE DEF M
<1> QED BY <1>1, <1>2, <1>3

LEMMA MovedTo ==
    ASSUME clients \in [File -> SUBSET Viewer], client \in [Viewer -> ClientType],
           NEW v \in Viewer, NEW f \in File, NEW R, clients' = Moved(v, f, R)
    PROVE  /\ clients' \in [File -> SUBSET Viewer]
           /\ \A g \in File, w \in Viewer \ {v} : w \in clients'[g] <=> w \in clients[g]
           /\ v \in clients'[f] => f \in R \/ v \in clients[f]
           /\ \A g \in File \ {f} : v \in clients'[g] => g # client[v].at /\ v \in clients[g]
           /\ \A g \in File : clients[g] = {} /\ ~(g = f /\ f \in R) => clients'[g] = {}
<1> DEFINE M == Moved(v, f, R)
<1>1. /\ M \in [File -> SUBSET Viewer]
      /\ \A g \in File, w \in Viewer \ {v} : w \in M[g] <=> w \in clients[g]
      /\ \A g \in File : v \in M[g] => IF g = f THEN f \in R \/ v \in clients[g]
                                         ELSE g # client[v].at /\ v \in clients[g]
      /\ \A g \in File : clients[g] = {} /\ ~(g = f /\ f \in R) => M[g] = {}
      /\ f = None /\ client[v].at = None => M = clients
  BY MovedFacts
<1>2. clients' = M OBVIOUS
<1> HIDE DEF M
<1> QED BY <1>1, <1>2

\* A conflict that is over gives back what it took, and no more.
LEMMA ResolvedFacts ==
    ASSUME NEW x \in ClientType, NEW R, NEW C
    PROVE  /\ Resolved(x, R, C) \in ClientType
           /\ Resolved(x, R, C).at = x.at /\ Resolved(x, R, C).painted = x.painted
           /\ Resolved(x, R, C).pending = x.pending /\ Resolved(x, R, C).missing = x.missing
           /\ Resolved(x, R, C).continued = x.continued
           /\ Resolved(x, R, C).readOnly => x.readOnly
           /\ x.readOnly /\ HardReadOnly(x, FolderOf[x.at]) => Resolved(x, R, C).readOnly
           /\ Attached(x, R) /\ Resolved(x, R, C).observer => OtherViewed(x.at, C)
<1> DEFINE b == x.readOnly /\ HardReadOnly(x, FolderOf[x.at])
<1> DEFINE h == HardReadOnly(x, FolderOf[x.at])
<1>1. b \in BOOLEAN /\ (b => x.readOnly) /\ (x.readOnly /\ h => b) BY DEF HardReadOnly, ClientType
<1> DEFINE r == Resolved(x, R, C)
<1>2. r = IF Attached(x, R) /\ x.observer /\ ~OtherViewed(x.at, C)
          THEN [x EXCEPT !.observer = FALSE, !.readOnly = b] ELSE x
  BY DEF Resolved
<1> HIDE DEF b, h, r
<1>3. CASE Attached(x, R) /\ x.observer /\ ~OtherViewed(x.at, C)
  <2>1. r = [x EXCEPT !.observer = FALSE, !.readOnly = b] BY <1>2, <1>3
  <2>2. /\ r \in ClientType /\ r.at = x.at /\ r.painted = x.painted /\ r.pending = x.pending
        /\ r.missing = x.missing /\ r.continued = x.continued
        /\ r.readOnly = b /\ r.observer = FALSE
    BY <1>1, <2>1 DEF ClientType
  <2> QED BY <1>1, <2>2 DEF r, h
<1>4. CASE ~(Attached(x, R) /\ x.observer /\ ~OtherViewed(x.at, C)) BY <1>1, <1>2, <1>4 DEF r, h
<1> QED BY <1>3, <1>4

\* What the conflict frame shows of the session it is about.
LEMMA ShownFacts ==
    ASSUME NEW s \in ScreenType, NEW x \in ClientType, NEW R, NEW C
    PROVE  /\ Shown(s, x, R, C) \in ScreenType
           /\ Shown(s, x, R, C).file = s.file /\ Shown(s, x, R, C).want = s.want
           /\ Attached(x, R) /\ s.file = x.at =>
                /\ Shown(s, x, R, C).readOnly = x.readOnly
                /\ Shown(s, x, R, C).banner <=> OtherViewed(x.at, C)
<1> DEFINE active == OtherViewed(x.at, C)
<1> DEFINE k == active /\ (s.continued \/ ~s.banner)
<1> DEFINE r == Shown(s, x, R, C)
<1>1. active \in BOOLEAN /\ k \in BOOLEAN BY DEF OtherViewed
<1>2. r = IF ~Attached(x, R) \/ s.file = None \/ FolderOf[s.file] # FolderOf[x.at] THEN s
          ELSE [s EXCEPT !.readOnly = x.readOnly, !.banner = active, !.continued = k]
  BY DEF Shown
<1> HIDE DEF active, k, r
<1>3. CASE ~Attached(x, R) \/ s.file = None \/ FolderOf[s.file] # FolderOf[x.at]
  <2>1. r = s BY <1>2, <1>3
  <2>2. ~(Attached(x, R) /\ s.file = x.at) BY <1>3 DEF Attached
  <2> QED BY <2>1, <2>2 DEF r
<1>4. CASE ~(~Attached(x, R) \/ s.file = None \/ FolderOf[s.file] # FolderOf[x.at])
  <2>1. r = [s EXCEPT !.readOnly = x.readOnly, !.banner = active, !.continued = k] BY <1>2, <1>4
  <2>2. x.readOnly \in BOOLEAN BY DEF ClientType
  <2>3. /\ r \in ScreenType /\ r.file = s.file /\ r.want = s.want
        /\ r.readOnly = x.readOnly /\ r.banner = active
    BY <1>1, <2>1, <2>2 DEF ScreenType
  <2> QED BY <2>3 DEF r, active
<1> QED BY <1>3, <1>4

\* What the handlers make of a viewer's record.
LEMMA ClientSteps ==
    ASSUME NEW x \in ClientType
    PROVE  /\ Detached(x) \in ClientType
           /\ Detached(x).at = None /\ Detached(x).painted = x.painted
           /\ [Detached(x) EXCEPT !.readOnly = FALSE] \in ClientType
           /\ [Detached(x) EXCEPT !.readOnly = FALSE].at = None
           /\ [Detached(x) EXCEPT !.readOnly = FALSE].painted = x.painted
           /\ LoadStarts(x) \in ClientType /\ LoadStarts(x).at = x.at
           /\ LoadStarts(x).painted = None
           /\ Left(x) \in ClientType /\ Left(x).at = None /\ Left(x).painted = None
<1> DEFINE d == Detached(x)
<1>1. d \in ClientType /\ d.at = None /\ d.painted = x.painted BY DEF Detached, ClientType
<1>2. LoadStarts(x) \in ClientType /\ LoadStarts(x).at = x.at /\ LoadStarts(x).painted = None
  BY DEF LoadStarts, ClientType
<1> DEFINE e == [d EXCEPT !.readOnly = FALSE]
<1>3. e \in ClientType /\ e.at = None /\ e.painted = x.painted
  <2> HIDE DEF d
  <2> QED BY <1>1 DEF ClientType
<1> DEFINE m == [x EXCEPT !.missing = None, !.painted = None]
<1>4. m \in ClientType /\ m.at = x.at /\ m.painted = None BY DEF ClientType
<1>5. Left(x) = IF x.at = None THEN m ELSE [Detached(m) EXCEPT !.readOnly = FALSE] BY DEF Left
<1> HIDE DEF m
<1> DEFINE k == Detached(m)
<1>6. k \in ClientType /\ k.at = None /\ k.painted = m.painted BY <1>4 DEF Detached, ClientType
<1> DEFINE l == [k EXCEPT !.readOnly = FALSE]
<1>7. l \in ClientType /\ l.at = None /\ l.painted = m.painted
  <2> HIDE DEF k
  <2> QED BY <1>6 DEF ClientType
<1>8. Left(x) = IF x.at = None THEN m ELSE l BY <1>5
<1> HIDE DEF k, l
<1>9. Left(x) \in ClientType /\ Left(x).at = None /\ Left(x).painted = None BY <1>4, <1>7, <1>8
<1> QED BY <1>1, <1>2, <1>3, <1>9

LEMMA ContinuedFacts ==
    ASSUME NEW x \in ClientType
    PROVE  /\ Continued(x) \in ClientType
           /\ Continued(x).at = x.at /\ Continued(x).painted = x.painted
           /\ Continued(x).missing = x.missing /\ Continued(x).continued
           /\ Continued(x).readOnly => x.readOnly
           /\ Attached(x, resident) =>
                (Continued(x).readOnly <=> x.readOnly /\ HardReadOnly(x, FolderOf[x.at]))
<1> DEFINE d == IF Attached(x, resident) THEN FolderOf[x.at] ELSE x.pending
<1> DEFINE h == HardReadOnly(x, d)
<1> DEFINE b == x.readOnly /\ (d = None \/ h)
<1>1. b \in BOOLEAN /\ (b => x.readOnly) BY DEF ClientType
<1>2. Continued(x) = [x EXCEPT !.continued = TRUE, !.readOnly = b] BY DEF Continued
<1>3. Attached(x, resident) => (b <=> x.readOnly /\ h) /\ (h <=> HardReadOnly(x, FolderOf[x.at]))
  <2>1. SUFFICES ASSUME Attached(x, resident)
                 PROVE  (b <=> x.readOnly /\ h) /\ (h <=> HardReadOnly(x, FolderOf[x.at]))
    OBVIOUS
  <2>2. d = FolderOf[x.at] BY <2>1
  <2>3. x.at \in File BY <2>1 DEF Attached, ClientType
  <2>4. d # None BY <2>2, <2>3, Shape
  <2> QED BY <2>2, <2>4
<1> HIDE DEF b, h
<1>4. /\ Continued(x) \in ClientType /\ Continued(x).at = x.at /\ Continued(x).painted = x.painted
      /\ Continued(x).missing = x.missing /\ Continued(x).continued
      /\ Continued(x).readOnly = b
  BY <1>1, <1>2 DEF ClientType
<1> QED BY <1>1, <1>3, <1>4

\* What a painted reply and a missing folder make of the screen.
LEMMA PaintsFacts ==
    ASSUME NEW s \in ScreenType, NEW x \in ClientType, NEW f \in File, NEW b \in BOOLEAN
    PROVE  /\ Paints(s, f, x, b) \in ScreenType
           /\ Paints(s, f, x, b).want = IF s.want = f THEN None ELSE s.want
           /\ s.want = f => Paints(s, f, x, b).file = f /\ Paints(s, f, x, b).banner = b
           /\ s.want # f => Paints(s, f, x, b) = s
<1> DEFINE m == x.missing # None
<1> DEFINE r == [file |-> f, want |-> None, readOnly |-> x.readOnly, banner |-> b,
                 continued |-> FALSE, missing |-> m]
<1>1. m \in BOOLEAN /\ x.readOnly \in BOOLEAN BY DEF ClientType
<1>2. Paints(s, f, x, b) = IF s.want # f THEN s ELSE r BY DEF Paints
<1> HIDE DEF m
<1>3. r \in ScreenType /\ r.file = f /\ r.want = None /\ r.banner = b BY <1>1 DEF ScreenType
<1> HIDE DEF r
<1> QED BY <1>2, <1>3

LEMMA LocksFacts ==
    ASSUME NEW s \in ScreenType, NEW f, NEW m
    PROVE  /\ Locks(s, f, m) \in ScreenType
           /\ Locks(s, f, m).want = s.want /\ Locks(s, f, m).file = s.file
           /\ ~m => Locks(s, f, m) = s
<1> DEFINE r == [s EXCEPT !.readOnly = TRUE, !.missing = TRUE]
<1>1. Locks(s, f, m) = IF m /\ s.file \in {None, f} THEN r ELSE s BY DEF Locks
<1>2. r \in ScreenType /\ r.want = s.want /\ r.file = s.file BY DEF ScreenType
<1> HIDE DEF r
<1> QED BY <1>1, <1>2

\* Whoever is counted is attached, to a session of the pool.
LEMMA CountedFacts ==
    ASSUME IInv, NEW v \in open, Counted(v)
    PROVE  /\ client[v].at \in File /\ client[v].at \in resident
           /\ Attached(client[v], resident)
           /\ v \in Viewer /\ v \notin ghost
<1>1. v \in Viewer /\ v \notin ghost /\ client[v] \in ClientType BY TypesOf DEF IInv
<1>2. client[v].at \in File /\ v \in clients[client[v].at] BY <1>1 DEF Counted, ClientType
<1>3. client[v].at \in resident BY <1>1, <1>2 DEF IInv, Placed
<1> QED BY <1>1, <1>2, <1>3 DEF Attached, Counted

LEMMA NewOpType ==
    ASSUME TypeOK, Tick, NEW v \in Viewer, NEW kind \in {"meta", "build", "create"},
           NEW f \in File \cup {None}, NEW d \in Folder, NEW warm \in BOOLEAN
    PROVE  /\ Op(v, kind, f, d, warm) \in OpType
           /\ Op(v, kind, f, d, warm).v = v /\ Op(v, kind, f, d, warm).kind = kind
           /\ Op(v, kind, f, d, warm).file = f /\ Op(v, kind, f, d, warm).folder = d
           /\ Op(v, kind, f, d, warm).warm = warm
<1> DEFINE n == events + 1
<1>1. events \in 0..MaxEvents /\ MaxEvents \in Nat /\ events < MaxEvents BY Shape, TypesOf DEF Tick
<1>2. n \in 1..MaxEvents BY <1>1
<1>3. Op(v, kind, f, d, warm) = [n |-> n, v |-> v, kind |-> kind, file |-> f, folder |-> d,
                                 warm |-> warm]
  BY DEF Op
<1> HIDE DEF n
<1> QED BY <1>2, <1>3 DEF OpType

LEMMA TickType == ASSUME TypeOK, Tick PROVE events' \in 0..MaxEvents
<1>1. events \in 0..MaxEvents /\ MaxEvents \in Nat BY Shape, TypesOf
<1> QED BY <1>1 DEF Tick

LEMMA OpFacts ==
    ASSUME OpsAreLoads, NEW op \in ops
    PROVE  /\ op \in OpType /\ op.v \in Viewer /\ op.folder \in Folder
           /\ op.warm \in BOOLEAN
           /\ op.kind # "create" => op.file \in File /\ op.folder = FolderOf[op.file]
BY DEF OpsAreLoads, OpType

LEMMA FewerOps == OpsAreLoads /\ ops' \subseteq ops => OpsAreLoads'
BY DEF OpsAreLoads

LEMMA OneMoreOp ==
    ASSUME OpsAreLoads, NEW o \in OpType, ops' \subseteq ops \cup {o},
           o.kind # "create" => o.file \in File /\ o.folder = FolderOf[o.file]
    PROVE  OpsAreLoads'
BY DEF OpsAreLoads, OpType

--------------------
(* Somebody else's step. *)

\* The step is not one of w's: it leaves w's record, screen and loads alone, counts
\* it nowhere new, and is announced when somebody else came or went.
Apart(w) ==
    /\ client'[w] = client[w] /\ screen'[w] = screen[w]
    /\ w \in open' <=> w \in open
    /\ w \in ghost' <=> w \in ghost
    /\ w \in overtaken => w \in overtaken'
    /\ \A g \in File : w \in clients'[g] => w \in clients[g]
    /\ \A g \in resident : g \in resident' \/ w \notin clients'[g]
    /\ exists \cup gone \subseteq exists' \cup gone'
    /\ \A op \in ops : op.v = w => op \in ops'
    /\ owed => owed'
    /\ silent => silent'
    /\ clients' = clients \/ owed' \/ silent'

LEMMA OtherKeeps ==
    ASSUME IInv, NEW w \in Viewer, Apart(w)
    PROVE  Placed(w)' /\ (w \in open' => InOrder(w)')
<1>1. Placed(w)'
  <2> SUFFICES ASSUME NEW g \in File, w \in clients'[g], w \notin ghost'
               PROVE  w \in open' /\ client'[w].at = g /\ g \in resident'
    BY DEF Placed
  <2>1. w \in clients[g] /\ w \notin ghost BY DEF Apart
  <2>2. w \in open /\ client[w].at = g /\ g \in resident BY <2>1 DEF IInv, Placed
  <2> QED BY <2>2 DEF Apart
<1>2. ASSUME w \in open' PROVE InOrder(w)'
  <2>1. w \in open /\ InOrder(w) BY <1>2 DEF Apart, IInv
  <2>2. client[w] \in ClientType /\ screen[w] \in ScreenType BY TypesOf DEF IInv
  <2>3. Counted(w)' => Counted(w)
    <3>1. client[w].at \in File \cup {None} BY <2>2 DEF ClientType
    <3> QED BY <3>1 DEF Counted, Apart
  <2>4. Showing(w)' => Showing(w) BY <2>3 DEF Showing, Apart
  <2>5. Hard(w)' <=> Hard(w) BY DEF Hard, HardReadOnly, Apart
  <2>6. HardStands(w)' /\ ClickStands(w)'
    BY <2>1, <2>4, <2>5 DEF InOrder, HardStands, ClickStands, Apart
  <2>7. WarmLoad(w) => WarmLoad(w)' BY DEF WarmLoad, Apart
  <2>8. AskedAnew(w)' BY <2>1, <2>3, <2>7 DEF InOrder, AskedAnew, Apart
  <2>9. ASSUME ~owed', ~silent' PROVE LockFollows(w)' /\ BannerFollows(w)'
    <3>1. ~owed /\ ~silent /\ clients' = clients BY <2>9 DEF Apart
    <3>2. LockFollows(w) /\ BannerFollows(w) BY <2>1, <3>1 DEF InOrder
    <3>3. client'[w] = client[w] /\ screen'[w] = screen[w] BY DEF Apart
    <3>4. OtherViewed(client[w].at, clients) = OtherViewed(client[w].at, clients') BY <3>1
    <3>5. LockFollows(w)' BY <3>1, <3>2, <3>3, <2>3, <3>4 DEF LockFollows
    <3>6. BannerFollows(w)' BY <3>1, <3>2, <3>3, <2>3, <2>7, <3>4 DEF BannerFollows
    <3> QED BY <3>5, <3>6
  <2>10. ASSUME ~owed' PROVE ComposerFollows(w)'
    <3>1. ComposerFollows(w) BY <2>1, <2>10 DEF InOrder, Apart
    <3>2. ToAttach(w) => ToAttach(w)' BY DEF ToAttach, Apart
    <3> QED BY <3>1, <3>2, <2>4 DEF ComposerFollows, Apart
  <2> QED BY <2>6, <2>8, <2>9, <2>10 DEF InOrder
<1> QED BY <1>1, <1>2

\* It is enough to look at the types, the loads and the viewer whose step it is.
LEMMA StepKeeps ==
    ASSUME IInv, TypeOK', OpsAreLoads', NEW v \in Viewer,
           \A w \in Viewer \ {v} : Apart(w), Placed(v)', v \in open' => InOrder(v)'
    PROVE  IInv'
<1>1. \A w \in Viewer : Placed(w)' /\ (w \in open' => InOrder(w)') BY OtherKeeps
<1>2. open' \subseteq Viewer BY DEF TypeOK
<1> QED BY <1>1, <1>2 DEF IInv

\* A viewer that gives up what was painted, or leaves, owes its screen little.
LEMMA Unpainted ==
    ASSUME NEW v, client'[v].painted = None \/ client'[v].at = None, AskedAnew(v)', BannerFollows(v)'
    PROVE  InOrder(v)'
<1>1. ~Showing(v)' BY DEF Showing, Counted
<1>2. HardStands(v)' /\ ClickStands(v)' /\ ComposerFollows(v)' /\ LockFollows(v)'
  BY <1>1 DEF HardStands, ClickStands, ComposerFollows, LockFollows, Showing
<1> QED BY <1>2 DEF InOrder

--------------------
(* The requests. *)

\* The rest of a step that changes only v's record and screen, and asks for a load.
LEMMA RequestKeeps ==
    ASSUME IInv, Tick, NEW v \in open, NEW x \in ClientType, NEW s \in ScreenType,
           NEW o \in OpType, o.v = v, o.kind # "create" => o.file \in File /\ o.folder = FolderOf[o.file],
           client' = [client EXCEPT ![v] = x], screen' = [screen EXCEPT ![v] = s],
           ops' = ops \cup {o}, clients' = clients, owed' = owed,
           UNCHANGED <<resident, exists, gone, usable, open>>, KeepHistory,
           x.at = client[v].at, x.painted = None, s.want # None,
           s.want \in File => s.want \in exists /\ o.kind = "meta"
                                /\ (s.want \in resident => o.warm)
    PROVE  IInv'
<1>1. v \in Viewer /\ client[v] \in ClientType BY TypesOf DEF IInv
<1>2. client'[v] = x /\ screen'[v] = s BY <1>1, TypesOf DEF IInv
<1>3. \A w \in Viewer \ {v} : client'[w] = client[w] /\ screen'[w] = screen[w] BY TypesOf DEF IInv
<1>4. OpsAreLoads' BY OneMoreOp DEF IInv
<1>5. TypeOK'
  <2>1. client' \in [Viewer -> ClientType] /\ screen' \in [Viewer -> ScreenType] BY TypesOf DEF IInv
  <2> QED BY <1>4, <2>1, TypesOf, TypesAre, TickType DEF IInv, KeepHistory
<1>6. \A w \in Viewer \ {v} : Apart(w) BY <1>3 DEF Apart, KeepHistory
<1>7. Placed(v)'
  <2>1. Placed(v) BY <1>1 DEF IInv
  <2> QED BY <1>2, <2>1 DEF Placed, KeepHistory
<1>8. AskedAnew(v)'
  <2>1. SUFFICES ASSUME s.want \in File
                 PROVE  /\ s.want \in exists' \cup gone' /\ client'[v].painted # s.want
                        /\ Counted(v)' /\ client'[v].at = s.want => WarmLoad(v)'
    BY <1>2 DEF AskedAnew
  <2>2. s.want \in exists' /\ client'[v].painted # s.want BY <1>2, <2>1, Shape
  <2>3. ASSUME Counted(v)', client'[v].at = s.want PROVE WarmLoad(v)'
    <3>1. Counted(v) /\ client[v].at = s.want BY <1>2, <2>3 DEF Counted
    <3>2. s.want \in resident BY <3>1, CountedFacts
    <3> QED BY <2>1, <3>2 DEF WarmLoad
  <2> QED BY <2>2, <2>3
<1>9. BannerFollows(v)' BY <1>2 DEF BannerFollows
<1>10. InOrder(v)' BY <1>2, <1>8, <1>9, Unpainted
<1> QED BY <1>1, <1>4, <1>5, <1>6, <1>7, <1>10, StepKeeps

\* The rest of a step that takes v off whatever it was attached to.
LEMMA GoneKeeps ==
    ASSUME IInv, NEW v \in Viewer, NEW x \in ClientType, NEW s \in ScreenType,
           x.at = None, client' = [client EXCEPT ![v] = x], screen' = [screen EXCEPT ![v] = s],
           clients' = Moved(v, None, resident), owed' = (owed \/ client[v].at # None) \/ owed' = TRUE,
           UNCHANGED <<resident, exists, gone, usable, open, ghost, silent, overtaken>>,
           events' \in 0..MaxEvents, OpsAreLoads',
           \A o \in ops : o.v # v => o \in ops',
           v \in open /\ s.want \in File => s.want \in exists \cup gone /\ x.painted # s.want
    PROVE  IInv'
<1>1. client[v] \in ClientType BY TypesOf DEF IInv
<1>2. client'[v] = x /\ screen'[v] = s BY TypesOf DEF IInv
<1>3. \A w \in Viewer \ {v} : client'[w] = client[w] /\ screen'[w] = screen[w] BY TypesOf DEF IInv
<1>4. /\ clients' \in [File -> SUBSET Viewer]
      /\ \A g \in File, w \in Viewer \ {v} : w \in clients'[g] <=> w \in clients[g]
      /\ \A g \in File : v \in clients'[g] => g # client[v].at /\ v \in clients[g]
      /\ \A g \in File : clients[g] = {} => clients'[g] = {}
      /\ client[v].at = None => clients' = clients
  BY MovedAway, TypesOf DEF IInv
<1>5. owed' \in BOOLEAN /\ (owed => owed') /\ (clients' = clients \/ owed')
  BY <1>4, TypesOf DEF IInv
<1>6. TypeOK'
  <2>1. client' \in [Viewer -> ClientType] /\ screen' \in [Viewer -> ScreenType] BY TypesOf DEF IInv
  <2> QED BY <1>4, <1>5, <2>1, TypesOf, TypesAre DEF IInv
<1>7. ASSUME NEW w \in Viewer \ {v} PROVE Apart(w)
  <2>1. \A g \in resident : g \in resident' \/ w \notin clients'[g] OBVIOUS
  <2> QED BY <1>3, <1>4, <1>5, <2>1 DEF Apart
<1>8. Placed(v)'
  <2>1. Placed(v) BY DEF IInv
  <2> QED BY <1>4, <2>1 DEF Placed
<1>9. ~Counted(v)' BY <1>2 DEF Counted
<1>10. v \in open => AskedAnew(v)' /\ BannerFollows(v)' BY <1>2, <1>9 DEF AskedAnew, BannerFollows
<1>11. v \in open' => InOrder(v)' BY <1>2, <1>10, Unpainted
<1> QED BY <1>6, <1>7, <1>8, <1>11, StepKeeps

LEMMA BlankType ==
    Blank \in ScreenType /\ NoClient \in ClientType
BY Shape DEF Blank, NoClient, ScreenType, ClientType

LEMMA JoinKeeps == ASSUME IInv, NEW v \in Viewer, NEW f \in File, Join(v, f) PROVE IInv'
<1> DEFINE x == LoadStarts(client[v])
<1> DEFINE s == [screen[v] EXCEPT !.want = f, !.banner = FALSE, !.continued = FALSE, !.missing = FALSE]
<1> DEFINE o == Op(v, "meta", f, FolderOf[f], f \in resident)
<1>1. v \in open /\ f \in exists /\ Tick /\ screen[v] \in ScreenType /\ client[v] \in ClientType
  BY TypesOf DEF IInv, Join
<1>2. /\ client' = [client EXCEPT ![v] = x] /\ screen' = [screen EXCEPT ![v] = s]
      /\ ops' = ops \cup {o} /\ clients' = clients /\ owed' = owed
      /\ UNCHANGED <<resident, exists, gone, usable, open>> /\ KeepHistory
  BY <1>1, TypesOf DEF Join, IInv
<1>3. s \in ScreenType /\ s.want = f BY <1>1 DEF ScreenType
<1>4. x \in ClientType /\ x.at = client[v].at /\ x.painted = None BY <1>1, ClientSteps
<1> DEFINE warm == f \in resident
<1>5. FolderOf[f] \in Folder /\ warm \in BOOLEAN BY Shape
<1>6. o \in OpType /\ o.v = v /\ o.kind = "meta" /\ o.file = f
      /\ o.folder = FolderOf[f] /\ o.warm = warm
  <2> HIDE DEF warm
  <2>1. /\ Op(v, "meta", f, FolderOf[f], warm) \in OpType
        /\ Op(v, "meta", f, FolderOf[f], warm).v = v
        /\ Op(v, "meta", f, FolderOf[f], warm).kind = "meta"
        /\ Op(v, "meta", f, FolderOf[f], warm).file = f
        /\ Op(v, "meta", f, FolderOf[f], warm).folder = FolderOf[f]
        /\ Op(v, "meta", f, FolderOf[f], warm).warm = warm
    BY <1>1, <1>5, NewOpType DEF IInv
  <2> QED BY <2>1 DEF warm
<1>7. f # None BY Shape
<1> HIDE DEF x, s, o
<1>8. s.want \in File => s.want \in exists /\ o.kind = "meta" /\ (s.want \in resident => o.warm)
  BY <1>1, <1>3, <1>6
<1>9. s.want # None /\ (o.kind # "create" => o.file \in File /\ o.folder = FolderOf[o.file])
  BY <1>3, <1>6, <1>7
<1> QED BY <1>1, <1>2, <1>3, <1>4, <1>6, <1>8, <1>9, RequestKeeps

LEMMA SwitchKeeps == ASSUME IInv, NEW v \in Viewer, NEW f \in File, Switch(v, f) PROVE IInv'
<1> DEFINE leaves == screen[v].file # None
<1> DEFINE x == LoadStarts(IF leaves THEN Left(client[v]) ELSE client[v])
<1> DEFINE s == [Blank EXCEPT !.want = f]
<1> DEFINE warm == f \in resident
<1> DEFINE o == Op(v, "meta", f, FolderOf[f], warm)
<1>1. v \in open /\ f \in exists /\ Tick /\ client[v] \in ClientType BY TypesOf DEF IInv, Switch
<1>2. /\ client' = [client EXCEPT ![v] = x] /\ screen' = [screen EXCEPT ![v] = s]
      /\ ops' = ops \cup {o}
      /\ clients' = IF leaves THEN Moved(v, None, resident) ELSE clients
      /\ owed' = (owed \/ (leaves /\ client[v].at # None))
      /\ UNCHANGED <<resident, exists, gone, usable, open>> /\ KeepHistory
  BY <1>1, TypesOf DEF Switch, IInv
<1>3. s \in ScreenType /\ s.want = f BY BlankType DEF ScreenType
<1>4. /\ x \in ClientType /\ x.painted = None
      /\ x.at = IF leaves THEN None ELSE client[v].at
  <2>1. Left(client[v]) \in ClientType /\ Left(client[v]).at = None BY <1>1, ClientSteps
  <2>2. CASE leaves BY <2>1, <2>2, ClientSteps
  <2>3. CASE ~leaves BY <1>1, <2>3, ClientSteps
  <2> QED BY <2>2, <2>3
<1>5. FolderOf[f] \in Folder /\ warm \in BOOLEAN /\ f # None BY Shape
<1>6. o \in OpType /\ o.v = v /\ o.kind = "meta" /\ o.file = f
      /\ o.folder = FolderOf[f] /\ o.warm = warm
  <2> HIDE DEF warm
  <2>1. /\ Op(v, "meta", f, FolderOf[f], warm) \in OpType
        /\ Op(v, "meta", f, FolderOf[f], warm).v = v
        /\ Op(v, "meta", f, FolderOf[f], warm).kind = "meta"
        /\ Op(v, "meta", f, FolderOf[f], warm).file = f
        /\ Op(v, "meta", f, FolderOf[f], warm).folder = FolderOf[f]
        /\ Op(v, "meta", f, FolderOf[f], warm).warm = warm
    BY <1>1, <1>5, NewOpType DEF IInv
  <2> QED BY <2>1
<1> HIDE DEF x, s, o
<1>7. CASE leaves
  <2>1. OpsAreLoads' BY <1>2, <1>6, OneMoreOp DEF IInv
  <2>2. events' \in 0..MaxEvents BY <1>1, TickType DEF IInv
  <2>3. s.want \in File => s.want \in exists \cup gone /\ x.painted # s.want
    BY <1>1, <1>3, <1>4, <1>5
  <2>4. UNCHANGED <<resident, exists, gone, usable, open, ghost, silent, overtaken>>
    BY <1>2 DEF KeepHistory
  <2>5. owed' = (owed \/ client[v].at # None) BY <1>2, <1>7
  <2> HIDE DEF leaves
  <2>6. x.at = None /\ clients' = Moved(v, None, resident) BY <1>2, <1>4, <1>7
  <2>7. \A q \in ops : q.v # v => q \in ops' BY <1>2
  <2> QED BY <1>2, <1>3, <1>4, <2>1, <2>2, <2>3, <2>4, <2>5, <2>6, <2>7, GoneKeeps
<1>8. CASE ~leaves
  <2>1. s.want \in File => s.want \in exists /\ o.kind = "meta" /\ (s.want \in resident => o.warm)
    BY <1>1, <1>3, <1>6
  <2>2. s.want # None /\ (o.kind # "create" => o.file \in File /\ o.folder = FolderOf[o.file])
    BY <1>3, <1>5, <1>6
  <2>3. owed' = owed /\ clients' = clients /\ x.at = client[v].at
    BY <1>2, <1>4, <1>8, TypesOf DEF IInv
  <2> QED BY <1>1, <1>2, <1>3, <1>4, <1>6, <2>1, <2>2, <2>3, RequestKeeps
<1> QED BY <1>7, <1>8

LEMMA LeaveKeeps == ASSUME IInv, NEW v \in Viewer, Leave(v) PROVE IInv'
<1>1. v \in open /\ Tick /\ client[v] \in ClientType /\ screen[v] \in ScreenType
  BY TypesOf DEF IInv, Leave
<1>2. screen' = [screen EXCEPT ![v] = Blank] /\ Blank.file = None /\ Blank.want = None
  BY DEF Leave, Blank
<1>3. UNCHANGED <<resident, exists, gone, usable, open, ghost, silent, overtaken>> /\ ops' = ops
  BY DEF Leave, KeepHistory
<1>4. events' \in 0..MaxEvents /\ OpsAreLoads' BY <1>1, <1>3, TickType, FewerOps DEF IInv
<1>5. None \notin File BY Shape
<1>6. CASE screen[v].file # None
  <2> DEFINE x == Left(client[v])
  <2>1. client' = [client EXCEPT ![v] = x] /\ clients' = Moved(v, None, resident)
        /\ owed' = (owed \/ client[v].at # None)
    BY <1>6, TypesOf DEF Leave, IInv
  <2>2. x \in ClientType /\ x.at = None BY <1>1, ClientSteps
  <2> HIDE DEF x
  <2> QED BY <1>2, <1>3, <1>4, <1>5, <2>1, <2>2, BlankType, GoneKeeps
<1>7. CASE screen[v].file = None
  <2>1. client' = client /\ clients' = clients /\ owed' = owed BY <1>7 DEF Leave
  <2>2. /\ screen' \in [Viewer -> ScreenType] /\ screen'[v] = Blank
        /\ \A w \in Viewer \ {v} : screen'[w] = screen[w]
    BY <1>2, BlankType, TypesOf DEF IInv
  <2>3. TypeOK' BY <1>3, <1>4, <2>1, <2>2, TypesOf, TypesAre DEF IInv
  <2>4. \A w \in Viewer \ {v} : Apart(w) BY <1>3, <2>1, <2>2 DEF Apart
  <2>5. Placed(v)'
    <3>1. Placed(v) BY DEF IInv
    <3> QED BY <1>3, <2>1, <3>1 DEF Placed
  <2>6. InOrder(v)'
    <3>1. InOrder(v) BY <1>1 DEF IInv
    <3>2. HardStands(v)' /\ ClickStands(v)'
      BY <1>3, <2>1, <3>1 DEF InOrder, HardStands, ClickStands, Showing, Counted, Hard, HardReadOnly
    <3>3. AskedAnew(v)' BY <1>2, <1>5, <2>2 DEF AskedAnew
    <3>4. ~owed' /\ ~silent' => LockFollows(v)'
      BY <1>3, <2>1, <3>1 DEF InOrder, LockFollows, Counted
    <3>5. BannerFollows(v)' /\ ComposerFollows(v)'
      BY <1>2, <2>2 DEF BannerFollows, ComposerFollows, Showing, Counted
    <3> QED BY <3>2, <3>3, <3>4, <3>5 DEF InOrder
  <2> QED BY <1>4, <2>3, <2>4, <2>5, <2>6, StepKeeps
<1> QED BY <1>6, <1>7

LEMMA NewKeeps == ASSUME IInv, NEW v \in Viewer, NEW d \in Folder, New(v, d) PROVE IInv'
<1> DEFINE x == [client[v] EXCEPT !.painted = None]
<1> DEFINE s == [screen[v] EXCEPT !.want = "new", !.banner = FALSE, !.continued = FALSE,
                                  !.missing = FALSE]
<1> DEFINE o == Op(v, "create", None, d, FALSE)
<1>1. v \in open /\ Tick /\ screen[v] \in ScreenType /\ client[v] \in ClientType
  BY TypesOf DEF IInv, New
<1>2. /\ client' = [client EXCEPT ![v] = x] /\ screen' = [screen EXCEPT ![v] = s]
      /\ ops' = ops \cup {o} /\ clients' = clients /\ owed' = owed
      /\ UNCHANGED <<resident, exists, gone, usable, open>> /\ KeepHistory
  BY <1>1, TypesOf DEF New, IInv
<1>3. s \in ScreenType /\ s.want = "new" BY <1>1 DEF ScreenType
<1>4. x \in ClientType /\ x.at = client[v].at /\ x.painted = None BY <1>1 DEF ClientType
<1>5. "new" \notin File /\ "new" # None BY Shape
<1>6. o \in OpType /\ o.v = v /\ o.kind = "create"
  <2> DEFINE warm == FALSE
  <2>1. warm \in BOOLEAN OBVIOUS
  <2> HIDE DEF warm
  <2>2. /\ Op(v, "create", None, d, warm) \in OpType
        /\ Op(v, "create", None, d, warm).v = v
        /\ Op(v, "create", None, d, warm).kind = "create"
    BY <1>1, <2>1, NewOpType DEF IInv
  <2> QED BY <2>2 DEF warm
<1> HIDE DEF x, s, o
<1> QED BY <1>1, <1>2, <1>3, <1>4, <1>5, <1>6, RequestKeeps

\* The server looks at the folder again: the lock of a conflict that is over is
\* lifted, and the screen is told.
LEMMA VerdictKeeps ==
    ASSUME IInv, NEW v \in open, NEW x \in ClientType, NEW s \in ScreenType,
           x.at = client[v].at, x.painted = client[v].painted, x.missing = client[v].missing,
           x.readOnly => client[v].readOnly,
           HardReadOnly(x, FolderOf[x.at]) /\ Counted(v) => x.readOnly = client[v].readOnly,
           Showing(v) /\ x.continued /\ ~HardReadOnly(x, FolderOf[x.at]) => ~x.readOnly,
           s.file = screen[v].file, s.want = screen[v].want,
           client'[v] = Resolved(x, resident, clients),
           screen'[v] = Shown(s, client'[v], resident, clients),
           UNCHANGED <<resident, clients, exists, gone, open, ops, ghost, silent, overtaken>>
    PROVE  Placed(v)' /\ InOrder(v)'
<1> DEFINE r == Resolved(x, resident, clients)
<1>1. /\ r \in ClientType /\ r.at = x.at /\ r.painted = x.painted /\ r.missing = x.missing
      /\ r.continued = x.continued /\ (r.readOnly => x.readOnly)
      /\ (x.readOnly /\ HardReadOnly(x, FolderOf[x.at]) => r.readOnly)
      /\ (Attached(x, resident) /\ r.observer => OtherViewed(x.at, clients))
  BY ResolvedFacts
<1>2. client'[v] = r OBVIOUS
<1> HIDE DEF r
<1>3. v \in Viewer /\ InOrder(v) /\ Placed(v) BY TypesOf DEF IInv
<1>4. Placed(v)' BY <1>1, <1>2, <1>3 DEF Placed
<1>5. Counted(v)' <=> Counted(v) BY <1>1, <1>2 DEF Counted
<1>6. Showing(v)' <=> Showing(v) BY <1>1, <1>2, <1>5 DEF Showing
<1>7. Hard(v)' <=> HardReadOnly(x, FolderOf[x.at]) BY <1>1, <1>2 DEF Hard, HardReadOnly
<1>8. Hard(v)' <=> Hard(v) BY <1>1, <1>2 DEF Hard, HardReadOnly
<1>9. HardStands(v)'
  <2> SUFFICES ASSUME v \notin overtaken, Showing(v), Hard(v) PROVE r.readOnly
    BY <1>2, <1>6, <1>8 DEF HardStands
  <2>1. client[v].readOnly /\ Counted(v) BY <1>3 DEF InOrder, HardStands, Showing
  <2>2. HardReadOnly(x, FolderOf[x.at]) BY <1>7, <1>8
  <2> QED BY <1>1, <2>1, <2>2
<1>10. ClickStands(v)' BY <1>1, <1>2, <1>6, <1>7 DEF ClickStands
<1>11. WarmLoad(v)' <=> WarmLoad(v) BY DEF WarmLoad
<1>12. Counted(v) =>
         /\ Shown(s, r, resident, clients).file = s.file
         /\ Shown(s, r, resident, clients).want = s.want
         /\ s.file = r.at => /\ Shown(s, r, resident, clients).readOnly = r.readOnly
                             /\ Shown(s, r, resident, clients).banner <=> OtherViewed(r.at, clients)
  <2>1. Counted(v) => Attached(r, resident) BY <1>1, CountedFacts DEF Attached
  <2> QED BY <1>1, <2>1, ShownFacts
<1>13. Shown(s, r, resident, clients).want = s.want BY <1>1, ShownFacts
<1> DEFINE t == Shown(s, r, resident, clients)
<1>14. screen'[v] = t BY <1>2
<1> HIDE DEF t
<1>15. AskedAnew(v)'
  <2>1. AskedAnew(v) BY <1>3 DEF InOrder
  <2>2. screen'[v].want = screen[v].want /\ client'[v].painted = client[v].painted
        /\ client'[v].at = client[v].at
    BY <1>1, <1>2, <1>13, <1>14 DEF t
  <2> QED BY <1>5, <1>11, <2>1, <2>2 DEF AskedAnew
<1>16. LockFollows(v)'
  <2> SUFFICES ASSUME Counted(v), r.observer PROVE OtherViewed(r.at, clients)
    BY <1>2, <1>5 DEF LockFollows
  <2>1. Attached(x, resident) BY CountedFacts DEF Attached
  <2> QED BY <1>1, <2>1
<1>17. BannerFollows(v)'
  <2> SUFFICES ASSUME Counted(v), t.file = r.at PROVE t.banner <=> OtherViewed(r.at, clients)
    BY <1>2, <1>5, <1>14 DEF BannerFollows
  <2> QED BY <1>12 DEF t
<1>18. ComposerFollows(v)'
  <2> SUFFICES ASSUME Counted(v), t.file = r.at PROVE t.readOnly <=> r.readOnly
    BY <1>2, <1>5, <1>14 DEF ComposerFollows, Showing
  <2> QED BY <1>12 DEF t
<1> QED BY <1>4, <1>9, <1>10, <1>15, <1>16, <1>17, <1>18 DEF InOrder

LEMMA BroadcastKeeps == ASSUME IInv, Broadcast PROVE IInv'
<1>1. UNCHANGED <<resident, clients, exists, gone, usable, open, ops, events, ghost, silent, overtaken>>
  BY DEF Broadcast, KeepHistory
<1>2. owed' = FALSE BY DEF Broadcast
<1>3. ASSUME NEW v \in Viewer \ open PROVE client'[v] = client[v] /\ screen'[v] = screen[v]
  BY <1>3 DEF Broadcast
<1>4. ASSUME NEW v \in open
      PROVE  /\ client'[v] = Resolved(client[v], resident, clients)
             /\ screen'[v] = Shown(screen[v], client'[v], resident, clients)
  <2>1. v \in Viewer BY TypesOf DEF IInv
  <2> QED BY <2>1 DEF Broadcast
<1>5. client' \in [Viewer -> ClientType] /\ screen' \in [Viewer -> ScreenType]
  <2>1. \A v \in Viewer : client[v] \in ClientType /\ screen[v] \in ScreenType BY TypesOf DEF IInv
  <2>2. \A v \in Viewer : client'[v] \in ClientType BY <1>3, <1>4, <2>1, ResolvedFacts
  <2>3. \A v \in Viewer : screen'[v] \in ScreenType BY <1>3, <1>4, <2>1, <2>2, ShownFacts
  <2>4. client' = [v \in Viewer |-> client'[v]] /\ screen' = [v \in Viewer |-> screen'[v]]
    BY DEF Broadcast
  <2> QED BY <2>2, <2>3, <2>4
<1>6. OpsAreLoads' BY <1>1, FewerOps DEF IInv
<1>7. TypeOK' BY <1>1, <1>2, <1>5, <1>6, TypesOf, TypesAre DEF IInv
<1>8. ASSUME NEW v \in open PROVE Placed(v)' /\ InOrder(v)'
  <2>1. client[v] \in ClientType /\ screen[v] \in ScreenType /\ InOrder(v) BY TypesOf DEF IInv
  <2>2. Showing(v) /\ client[v].continued /\ ~HardReadOnly(client[v], FolderOf[client[v].at])
          => ~client[v].readOnly
    BY <2>1 DEF InOrder, ClickStands, Hard
  <2> QED BY <1>1, <1>4, <2>1, <2>2, VerdictKeeps
<1>9. ASSUME NEW v \in Viewer \ open PROVE Placed(v)'
  <2>1. Placed(v) BY DEF IInv
  <2> QED BY <1>1, <1>3, <2>1 DEF Placed
<1> QED BY <1>1, <1>6, <1>7, <1>8, <1>9 DEF IInv

LEMMA ContinueKeeps == ASSUME IInv, NEW v \in Viewer, Continue(v) PROVE IInv'
<1> DEFINE lifted == [screen[v] EXCEPT !.readOnly = FALSE, !.continued = TRUE]
<1>1. v \in open /\ Tick /\ client[v] \in ClientType /\ screen[v] \in ScreenType
  BY TypesOf DEF IInv, Continue
<1>2. UNCHANGED <<resident, clients, exists, gone, usable, open, ops, owed, ghost, silent, overtaken>>
  BY DEF Continue, KeepHistory
<1>3. /\ lifted \in ScreenType /\ lifted.file = screen[v].file /\ lifted.want = screen[v].want
      /\ lifted.banner = screen[v].banner
  BY <1>1 DEF ScreenType
<1>4. events' \in 0..MaxEvents /\ OpsAreLoads' BY <1>1, <1>2, TickType, FewerOps DEF IInv
<1>5. InOrder(v) /\ Placed(v) BY <1>1 DEF IInv
<1>6. CASE StaleClick(client[v], screen[v].file)
  <2>1. client' = client /\ screen' = [screen EXCEPT ![v] = lifted] BY <1>6 DEF Continue
  <2> HIDE DEF lifted
  <2>2. /\ screen' \in [Viewer -> ScreenType] /\ screen'[v] = lifted
        /\ \A w \in Viewer \ {v} : screen'[w] = screen[w]
    BY <1>3, <2>1, TypesOf DEF IInv
  <2>3. TypeOK' BY <1>2, <1>4, <2>1, <2>2, TypesOf, TypesAre DEF IInv
  <2>4. \A w \in Viewer \ {v} : Apart(w) BY <1>2, <2>1, <2>2 DEF Apart
  <2>5. Placed(v)' BY <1>2, <1>5, <2>1 DEF Placed
  <2>6. Counted(v)' <=> Counted(v) BY <1>2, <2>1 DEF Counted
  <2>7. HardStands(v)' /\ ClickStands(v)'
    BY <1>2, <1>5, <2>1, <2>6 DEF InOrder, HardStands, ClickStands, Showing, Hard, HardReadOnly
  <2>8. WarmLoad(v)' <=> WarmLoad(v) BY <1>2 DEF WarmLoad
  <2>9. AskedAnew(v)' BY <1>2, <1>3, <1>5, <2>1, <2>2, <2>6, <2>8 DEF InOrder, AskedAnew
  <2>10. ~owed' /\ ~silent' => LockFollows(v)' /\ BannerFollows(v)'
    BY <1>2, <1>3, <1>5, <2>1, <2>2, <2>6, <2>8 DEF InOrder, LockFollows, BannerFollows
  <2>11. ComposerFollows(v)'
    <3> SUFFICES ASSUME Counted(v), screen[v].file = client[v].at PROVE FALSE
      BY <1>3, <2>1, <2>2, <2>6 DEF ComposerFollows, Showing
    <3>1. Attached(client[v], resident) BY <1>1, CountedFacts
    <3> QED BY <1>6, <3>1 DEF StaleClick
  <2> QED BY <1>4, <2>3, <2>4, <2>5, <2>7, <2>9, <2>10, <2>11, StepKeeps DEF InOrder
<1>7. CASE ~StaleClick(client[v], screen[v].file)
  <2> DEFINE x == Continued(client[v])
  <2>1. /\ client' = [client EXCEPT ![v] = Resolved(x, resident, clients)]
        /\ screen' = [screen EXCEPT ![v] = Shown(lifted, client'[v], resident, clients)]
    BY <1>7 DEF Continue
  <2>2. /\ x \in ClientType /\ x.at = client[v].at /\ x.painted = client[v].painted
        /\ x.missing = client[v].missing /\ (x.readOnly => client[v].readOnly)
        /\ Attached(client[v], resident) =>
             (x.readOnly <=> client[v].readOnly /\ HardReadOnly(client[v], FolderOf[client[v].at]))
    BY <1>1, ContinuedFacts
  <2> HIDE DEF lifted, x
  <2>3. client'[v] = Resolved(x, resident, clients) /\ client' \in [Viewer -> ClientType]
    BY <2>1, <2>2, ResolvedFacts, TypesOf DEF IInv
  <2>4. screen'[v] = Shown(lifted, client'[v], resident, clients) BY <2>1, TypesOf DEF IInv
  <2>5. screen'[v] \in ScreenType /\ screen' \in [Viewer -> ScreenType]
    BY <1>3, <2>1, <2>3, <2>4, ShownFacts, TypesOf DEF IInv
  <2>6. TypeOK' BY <1>2, <1>4, <2>3, <2>5, TypesOf, TypesAre DEF IInv
  <2>7. \A w \in Viewer \ {v} : client'[w] = client[w] /\ screen'[w] = screen[w]
    BY <2>1, TypesOf DEF IInv
  <2>8. \A w \in Viewer \ {v} : Apart(w) BY <1>2, <2>7 DEF Apart
  <2>9. HardReadOnly(x, FolderOf[x.at]) <=> HardReadOnly(client[v], FolderOf[client[v].at])
    BY <2>2 DEF HardReadOnly
  <2>10. Counted(v) => Attached(client[v], resident) BY <1>1, CountedFacts
  <2>11. x.readOnly \in BOOLEAN /\ client[v].readOnly \in BOOLEAN BY <1>1, <2>2 DEF ClientType
  <2>12. HardReadOnly(x, FolderOf[x.at]) /\ Counted(v) => x.readOnly = client[v].readOnly
    BY <2>2, <2>9, <2>10, <2>11
  <2>13. Showing(v) /\ x.continued /\ ~HardReadOnly(x, FolderOf[x.at]) => ~x.readOnly
    BY <2>2, <2>9, <2>10 DEF Showing
  <2>14. Placed(v)' /\ InOrder(v)' BY <1>1, <1>2, <1>3, <2>2, <2>3, <2>4, <2>12, <2>13, VerdictKeeps
  <2> QED BY <1>4, <2>6, <2>8, <2>14, StepKeeps
<1> QED BY <1>6, <1>7

--------------------
(* The pool, the sockets and the folders. *)

LEMMA BuildFailsKeeps == ASSUME IInv, NEW op \in ops, BuildFails(op) PROVE IInv'
<1>1. /\ op.kind = "build" /\ op.file \notin resident /\ ops' = ops \ {op}
      /\ UNCHANGED <<resident, clients, exists, gone, usable, client, open, screen, owed, events,
                     ghost, silent, overtaken>>
  BY DEF BuildFails, KeepHistory
<1>2. op \in OpType /\ op.v \in Viewer BY OpFacts DEF IInv
<1>3. OpsAreLoads' /\ TypeOK' BY <1>1, FewerOps, TypesOf, TypesAre DEF IInv
<1>4. \A w \in Viewer \ {op.v} : Apart(w) BY <1>1 DEF Apart
<1> DEFINE v == op.v
<1>5. Placed(v)'
  <2>1. Placed(v) BY <1>2 DEF IInv
  <2> QED BY <1>1, <2>1 DEF Placed
<1>6. ASSUME v \in open PROVE InOrder(v)'
  <2>1. InOrder(v) BY <1>6 DEF IInv
  <2>2. Counted(v)' <=> Counted(v) BY <1>1 DEF Counted
  <2>3. WarmLoad(v) => WarmLoad(v)' BY <1>1 DEF WarmLoad
  <2>4. HardStands(v)' /\ ClickStands(v)' /\ AskedAnew(v)'
    BY <1>1, <2>1, <2>2, <2>3 DEF InOrder, HardStands, ClickStands, AskedAnew, Showing, Hard,
                                  HardReadOnly
  <2>5. ~owed' /\ ~silent' => LockFollows(v)' /\ BannerFollows(v)'
    BY <1>1, <2>1, <2>2, <2>3 DEF InOrder, LockFollows, BannerFollows
  <2>6. ASSUME ToAttach(v), Showing(v) PROVE ToAttach(v)'
    <3>1. PICK o \in ops : o.v = v /\ o.kind = "build" /\ o.file = client[v].painted
      BY <2>6 DEF ToAttach
    <3>2. client[v].at \in resident BY <1>6, <2>6, CountedFacts DEF Showing
    <3>3. o # op BY <1>1, <2>6, <3>1, <3>2 DEF Showing
    <3> QED BY <1>1, <3>1, <3>3 DEF ToAttach
  <2>7. ~owed' => ComposerFollows(v)'
    BY <1>1, <2>1, <2>2, <2>6 DEF InOrder, ComposerFollows, Showing
  <2> QED BY <2>4, <2>5, <2>7 DEF InOrder
<1>7. v \in open' => InOrder(v)' BY <1>1, <1>6
<1> QED BY <1>2, <1>3, <1>4, <1>5, <1>7, StepKeeps

\* Steps that are nobody's.
LEMMA NobodysKeeps ==
    ASSUME IInv, TypeOK', OpsAreLoads', \A w \in Viewer : Apart(w)
    PROVE  IInv'
<1>1. \A w \in Viewer : Placed(w)' /\ (w \in open' => InOrder(w)') BY OtherKeeps
<1>2. open' \subseteq Viewer BY DEF TypeOK
<1> QED BY <1>1, <1>2 DEF IInv

LEMMA EvictKeeps == ASSUME IInv, NEW f \in File, Evict(f) PROVE IInv'
<1>1. /\ clients[f] = {} /\ resident' = resident \ {f}
      /\ UNCHANGED <<clients, exists, gone, usable, client, open, screen, ops, owed, events,
                     ghost, silent, overtaken>>
  BY DEF Evict, KeepHistory
<1>2. OpsAreLoads' BY <1>1, FewerOps DEF IInv
<1>3. TypeOK' BY <1>1, <1>2, TypesOf, TypesAre DEF IInv
<1>4. \A w \in Viewer : Apart(w) BY <1>1 DEF Apart
<1> QED BY <1>2, <1>3, <1>4, NobodysKeeps

LEMMA FolderChangesKeeps == ASSUME IInv, NEW d \in Folder, FolderChanges(d) PROVE IInv'
<1>1. UNCHANGED <<resident, clients, exists, gone, client, open, screen, ops, owed,
                  ghost, silent, overtaken>>
  BY DEF FolderChanges, KeepHistory
<1>2. OpsAreLoads' BY <1>1, FewerOps DEF IInv
<1>3. usable' \subseteq Folder /\ events' \in 0..MaxEvents
  BY TypesOf, TickType DEF FolderChanges, IInv
<1>4. TypeOK' BY <1>1, <1>2, <1>3, TypesOf, TypesAre DEF IInv
<1>5. \A w \in Viewer : Apart(w) BY <1>1 DEF Apart
<1> QED BY <1>2, <1>4, <1>5, NobodysKeeps

LEMMA CloseKeeps == ASSUME IInv, NEW v \in Viewer, NEW b \in BOOLEAN, Close(v, b) PROVE IInv'
<1>1. /\ v \in open /\ Tick /\ open' = open \ {v} /\ clients' = Moved(v, None, resident)
      /\ client' = (IF b THEN [client EXCEPT ![v] = Retired(client[v])] ELSE client)
      /\ owed' = (owed \/ b \/ client[v].at # None)
      /\ UNCHANGED <<resident, exists, gone, usable, screen, ops, ghost, silent, overtaken>>
  BY TypesOf DEF Close, KeepHistory, IInv
<1>2. client[v] \in ClientType /\ None \notin File BY Shape, TypesOf DEF IInv
<1>3. /\ clients' \in [File -> SUBSET Viewer]
      /\ \A g \in File, w \in Viewer \ {v} : w \in clients'[g] <=> w \in clients[g]
      /\ \A g \in File : v \in clients'[g] => g # client[v].at /\ v \in clients[g]
      /\ \A g \in File : clients[g] = {} => clients'[g] = {}
      /\ client[v].at = None => clients' = clients
  BY <1>1, MovedAway, TypesOf DEF IInv
<1>4. client' \in [Viewer -> ClientType] /\ \A w \in Viewer \ {v} : client'[w] = client[w]
  <2> DEFINE r == Retired(client[v])
  <2>1. r \in ClientType BY <1>2, ClientSteps DEF Retired
  <2> HIDE DEF r
  <2>2. client' = (IF b THEN [client EXCEPT ![v] = r] ELSE client) BY <1>1 DEF r
  <2> QED BY <2>1, <2>2, TypesOf DEF IInv
<1>5. OpsAreLoads' /\ events' \in 0..MaxEvents BY <1>1, FewerOps, TickType DEF IInv
<1>6. owed' \in BOOLEAN BY <1>1, TypesOf DEF IInv
<1>7. TypeOK' BY <1>1, <1>3, <1>4, <1>5, <1>6, TypesOf, TypesAre DEF IInv
<1>8. ASSUME NEW w \in Viewer \ {v} PROVE Apart(w)
  <2>1. clients' = clients \/ owed' BY <1>1, <1>3
  <2>2. \A g \in resident : g \in resident' \/ w \notin clients'[g] BY <1>1
  <2>3. \A g \in File : w \in clients'[g] => w \in clients[g] BY <1>3
  <2> QED BY <1>1, <1>4, <2>1, <2>2, <2>3 DEF Apart
<1>9. Placed(v)'
  <2>1. Placed(v) /\ v \notin ghost BY <1>1, TypesOf DEF IInv
  <2> QED BY <1>3, <2>1 DEF Placed
<1>10. v \notin open' BY <1>1
<1> QED BY <1>5, <1>7, <1>8, <1>9, <1>10, StepKeeps

LEMMA RemoveKeeps == ASSUME IInv, NEW f \in File, NEW b \in BOOLEAN, Remove(f, b) PROVE IInv'
<1> DEFINE V == clients[f]
<1>1. /\ f \in resident /\ Tick /\ resident' = resident \ {f}
      /\ clients' = [clients EXCEPT ![f] = {}]
      /\ exists' = (IF b THEN exists \ {f} ELSE exists)
      /\ gone' = (IF b THEN gone \cup {f} ELSE gone)
      /\ owed' = (owed \/ b) /\ silent' = (silent \/ (~b /\ V # {}))
      /\ UNCHANGED <<usable, open, ops, ghost, overtaken>>
  BY DEF Remove
<1>2. ASSUME NEW v \in Viewer, v \in V /\ v \in open
      PROVE  /\ client'[v] = [Detached(client[v]) EXCEPT !.readOnly = FALSE]
             /\ screen'[v] = IF screen[v].file = f THEN [Blank EXCEPT !.want = screen[v].want]
                             ELSE screen[v]
  BY <1>2 DEF Remove
<1>3. ASSUME NEW v \in Viewer, ~(v \in V /\ v \in open)
      PROVE  client'[v] = client[v] /\ screen'[v] = screen[v]
  BY <1>3 DEF Remove
<1>4. \A v \in Viewer : client[v] \in ClientType /\ screen[v] \in ScreenType BY TypesOf DEF IInv
<1>5. ASSUME NEW v \in Viewer, v \in V /\ v \in open
      PROVE  /\ client'[v] \in ClientType /\ client'[v].at = None
             /\ client'[v].painted = client[v].painted
             /\ screen'[v] \in ScreenType /\ screen'[v].want = screen[v].want
  <2> DEFINE s == [Blank EXCEPT !.want = screen[v].want]
  <2>1. s \in ScreenType /\ s.want = screen[v].want BY <1>4, BlankType DEF ScreenType
  <2> HIDE DEF s
  <2>2. screen'[v] = IF screen[v].file = f THEN s ELSE screen[v] BY <1>2, <1>5 DEF s
  <2>3. screen'[v] \in ScreenType /\ screen'[v].want = screen[v].want BY <1>4, <2>1, <2>2
  <2>4. client'[v] = [Detached(client[v]) EXCEPT !.readOnly = FALSE] BY <1>2, <1>5
  <2>5. /\ [Detached(client[v]) EXCEPT !.readOnly = FALSE] \in ClientType
        /\ [Detached(client[v]) EXCEPT !.readOnly = FALSE].at = None
        /\ [Detached(client[v]) EXCEPT !.readOnly = FALSE].painted = client[v].painted
    BY <1>4, ClientSteps
  <2> DEFINE r == [Detached(client[v]) EXCEPT !.readOnly = FALSE]
  <2> HIDE DEF r
  <2> QED BY <2>3, <2>4, <2>5 DEF r
<1>6. client' \in [Viewer -> ClientType] /\ screen' \in [Viewer -> ScreenType]
  <2>1. client' = [v \in Viewer |-> client'[v]] /\ screen' = [v \in Viewer |-> screen'[v]]
    BY DEF Remove
  <2>2. \A v \in Viewer : client'[v] \in ClientType /\ screen'[v] \in ScreenType BY <1>3, <1>4, <1>5
  <2> QED BY <2>1, <2>2
<1>7. OpsAreLoads' /\ events' \in 0..MaxEvents BY <1>1, FewerOps, TickType DEF IInv
<1>8. /\ clients' \in [File -> SUBSET Viewer] /\ clients'[f] = {}
      /\ \A g \in File \ {f} : clients'[g] = clients[g]
      /\ V = {} => clients' = clients
  BY <1>1, TypesOf DEF IInv
<1>9. owed' \in BOOLEAN /\ silent' \in BOOLEAN /\ exists' \subseteq File /\ gone' \subseteq File
  <2>1. owed \in BOOLEAN /\ silent \in BOOLEAN /\ exists \subseteq File /\ gone \subseteq File
    BY TypesOf DEF IInv
  <2> HIDE DEF V
  <2> QED BY <1>1, <2>1
<1>10. TypeOK'
  <2>1. \A g \in File \ resident' : clients'[g] = {} BY <1>1, <1>8, TypesOf DEF IInv
  <2> QED BY <1>1, <1>6, <1>7, <1>8, <1>9, <2>1, TypesOf, TypesAre DEF IInv
<1> HIDE DEF V
<1>11. ASSUME NEW v \in Viewer, ~(v \in V /\ v \in open) PROVE Apart(v)
  <2>1. client'[v] = client[v] /\ screen'[v] = screen[v] BY <1>3, <1>11
  <2>2. \A g \in File : v \in clients'[g] => v \in clients[g] BY <1>8
  <2>3. \A g \in resident : g \in resident' \/ v \notin clients'[g] BY <1>1, <1>8
  <2>4. exists \cup gone \subseteq exists' \cup gone' BY <1>1
  <2>5. clients' = clients \/ owed' \/ silent' BY <1>1, <1>8
  <2>6. (owed => owed') /\ (silent => silent') BY <1>1
  <2> QED BY <1>1, <2>1, <2>2, <2>3, <2>4, <2>5, <2>6 DEF Apart
<1>12. ASSUME NEW v \in Viewer, v \in V /\ v \in open PROVE Placed(v)' /\ InOrder(v)'
  <2>1. Placed(v) /\ InOrder(v) /\ v \notin ghost BY <1>12, TypesOf DEF IInv
  <2>2. client[v].at = f BY <1>12, <2>1 DEF Placed, V
  <2>3. Placed(v)' BY <1>8, <2>1, <2>2 DEF Placed
  <2>4. ~Counted(v)' BY <1>5, <1>12 DEF Counted
  <2>5. AskedAnew(v)' BY <1>1, <1>5, <1>12, <2>1, <2>4 DEF InOrder, AskedAnew
  <2>6. BannerFollows(v)' BY <2>4 DEF BannerFollows
  <2> QED BY <1>5, <1>12, <2>3, <2>5, <2>6, Unpainted
<1>13. \A v \in Viewer : Placed(v)' /\ (v \in open' => InOrder(v)') BY <1>11, <1>12, OtherKeeps
<1>14. open' \subseteq Viewer BY <1>10, TypesOf DEF TypeOK
<1> QED BY <1>7, <1>10, <1>13, <1>14 DEF IInv

--------------------
(* The rest of the handlers, after their awaits. *)

\* The rest of a step in which v's record and screen change and the change is
\* announced: what is left to show are the verdict, and what v still asked for.
LEMMA AnnouncedKeeps ==
    ASSUME IInv, NEW v \in Viewer, NEW x \in ClientType, NEW s \in ScreenType,
           client' = [client EXCEPT ![v] = x], screen' = [screen EXCEPT ![v] = s],
           clients' \in [File -> SUBSET Viewer], \A g \in File \ resident' : clients'[g] = {},
           \A g \in File, w \in Viewer \ {v} : w \in clients'[g] <=> w \in clients[g],
           resident \subseteq resident', resident' \subseteq File, owed' = TRUE,
           exists \subseteq exists', exists' \subseteq File, gone' = gone,
           usable' \subseteq Folder, open' = open, events' = events, silent' = silent,
           ghost' \in {ghost, ghost \cup {v}}, v \in open => ghost' = ghost,
           overtaken' \in {overtaken, overtaken \cup {v}},
           OpsAreLoads', \A o \in ops : o.v # v => o \in ops',
           Placed(v)', v \in open => HardStands(v)' /\ ClickStands(v)' /\ AskedAnew(v)'
    PROVE  IInv'
<1>1. \A w \in Viewer \ {v} : client'[w] = client[w] /\ screen'[w] = screen[w] BY TypesOf DEF IInv
<1>2. client' \in [Viewer -> ClientType] /\ screen' \in [Viewer -> ScreenType] BY TypesOf DEF IInv
<1>3. ghost' \subseteq Viewer \ open' /\ overtaken' \subseteq Viewer BY TypesOf DEF IInv
<1>4. TypeOK' BY <1>2, <1>3, TypesOf, TypesAre DEF IInv
<1>5. ASSUME NEW w \in Viewer \ {v} PROVE Apart(w) BY <1>1 DEF Apart
<1>6. v \in open' => InOrder(v)' BY DEF InOrder
<1> QED BY <1>4, <1>5, <1>6, StepKeeps

\* The screen after a paint waits for another load, if for any.
LEMMA PaintedScreen ==
    ASSUME NEW s \in ScreenType, NEW x \in ClientType, NEW f \in File, NEW b \in BOOLEAN, NEW m
    PROVE  /\ Locks(Paints(s, f, x, b), f, m) \in ScreenType
           /\ Locks(Paints(s, f, x, b), f, m).want # f
           /\ Locks(Paints(s, f, x, b), f, m).want \in {None, s.want}
           /\ ~m => Locks(Paints(s, f, x, b), f, m) = Paints(s, f, x, b)
<1> DEFINE p == Paints(s, f, x, b)
<1>1. p \in ScreenType /\ p.want = IF s.want = f THEN None ELSE s.want BY PaintsFacts
<1>2. f # None BY Shape
<1> HIDE DEF p
<1>3. Locks(p, f, m) \in ScreenType /\ Locks(p, f, m).want = p.want /\ (~m => Locks(p, f, m) = p)
  BY <1>1, LocksFacts
<1> QED BY <1>1, <1>2, <1>3 DEF p

\* The record a paint leaves, before it is known whether the session is attached.
PaintRecord(op) ==
    [client[op.v] EXCEPT
       !.readOnly = op.folder \in ReadOnlyFolder \/ FolderMissing(op) \/ DetectConflict(op.file),
       !.observer = DetectConflict(op.file), !.pending = op.folder, !.painted = op.file,
       !.missing = IF FolderMissing(op) THEN op.folder ELSE None]

LEMMA PaintRecordFacts ==
    ASSUME IInv, NEW op \in ops, op.kind # "create"
    PROVE  /\ PaintRecord(op) \in ClientType
           /\ PaintRecord(op).at = client[op.v].at /\ PaintRecord(op).painted = op.file
           /\ PaintRecord(op).readOnly <=>
                op.folder \in ReadOnlyFolder \/ FolderMissing(op) \/ DetectConflict(op.file)
           /\ PaintRecord(op).observer <=> DetectConflict(op.file)
           /\ PaintRecord(op).continued = client[op.v].continued
           /\ PaintRecord(op).missing # None <=> FolderMissing(op)
<1> DEFINE conflict == DetectConflict(op.file)
<1> DEFINE missing == FolderMissing(op)
<1> DEFINE ro == op.folder \in ReadOnlyFolder \/ missing \/ conflict
<1> DEFINE m == IF missing THEN op.folder ELSE None
<1>1. /\ op.v \in Viewer /\ client[op.v] \in ClientType /\ op.file \in File /\ op.folder \in Folder
  BY OpFacts, TypesOf DEF IInv
<1>2. conflict \in BOOLEAN /\ missing \in BOOLEAN /\ ro \in BOOLEAN
  BY DEF DetectConflict, FolderMissing
<1>3. m \in Folder \cup {None} /\ (m # None <=> missing) BY <1>1, Shape
<1>4. PaintRecord(op) = [client[op.v] EXCEPT !.readOnly = ro, !.observer = conflict,
                                             !.pending = op.folder, !.painted = op.file,
                                             !.missing = m]
  BY DEF PaintRecord
<1> HIDE DEF m, ro, missing, conflict
<1>5. /\ PaintRecord(op) \in ClientType
      /\ PaintRecord(op).at = client[op.v].at /\ PaintRecord(op).painted = op.file
      /\ PaintRecord(op).readOnly = ro /\ PaintRecord(op).observer = conflict
      /\ PaintRecord(op).continued = client[op.v].continued /\ PaintRecord(op).missing = m
  BY <1>1, <1>2, <1>3, <1>4 DEF ClientType
<1> QED BY <1>3, <1>5 DEF ro, missing, conflict

LEMMA PaintKeeps == ASSUME IInv, NEW op \in ops, Paint(op) PROVE IInv'
<1> DEFINE v == op.v
<1> DEFINE f == op.file
<1> DEFINE x == PaintRecord(op)
<1> DEFINE conflict == DetectConflict(f)
<1> DEFINE missing == FolderMissing(op)
<1> DEFINE t == Locks(Paints(screen[v], f, x, conflict), f, missing)
<1> DEFINE s == IF v \in open THEN t ELSE screen[v]
<1>1. /\ op.kind = "meta" /\ v \in Viewer /\ f \in File /\ op.folder = FolderOf[f]
      /\ client[v] \in ClientType /\ screen[v] \in ScreenType /\ Placed(v)
  BY OpFacts, TypesOf DEF IInv, Paint
<1>2. UNCHANGED <<resident, exists, gone, usable, open, events, silent, overtaken>> BY DEF Paint
<1>3. /\ x \in ClientType /\ x.at = client[v].at /\ x.painted = f
      /\ x.readOnly <=> op.folder \in ReadOnlyFolder \/ missing \/ conflict
      /\ x.observer <=> conflict
      /\ x.continued = client[v].continued
      /\ x.missing # None <=> missing
  BY <1>1, PaintRecordFacts
<1>4. conflict \in BOOLEAN /\ (f \in resident => ~conflict) BY DEF DetectConflict
<1>5. /\ t \in ScreenType /\ t.want # f /\ t.want \in {None, screen[v].want}
      /\ ~missing => t = Paints(screen[v], f, x, conflict)
  BY <1>1, <1>3, <1>4, PaintedScreen
<1>6. screen' = [screen EXCEPT ![v] = s]
  <2>1. screen' = IF v \in open THEN [screen EXCEPT ![v] = t] ELSE screen BY DEF Paint, PaintRecord
  <2> HIDE DEF t
  <2> QED BY <1>1, <2>1, TypesOf DEF IInv
<1>7. s \in ScreenType /\ (v \in open => s = t) BY <1>1, <1>5
<1>8. screen'[v] = s BY <1>1, <1>6, TypesOf DEF IInv
<1>9. None \notin File BY Shape
<1>10. \A k \in ops : k.v = v /\ k.kind = "meta" /\ k.warm /\ (op.warm = FALSE) => k # op OBVIOUS
\* What was asked for since is not what was painted.
<1>11. ASSUME v \in open, screen'[v].want \in File
       PROVE  /\ screen'[v].want = screen[v].want /\ screen[v].want # f
              /\ screen[v].want \in exists' \cup gone'
              /\ Counted(v) /\ client[v].at = screen[v].want => WarmLoad(v)
  <2>1. AskedAnew(v) BY <1>11 DEF IInv, InOrder
  <2>2. screen'[v].want = screen[v].want /\ screen[v].want # f BY <1>5, <1>7, <1>8, <1>9, <1>11
  <2> QED BY <1>2, <1>11, <2>1, <2>2 DEF AskedAnew
<1> HIDE DEF t, s
<1>12. CASE op.warm
  <2> DEFINE e == [x EXCEPT !.at = f]
  <2>1. /\ client' = [client EXCEPT ![v] = e] /\ clients' = Moved(v, f, resident)
        /\ owed' = TRUE /\ ops' = ops \ {op}
        /\ ghost' = (IF v \in open THEN ghost ELSE ghost \cup {v})
    BY <1>12 DEF Paint, PaintRecord
  <2> HIDE DEF x
  <2>2. /\ e \in ClientType /\ e.at = f /\ e.painted = f /\ e.readOnly = x.readOnly
        /\ e.continued = x.continued /\ e.missing = x.missing
    BY <1>1, <1>3 DEF ClientType
  <2> HIDE DEF e
  <2>3. /\ clients' \in [File -> SUBSET Viewer]
        /\ \A g \in File, w \in Viewer \ {v} : w \in clients'[g] <=> w \in clients[g]
        /\ v \in clients'[f] => f \in resident \/ v \in clients[f]
        /\ \A g \in File \ {f} : v \in clients'[g] => g # client[v].at /\ v \in clients[g]
        /\ \A g \in File : clients[g] = {} /\ ~(g = f /\ f \in resident) => clients'[g] = {}
    BY <1>1, <2>1, MovedTo, TypesOf DEF IInv
  <2>4. client'[v] = e BY <1>1, <2>1, TypesOf DEF IInv
  <2>5. OpsAreLoads' BY <2>1, FewerOps DEF IInv
  <2>6. \A g \in File \ resident : clients[g] = {} BY TypesOf DEF IInv
  <2>7. \A g \in File \ resident' : clients'[g] = {} BY <1>2, <2>3, <2>6
  <2>8. v \in clients'[f] => f \in resident BY <1>1, <2>3, <2>6
  <2>9. Placed(v)'
    <3> SUFFICES ASSUME NEW g \in File, v \in clients'[g], v \notin ghost'
                 PROVE  v \in open' /\ client'[v].at = g /\ g \in resident'
      BY DEF Placed
    <3>1. v \in open /\ v \notin ghost BY <2>1
    <3>2. g = f BY <1>1, <2>3, <3>1 DEF Placed
    <3> QED BY <1>2, <2>2, <2>4, <2>8, <3>1, <3>2
  <2>10. ASSUME v \in open PROVE HardStands(v)' /\ ClickStands(v)' /\ AskedAnew(v)'
    <3>1. Counted(v)' => ~conflict BY <1>4, <2>2, <2>4, <2>8 DEF Counted
    <3>2. Hard(v)' <=> op.folder \in ReadOnlyFolder \/ missing
      BY <1>1, <1>3, <2>2, <2>4 DEF Hard, HardReadOnly
    <3> HIDE DEF missing, conflict
    <3>3. HardStands(v)' BY <1>3, <2>2, <2>4, <3>2 DEF HardStands
    <3>4. ClickStands(v)' BY <1>3, <2>2, <2>4, <3>1, <3>2 DEF ClickStands, Showing
    <3>5. AskedAnew(v)' BY <1>11, <2>2, <2>4, <2>10 DEF AskedAnew
    <3> QED BY <3>3, <3>4, <3>5
  <2>11. ghost' \in {ghost, ghost \cup {v}} /\ (v \in open => ghost' = ghost) BY <2>1
  <2>12. \A o \in ops : o.v # v => o \in ops' BY <2>1
  <2> QED BY <1>1, <1>2, <1>6, <1>7, <2>1, <2>2, <2>3, <2>5, <2>7, <2>9, <2>10, <2>11, <2>12,
             TypesOf, AnnouncedKeeps DEF IInv
<1>13. CASE ~op.warm /\ missing
  <2> DEFINE d == Detached(x)
  <2> DEFINE e == [d EXCEPT !.readOnly = TRUE]
  <2>1. /\ client' = [client EXCEPT ![v] = e] /\ clients' = Moved(v, None, resident)
        /\ owed' = TRUE /\ ops' = ops \ {op} /\ ghost' = ghost
    BY <1>13 DEF Paint, PaintRecord
  <2> HIDE DEF x
  <2>2. d \in ClientType /\ d.at = None /\ d.painted = f BY <1>3, ClientSteps
  <2> HIDE DEF d
  <2>3. e \in ClientType /\ e.at = None /\ e.painted = f BY <2>2 DEF ClientType
  <2> HIDE DEF e
  <2>4. OpsAreLoads' BY <2>1, FewerOps DEF IInv
  <2>5. \A o \in ops : o.v # v => o \in ops' BY <2>1
  <2>6. v \in open /\ s.want \in File => s.want \in exists \cup gone /\ e.painted # s.want
    BY <1>2, <1>8, <1>11, <2>3
  <2> QED BY <1>1, <1>2, <1>6, <1>7, <2>1, <2>3, <2>4, <2>5, <2>6, TypesOf, GoneKeeps DEF IInv
<1>14. CASE ~op.warm /\ ~missing
  <2> DEFINE o == [op EXCEPT !.kind = "build"]
  <2>1. /\ client' = [client EXCEPT ![v] = x] /\ ops' = (ops \ {op}) \cup {o}
        /\ clients' = clients /\ owed' = owed /\ ghost' = ghost
    BY <1>14 DEF Paint, PaintRecord
  <2> HIDE DEF x
  <2>2. /\ o \in OpType /\ o.v = v /\ o.kind = "build" /\ o.file = f /\ o.folder = op.folder
    BY OpFacts DEF IInv, OpType
  <2> HIDE DEF o
  <2>3. OpsAreLoads' BY <1>1, <2>1, <2>2, OneMoreOp DEF IInv
  <2>4. client' \in [Viewer -> ClientType] /\ screen' \in [Viewer -> ScreenType]
    BY <1>1, <1>3, <1>6, <1>7, <2>1, TypesOf DEF IInv
  <2>5. TypeOK' BY <1>2, <2>1, <2>3, <2>4, TypesOf, TypesAre DEF IInv
  <2>6. \A w \in Viewer \ {v} : client'[w] = client[w] /\ screen'[w] = screen[w]
    BY <1>6, <2>1, TypesOf DEF IInv
  <2>7. \A w \in Viewer \ {v} : Apart(w) BY <1>2, <2>1, <2>6 DEF Apart
  <2>8. client'[v] = x BY <1>1, <2>1, TypesOf DEF IInv
  <2>9. Placed(v)' BY <1>1, <1>2, <1>3, <2>1, <2>8 DEF Placed
  <2>10. ASSUME v \in open PROVE InOrder(v)'
    <3>1. InOrder(v) BY <2>10 DEF IInv
    <3>2. Counted(v)' <=> Counted(v) BY <1>3, <2>1, <2>8 DEF Counted
    <3>3. Counted(v) /\ client[v].at = f => ~conflict BY <1>4, <2>10, CountedFacts
    <3>4. WarmLoad(v) => WarmLoad(v)' BY <1>14, <2>1 DEF WarmLoad
    <3>5. Hard(v)' /\ Showing(v)' => op.folder \in ReadOnlyFolder
      BY <1>1, <1>3, <1>14, <2>8 DEF Hard, HardReadOnly, Showing
    <3>6. Showing(v)' => ~conflict /\ client'[v].at = f /\ Counted(v)
      BY <1>3, <2>8, <3>2, <3>3 DEF Showing
    <3>7. op.folder \in ReadOnlyFolder /\ Showing(v)' => Hard(v)'
      BY <1>1, <2>8, <3>6 DEF Hard, HardReadOnly
    <3>8. HardStands(v)' BY <1>3, <2>8, <3>5 DEF HardStands
    <3>9. ClickStands(v)' BY <1>3, <1>14, <2>8, <3>6, <3>7 DEF ClickStands
    <3>10. AskedAnew(v)' BY <1>3, <1>11, <2>8, <2>10, <3>2, <3>4 DEF AskedAnew
    <3>11. LockFollows(v)' BY <1>3, <2>8, <3>6 DEF LockFollows, Showing
    <3>12. ASSUME ~owed', ~silent' PROVE BannerFollows(v)'
      <4> SUFFICES ASSUME Counted(v), screen'[v].file = client[v].at, screen'[v].want = None
                   PROVE  WarmLoad(v)' \/ (screen'[v].banner <=> OtherViewed(client[v].at, clients))
        BY <1>3, <2>1, <2>8, <3>2 DEF BannerFollows
      <4>1. screen'[v] = Paints(screen[v], f, x, conflict) BY <1>5, <1>7, <1>8, <1>14, <2>10
      <4>2. CASE screen[v].want = f
        <5>1. screen'[v].file = f /\ screen'[v].banner = conflict
          BY <1>1, <1>3, <1>4, <4>1, <4>2, PaintsFacts
        <5>2. WarmLoad(v) BY <1>1, <3>1, <4>2, <5>1 DEF InOrder, AskedAnew
        <5> QED BY <3>4, <5>2
      <4>3. CASE screen[v].want # f
        <5>1. screen'[v] = screen[v] BY <1>1, <1>3, <1>4, <4>1, <4>3, PaintsFacts
        <5>2. BannerFollows(v) BY <1>2, <2>1, <3>1, <3>12 DEF InOrder
        <5>3. WarmLoad(v) \/ (screen[v].banner <=> OtherViewed(client[v].at, clients))
          BY <5>1, <5>2 DEF BannerFollows
        <5> QED BY <3>4, <5>1, <5>3
      <4> QED BY <4>2, <4>3
    <3>13. ComposerFollows(v)'
      <4>1. ToAttach(v)' BY <1>3, <2>1, <2>2, <2>8 DEF ToAttach
      <4> QED BY <4>1 DEF ComposerFollows
    <3> QED BY <3>8, <3>9, <3>10, <3>11, <3>12, <3>13 DEF InOrder
  <2> QED BY <1>1, <1>2, <2>3, <2>5, <2>7, <2>9, <2>10, StepKeeps
<1> QED BY <1>12, <1>13, <1>14

\* The record of a cold attach: a hard rule locks it, a click during the build
\* unlocks the rest.
LEMMA AtAttachFacts ==
    ASSUME IInv, NEW op \in ops, op.kind # "create"
    PROVE  /\ AtAttach(op, client[op.v]) \in ClientType
           /\ AtAttach(op, client[op.v]).at = op.file
           /\ AtAttach(op, client[op.v]).painted = client[op.v].painted
           /\ AtAttach(op, client[op.v]).missing = client[op.v].missing
           /\ AtAttach(op, client[op.v]).continued = client[op.v].continued
           /\ op.folder \in ReadOnlyFolder => AtAttach(op, client[op.v]).readOnly
           /\ op.folder \notin ReadOnlyFolder /\ client[op.v].continued
                => ~AtAttach(op, client[op.v]).readOnly
<1> DEFINE x == client[op.v]
<1> DEFINE ro == op.folder \in ReadOnlyFolder \/ (x.observer /\ ~x.continued)
<1>1. op.v \in Viewer /\ x \in ClientType /\ op.file \in File BY OpFacts, TypesOf DEF IInv
<1>2. ro \in BOOLEAN BY <1>1 DEF ClientType
<1>3. AtAttach(op, x) = [x EXCEPT !.at = op.file, !.readOnly = ro] BY DEF AtAttach
<1> HIDE DEF ro, x
<1>4. /\ AtAttach(op, x) \in ClientType /\ AtAttach(op, x).at = op.file
      /\ AtAttach(op, x).painted = x.painted /\ AtAttach(op, x).missing = x.missing
      /\ AtAttach(op, x).continued = x.continued /\ AtAttach(op, x).readOnly = ro
  BY <1>1, <1>2, <1>3 DEF ClientType
<1> QED BY <1>4 DEF ro, x

LEMMA AttachKeeps == ASSUME IInv, NEW op \in ops, Attach(op) PROVE IInv'
<1> DEFINE v == op.v
<1> DEFINE f == op.file
<1> DEFINE R == resident \cup {f}
<1>1. /\ op.kind = "build" /\ v \in Viewer /\ f \in File /\ op.folder = FolderOf[f]
      /\ client[v] \in ClientType /\ screen[v] \in ScreenType /\ Placed(v)
  BY OpFacts, TypesOf DEF IInv, Attach
<1>2. /\ resident' = R /\ ops' = ops \ {op}
      /\ UNCHANGED <<exists, gone, usable, open, events, ghost, silent>>
  BY DEF Attach
<1>3. OpsAreLoads' BY <1>2, FewerOps DEF IInv
<1>4. R \subseteq File /\ resident \subseteq R /\ f \in R BY <1>1, TypesOf DEF IInv
<1>5. CASE StillPainted(op)
  <2> DEFINE a == AtAttach(op, client[v])
  <2> DEFINE x == Resolved(a, R, clients')
  <2> DEFINE s == Shown(screen[v], client'[v], R, clients')
  <2>1. v \in open /\ client[v].painted = f BY <1>5 DEF StillPainted
  <2>2. /\ clients' = Moved(v, f, R) /\ owed' = TRUE
        /\ client' = [client EXCEPT ![v] = x]
        /\ screen' = [screen EXCEPT ![v] = s]
    BY <1>5, TypesOf DEF Attach, IInv
  <2>3. /\ a \in ClientType /\ a.at = f /\ a.painted = f /\ a.missing = client[v].missing
        /\ a.continued = client[v].continued
        /\ op.folder \in ReadOnlyFolder => a.readOnly
        /\ op.folder \notin ReadOnlyFolder /\ client[v].continued => ~a.readOnly
    BY <1>1, <2>1, AtAttachFacts
  <2> HIDE DEF a
  <2>4. /\ x \in ClientType /\ x.at = f /\ x.painted = f /\ x.missing = client[v].missing
        /\ x.continued = client[v].continued /\ (x.readOnly => a.readOnly)
        /\ a.readOnly /\ HardReadOnly(a, FolderOf[a.at]) => x.readOnly
    BY <2>3, ResolvedFacts
  <2> HIDE DEF x
  <2>5. client'[v] = x BY <1>1, <2>2, TypesOf DEF IInv
  <2>6. s \in ScreenType /\ s.want = screen[v].want BY <1>1, <2>4, <2>5, ShownFacts
  <2> HIDE DEF s
  <2>7. screen'[v] = s BY <1>1, <2>2, TypesOf DEF IInv
  <2>8. /\ clients' \in [File -> SUBSET Viewer]
        /\ \A g \in File, w \in Viewer \ {v} : w \in clients'[g] <=> w \in clients[g]
        /\ v \in clients'[f] => f \in R \/ v \in clients[f]
        /\ \A g \in File \ {f} : v \in clients'[g] => g # client[v].at /\ v \in clients[g]
        /\ \A g \in File : clients[g] = {} /\ ~(g = f /\ f \in R) => clients'[g] = {}
    <3>1. clients \in [File -> SUBSET Viewer] /\ client \in [Viewer -> ClientType]
      BY TypesOf DEF IInv
    <3>2. clients' = Moved(v, f, R) BY <2>2
    <3> HIDE DEF R, v, f
    <3> QED BY <1>1, <3>1, <3>2, MovedTo
  <2>9. \A g \in File \ resident' : clients'[g] = {} BY <1>2, <1>4, <2>8, TypesOf DEF IInv
  <2>10. Placed(v)'
    <3>1. v \notin ghost BY <2>1, TypesOf DEF IInv
    <3>2. \A g \in File : v \in clients'[g] => g = f BY <1>1, <2>8, <3>1 DEF Placed
    <3> QED BY <1>2, <1>4, <2>1, <2>4, <2>5, <3>2 DEF Placed
  <2>11. overtaken' = IF client[v].missing # None THEN overtaken \cup {v} ELSE overtaken
    BY <1>5 DEF Attach
  <2>12. HardStands(v)'
    <3> SUFFICES ASSUME v \notin overtaken', Hard(v)' PROVE x.readOnly BY <2>5 DEF HardStands
    <3>1. client[v].missing = None BY <2>11
    <3>2. FolderOf[f] \in ReadOnlyFolder BY <2>4, <2>5, <3>1 DEF Hard, HardReadOnly
    <3>3. HardReadOnly(a, FolderOf[a.at]) /\ a.readOnly BY <1>1, <2>3, <3>2 DEF HardReadOnly
    <3> QED BY <2>4, <3>3
  <2>13. ClickStands(v)'
    <3> SUFFICES ASSUME x.continued, ~Hard(v)' PROVE ~x.readOnly BY <2>5 DEF ClickStands
    <3>1. FolderOf[f] \notin ReadOnlyFolder BY <2>4, <2>5 DEF Hard, HardReadOnly
    <3> QED BY <1>1, <2>3, <2>4, <3>1
  <2>14. AskedAnew(v)'
    <3>1. AskedAnew(v) BY <2>1 DEF IInv, InOrder
    <3> QED BY <1>2, <2>1, <2>4, <2>5, <2>6, <2>7, <3>1 DEF AskedAnew
  <2>15. \A o \in ops : o.v # v => o \in ops' BY <1>2
  <2>16. overtaken' \in {overtaken, overtaken \cup {v}} BY <2>11
  <2> QED BY <1>1, <1>2, <1>3, <1>4, <2>2, <2>4, <2>6, <2>8, <2>9, <2>10, <2>12, <2>13, <2>14,
             <2>15, <2>16, TypesOf, AnnouncedKeeps DEF IInv
<1>6. CASE ~StillPainted(op)
  <2>1. UNCHANGED <<clients, client, screen, owed, overtaken>> BY <1>6 DEF Attach
  <2>2. TypeOK' BY <1>2, <1>3, <1>4, <2>1, TypesOf, TypesAre DEF IInv
  <2>3. \A w \in Viewer \ {v} : Apart(w) BY <1>2, <2>1 DEF Apart
  <2>4. Placed(v)' BY <1>1, <1>2, <2>1 DEF Placed
  <2>5. ASSUME v \in open PROVE InOrder(v)'
    <3>1. InOrder(v) BY <2>5 DEF IInv
    <3>2. Counted(v)' <=> Counted(v) BY <2>1 DEF Counted
    <3>3. WarmLoad(v) => WarmLoad(v)' BY <1>1, <1>2 DEF WarmLoad
    <3>4. HardStands(v)' /\ ClickStands(v)' /\ AskedAnew(v)'
      BY <1>2, <2>1, <3>1, <3>2, <3>3 DEF InOrder, HardStands, ClickStands, AskedAnew, Showing,
                                          Hard, HardReadOnly
    <3>5. ~owed' /\ ~silent' => LockFollows(v)' /\ BannerFollows(v)'
      BY <1>2, <2>1, <3>1, <3>2, <3>3 DEF InOrder, LockFollows, BannerFollows
    <3>6. client[v].painted # f BY <1>6, <2>5 DEF StillPainted
    <3>7. ToAttach(v) => ToAttach(v)' BY <1>2, <2>1, <3>6 DEF ToAttach
    <3>8. ~owed' => ComposerFollows(v)'
      BY <2>1, <3>1, <3>2, <3>7 DEF InOrder, ComposerFollows, Showing
    <3> QED BY <3>4, <3>5, <3>8 DEF InOrder
  <2> QED BY <1>1, <1>2, <1>3, <2>2, <2>3, <2>4, <2>5, StepKeeps
<1> QED BY <1>5, <1>6

LEMMA CreatedKeeps == ASSUME IInv, NEW op \in ops, NEW f \in Fresh, Created(op, f) PROVE IInv'
<1> DEFINE v == op.v
<1> DEFINE d == op.folder
<1> DEFINE R == resident \cup {f}
<1> DEFINE occupied == OtherViewed(f, clients')
<1> DEFINE ro == occupied \/ d \in ReadOnlyFolder
<1> DEFINE k == Detached(client[v])
<1> DEFINE x == [k EXCEPT !.at = f, !.missing = None, !.pending = d, !.painted = f,
                          !.readOnly = ro, !.observer = occupied]
<1> DEFINE w == [screen[v] EXCEPT !.want = f]
<1> DEFINE p == Paints(w, f, x, occupied)
<1> DEFINE s == IF v \in open /\ screen[v].want = "new" THEN p ELSE screen[v]
<1>1. /\ v \in Viewer /\ f \in File /\ d \in Folder /\ FolderOf[f] = d
      /\ client[v] \in ClientType /\ screen[v] \in ScreenType /\ Placed(v)
  BY OpFacts, TypesOf, Shape DEF IInv, Created, CreatesFile
<1>2. /\ f \notin exists \cup gone /\ gone' = gone
      /\ resident' = R /\ exists' = exists \cup {f} /\ usable' = usable \cup {d}
      /\ ops' = ops \ {op} /\ owed' = TRUE
      /\ UNCHANGED <<open, events, silent, overtaken>>
      /\ ghost' = (IF v \in open THEN ghost ELSE ghost \cup {v})
  BY DEF Created, CreatesFile
<1>3. OpsAreLoads' BY <1>2, FewerOps DEF IInv
<1>4. R \subseteq File /\ resident \subseteq R /\ f \in R /\ usable' \subseteq Folder /\ exists' \subseteq File
  BY <1>1, <1>2, TypesOf DEF IInv
<1>5. clients' = Moved(v, f, R) BY DEF Created
<1>6. client' = [client EXCEPT ![v] = x] BY DEF Created
<1>7. screen' = IF v \in open /\ screen[v].want = "new" THEN [screen EXCEPT ![v] = p] ELSE screen
  BY <1>1, TypesOf DEF Created, IInv
<1>8. screen' = [screen EXCEPT ![v] = s]
  <2> HIDE DEF p
  <2> QED BY <1>1, <1>7, TypesOf DEF IInv
<1>9. occupied \in BOOLEAN /\ ro \in BOOLEAN BY DEF OtherViewed
<1>10. k \in ClientType /\ k.continued = FALSE BY <1>1 DEF Detached, ClientType
<1> HIDE DEF k, occupied, ro
<1>11. /\ x \in ClientType /\ x.at = f /\ x.painted = f /\ x.missing = None
       /\ x.readOnly = ro /\ x.continued = FALSE
  BY <1>1, <1>9, <1>10 DEF ClientType
<1>12. w \in ScreenType /\ w.want = f BY <1>1 DEF ScreenType
<1> HIDE DEF x, w
<1>13. p \in ScreenType /\ p.want = None BY <1>1, <1>9, <1>11, <1>12, PaintsFacts
<1> HIDE DEF p
<1>14. s \in ScreenType /\ s.want \in {None, screen[v].want} BY <1>1, <1>13
<1> HIDE DEF s
<1>15. client'[v] = x /\ screen'[v] = s BY <1>1, <1>6, <1>8, TypesOf DEF IInv
<1>16. /\ clients' \in [File -> SUBSET Viewer]
       /\ \A g \in File, u \in Viewer \ {v} : u \in clients'[g] <=> u \in clients[g]
       /\ v \in clients'[f] => f \in R \/ v \in clients[f]
       /\ \A g \in File \ {f} : v \in clients'[g] => g # client[v].at /\ v \in clients[g]
       /\ \A g \in File : clients[g] = {} /\ ~(g = f /\ f \in R) => clients'[g] = {}
  <2>1. clients \in [File -> SUBSET Viewer] /\ client \in [Viewer -> ClientType] BY TypesOf DEF IInv
  <2> HIDE DEF R, v
  <2> QED BY <1>1, <1>5, <2>1, MovedTo
<1>17. \A g \in File \ resident' : clients'[g] = {} BY <1>2, <1>4, <1>16, TypesOf DEF IInv
<1>18. Placed(v)'
  <2> SUFFICES ASSUME NEW g \in File, v \in clients'[g], v \notin ghost'
               PROVE  v \in open' /\ client'[v].at = g /\ g \in resident'
    BY DEF Placed
  <2>1. v \in open /\ v \notin ghost BY <1>2
  <2>2. g = f BY <1>1, <1>16, <2>1 DEF Placed
  <2> QED BY <1>2, <1>4, <1>11, <1>15, <2>1, <2>2
<1>19. ASSUME v \in open PROVE HardStands(v)' /\ ClickStands(v)' /\ AskedAnew(v)'
  <2>1. Hard(v)' => ro BY <1>1, <1>11, <1>15 DEF Hard, HardReadOnly, ro
  <2>2. HardStands(v)' /\ ClickStands(v)' BY <1>11, <1>15, <2>1 DEF HardStands, ClickStands
  <2>3. AskedAnew(v) BY <1>19 DEF IInv, InOrder
  <2>4. AskedAnew(v)'
    <3> SUFFICES ASSUME s.want \in File PROVE s.want \in exists' \cup gone' /\ s.want # f
      BY <1>11, <1>15 DEF AskedAnew
    <3>1. s.want = screen[v].want BY <1>14, Shape
    <3>2. s.want \in exists \cup gone BY <2>3, <3>1 DEF AskedAnew
    <3> QED BY <1>2, <3>2
  <2> QED BY <2>2, <2>4
<1>20. \A o \in ops : o.v # v => o \in ops' BY <1>2
<1>21. ghost' \in {ghost, ghost \cup {v}} /\ (v \in open => ghost' = ghost) BY <1>2
<1> QED BY <1>1, <1>2, <1>3, <1>4, <1>6, <1>8, <1>11, <1>14, <1>16, <1>17, <1>18, <1>19, <1>20,
           <1>21, TypesOf, AnnouncedKeeps DEF IInv

--------------------
(* The results. *)

LEMMA InitHolds == Init => IInv
<1> SUFFICES ASSUME Init PROVE IInv OBVIOUS
<1>1. /\ resident = {} /\ clients = [f \in File |-> {}]
      /\ exists = File \ Fresh /\ gone = {} /\ usable = Folder
      /\ client = [v \in Viewer |-> NoClient] /\ open = Viewer
      /\ screen = [v \in Viewer |-> Blank]
      /\ ops = {} /\ owed = FALSE /\ events = 0
      /\ ghost = {} /\ silent = FALSE /\ overtaken = {}
  BY DEF Init
<1>2. TypeOK
  <2>1. client \in [Viewer -> ClientType] /\ screen \in [Viewer -> ScreenType] BY <1>1, BlankType
  <2>2. events \in 0..MaxEvents BY <1>1, Shape
  <2> QED BY <1>1, <2>1, <2>2, Shape DEF TypeOK, ClientType, ScreenType
<1>3. OpsAreLoads BY <1>1 DEF OpsAreLoads
<1>4. \A v \in Viewer : Placed(v) BY <1>1 DEF Placed
<1>5. ASSUME NEW v \in open PROVE InOrder(v)
  <2>1. client[v].at = None /\ screen[v].want = None BY <1>1, <1>5 DEF NoClient, Blank
  <2>2. ~Counted(v) /\ ~Showing(v) /\ screen[v].want \notin File BY <2>1, Shape DEF Counted, Showing
  <2> QED BY <2>2 DEF InOrder, HardStands, ClickStands, AskedAnew, LockFollows, BannerFollows,
                      ComposerFollows, Showing
<1> QED BY <1>2, <1>3, <1>4, <1>5 DEF IInv

LEMMA StutterKeeps == IInv /\ UNCHANGED vars => IInv'
<1> SUFFICES ASSUME IInv, UNCHANGED vars PROVE IInv' OBVIOUS
<1>1. UNCHANGED <<resident, clients, exists, gone, usable, client, open, screen, ops, owed, events,
                  ghost, silent, overtaken>>
  BY DEF vars
<1>2. OpsAreLoads' BY <1>1, FewerOps DEF IInv
<1>3. TypeOK' BY <1>1, <1>2, TypesOf, TypesAre DEF IInv
<1>4. \A w \in Viewer : Apart(w) BY <1>1 DEF Apart
<1> QED BY <1>2, <1>3, <1>4, NobodysKeeps

LEMMA NextKeeps == IInv /\ Next => IInv'
<1> SUFFICES ASSUME IInv, Next PROVE IInv' OBVIOUS
<1>1. CASE Broadcast BY <1>1, BroadcastKeeps
<1>2. CASE \E v \in Viewer, f \in File : Join(v, f) \/ Switch(v, f) BY <1>2, JoinKeeps, SwitchKeeps
<1>3. CASE \E v \in Viewer : Leave(v) \/ Continue(v) BY <1>3, LeaveKeeps, ContinueKeeps
<1>4. CASE \E v \in Viewer, d \in Folder : New(v, d) BY <1>4, NewKeeps
<1>5. CASE \E op \in ops : Paint(op) \/ Attach(op) \/ BuildFails(op)
  BY <1>5, PaintKeeps, AttachKeeps, BuildFailsKeeps
<1>6. CASE \E op \in ops, f \in Fresh : Created(op, f) BY <1>6, CreatedKeeps
<1>7. CASE \E f \in File : Evict(f) \/ \E b \in BOOLEAN : Remove(f, b)
  BY <1>7, EvictKeeps, RemoveKeeps
<1>8. CASE \E v \in Viewer, b \in BOOLEAN : Close(v, b) BY <1>8, CloseKeeps
<1>9. CASE \E d \in Folder : FolderChanges(d) BY <1>9, FolderChangesKeeps
<1> QED BY <1>1, <1>2, <1>3, <1>4, <1>5, <1>6, <1>7, <1>8, <1>9 DEF Next

\* Every viewer is counted, painted, locked and unlocked in order, whatever loads,
\* leaves, closes, deletions and folder changes overlap (the session_load, session_new,
\* session_leave and folder_conflict_continue handlers of server/src/index.ts).
THEOREM InvariantHolds == Spec => []IInv
<1>1. Init => IInv BY InitHolds
<1>2. IInv /\ [Next]_vars => IInv' BY NextKeeps, StutterKeeps
<1> QED BY <1>1, <1>2, PTL DEF Spec

\* The records of the connections, the screens and the pool keep their shape, and only a
\* session of the pool counts viewers.
THEOREM TypesHold == Spec => []TypeOK
<1>1. IInv => TypeOK BY DEF IInv
<1> QED BY <1>1, InvariantHolds, PTL

\* A session counts as its viewers only connections that are open and attached to it, but
\* for the handlers that attach a socket after it closed: no conflict with a viewer who
\* is not there (addClient, removeClient, switchClientSession and the close handler).
THEOREM NobodyIsAPhantom == Spec => []NoPhantomUnlessGhost
<1>1. IInv => NoPhantomUnlessGhost
  <2> SUFFICES ASSUME IInv, NEW f \in File, NEW v \in clients[f] \ ghost
               PROVE  v \in open /\ client[v].at = f /\ f \in resident
    BY DEF NoPhantomUnlessGhost
  <2>1. v \in Viewer BY TypesOf DEF IInv
  <2> QED BY <2>1 DEF IInv, Placed
<1> QED BY <1>1, InvariantHolds, PTL

\* Once the throttled broadcast went out, a conflict lock has a conflict behind it, the
\* banner is the state of the folder, and the composer is locked exactly when the server
\* would refuse the message (resolveFolderConflictState, sendFolderConflict).
THEOREM TheScreenTellsTheTruth == Spec => []ScreenIsTrue
<1>1. IInv => ScreenIsTrue
  <2> SUFFICES ASSUME IInv PROVE ScreenIsTrue OBVIOUS
  <2>1. \A v \in open : InOrder(v) BY DEF IInv
  <2>2. LockHasReason BY <2>1 DEF LockHasReason, InOrder, LockFollows
  <2>3. BannerIsTrue
    <3>1. \A v \in open : Idle(v) => ~WarmLoad(v) BY DEF Idle, WarmLoad
    <3> QED BY <2>1, <3>1 DEF BannerIsTrue, InOrder, BannerFollows
  <2>4. ComposerAgrees
    <3>1. \A v \in open : Idle(v) => ~ToAttach(v) BY DEF Idle, ToAttach
    <3> QED BY <2>1, <3>1 DEF ComposerAgrees, InOrder, ComposerFollows, Showing
  <2> QED BY <2>2, <2>3, <2>4 DEF ScreenIsTrue
<1> QED BY <1>1, InvariantHolds, PTL

\* A click to continue lifts the lock of a conflict whenever it lands, and never that of a
\* readOnly pattern or of a folder that is gone, overtaken loads aside
\* (continueFolderConflict, and the readOnly the late attach of session_load derives again).
THEOREM VerdictsStand == Spec => []VerdictStands
<1>1. IInv => VerdictStands
  <2> SUFFICES ASSUME IInv PROVE VerdictStands OBVIOUS
  <2>1. \A v \in open : HardStands(v) /\ ClickStands(v) BY DEF IInv, InOrder
  <2>2. HardRuleHolds BY <2>1 DEF HardRuleHolds, HardStands, Showing, Hard
  <2>3. ContinueIsHonoured BY <2>1 DEF ContinueIsHonoured, ClickStands, Showing, Hard
  <2> QED BY <2>2, <2>3 DEF VerdictStands
<1> QED BY <1>1, InvariantHolds, PTL

--------------------
(* A slow load never drags the socket back. *)

\* The step leaves u where it is, takes it off, or attaches it to what was painted last.
NotDragged(u) == client'[u].at \notin {None, client[u].at} => client'[u].at = client'[u].painted

LEMMA OneMoves ==
    ASSUME TypeOK, NEW v \in Viewer, NEW x, client' = [client EXCEPT ![v] = x],
           x.at \in {None, client[v].at} \/ x.at = x.painted
    PROVE  \A u \in Viewer : NotDragged(u)
<1>1. client'[v] = x /\ \A u \in Viewer \ {v} : client'[u] = client[u] BY TypesOf
<1> QED BY <1>1 DEF NotDragged

LEMMA RequestsDrag ==
    ASSUME IInv, NEW v \in Viewer,
           (\E f \in File : Join(v, f) \/ Switch(v, f)) \/ Leave(v) \/ Continue(v)
           \/ (\E d \in Folder : New(v, d)) \/ (\E b \in BOOLEAN : Close(v, b))
    PROVE  \A u \in Viewer : NotDragged(u)
<1>1. TypeOK /\ client[v] \in ClientType BY TypesOf DEF IInv
<1>2. ASSUME NEW x, client' = [client EXCEPT ![v] = x], x.at \in {None, client[v].at}
      PROVE  \A u \in Viewer : NotDragged(u)
  BY <1>1, <1>2, OneMoves
<1>3. ASSUME client' = client PROVE \A u \in Viewer : NotDragged(u) BY <1>3 DEF NotDragged
<1>4. ASSUME NEW f \in File, Join(v, f) PROVE \A u \in Viewer : NotDragged(u)
  <2>1. client' = [client EXCEPT ![v] = LoadStarts(client[v])] BY ONLY <1>4 DEF Join
  <2> QED BY <1>1, <1>2, <2>1, ClientSteps
<1>5. ASSUME NEW f \in File, Switch(v, f) PROVE \A u \in Viewer : NotDragged(u)
  <2> DEFINE x == IF screen[v].file # None THEN Left(client[v]) ELSE client[v]
  <2>1. client' = [client EXCEPT ![v] = LoadStarts(x)] BY <1>1, <1>5, TypesOf DEF Switch
  <2>2. x \in ClientType /\ x.at \in {None, client[v].at} BY <1>1, ClientSteps
  <2> HIDE DEF x
  <2>3. LoadStarts(x).at = x.at BY <2>2, ClientSteps
  <2> QED BY <1>2, <2>1, <2>2, <2>3
<1>6. ASSUME Leave(v) PROVE \A u \in Viewer : NotDragged(u)
  <2>1. client' = client \/ client' = [client EXCEPT ![v] = Left(client[v])]
    BY <1>1, <1>6, TypesOf DEF Leave
  <2> QED BY <1>1, <1>2, <1>3, <2>1, ClientSteps
<1>7. ASSUME Continue(v) PROVE \A u \in Viewer : NotDragged(u)
  <2> DEFINE x == Continued(client[v])
  <2> DEFINE r == Resolved(x, resident, clients)
  <2>1. client' = client \/ client' = [client EXCEPT ![v] = r] BY <1>7 DEF Continue
  <2>2. x \in ClientType /\ x.at = client[v].at BY <1>1, ContinuedFacts
  <2> HIDE DEF x
  <2>3. r.at = x.at BY <2>2, ResolvedFacts
  <2> HIDE DEF r
  <2> QED BY <1>2, <1>3, <2>1, <2>2, <2>3
<1>8. ASSUME NEW d \in Folder, New(v, d) PROVE \A u \in Viewer : NotDragged(u)
  <2> DEFINE x == [client[v] EXCEPT !.painted = None]
  <2>1. client' = [client EXCEPT ![v] = x] BY <1>1, <1>8, TypesOf DEF New
  <2>2. x.at = client[v].at BY <1>1 DEF ClientType
  <2> HIDE DEF x
  <2> QED BY <1>2, <2>1, <2>2
<1>9. ASSUME NEW b \in BOOLEAN, Close(v, b) PROVE \A u \in Viewer : NotDragged(u)
  <2>1. client' = client \/ client' = [client EXCEPT ![v] = Detached(client[v])]
    BY <1>1, <1>9, TypesOf DEF Close, Retired
  <2> QED BY <1>1, <1>2, <1>3, <2>1, ClientSteps
<1> QED BY <1>4, <1>5, <1>6, <1>7, <1>8, <1>9

LEMMA LoadsDrag ==
    ASSUME IInv, NEW op \in ops,
           Paint(op) \/ Attach(op) \/ BuildFails(op) \/ (\E f \in Fresh : Created(op, f))
    PROVE  \A u \in Viewer : NotDragged(u)
<1> DEFINE v == op.v
<1>1. TypeOK /\ v \in Viewer /\ client[v] \in ClientType BY OpFacts, TypesOf DEF IInv
<1>2. ASSUME NEW x, client' = [client EXCEPT ![v] = x],
             x.at \in {None, client[v].at} \/ x.at = x.painted
      PROVE  \A u \in Viewer : NotDragged(u)
  BY <1>1, <1>2, OneMoves
<1>3. ASSUME client' = client PROVE \A u \in Viewer : NotDragged(u) BY <1>3 DEF NotDragged
<1>4. ASSUME Paint(op) PROVE \A u \in Viewer : NotDragged(u)
  <2> DEFINE x == PaintRecord(op)
  <2> DEFINE d == Detached(x)
  <2> DEFINE e == [x EXCEPT !.at = op.file]
  <2> DEFINE l == [d EXCEPT !.readOnly = TRUE]
  <2>1. \/ client' = [client EXCEPT ![v] = e]
        \/ client' = [client EXCEPT ![v] = l]
        \/ client' = [client EXCEPT ![v] = x]
    BY <1>4 DEF Paint, PaintRecord
  <2>2. x \in ClientType /\ x.at = client[v].at /\ x.painted = op.file
    BY <1>4, PaintRecordFacts DEF Paint
  <2> HIDE DEF x
  <2>3. d \in ClientType /\ d.at = None BY <2>2, ClientSteps
  <2> HIDE DEF d
  <2>4. e.at = e.painted /\ l.at = None BY <2>2, <2>3 DEF ClientType
  <2> HIDE DEF e, l
  <2> QED BY <1>2, <2>1, <2>2, <2>4
<1>5. ASSUME Attach(op) PROVE \A u \in Viewer : NotDragged(u)
  <2>1. CASE StillPainted(op)
    <3> DEFINE a == AtAttach(op, client[v])
    <3> DEFINE x == Resolved(a, resident \cup {op.file}, Moved(v, op.file, resident \cup {op.file}))
    <3>1. client' = [client EXCEPT ![v] = x] /\ client[v].painted = op.file
      BY <1>1, <1>5, <2>1, TypesOf DEF Attach, StillPainted
    <3>2. a \in ClientType /\ a.at = op.file /\ a.painted = client[v].painted
      BY <1>5, AtAttachFacts DEF Attach
    <3> HIDE DEF a
    <3>3. x.at = a.at /\ x.painted = a.painted BY <3>2, ResolvedFacts
    <3> HIDE DEF x
    <3> QED BY <1>2, <3>1, <3>2, <3>3
  <2>2. CASE ~StillPainted(op) BY <1>3, <1>5, <2>2 DEF Attach
  <2> QED BY <2>1, <2>2
<1>6. ASSUME BuildFails(op) PROVE \A u \in Viewer : NotDragged(u) BY <1>3, <1>6 DEF BuildFails
<1>7. ASSUME NEW f \in Fresh, Created(op, f) PROVE \A u \in Viewer : NotDragged(u)
  <2> DEFINE k == Detached(client[v])
  <2> DEFINE occupied == OtherViewed(f, clients')
  <2> DEFINE ro == occupied \/ op.folder \in ReadOnlyFolder
  <2> DEFINE x == [k EXCEPT !.at = f, !.missing = None, !.pending = op.folder, !.painted = f,
                            !.readOnly = ro, !.observer = occupied]
  <2>1. client' = [client EXCEPT ![v] = x] BY ONLY <1>7 DEF Created
  <2>2. k \in ClientType BY <1>1, ClientSteps
  <2> HIDE DEF k, occupied, ro
  <2>3. x.at = x.painted BY <2>2 DEF ClientType
  <2> HIDE DEF x
  <2> QED BY <1>2, <2>1, <2>3
<1> QED BY <1>4, <1>5, <1>6, <1>7

\* However long an agent takes to build, its load attaches only the viewer on whose screen
\* that session still is (the late attach guard of session_load).
THEOREM NobodyIsDraggedBack == Spec => NeverDraggedBack
<1>1. ASSUME IInv, [Next]_vars PROVE \A u \in Viewer : NotDragged(u)
  <2>1. CASE UNCHANGED vars BY <2>1 DEF vars, NotDragged
  <2>2. CASE Broadcast
    <3>1. ASSUME NEW u \in Viewer PROVE client'[u].at = client[u].at
      <4>1. client[u] \in ClientType BY <1>1, TypesOf DEF IInv
      <4>2. client'[u] = client[u] \/ client'[u] = Resolved(client[u], resident, clients)
        BY <2>2 DEF Broadcast
      <4> QED BY <4>1, <4>2, ResolvedFacts
    <3> QED BY <3>1 DEF NotDragged
  <2>3. CASE \E f \in File : Evict(f) \/ \E b \in BOOLEAN : Remove(f, b)
    <3>1. ASSUME NEW u \in Viewer PROVE client'[u].at \in {None, client[u].at}
      <4>1. client[u] \in ClientType BY <1>1, TypesOf DEF IInv
      <4>2. client'[u] = client[u] \/ client'[u] = [Detached(client[u]) EXCEPT !.readOnly = FALSE]
        BY <2>3 DEF Evict, Remove
      <4>3. [Detached(client[u]) EXCEPT !.readOnly = FALSE].at = None BY <4>1, ClientSteps
      <4> DEFINE r == [Detached(client[u]) EXCEPT !.readOnly = FALSE]
      <4> HIDE DEF r
      <4> QED BY <4>2, <4>3 DEF r
    <3> QED BY <3>1 DEF NotDragged
  <2>4. CASE \E d \in Folder : FolderChanges(d) BY <2>4 DEF FolderChanges, NotDragged
  <2>5. CASE \E v \in Viewer, f \in File : Join(v, f) \/ Switch(v, f) BY <1>1, <2>5, RequestsDrag
  <2>6. CASE \E v \in Viewer : Leave(v) \/ Continue(v) BY <1>1, <2>6, RequestsDrag
  <2>7. CASE \E v \in Viewer, d \in Folder : New(v, d) BY <1>1, <2>7, RequestsDrag
  <2>8. CASE \E v \in Viewer, b \in BOOLEAN : Close(v, b) BY <1>1, <2>8, RequestsDrag
  <2>9. CASE \E op \in ops : Paint(op) \/ Attach(op) \/ BuildFails(op) BY <1>1, <2>9, LoadsDrag
  <2>10. CASE \E op \in ops, f \in Fresh : Created(op, f) BY <1>1, <2>10, LoadsDrag
  <2> QED BY <1>1, <2>1, <2>2, <2>3, <2>4, <2>5, <2>6, <2>7, <2>8, <2>9, <2>10 DEF Next
<1>2. IInv /\ [Next]_vars =>
        [\A v \in Viewer : client'[v].at \notin {None, client[v].at} =>
                             client'[v].at = client'[v].painted]_vars
  BY <1>1 DEF NotDragged
<1> QED BY <1>2, InvariantHolds, PTL DEF Spec, NeverDraggedBack

--------------------
(* ClientSession: one viewer's client over sockets that fail. *)
\* The types, field by field.  A request for a new session names a fresh one.
Place == Maybe(Session)
ClientState ==
    [sock : {"none", "opening", "open"}, retry : BOOLEAN, asleep : BOOLEAN,
     probe : {"no", "tick", "return"}, shown : Place, fresh : BOOLEAN, building : BOOLEAN,
     pending : Place, queued : Maybe(Request), resume : Place, hydrated : Place,
     abandoned : SUBSET Session, loading : BOOLEAN, resyncing : BOOLEAN,
     creating : BOOLEAN, loadTimer : BOOLEAN, createTimer : BOOLEAN]
ServerState == [at : Place, painted : Place, work : Seq(Request), cold : SUBSET Session]
Bubble == {"none", "sending", "failed", "plain"}
Asking(f) == f.t \in {"load", "new"}
Names(f) == f.t \in {"load", "new", "message", "created", "history", "ack"}
UpFrame == {f \in Frames : /\ f.t \in {"load", "new", "message", "leave", "ping"}
                           /\ Names(f) => f.s \in Session
                           /\ f.t = "new" => f.s \in NewSession
                           /\ f.t = "message" => f.m \in Message}
DownFrame == {f \in Frames : /\ f.t \in {"created", "history", "ready", "ack", "error",
                                         "destroyed", "pong"}
                             /\ Names(f) => f.s \in Session
                             /\ f.t = "ack" => f.m \in Message}
ClientFormed ==
    /\ c \in ClientState
    /\ view \in [Message -> Bubble] /\ timers \subseteq Message
    /\ saved \in [Session -> SUBSET Message] /\ home \in [Message -> Place]
    /\ want \in Place
WireFormed ==
    /\ srv \in ServerState /\ live \in BOOLEAN
    /\ up \in Seq(UpFrame) /\ down \in Seq(DownFrame)
    /\ log \in [Session -> Maybe(SUBSET Message)]
    /\ \A i \in 1..Len(srv.work) : srv.work[i].do = "new" => srv.work[i].of \in NewSession

\* Without an open socket nothing is on its way, and nothing probes it; a retry is
\* armed only where there is none.
SocketInv ==
    /\ c.retry => c.sock = "none"
    /\ c.probe # "no" => c.sock = "open"
    /\ c.sock # "open" => up = <<>> /\ down = <<>> /\ srv = NoSocket

\* Nobody names a session that does not exist.
Known == {s \in Session : log[s] # Null}
ClientKnown ==
    /\ Old \subseteq Known
    /\ {c.shown, c.pending, c.resume, want} \subseteq Maybe(Known)
    /\ c.abandoned \subseteq Known
    /\ c.queued # Null => /\ c.queued.of \in Known
                          /\ c.queued.do = "new" => c.queued.of \in NewSession
    /\ \A m \in Message : home[m] \in Maybe(Known)
WireKnown ==
    /\ {srv.at, srv.painted} \subseteq Maybe(Known) /\ srv.cold \subseteq Known
    /\ \A i \in 1..Len(srv.work) : srv.work[i].of \in Known
    /\ \A i \in 1..Len(up) : Names(up[i]) => up[i].s \in Known
    /\ \A i \in 1..Len(down) : Names(down[i]) => down[i].s \in Known
BaseInv == ClientFormed /\ WireFormed /\ SocketInv /\ ClientKnown /\ WireKnown

\* What a session accepted it keeps.
Grows == /\ log' \in [Session -> Maybe(SUBSET Message)]
         /\ \A s \in Known : s \in Known' /\ log[s] \subseteq log'[s]

\* disconnect leaves no timer and no socket.
LEMMA TornDownIs ==
    ASSUME NEW d \in ClientState,
           NEW e, e = TornDown(d)
    PROVE  /\ e \in ClientState /\ e.sock = "none" /\ e.retry = FALSE /\ e.asleep = d.asleep
           /\ e.probe = "no" /\ e.shown = d.shown /\ e.fresh = d.fresh
           /\ e.building = d.building /\ e.pending = d.pending /\ e.queued = d.queued
           /\ e.resume = d.resume /\ e.hydrated = d.hydrated /\ e.abandoned = d.abandoned
           /\ e.loading = FALSE /\ e.resyncing = d.resyncing /\ e.creating = FALSE
           /\ e.loadTimer = FALSE /\ e.createTimer = FALSE
BY DEF TornDown, ClientState

\* A socket is opened; the store stays.
LEMMA KeptIs ==
    ASSUME NEW d \in ClientState,
           NEW e, e = [TornDown(d) EXCEPT !.sock = "opening", !.asleep = FALSE]
    PROVE  /\ e \in ClientState /\ e.sock = "opening" /\ e.retry = FALSE /\ e.asleep = FALSE
           /\ e.probe = "no" /\ e.shown = d.shown /\ e.fresh = d.fresh
           /\ e.building = d.building /\ e.pending = d.pending /\ e.queued = d.queued
           /\ e.resume = d.resume /\ e.hydrated = d.hydrated /\ e.abandoned = d.abandoned
           /\ e.loading = FALSE /\ e.resyncing = d.resyncing /\ e.creating = FALSE
           /\ e.loadTimer = FALSE /\ e.createTimer = FALSE
<1> DEFINE t == TornDown(d)
<1>1. /\ t \in ClientState /\ t.sock = "none" /\ t.retry = FALSE /\ t.asleep = d.asleep
      /\ t.probe = "no" /\ t.shown = d.shown /\ t.fresh = d.fresh /\ t.building = d.building
      /\ t.pending = d.pending /\ t.queued = d.queued /\ t.resume = d.resume
      /\ t.hydrated = d.hydrated /\ t.abandoned = d.abandoned /\ t.loading = FALSE
      /\ t.resyncing = d.resyncing /\ t.creating = FALSE /\ t.loadTimer = FALSE
      /\ t.createTimer = FALSE
  BY TornDownIs
<1>2. e = [t EXCEPT !.sock = "opening", !.asleep = FALSE] OBVIOUS
<1> HIDE DEF t
<1>3. /\ e \in ClientState /\ e.sock = "opening" /\ e.retry = t.retry /\ e.asleep = FALSE
      /\ e.probe = t.probe /\ e.shown = t.shown /\ e.fresh = t.fresh
      /\ e.building = t.building /\ e.pending = t.pending /\ e.queued = t.queued
      /\ e.resume = t.resume /\ e.hydrated = t.hydrated /\ e.abandoned = t.abandoned
      /\ e.loading = t.loading /\ e.resyncing = t.resyncing /\ e.creating = t.creating
      /\ e.loadTimer = t.loadTimer /\ e.createTimer = t.createTimer
  BY <1>1, <1>2 DEF ClientState
<1> QED BY <1>1, <1>3

\* A socket is opened; the store starts blank.
LEMMA StartsBlankIs ==
    ASSUME NEW d \in ClientState,
           NEW e, e = [[TornDown(d) EXCEPT !.sock = "opening", !.asleep = FALSE]
                   EXCEPT !.shown = Null, !.fresh = FALSE, !.building = FALSE,
                          !.resyncing = FALSE]
    PROVE  /\ e \in ClientState /\ e.sock = "opening" /\ e.retry = FALSE /\ e.asleep = FALSE
           /\ e.probe = "no" /\ e.shown = Null /\ e.fresh = FALSE /\ e.building = FALSE
           /\ e.pending = d.pending /\ e.queued = d.queued /\ e.resume = d.resume
           /\ e.hydrated = d.hydrated /\ e.abandoned = d.abandoned /\ e.loading = FALSE
           /\ e.resyncing = FALSE /\ e.creating = FALSE /\ e.loadTimer = FALSE
           /\ e.createTimer = FALSE
<1> DEFINE t == [TornDown(d) EXCEPT !.sock = "opening", !.asleep = FALSE]
<1>1. /\ t \in ClientState /\ t.sock = "opening" /\ t.retry = FALSE /\ t.asleep = FALSE
      /\ t.probe = "no" /\ t.shown = d.shown /\ t.fresh = d.fresh /\ t.building = d.building
      /\ t.pending = d.pending /\ t.queued = d.queued /\ t.resume = d.resume
      /\ t.hydrated = d.hydrated /\ t.abandoned = d.abandoned /\ t.loading = FALSE
      /\ t.resyncing = d.resyncing /\ t.creating = FALSE /\ t.loadTimer = FALSE
      /\ t.createTimer = FALSE
  BY KeptIs
<1>2. e = [t EXCEPT !.shown = Null, !.fresh = FALSE, !.building = FALSE, !.resyncing = FALSE]
  OBVIOUS
<1>3. Null \in Place BY DEF Place, Maybe
<1> HIDE DEF t
<1>4. /\ e \in ClientState /\ e.sock = t.sock /\ e.retry = t.retry /\ e.asleep = t.asleep
      /\ e.probe = t.probe /\ e.shown = Null /\ e.fresh = FALSE /\ e.building = FALSE
      /\ e.pending = t.pending /\ e.queued = t.queued /\ e.resume = t.resume
      /\ e.hydrated = t.hydrated /\ e.abandoned = t.abandoned /\ e.loading = t.loading
      /\ e.resyncing = FALSE /\ e.creating = t.creating /\ e.loadTimer = t.loadTimer
      /\ e.createTimer = t.createTimer
  BY <1>1, <1>2, <1>3 DEF ClientState
<1> QED BY <1>1, <1>4

LEMMA OpenedIs ==
    ASSUME NEW d \in ClientState,
           NEW e, e = Opened(d)
    PROVE  /\ e \in ClientState /\ e.sock = "open" /\ e.retry = d.retry
           /\ e.asleep = d.asleep /\ e.probe = d.probe /\ e.shown = d.shown
           /\ e.fresh = d.fresh /\ e.building = d.building /\ e.pending = d.pending
           /\ e.queued = Null /\ e.resume = Null /\ e.hydrated = d.hydrated
           /\ e.abandoned = {} /\ e.loading = d.loading /\ e.resyncing = d.resyncing
           /\ e.creating = d.creating /\ e.loadTimer = d.loadTimer
           /\ e.createTimer = d.createTimer
BY DEF Opened, ClientState, Place, Maybe

LEMMA ClosedIs ==
    ASSUME NEW d \in ClientState,
           NEW e, e = Closed(d)
    PROVE  /\ e \in ClientState /\ e.sock = "none" /\ e.retry = TRUE /\ e.asleep = d.asleep
           /\ e.probe = "no" /\ e.shown = d.shown /\ e.fresh = d.fresh
           /\ e.building = d.building /\ e.pending = d.pending /\ e.queued = d.queued
           /\ e.resume = d.resume /\ e.hydrated = d.hydrated /\ e.abandoned = d.abandoned
           /\ e.loading = FALSE /\ e.resyncing = (d.resyncing \/ d.shown # Null)
           /\ e.creating = FALSE /\ e.loadTimer = FALSE /\ e.createTimer = d.createTimer
BY DEF Closed, ClientState

LEMMA CondemnedIs ==
    ASSUME NEW d \in ClientState,
           NEW e, e = Condemned(d)
    PROVE  /\ e \in ClientState /\ e.sock = "none" /\ e.retry = d.retry
           /\ e.asleep = d.asleep /\ e.probe = "no" /\ e.shown = d.shown
           /\ e.fresh = d.fresh /\ e.building = d.building /\ e.pending = d.pending
           /\ e.queued = d.queued /\ e.resume = d.resume /\ e.hydrated = d.hydrated
           /\ e.abandoned = d.abandoned /\ e.loading = FALSE /\ e.resyncing = d.resyncing
           /\ e.creating = FALSE /\ e.loadTimer = d.loadTimer
           /\ e.createTimer = d.createTimer
BY DEF Condemned, ClientState

LEMMA BlankedIs ==
    ASSUME NEW d \in ClientState,
           NEW e, e = Blanked(d)
    PROVE  /\ e \in ClientState /\ e.sock = d.sock /\ e.retry = d.retry
           /\ e.asleep = d.asleep /\ e.probe = d.probe /\ e.shown = Null
           /\ e.fresh = d.fresh /\ e.building = FALSE /\ e.pending = d.pending
           /\ e.queued = d.queued /\ e.resume = Null /\ e.hydrated = Null
           /\ e.abandoned = d.abandoned /\ e.loading = d.loading /\ e.resyncing = FALSE
           /\ e.creating = FALSE /\ e.loadTimer = d.loadTimer
           /\ e.createTimer = d.createTimer
BY DEF Blanked, ClientState, Place, Maybe

LEMMA ClearedIs ==
    ASSUME NEW d \in ClientState,
           NEW e, e = Cleared(d)
    PROVE  /\ e \in ClientState /\ e.sock = d.sock /\ e.retry = d.retry
           /\ e.asleep = d.asleep /\ e.probe = "no" /\ e.shown = d.shown
           /\ e.fresh = d.fresh /\ e.building = FALSE /\ e.pending = d.pending
           /\ e.queued = d.queued /\ e.resume = d.resume /\ e.hydrated = d.hydrated
           /\ e.abandoned = d.abandoned /\ e.loading = FALSE /\ e.resyncing = FALSE
           /\ e.creating = FALSE /\ e.loadTimer = FALSE /\ e.createTimer = FALSE
BY DEF Cleared, ClientState

LEMMA IdleIs ==
           /\ IdleClient \in ClientState /\ IdleClient.sock = "none" /\ IdleClient.retry = FALSE
           /\ IdleClient.asleep = FALSE /\ IdleClient.probe = "no" /\ IdleClient.shown = Null
           /\ IdleClient.fresh = FALSE /\ IdleClient.building = FALSE /\ IdleClient.pending = Null
           /\ IdleClient.queued = Null /\ IdleClient.resume = Null /\ IdleClient.hydrated = Null
           /\ IdleClient.abandoned = {} /\ IdleClient.loading = FALSE /\ IdleClient.resyncing = FALSE
           /\ IdleClient.creating = FALSE /\ IdleClient.loadTimer = FALSE /\ IdleClient.createTimer = FALSE
BY DEF IdleClient, ClientState, Place, Maybe
LEMMA AbandonIs ==
    ASSUME NEW d \in ClientState, NEW x \in Place, NEW b \in BOOLEAN
    PROVE  Abandon(d, x, b) \in SUBSET Session
BY DEF Abandon, ClientState, Place, Maybe

\* What each action does to the client.
LEMMA JoinsClient ==
    ASSUME c \in ClientState, NEW s \in Old, Joins(s)
    PROVE  /\ c' \in ClientState /\ c'.sock = c.sock /\ c'.retry = c.retry
           /\ c'.asleep = c.asleep /\ c'.probe = c.probe /\ c'.shown = c.shown
           /\ c'.fresh = c.fresh /\ c'.building = FALSE /\ c'.pending = s
           /\ c'.queued = (IF c.sock = "open" THEN Null ELSE Load(s))
           /\ c'.resume = c.resume /\ c'.hydrated = c.hydrated
           /\ c'.abandoned = Abandon(c, s, FALSE) /\ c'.loading = TRUE
           /\ c'.resyncing = c.resyncing /\ c'.creating = c.creating /\ c'.loadTimer = TRUE
           /\ c'.createTimer = c.createTimer
<1>1. s \in Place /\ (IF c.sock = "open" THEN Null ELSE Load(s)) \in Maybe(Request)
  BY DEF Place, Maybe, Load, Request, Session
<1>2. Abandon(c, s, FALSE) \in SUBSET Session BY <1>1, AbandonIs
<1> QED BY <1>1, <1>2 DEF Joins, Asked, ClientState

LEMMA SwitchesClient ==
    ASSUME c \in ClientState, NEW s \in Old, Switches(s)
    PROVE  /\ c' \in ClientState /\ c'.sock = c.sock /\ c'.retry = c.retry
           /\ c'.asleep = c.asleep /\ c'.probe = c.probe /\ c'.shown = Null
           /\ c'.fresh = c.fresh /\ c'.building = FALSE /\ c'.pending = s
           /\ c'.queued = (IF c.sock = "open" THEN Null ELSE Load(s)) /\ c'.resume = Null
           /\ c'.hydrated = Null /\ c'.abandoned = Abandon(c, s, FALSE) /\ c'.loading = TRUE
           /\ c'.resyncing = FALSE /\ c'.creating = FALSE /\ c'.loadTimer = TRUE
           /\ c'.createTimer = FALSE
<1>1. s \in Place /\ Null \in Place /\ (IF c.sock = "open" THEN Null ELSE Load(s)) \in Maybe(Request)
  BY DEF Place, Maybe, Load, Request, Session
<1>2. Abandon(c, s, FALSE) \in SUBSET Session BY <1>1, AbandonIs
<1> DEFINE k == Blanked(c)
           q == IF c.sock = "open" THEN Null ELSE Load(s)
           l == [[k EXCEPT !.abandoned = Abandon(c, s, FALSE), !.pending = s, !.loading = TRUE,
                           !.createTimer = FALSE, !.loadTimer = TRUE] EXCEPT !.queued = q]
<1>3. c' = l BY DEF Switches, Asked, Blanked
<1>4. /\ k \in ClientState /\ k.sock = c.sock /\ k.retry = c.retry /\ k.asleep = c.asleep
      /\ k.probe = c.probe /\ k.shown = Null /\ k.fresh = c.fresh /\ k.building = FALSE
      /\ k.pending = c.pending /\ k.queued = c.queued /\ k.resume = Null
      /\ k.hydrated = Null /\ k.abandoned = c.abandoned /\ k.loading = c.loading
      /\ k.resyncing = FALSE /\ k.creating = FALSE /\ k.loadTimer = c.loadTimer
      /\ k.createTimer = c.createTimer
  BY BlankedIs
<1> HIDE DEF k, q
<1>5. /\ l \in ClientState /\ l.sock = k.sock /\ l.retry = k.retry /\ l.asleep = k.asleep
      /\ l.probe = k.probe /\ l.shown = k.shown /\ l.fresh = k.fresh
      /\ l.building = k.building /\ l.pending = s /\ l.queued = q /\ l.resume = k.resume
      /\ l.hydrated = k.hydrated /\ l.abandoned = Abandon(c, s, FALSE) /\ l.loading = TRUE
      /\ l.resyncing = k.resyncing /\ l.creating = k.creating /\ l.loadTimer = TRUE
      /\ l.createTimer = FALSE
  BY <1>1, <1>2, <1>4 DEF ClientState, q
<1> HIDE DEF l
<1> QED BY <1>3, <1>4, <1>5 DEF q

LEMMA CreatesClient ==
    ASSUME c \in ClientState, NEW n \in NewSession, Creates(n)
    PROVE  /\ c' \in ClientState /\ c'.sock = c.sock /\ c'.retry = c.retry
           /\ c'.asleep = c.asleep /\ c'.probe = c.probe /\ c'.shown = c.shown
           /\ c'.fresh = c.fresh /\ c'.building = c.building /\ c'.pending = Null
           /\ c'.queued = (IF c.sock = "open" THEN Null ELSE [do |-> "new", of |-> n])
           /\ c'.resume = Null /\ c'.hydrated = Null
           /\ c'.abandoned = Abandon(c, Null, TRUE) /\ c'.loading = FALSE
           /\ c'.resyncing = c.resyncing /\ c'.creating = TRUE /\ c'.loadTimer = c.loadTimer
           /\ c'.createTimer = TRUE
<1>1. Null \in Place /\ (IF c.sock = "open" THEN Null ELSE [do |-> "new", of |-> n]) \in Maybe(Request)
  BY DEF Place, Maybe, Request, Session
<1>2. Abandon(c, Null, TRUE) \in SUBSET Session BY <1>1, AbandonIs
<1> DEFINE q == IF c.sock = "open" THEN Null ELSE [do |-> "new", of |-> n]
<1>3. c' = [[c EXCEPT !.creating = TRUE, !.loading = FALSE, !.pending = Null,
                      !.abandoned = Abandon(c, Null, TRUE), !.hydrated = Null,
                      !.resume = Null, !.createTimer = TRUE] EXCEPT !.queued = q]
  BY DEF Creates, Asked
<1>4. q \in Maybe(Request) BY <1>1
<1> HIDE DEF q
<1>5. /\ c' \in ClientState /\ c'.sock = c.sock /\ c'.retry = c.retry
      /\ c'.asleep = c.asleep /\ c'.probe = c.probe /\ c'.shown = c.shown
      /\ c'.fresh = c.fresh /\ c'.building = c.building /\ c'.pending = Null
      /\ c'.queued = q /\ c'.resume = Null /\ c'.hydrated = Null
      /\ c'.abandoned = Abandon(c, Null, TRUE) /\ c'.loading = FALSE
      /\ c'.resyncing = c.resyncing /\ c'.creating = TRUE /\ c'.loadTimer = c.loadTimer
      /\ c'.createTimer = TRUE
  BY <1>1, <1>2, <1>3, <1>4 DEF ClientState
<1> QED BY <1>5 DEF q

LEMMA LeavesNothing ==
    ASSUME c \in ClientState, Leaves, c.shown = Null /\ c.pending = Null /\ c.resume = Null
    PROVE  /\ c' \in ClientState /\ c'.sock = c.sock /\ c'.retry = c.retry
           /\ c'.asleep = c.asleep /\ c'.probe = c.probe /\ c'.shown = c.shown
           /\ c'.fresh = c.fresh /\ c'.building = c.building /\ c'.pending = c.pending
           /\ c'.queued = Null /\ c'.resume = c.resume /\ c'.hydrated = c.hydrated
           /\ c'.abandoned = Abandon(c, Null, FALSE) /\ c'.loading = c.loading
           /\ c'.resyncing = c.resyncing /\ c'.creating = FALSE
           /\ c'.loadTimer = c.loadTimer /\ c'.createTimer = FALSE
<1>1. Null \in Place /\ Null \in Maybe(Request) BY DEF Place, Maybe
<1>2. Abandon(c, Null, FALSE) \in SUBSET Session BY <1>1, AbandonIs
<1>3. c' = [c EXCEPT !.queued = Null, !.createTimer = FALSE, !.creating = FALSE,
                     !.abandoned = Abandon(c, Null, FALSE)]
  BY DEF Leaves
<1> QED BY <1>1, <1>2, <1>3 DEF ClientState

LEMMA LeavesClient ==
    ASSUME c \in ClientState, Leaves, ~(c.shown = Null /\ c.pending = Null /\ c.resume = Null)
    PROVE  /\ c' \in ClientState /\ c'.sock = c.sock /\ c'.retry = c.retry
           /\ c'.asleep = c.asleep /\ c'.probe = c.probe /\ c'.shown = Null
           /\ c'.fresh = c.fresh /\ c'.building = FALSE /\ c'.pending = Null
           /\ c'.queued = Null /\ c'.resume = Null /\ c'.hydrated = Null
           /\ c'.abandoned = Abandon(c, Null, FALSE) /\ c'.loading = FALSE
           /\ c'.resyncing = FALSE /\ c'.creating = FALSE /\ c'.loadTimer = FALSE
           /\ c'.createTimer = FALSE
<1>1. Null \in Place /\ Null \in Maybe(Request) BY DEF Place, Maybe
<1>2. Abandon(c, Null, FALSE) \in SUBSET Session BY <1>1, AbandonIs
<1> DEFINE k == [c EXCEPT !.queued = Null, !.createTimer = FALSE, !.creating = FALSE,
                          !.abandoned = Abandon(c, Null, FALSE)]
<1>3. c' = [Blanked(k) EXCEPT !.loading = FALSE, !.loadTimer = FALSE, !.pending = Null]
  BY DEF Leaves
<1> QED BY <1>1, <1>2, <1>3 DEF Blanked, ClientState

LEMMA ResendsClient ==
    ASSUME c \in ClientState, NEW m \in Message, Resends(m)
    PROVE  /\ c' \in ClientState /\ c'.sock = c.sock
           /\ c'.retry = (IF c.sock = "open" THEN c.retry ELSE c.retry \/ c.sock = "none")
           /\ c'.asleep = c.asleep /\ c'.probe = c.probe /\ c'.shown = c.shown
           /\ c'.fresh = c.fresh /\ c'.building = c.building /\ c'.pending = c.pending
           /\ c'.queued = c.queued /\ c'.resume = c.resume /\ c'.hydrated = c.hydrated
           /\ c'.abandoned = c.abandoned /\ c'.loading = c.loading
           /\ c'.resyncing = c.resyncing /\ c'.creating = c.creating
           /\ c'.loadTimer = c.loadTimer /\ c'.createTimer = c.createTimer
BY DEF Resends, Connected, ClientState

LEMMA ClosesClient ==
    ASSUME c \in ClientState, Closes
    PROVE  /\ c' \in ClientState /\ c'.sock = "none" /\ c'.retry = TRUE
           /\ c'.asleep = c.asleep /\ c'.probe = "no" /\ c'.shown = c.shown
           /\ c'.fresh = c.fresh /\ c'.building = c.building /\ c'.pending = c.pending
           /\ c'.queued = c.queued /\ c'.resume = c.resume /\ c'.hydrated = c.hydrated
           /\ c'.abandoned = c.abandoned /\ c'.loading = FALSE
           /\ c'.resyncing = (c.resyncing \/ c.shown # Null) /\ c'.creating = FALSE
           /\ c'.loadTimer = FALSE /\ c'.createTimer = c.createTimer
BY ClosedIs DEF Closes

LEMMA ProbedClient ==
    ASSUME c \in ClientState, NEW k \in {"no", "tick", "return"}, Probed(k)
    PROVE  /\ c' \in ClientState /\ c'.sock = c.sock /\ c'.retry = c.retry
           /\ c'.asleep = c.asleep /\ c'.probe = k /\ c'.shown = c.shown
           /\ c'.fresh = c.fresh /\ c'.building = c.building /\ c'.pending = c.pending
           /\ c'.queued = c.queued /\ c'.resume = c.resume /\ c'.hydrated = c.hydrated
           /\ c'.abandoned = c.abandoned /\ c'.loading = c.loading
           /\ c'.resyncing = c.resyncing /\ c'.creating = c.creating
           /\ c'.loadTimer = c.loadTimer /\ c'.createTimer = c.createTimer
BY DEF Probed, ClientState

LEMMA ReconnectClient ==
    ASSUME c \in ClientState, Reconnect
    PROVE  /\ c' \in ClientState /\ c'.sock = "opening" /\ c'.retry = FALSE
           /\ c'.asleep = FALSE /\ c'.probe = "no" /\ c'.shown = c.shown
           /\ c'.fresh = (c.shown # Null /\ c.fresh)
           /\ c'.building = (c.shown # Null /\ c.building) /\ c'.pending = c.pending
           /\ c'.queued = c.queued /\ c'.resume = c.resume /\ c'.hydrated = c.hydrated
           /\ c'.abandoned = c.abandoned /\ c'.loading = FALSE
           /\ c'.resyncing = (c.shown # Null /\ c.resyncing) /\ c'.creating = FALSE
           /\ c'.loadTimer = FALSE /\ c'.createTimer = FALSE
<1>1. CASE c.shown # Null
  <2>1. c' = [TornDown(c) EXCEPT !.sock = "opening", !.asleep = FALSE]
    BY <1>1 DEF Reconnect, Connecting
  <2>2. /\ c' \in ClientState /\ c'.sock = "opening" /\ c'.retry = FALSE
        /\ c'.asleep = FALSE /\ c'.probe = "no" /\ c'.shown = c.shown /\ c'.fresh = c.fresh
        /\ c'.building = c.building /\ c'.pending = c.pending /\ c'.queued = c.queued
        /\ c'.resume = c.resume /\ c'.hydrated = c.hydrated /\ c'.abandoned = c.abandoned
        /\ c'.loading = FALSE /\ c'.resyncing = c.resyncing /\ c'.creating = FALSE
        /\ c'.loadTimer = FALSE /\ c'.createTimer = FALSE
    BY <2>1, KeptIs
  <2> QED BY <1>1, <2>2 DEF ClientState
<1>2. CASE c.shown = Null
  <2>1. c' = [[TornDown(c) EXCEPT !.sock = "opening", !.asleep = FALSE]
                    EXCEPT !.shown = Null, !.fresh = FALSE, !.building = FALSE, !.resyncing = FALSE]
    BY <1>2 DEF Reconnect, Connecting
  <2>2. /\ c' \in ClientState /\ c'.sock = "opening" /\ c'.retry = FALSE
        /\ c'.asleep = FALSE /\ c'.probe = "no" /\ c'.shown = Null /\ c'.fresh = FALSE
        /\ c'.building = FALSE /\ c'.pending = c.pending /\ c'.queued = c.queued
        /\ c'.resume = c.resume /\ c'.hydrated = c.hydrated /\ c'.abandoned = c.abandoned
        /\ c'.loading = FALSE /\ c'.resyncing = FALSE /\ c'.creating = FALSE
        /\ c'.loadTimer = FALSE /\ c'.createTimer = FALSE
    BY <2>1, StartsBlankIs, ZenonT(120)
  <2> QED BY <1>2, <2>2
<1> QED BY <1>1, <1>2

LEMMA ExpiresReturn ==
    ASSUME c \in ClientState, ProbeExpires, c.probe = "return"
    PROVE  /\ c' \in ClientState /\ c'.sock = "opening" /\ c'.retry = FALSE
           /\ c'.asleep = FALSE /\ c'.probe = "no" /\ c'.shown = c.shown
           /\ c'.fresh = (c.shown # Null /\ c.fresh)
           /\ c'.building = (c.shown # Null /\ c.building) /\ c'.pending = c.pending
           /\ c'.queued = c.queued /\ c'.resume = c.resume /\ c'.hydrated = c.hydrated
           /\ c'.abandoned = c.abandoned /\ c'.loading = FALSE
           /\ c'.resyncing = (c.shown # Null /\ c.resyncing) /\ c'.creating = FALSE
           /\ c'.loadTimer = FALSE /\ c'.createTimer = FALSE
<1> DEFINE k == Condemned(c)
<1>1. /\ k \in ClientState /\ k.sock = "none" /\ k.retry = c.retry /\ k.asleep = c.asleep
      /\ k.probe = "no" /\ k.shown = c.shown /\ k.fresh = c.fresh /\ k.building = c.building
      /\ k.pending = c.pending /\ k.queued = c.queued /\ k.resume = c.resume
      /\ k.hydrated = c.hydrated /\ k.abandoned = c.abandoned /\ k.loading = FALSE
      /\ k.resyncing = c.resyncing /\ k.creating = FALSE /\ k.loadTimer = c.loadTimer
      /\ k.createTimer = c.createTimer
  BY CondemnedIs
<1>0. k \in ClientState BY CondemnedIs
<1>2. CASE c.shown # Null
  <2>1. c' = [TornDown(k) EXCEPT !.sock = "opening", !.asleep = FALSE]
    BY <1>2 DEF ProbeExpires, Connecting
  <2> HIDE DEF k
  <2>2. /\ c' \in ClientState /\ c'.sock = "opening" /\ c'.retry = FALSE
        /\ c'.asleep = FALSE /\ c'.probe = "no" /\ c'.shown = k.shown /\ c'.fresh = k.fresh
        /\ c'.building = k.building /\ c'.pending = k.pending /\ c'.queued = k.queued
        /\ c'.resume = k.resume /\ c'.hydrated = k.hydrated /\ c'.abandoned = k.abandoned
        /\ c'.loading = FALSE /\ c'.resyncing = k.resyncing /\ c'.creating = FALSE
        /\ c'.loadTimer = FALSE /\ c'.createTimer = FALSE
    BY <1>0, <2>1 DEF TornDown, ClientState
  <2> QED BY <1>1, <1>2, <2>2 DEF ClientState
<1>3. CASE c.shown = Null
  <2>0. Null \in Place BY DEF Place, Maybe
  <2>1. c' = [[TornDown(k) EXCEPT !.sock = "opening", !.asleep = FALSE]
                    EXCEPT !.shown = Null, !.fresh = FALSE, !.building = FALSE, !.resyncing = FALSE]
    BY <1>3 DEF ProbeExpires, Connecting
  <2> HIDE DEF k
  <2>2. /\ c' \in ClientState /\ c'.sock = "opening" /\ c'.retry = FALSE
        /\ c'.asleep = FALSE /\ c'.probe = "no" /\ c'.shown = Null /\ c'.fresh = FALSE
        /\ c'.building = FALSE /\ c'.pending = k.pending /\ c'.queued = k.queued
        /\ c'.resume = k.resume /\ c'.hydrated = k.hydrated /\ c'.abandoned = k.abandoned
        /\ c'.loading = FALSE /\ c'.resyncing = FALSE /\ c'.creating = FALSE
        /\ c'.loadTimer = FALSE /\ c'.createTimer = FALSE
    BY <1>0, <2>1, <2>0 DEF TornDown, ClientState
  <2> QED BY <1>1, <1>3, <2>2
<1> QED BY <1>2, <1>3

LEMMA ExpiresTick ==
    ASSUME c \in ClientState, ProbeExpires, c.probe # "return"
    PROVE  /\ c' \in ClientState /\ c'.sock = "none" /\ c'.retry = TRUE
           /\ c'.asleep = c.asleep /\ c'.probe = "no" /\ c'.shown = c.shown
           /\ c'.fresh = c.fresh /\ c'.building = c.building /\ c'.pending = c.pending
           /\ c'.queued = c.queued /\ c'.resume = c.resume /\ c'.hydrated = c.hydrated
           /\ c'.abandoned = c.abandoned /\ c'.loading = FALSE /\ c'.resyncing = c.resyncing
           /\ c'.creating = FALSE /\ c'.loadTimer = c.loadTimer
           /\ c'.createTimer = c.createTimer
<1>1. c' = [Condemned(c) EXCEPT !.retry = TRUE] BY DEF ProbeExpires
<1> QED BY <1>1 DEF Condemned, ClientState

LEMMA SuspendsClient ==
    ASSUME c \in ClientState, Suspends
    PROVE  /\ c' \in ClientState /\ c'.sock = "none" /\ c'.retry = FALSE /\ c'.asleep = TRUE
           /\ c'.probe = "no" /\ c'.shown = c.shown /\ c'.fresh = c.fresh
           /\ c'.building = c.building /\ c'.pending = c.pending /\ c'.queued = c.queued
           /\ c'.resume = (IF c.shown # Null THEN c.shown ELSE c.resume)
           /\ c'.hydrated = c.hydrated /\ c'.abandoned = c.abandoned /\ c'.loading = FALSE
           /\ c'.resyncing = c.resyncing /\ c'.creating = FALSE /\ c'.loadTimer = FALSE
           /\ c'.createTimer = FALSE
BY DEF Suspends, TornDown, ClientState

LEMMA ResumesClient ==
    ASSUME c \in ClientState, Resumes
    PROVE  /\ c' \in ClientState /\ c'.sock = "opening" /\ c'.retry = FALSE
           /\ c'.asleep = FALSE /\ c'.probe = "no" /\ c'.shown = c.shown
           /\ c'.fresh = c.fresh /\ c'.building = c.building /\ c'.pending = c.pending
           /\ c'.queued = c.queued /\ c'.resume = c.resume /\ c'.hydrated = c.hydrated
           /\ c'.abandoned = c.abandoned /\ c'.loading = FALSE
           /\ c'.resyncing = (c.resyncing \/ RejoinTarget(c) # Null) /\ c'.creating = FALSE
           /\ c'.loadTimer = FALSE /\ c'.createTimer = FALSE
<1> DEFINE k == [TornDown(c) EXCEPT !.sock = "opening", !.asleep = FALSE]
<1>1. c' = [k EXCEPT !.resyncing = @ \/ RejoinTarget(c) # Null] BY DEF Resumes, Connecting
<1>2. /\ k \in ClientState /\ k.sock = "opening" /\ k.retry = FALSE /\ k.asleep = FALSE
      /\ k.probe = "no" /\ k.shown = c.shown /\ k.fresh = c.fresh /\ k.building = c.building
      /\ k.pending = c.pending /\ k.queued = c.queued /\ k.resume = c.resume
      /\ k.hydrated = c.hydrated /\ k.abandoned = c.abandoned /\ k.loading = FALSE
      /\ k.resyncing = c.resyncing /\ k.creating = FALSE /\ k.loadTimer = FALSE
      /\ k.createTimer = FALSE
  BY KeptIs
<1> HIDE DEF k
<1> QED BY <1>1, <1>2 DEF ClientState

LEMMA ReloadedIs ==
    ASSUME c \in ClientState, NEW s \in {Null, c.shown},
           c' = [IdleClient EXCEPT !.sock = "opening", !.shown = s, !.hydrated = s, !.resyncing = s # Null]
    PROVE  /\ c' \in ClientState /\ c'.sock = "opening" /\ c'.retry = FALSE
           /\ c'.asleep = FALSE /\ c'.probe = "no" /\ c'.shown = s /\ c'.fresh = FALSE
           /\ c'.building = FALSE /\ c'.pending = Null /\ c'.queued = Null
           /\ c'.resume = Null /\ c'.hydrated = s /\ c'.abandoned = {} /\ c'.loading = FALSE
           /\ c'.resyncing = (s # Null) /\ c'.creating = FALSE /\ c'.loadTimer = FALSE
           /\ c'.createTimer = FALSE
<1>1. Null \in Place /\ Null \in Maybe(Request) /\ s \in Place BY DEF Place, Maybe, ClientState
<1> DEFINE k == IdleClient
<1>2. /\ k \in ClientState /\ k.sock = "none" /\ k.retry = FALSE /\ k.asleep = FALSE
      /\ k.probe = "no" /\ k.shown = Null /\ k.fresh = FALSE /\ k.building = FALSE
      /\ k.pending = Null /\ k.queued = Null /\ k.resume = Null /\ k.hydrated = Null
      /\ k.abandoned = {} /\ k.loading = FALSE /\ k.resyncing = FALSE /\ k.creating = FALSE
      /\ k.loadTimer = FALSE /\ k.createTimer = FALSE
  BY IdleIs
<1>3. c' = [k EXCEPT !.sock = "opening", !.shown = s, !.hydrated = s, !.resyncing = s # Null]
  OBVIOUS
<1> HIDE DEF k
<1>4. /\ c' \in ClientState /\ c'.sock = "opening" /\ c'.retry = k.retry
      /\ c'.asleep = k.asleep /\ c'.probe = k.probe /\ c'.shown = s /\ c'.fresh = k.fresh
      /\ c'.building = k.building /\ c'.pending = k.pending /\ c'.queued = k.queued
      /\ c'.resume = k.resume /\ c'.hydrated = s /\ c'.abandoned = k.abandoned
      /\ c'.loading = k.loading /\ c'.resyncing = (s # Null) /\ c'.creating = k.creating
      /\ c'.loadTimer = k.loadTimer /\ c'.createTimer = k.createTimer
  BY <1>1, <1>2, <1>3 DEF ClientState
<1> QED BY <1>2, <1>4

LEMMA LoadExpiresClient ==
    ASSUME c \in ClientState, LoadExpires
    PROVE  /\ c' \in ClientState /\ c'.sock = c.sock /\ c'.retry = c.retry
           /\ c'.asleep = c.asleep /\ c'.probe = c.probe /\ c'.shown = c.shown
           /\ c'.fresh = c.fresh /\ c'.building = c.building /\ c'.pending = c.pending
           /\ c'.queued = Unqueued(c, "load") /\ c'.resume = c.resume
           /\ c'.hydrated = c.hydrated /\ c'.abandoned = c.abandoned /\ c'.loading = FALSE
           /\ c'.resyncing = FALSE /\ c'.creating = c.creating /\ c'.loadTimer = FALSE
           /\ c'.createTimer = c.createTimer
<1>1. Unqueued(c, "load") \in Maybe(Request) BY DEF Unqueued, Maybe, ClientState
<1> QED BY <1>1 DEF LoadExpires, ClientState

LEMMA CreateExpiresClient ==
    ASSUME c \in ClientState, CreateExpires
    PROVE  /\ c' \in ClientState /\ c'.sock = c.sock /\ c'.retry = c.retry
           /\ c'.asleep = c.asleep /\ c'.probe = c.probe /\ c'.shown = c.shown
           /\ c'.fresh = c.fresh /\ c'.building = c.building /\ c'.pending = c.pending
           /\ c'.queued = Unqueued(c, "new") /\ c'.resume = c.resume
           /\ c'.hydrated = c.hydrated /\ c'.abandoned = c.abandoned
           /\ c'.loading = c.loading /\ c'.resyncing = c.resyncing /\ c'.creating = FALSE
           /\ c'.loadTimer = c.loadTimer /\ c'.createTimer = FALSE
<1>1. Unqueued(c, "new") \in Maybe(Request) BY DEF Unqueued, Maybe, ClientState
<1> QED BY <1>1 DEF CreateExpires, ClientState

LEMMA AcceptedClient ==
    ASSUME c \in ClientState, NEW f \in DownFrame, f.s \in Session, OnCreated(f), Accepts(c, f.s)
    PROVE  /\ c' \in ClientState /\ c'.sock = c.sock /\ c'.retry = c.retry
           /\ c'.asleep = c.asleep /\ c'.probe = "no" /\ c'.shown = f.s /\ c'.fresh = FALSE
           /\ c'.building = (f.m = 1) /\ c'.pending = Null /\ c'.queued = c.queued
           /\ c'.resume = c.resume /\ c'.hydrated = Null
           /\ c'.abandoned = (c.abandoned \ {f.s}) /\ c'.loading = c.loading
           /\ c'.resyncing = c.resyncing /\ c'.creating = FALSE
           /\ c'.loadTimer = c.loadTimer /\ c'.createTimer = FALSE
<1>1. Null \in Place /\ f.s \in Place BY DEF Place, Maybe
<1> QED BY <1>1 DEF OnCreated, ClientState

LEMMA RejectedClient ==
    ASSUME c \in ClientState, NEW f \in DownFrame, f.s \in Session, OnCreated(f), ~Accepts(c, f.s)
    PROVE  /\ c' \in ClientState /\ c'.sock = c.sock /\ c'.retry = c.retry
           /\ c'.asleep = c.asleep /\ c'.probe = "no" /\ c'.shown = c.shown
           /\ c'.fresh = c.fresh /\ c'.building = c.building /\ c'.pending = c.pending
           /\ c'.queued = c.queued /\ c'.resume = c.resume /\ c'.hydrated = c.hydrated
           /\ c'.abandoned = (c.abandoned \cup ({f.s} \ {c.shown}))
           /\ c'.loading = c.loading /\ c'.resyncing = c.resyncing
           /\ c'.creating = c.creating /\ c'.loadTimer = c.loadTimer
           /\ c'.createTimer = FALSE
BY DEF OnCreated, ClientState

LEMMA HistoryClient ==
    ASSUME c \in ClientState, NEW f \in DownFrame, OnHistory(f)
    PROVE  /\ c' \in ClientState /\ c'.sock = c.sock /\ c'.retry = c.retry
           /\ c'.asleep = c.asleep /\ c'.probe = "no" /\ c'.shown = c.shown
           /\ c'.fresh = (Stale(f) => c.fresh) /\ c'.building = c.building
           /\ c'.pending = c.pending /\ c'.queued = c.queued /\ c'.resume = c.resume
           /\ c'.hydrated = c.hydrated /\ c'.abandoned = c.abandoned
           /\ c'.loading = (Stale(f) /\ c.loading)
           /\ c'.resyncing = (Stale(f) /\ c.resyncing) /\ c'.creating = c.creating
           /\ c'.loadTimer = (Stale(f) /\ c.loadTimer) /\ c'.createTimer = c.createTimer
<1>1. CASE Stale(f) BY <1>1 DEF OnHistory, ClientState
<1>2. CASE ~Stale(f)
  <2>1. c' = [c EXCEPT !.probe = "no", !.fresh = TRUE, !.loading = FALSE,
                       !.resyncing = FALSE, !.loadTimer = FALSE]
    BY <1>2 DEF OnHistory
  <2>2. /\ c' \in ClientState /\ c'.sock = c.sock /\ c'.retry = c.retry
        /\ c'.asleep = c.asleep /\ c'.probe = "no" /\ c'.shown = c.shown /\ c'.fresh = TRUE
        /\ c'.building = c.building /\ c'.pending = c.pending /\ c'.queued = c.queued
        /\ c'.resume = c.resume /\ c'.hydrated = c.hydrated /\ c'.abandoned = c.abandoned
        /\ c'.loading = FALSE /\ c'.resyncing = FALSE /\ c'.creating = c.creating
        /\ c'.loadTimer = FALSE /\ c'.createTimer = c.createTimer
    BY <2>1 DEF ClientState
  <2> QED BY <1>2, <2>2
<1> QED BY <1>1, <1>2

LEMMA ReadyClient ==
    ASSUME c \in ClientState, NEW f \in DownFrame, OnReady(f)
    PROVE  /\ c' \in ClientState /\ c'.sock = c.sock /\ c'.retry = c.retry
           /\ c'.asleep = c.asleep /\ c'.probe = "no" /\ c'.shown = c.shown
           /\ c'.fresh = c.fresh /\ c'.building = (c.building /\ c.shown \notin {Null, f.s})
           /\ c'.pending = c.pending /\ c'.queued = c.queued /\ c'.resume = c.resume
           /\ c'.hydrated = c.hydrated /\ c'.abandoned = c.abandoned
           /\ c'.loading = c.loading /\ c'.resyncing = c.resyncing
           /\ c'.creating = c.creating /\ c'.loadTimer = c.loadTimer
           /\ c'.createTimer = c.createTimer
BY DEF OnReady, ClientState

LEMMA AckClient ==
    ASSUME c \in ClientState, NEW f \in DownFrame, OnAck(f) \/ OnPong(f)
    PROVE  /\ c' \in ClientState /\ c'.sock = c.sock /\ c'.retry = c.retry
           /\ c'.asleep = c.asleep /\ c'.probe = "no" /\ c'.shown = c.shown
           /\ c'.fresh = c.fresh /\ c'.building = c.building /\ c'.pending = c.pending
           /\ c'.queued = c.queued /\ c'.resume = c.resume /\ c'.hydrated = c.hydrated
           /\ c'.abandoned = c.abandoned /\ c'.loading = c.loading
           /\ c'.resyncing = c.resyncing /\ c'.creating = c.creating
           /\ c'.loadTimer = c.loadTimer /\ c'.createTimer = c.createTimer
BY DEF OnAck, OnPong, ClientState

LEMMA PaintRejectedClient ==
    ASSUME c \in ClientState, NEW f \in DownFrame, OnError(f), RejectsPaint(f)
    PROVE  /\ c' \in ClientState /\ c'.sock = c.sock /\ c'.retry = c.retry
           /\ c'.asleep = c.asleep /\ c'.probe = "no" /\ c'.shown = Null /\ c'.fresh = FALSE
           /\ c'.building = FALSE /\ c'.pending = Null /\ c'.queued = c.queued
           /\ c'.resume = c.resume /\ c'.hydrated = Null /\ c'.abandoned = c.abandoned
           /\ c'.loading = FALSE /\ c'.resyncing = FALSE /\ c'.creating = FALSE
           /\ c'.loadTimer = FALSE /\ c'.createTimer = FALSE
<1>1. Null \in Place BY DEF Place, Maybe
<1>2. c' = [Cleared(c) EXCEPT !.shown = Null, !.fresh = FALSE, !.pending = Null,
                              !.hydrated = Null]
  BY DEF OnError
<1> QED BY <1>1, <1>2 DEF Cleared, ClientState

LEMMA ErrorClient ==
    ASSUME c \in ClientState, NEW f \in DownFrame, OnError(f), ~RejectsPaint(f)
    PROVE  /\ c' \in ClientState /\ c'.sock = c.sock /\ c'.retry = c.retry
           /\ c'.asleep = c.asleep /\ c'.probe = "no" /\ c'.shown = c.shown
           /\ c'.fresh = c.fresh /\ c'.building = FALSE /\ c'.pending = c.pending
           /\ c'.queued = c.queued /\ c'.resume = c.resume /\ c'.hydrated = c.hydrated
           /\ c'.abandoned = c.abandoned /\ c'.loading = FALSE /\ c'.resyncing = FALSE
           /\ c'.creating = FALSE /\ c'.loadTimer = FALSE /\ c'.createTimer = FALSE
<1>1. c' = Cleared(c) BY DEF OnError
<1> QED BY <1>1, ClearedIs

LEMMA DestroyedClient ==
    ASSUME c \in ClientState, NEW f \in DownFrame, OnDestroyed(f)
    PROVE  /\ c' \in ClientState /\ c'.sock = c.sock /\ c'.retry = c.retry
           /\ c'.asleep = c.asleep /\ c'.probe = "no"
           /\ c'.shown = (IF f.s = c.shown THEN Null ELSE c.shown) /\ c'.fresh = c.fresh
           /\ c'.building = (f.s # c.shown /\ c.building) /\ c'.pending = c.pending
           /\ c'.queued = c.queued /\ c'.resume = c.resume /\ c'.hydrated = c.hydrated
           /\ c'.abandoned = c.abandoned /\ c'.loading = (f.s # c.shown /\ c.loading)
           /\ c'.resyncing = c.resyncing /\ c'.creating = c.creating /\ c'.loadTimer = FALSE
           /\ c'.createTimer = c.createTimer
<1>1. Null \in Place BY DEF Place, Maybe
<1>2. CASE f.s = c.shown
  <2>1. c' = [c EXCEPT !.probe = "no", !.loadTimer = FALSE, !.loading = FALSE,
                       !.shown = Null, !.building = FALSE]
    BY <1>2 DEF OnDestroyed
  <2>2. /\ c' \in ClientState /\ c'.sock = c.sock /\ c'.retry = c.retry
        /\ c'.asleep = c.asleep /\ c'.probe = "no" /\ c'.shown = Null /\ c'.fresh = c.fresh
        /\ c'.building = FALSE /\ c'.pending = c.pending /\ c'.queued = c.queued
        /\ c'.resume = c.resume /\ c'.hydrated = c.hydrated /\ c'.abandoned = c.abandoned
        /\ c'.loading = FALSE /\ c'.resyncing = c.resyncing /\ c'.creating = c.creating
        /\ c'.loadTimer = FALSE /\ c'.createTimer = c.createTimer
    BY <1>1, <2>1 DEF ClientState
  <2> QED BY <1>2, <2>2
<1>3. CASE f.s # c.shown
  <2>1. c' = [c EXCEPT !.probe = "no", !.loadTimer = FALSE] BY <1>3 DEF OnDestroyed
  <2>2. /\ c' \in ClientState /\ c'.sock = c.sock /\ c'.retry = c.retry
        /\ c'.asleep = c.asleep /\ c'.probe = "no" /\ c'.shown = c.shown
        /\ c'.fresh = c.fresh /\ c'.building = c.building /\ c'.pending = c.pending
        /\ c'.queued = c.queued /\ c'.resume = c.resume /\ c'.hydrated = c.hydrated
        /\ c'.abandoned = c.abandoned /\ c'.loading = c.loading
        /\ c'.resyncing = c.resyncing /\ c'.creating = c.creating /\ c'.loadTimer = FALSE
        /\ c'.createTimer = c.createTimer
    BY <2>1 DEF ClientState
  <2> QED BY <1>3, <2>2 DEF ClientState
<1> QED BY <1>2, <1>3
--------------------
(* Frames and sequences. *)

LEMMA KnownIs ==
    ASSUME WireFormed, NEW s \in Known
    PROVE  s \in Session /\ log[s] \in SUBSET Message
BY DEF WireFormed, Known, Maybe

LEMMA FramesIn ==
    /\ UpFrame \subseteq Frames /\ DownFrame \subseteq Frames
BY DEF UpFrame, DownFrame

LEMMA FrameIs ==
    ASSUME NEW t \in {"load", "new", "leave", "message", "ping", "created", "history", "ready",
                      "ack", "error", "destroyed", "pong"}, NEW s \in Place, MaxMessages \in Nat
    PROVE  /\ Frame(t, s) \in Frames
           /\ Frame(t, s).t = t /\ Frame(t, s).s = s /\ Frame(t, s).m = 0 /\ Frame(t, s).of = {}
BY DEF Frame, Frames, Place

LEMMA AsksIs ==
    ASSUME NEW r \in Request, r.do = "new" => r.of \in NewSession
    PROVE  /\ Asks(r) \in UpFrame /\ Asks(r).t = r.do /\ Asks(r).s = r.of
           /\ Asking(Asks(r)) /\ Names(Asks(r))
<1>1. r.do \in {"load", "new"} /\ r.of \in Session /\ r.of \in Place /\ MaxMessages \in Nat
  BY SessionShape DEF Request, Place, Maybe
<1>2. /\ Frame(r.do, r.of) \in Frames
      /\ Frame(r.do, r.of).t = r.do /\ Frame(r.do, r.of).s = r.of
  BY <1>1, FrameIs
<1> DEFINE k == Frame(r.do, r.of)
<1> HIDE DEF k
<1>3. Asks(r) = [k EXCEPT !.m = 0] BY DEF Asks, k
<1>4. Asks(r) \in Frames /\ Asks(r).t = r.do /\ Asks(r).s = r.of
  <2>1. k \in Frames /\ k.t = r.do /\ k.s = r.of BY <1>2 DEF k
  <2> QED BY <1>1, <1>3, <2>1 DEF Frames
<1> QED BY <1>1, <1>4 DEF UpFrame, Asking, Names

LEMMA LoadIs ==
    ASSUME NEW s \in Session
    PROVE  Load(s) \in Request /\ Load(s).do = "load" /\ Load(s).of = s
BY DEF Load, Request

LEMMA NewIs ==
    ASSUME NEW s \in Session
    PROVE  /\ [do |-> "new", of |-> s] \in Request
           /\ [do |-> "new", of |-> s].do = "new" /\ [do |-> "new", of |-> s].of = s
BY DEF Request

LEMMA LeaveIs ==
    ASSUME NEW s \in Place
    PROVE  /\ Frame("leave", s) \in UpFrame /\ Frame("ping", s) \in UpFrame
           /\ Frame("leave", s).t = "leave" /\ Frame("ping", s).t = "ping"
           /\ ~Names(Frame("leave", s)) /\ ~Asking(Frame("leave", s))
           /\ ~Names(Frame("ping", s)) /\ ~Asking(Frame("ping", s))
<1>1. MaxMessages \in Nat BY SessionShape
<1>2. /\ Frame("leave", s) \in Frames /\ Frame("ping", s) \in Frames
      /\ Frame("leave", s).t = "leave" /\ Frame("ping", s).t = "ping"
  BY <1>1, FrameIs
<1> QED BY <1>2 DEF UpFrame, Asking, Names

LEMMA WritesIs ==
    ASSUME NEW m \in Message, c.shown \in Session
    PROVE  /\ Writes(m) \in UpFrame /\ Writes(m).t = "message" /\ Writes(m).s = c.shown
           /\ Writes(m).m = m /\ Names(Writes(m)) /\ ~Asking(Writes(m))
<1>1. MaxMessages \in Nat /\ m \in 0..(MaxMessages + 1) /\ c.shown \in Maybe(Session)
  BY SessionShape DEF Message, Maybe
<1>2. /\ Writes(m) \in Frames /\ Writes(m).t = "message" /\ Writes(m).s = c.shown
      /\ Writes(m).m = m
  BY <1>1 DEF Writes, Frames
<1> QED BY <1>2 DEF UpFrame, Asking, Names

LEMMA Taken ==
    ASSUME NEW S, NEW q \in Seq(S), q # <<>>
    PROVE  /\ Len(q) \in Nat \ {0} /\ Head(q) = q[1] /\ q[1] \in S
           /\ Tail(q) \in Seq(S) /\ Len(Tail(q)) = Len(q) - 1
           /\ \A i \in 1..Len(Tail(q)) : i + 1 \in 1..Len(q) /\ Tail(q)[i] = q[i + 1]
           /\ \A i \in 2..Len(q) : i - 1 \in 1..Len(Tail(q)) /\ Tail(q)[i - 1] = q[i]
<1>1. Len(q) \in Nat \ {0} /\ Head(q) = q[1] /\ Head(q) \in S BY EmptySeq, HeadTailProperties
<1>2. /\ Tail(q) \in Seq(S) /\ Len(Tail(q)) = Len(q) - 1
      /\ \A i \in 1..Len(Tail(q)) : Tail(q)[i] = q[i + 1]
  BY HeadTailProperties
<1>3. \A i \in 2..Len(q) : i - 1 \in 1..Len(Tail(q)) /\ Tail(q)[i - 1] = q[(i - 1) + 1]
  BY <1>1, <1>2
<1> QED BY <1>1, <1>2, <1>3

LEMMA OneMore ==
    ASSUME NEW S, NEW q \in Seq(S), NEW x \in S
    PROVE  /\ Append(q, x) \in Seq(S) /\ Len(q) \in Nat /\ Len(Append(q, x)) = Len(q) + 1
           /\ \A i \in 1..Len(q) : Append(q, x)[i] = q[i]
           /\ Append(q, x)[Len(q) + 1] = x
           /\ q \o <<x>> = Append(q, x)
<1>1. /\ Append(q, x) \in Seq(S) /\ Len(Append(q, x)) = Len(q) + 1
      /\ \A i \in 1..Len(q) : Append(q, x)[i] = q[i]
      /\ Append(q, x)[Len(q) + 1] = x
  BY AppendProperties
<1>2. Append(q, x) = q \o <<x>> BY AppendIsConcat
<1>3. Len(q) \in Nat BY LenProperties
<1> QED BY <1>1, <1>2, <1>3

LEMMA TwoMore ==
    ASSUME NEW S, NEW q \in Seq(S), NEW x \in S, NEW y \in S
    PROVE  /\ q \o <<x, y>> \in Seq(S) /\ Len(q) \in Nat /\ Len(q \o <<x, y>>) = Len(q) + 2
           /\ \A i \in 1..Len(q) : (q \o <<x, y>>)[i] = q[i]
           /\ (q \o <<x, y>>)[Len(q) + 1] = x /\ (q \o <<x, y>>)[Len(q) + 2] = y
<1>1. <<x, y>> \in Seq(S) /\ Len(<<x, y>>) = 2 /\ <<x, y>>[1] = x /\ <<x, y>>[2] = y OBVIOUS
<1>2. Len(q) \in Nat BY LenProperties
<1> QED BY <1>1, <1>2, ConcatProperties

LEMMA Removed ==
    ASSUME NEW S, NEW q \in Seq(S), NEW i \in 1..Len(q)
    PROVE  /\ Without(q, i) \in Seq(S) /\ Len(q) \in Nat /\ Len(Without(q, i)) = Len(q) - 1
           /\ \A j \in 1..Len(Without(q, i)) :
                Without(q, i)[j] = IF j < i THEN q[j] ELSE q[j + 1]
<1>1. Len(q) \in Nat /\ \A j \in 1..Len(q) : q[j] \in S BY LenProperties, ElementOfSeq
<1> DEFINE a == SubSeq(q, 1, i - 1)
           b == SubSeq(q, i + 1, Len(q))
<1>2. /\ a \in Seq(S) /\ Len(a) = i - 1 /\ \A j \in 1..(i - 1) : a[j] = q[j]
  <2>1. \A j \in 1..(i - 1) : q[j] \in S BY <1>1
  <2>2. 1 \in Int /\ i - 1 \in Int BY <1>1
  <2>3. /\ a \in Seq(S) /\ Len(a) = IF 1 <= i - 1 THEN i - 1 - 1 + 1 ELSE 0
        /\ \A j \in 1..(i - 1 - 1 + 1) : a[j] = q[1 + j - 1]
    BY <2>1, <2>2, SubSeqProperties
  <2> QED BY <1>1, <2>3
<1>3. /\ b \in Seq(S) /\ Len(b) = Len(q) - i
      /\ \A j \in 1..(Len(q) - i) : b[j] = q[i + j]
  <2>1. \A j \in (i + 1)..Len(q) : q[j] \in S BY <1>1
  <2>2. i + 1 \in Int /\ Len(q) \in Int BY <1>1
  <2>3. /\ b \in Seq(S) /\ Len(b) = IF i + 1 <= Len(q) THEN Len(q) - (i + 1) + 1 ELSE 0
        /\ \A j \in 1..(Len(q) - (i + 1) + 1) : b[j] = q[(i + 1) + j - 1]
    BY <2>1, <2>2, SubSeqProperties
  <2> QED BY <1>1, <2>3
<1>4. Without(q, i) = a \o b BY DEF Without
<1> HIDE DEF a, b
<1>5. /\ a \o b \in Seq(S) /\ Len(a \o b) = Len(a) + Len(b)
      /\ \A j \in 1..(Len(a) + Len(b)) : (a \o b)[j] = IF j <= Len(a) THEN a[j] ELSE b[j - Len(a)]
  BY <1>2, <1>3, ConcatProperties
<1>6. ASSUME NEW j \in 1..(Len(q) - 1)
      PROVE  (a \o b)[j] = IF j < i THEN q[j] ELSE q[j + 1]
  <2>1. CASE j < i BY <1>1, <1>2, <1>3, <1>5, <2>1
  <2>2. CASE ~(j < i)
    <3>1. j - Len(a) \in 1..(Len(q) - i) /\ i + (j - Len(a)) = j + 1 BY <1>1, <1>2, <2>2
    <3>2. b[j - Len(a)] = q[i + (j - Len(a))] BY <1>3, <3>1
    <3> QED BY <1>1, <1>2, <1>3, <1>5, <2>2, <3>1, <3>2
  <2> QED BY <2>1, <2>2
<1>7. Len(a) + Len(b) = Len(q) - 1 BY <1>1, <1>2, <1>3
<1>8. Without(q, i) \in Seq(S) /\ Len(Without(q, i)) = Len(q) - 1 BY <1>4, <1>5, <1>7
<1>9. \A j \in 1..(Len(q) - 1) : Without(q, i)[j] = IF j < i THEN q[j] ELSE q[j + 1] BY <1>4, <1>6
<1> QED BY <1>1, <1>8, <1>9

\* Of the naturals with a property there is a least one.
LEMMA Least ==
    ASSUME NEW X \in SUBSET Nat, X # {}
    PROVE  \E n \in X : \A m \in X : n <= m
<1> DEFINE R == OpToRel(<, Nat)
<1>1. R = {p \in Nat \X Nat : p[1] < p[2]} BY Zenon DEF OpToRel
<1>2. IsWellFoundedOn(R, Nat) BY NatLessThanWellFounded, Zenon
<1> HIDE DEF R
<1>3. PICK n \in X : \A m \in X : <<m, n>> \notin R BY <1>2, WFMin, Zenon
<1>4. \A m \in X : ~(m < n) BY <1>3, <1>1
<1> QED BY <1>4

LEMMA LeastMessage ==
    ASSUME NEW S \in SUBSET Message, S # {}
    PROVE  \E k \in S : \A m \in S : k <= m
<1>1. S \in SUBSET Nat BY DEF Message
<1> QED BY <1>1, Least

--------------------
(* The types, the sockets, and the sessions that are named. *)

LEMMA Unlogged == ASSUME WireFormed, log' = log PROVE Grows /\ Known' = Known
BY DEF WireFormed, Grows, Known

LEMMA KnownGrows == ASSUME Grows PROVE Known \subseteq Known' /\ Maybe(Known) \subseteq Maybe(Known')
BY DEF Grows, Maybe

LEMMA NoSocketIs ==
    /\ NoSocket \in ServerState /\ NoSocket.at = Null /\ NoSocket.painted = Null
    /\ NoSocket.work = <<>> /\ NoSocket.cold = {}
<1>1. <<>> \in Seq(Request) BY EmptySeq
<1>2. Null \in Place BY DEF Place, Maybe
<1> QED BY <1>1, <1>2 DEF NoSocket, ServerState

\* More messages are accepted by a session that exists.
LEMMA Accepted ==
    ASSUME WireFormed, NEW s \in Known, NEW A \in SUBSET Message,
           log' = [log EXCEPT ![s] = @ \cup A]
    PROVE  /\ Grows /\ Known' = Known /\ log'[s] = log[s] \cup A
           /\ \A r \in Session \ {s} : log'[r] = log[r]
<1>1. s \in Session /\ log[s] \in SUBSET Message BY KnownIs
<1>2. log[s] \cup A \in SUBSET Message /\ log[s] \cup A # Null BY <1>1, SessionShape
<1>3. log \in [Session -> Maybe(SUBSET Message)] BY DEF WireFormed
<1>4. /\ log' \in [Session -> Maybe(SUBSET Message)] /\ log'[s] = log[s] \cup A
      /\ \A r \in Session \ {s} : log'[r] = log[r]
  BY <1>1, <1>2, <1>3 DEF Maybe
<1>5. Known' = Known BY <1>1, <1>2, <1>4 DEF Known
<1> QED BY <1>4, <1>5, KnownIs DEF Grows, Known

LEMMA LostWire ==
    ASSUME BaseInv, LosesSocket
    PROVE  /\ WireFormed' /\ WireKnown' /\ Grows /\ Known' = Known
           /\ up' = <<>> /\ down' = <<>> /\ srv' = NoSocket /\ live' = TRUE
<1>1. up' = <<>> /\ down' = <<>> /\ srv' = NoSocket /\ live' = TRUE BY DEF LosesSocket
<1>2. Grows /\ Known' = Known
  <2>1. CASE log' = log BY <2>1, Unlogged DEF BaseInv
  <2>2. ASSUME live, srv.at # Null, NEW k \in 1..Len(up),
               \A i \in 1..k : up[i].t = "message" /\ up[i].s = srv.at,
               log' = [log EXCEPT ![srv.at] = @ \cup {up[i].m : i \in 1..k}]
        PROVE  Grows /\ Known' = Known
    <3>1. srv.at \in Known BY <2>2 DEF BaseInv, WireKnown, Maybe
    <3>2. Len(up) \in Nat /\ \A i \in 1..Len(up) : up[i] \in UpFrame
      BY LenProperties, ElementOfSeq DEF BaseInv, WireFormed
    <3>3. \A i \in 1..k : i \in 1..Len(up) BY <3>2
    <3>4. \A i \in 1..k : up[i].m \in Message BY <2>2, <3>2, <3>3 DEF UpFrame
    <3>5. {up[i].m : i \in 1..k} \in SUBSET Message BY <3>4
    <3> DEFINE A == {up[i].m : i \in 1..k}
    <3>6. log' = [log EXCEPT ![srv.at] = @ \cup A] /\ A \in SUBSET Message BY <2>2, <3>5
    <3> HIDE DEF A
    <3> QED BY <3>1, <3>6, Accepted DEF BaseInv
  <2> QED BY <2>1, <2>2 DEF LosesSocket
<1>3. <<>> \in Seq(UpFrame) /\ <<>> \in Seq(DownFrame) /\ Len(<<>>) = 0 BY EmptySeq
<1>4. \A i \in 1..Len(<<>>) : FALSE BY <1>3
<1>5. WireFormed' BY <1>1, <1>2, <1>3, <1>4, NoSocketIs DEF WireFormed, Grows
<1>6. WireKnown' BY <1>1, <1>4, NoSocketIs DEF WireKnown, Maybe
<1> QED BY <1>1, <1>2, <1>5, <1>6

LEMMA StillWire ==
    ASSUME BaseInv, Grows, live' \in BOOLEAN, UNCHANGED <<up, down, srv>>
    PROVE  WireFormed' /\ WireKnown'
<1>1. Known \subseteq Known' /\ Maybe(Known) \subseteq Maybe(Known') BY KnownGrows
<1>2. WireFormed' BY DEF BaseInv, WireFormed, Grows
<1>3. /\ {srv.at, srv.painted} \subseteq Maybe(Known') /\ srv.cold \subseteq Known'
      /\ \A i \in 1..Len(srv.work) : srv.work[i].of \in Known'
      /\ \A i \in 1..Len(up) : Names(up[i]) => up[i].s \in Known'
      /\ \A i \in 1..Len(down) : Names(down[i]) => down[i].s \in Known'
  BY <1>1 DEF BaseInv, WireKnown
<1> QED BY <1>2, <1>3 DEF WireKnown

\* A frame more on the way up.
LEMMA SentWire ==
    ASSUME BaseInv, Grows, UNCHANGED <<live, down, srv>>, NEW x \in UpFrame,
           Names(x) => x.s \in Known',
           up' = up \/ up' = Append(up, x)
    PROVE  WireFormed' /\ WireKnown'
<1>1. Known \subseteq Known' /\ Maybe(Known) \subseteq Maybe(Known') BY KnownGrows
<1>2. up \in Seq(UpFrame) BY DEF BaseInv, WireFormed
<1>3. up' \in Seq(UpFrame) BY <1>2, OneMore
<1>4. \A i \in 1..Len(up) : Names(up[i]) => up[i].s \in Known' BY <1>1 DEF BaseInv, WireKnown
<1>5. \A i \in 1..Len(up') : Names(up'[i]) => up'[i].s \in Known'
  <2>1. CASE up' = up BY <1>4, <2>1
  <2>2. CASE up' = Append(up, x)
    <3>1. /\ Len(up) \in Nat /\ Len(up') = Len(up) + 1 /\ up'[Len(up) + 1] = x
          /\ \A i \in 1..Len(up) : up'[i] = up[i]
      BY <1>2, <2>2, OneMore
    <3> SUFFICES ASSUME NEW i \in 1..Len(up'), Names(up'[i]) PROVE up'[i].s \in Known' OBVIOUS
    <3>2. i \in 1..Len(up) \/ i = Len(up) + 1 BY <3>1
    <3> QED BY <1>4, <3>1, <3>2
  <2> QED BY <2>1, <2>2
<1>6. WireFormed' BY <1>3 DEF BaseInv, WireFormed, Grows
<1>7. /\ {srv.at, srv.painted} \subseteq Maybe(Known') /\ srv.cold \subseteq Known'
      /\ \A i \in 1..Len(srv.work) : srv.work[i].of \in Known'
      /\ \A i \in 1..Len(down) : Names(down[i]) => down[i].s \in Known'
  BY <1>1 DEF BaseInv, WireKnown
<1> QED BY <1>5, <1>6, <1>7 DEF WireKnown

\* Two frames more: a leave before the load.
LEMMA SentTwoWire ==
    ASSUME BaseInv, Grows, UNCHANGED <<live, down, srv>>, NEW x \in UpFrame, NEW y \in UpFrame,
           Names(x) => x.s \in Known', Names(y) => y.s \in Known', up' = up \o <<x, y>>
    PROVE  WireFormed' /\ WireKnown'
<1>1. Known \subseteq Known' /\ Maybe(Known) \subseteq Maybe(Known') BY KnownGrows
<1>2. up \in Seq(UpFrame) BY DEF BaseInv, WireFormed
<1>3. /\ up' \in Seq(UpFrame) /\ Len(up) \in Nat /\ Len(up') = Len(up) + 2
      /\ up'[Len(up) + 1] = x /\ up'[Len(up) + 2] = y
      /\ \A i \in 1..Len(up) : up'[i] = up[i]
  BY <1>2, TwoMore
<1>4. \A i \in 1..Len(up) : Names(up[i]) => up[i].s \in Known' BY <1>1 DEF BaseInv, WireKnown
<1>5. ASSUME NEW i \in 1..Len(up'), Names(up'[i]) PROVE up'[i].s \in Known'
  <2>1. i \in 1..Len(up) \/ i = Len(up) + 1 \/ i = Len(up) + 2 BY <1>3
  <2> QED BY <1>3, <1>4, <1>5, <2>1
<1>6. WireFormed' BY <1>3 DEF BaseInv, WireFormed, Grows
<1>7. /\ {srv.at, srv.painted} \subseteq Maybe(Known') /\ srv.cold \subseteq Known'
      /\ \A i \in 1..Len(srv.work) : srv.work[i].of \in Known'
      /\ \A i \in 1..Len(down) : Names(down[i]) => down[i].s \in Known'
  BY <1>1 DEF BaseInv, WireKnown
<1> QED BY <1>5, <1>6, <1>7 DEF WireKnown

\* What abandonPendingLoad abandons exists.
LEMMA AbandonKnown ==
    ASSUME BaseInv, NEW x, NEW b
    PROVE  Abandon(c, x, b) \subseteq Known
BY DEF Abandon, BaseInv, ClientKnown, Maybe

LEMMA SendsOne ==
    ASSUME BaseInv, NEW x \in UpFrame, Sends(<<x>>)
    PROVE  up' = IF c.sock = "open" THEN Append(up, x) ELSE up
<1>1. up \in Seq(UpFrame) BY DEF BaseInv, WireFormed
<1> QED BY <1>1, OneMore DEF Sends, Connected

LEMMA StillConnected ==
    ASSUME SocketInv, c'.sock = c.sock, c'.retry = c.retry, c'.probe = c.probe,
           UNCHANGED <<down, srv>>, c.sock # "open" => up' = up
    PROVE  SocketInv'
BY DEF SocketInv

\* What the client names after a step exists.
LEMMA ClientNames ==
    ASSUME BaseInv, Grows, {c'.shown, c'.pending, c'.resume, want'} \subseteq Maybe(Known'),
           c'.abandoned \subseteq Known',
           c'.queued # Null => /\ c'.queued.of \in Known'
                               /\ c'.queued.do = "new" => c'.queued.of \in NewSession,
           home' = home
    PROVE  ClientKnown'
<1>1. Known \subseteq Known' /\ Maybe(Known) \subseteq Maybe(Known') BY KnownGrows
<1>2. Old \subseteq Known' /\ \A m \in Message : home[m] \in Maybe(Known')
  BY <1>1 DEF BaseInv, ClientKnown
<1>3. \A m \in Message : home'[m] \in Maybe(Known') BY <1>2
<1> QED BY <1>2, <1>3 DEF ClientKnown

\* Most steps name nothing new.
LEMMA NothingNew ==
    ASSUME BaseInv, Grows, c'.shown \in {Null, c.shown}, c'.pending \in {Null, c.pending},
           c'.resume \in {Null, c.resume, c.shown}, want' \in {Null, want, c.shown},
           c'.abandoned \subseteq c.abandoned, c'.queued \in {Null, c.queued}, home' = home
    PROVE  ClientKnown'
<1>1. Known \subseteq Known' /\ Maybe(Known) \subseteq Maybe(Known') BY KnownGrows
<1>2. {Null, c.shown, c.pending, c.resume, want} \subseteq Maybe(Known')
  BY <1>1 DEF BaseInv, ClientKnown, Maybe
<1>3. /\ c'.abandoned \subseteq Known'
      /\ c'.queued # Null => /\ c'.queued.of \in Known'
                             /\ c'.queued.do = "new" => c'.queued.of \in NewSession
  BY <1>1 DEF BaseInv, ClientKnown
<1>4. {c'.shown, c'.pending, c'.resume, want'} \subseteq Maybe(Known') BY <1>2
<1> QED BY <1>3, <1>4, ClientNames

LEMMA JoinsBase ==
    ASSUME BaseInv, NEW s \in Old, Joins(s)
    PROVE  BaseInv' /\ Grows
<1>1. s \in Session /\ s \in Known BY DEF Session, BaseInv, ClientKnown
<1>2. /\ UNCHANGED <<view, timers, saved, home, live, down, srv, log>> /\ want' = s
      /\ Sends(<<Asks(Load(s))>>)
  BY DEF Joins, Keep
<1>3. Grows BY <1>2, Unlogged DEF BaseInv
<1>4. Asks(Load(s)) \in UpFrame /\ Asks(Load(s)).s = s BY <1>1, LoadIs, AsksIs
<1>5. up' = IF c.sock = "open" THEN Append(up, Asks(Load(s))) ELSE up BY <1>2, <1>4, SendsOne
<1>6. Known \subseteq Known' /\ Maybe(Known) \subseteq Maybe(Known') BY <1>3, KnownGrows
<1>7. WireFormed' /\ WireKnown' BY <1>1, <1>2, <1>3, <1>4, <1>5, <1>6, SentWire
<1>8. /\ c' \in ClientState /\ c'.sock = c.sock /\ c'.retry = c.retry /\ c'.probe = c.probe
      /\ c'.shown = c.shown /\ c'.pending = s /\ c'.resume = c.resume
      /\ c'.abandoned = Abandon(c, s, FALSE)
      /\ c'.queued = IF c.sock = "open" THEN Null ELSE Load(s)
  BY JoinsClient DEF BaseInv, ClientFormed
<1>9. ClientFormed' BY <1>1, <1>2, <1>8 DEF BaseInv, ClientFormed, Place, Maybe
<1>10. SocketInv' BY <1>2, <1>5, <1>8, StillConnected DEF BaseInv
<1>11. ClientKnown'
  <2>1. {Null, c.shown, c.resume, s} \subseteq Maybe(Known')
    BY <1>1, <1>6 DEF BaseInv, ClientKnown, Maybe
  <2>2. {c'.shown, c'.pending, c'.resume, want'} \subseteq Maybe(Known') BY <1>2, <1>8, <2>1
  <2>3. c'.abandoned \subseteq Known'
    <3>1. Abandon(c, s, FALSE) \subseteq Known BY AbandonKnown
    <3> QED BY <1>6, <1>8, <3>1
  <2>4. c'.queued # Null => c'.queued.of \in Known' /\ c'.queued.do = "load"
    BY <1>1, <1>6, <1>8, LoadIs
  <2> QED BY <1>2, <1>3, <2>2, <2>3, <2>4, ClientNames
<1> QED BY <1>3, <1>7, <1>9, <1>10, <1>11 DEF BaseInv

LEMMA BubblesIs == NoBubbles \in [Message -> Bubble] /\ \A m \in Message : NoBubbles[m] = "none"
BY DEF NoBubbles, Bubble

LEMMA SwitchesSends ==
    ASSUME BaseInv, NEW s \in Old, Switches(s)
    PROVE  up' = IF c.sock # "open" THEN up
                 ELSE IF c.shown = Null THEN Append(up, Asks(Load(s)))
                 ELSE up \o <<Frame("leave", c.shown), Asks(Load(s))>>
<1> DEFINE x == Asks(Load(s))
           y == Frame("leave", c.shown)
<1>1. x \in UpFrame BY LoadIs, AsksIs DEF Session
<1>2. up \in Seq(UpFrame) BY DEF BaseInv, WireFormed
<1>3. Sends(LeftBehind \o <<x>>) BY DEF Switches
<1> HIDE DEF x, y
<1>4. <<>> \o <<x>> = <<x>> BY <1>1, ConcatEmptySeq
<1>5. <<y>> \o <<x>> = <<y, x>>
  <2> DEFINE p == <<y>> \o <<x>>
             q == <<y, x>>
  <2>1. /\ <<y>> \in Seq({y, x}) /\ <<x>> \in Seq({y, x}) /\ q \in Seq({y, x})
        /\ Len(<<y>>) = 1 /\ <<y>>[1] = y /\ Len(<<x>>) = 1 /\ <<x>>[1] = x
        /\ Len(q) = 2 /\ q[1] = y /\ q[2] = x
    OBVIOUS
  <2>2. /\ p \in Seq({y, x}) /\ Len(p) = 2
        /\ \A i \in 1..2 : p[i] = IF i <= 1 THEN <<y>>[i] ELSE <<x>>[i - 1]
    BY <2>1, ConcatProperties
  <2>3. p[1] = y /\ p[2] = x BY <2>1, <2>2
  <2> HIDE DEF p, q
  <2>4. \A i \in 1..Len(p) : p[i] = q[i] BY <2>1, <2>2, <2>3
  <2>5. p = q BY <2>1, <2>2, <2>4, SeqEqual
  <2> QED BY <2>5 DEF p, q
<1>6. CASE c.shown = Null
  <2>1. Sends(<<x>>) BY <1>3, <1>4, <1>6 DEF LeftBehind
  <2>2. up' = IF c.sock = "open" THEN Append(up, x) ELSE up BY <1>1, <2>1, SendsOne
  <2> QED BY <1>6, <2>2 DEF x
<1>7. CASE c.shown # Null
  <2>1. LeftBehind = <<y>> BY <1>7 DEF LeftBehind, y
  <2>2. Sends(<<y, x>>) BY <1>3, <1>5, <2>1
  <2>3. up' = IF c.sock = "open" THEN up \o <<y, x>> ELSE up BY <2>2 DEF Sends, Connected
  <2> QED BY <1>7, <2>3 DEF x, y
<1> QED BY <1>6, <1>7

LEMMA SwitchesBase ==
    ASSUME BaseInv, NEW s \in Old, Switches(s)
    PROVE  BaseInv' /\ Grows
<1>1. s \in Session /\ s \in Known /\ c.shown \in Place
  BY DEF Session, BaseInv, ClientKnown, ClientFormed, ClientState
<1>2. /\ UNCHANGED <<timers, saved, home, live, down, srv, log>> /\ want' = s
      /\ view' = NoBubbles
  BY DEF Switches, Keep
<1>3. Grows BY <1>2, Unlogged DEF BaseInv
<1>4. /\ Asks(Load(s)) \in UpFrame /\ Asks(Load(s)).s = s
      /\ Frame("leave", c.shown) \in UpFrame /\ ~Names(Frame("leave", c.shown))
  BY <1>1, LoadIs, AsksIs, LeaveIs
<1>5. up' = IF c.sock # "open" THEN up
            ELSE IF c.shown = Null THEN Append(up, Asks(Load(s)))
            ELSE up \o <<Frame("leave", c.shown), Asks(Load(s))>>
  BY SwitchesSends
<1>6. Known \subseteq Known' /\ Maybe(Known) \subseteq Maybe(Known') BY <1>3, KnownGrows
<1>7. WireFormed' /\ WireKnown'
  <2>1. CASE up' = up \/ up' = Append(up, Asks(Load(s)))
    BY <1>1, <1>2, <1>3, <1>4, <1>6, <2>1, SentWire
  <2>2. CASE up' = up \o <<Frame("leave", c.shown), Asks(Load(s))>>
    <3> DEFINE x == Frame("leave", c.shown)
               y == Asks(Load(s))
    <3>1. x \in UpFrame /\ y \in UpFrame /\ (Names(x) => x.s \in Known') /\ (Names(y) => y.s \in Known')
      BY <1>1, <1>4, <1>6
    <3>2. up' = up \o <<x, y>> BY <2>2
    <3> HIDE DEF x, y
    <3> QED BY <1>2, <1>3, <3>1, <3>2, SentTwoWire
  <2> QED BY <1>5, <2>1, <2>2
<1>8. /\ c' \in ClientState /\ c'.sock = c.sock /\ c'.retry = c.retry /\ c'.probe = c.probe
      /\ c'.shown = Null /\ c'.pending = s /\ c'.resume = Null
      /\ c'.abandoned = Abandon(c, s, FALSE)
      /\ c'.queued = IF c.sock = "open" THEN Null ELSE Load(s)
  BY SwitchesClient DEF BaseInv, ClientFormed
<1>9. ClientFormed' BY <1>1, <1>2, <1>8, BubblesIs DEF BaseInv, ClientFormed, Place, Maybe
<1>10. SocketInv' BY <1>2, <1>5, <1>8, StillConnected DEF BaseInv
<1>11. ClientKnown'
  <2>1. {Null, c.shown, c.resume, s} \subseteq Maybe(Known')
    BY <1>1, <1>6 DEF BaseInv, ClientKnown, Maybe
  <2>2. {c'.shown, c'.pending, c'.resume, want'} \subseteq Maybe(Known') BY <1>2, <1>8, <2>1
  <2>3. c'.abandoned \subseteq Known'
    <3>1. Abandon(c, s, FALSE) \subseteq Known BY AbandonKnown
    <3> QED BY <1>6, <1>8, <3>1
  <2>4. c'.queued # Null => c'.queued.of \in Known' /\ c'.queued.do = "load"
    BY <1>1, <1>6, <1>8, LoadIs
  <2> QED BY <1>2, <1>3, <2>2, <2>3, <2>4, ClientNames
<1> QED BY <1>3, <1>7, <1>9, <1>10, <1>11 DEF BaseInv

\* session_new makes a session that was unknown.
LEMMA CreatesLog ==
    ASSUME WireFormed, NEW n \in NewSession, Creates(n)
    PROVE  /\ Grows /\ n \in Session /\ n \notin Known /\ Known' = Known \cup {n} /\ log'[n] = {}
           /\ \A s \in Known : log'[s] = log[s]
<1>1. n \in Session /\ log[n] = Null /\ log' = [log EXCEPT ![n] = {}] BY DEF Creates, Session
<1>2. {} \in SUBSET Message /\ {} # Null BY SessionShape
<1>3. log \in [Session -> Maybe(SUBSET Message)] BY DEF WireFormed
<1>4. /\ log' \in [Session -> Maybe(SUBSET Message)] /\ log'[n] = {}
      /\ \A s \in Session \ {n} : log'[s] = log[s]
  BY <1>1, <1>2, <1>3 DEF Maybe
<1>5. n \notin Known /\ Known' = Known \cup {n} /\ \A s \in Known : log'[s] = log[s]
  BY <1>1, <1>2, <1>4 DEF Known
<1> QED BY <1>1, <1>4, <1>5 DEF Grows

LEMMA CreatesBase ==
    ASSUME BaseInv, NEW n \in NewSession, Creates(n)
    PROVE  BaseInv' /\ Grows
<1> DEFINE r == [do |-> "new", of |-> n]
<1>1. Grows /\ n \in Session /\ n \in Known' BY CreatesLog DEF BaseInv
<1>2. /\ UNCHANGED <<view, timers, saved, home, live, down, srv>> /\ want' = n
      /\ Sends(<<Asks(r)>>)
  BY DEF Creates
<1>3. r \in Request /\ r.of = n /\ r.do = "new" BY <1>1, NewIs
<1>4. Asks(r) \in UpFrame /\ Asks(r).s = n BY <1>3, AsksIs
<1>5. up' = IF c.sock = "open" THEN Append(up, Asks(r)) ELSE up BY <1>2, <1>4, SendsOne
<1>6. Known \subseteq Known' /\ Maybe(Known) \subseteq Maybe(Known') BY <1>1, KnownGrows
<1>7. WireFormed' /\ WireKnown' BY <1>1, <1>2, <1>4, <1>5, SentWire
<1>8. /\ c' \in ClientState /\ c'.sock = c.sock /\ c'.retry = c.retry /\ c'.probe = c.probe
      /\ c'.shown = c.shown /\ c'.pending = Null /\ c'.resume = Null
      /\ c'.abandoned = Abandon(c, Null, TRUE)
      /\ c'.queued = IF c.sock = "open" THEN Null ELSE r
  BY CreatesClient DEF BaseInv, ClientFormed
<1> HIDE DEF r
<1>9. ClientFormed' BY <1>1, <1>2, <1>8 DEF BaseInv, ClientFormed, Place, Maybe
<1>10. SocketInv' BY <1>2, <1>5, <1>8, StillConnected DEF BaseInv
<1>11. ClientKnown'
  <2>1. {Null, c.shown, n} \subseteq Maybe(Known') BY <1>1, <1>6 DEF BaseInv, ClientKnown, Maybe
  <2>2. {c'.shown, c'.pending, c'.resume, want'} \subseteq Maybe(Known') BY <1>2, <1>8, <2>1
  <2>3. c'.abandoned \subseteq Known' BY <1>6, <1>8, AbandonKnown
  <2>4. c'.queued # Null => c'.queued.of \in Known' /\ c'.queued.of \in NewSession
    BY <1>1, <1>3, <1>8
  <2> QED BY <1>1, <1>2, <2>2, <2>3, <2>4, ClientNames
<1> QED BY <1>1, <1>7, <1>9, <1>10, <1>11 DEF BaseInv

\* Leaving: everything asked for is given up, and nothing is on screen.
LEMMA LeavesSteps ==
    ASSUME BaseInv, Leaves
    PROVE  /\ UNCHANGED <<timers, saved, home, live, down, srv, log, mark>> /\ want' = Null
           /\ c' \in ClientState /\ c'.sock = c.sock /\ c'.retry = c.retry /\ c'.probe = c.probe
           /\ c'.asleep = c.asleep /\ c'.fresh = c.fresh /\ c'.shown = Null /\ c'.pending = Null
           /\ c'.resume = Null /\ c'.queued = Null /\ ~c'.creating
           /\ c'.abandoned = Abandon(c, Null, FALSE)
           /\ \/ /\ c.shown = Null /\ c.pending = Null /\ c.resume = Null
                 /\ c'.loading = c.loading /\ c'.loadTimer = c.loadTimer
                 /\ c'.resyncing = c.resyncing
                 /\ UNCHANGED <<view, up>>
              \/ /\ ~c'.loading /\ ~c'.loadTimer /\ ~c'.resyncing /\ view' = NoBubbles
                 /\ up' = IF c.sock = "open" /\ c.shown # Null
                          THEN Append(up, Frame("leave", c.shown)) ELSE up
<1>1. UNCHANGED <<timers, saved, home, live, down, srv, log, mark>> /\ want' = Null
  BY DEF Leaves, Keep
<1>2. CASE c.shown = Null /\ c.pending = Null /\ c.resume = Null
  <2>1. UNCHANGED <<view, up>> BY <1>2 DEF Leaves
  <2>2. /\ c' \in ClientState /\ c'.sock = c.sock /\ c'.retry = c.retry /\ c'.probe = c.probe
        /\ c'.asleep = c.asleep /\ c'.fresh = c.fresh /\ c'.shown = c.shown
        /\ c'.pending = c.pending /\ c'.resume = c.resume
        /\ c'.queued = Null /\ c'.creating = FALSE
        /\ c'.abandoned = Abandon(c, Null, FALSE) /\ c'.loading = c.loading
        /\ c'.loadTimer = c.loadTimer /\ c'.resyncing = c.resyncing
    BY <1>2, LeavesNothing DEF BaseInv, ClientFormed
  <2> QED BY <1>1, <1>2, <2>1, <2>2
<1>3. CASE ~(c.shown = Null /\ c.pending = Null /\ c.resume = Null)
  <2>1. view' = NoBubbles /\ Sends(LeftBehind) BY <1>3 DEF Leaves
  <2>2. /\ c' \in ClientState /\ c'.sock = c.sock /\ c'.retry = c.retry /\ c'.probe = c.probe
        /\ c'.asleep = c.asleep /\ c'.fresh = c.fresh /\ c'.shown = Null
        /\ c'.pending = Null /\ c'.resume = Null
        /\ c'.queued = Null /\ c'.creating = FALSE
        /\ c'.abandoned = Abandon(c, Null, FALSE) /\ c'.loading = FALSE
        /\ c'.loadTimer = FALSE /\ c'.resyncing = FALSE
    BY <1>3, LeavesClient DEF BaseInv, ClientFormed
  <2>3. c.shown \in Place /\ up \in Seq(UpFrame)
    BY DEF BaseInv, ClientFormed, WireFormed, ClientState
  <2>4. Frame("leave", c.shown) \in UpFrame BY <2>3, LeaveIs
  <2>5. up \o <<>> = up BY <2>3, ConcatEmptySeq
  <2>6. up' = IF c.sock = "open" /\ c.shown # Null
              THEN Append(up, Frame("leave", c.shown)) ELSE up
    <3>1. CASE c.shown = Null BY <2>1, <2>5, <3>1 DEF Sends, LeftBehind
    <3>2. CASE c.shown # Null
      <4>1. Sends(<<Frame("leave", c.shown)>>) BY <2>1, <3>2 DEF LeftBehind
      <4> QED BY <2>4, <3>2, <4>1, SendsOne
    <3> QED BY <3>1, <3>2
  <2> QED BY <1>1, <2>1, <2>2, <2>6
<1> QED BY <1>2, <1>3

LEMMA LeavesBase ==
    ASSUME BaseInv, Leaves
    PROVE  BaseInv' /\ Grows
<1>1. /\ UNCHANGED <<timers, saved, home, live, down, srv, log>> /\ want' = Null
      /\ c' \in ClientState /\ c'.sock = c.sock /\ c'.retry = c.retry /\ c'.probe = c.probe
      /\ c'.shown = Null /\ c'.pending = Null /\ c'.resume = Null /\ c'.queued = Null
      /\ c'.abandoned = Abandon(c, Null, FALSE)
      /\ view' = view \/ view' = NoBubbles
      /\ up' = up \/ (c.sock = "open" /\ up' = Append(up, Frame("leave", c.shown)))
  BY LeavesSteps
<1>2. Grows BY <1>1, Unlogged DEF BaseInv
<1>3. Known \subseteq Known' /\ Maybe(Known) \subseteq Maybe(Known') BY <1>2, KnownGrows
<1>4. c.shown \in Place BY DEF BaseInv, ClientFormed, ClientState
<1>5. WireFormed' /\ WireKnown' BY <1>1, <1>2, <1>4, LeaveIs, SentWire
<1>6. ClientFormed' BY <1>1, BubblesIs DEF BaseInv, ClientFormed, Place, Maybe
<1>7. SocketInv' BY <1>1, StillConnected DEF BaseInv
<1>8. ClientKnown'
  <2>1. {c'.shown, c'.pending, c'.resume, want'} \subseteq Maybe(Known') BY <1>1 DEF Maybe
  <2>2. c'.abandoned \subseteq Known' BY <1>1, <1>3, AbandonKnown
  <2> QED BY <1>1, <1>2, <2>1, <2>2, ClientNames
<1> QED BY <1>2, <1>5, <1>6, <1>7, <1>8 DEF BaseInv

--------------------
(* The user's other steps, and the client's timers. *)

LEMMA MarkedIs ==
    ASSUME view \in [Message -> Bubble], NEW m \in Message, NEW b \in Bubble,
           view' = [view EXCEPT ![m] = b]
    PROVE  /\ view' \in [Message -> Bubble] /\ view'[m] = b
           /\ \A k \in Message \ {m} : view'[k] = view[k]
OBVIOUS

LEMMA UnconfirmedIn == \A v : Unconfirmed(v) \subseteq Message
BY DEF Unconfirmed

LEMMA PersistsIs ==
    ASSUME saved \in [Session -> SUBSET Message], NEW s \in Session, Persists(s, view')
    PROVE  /\ saved' \in [Session -> SUBSET Message] /\ saved'[s] = Unconfirmed(view')
           /\ \A r \in Session \ {s} : saved'[r] = saved[r]
BY UnconfirmedIn DEF Persists

LEMMA ShownIs ==
    ASSUME BaseInv, c.shown # Null
    PROVE  c.shown \in Session /\ c.shown \in Known
BY DEF BaseInv, ClientFormed, ClientKnown, ClientState, Place, Maybe

\* The client's own books are in order when no socket opens by itself.
LEMMA StillFormed ==
    ASSUME BaseInv, c' \in ClientState, view' \in [Message -> Bubble], timers' \subseteq Message,
           saved' \in [Session -> SUBSET Message], home' \in [Message -> Place],
           want' \in {Null, want, c.shown}
    PROVE  ClientFormed'
<1>1. {Null, want, c.shown} \subseteq Place BY DEF BaseInv, ClientFormed, ClientState, Place, Maybe
<1> QED BY <1>1 DEF ClientFormed

LEMMA SubmitsSteps ==
    ASSUME BaseInv, Submits
    PROVE  /\ UNCHANGED <<c, live, down, srv, log, want, dropped>>
           /\ c.sock = "open" /\ c.shown \in Known /\ c.shown \in Session
           /\ saved' \in [Session -> SUBSET Message] /\ saved'[c.shown] = Unconfirmed(view')
           /\ \A r \in Session \ {c.shown} : saved'[r] = saved[r]
           /\ mark' = mark \cup (IF c.fresh THEN {} ELSE {"early"})
           /\ \E m \in Message :
                /\ home[m] = Null /\ home' \in [Message -> Place] /\ home'[m] = c.shown
                /\ \A k \in Message \ {m} : home'[k] = home[k]
                /\ view' \in [Message -> Bubble] /\ view'[m] = "sending"
                /\ \A k \in Message \ {m} : view'[k] = view[k]
                /\ timers' = timers \cup {m}
                /\ up' = Append(up, Writes(m))
<1>1. /\ UNCHANGED <<c, live, down, srv, log, want, dropped>> /\ c.sock = "open"
      /\ c.shown # Null /\ Persists(c.shown, view')
      /\ mark' = mark \cup (IF c.fresh THEN {} ELSE {"early"})
  BY DEF Submits, Composable, Connected
<1>2. c.shown \in Session /\ c.shown \in Known /\ c.shown \in Place
  BY <1>1, ShownIs DEF Place, Maybe
<1>3. /\ saved' \in [Session -> SUBSET Message] /\ saved'[c.shown] = Unconfirmed(view')
      /\ \A r \in Session \ {c.shown} : saved'[r] = saved[r]
  BY <1>1, <1>2, PersistsIs DEF BaseInv, ClientFormed
<1>4. PICK m \in Message :
           /\ home[m] = Null /\ home' = [home EXCEPT ![m] = c.shown]
           /\ view' = [view EXCEPT ![m] = "sending"]
           /\ timers' = timers \cup {m} /\ Sends(<<Writes(m)>>)
  BY DEF Submits
<1>5. /\ home' \in [Message -> Place] /\ home'[m] = c.shown
      /\ \A k \in Message \ {m} : home'[k] = home[k]
  BY <1>2, <1>4 DEF BaseInv, ClientFormed
<1>6. "sending" \in Bubble /\ view \in [Message -> Bubble] BY DEF Bubble, BaseInv, ClientFormed
<1>7. /\ view' \in [Message -> Bubble] /\ view'[m] = "sending"
      /\ \A k \in Message \ {m} : view'[k] = view[k]
  BY <1>4, <1>6, MarkedIs
<1>8. up' = Append(up, Writes(m))
  <2>1. Writes(m) \in UpFrame BY <1>2, WritesIs
  <2> QED BY <1>1, <1>4, <2>1, SendsOne
<1> QED BY <1>1, <1>2, <1>3, <1>4, <1>5, <1>7, <1>8

LEMMA SubmitsBase ==
    ASSUME BaseInv, Submits
    PROVE  BaseInv' /\ Grows
<1>1. /\ UNCHANGED <<c, live, down, srv, log, want>>
      /\ c.sock = "open" /\ c.shown \in Known /\ c.shown \in Session
      /\ saved' \in [Session -> SUBSET Message]
  BY SubmitsSteps
<1>2. PICK m \in Message :
           /\ home' \in [Message -> Place] /\ home'[m] = c.shown
           /\ \A k \in Message \ {m} : home'[k] = home[k]
           /\ view' \in [Message -> Bubble] /\ timers' = timers \cup {m}
           /\ up' = Append(up, Writes(m))
  BY SubmitsSteps
<1>3. Grows /\ Known' = Known BY <1>1, Unlogged DEF BaseInv
<1>4. Writes(m) \in UpFrame /\ Writes(m).s = c.shown BY <1>1, WritesIs
<1>5. WireFormed' /\ WireKnown' BY <1>1, <1>2, <1>3, <1>4, SentWire
<1>6. ClientFormed' BY <1>1, <1>2 DEF BaseInv, ClientFormed
<1>7. SocketInv' BY <1>1, StillConnected DEF BaseInv
<1>8. ClientKnown'
  <2>1. \A k \in Message : home'[k] \in Maybe(Known')
    BY <1>1, <1>2, <1>3 DEF BaseInv, ClientKnown, Maybe
  <2> QED BY <1>1, <1>3, <2>1 DEF BaseInv, ClientKnown
<1> QED BY <1>3, <1>5, <1>6, <1>7, <1>8 DEF BaseInv

LEMMA ResendsSteps ==
    ASSUME BaseInv, NEW m \in Message, Resends(m)
    PROVE  /\ UNCHANGED <<home, live, down, srv, log, want, dropped, mark>>
           /\ view[m] = "failed" /\ c.shown \in Known /\ c.shown \in Session
           /\ \/ /\ c.sock = "open" /\ c' = c
                 /\ view' \in [Message -> Bubble] /\ view'[m] = "sending"
                 /\ \A k \in Message \ {m} : view'[k] = view[k]
                 /\ timers' = timers \cup {m} /\ up' = Append(up, Writes(m))
                 /\ saved' \in [Session -> SUBSET Message]
                 /\ saved'[c.shown] = Unconfirmed(view')
                 /\ \A r \in Session \ {c.shown} : saved'[r] = saved[r]
              \/ c.sock # "open" /\ UNCHANGED <<view, timers, saved, up>>
<1>1. /\ UNCHANGED <<home, live, down, srv, log, want, dropped>>
      /\ view[m] = "failed" /\ c.shown # Null
  BY DEF Resends
<1>2. c.shown \in Session /\ c.shown \in Known BY <1>1, ShownIs
<1>3. CASE c.sock = "open"
  <2>1. /\ view' = [view EXCEPT ![m] = "sending"] /\ timers' = timers \cup {m}
        /\ Sends(<<Writes(m)>>) /\ Persists(c.shown, view') /\ UNCHANGED <<c, mark>>
    BY <1>3 DEF Resends, Connected
  <2>2. "sending" \in Bubble /\ view \in [Message -> Bubble] BY DEF Bubble, BaseInv, ClientFormed
  <2>3. /\ view' \in [Message -> Bubble] /\ view'[m] = "sending"
        /\ \A k \in Message \ {m} : view'[k] = view[k]
    BY <2>1, <2>2, MarkedIs
  <2>4. /\ saved' \in [Session -> SUBSET Message] /\ saved'[c.shown] = Unconfirmed(view')
        /\ \A r \in Session \ {c.shown} : saved'[r] = saved[r]
    BY <1>2, <2>1, PersistsIs DEF BaseInv, ClientFormed
  <2>5. Writes(m) \in UpFrame BY <1>2, WritesIs
  <2>6. up' = Append(up, Writes(m)) BY <1>3, <2>1, <2>5, SendsOne
  <2> QED BY <1>1, <1>2, <1>3, <2>1, <2>3, <2>4, <2>6
<1>4. CASE c.sock # "open"
  <2>1. UNCHANGED <<view, timers, saved, up, mark>> BY <1>4 DEF Resends, Connected
  <2> QED BY <1>1, <1>2, <1>4, <2>1
<1> QED BY <1>3, <1>4

LEMMA ResendsBase ==
    ASSUME BaseInv, NEW m \in Message, Resends(m)
    PROVE  BaseInv' /\ Grows
<1>1. /\ UNCHANGED <<home, live, down, srv, log, want>>
      /\ c.shown \in Known /\ c.shown \in Session
      /\ view' \in [Message -> Bubble] /\ timers' \subseteq Message
      /\ saved' \in [Session -> SUBSET Message]
      /\ (up' = up \/ (c.sock = "open" /\ up' = Append(up, Writes(m))))
  BY ResendsSteps DEF BaseInv, ClientFormed
<1>2. Grows /\ Known' = Known BY <1>1, Unlogged DEF BaseInv
<1>3. Writes(m) \in UpFrame /\ Writes(m).s = c.shown BY <1>1, WritesIs
<1>4. WireFormed' /\ WireKnown' BY <1>1, <1>2, <1>3, SentWire
<1>5. /\ c' \in ClientState /\ c'.sock = c.sock /\ c'.probe = c.probe
      /\ c'.retry = (IF c.sock = "open" THEN c.retry ELSE c.retry \/ c.sock = "none")
      /\ c'.shown = c.shown /\ c'.pending = c.pending /\ c'.resume = c.resume
      /\ c'.abandoned = c.abandoned /\ c'.queued = c.queued
  BY ResendsClient DEF BaseInv, ClientFormed
<1>6. ClientFormed' BY <1>1, <1>5 DEF BaseInv, ClientFormed
<1>7. SocketInv' BY <1>1, <1>5 DEF BaseInv, SocketInv
<1>8. ClientKnown' BY <1>1, <1>2, <1>5, NothingNew
<1> QED BY <1>2, <1>4, <1>6, <1>7, <1>8 DEF BaseInv

\* A step of the client alone, on a socket that stays, or where there is none.
LEMMA AloneBase ==
    ASSUME BaseInv, UNCHANGED <<up, down, srv, log, home>>, live' \in BOOLEAN,
           c' \in ClientState, (c'.sock = "open") = (c.sock = "open"),
           c'.retry => c'.sock = "none", c'.probe # "no" => c'.sock = "open",
           view' \in [Message -> Bubble], timers' \subseteq Message,
           saved' \in [Session -> SUBSET Message],
           c'.shown \in {Null, c.shown}, c'.pending \in {Null, c.pending},
           c'.resume \in {Null, c.resume, c.shown}, want' \in {Null, want, c.shown},
           c'.abandoned \subseteq c.abandoned, c'.queued \in {Null, c.queued}
    PROVE  BaseInv' /\ Grows
<1>1. Grows BY Unlogged DEF BaseInv
<1>2. WireFormed' /\ WireKnown' BY <1>1, StillWire
<1>3. ClientFormed'
  <2>1. home' \in [Message -> Place] BY DEF BaseInv, ClientFormed
  <2> QED BY <2>1, StillFormed
<1>4. SocketInv' BY DEF BaseInv, SocketInv
<1>5. ClientKnown' BY <1>1, NothingNew
<1> QED BY <1>1, <1>2, <1>3, <1>4, <1>5 DEF BaseInv

\* The store's session fields are untouched.
LEMMA AsideBase ==
    ASSUME BaseInv, UNCHANGED <<c, up, down, srv, log, home, want>>, live' \in BOOLEAN,
           view' \in [Message -> Bubble], timers' \subseteq Message,
           saved' \in [Session -> SUBSET Message]
    PROVE  BaseInv' /\ Grows
<1>1. Grows BY Unlogged DEF BaseInv
<1>2. WireFormed' /\ WireKnown' BY <1>1, StillWire
<1>3. ClientFormed' /\ SocketInv' BY DEF BaseInv, ClientFormed, SocketInv
<1>4. ClientKnown' BY <1>1, NothingNew
<1> QED BY <1>1, <1>2, <1>3, <1>4 DEF BaseInv

LEMMA DiscardsSteps ==
    ASSUME BaseInv, NEW m \in Message, Discards(m)
    PROVE  /\ UNCHANGED <<c, home, live, up, down, srv, log, want, mark>>
           /\ view[m] = "failed" /\ c.shown \in Known /\ c.shown \in Session
           /\ view' \in [Message -> Bubble] /\ view'[m] = "none"
           /\ \A k \in Message \ {m} : view'[k] = view[k]
           /\ timers' = timers \ {m} /\ dropped' = dropped \cup {m}
           /\ saved' \in [Session -> SUBSET Message] /\ saved'[c.shown] = Unconfirmed(view')
           /\ \A r \in Session \ {c.shown} : saved'[r] = saved[r]
<1>1. /\ UNCHANGED <<c, home, live, up, down, srv, log, want, mark>>
      /\ view[m] = "failed" /\ c.shown # Null
      /\ view' = [view EXCEPT ![m] = "none"] /\ Persists(c.shown, view')
      /\ timers' = timers \ {m} /\ dropped' = dropped \cup {m}
  BY DEF Discards, conn
<1>2. c.shown \in Session /\ c.shown \in Known BY <1>1, ShownIs
<1>3. "none" \in Bubble /\ view \in [Message -> Bubble] BY DEF Bubble, BaseInv, ClientFormed
<1>4. /\ view' \in [Message -> Bubble] /\ view'[m] = "none"
      /\ \A k \in Message \ {m} : view'[k] = view[k]
  BY <1>1, <1>3, MarkedIs
<1>5. /\ saved' \in [Session -> SUBSET Message] /\ saved'[c.shown] = Unconfirmed(view')
      /\ \A r \in Session \ {c.shown} : saved'[r] = saved[r]
  BY <1>1, <1>2, PersistsIs DEF BaseInv, ClientFormed
<1> QED BY <1>1, <1>2, <1>4, <1>5

LEMMA DiscardsBase ==
    ASSUME BaseInv, NEW m \in Message, Discards(m)
    PROVE  BaseInv' /\ Grows
<1>1. /\ UNCHANGED <<c, home, live, up, down, srv, log, want>>
      /\ view' \in [Message -> Bubble] /\ timers' \subseteq timers
      /\ saved' \in [Session -> SUBSET Message]
  BY DiscardsSteps
<1>2. live' \in BOOLEAN /\ timers' \subseteq Message BY <1>1 DEF BaseInv, ClientFormed, WireFormed
<1> QED BY <1>1, <1>2, AsideBase

LEMMA ConfirmSteps ==
    ASSUME BaseInv, NEW m \in Message, ConfirmExpires(m)
    PROVE  /\ UNCHANGED <<c, home, live, up, down, srv, log, want, dropped, mark>>
           /\ timers' = timers \ {m} /\ saved' \in [Session -> SUBSET Message]
           /\ \/ view[m] # "sending" /\ UNCHANGED <<view, saved>>
              \/ /\ view[m] = "sending" /\ view' \in [Message -> Bubble] /\ view'[m] = "failed"
                 /\ \A k \in Message \ {m} : view'[k] = view[k]
                 /\ Unconfirmed(view') = Unconfirmed(view)
                 /\ IF c.shown = Null THEN saved' = saved
                    ELSE /\ saved'[c.shown] = Unconfirmed(view')
                         /\ \A r \in Session \ {c.shown} : saved'[r] = saved[r]
<1>1. /\ UNCHANGED <<c, home, live, up, down, srv, log, want, dropped, mark>>
      /\ timers' = timers \ {m}
  BY DEF ConfirmExpires, conn
<1>2. saved \in [Session -> SUBSET Message] /\ view \in [Message -> Bubble]
  BY DEF BaseInv, ClientFormed
<1>3. CASE view[m] # "sending" BY <1>1, <1>2, <1>3 DEF ConfirmExpires
<1>4. CASE view[m] = "sending"
  <2>1. /\ view' = [view EXCEPT ![m] = "failed"]
        /\ IF c.shown # Null THEN Persists(c.shown, view') ELSE UNCHANGED saved
    BY <1>4 DEF ConfirmExpires
  <2>2. "failed" \in Bubble BY DEF Bubble
  <2>3. /\ view' \in [Message -> Bubble] /\ view'[m] = "failed"
        /\ \A k \in Message \ {m} : view'[k] = view[k]
    BY <1>2, <2>1, <2>2, MarkedIs
  <2>4. Unconfirmed(view') = Unconfirmed(view) BY <1>4, <2>3 DEF Unconfirmed
  <2>5. CASE c.shown = Null BY <1>1, <1>2, <1>4, <2>1, <2>3, <2>4, <2>5
  <2>6. CASE c.shown # Null
    <3>1. c.shown \in Session BY <2>6, ShownIs
    <3>2. /\ saved' \in [Session -> SUBSET Message] /\ saved'[c.shown] = Unconfirmed(view')
          /\ \A r \in Session \ {c.shown} : saved'[r] = saved[r]
      BY <1>2, <2>1, <2>6, <3>1, PersistsIs
    <3> QED BY <1>1, <1>4, <2>3, <2>4, <2>6, <3>2
  <2> QED BY <2>5, <2>6
<1> QED BY <1>3, <1>4

LEMMA ConfirmBase ==
    ASSUME BaseInv, NEW m \in Message, ConfirmExpires(m)
    PROVE  BaseInv' /\ Grows
<1>1. view \in [Message -> Bubble] BY DEF BaseInv, ClientFormed
<1>2. /\ UNCHANGED <<c, home, live, up, down, srv, log, want>>
      /\ view' \in [Message -> Bubble] /\ timers' \subseteq timers
      /\ saved' \in [Session -> SUBSET Message]
  BY <1>1, ConfirmSteps
<1>3. live' \in BOOLEAN /\ timers' \subseteq Message BY <1>2 DEF BaseInv, ClientFormed, WireFormed
<1> QED BY <1>2, <1>3, AsideBase

LEMMA TimersBase ==
    ASSUME BaseInv, LoadExpires \/ CreateExpires
    PROVE  BaseInv' /\ Grows
<1>1. UNCHANGED <<view, timers, saved, home, live, up, down, srv, log, want>>
  BY DEF LoadExpires, CreateExpires, conn
<1>2. /\ c \in ClientState /\ live \in BOOLEAN /\ timers \subseteq Message
      /\ c.retry => c.sock = "none"
      /\ c.probe # "no" => c.sock = "open"
      /\ view \in [Message -> Bubble] /\ saved \in [Session -> SUBSET Message]
  BY DEF BaseInv, ClientFormed, WireFormed, SocketInv
<1>3. /\ c' \in ClientState /\ c'.sock = c.sock /\ c'.retry = c.retry /\ c'.probe = c.probe
      /\ c'.shown = c.shown /\ c'.pending = c.pending /\ c'.resume = c.resume
      /\ c'.abandoned = c.abandoned
      /\ c'.queued \in {Unqueued(c, "load"), Unqueued(c, "new")}
  BY <1>2, LoadExpiresClient, CreateExpiresClient
<1>4. c'.queued \in {Null, c.queued} BY <1>3 DEF Unqueued
<1>5. /\ c'.retry => c'.sock = "none"
      /\ c'.probe # "no" => c'.sock = "open"
  BY <1>2, <1>3
<1>6. /\ live' \in BOOLEAN /\ view' \in [Message -> Bubble] /\ timers' \subseteq Message
      /\ saved' \in [Session -> SUBSET Message]
  BY <1>1, <1>2
<1>7. /\ c'.shown \in {Null, c.shown} /\ c'.pending \in {Null, c.pending}
      /\ c'.resume \in {Null, c.resume, c.shown} /\ want' \in {Null, want, c.shown}
      /\ c'.abandoned \subseteq c.abandoned /\ c'.sock = c.sock /\ c' \in ClientState
  BY <1>1, <1>3
<1>8. UNCHANGED <<up, down, srv, log, home>> BY <1>1
<1> QED BY <1>4, <1>5, <1>6, <1>7, <1>8, AloneBase

\* A socket is asked for where there is none.
LEMMA ReconnectBase ==
    ASSUME BaseInv, Reconnect, c.sock # "open",
           UNCHANGED <<timers, saved, home, live, up, down, srv, log, want>>
    PROVE  BaseInv' /\ Grows
<1>1. /\ c \in ClientState /\ live \in BOOLEAN /\ timers \subseteq Message
      /\ view \in [Message -> Bubble] /\ saved \in [Session -> SUBSET Message]
  BY DEF BaseInv, ClientFormed, WireFormed
<1>2. /\ c' \in ClientState /\ c'.sock = "opening" /\ c'.retry = FALSE /\ c'.probe = "no"
      /\ c'.shown = c.shown /\ c'.pending = c.pending /\ c'.resume = c.resume
      /\ c'.abandoned = c.abandoned /\ c'.queued = c.queued
  BY <1>1, ReconnectClient
<1>3. view' \in [Message -> Bubble] BY <1>1, BubblesIs DEF Reconnect
<1> QED BY <1>1, <1>2, <1>3, AloneBase

LEMMA RetryBase ==
    ASSUME BaseInv, RetryFires \/ HandshakeStalls
    PROVE  BaseInv' /\ Grows
<1>1. Reconnect /\ UNCHANGED <<timers, saved, home, live, up, down, srv, log, want>>
  BY DEF RetryFires, HandshakeStalls, conn
<1>2. c.sock # "open" BY DEF RetryFires, HandshakeStalls, BaseInv, SocketInv
<1> QED BY <1>1, <1>2, ReconnectBase

LEMMA ResumesBase ==
    ASSUME BaseInv, Resumes
    PROVE  BaseInv' /\ Grows
<1>1. /\ UNCHANGED <<view, timers, saved, home, live, up, down, srv, log, want>>
      /\ c.sock = "none"
  BY DEF Resumes, conn
<1>2. /\ c \in ClientState /\ live \in BOOLEAN /\ timers \subseteq Message
      /\ view \in [Message -> Bubble] /\ saved \in [Session -> SUBSET Message]
  BY DEF BaseInv, ClientFormed, WireFormed
<1>3. /\ c' \in ClientState /\ c'.sock = "opening" /\ c'.retry = FALSE /\ c'.probe = "no"
      /\ c'.shown = c.shown /\ c'.pending = c.pending /\ c'.resume = c.resume
      /\ c'.abandoned = c.abandoned /\ c'.queued = c.queued
  BY <1>2, ResumesClient
<1> QED BY <1>1, <1>2, <1>3, AloneBase

LEMMA SilentBase ==
    ASSUME BaseInv, GoesSilent
    PROVE  BaseInv' /\ Grows
<1>1. /\ UNCHANGED <<c, view, timers, saved, home, up, down, srv, log, want>>
      /\ live' = FALSE
  BY DEF GoesSilent
<1>2. /\ timers' \subseteq Message /\ live' \in BOOLEAN
      /\ view' \in [Message -> Bubble] /\ saved' \in [Session -> SUBSET Message]
  BY <1>1 DEF BaseInv, ClientFormed
<1> QED BY <1>1, <1>2, AsideBase

LEMMA ProbesSteps ==
    ASSUME BaseInv, Ticks \/ BecomesVisible
    PROVE  /\ UNCHANGED <<view, timers, saved, home, live, down, srv, log, want, dropped, mark>>
           /\ c.sock = "open" /\ up' = Append(up, Frame("ping", Null))
           /\ c' \in ClientState /\ c'.sock = c.sock /\ c'.retry = c.retry
           /\ c'.asleep = c.asleep /\ c'.shown = c.shown
           /\ c'.fresh = c.fresh /\ c'.building = c.building /\ c'.pending = c.pending
           /\ c'.queued = c.queued /\ c'.resume = c.resume /\ c'.hydrated = c.hydrated
           /\ c'.abandoned = c.abandoned /\ c'.loading = c.loading
           /\ c'.resyncing = c.resyncing /\ c'.creating = c.creating
           /\ c'.loadTimer = c.loadTimer /\ c'.createTimer = c.createTimer
<1>1. PICK k \in {"no", "tick", "return"} : Probed(k) BY DEF Ticks, BecomesVisible
<1>2. /\ UNCHANGED <<view, timers, saved, home, live, down, srv, log, want, dropped, mark>>
      /\ Sends(<<Frame("ping", Null)>>)
  BY <1>1 DEF Probed
<1>3. c.sock = "open" BY DEF Ticks, BecomesVisible, Connected
<1>4. Frame("ping", Null) \in UpFrame BY LeaveIs DEF Place, Maybe
<1>5. up' = Append(up, Frame("ping", Null)) BY <1>2, <1>3, <1>4, SendsOne
<1> QED BY <1>1, <1>2, <1>3, <1>5, ProbedClient DEF BaseInv, ClientFormed

LEMMA ProbesBase ==
    ASSUME BaseInv, Ticks \/ BecomesVisible
    PROVE  BaseInv' /\ Grows
<1>1. /\ UNCHANGED <<view, timers, saved, home, live, down, srv, log, want>>
      /\ c.sock = "open" /\ up' = Append(up, Frame("ping", Null))
      /\ c' \in ClientState /\ c'.sock = c.sock /\ c'.retry = c.retry
      /\ c'.shown = c.shown /\ c'.pending = c.pending /\ c'.queued = c.queued
      /\ c'.resume = c.resume /\ c'.abandoned = c.abandoned
  BY ProbesSteps
<1>2. Grows BY <1>1, Unlogged DEF BaseInv
<1>3. Frame("ping", Null) \in UpFrame /\ ~Names(Frame("ping", Null)) BY LeaveIs DEF Place, Maybe
<1>4. WireFormed' /\ WireKnown' BY <1>1, <1>2, <1>3, SentWire
<1>5. ClientFormed' BY <1>1 DEF BaseInv, ClientFormed
<1>6. SocketInv' BY <1>1 DEF BaseInv, SocketInv
<1>7. ClientKnown' BY <1>1, <1>2, NothingNew
<1> QED BY <1>2, <1>4, <1>5, <1>6, <1>7 DEF BaseInv

--------------------
(* The socket goes away, or opens. *)

LEMMA LosingBase ==
    ASSUME BaseInv, LosesSocket, home' = home,
           c' \in ClientState, c'.sock # "open",
           c'.retry => c'.sock = "none", c'.probe = "no",
           view' \in [Message -> Bubble], timers' \subseteq Message,
           saved' \in [Session -> SUBSET Message],
           c'.shown \in {Null, c.shown}, c'.pending \in {Null, c.pending},
           c'.resume \in {Null, c.resume, c.shown}, want' \in {Null, want, c.shown},
           c'.abandoned \subseteq c.abandoned, c'.queued \in {Null, c.queued}
    PROVE  BaseInv' /\ Grows
<1>1. /\ WireFormed' /\ WireKnown' /\ Grows
      /\ up' = <<>> /\ down' = <<>> /\ srv' = NoSocket
  BY LostWire
<1>2. ClientFormed'
  <2>1. home' \in [Message -> Place] BY DEF BaseInv, ClientFormed
  <2> QED BY <2>1, StillFormed
<1>3. SocketInv' BY <1>1 DEF SocketInv
<1>4. ClientKnown' BY <1>1, NothingNew
<1> QED BY <1>1, <1>2, <1>3, <1>4 DEF BaseInv

LEMMA ClosesBase ==
    ASSUME BaseInv, Closes
    PROVE  BaseInv' /\ Grows
<1>1. /\ UNCHANGED <<view, timers, saved, home, want>> /\ LosesSocket BY DEF Closes
<1>2. /\ c \in ClientState /\ timers' \subseteq Message
      /\ view' \in [Message -> Bubble] /\ saved' \in [Session -> SUBSET Message]
  BY <1>1 DEF BaseInv, ClientFormed
<1>3. /\ c' \in ClientState /\ c'.sock = "none" /\ c'.probe = "no"
      /\ c'.shown = c.shown /\ c'.pending = c.pending /\ c'.resume = c.resume
      /\ c'.abandoned = c.abandoned /\ c'.queued = c.queued
  BY <1>2, ClosesClient
<1> QED BY <1>1, <1>2, <1>3, LosingBase

LEMMA SuspendsBase ==
    ASSUME BaseInv, Suspends
    PROVE  BaseInv' /\ Grows
<1>1. /\ UNCHANGED <<view, timers, saved, home, want>> /\ LosesSocket BY DEF Suspends
<1>2. /\ c \in ClientState /\ timers' \subseteq Message
      /\ view' \in [Message -> Bubble] /\ saved' \in [Session -> SUBSET Message]
  BY <1>1 DEF BaseInv, ClientFormed
<1>3. /\ c' \in ClientState /\ c'.sock = "none" /\ c'.probe = "no"
      /\ c'.shown = c.shown /\ c'.pending = c.pending
      /\ c'.resume = (IF c.shown # Null THEN c.shown ELSE c.resume)
      /\ c'.abandoned = c.abandoned /\ c'.queued = c.queued
  BY <1>2, SuspendsClient
<1> QED BY <1>1, <1>2, <1>3, LosingBase

LEMMA ProbeExpiresBase ==
    ASSUME BaseInv, ProbeExpires
    PROVE  BaseInv' /\ Grows
<1>1. /\ UNCHANGED <<timers, saved, home, want>> /\ LosesSocket
      /\ view' \in {view, NoBubbles}
  BY DEF ProbeExpires
<1>2. /\ c \in ClientState /\ timers' \subseteq Message
      /\ view' \in [Message -> Bubble] /\ saved' \in [Session -> SUBSET Message]
  BY <1>1, BubblesIs DEF BaseInv, ClientFormed
<1>3. /\ c' \in ClientState /\ c'.sock # "open" /\ c'.probe = "no"
      /\ c'.retry => c'.sock = "none"
      /\ c'.shown = c.shown /\ c'.pending = c.pending /\ c'.resume = c.resume
      /\ c'.abandoned = c.abandoned /\ c'.queued = c.queued
  BY <1>2, ExpiresReturn, ExpiresTick
<1> QED BY <1>1, <1>2, <1>3, LosingBase

LEMMA ReloadsSteps ==
    ASSUME BaseInv, ReloadsPage
    PROVE  \E s \in {Null, c.shown} :
           /\ c' \in ClientState /\ c'.sock = "opening" /\ c'.retry = FALSE
           /\ c'.asleep = FALSE /\ c'.probe = "no" /\ c'.shown = s /\ c'.fresh = FALSE
           /\ c'.building = FALSE /\ c'.pending = Null /\ c'.queued = Null
           /\ c'.resume = Null /\ c'.hydrated = s /\ c'.abandoned = {} /\ c'.loading = FALSE
           /\ c'.resyncing = (s # Null) /\ c'.creating = FALSE /\ c'.loadTimer = FALSE
           /\ c'.createTimer = FALSE /\ want' = s
<1>1. c \in ClientState BY DEF BaseInv, ClientFormed
<1>2. PICK s \in {Null, c.shown} :
         /\ c' = [IdleClient EXCEPT !.sock = "opening", !.shown = s, !.hydrated = s,
                                    !.resyncing = s # Null]
         /\ want' = s
  BY DEF ReloadsPage
<1> WITNESS s \in {Null, c.shown}
<1> QED BY <1>1, <1>2, ReloadedIs

LEMMA ReloadsBase ==
    ASSUME BaseInv, ReloadsPage
    PROVE  BaseInv' /\ Grows
<1>1. /\ UNCHANGED <<saved, home>> /\ LosesSocket /\ view' = NoBubbles /\ timers' = {}
  BY DEF ReloadsPage
<1>2. /\ timers' \subseteq Message
      /\ view' \in [Message -> Bubble] /\ saved' \in [Session -> SUBSET Message]
  BY <1>1, BubblesIs DEF BaseInv, ClientFormed
<1>3. /\ c' \in ClientState /\ c'.sock = "opening" /\ c'.retry = FALSE /\ c'.probe = "no"
      /\ c'.shown \in {Null, c.shown} /\ c'.pending = Null /\ c'.resume = Null
      /\ c'.abandoned = {} /\ c'.queued = Null /\ want' \in {Null, want, c.shown}
  BY ReloadsSteps
<1> QED BY <1>1, <1>2, <1>3, LosingBase

LEMMA RejoinsClient ==
    ASSUME c \in ClientState, NEW STATE s, s \in Session,
           c' = Rejoin(c, s)
    PROVE  /\ c' \in ClientState /\ c'.sock = "open" /\ c'.retry = c.retry
           /\ c'.asleep = c.asleep /\ c'.probe = c.probe /\ c'.shown = c.shown
           /\ c'.fresh = FALSE /\ c'.building = c.building /\ c'.pending = s /\ c'.queued = Null
           /\ c'.resume = Null /\ c'.hydrated = c.hydrated /\ c'.abandoned = {}
           /\ c'.loading = c.loading /\ c'.resyncing = TRUE /\ c'.creating = c.creating
           /\ c'.loadTimer = TRUE /\ c'.createTimer = c.createTimer
<1>1. s \in Place /\ Null \in Place /\ Null \in Maybe(Request) BY DEF Place, Maybe
<1> QED BY <1>1 DEF Rejoin, Opened, ClientState

LEMMA ReplayLoadClient ==
    ASSUME c \in ClientState, NEW STATE r, r \in Request, r.do = "load",
           c' = Replay(c, r)
    PROVE  /\ c' \in ClientState /\ c'.sock = "open" /\ c'.retry = c.retry
           /\ c'.asleep = c.asleep /\ c'.probe = c.probe /\ c'.shown = c.shown
           /\ c'.fresh = c.fresh /\ c'.building = c.building /\ c'.pending = r.of
           /\ c'.queued = Null /\ c'.resume = Null /\ c'.hydrated = c.hydrated
           /\ c'.abandoned = {} /\ c'.loading = TRUE /\ c'.resyncing = FALSE
           /\ c'.creating = c.creating /\ c'.loadTimer = TRUE /\ c'.createTimer = c.createTimer
<1>1. r.of \in Place /\ Null \in Place /\ Null \in Maybe(Request) BY DEF Place, Maybe, Request
<1> QED BY <1>1 DEF Replay, Opened, ClientState

LEMMA ReplayNewClient ==
    ASSUME c \in ClientState, NEW STATE r, r \in Request, r.do = "new",
           c' = Replay(c, r)
    PROVE  /\ c' \in ClientState /\ c'.sock = "open" /\ c'.retry = c.retry
           /\ c'.asleep = c.asleep /\ c'.probe = c.probe /\ c'.shown = c.shown
           /\ c'.fresh = c.fresh /\ c'.building = c.building /\ c'.pending = Null
           /\ c'.queued = Null /\ c'.resume = Null /\ c'.hydrated = c.hydrated
           /\ c'.abandoned = {} /\ c'.loading = FALSE /\ c'.resyncing = FALSE
           /\ c'.creating = TRUE /\ c'.loadTimer = c.loadTimer /\ c'.createTimer = TRUE
<1>1. r.of \in Place /\ Null \in Place /\ Null \in Maybe(Request) BY DEF Place, Maybe, Request
<1> QED BY <1>1 DEF Replay, Opened, ClientState

\* onOpen: the replay of a queued request, the rejoin, or neither.
LEMMA OpensSteps ==
    ASSUME BaseInv, Opens
    PROVE  /\ UNCHANGED <<view, timers, saved, home, live, down, srv, log, want, dropped, mark>>
           /\ c.sock = "opening" /\ up = <<>> /\ down = <<>> /\ srv = NoSocket
           /\ c' \in ClientState /\ c'.sock = "open" /\ c'.retry = c.retry
           /\ c'.asleep = c.asleep /\ c'.probe = c.probe /\ c'.shown = c.shown
           /\ c'.hydrated = c.hydrated /\ c'.queued = Null /\ c'.resume = Null
           /\ c'.abandoned = {} /\ c'.loadTimer \in {c.loadTimer, TRUE}
           /\ \/ \E r \in Request :
                   /\ r = c.queued /\ up' = <<Asks(r)>> /\ c'.fresh = c.fresh
                   /\ c'.resyncing = FALSE
                   /\ \/ /\ r.do = "load" /\ c'.pending = r.of /\ c'.loading = TRUE
                         /\ c'.creating = c.creating /\ c'.loadTimer = TRUE
                         /\ c'.createTimer = c.createTimer
                      \/ /\ r.do = "new" /\ c'.pending = Null /\ c'.creating = TRUE
                         /\ c'.loading = FALSE /\ c'.createTimer = TRUE
              \/ \E s \in Session :
                   /\ s \in {c.resume, c.shown} /\ s = RejoinTarget(c)
                   /\ c.queued \in {Null, Load(s)}
                   /\ up' = <<Asks(Load(s))>> /\ c'.pending = s /\ c'.fresh = FALSE
                   /\ c'.resyncing = TRUE /\ c'.loading = c.loading /\ c'.loadTimer = TRUE
                   /\ c'.creating = c.creating /\ c'.createTimer = c.createTimer
              \/ /\ c.resume = Null /\ c.shown = Null /\ up' = <<>>
                 /\ c.queued = Null
                 /\ c'.pending = c.pending /\ c'.fresh = c.fresh
                 /\ c'.resyncing = FALSE /\ c'.loading = c.loading
                 /\ c'.loadTimer = c.loadTimer
                 /\ c'.creating = c.creating /\ c'.createTimer = c.createTimer
<1>7. PICK r : r = Replayed(c) OBVIOUS
<1>8. PICK s : s = RejoinTarget(c) OBVIOUS
<1>1. /\ UNCHANGED <<view, timers, saved, home, live, down, srv, log, want, dropped, mark>>
      /\ c.sock = "opening"
  BY DEF Opens
<1>2. /\ up = <<>> /\ down = <<>> /\ srv = NoSocket /\ c \in ClientState
      /\ c.queued \in Maybe(Request) /\ {c.resume, c.shown} \subseteq Maybe(Session)
  BY <1>1 DEF BaseInv, SocketInv, ClientFormed, ClientState, Place
<1>3. /\ s \in {c.resume, c.shown} /\ r \in {Null, c.queued}
      /\ c.queued # Null /\ r = Null => c.queued = Load(s)
      /\ s = Null => c.resume = Null /\ c.shown = Null
  BY <1>7, <1>8 DEF RejoinTarget, Replayed
<1>4. CASE r # Null
  <2>1. c' = Replay(c, r) /\ up' = <<Asks(r)>> BY <1>4, <1>7 DEF Opens
  <2>2. r \in Request /\ r = c.queued BY <1>2, <1>3, <1>4 DEF Maybe
  <2>3. CASE r.do = "load"
    <3>1. /\ c' \in ClientState /\ c'.sock = "open" /\ c'.retry = c.retry
          /\ c'.asleep = c.asleep /\ c'.probe = c.probe /\ c'.shown = c.shown
          /\ c'.fresh = c.fresh /\ c'.pending = r.of
          /\ c'.queued = Null /\ c'.resume = Null /\ c'.hydrated = c.hydrated
          /\ c'.abandoned = {} /\ c'.loading = TRUE /\ c'.resyncing = FALSE
          /\ c'.creating = c.creating /\ c'.loadTimer = TRUE /\ c'.createTimer = c.createTimer
      BY <1>2, <2>1, <2>2, <2>3, ReplayLoadClient
    <3> QED BY <1>1, <1>2, <2>1, <2>2, <2>3, <3>1
  <2>4. CASE r.do = "new"
    <3>1. /\ c' \in ClientState /\ c'.sock = "open" /\ c'.retry = c.retry
          /\ c'.asleep = c.asleep /\ c'.probe = c.probe /\ c'.shown = c.shown
          /\ c'.fresh = c.fresh /\ c'.pending = Null
          /\ c'.queued = Null /\ c'.resume = Null /\ c'.hydrated = c.hydrated
          /\ c'.abandoned = {} /\ c'.loading = FALSE /\ c'.resyncing = FALSE
          /\ c'.creating = TRUE /\ c'.loadTimer = c.loadTimer /\ c'.createTimer = TRUE
      BY <1>2, <2>1, <2>2, <2>4, ReplayNewClient
    <3> QED BY <1>1, <1>2, <2>1, <2>2, <2>4, <3>1
  <2> QED BY <2>2, <2>3, <2>4 DEF Request
<1>5. CASE r = Null /\ s # Null
  <2>1. c' = Rejoin(c, s) /\ up' = <<Asks(Load(s))>> BY <1>5, <1>7, <1>8 DEF Opens
  <2>2. s \in Session /\ c.queued \in {Null, Load(s)} BY <1>2, <1>3, <1>5 DEF Maybe
  <2>4. /\ c' \in ClientState /\ c'.sock = "open" /\ c'.retry = c.retry
        /\ c'.asleep = c.asleep /\ c'.probe = c.probe /\ c'.shown = c.shown
        /\ c'.fresh = FALSE /\ c'.pending = s /\ c'.queued = Null
        /\ c'.resume = Null /\ c'.hydrated = c.hydrated /\ c'.abandoned = {}
        /\ c'.loading = c.loading /\ c'.resyncing = TRUE /\ c'.creating = c.creating
        /\ c'.loadTimer = TRUE /\ c'.createTimer = c.createTimer
    BY <1>2, <2>1, <2>2, RejoinsClient
  <2> QED BY <1>1, <1>2, <1>3, <1>8, <2>1, <2>2, <2>4
<1>6. CASE r = Null /\ s = Null
  <2>1. c' = [Opened(c) EXCEPT !.resyncing = FALSE] /\ up' = up BY <1>6, <1>7, <1>8 DEF Opens
  <2>2. c.queued = Null /\ c.resume = Null /\ c.shown = Null
    <3>1. c.queued \in {Null, Load(Null)} /\ c.resume = Null /\ c.shown = Null BY <1>3, <1>6
    <3>2. Load(Null) \notin Request BY SessionShape DEF Load, Request
    <3> QED BY <1>2, <3>1, <3>2 DEF Maybe
  <2> DEFINE o == Opened(c)
  <2>3. /\ o \in ClientState /\ o.sock = "open" /\ o.retry = c.retry
        /\ o.asleep = c.asleep /\ o.probe = c.probe /\ o.shown = c.shown
        /\ o.fresh = c.fresh /\ o.pending = c.pending
        /\ o.queued = Null /\ o.resume = Null /\ o.hydrated = c.hydrated
        /\ o.abandoned = {} /\ o.loading = c.loading
        /\ o.creating = c.creating /\ o.loadTimer = c.loadTimer
        /\ o.createTimer = c.createTimer
    BY <1>2, OpenedIs
  <2>4. c' = [o EXCEPT !.resyncing = FALSE] BY <2>1
  <2> HIDE DEF o
  <2>5. /\ c' \in ClientState /\ c'.sock = "open" /\ c'.retry = c.retry
        /\ c'.asleep = c.asleep /\ c'.probe = c.probe /\ c'.shown = c.shown
        /\ c'.fresh = c.fresh /\ c'.pending = c.pending
        /\ c'.queued = Null /\ c'.resume = Null /\ c'.hydrated = c.hydrated
        /\ c'.abandoned = {} /\ c'.loading = c.loading /\ c'.resyncing = FALSE
        /\ c'.creating = c.creating /\ c'.loadTimer = c.loadTimer
        /\ c'.createTimer = c.createTimer
    BY <2>3, <2>4 DEF ClientState
  <2> QED BY <1>1, <1>2, <2>1, <2>2, <2>5
<1> QED BY <1>4, <1>5, <1>6

LEMMA OpensBase ==
    ASSUME BaseInv, Opens
    PROVE  BaseInv' /\ Grows
<1>1. /\ UNCHANGED <<view, timers, saved, home, live, down, srv, log, want>>
      /\ c.sock = "opening" /\ up = <<>>
      /\ c' \in ClientState /\ c'.sock = "open" /\ c'.retry = c.retry /\ c'.probe = c.probe
      /\ c'.shown = c.shown /\ c'.queued = Null /\ c'.resume = Null
      /\ c'.abandoned = {}
  BY OpensSteps
<1>2. Grows /\ Known' = Known BY <1>1, Unlogged DEF BaseInv
<1>3. CASE up' = <<>> /\ c'.pending = c.pending
  <2>1. WireFormed' /\ WireKnown'
    <3>1. live' \in BOOLEAN BY <1>1 DEF BaseInv, WireFormed
    <3> QED BY <1>1, <1>2, <1>3, <3>1, StillWire
  <2>2. ClientFormed' BY <1>1 DEF BaseInv, ClientFormed
  <2>3. SocketInv' BY <1>1 DEF BaseInv, SocketInv
  <2>4. ClientKnown' BY <1>1, <1>2, <1>3, NothingNew
  <2> QED BY <1>2, <2>1, <2>2, <2>3, <2>4 DEF BaseInv
<1>4. ASSUME NEW r \in Request, r.of \in Known, r.do = "new" => r.of \in NewSession,
             up' = <<Asks(r)>>, c'.pending \in {Null, r.of}
      PROVE  BaseInv'
  <2>1. Asks(r) \in UpFrame /\ Asks(r).s = r.of BY <1>4, AsksIs
  <2> DEFINE x == Asks(r)
  <2>2. up' = Append(up, x)
    <3>1. up \in Seq(UpFrame) BY DEF BaseInv, WireFormed
    <3>2. <<>> \o <<x>> = <<x>> /\ up \o <<x>> = Append(up, x)
      BY <2>1, <3>1, OneMore, ConcatEmptySeq
    <3> QED BY <1>1, <1>4, <3>2
  <2>3. WireFormed' /\ WireKnown' BY <1>1, <1>2, <1>4, <2>1, <2>2, SentWire
  <2>4. ClientFormed' BY <1>1 DEF BaseInv, ClientFormed
  <2>5. SocketInv' BY <1>1 DEF BaseInv, SocketInv
  <2>6. ClientKnown'
    <3>1. {c'.shown, c'.pending, c'.resume, want'} \subseteq Maybe(Known')
      BY <1>1, <1>2, <1>4 DEF BaseInv, ClientKnown, Maybe
    <3> QED BY <1>1, <1>2, <3>1, ClientNames
  <2> QED BY <2>3, <2>4, <2>5, <2>6 DEF BaseInv
<1>5. ASSUME NEW r \in Request, r = c.queued, up' = <<Asks(r)>>, c'.pending \in {Null, r.of}
      PROVE  BaseInv'
  <2>1. r # Null BY SessionShape
  <2>2. r.of \in Known /\ (r.do = "new" => r.of \in NewSession)
    BY <1>5, <2>1 DEF BaseInv, ClientKnown
  <2> QED BY <1>4, <1>5, <2>2
<1>6. ASSUME NEW s \in Session, s \in {c.resume, c.shown}, up' = <<Asks(Load(s))>>, c'.pending = s
      PROVE  BaseInv'
  <2>1. Load(s) \in Request /\ Load(s).do = "load" /\ Load(s).of = s BY LoadIs
  <2>2. s \in Known BY <1>6, SessionShape DEF BaseInv, ClientKnown, Maybe
  <2> QED BY <1>4, <1>6, <2>1, <2>2
<1>7. \/ up' = <<>> /\ c'.pending = c.pending
      \/ \E r \in Request : r = c.queued /\ up' = <<Asks(r)>> /\ c'.pending \in {Null, r.of}
      \/ \E s \in Session : /\ s \in {c.resume, c.shown} /\ up' = <<Asks(Load(s))>>
                            /\ c'.pending = s
  BY OpensSteps
<1> QED BY <1>2, <1>3, <1>5, <1>6, <1>7

--------------------
(* What the server answers. *)

LEMMA ReadsSteps ==
    ASSUME BaseInv, Reads
    PROVE  /\ UNCHANGED <<home, live, up, srv, log, want, dropped>>
           /\ c.sock = "open" /\ live /\ down # <<>> /\ down' = Tail(down)
           /\ WireFormed' /\ WireKnown' /\ Grows /\ Known' = Known
           /\ \E f \in DownFrame :
                /\ f = down[1] /\ (Names(f) => f.s \in Known)
                /\ \/ f.t = "created" /\ OnCreated(f)
                   \/ f.t = "history" /\ OnHistory(f)
                   \/ f.t = "ready" /\ OnReady(f)
                   \/ f.t = "ack" /\ OnAck(f)
                   \/ f.t = "error" /\ OnError(f)
                   \/ f.t = "destroyed" /\ OnDestroyed(f)
                   \/ f.t = "pong" /\ OnPong(f)
<1>1. /\ UNCHANGED <<home, live, up, srv, log, want, dropped>>
      /\ c.sock = "open" /\ live /\ down # <<>> /\ down' = Tail(down)
  BY DEF Reads, Connected
<1>2. Grows /\ Known' = Known BY <1>1, Unlogged DEF BaseInv
<1>3. down \in Seq(DownFrame) BY DEF BaseInv, WireFormed
<1>4. /\ Len(down) \in Nat \ {0} /\ Head(down) = down[1] /\ down[1] \in DownFrame
      /\ Tail(down) \in Seq(DownFrame) /\ Len(Tail(down)) = Len(down) - 1
      /\ \A i \in 1..Len(Tail(down)) : i + 1 \in 1..Len(down) /\ Tail(down)[i] = down[i + 1]
  BY <1>1, <1>3, Taken
<1>5. \A i \in 1..Len(down) : Names(down[i]) => down[i].s \in Known BY DEF BaseInv, WireKnown
<1>6. \A i \in 1..Len(down') : Names(down'[i]) => down'[i].s \in Known BY <1>1, <1>4, <1>5
<1>7. WireFormed' BY <1>1, <1>2, <1>4 DEF BaseInv, WireFormed
<1>8. WireKnown' BY <1>1, <1>2, <1>6 DEF BaseInv, WireKnown
<1> DEFINE f == down[1]
<1>9. /\ f \in DownFrame /\ (Names(f) => f.s \in Known)
      /\ \/ f.t = "created" /\ OnCreated(f)
         \/ f.t = "history" /\ OnHistory(f)
         \/ f.t = "ready" /\ OnReady(f)
         \/ f.t = "ack" /\ OnAck(f)
         \/ f.t = "error" /\ OnError(f)
         \/ f.t = "destroyed" /\ OnDestroyed(f)
         \/ f.t = "pong" /\ OnPong(f)
  <2>1. 1 \in 1..Len(down) BY <1>4
  <2>2. f \in DownFrame /\ (Names(f) => f.s \in Known) BY <1>4, <1>5, <2>1
  <2>3. \/ Head(down).t = "created" /\ OnCreated(Head(down))
        \/ Head(down).t = "history" /\ OnHistory(Head(down))
        \/ Head(down).t = "ready" /\ OnReady(Head(down))
        \/ Head(down).t = "ack" /\ OnAck(Head(down))
        \/ Head(down).t = "error" /\ OnError(Head(down))
        \/ Head(down).t = "destroyed" /\ OnDestroyed(Head(down))
        \/ Head(down).t = "pong" /\ OnPong(Head(down))
    BY DEF Reads
  <2>4. Head(down) = f BY <1>4
  <2> HIDE DEF f
  <2> QED BY <2>2, <2>3, <2>4
<1> QED BY <1>1, <1>2, <1>7, <1>8, <1>9

\* The transcript rules what is on screen.
LEMMA HistorySteps ==
    ASSUME BaseInv, NEW f \in DownFrame, f.s \in Session, OnHistory(f), ~Stale(f)
    PROVE  /\ view' \in [Message -> Bubble]
           /\ \A m \in Message : view'[m] = IF m \in Undelivered(f.s, f.of) THEN "failed"
                                            ELSE IF m \in f.of THEN "plain" ELSE "none"
           /\ Unconfirmed(view') = Undelivered(f.s, f.of) \cap Message
           /\ timers' = timers \ Candidates(f.s)
           /\ saved' \in [Session -> SUBSET Message] /\ saved'[f.s] = Unconfirmed(view')
           /\ \A r \in Session \ {f.s} : saved'[r] = saved[r]
           /\ mark' = IF \E m \in Unconfirmed(view) : home[m] # f.s THEN mark \cup {"moved"} ELSE mark
<1> DEFINE U == Undelivered(f.s, f.of)
<1>1. /\ view' = [m \in Message |-> IF m \in U THEN "failed"
                                    ELSE IF m \in f.of THEN "plain" ELSE "none"]
      /\ timers' = timers \ Candidates(f.s) /\ Persists(f.s, view')
      /\ mark' = IF \E m \in Unconfirmed(view) : home[m] # f.s THEN mark \cup {"moved"} ELSE mark
  BY DEF OnHistory
<1>2. /\ saved' \in [Session -> SUBSET Message] /\ saved'[f.s] = Unconfirmed(view')
      /\ \A r \in Session \ {f.s} : saved'[r] = saved[r]
  BY <1>1, PersistsIs DEF BaseInv, ClientFormed
<1> HIDE DEF U
<1>3. view' \in [Message -> Bubble] BY <1>1 DEF Bubble
<1>4. \A m \in Message : view'[m] = IF m \in U THEN "failed"
                                    ELSE IF m \in f.of THEN "plain" ELSE "none"
  BY <1>1
<1>5. Unconfirmed(view') = U \cap Message BY <1>4 DEF Unconfirmed
<1> QED BY <1>1, <1>2, <1>3, <1>4, <1>5 DEF U

LEMMA AckSteps ==
    ASSUME BaseInv, NEW f \in DownFrame, f.m \in Message, OnAck(f)
    PROVE  \/ Acked(f) = {} /\ UNCHANGED <<view, timers, saved, mark>>
           \/ \E m \in Acked(f) :
                /\ m \in Message /\ m = Oldest(Acked(f)) /\ view[m] \in {"sending", "failed"}
                /\ view' \in [Message -> Bubble] /\ view'[m] = "plain"
                /\ \A k \in Message \ {m} : view'[k] = view[k]
                /\ Unconfirmed(view') = Unconfirmed(view) \ {m}
                /\ timers' = timers \ {m}
                /\ mark' = IF m # f.m \/ home[m] # f.s THEN mark \cup {"mistaken"} ELSE mark
                /\ saved' \in [Session -> SUBSET Message]
                /\ IF c.shown = Null THEN saved' = saved
                   ELSE /\ saved'[c.shown] = Unconfirmed(view')
                        /\ \A r \in Session \ {c.shown} : saved'[r] = saved[r]
<1>1. CASE Acked(f) = {} BY <1>1 DEF OnAck
<1>2. CASE Acked(f) # {}
  <2> DEFINE m == Oldest(Acked(f))
  <2>1. m \in Acked(f)
    <3>1. Acked(f) \subseteq Message BY DEF Acked, Unconfirmed
    <3>2. \E k \in Acked(f) : \A n \in Acked(f) : k <= n BY <1>2, <3>1, LeastMessage
    <3> QED BY <3>2 DEF Oldest
  <2>2. m \in Message /\ view[m] \in {"sending", "failed"} BY <2>1 DEF Acked, Unconfirmed
  <2>3. /\ view' = [view EXCEPT ![m] = "plain"]
        /\ timers' = timers \ {m}
        /\ IF c.shown # Null THEN Persists(c.shown, view') ELSE UNCHANGED saved
        /\ mark' = IF m # f.m \/ home[m] # f.s THEN mark \cup {"mistaken"} ELSE mark
    BY <1>2 DEF OnAck
  <2>4. m = Oldest(Acked(f)) OBVIOUS
  <2> HIDE DEF m
  <2>5. "plain" \in Bubble /\ view \in [Message -> Bubble] /\ saved \in [Session -> SUBSET Message]
    BY DEF Bubble, BaseInv, ClientFormed
  <2>6. /\ view' \in [Message -> Bubble] /\ view'[m] = "plain"
        /\ \A k \in Message \ {m} : view'[k] = view[k]
    BY <2>2, <2>3, <2>5, MarkedIs
  <2>7. Unconfirmed(view') = Unconfirmed(view) \ {m} BY <2>2, <2>6 DEF Unconfirmed
  <2>8. /\ saved' \in [Session -> SUBSET Message]
        /\ IF c.shown = Null THEN saved' = saved
           ELSE /\ saved'[c.shown] = Unconfirmed(view')
                /\ \A r \in Session \ {c.shown} : saved'[r] = saved[r]
    <3>1. CASE c.shown = Null BY <2>3, <2>5, <3>1
    <3>2. CASE c.shown # Null
      <4>1. c.shown \in Session BY <3>2, ShownIs
      <4> QED BY <2>3, <2>5, <3>2, <4>1, PersistsIs
    <3> QED BY <3>1, <3>2
  <2>9. m \in Acked(f) /\ m = Oldest(Acked(f)) BY <2>1, <2>4
  <2> QED BY <2>2, <2>3, <2>6, <2>7, <2>8, <2>9
<1> QED BY <1>1, <1>2

LEMMA ReadsBase ==
    ASSUME BaseInv, Reads
    PROVE  BaseInv' /\ Grows
<1>1. /\ UNCHANGED <<home, live, up, srv, log, want>>
      /\ c.sock = "open"
      /\ WireFormed' /\ WireKnown' /\ Grows /\ Known' = Known
  BY ReadsSteps
<1>2. PICK f \in DownFrame :
        /\ f = down[1] /\ (Names(f) => f.s \in Known)
        /\ \/ f.t = "created" /\ OnCreated(f)
           \/ f.t = "history" /\ OnHistory(f)
           \/ f.t = "ready" /\ OnReady(f)
           \/ f.t = "ack" /\ OnAck(f)
           \/ f.t = "error" /\ OnError(f)
           \/ f.t = "destroyed" /\ OnDestroyed(f)
           \/ f.t = "pong" /\ OnPong(f)
  BY ReadsSteps
<1>3. /\ c \in ClientState /\ view \in [Message -> Bubble] /\ timers \subseteq Message
      /\ saved \in [Session -> SUBSET Message] /\ home \in [Message -> Place] /\ want \in Place
      /\ c.retry => c.sock = "none"
  BY DEF BaseInv, ClientFormed, SocketInv
<1>4. ASSUME c' \in ClientState, c'.sock = c.sock, c'.retry = c.retry, c'.probe = "no",
             view' \in [Message -> Bubble], timers' \subseteq Message,
             saved' \in [Session -> SUBSET Message], ClientKnown'
      PROVE  BaseInv'
  <2>1. ClientFormed' BY <1>1, <1>3, <1>4 DEF ClientFormed
  <2>2. SocketInv' BY <1>1, <1>3, <1>4 DEF SocketInv
  <2> QED BY <1>1, <1>4, <2>1, <2>2 DEF BaseInv
<1>5. ASSUME c'.shown \in {Null, c.shown}, c'.pending \in {Null, c.pending},
             c'.resume = c.resume, c'.abandoned = c.abandoned, c'.queued = c.queued
      PROVE  ClientKnown'
  BY <1>1, <1>5, NothingNew
<1>6. CASE f.t = "created" /\ OnCreated(f)
  <2>1. f.s \in Known /\ f.s \in Session BY <1>2, <1>6 DEF Names, Known
  <2>2. UNCHANGED <<view, timers, saved>> BY <1>6 DEF OnCreated
  <2>3. CASE Accepts(c, f.s)
    <3>1. /\ c' \in ClientState /\ c'.sock = c.sock /\ c'.retry = c.retry /\ c'.probe = "no"
          /\ c'.shown = f.s /\ c'.pending = Null /\ c'.queued = c.queued
          /\ c'.resume = c.resume /\ c'.abandoned = (c.abandoned \ {f.s})
      BY <1>3, <1>6, <2>1, <2>3, AcceptedClient
    <3>2. ClientKnown'
      <4>1. {c'.shown, c'.pending, c'.resume, want'} \subseteq Maybe(Known')
        BY <1>1, <2>1, <3>1 DEF BaseInv, ClientKnown, Maybe
      <4>2. c'.abandoned \subseteq Known' BY <1>1, <3>1 DEF BaseInv, ClientKnown
      <4>3. c'.queued # Null => /\ c'.queued.of \in Known'
                                /\ c'.queued.do = "new" => c'.queued.of \in NewSession
        BY <1>1, <3>1 DEF BaseInv, ClientKnown
      <4> QED BY <1>1, <4>1, <4>2, <4>3, ClientNames
    <3> QED BY <1>1, <1>3, <1>4, <2>2, <3>1, <3>2
  <2>4. CASE ~Accepts(c, f.s)
    <3>1. /\ c' \in ClientState /\ c'.sock = c.sock /\ c'.retry = c.retry /\ c'.probe = "no"
          /\ c'.shown = c.shown /\ c'.pending = c.pending /\ c'.queued = c.queued
          /\ c'.resume = c.resume /\ c'.abandoned = (c.abandoned \cup ({f.s} \ {c.shown}))
      BY <1>3, <1>6, <2>1, <2>4, RejectedClient
    <3>2. ClientKnown'
      <4>1. {c'.shown, c'.pending, c'.resume, want'} \subseteq Maybe(Known')
        BY <1>1, <3>1 DEF BaseInv, ClientKnown, Maybe
      <4>2. c'.abandoned \subseteq Known' BY <1>1, <2>1, <3>1 DEF BaseInv, ClientKnown
      <4>3. c'.queued # Null => /\ c'.queued.of \in Known'
                                /\ c'.queued.do = "new" => c'.queued.of \in NewSession
        BY <1>1, <3>1 DEF BaseInv, ClientKnown
      <4> QED BY <1>1, <4>1, <4>2, <4>3, ClientNames
    <3> QED BY <1>1, <1>3, <1>4, <2>2, <3>1, <3>2
  <2> QED BY <2>3, <2>4
<1>7. CASE f.t = "history" /\ OnHistory(f)
  <2>1. f.s \in Session BY <1>2, <1>7 DEF Names, Known
  <2>2. view' \in [Message -> Bubble] /\ timers' \subseteq Message /\ saved' \in [Session -> SUBSET Message]
    <3>1. CASE Stale(f) BY <1>3, <1>7, <3>1 DEF OnHistory
    <3>2. CASE ~Stale(f) BY <1>3, <1>7, <2>1, <3>2, HistorySteps
    <3> QED BY <3>1, <3>2
  <2>3. /\ c' \in ClientState /\ c'.sock = c.sock /\ c'.retry = c.retry /\ c'.probe = "no"
        /\ c'.shown = c.shown /\ c'.pending = c.pending /\ c'.queued = c.queued
        /\ c'.resume = c.resume /\ c'.abandoned = c.abandoned
    BY <1>3, <1>7, HistoryClient
  <2> QED BY <1>1, <1>4, <1>5, <2>2, <2>3
<1>8. CASE f.t = "ready" /\ OnReady(f)
  <2>1. UNCHANGED <<view, timers, saved>> BY <1>8 DEF OnReady
  <2>2. /\ c' \in ClientState /\ c'.sock = c.sock /\ c'.retry = c.retry /\ c'.probe = "no"
        /\ c'.shown = c.shown /\ c'.pending = c.pending /\ c'.queued = c.queued
        /\ c'.resume = c.resume /\ c'.abandoned = c.abandoned
    BY <1>3, <1>8, ReadyClient
  <2> QED BY <1>1, <1>3, <1>4, <1>5, <2>1, <2>2
<1>9. CASE f.t = "ack" /\ OnAck(f)
  <2>1. f.m \in Message BY <1>2, <1>9 DEF DownFrame
  <2>2. view' \in [Message -> Bubble] /\ timers' \subseteq Message /\ saved' \in [Session -> SUBSET Message]
    BY <1>3, <1>9, <2>1, AckSteps
  <2>3. /\ c' \in ClientState /\ c'.sock = c.sock /\ c'.retry = c.retry /\ c'.probe = "no"
        /\ c'.shown = c.shown /\ c'.pending = c.pending /\ c'.queued = c.queued
        /\ c'.resume = c.resume /\ c'.abandoned = c.abandoned
    BY <1>3, <1>9, AckClient
  <2> QED BY <1>1, <1>4, <1>5, <2>2, <2>3
<1>10. CASE f.t = "error" /\ OnError(f)
  <2>1. CASE RejectsPaint(f)
    <3>1. view' = NoBubbles /\ UNCHANGED <<timers, saved>> BY <1>10, <2>1 DEF OnError
    <3>2. /\ c' \in ClientState /\ c'.sock = c.sock /\ c'.retry = c.retry /\ c'.probe = "no"
          /\ c'.shown = Null /\ c'.pending = Null /\ c'.queued = c.queued
          /\ c'.resume = c.resume /\ c'.abandoned = c.abandoned
      BY <1>3, <1>10, <2>1, PaintRejectedClient
    <3> QED BY <1>1, <1>3, <1>4, <1>5, <3>1, <3>2, BubblesIs
  <2>2. CASE ~RejectsPaint(f)
    <3>1. UNCHANGED <<view, timers, saved>> BY <1>10, <2>2 DEF OnError
    <3>2. /\ c' \in ClientState /\ c'.sock = c.sock /\ c'.retry = c.retry /\ c'.probe = "no"
          /\ c'.shown = c.shown /\ c'.pending = c.pending /\ c'.queued = c.queued
          /\ c'.resume = c.resume /\ c'.abandoned = c.abandoned
      BY <1>3, <1>10, <2>2, ErrorClient
    <3> QED BY <1>1, <1>3, <1>4, <1>5, <3>1, <3>2
  <2> QED BY <2>1, <2>2
<1>11. CASE f.t = "destroyed" /\ OnDestroyed(f)
  <2>1. view' \in {view, NoBubbles} /\ UNCHANGED <<timers, saved>> BY <1>11 DEF OnDestroyed
  <2>2. /\ c' \in ClientState /\ c'.sock = c.sock /\ c'.retry = c.retry /\ c'.probe = "no"
        /\ c'.shown \in {Null, c.shown} /\ c'.pending = c.pending /\ c'.queued = c.queued
        /\ c'.resume = c.resume /\ c'.abandoned = c.abandoned
    BY <1>3, <1>11, DestroyedClient
  <2> QED BY <1>1, <1>3, <1>4, <1>5, <2>1, <2>2, BubblesIs
<1>12. CASE f.t = "pong" /\ OnPong(f)
  <2>1. UNCHANGED <<view, timers, saved>> BY <1>12 DEF OnPong
  <2>2. /\ c' \in ClientState /\ c'.sock = c.sock /\ c'.retry = c.retry /\ c'.probe = "no"
        /\ c'.shown = c.shown /\ c'.pending = c.pending /\ c'.queued = c.queued
        /\ c'.resume = c.resume /\ c'.abandoned = c.abandoned
    BY <1>3, <1>12, AckClient
  <2> QED BY <1>1, <1>3, <1>4, <1>5, <2>1, <2>2
<1> QED BY <1>1, <1>2, <1>6, <1>7, <1>8, <1>9, <1>10, <1>11, <1>12

--------------------
(* The server's end. *)

LEMMA FrameDown ==
    ASSUME NEW t \in {"ready", "error", "destroyed", "pong"}, NEW s \in Place
    PROVE  /\ Frame(t, s) \in DownFrame /\ Frame(t, s).t = t /\ Frame(t, s).s = s
           /\ ~Names(Frame(t, s))
<1>1. MaxMessages \in Nat BY SessionShape
<1>2. Frame(t, s) \in Frames /\ Frame(t, s).t = t /\ Frame(t, s).s = s BY <1>1, FrameIs
<1> QED BY <1>2 DEF DownFrame, Names

LEMMA AckIs ==
    ASSUME NEW f \in UpFrame, f.t = "message",
           NEW e, e = [f EXCEPT !.t = "ack"]
    PROVE  e \in DownFrame /\ e.t = "ack" /\ e.s = f.s /\ e.m = f.m
BY DEF UpFrame, DownFrame, Frames, Names

LEMMA HistoryIs ==
    ASSUME WireFormed, NEW s \in Known
    PROVE  /\ History(s) \in DownFrame /\ History(s).t = "history" /\ History(s).s = s
           /\ History(s).of = log[s] /\ Names(History(s))
<1>1. s \in Session /\ s \in Place /\ log[s] \in SUBSET Message /\ MaxMessages \in Nat
  BY KnownIs, SessionShape DEF Place, Maybe
<1> DEFINE k == Frame("history", s)
<1>2. k \in Frames /\ k.t = "history" /\ k.s = s BY <1>1, FrameIs
<1> HIDE DEF k
<1>3. History(s) = [k EXCEPT !.of = log[s]] BY DEF History, k
<1>4. /\ History(s) \in Frames /\ History(s).t = "history" /\ History(s).s = s
      /\ History(s).of = log[s]
  BY <1>1, <1>2, <1>3 DEF Frames
<1> QED BY <1>1, <1>4 DEF DownFrame, Names

LEMMA PaintIs ==
    ASSUME NEW s \in Session, NEW b \in BOOLEAN
    PROVE  /\ PaintFrame(s, b) \in DownFrame /\ PaintFrame(s, b).t = "created" /\ PaintFrame(s, b).s = s
           /\ Names(PaintFrame(s, b))
<1>1. s \in Place /\ MaxMessages \in Nat /\ 0 \in 0..(MaxMessages + 1) /\ 1 \in 0..(MaxMessages + 1)
  BY SessionShape DEF Place, Maybe
<1> DEFINE k == Frame("created", s)
<1>2. k \in Frames /\ k.t = "created" /\ k.s = s BY <1>1, FrameIs
<1> HIDE DEF k
<1>3. PaintFrame(s, b) = [k EXCEPT !.m = IF b THEN 1 ELSE 0] BY DEF PaintFrame, k
<1>4. PaintFrame(s, b) \in Frames /\ PaintFrame(s, b).t = "created" /\ PaintFrame(s, b).s = s
  <2>1. (IF b THEN 1 ELSE 0) \in 0..(MaxMessages + 1) BY <1>1
  <2> DEFINE v == IF b THEN 1 ELSE 0
  <2>2. v \in 0..(MaxMessages + 1) /\ PaintFrame(s, b) = [k EXCEPT !.m = v] BY <1>3, <2>1
  <2> HIDE DEF v
  <2> QED BY <1>2, <2>2 DEF Frames
<1> QED BY <1>4 DEF DownFrame, Names

LEMMA TakenUp ==
    ASSUME BaseInv, up # <<>>, up' = Tail(up)
    PROVE  /\ up' \in Seq(UpFrame) /\ up[1] \in UpFrame /\ Head(up) = up[1]
           /\ (Names(up[1]) => up[1].s \in Known)
           /\ \A i \in 1..Len(up') : Names(up'[i]) => up'[i].s \in Known
<1>1. up \in Seq(UpFrame) /\ \A i \in 1..Len(up) : Names(up[i]) => up[i].s \in Known
  BY DEF BaseInv, WireFormed, WireKnown
<1>2. /\ Len(up) \in Nat \ {0} /\ Head(up) = up[1] /\ up[1] \in UpFrame
      /\ Tail(up) \in Seq(UpFrame) /\ Len(Tail(up)) = Len(up) - 1
      /\ \A i \in 1..Len(Tail(up)) : i + 1 \in 1..Len(up) /\ Tail(up)[i] = up[i + 1]
  BY <1>1, Taken
<1>3. 1 \in 1..Len(up) BY <1>2
<1> QED BY <1>1, <1>2, <1>3

LEMMA MoreDown ==
    ASSUME BaseInv, NEW x \in DownFrame, Names(x) => x.s \in Known, down' = Append(down, x)
    PROVE  /\ down' \in Seq(DownFrame)
           /\ \A i \in 1..Len(down') : Names(down'[i]) => down'[i].s \in Known
<1>1. down \in Seq(DownFrame) /\ \A i \in 1..Len(down) : Names(down[i]) => down[i].s \in Known
  BY DEF BaseInv, WireFormed, WireKnown
<1>2. /\ down' \in Seq(DownFrame) /\ Len(down) \in Nat /\ Len(down') = Len(down) + 1
      /\ down'[Len(down) + 1] = x /\ \A i \in 1..Len(down) : down'[i] = down[i]
  BY <1>1, OneMore
<1>3. ASSUME NEW i \in 1..Len(down') PROVE Names(down'[i]) => down'[i].s \in Known
  <2>1. i \in 1..Len(down) \/ i = Len(down) + 1 BY <1>2
  <2> QED BY <1>1, <1>2, <2>1
<1> QED BY <1>2, <1>3

LEMMA TwoDown ==
    ASSUME BaseInv, NEW x \in DownFrame, NEW y \in DownFrame, Names(x) => x.s \in Known,
           Names(y) => y.s \in Known, down' = down \o <<x, y>>
    PROVE  /\ down' \in Seq(DownFrame)
           /\ \A i \in 1..Len(down') : Names(down'[i]) => down'[i].s \in Known
<1>1. down \in Seq(DownFrame) /\ \A i \in 1..Len(down) : Names(down[i]) => down[i].s \in Known
  BY DEF BaseInv, WireFormed, WireKnown
<1>2. /\ down' \in Seq(DownFrame) /\ Len(down) \in Nat /\ Len(down') = Len(down) + 2
      /\ down'[Len(down) + 1] = x /\ down'[Len(down) + 2] = y
      /\ \A i \in 1..Len(down) : down'[i] = down[i]
  BY <1>1, TwoMore
<1>3. ASSUME NEW i \in 1..Len(down') PROVE Names(down'[i]) => down'[i].s \in Known
  <2>1. i \in 1..Len(down) \/ i = Len(down) + 1 \/ i = Len(down) + 2 BY <1>2
  <2> QED BY <1>1, <1>2, <2>1
<1> QED BY <1>2, <1>3

\* The server's steps leave the client alone.
LEMMA ServerBase ==
    ASSUME BaseInv, Grows, Known' = Known, c.sock = "open", UNCHANGED <<Client, live>>,
           srv' \in ServerState, up' \in Seq(UpFrame), down' \in Seq(DownFrame),
           \A i \in 1..Len(srv'.work) : srv'.work[i].do = "new" => srv'.work[i].of \in NewSession,
           {srv'.at, srv'.painted} \subseteq Maybe(Known), srv'.cold \subseteq Known,
           \A i \in 1..Len(srv'.work) : srv'.work[i].of \in Known,
           \A i \in 1..Len(up') : Names(up'[i]) => up'[i].s \in Known,
           \A i \in 1..Len(down') : Names(down'[i]) => down'[i].s \in Known
    PROVE  BaseInv'
<1>1. UNCHANGED <<c, view, timers, saved, home, want, live>> BY DEF Client
<1>2. WireFormed' /\ WireKnown' BY <1>1 DEF BaseInv, WireFormed, WireKnown, Grows
<1>3. ClientFormed' BY <1>1 DEF BaseInv, ClientFormed
<1>4. SocketInv' BY <1>1 DEF BaseInv, SocketInv
<1>5. ClientKnown' BY <1>1 DEF BaseInv, ClientKnown
<1> QED BY <1>2, <1>3, <1>4, <1>5 DEF BaseInv

LEMMA WireOpen ==
    ASSUME BaseInv, up # <<>> \/ down # <<>> \/ srv # NoSocket
    PROVE  c.sock = "open"
BY DEF BaseInv, SocketInv

LEMMA TakesSteps ==
    ASSUME BaseInv, NEW f \in UpFrame, f.t \in {"load", "new"}, f.s \in Known, ServerTakes(f)
    PROVE  /\ UNCHANGED <<down, log>> /\ srv' \in ServerState
           /\ srv'.at = srv.at /\ srv'.painted = Null /\ srv'.cold = srv.cold
           /\ [do |-> f.t, of |-> f.s] \in Request
           /\ srv'.work = Append(srv.work, [do |-> f.t, of |-> f.s])
           /\ Len(srv.work) \in Nat /\ Len(srv'.work) = Len(srv.work) + 1
           /\ \A i \in 1..Len(srv.work) : srv'.work[i] = srv.work[i]
           /\ srv'.work[Len(srv.work) + 1] = [do |-> f.t, of |-> f.s]
<1> DEFINE r == [do |-> f.t, of |-> f.s]
<1>1. UNCHANGED <<down, log>> /\ srv' = [srv EXCEPT !.painted = Null, !.work = Append(@, r)]
  BY DEF ServerTakes
<1>2. r \in Request BY DEF Request, Known
<1>3. srv \in ServerState /\ srv.work \in Seq(Request) /\ Null \in Place
  BY DEF BaseInv, WireFormed, ServerState, Place, Maybe
<1> HIDE DEF r
<1>4. /\ Append(srv.work, r) \in Seq(Request) /\ Len(srv.work) \in Nat
      /\ Len(Append(srv.work, r)) = Len(srv.work) + 1
      /\ \A i \in 1..Len(srv.work) : Append(srv.work, r)[i] = srv.work[i]
      /\ Append(srv.work, r)[Len(srv.work) + 1] = r
  BY <1>2, <1>3, OneMore
<1> DEFINE w == Append(srv.work, r)
<1>5. w \in Seq(Request) /\ srv' = [srv EXCEPT !.painted = Null, !.work = w] BY <1>1, <1>4
<1> HIDE DEF w
<1>6. /\ srv' \in ServerState /\ srv'.at = srv.at /\ srv'.painted = Null
      /\ srv'.cold = srv.cold /\ srv'.work = w
  BY <1>3, <1>5 DEF ServerState
<1> QED BY <1>1, <1>2, <1>4, <1>6 DEF w, r

LEMMA ServerReadsSteps ==
    ASSUME BaseInv, ServerReads
    PROVE  /\ UNCHANGED <<c, view, timers, saved, home, want, dropped, live, mark, clientEvents>>
           /\ c.sock = "open" /\ live /\ up # <<>> /\ up' = Tail(up)
           /\ \E f \in UpFrame :
                /\ f = up[1] /\ (Names(f) => f.s \in Known)
                /\ \/ f.t \in {"load", "new"} /\ ServerTakes(f)
                   \/ /\ f.t = "leave" /\ UNCHANGED <<down, log>>
                      /\ srv' \in ServerState /\ srv'.at = Null /\ srv'.painted = Null
                      /\ srv'.work = srv.work /\ srv'.cold = srv.cold
                   \/ /\ f.t = "message" /\ srv' = srv
                      /\ \/ srv.at = Null /\ UNCHANGED <<down, log>>
                         \/ /\ srv.at # Null /\ srv.at # f.s /\ log' = log
                            /\ down' = Append(down, Frame("error", f.s))
                         \/ /\ srv.at = f.s /\ log' = [log EXCEPT ![f.s] = @ \cup {f.m}]
                            /\ down' = Append(down, [f EXCEPT !.t = "ack"])
                   \/ /\ f.t = "ping" /\ UNCHANGED <<srv, log>>
                      /\ down' = Append(down, Frame("pong", Null))
<1>1. /\ UNCHANGED <<c, view, timers, saved, home, want, dropped, live, mark, clientEvents>>
      /\ live /\ up # <<>> /\ up' = Tail(up)
  BY DEF ServerReads, Client
<1>2. c.sock = "open" BY <1>1, WireOpen
<1>3. /\ up[1] \in UpFrame /\ Head(up) = up[1]
      /\ (Names(up[1]) => up[1].s \in Known)
  BY <1>1, TakenUp
<1>4. PICK f \in UpFrame : f = up[1] BY <1>3
<1>5. \/ f.t \in {"load", "new"} /\ ServerTakes(f)
      \/ f.t = "leave" /\ ServerLeaves
      \/ f.t = "message" /\ ServerAccepts(f)
      \/ f.t = "ping" /\ down' = Append(down, Frame("pong", Null)) /\ UNCHANGED <<srv, log>>
  BY <1>3, <1>4 DEF ServerReads
<1>6. ASSUME ServerLeaves
      PROVE  /\ UNCHANGED <<down, log>>
             /\ srv' \in ServerState /\ srv'.at = Null /\ srv'.painted = Null
             /\ srv'.work = srv.work /\ srv'.cold = srv.cold
  <2>1. srv \in ServerState /\ Null \in Place BY DEF BaseInv, WireFormed, Place, Maybe
  <2> QED BY <1>6, <2>1 DEF ServerLeaves, ServerState
<1>7. ASSUME ServerAccepts(f), f.t = "message"
      PROVE  /\ srv' = srv
             /\ \/ srv.at = Null /\ UNCHANGED <<down, log>>
                \/ /\ srv.at # Null /\ srv.at # f.s /\ log' = log
                   /\ down' = Append(down, Frame("error", f.s))
                \/ /\ srv.at = f.s /\ log' = [log EXCEPT ![f.s] = @ \cup {f.m}]
                   /\ down' = Append(down, [f EXCEPT !.t = "ack"])
  BY <1>7 DEF ServerAccepts
<1>8. Names(f) => f.s \in Known BY <1>3, <1>4
<1> QED BY <1>1, <1>2, <1>4, <1>5, <1>6, <1>7, <1>8

LEMMA ServerReadsBase ==
    ASSUME BaseInv, ServerReads
    PROVE  BaseInv' /\ Grows
<1>1. /\ UNCHANGED <<Client, live>> /\ c.sock = "open" /\ up # <<>> /\ up' = Tail(up)
  BY ServerReadsSteps DEF Client
<1>2. PICK f \in UpFrame :
                /\ f = up[1] /\ (Names(f) => f.s \in Known)
                /\ \/ f.t \in {"load", "new"} /\ ServerTakes(f)
                   \/ /\ f.t = "leave" /\ UNCHANGED <<down, log>>
                      /\ srv' \in ServerState /\ srv'.at = Null /\ srv'.painted = Null
                      /\ srv'.work = srv.work /\ srv'.cold = srv.cold
                   \/ /\ f.t = "message" /\ srv' = srv
                      /\ \/ srv.at = Null /\ UNCHANGED <<down, log>>
                         \/ /\ srv.at # Null /\ srv.at # f.s /\ log' = log
                            /\ down' = Append(down, Frame("error", f.s))
                         \/ /\ srv.at = f.s /\ log' = [log EXCEPT ![f.s] = @ \cup {f.m}]
                            /\ down' = Append(down, [f EXCEPT !.t = "ack"])
                   \/ /\ f.t = "ping" /\ UNCHANGED <<srv, log>>
                      /\ down' = Append(down, Frame("pong", Null))
  BY ServerReadsSteps
<1>3. /\ up' \in Seq(UpFrame)
      /\ \A i \in 1..Len(up') : Names(up'[i]) => up'[i].s \in Known
  BY <1>1, TakenUp
<1>4. /\ srv \in ServerState /\ down \in Seq(DownFrame)
      /\ \A i \in 1..Len(srv.work) : srv.work[i].do = "new" => srv.work[i].of \in NewSession
      /\ {srv.at, srv.painted} \subseteq Maybe(Known) /\ srv.cold \subseteq Known
      /\ \A i \in 1..Len(srv.work) : srv.work[i].of \in Known
      /\ \A i \in 1..Len(down) : Names(down[i]) => down[i].s \in Known
      /\ Null \in Maybe(Known)
  BY DEF BaseInv, WireFormed, WireKnown, Maybe
<1>5. CASE f.t \in {"load", "new"} /\ ServerTakes(f)
  <2>1. f.s \in Known /\ (f.t = "new" => f.s \in NewSession) BY <1>2, <1>5 DEF Names, UpFrame
  <2>2. /\ UNCHANGED <<down, log>> /\ srv' \in ServerState
        /\ srv'.at = srv.at /\ srv'.painted = Null /\ srv'.cold = srv.cold
        /\ Len(srv.work) \in Nat /\ Len(srv'.work) = Len(srv.work) + 1
        /\ \A i \in 1..Len(srv.work) : srv'.work[i] = srv.work[i]
        /\ srv'.work[Len(srv.work) + 1] = [do |-> f.t, of |-> f.s]
    BY <1>5, <2>1, TakesSteps
  <2>3. ASSUME NEW i \in 1..Len(srv'.work)
        PROVE  /\ srv'.work[i].do = "new" => srv'.work[i].of \in NewSession
               /\ srv'.work[i].of \in Known
    <3>1. i \in 1..Len(srv.work) \/ i = Len(srv.work) + 1 BY <2>2
    <3> QED BY <1>4, <2>1, <2>2, <3>1
  <2>4. Grows /\ Known' = Known BY <2>2, Unlogged DEF BaseInv
  <2> QED BY <1>1, <1>3, <1>4, <2>2, <2>3, <2>4, ServerBase
<1>6. CASE /\ f.t = "leave" /\ UNCHANGED <<down, log>>
           /\ srv' \in ServerState /\ srv'.at = Null /\ srv'.painted = Null
           /\ srv'.work = srv.work /\ srv'.cold = srv.cold
  <2>1. Grows /\ Known' = Known BY <1>6, Unlogged DEF BaseInv
  <2> QED BY <1>1, <1>3, <1>4, <1>6, <2>1, ServerBase
<1>7. CASE srv' = srv /\ log' = log /\ down' = down
  <2>1. Grows /\ Known' = Known BY <1>7, Unlogged DEF BaseInv
  <2> QED BY <1>1, <1>3, <1>4, <1>7, <2>1, ServerBase
<1>8. ASSUME NEW x \in DownFrame, ~Names(x), down' = Append(down, x), srv' = srv, log' = log
      PROVE  BaseInv' /\ Grows
  <2>1. Grows /\ Known' = Known BY <1>8, Unlogged DEF BaseInv
  <2>2. /\ down' \in Seq(DownFrame)
        /\ \A i \in 1..Len(down') : Names(down'[i]) => down'[i].s \in Known
    BY <1>8, MoreDown
  <2> QED BY <1>1, <1>3, <1>4, <1>8, <2>1, <2>2, ServerBase
<1>9. CASE srv' = srv /\ log' = log /\ down' = Append(down, Frame("error", f.s))
  <2>1. f.s \in Place BY DEF UpFrame, Frames, Place
  <2>2. Frame("error", f.s) \in DownFrame /\ ~Names(Frame("error", f.s)) BY <2>1, FrameDown
  <2> QED BY <1>8, <1>9, <2>2
<1>10. CASE srv' = srv /\ log' = log /\ down' = Append(down, Frame("pong", Null))
  <2>1. Frame("pong", Null) \in DownFrame /\ ~Names(Frame("pong", Null))
    BY FrameDown DEF Place, Maybe
  <2> QED BY <1>8, <1>10, <2>1
<1>11. CASE /\ f.t = "message" /\ srv' = srv
            /\ log' = [log EXCEPT ![f.s] = @ \cup {f.m}]
            /\ down' = Append(down, [f EXCEPT !.t = "ack"])
  <2>1. f.s \in Known /\ f.m \in Message BY <1>2, <1>11 DEF Names, UpFrame
  <2>2. Grows /\ Known' = Known
    <3>1. {f.m} \in SUBSET Message BY <2>1
    <3> QED BY <1>11, <2>1, <3>1, Accepted DEF BaseInv
  <2> DEFINE x == [f EXCEPT !.t = "ack"]
  <2>3. x \in DownFrame /\ x.s = f.s BY <1>11, AckIs
  <2>4. down' = Append(down, x) BY <1>11
  <2> HIDE DEF x
  <2>5. /\ down' \in Seq(DownFrame)
        /\ \A i \in 1..Len(down') : Names(down'[i]) => down'[i].s \in Known
    BY <2>1, <2>3, <2>4, MoreDown
  <2>6. srv' = srv BY <1>11
  <2> QED BY <1>1, <1>3, <1>4, <2>2, <2>5, <2>6, ServerBase
<1> QED BY <1>2, <1>5, <1>6, <1>7, <1>9, <1>10, <1>11

\* The three answers of a request.
LEMMA AnswersSteps ==
    ASSUME BaseInv, NEW i \in 1..Len(srv.work), ServerAnswers(i)
    PROVE  LET r == srv.work[i] IN
           /\ r \in Request /\ r.of \in Known /\ srv' \in ServerState
           /\ srv'.work = Without(srv.work, i)
           /\ \/ /\ srv'.painted = r.of /\ srv'.at = r.of /\ srv'.cold = srv.cold
                 /\ down' = down \o <<PaintFrame(r.of, FALSE), History(r.of)>> /\ clientEvents' = clientEvents
              \/ /\ r.do = "load" /\ srv.at # r.of /\ srv'.painted = r.of /\ srv'.at = srv.at
                 /\ srv'.cold = srv.cold \cup {r.of}
                 /\ down' = down \o <<PaintFrame(r.of, TRUE), History(r.of)>> /\ clientEvents' = clientEvents
              \/ /\ srv'.painted = srv.painted /\ srv'.at = srv.at /\ srv'.cold = srv.cold
                 /\ down' = Append(down, Frame("error", Null)) /\ clientEvents' = clientEvents + 1
<1>1. /\ srv \in ServerState /\ srv.work \in Seq(Request) /\ srv.cold \subseteq Session
  BY DEF BaseInv, WireFormed, ServerState
<1>2. PICK r : r = srv.work[i] OBVIOUS
<1>3. r \in Request /\ r.of \in Known BY <1>1, <1>2, ElementOfSeq DEF BaseInv, WireKnown
<1>4. r.of \in Session /\ r.of \in Place BY <1>3 DEF Known, Place, Maybe
<1>5. PICK w : w = Without(srv.work, i) OBVIOUS
<1>6. w \in Seq(Request) BY <1>1, <1>5, Removed
<1>7. \/ /\ srv' = [srv EXCEPT !.work = w, !.painted = r.of, !.at = r.of]
         /\ down' = down \o <<PaintFrame(r.of, FALSE), History(r.of)>>
         /\ UNCHANGED clientEvents
      \/ /\ r.do = "load" /\ srv.at # r.of
         /\ srv' = [srv EXCEPT !.work = w, !.painted = r.of, !.cold = @ \cup {r.of}]
         /\ down' = down \o <<PaintFrame(r.of, TRUE), History(r.of)>>
         /\ UNCHANGED clientEvents
      \/ /\ Budget
         /\ srv' = [srv EXCEPT !.work = w]
         /\ down' = Append(down, Frame("error", Null))
  BY <1>2, <1>5 DEF ServerAnswers
<1>8. CASE /\ srv' = [srv EXCEPT !.work = w, !.painted = r.of, !.at = r.of]
           /\ down' = down \o <<PaintFrame(r.of, FALSE), History(r.of)>>
           /\ UNCHANGED clientEvents
  <2>1. /\ srv' \in ServerState /\ srv'.work = w /\ srv'.painted = r.of /\ srv'.at = r.of
        /\ srv'.cold = srv.cold
    BY <1>1, <1>4, <1>6, <1>8 DEF ServerState
  <2> QED BY <1>2, <1>3, <1>5, <1>8, <2>1
<1>9. CASE /\ r.do = "load" /\ srv.at # r.of
           /\ srv' = [srv EXCEPT !.work = w, !.painted = r.of, !.cold = @ \cup {r.of}]
           /\ down' = down \o <<PaintFrame(r.of, TRUE), History(r.of)>>
           /\ UNCHANGED clientEvents
  <2>1. srv.cold \cup {r.of} \in SUBSET Session BY <1>1, <1>4
  <2>2. /\ srv' \in ServerState /\ srv'.work = w /\ srv'.painted = r.of /\ srv'.at = srv.at
        /\ srv'.cold = srv.cold \cup {r.of}
    BY <1>1, <1>4, <1>6, <1>9, <2>1 DEF ServerState
  <2> QED BY <1>2, <1>3, <1>5, <1>9, <2>2
<1>10. CASE /\ Budget
            /\ srv' = [srv EXCEPT !.work = w]
            /\ down' = Append(down, Frame("error", Null))
  <2>1. /\ srv' \in ServerState /\ srv'.work = w /\ srv'.painted = srv.painted
        /\ srv'.at = srv.at /\ srv'.cold = srv.cold
    BY <1>1, <1>6, <1>10 DEF ServerState
  <2> QED BY <1>2, <1>3, <1>5, <1>10, <2>1 DEF Budget
<1> QED BY <1>7, <1>8, <1>9, <1>10

LEMMA FinishesBase ==
    ASSUME BaseInv, ServerFinishes
    PROVE  BaseInv' /\ Grows
<1>1. UNCHANGED <<Client, live, up, log>> BY DEF ServerFinishes
<1>2. PICK i \in 1..Len(srv.work) : ServerAnswers(i) BY DEF ServerFinishes
<1>3. PICK r : r = srv.work[i] OBVIOUS
<1>4. /\ r \in Request /\ r.of \in Known /\ srv' \in ServerState
      /\ srv'.work = Without(srv.work, i)
      /\ \/ /\ srv'.painted = r.of /\ srv'.at = r.of /\ srv'.cold = srv.cold
            /\ down' = down \o <<PaintFrame(r.of, FALSE), History(r.of)>>
         \/ /\ srv'.painted = r.of /\ srv'.at = srv.at
            /\ srv'.cold = srv.cold \cup {r.of}
            /\ down' = down \o <<PaintFrame(r.of, TRUE), History(r.of)>>
         \/ /\ srv'.painted = srv.painted /\ srv'.at = srv.at /\ srv'.cold = srv.cold
            /\ down' = Append(down, Frame("error", Null))
  BY <1>2, <1>3, AnswersSteps
<1>5. Grows /\ Known' = Known BY <1>1, Unlogged DEF BaseInv
<1>6. /\ srv \in ServerState /\ srv.work \in Seq(Request)
      /\ \A j \in 1..Len(srv.work) : srv.work[j].do = "new" => srv.work[j].of \in NewSession
      /\ {srv.at, srv.painted} \subseteq Maybe(Known) /\ srv.cold \subseteq Known
      /\ \A j \in 1..Len(srv.work) : srv.work[j].of \in Known
      /\ up \in Seq(UpFrame) /\ \A j \in 1..Len(up) : Names(up[j]) => up[j].s \in Known
  BY DEF BaseInv, WireFormed, WireKnown, ServerState
<1>7. c.sock = "open"
  <2>1. srv # NoSocket
    <3>1. Len(<<>>) = 0 BY EmptySeq
    <3> QED BY <3>1, NoSocketIs
  <2> QED BY <2>1, WireOpen
<1>8. ASSUME NEW j \in 1..Len(srv'.work)
      PROVE  /\ srv'.work[j].do = "new" => srv'.work[j].of \in NewSession
             /\ srv'.work[j].of \in Known
  <2>1. /\ Len(srv.work) \in Nat /\ Len(srv'.work) = Len(srv.work) - 1
        /\ srv'.work[j] = IF j < i THEN srv.work[j] ELSE srv.work[j + 1]
    <3>1. /\ Len(srv.work) \in Nat /\ Len(Without(srv.work, i)) = Len(srv.work) - 1
          /\ \A k \in 1..Len(Without(srv.work, i)) :
               Without(srv.work, i)[k] = IF k < i THEN srv.work[k] ELSE srv.work[k + 1]
      BY <1>6, Removed
    <3> QED BY <1>4, <3>1
  <2>2. CASE j < i BY <1>6, <2>1, <2>2
  <2>3. CASE ~(j < i)
    <3>1. j + 1 \in 1..Len(srv.work) BY <2>1
    <3> QED BY <1>6, <2>1, <2>3, <3>1
  <2> QED BY <2>2, <2>3
<1>9. /\ down' \in Seq(DownFrame)
      /\ \A j \in 1..Len(down') : Names(down'[j]) => down'[j].s \in Known
  <2>1. ASSUME NEW b \in BOOLEAN, down' = down \o <<PaintFrame(r.of, b), History(r.of)>>
        PROVE  /\ down' \in Seq(DownFrame)
               /\ \A j \in 1..Len(down') : Names(down'[j]) => down'[j].s \in Known
    <3>1. r.of \in Session BY <1>4 DEF Known
    <3> DEFINE x == PaintFrame(r.of, b)
               y == History(r.of)
    <3>2. x \in DownFrame /\ x.s = r.of BY <3>1, PaintIs
    <3>3. y \in DownFrame /\ y.s = r.of BY <1>4, HistoryIs DEF BaseInv
    <3>4. down' = down \o <<x, y>> BY <2>1
    <3> HIDE DEF x, y
    <3> QED BY <1>4, <3>2, <3>3, <3>4, TwoDown
  <2>2. CASE down' = Append(down, Frame("error", Null))
    <3>1. Frame("error", Null) \in DownFrame /\ ~Names(Frame("error", Null))
      BY FrameDown DEF Place, Maybe
    <3> QED BY <2>2, <3>1, MoreDown
  <2> QED BY <1>4, <2>1, <2>2
<1>10. {srv'.at, srv'.painted} \subseteq Maybe(Known) /\ srv'.cold \subseteq Known
  BY <1>4, <1>6 DEF Maybe
<1>11. /\ up' \in Seq(UpFrame) /\ \A j \in 1..Len(up') : Names(up'[j]) => up'[j].s \in Known
  BY <1>1, <1>6
<1> QED BY <1>1, <1>4, <1>5, <1>7, <1>8, <1>9, <1>10, <1>11, ServerBase

LEMMA BuildsSteps ==
    ASSUME BaseInv, clientEvents \in Nat, ServerBuilds
    PROVE  /\ UNCHANGED <<c, view, timers, saved, home, want, dropped, live, up, log>>
           /\ c.sock = "open" /\ live
           /\ \E s \in srv.cold :
                /\ s \in Known /\ srv' \in ServerState /\ srv'.painted = srv.painted
                /\ srv'.work = srv.work /\ srv'.cold = srv.cold \ {s}
                /\ \/ /\ srv.painted = s /\ srv'.at = s /\ mark' = mark
                      /\ down' = Append(down, Frame("ready", s))
                   \/ srv.painted # s /\ srv'.at = srv.at /\ down' = down /\ mark' = mark
                   \/ /\ srv.painted = s /\ srv'.at = srv.at /\ mark' = mark \cup {"failed"}
                      /\ down' = Append(down, Frame("error", s))
<1>1. /\ UNCHANGED <<c, view, timers, saved, home, want, dropped, live, up, log>> /\ live
      /\ mark' = mark \cup (IF clientEvents' > clientEvents THEN {"failed"} ELSE {})
  BY DEF ServerBuilds, Client
<1>2. PICK s \in srv.cold :
         \/ /\ srv.painted = s
            /\ srv' = [srv EXCEPT !.cold = @ \ {s}, !.at = s]
            /\ down' = Append(down, Frame("ready", s)) /\ UNCHANGED clientEvents
         \/ /\ srv.painted # s
            /\ srv' = [srv EXCEPT !.cold = @ \ {s}] /\ UNCHANGED <<down, clientEvents>>
         \/ /\ srv.painted = s /\ Budget
            /\ srv' = [srv EXCEPT !.cold = @ \ {s}]
            /\ down' = Append(down, Frame("error", s))
  BY DEF ServerBuilds
<1>3. /\ srv \in ServerState /\ s \in Known /\ s \in Session /\ s \in Place
      /\ srv.cold \ {s} \in SUBSET Session
  BY DEF BaseInv, WireFormed, WireKnown, Known, ServerState, Place, Maybe
<1>4. c.sock = "open" BY NoSocketIs, WireOpen
<1>5. CASE /\ srv.painted = s
           /\ srv' = [srv EXCEPT !.cold = @ \ {s}, !.at = s]
           /\ down' = Append(down, Frame("ready", s)) /\ UNCHANGED clientEvents
  <2>1. /\ srv' \in ServerState /\ srv'.painted = srv.painted
        /\ srv'.work = srv.work /\ srv'.cold = srv.cold \ {s} /\ srv'.at = s
    BY <1>3, <1>5 DEF ServerState
  <2>2. mark' = mark BY <1>1, <1>5
  <2> QED BY <1>1, <1>3, <1>4, <1>5, <2>1, <2>2
<1>6. CASE /\ srv.painted # s
           /\ srv' = [srv EXCEPT !.cold = @ \ {s}] /\ UNCHANGED <<down, clientEvents>>
  <2>1. /\ srv' \in ServerState /\ srv'.painted = srv.painted
        /\ srv'.work = srv.work /\ srv'.cold = srv.cold \ {s} /\ srv'.at = srv.at
    BY <1>3, <1>6 DEF ServerState
  <2>2. mark' = mark BY <1>1, <1>6
  <2> QED BY <1>1, <1>3, <1>4, <1>6, <2>1, <2>2
<1>7. CASE /\ srv.painted = s /\ Budget
           /\ srv' = [srv EXCEPT !.cold = @ \ {s}]
           /\ down' = Append(down, Frame("error", s))
  <2>1. /\ srv' \in ServerState /\ srv'.painted = srv.painted
        /\ srv'.work = srv.work /\ srv'.cold = srv.cold \ {s} /\ srv'.at = srv.at
    BY <1>3, <1>7 DEF ServerState
  <2>2. clientEvents' > clientEvents BY <1>7 DEF Budget
  <2>3. mark' = mark \cup {"failed"} BY <1>1, <2>2
  <2> QED BY <1>1, <1>3, <1>4, <1>7, <2>1, <2>3
<1> QED BY <1>2, <1>5, <1>6, <1>7

LEMMA BuildsBase ==
    ASSUME BaseInv, clientEvents \in Nat, ServerBuilds
    PROVE  BaseInv' /\ Grows
<1>1. /\ UNCHANGED <<Client, live, up, log>> /\ c.sock = "open" BY BuildsSteps DEF Client
<1>2. PICK s \in srv.cold :
         /\ s \in Known /\ srv' \in ServerState /\ srv'.painted = srv.painted
         /\ srv'.work = srv.work /\ srv'.cold = srv.cold \ {s}
         /\ srv'.at \in {s, srv.at}
         /\ \/ down' = Append(down, Frame("ready", s))
            \/ down' = down
            \/ down' = Append(down, Frame("error", s))
  BY BuildsSteps
<1>3. Grows /\ Known' = Known BY <1>1, Unlogged DEF BaseInv
<1>4. /\ \A j \in 1..Len(srv.work) : srv.work[j].do = "new" => srv.work[j].of \in NewSession
      /\ {srv.at, srv.painted} \subseteq Maybe(Known) /\ srv.cold \subseteq Known
      /\ \A j \in 1..Len(srv.work) : srv.work[j].of \in Known
      /\ up \in Seq(UpFrame) /\ \A j \in 1..Len(up) : Names(up[j]) => up[j].s \in Known
      /\ down \in Seq(DownFrame) /\ \A j \in 1..Len(down) : Names(down[j]) => down[j].s \in Known
      /\ s \in Place
  BY <1>2 DEF BaseInv, WireFormed, WireKnown, Known, Place, Maybe
<1>5. /\ Frame("ready", s) \in DownFrame /\ ~Names(Frame("ready", s))
      /\ Frame("error", s) \in DownFrame /\ ~Names(Frame("error", s))
  BY <1>4, FrameDown
<1>6. /\ down' \in Seq(DownFrame)
      /\ \A j \in 1..Len(down') : Names(down'[j]) => down'[j].s \in Known
  BY <1>2, <1>4, <1>5, MoreDown
<1>7. {srv'.at, srv'.painted} \subseteq Maybe(Known) /\ srv'.cold \subseteq Known
  BY <1>2, <1>4 DEF Maybe
<1>8. /\ up' \in Seq(UpFrame) /\ \A j \in 1..Len(up') : Names(up'[j]) => up'[j].s \in Known
      /\ \A j \in 1..Len(srv'.work) : srv'.work[j].do = "new" => srv'.work[j].of \in NewSession
      /\ \A j \in 1..Len(srv'.work) : srv'.work[j].of \in Known
  BY <1>1, <1>2, <1>4
<1> QED BY <1>1, <1>2, <1>3, <1>6, <1>7, <1>8, ServerBase

LEMMA DestroysSteps ==
    ASSUME BaseInv, ServerDestroys
    PROVE  /\ UNCHANGED <<c, view, timers, saved, home, want, dropped, live, up, log, mark>>
           /\ c.sock = "open" /\ live /\ srv.at \in Known /\ srv.at \in Place
           /\ srv' \in ServerState /\ srv'.at = Null /\ srv'.painted = srv.painted
           /\ srv'.work = srv.work /\ srv'.cold = srv.cold
           /\ down' = Append(down, Frame("destroyed", srv.at))
<1>1. /\ UNCHANGED <<c, view, timers, saved, home, want, dropped, live, up, log, mark>>
      /\ live /\ srv.at # Null /\ down' = Append(down, Frame("destroyed", srv.at))
      /\ srv' = [srv EXCEPT !.at = Null]
  BY DEF ServerDestroys, Client
<1>2. c.sock = "open" BY <1>1, NoSocketIs, WireOpen
<1>3. srv.at \in Known /\ srv.at \in Place /\ srv \in ServerState /\ Null \in Place
  BY <1>1 DEF BaseInv, WireFormed, WireKnown, ServerState, Place, Maybe
<1>4. /\ srv' \in ServerState /\ srv'.at = Null /\ srv'.painted = srv.painted
      /\ srv'.work = srv.work /\ srv'.cold = srv.cold
  BY <1>1, <1>3 DEF ServerState
<1> QED BY <1>1, <1>2, <1>3, <1>4

LEMMA DestroysBase ==
    ASSUME BaseInv, ServerDestroys
    PROVE  BaseInv' /\ Grows
<1>1. /\ UNCHANGED <<Client, live, up, log>> /\ c.sock = "open" /\ srv.at \in Place
      /\ srv' \in ServerState /\ srv'.at = Null /\ srv'.painted = srv.painted
      /\ srv'.work = srv.work /\ srv'.cold = srv.cold
      /\ down' = Append(down, Frame("destroyed", srv.at))
  BY DestroysSteps DEF Client
<1>2. Grows /\ Known' = Known BY <1>1, Unlogged DEF BaseInv
<1>3. /\ \A j \in 1..Len(srv.work) : srv.work[j].do = "new" => srv.work[j].of \in NewSession
      /\ {srv.at, srv.painted, Null} \subseteq Maybe(Known) /\ srv.cold \subseteq Known
      /\ \A j \in 1..Len(srv.work) : srv.work[j].of \in Known
      /\ up \in Seq(UpFrame) /\ \A j \in 1..Len(up) : Names(up[j]) => up[j].s \in Known
  BY DEF BaseInv, WireFormed, WireKnown, Maybe
<1>4. /\ Frame("destroyed", srv.at) \in DownFrame /\ ~Names(Frame("destroyed", srv.at))
  BY <1>1, FrameDown
<1>5. /\ down' \in Seq(DownFrame)
      /\ \A j \in 1..Len(down') : Names(down'[j]) => down'[j].s \in Known
  BY <1>1, <1>4, MoreDown
<1>6. {srv'.at, srv'.painted} \subseteq Maybe(Known) /\ srv'.cold \subseteq Known BY <1>1, <1>3
<1>7. /\ up' \in Seq(UpFrame) /\ \A j \in 1..Len(up') : Names(up'[j]) => up'[j].s \in Known
      /\ \A j \in 1..Len(srv'.work) : srv'.work[j].do = "new" => srv'.work[j].of \in NewSession
      /\ \A j \in 1..Len(srv'.work) : srv'.work[j].of \in Known
  BY <1>1, <1>3
<1> QED BY <1>1, <1>2, <1>5, <1>6, <1>7, ServerBase

--------------------
(* Every step is one of these. *)

\* The steps, one by one.
Steps ==
    \/ (\E s \in Old : Joins(s)) \/ (\E s \in Old : Switches(s)) \/ (\E n \in NewSession : Creates(n))
    \/ Leaves \/ Submits \/ (\E m \in Message : Resends(m)) \/ (\E m \in Message : Discards(m))
    \/ Closes \/ GoesSilent \/ (Ticks \/ BecomesVisible) \/ (RetryFires \/ HandshakeStalls)
    \/ Suspends \/ ReloadsPage \/ Opens \/ Reads \/ ServerReads \/ ServerFinishes
    \/ ServerBuilds \/ ProbeExpires \/ (LoadExpires \/ CreateExpires)
    \/ (\E m \in Message : ConfirmExpires(m)) \/ Resumes \/ ServerDestroys

LEMMA NextSteps == ASSUME ClientNext PROVE Steps
BY DEF ClientNext, User, Failure, Network, Timer, Steps

LEMMA EventsStep == ASSUME clientEvents \in Nat, ClientNext PROVE clientEvents' \in Nat
<1>1. clientEvents' = clientEvents \/ Budget
  <2>1. ASSUME NEW i, ServerAnswers(i) PROVE clientEvents' = clientEvents \/ Budget
    BY <2>1 DEF ServerAnswers
  <2>2. CASE ServerFinishes BY <2>1, <2>2 DEF ServerFinishes
  <2>3. CASE ServerBuilds BY <2>3 DEF ServerBuilds
  <2>4. CASE \/ (\E s \in Old : Joins(s)) \/ (\E s \in Old : Switches(s))
             \/ (\E n \in NewSession : Creates(n)) \/ Leaves \/ Submits
             \/ (\E m \in Message : Resends(m)) \/ (\E m \in Message : Discards(m))
    BY <2>4 DEF Joins, Switches, Creates, Leaves, Submits, Resends, Discards
  <2>5. CASE \/ Closes \/ GoesSilent \/ Ticks \/ BecomesVisible \/ RetryFires \/ HandshakeStalls
             \/ Suspends \/ ReloadsPage \/ Opens \/ Reads \/ Resumes \/ ServerDestroys
    BY <2>5 DEF Closes, GoesSilent, Ticks, BecomesVisible, RetryFires, HandshakeStalls,
                Suspends, ReloadsPage, Opens, Reads, Resumes, ServerDestroys
  <2>6. CASE \/ ServerReads \/ ProbeExpires \/ LoadExpires \/ CreateExpires
             \/ (\E m \in Message : ConfirmExpires(m))
    BY <2>6 DEF ServerReads, ProbeExpires, LoadExpires, CreateExpires, ConfirmExpires
  <2> QED BY <2>2, <2>3, <2>4, <2>5, <2>6, NextSteps DEF Steps
<1> QED BY <1>1 DEF Budget

LEMMA BaseStep ==
    ASSUME BaseInv, clientEvents \in Nat, ClientNext
    PROVE  BaseInv' /\ Grows
BY NextSteps, JoinsBase, SwitchesBase, CreatesBase, LeavesBase, SubmitsBase, ResendsBase,
   DiscardsBase, ClosesBase, SilentBase, ProbesBase, RetryBase, SuspendsBase, ReloadsBase,
   OpensBase, ReadsBase, ServerReadsBase, FinishesBase, BuildsBase, ProbeExpiresBase,
   TimersBase, ConfirmBase, ResumesBase, DestroysBase DEF Steps

LEMMA BaseStutters ==
    ASSUME BaseInv, UNCHANGED clientVars
    PROVE  BaseInv' /\ Grows
<1>1. UNCHANGED <<c, view, timers, saved, home, live, up, down, srv, log, want, dropped, mark, clientEvents>>
  BY DEF clientVars, conn
<1>2. Grows /\ Known' = Known BY <1>1, Unlogged DEF BaseInv
<1>3. ClientFormed' /\ WireFormed' /\ SocketInv'
  BY <1>1 DEF BaseInv, ClientFormed, WireFormed, SocketInv
<1>4. ClientKnown' /\ WireKnown' BY <1>1, <1>2 DEF BaseInv, ClientKnown, WireKnown
<1> QED BY <1>2, <1>3, <1>4 DEF BaseInv

LEMMA BaseInit ==
    ASSUME ClientInit
    PROVE  BaseInv /\ clientEvents \in Nat
<1>1. /\ c = [IdleClient EXCEPT !.sock = "opening"]
      /\ view = NoBubbles /\ timers = {} /\ saved = [s \in Session |-> {}]
      /\ home = [m \in Message |-> Null]
      /\ live = TRUE /\ up = <<>> /\ down = <<>> /\ srv = NoSocket
      /\ log = [s \in Session |-> IF s \in Old THEN {} ELSE Null]
      /\ want = Null /\ clientEvents = 0
  BY DEF ClientInit
<1>2. /\ c \in ClientState /\ c.sock = "opening" /\ c.retry = FALSE /\ c.probe = "no"
      /\ c.shown = Null /\ c.pending = Null /\ c.resume = Null /\ c.queued = Null
      /\ c.abandoned = {}
  BY <1>1 DEF IdleClient, ClientState, Place, Maybe
<1>3. ClientFormed BY <1>1, <1>2, BubblesIs DEF ClientFormed, Place, Maybe
<1>4. /\ <<>> \in Seq(UpFrame) /\ <<>> \in Seq(DownFrame) /\ Len(<<>>) = 0 BY EmptySeq
<1>5. \A i \in 1..Len(<<>>) : FALSE BY <1>4
<1>6. {} \in SUBSET Message /\ {} # Null BY SessionShape
<1>7. log \in [Session -> Maybe(SUBSET Message)] BY <1>1, <1>6 DEF Maybe
<1>8. WireFormed BY <1>1, <1>4, <1>5, <1>7, NoSocketIs DEF WireFormed
<1>9. SocketInv BY <1>1, <1>2 DEF SocketInv
<1>10. Old \subseteq Known BY <1>1, <1>6 DEF Known, Session
<1>11. ClientKnown BY <1>1, <1>2, <1>10 DEF ClientKnown, Maybe
<1>12. WireKnown BY <1>1, <1>5, NoSocketIs DEF WireKnown, Maybe
<1> QED BY <1>1, <1>3, <1>8, <1>9, <1>11, <1>12 DEF BaseInv

\* Nobody names what does not exist, on any run.
LEMMA BaseHolds ==
    ClientSpec => [](BaseInv /\ clientEvents \in Nat)
<1>1. ClientInit => BaseInv /\ clientEvents \in Nat BY BaseInit
<1>2. BaseInv /\ clientEvents \in Nat /\ [ClientNext]_clientVars => (BaseInv /\ clientEvents \in Nat)'
  <2>1. UNCHANGED clientVars => clientEvents' = clientEvents BY DEF clientVars
  <2> QED BY <2>1, BaseStep, BaseStutters, EventsStep
<1> QED BY <1>1, <1>2, PTL DEF ClientSpec

LEMMA BaseTypes == ASSUME BaseInv PROVE ClientTypeOK
<1>1. /\ UpFrame \subseteq Frames /\ DownFrame \subseteq Frames BY FramesIn
<1>2. up \in Seq(Frames) /\ down \in Seq(Frames)
  <2>1. up \in Seq(UpFrame) /\ down \in Seq(DownFrame) BY DEF BaseInv, WireFormed
  <2> QED BY <1>1, <2>1, SeqMonotonic
<1>3. /\ c.sock \in {"none", "opening", "open"} /\ c.probe \in {"no", "tick", "return"}
      /\ {c.shown, c.pending, c.resume, c.hydrated, want} \subseteq Maybe(Session)
      /\ c.queued \in Maybe(Request) /\ c.abandoned \subseteq Session
  BY DEF BaseInv, ClientFormed, ClientState, Place
<1>4. /\ view \in [Message -> {"none", "sending", "failed", "plain"}]
      /\ timers \subseteq Message /\ saved \in [Session -> SUBSET Message]
      /\ home \in [Message -> Maybe(Session)]
  BY DEF BaseInv, ClientFormed, Bubble, Place
<1>5. /\ {srv.at, srv.painted} \subseteq Maybe(Session)
      /\ \A s \in Session : log[s] \in Maybe(SUBSET Message)
  BY DEF BaseInv, WireFormed, ServerState, Place
<1>6. (Connected => ~c.retry) /\ (c.probe # "no" => Connected) BY DEF BaseInv, SocketInv, Connected
<1> QED BY <1>2, <1>3, <1>4, <1>5, <1>6 DEF ClientTypeOK

\* The client's state, its bubbles, the frames on the wire and what the server holds of
\* the socket keep their types, and the socket's flags agree with one another.
THEOREM ClientTypes ==
    ClientSpec => []ClientTypeOK
BY BaseHolds, BaseTypes, PTL

--------------------
(* Whatever the user waits for has a timer behind it. *)

LEMMA MarkGrows == ASSUME ClientNext PROVE mark \subseteq mark'
<1>1. ASSUME NEW f PROVE OnCreated(f) \/ OnHistory(f) \/ OnReady(f) \/ OnAck(f) \/ OnError(f)
                           \/ OnDestroyed(f) \/ OnPong(f) => mark \subseteq mark'
  BY DEF OnCreated, OnHistory, OnReady, OnAck, OnError, OnDestroyed, OnPong
<1>2. CASE Reads BY <1>1, <1>2 DEF Reads
<1>3. CASE \/ (\E s \in Old : Joins(s)) \/ (\E s \in Old : Switches(s))
           \/ (\E n \in NewSession : Creates(n)) \/ Leaves \/ Submits
           \/ (\E m \in Message : Resends(m)) \/ (\E m \in Message : Discards(m))
  <2>1. ASSUME NEW do, NEW S, mark' = Doubled(do, S) PROVE mark \subseteq mark' BY <2>1 DEF Doubled
  <2>2. CASE \/ (\E s \in Old : Joins(s)) \/ (\E s \in Old : Switches(s))
             \/ (\E n \in NewSession : Creates(n))
    BY <2>1, <2>2 DEF Joins, Switches, Creates
  <2>3. CASE \/ Leaves \/ Submits
             \/ (\E m \in Message : Resends(m)) \/ (\E m \in Message : Discards(m))
    BY <2>3 DEF Leaves, Submits, Resends, Discards
  <2> QED BY <1>3, <2>2, <2>3
<1>4. CASE \/ Closes \/ GoesSilent \/ Ticks \/ BecomesVisible \/ RetryFires \/ HandshakeStalls
           \/ Suspends \/ ReloadsPage \/ Opens \/ Resumes \/ ServerDestroys
  BY <1>4 DEF Closes, GoesSilent, Ticks, BecomesVisible, RetryFires, HandshakeStalls,
              Suspends, ReloadsPage, Opens, Resumes, ServerDestroys, Probed
<1>5. CASE \/ ServerReads \/ ServerFinishes \/ ServerBuilds \/ ProbeExpires \/ LoadExpires
           \/ CreateExpires \/ (\E m \in Message : ConfirmExpires(m))
  BY <1>5 DEF ServerReads, ServerFinishes, ServerBuilds, ProbeExpires, LoadExpires,
              CreateExpires, ConfirmExpires
<1> QED BY <1>2, <1>3, <1>4, <1>5, NextSteps DEF Steps

\* A spinner is armed while nothing disarmed it.
Watched == /\ c.loading => c.loadTimer
           /\ c.creating => c.createTimer
           /\ c.sock = "open" /\ c.resyncing => c.loadTimer
WatchInv == /\ SendingIsTimed /\ NeverParked
            /\ "disarmed" \notin mark => Watched

LEMMA StillTimed ==
    ASSUME SendingIsTimed, timers \subseteq timers',
           \A m \in Message : view'[m] = "sending" => view[m] = "sending" \/ m \in timers'
    PROVE  SendingIsTimed'
BY DEF SendingIsTimed

LEMMA NoneTimed == ASSUME view' = NoBubbles PROVE SendingIsTimed'
BY BubblesIs DEF SendingIsTimed

LEMMA StillWatched ==
    ASSUME WatchInv, mark \subseteq mark', c' = c, SendingIsTimed'
    PROVE  WatchInv'
BY DEF WatchInv, NeverParked, Watched

LEMMA UserWatch ==
    ASSUME BaseInv, WatchInv, mark \subseteq mark',
           \/ (\E s \in Old : Joins(s)) \/ (\E s \in Old : Switches(s))
           \/ (\E n \in NewSession : Creates(n)) \/ Leaves
    PROVE  WatchInv'
<1>1. c \in ClientState BY DEF BaseInv, ClientFormed
<1>2. view' \in {view, NoBubbles} /\ timers' = timers BY DEF Joins, Switches, Creates, Leaves, Keep
<1>3. SendingIsTimed' BY <1>2, StillTimed, NoneTimed DEF WatchInv
<1>4. c'.sock = c.sock /\ c'.retry = c.retry /\ c'.asleep = c.asleep
  BY <1>1, JoinsClient, SwitchesClient, CreatesClient, LeavesClient, LeavesNothing
<1>5. NeverParked' BY <1>4 DEF WatchInv, NeverParked
<1>6. ASSUME Watched PROVE Watched'
  <2>1. ASSUME NEW s \in Old, Joins(s) PROVE Watched'
    <3>1. /\ c'.sock = c.sock /\ c'.loading = TRUE /\ c'.loadTimer = TRUE
          /\ c'.creating = c.creating /\ c'.createTimer = c.createTimer
      BY <1>1, <2>1, JoinsClient
    <3> QED BY <1>6, <3>1 DEF Watched
  <2>2. ASSUME NEW s \in Old, Switches(s) PROVE Watched'
    <3>1. /\ c'.loading = TRUE /\ c'.loadTimer = TRUE /\ c'.creating = FALSE
      BY <1>1, <2>2, SwitchesClient
    <3> QED BY <3>1 DEF Watched
  <2>3. ASSUME NEW n \in NewSession, Creates(n) PROVE Watched'
    <3>1. /\ c'.sock = c.sock /\ c'.loading = FALSE /\ c'.loadTimer = c.loadTimer
          /\ c'.resyncing = c.resyncing /\ c'.createTimer = TRUE
      BY <1>1, <2>3, CreatesClient
    <3> QED BY <1>6, <3>1 DEF Watched
  <2>4. ASSUME Leaves PROVE Watched'
    <3>1. \/ /\ c'.sock = c.sock /\ c'.loading = c.loading /\ c'.loadTimer = c.loadTimer
             /\ c'.resyncing = c.resyncing /\ c'.creating = FALSE
          \/ c'.loading = FALSE /\ c'.resyncing = FALSE /\ c'.creating = FALSE
      BY <1>1, <2>4, LeavesClient, LeavesNothing
    <3> QED BY <1>6, <3>1 DEF Watched
  <2> QED BY <2>1, <2>2, <2>3, <2>4
<1> QED BY <1>3, <1>5, <1>6 DEF WatchInv

LEMMA MessageWatch ==
    ASSUME BaseInv, WatchInv, mark \subseteq mark',
           \/ Submits \/ (\E m \in Message : Resends(m)) \/ (\E m \in Message : Discards(m))
           \/ (\E m \in Message : ConfirmExpires(m)) \/ GoesSilent
    PROVE  WatchInv'
<1>1. c \in ClientState /\ SendingIsTimed BY DEF BaseInv, ClientFormed, WatchInv
<1>2. CASE Submits
  <2>1. PICK m \in Message :
           /\ view'[m] = "sending" /\ \A k \in Message \ {m} : view'[k] = view[k]
           /\ timers' = timers \cup {m}
    BY <1>2, SubmitsSteps
  <2>2. SendingIsTimed' BY <1>1, <2>1 DEF SendingIsTimed
  <2>3. c' = c BY <1>2 DEF Submits
  <2> QED BY <2>2, <2>3, StillWatched
<1>3. ASSUME NEW m \in Message, Resends(m) PROVE WatchInv'
  <2>1. \/ /\ \A k \in Message \ {m} : view'[k] = view[k]
           /\ timers' = timers \cup {m}
        \/ UNCHANGED <<view, timers>>
    BY <1>3, ResendsSteps
  <2>2. SendingIsTimed' BY <1>1, <2>1 DEF SendingIsTimed
  <2>3. /\ c'.sock = c.sock
        /\ c'.retry = (IF c.sock = "open" THEN c.retry ELSE c.retry \/ c.sock = "none")
        /\ c'.asleep = c.asleep /\ c'.loading = c.loading
        /\ c'.resyncing = c.resyncing /\ c'.creating = c.creating
        /\ c'.loadTimer = c.loadTimer /\ c'.createTimer = c.createTimer
    BY <1>1, <1>3, ResendsClient
  <2>4. NeverParked' /\ (Watched => Watched') BY <2>3 DEF WatchInv, NeverParked, Watched
  <2> QED BY <2>2, <2>4 DEF WatchInv
<1>4. ASSUME NEW m \in Message, Discards(m) PROVE WatchInv'
  <2>1. /\ view'[m] = "none" /\ \A k \in Message \ {m} : view'[k] = view[k]
        /\ timers' = timers \ {m} /\ c' = c
    BY <1>4, DiscardsSteps
  <2>2. SendingIsTimed' BY <1>1, <2>1 DEF SendingIsTimed
  <2> QED BY <2>1, <2>2, StillWatched
<1>5. ASSUME NEW m \in Message, ConfirmExpires(m) PROVE WatchInv'
  <2>1. /\ timers' = timers \ {m} /\ c' = c
        /\ \/ view[m] # "sending" /\ view' = view
           \/ view'[m] = "failed" /\ \A k \in Message \ {m} : view'[k] = view[k]
    BY <1>5, ConfirmSteps
  <2>2. SendingIsTimed' BY <1>1, <2>1 DEF SendingIsTimed
  <2> QED BY <2>1, <2>2, StillWatched
<1>6. CASE GoesSilent
  <2>1. c' = c /\ view' = view /\ timers' = timers BY <1>6 DEF GoesSilent
  <2>2. SendingIsTimed' BY <1>1, <2>1, StillTimed
  <2> QED BY <2>1, <2>2, StillWatched
<1> QED BY <1>2, <1>3, <1>4, <1>5, <1>6

LEMMA SocketWatch ==
    ASSUME BaseInv, WatchInv, mark \subseteq mark',
           \/ Closes \/ Ticks \/ BecomesVisible \/ RetryFires \/ HandshakeStalls
           \/ Suspends \/ ReloadsPage \/ ProbeExpires \/ Resumes \/ LoadExpires \/ CreateExpires
    PROVE  WatchInv'
<1>1. c \in ClientState /\ SendingIsTimed BY DEF BaseInv, ClientFormed, WatchInv
<1>2. \/ view' = NoBubbles
      \/ view' = view /\ timers' = timers
  BY DEF Closes, Ticks, BecomesVisible, Probed, RetryFires, HandshakeStalls, Reconnect,
         Suspends, ReloadsPage, ProbeExpires, Resumes, LoadExpires, CreateExpires
<1>3. SendingIsTimed' BY <1>1, <1>2, StillTimed, NoneTimed
<1>4. CASE Closes \/ Suspends \/ ProbeExpires \/ RetryFires \/ HandshakeStalls \/ Resumes \/ ReloadsPage
  <2>1. /\ c'.sock # "open" /\ c'.loading = FALSE /\ c'.creating = FALSE
        /\ c'.asleep = TRUE \/ c'.sock # "none" \/ c'.retry = TRUE
    <3>1. CASE Closes \/ Suspends \/ ProbeExpires \/ Resumes
      BY <1>1, <3>1, ClosesClient, SuspendsClient, ExpiresReturn, ExpiresTick, ResumesClient
    <3>2. CASE RetryFires \/ HandshakeStalls
      <4>1. Reconnect BY <3>2 DEF RetryFires, HandshakeStalls
      <4> QED BY <1>1, <4>1, ReconnectClient
    <3>3. CASE ReloadsPage BY <3>3, ReloadsSteps
    <3> QED BY <1>4, <3>1, <3>2, <3>3
  <2>2. NeverParked' /\ Watched' BY <2>1 DEF NeverParked, Watched
  <2> QED BY <1>3, <2>2 DEF WatchInv
<1>5. CASE Ticks \/ BecomesVisible
  <2>1. /\ c'.sock = c.sock /\ c'.retry = c.retry
        /\ c'.asleep = c.asleep /\ c'.loading = c.loading
        /\ c'.resyncing = c.resyncing /\ c'.creating = c.creating
        /\ c'.loadTimer = c.loadTimer /\ c'.createTimer = c.createTimer
    BY <1>5, ProbesSteps
  <2>2. NeverParked' /\ (Watched => Watched') BY <2>1 DEF WatchInv, NeverParked, Watched
  <2> QED BY <1>3, <2>2 DEF WatchInv
<1>6. CASE LoadExpires
  <2>1. /\ c'.sock = c.sock /\ c'.retry = c.retry
        /\ c'.asleep = c.asleep /\ c'.loading = FALSE /\ c'.resyncing = FALSE
        /\ c'.creating = c.creating /\ c'.createTimer = c.createTimer
    BY <1>1, <1>6, LoadExpiresClient
  <2>2. NeverParked' /\ (Watched => Watched') BY <2>1 DEF WatchInv, NeverParked, Watched
  <2> QED BY <1>3, <2>2 DEF WatchInv
<1>7. CASE CreateExpires
  <2>1. /\ c'.sock = c.sock /\ c'.retry = c.retry
        /\ c'.asleep = c.asleep /\ c'.loading = c.loading /\ c'.resyncing = c.resyncing
        /\ c'.creating = FALSE /\ c'.loadTimer = c.loadTimer
    BY <1>1, <1>7, CreateExpiresClient
  <2>2. NeverParked' /\ (Watched => Watched') BY <2>1 DEF WatchInv, NeverParked, Watched
  <2> QED BY <1>3, <2>2 DEF WatchInv
<1> QED BY <1>4, <1>5, <1>6, <1>7

LEMMA OpensWatch ==
    ASSUME BaseInv, WatchInv, mark \subseteq mark', Opens
    PROVE  WatchInv'
<1>1. /\ view' = view /\ timers' = timers /\ c'.sock = "open"
      /\ \/ /\ c'.loading = TRUE /\ c'.loadTimer = TRUE
            /\ c'.creating = c.creating /\ c'.createTimer = c.createTimer
         \/ /\ c'.resyncing = FALSE /\ c'.loading = FALSE /\ c'.createTimer = TRUE
         \/ /\ c'.loadTimer = TRUE
            /\ c'.creating = c.creating /\ c'.createTimer = c.createTimer
         \/ /\ c'.resyncing = FALSE /\ c'.loading = c.loading /\ c'.loadTimer = c.loadTimer
            /\ c'.creating = c.creating /\ c'.createTimer = c.createTimer
  BY OpensSteps
<1>2. SendingIsTimed' BY <1>1, StillTimed DEF WatchInv
<1>3. NeverParked' /\ (Watched => Watched') BY <1>1 DEF NeverParked, Watched
<1> QED BY <1>2, <1>3 DEF WatchInv

LEMMA ReadsWatch ==
    ASSUME BaseInv, WatchInv, mark \subseteq mark', Reads
    PROVE  WatchInv'
<1>1. PICK f \in DownFrame :
        /\ f = down[1] /\ (Names(f) => f.s \in Known)
        /\ \/ f.t = "created" /\ OnCreated(f)
           \/ f.t = "history" /\ OnHistory(f)
           \/ f.t = "ready" /\ OnReady(f)
           \/ f.t = "ack" /\ OnAck(f)
           \/ f.t = "error" /\ OnError(f)
           \/ f.t = "destroyed" /\ OnDestroyed(f)
           \/ f.t = "pong" /\ OnPong(f)
  BY ReadsSteps
<1>2. c \in ClientState /\ SendingIsTimed /\ c.sock = "open"
  BY ReadsSteps DEF BaseInv, ClientFormed, WatchInv
<1>3. ASSUME c'.sock = c.sock, SendingIsTimed', "disarmed" \notin mark' /\ Watched => Watched'
      PROVE  WatchInv'
  BY <1>2, <1>3 DEF WatchInv, NeverParked
<1>4. CASE f.t = "created" /\ OnCreated(f)
  <2>1. f.s \in Session BY <1>1, <1>4 DEF Names, Known
  <2>2. view' = view /\ timers' = timers BY <1>4 DEF OnCreated
  <2>3. CASE Accepts(c, f.s)
    <3>1. /\ c'.sock = c.sock /\ c'.loading = c.loading /\ c'.resyncing = c.resyncing
          /\ c'.creating = FALSE /\ c'.loadTimer = c.loadTimer
      BY <1>2, <1>4, <2>1, <2>3, AcceptedClient
    <3>2. Watched => Watched' BY <3>1 DEF Watched
    <3> QED BY <1>2, <1>3, <2>2, <3>1, <3>2, StillTimed
  <2>4. CASE ~Accepts(c, f.s)
    <3>1. /\ c'.sock = c.sock /\ c'.loading = c.loading /\ c'.resyncing = c.resyncing
          /\ c'.creating = c.creating /\ c'.loadTimer = c.loadTimer
      BY <1>2, <1>4, <2>1, <2>4, RejectedClient
    <3>2. c.creating => "disarmed" \in mark' BY <1>4, <2>4 DEF OnCreated
    <3>3. "disarmed" \notin mark' /\ Watched => Watched' BY <3>1, <3>2 DEF Watched
    <3> QED BY <1>2, <1>3, <2>2, <3>1, <3>3, StillTimed
  <2> QED BY <2>3, <2>4
<1>5. CASE f.t = "history" /\ OnHistory(f)
  <2>1. f.s \in Session BY <1>1, <1>5 DEF Names, Known
  <2>2. /\ c'.sock = c.sock /\ c'.loading = (Stale(f) /\ c.loading)
        /\ c'.resyncing = (Stale(f) /\ c.resyncing) /\ c'.creating = c.creating
        /\ c'.loadTimer = (Stale(f) /\ c.loadTimer) /\ c'.createTimer = c.createTimer
    BY <1>2, <1>5, HistoryClient
  <2>3. Watched => Watched' BY <2>2 DEF Watched
  <2>4. SendingIsTimed'
    <3>1. CASE Stale(f)
      <4>1. view' = view /\ timers' = timers BY <1>5, <3>1 DEF OnHistory
      <4> QED BY <1>2, <4>1, StillTimed
    <3>2. CASE ~Stale(f)
      <4>1. \A m \in Message : view'[m] # "sending" BY <1>5, <2>1, <3>2, HistorySteps
      <4> QED BY <4>1 DEF SendingIsTimed
    <3> QED BY <3>1, <3>2
  <2> QED BY <1>3, <2>2, <2>3, <2>4
<1>6. CASE f.t = "ready" /\ OnReady(f)
  <2>1. view' = view /\ timers' = timers BY <1>6 DEF OnReady
  <2>2. /\ c'.sock = c.sock /\ c'.loading = c.loading /\ c'.resyncing = c.resyncing
        /\ c'.creating = c.creating /\ c'.loadTimer = c.loadTimer
        /\ c'.createTimer = c.createTimer
    BY <1>2, <1>6, ReadyClient
  <2>3. Watched => Watched' BY <2>2 DEF Watched
  <2> QED BY <1>2, <1>3, <2>1, <2>2, <2>3, StillTimed
<1>7. CASE (f.t = "ack" /\ OnAck(f)) \/ (f.t = "pong" /\ OnPong(f))
  <2>1. SendingIsTimed'
    <3>1. CASE f.t = "ack" /\ OnAck(f)
      <4>1. f.m \in Message BY <3>1 DEF DownFrame
      <4>2. \/ view' = view /\ timers' = timers
            \/ \E m \in Message : /\ view'[m] = "plain" /\ timers' = timers \ {m}
                                  /\ \A k \in Message \ {m} : view'[k] = view[k]
        BY <3>1, <4>1, AckSteps
      <4> QED BY <1>2, <4>2 DEF SendingIsTimed
    <3>2. CASE f.t = "pong" /\ OnPong(f)
      <4>1. view' = view /\ timers' = timers BY <3>2 DEF OnPong
      <4> QED BY <1>2, <4>1, StillTimed
    <3> QED BY <1>7, <3>1, <3>2
  <2>2. /\ c'.sock = c.sock /\ c'.loading = c.loading /\ c'.resyncing = c.resyncing
        /\ c'.creating = c.creating /\ c'.loadTimer = c.loadTimer
        /\ c'.createTimer = c.createTimer
    BY <1>2, <1>7, AckClient
  <2>3. Watched => Watched' BY <2>2 DEF Watched
  <2> QED BY <1>3, <2>1, <2>2, <2>3
<1>8. CASE f.t = "error" /\ OnError(f)
  <2>1. view' = NoBubbles \/ (view' = view /\ timers' = timers) BY <1>8 DEF OnError
  <2>2. SendingIsTimed' BY <1>2, <2>1, StillTimed, NoneTimed
  <2>3. /\ c'.sock = c.sock /\ c'.loading = FALSE /\ c'.resyncing = FALSE /\ c'.creating = FALSE
    BY <1>2, <1>8, PaintRejectedClient, ErrorClient
  <2>4. Watched' BY <2>3 DEF Watched
  <2> QED BY <1>3, <2>2, <2>3, <2>4
<1>9. CASE f.t = "destroyed" /\ OnDestroyed(f)
  <2>1. view' = NoBubbles \/ (view' = view /\ timers' = timers) BY <1>9 DEF OnDestroyed
  <2>2. SendingIsTimed' BY <1>2, <2>1, StillTimed, NoneTimed
  <2>3. /\ c'.sock = c.sock /\ c'.loading = (f.s # c.shown /\ c.loading)
        /\ c'.resyncing = c.resyncing /\ c'.creating = c.creating
        /\ c'.createTimer = c.createTimer
    BY <1>2, <1>9, DestroyedClient
  <2>4. c.loading \/ c.resyncing => "disarmed" \in mark' BY <1>9 DEF OnDestroyed
  <2>5. "disarmed" \notin mark' /\ Watched => Watched' BY <2>3, <2>4 DEF Watched
  <2> QED BY <1>3, <2>2, <2>3, <2>5
<1> QED BY <1>1, <1>4, <1>5, <1>6, <1>7, <1>8, <1>9

LEMMA WatchStep ==
    ASSUME BaseInv, clientEvents \in Nat, WatchInv, ClientNext
    PROVE  WatchInv'
<1>1. mark \subseteq mark' BY MarkGrows
<1>2. ASSUME UNCHANGED <<c, view, timers>> PROVE WatchInv'
  <2>1. SendingIsTimed' BY <1>2, StillTimed DEF WatchInv
  <2> QED BY <1>1, <1>2, <2>1, StillWatched
<1>3. CASE ServerReads \/ ServerFinishes \/ ServerBuilds \/ ServerDestroys
  BY <1>2, <1>3 DEF ServerReads, ServerFinishes, ServerBuilds, ServerDestroys, Client
<1> QED BY <1>1, <1>3, NextSteps, UserWatch, MessageWatch, SocketWatch, OpensWatch, ReadsWatch DEF Steps

LEMMA WatchInit == ASSUME ClientInit PROVE WatchInv
<1>1. c = [IdleClient EXCEPT !.sock = "opening"] /\ view = NoBubbles BY DEF ClientInit
<1>2. c.sock = "opening" /\ c.loading = FALSE /\ c.creating = FALSE BY <1>1 DEF IdleClient
<1> QED BY <1>1, <1>2, BubblesIs DEF WatchInv, SendingIsTimed, NeverParked, Watched

LEMMA WatchStutters == ASSUME WatchInv, UNCHANGED clientVars PROVE WatchInv'
<1>1. c' = c /\ view' = view /\ timers' = timers /\ mark' = mark BY DEF clientVars
<1> QED BY <1>1 DEF WatchInv, SendingIsTimed, NeverParked, Watched

\* The spinner, the message on its way and the connection all have a timer.
THEOREM ClientWaits ==
    ClientSpec => []NothingIsStuck
<1>1. ClientInit => WatchInv BY WatchInit
<1>2. BaseInv /\ clientEvents \in Nat /\ WatchInv /\ [ClientNext]_clientVars => WatchInv'
  BY WatchStep, WatchStutters
<1>3. WatchInv => NothingIsStuck BY DEF WatchInv, Watched, NothingIsStuck, SpinnerIsTimed, Connected
<1> QED BY <1>1, <1>2, <1>3, BaseHolds, PTL DEF ClientSpec

--------------------
(* Messages on the wire. *)

LEMMA JoinsSends ==
    ASSUME BaseInv, NEW s \in Old, Joins(s)
    PROVE  /\ Asks(Load(s)) \in UpFrame /\ Asks(Load(s)).t = "load" /\ Asks(Load(s)).s = s
           /\ up' = IF c.sock = "open" THEN Append(up, Asks(Load(s))) ELSE up
<1>1. s \in Session /\ Sends(<<Asks(Load(s))>>) BY DEF Session, Joins
<1>2. Asks(Load(s)) \in UpFrame /\ Asks(Load(s)).t = "load" /\ Asks(Load(s)).s = s
  BY <1>1, LoadIs, AsksIs
<1> QED BY <1>1, <1>2, SendsOne

LEMMA CreatesSends ==
    ASSUME BaseInv, NEW n \in NewSession, Creates(n)
    PROVE  LET x == Asks([do |-> "new", of |-> n]) IN
           /\ x \in UpFrame /\ x.t = "new" /\ x.s = n
           /\ up' = IF c.sock = "open" THEN Append(up, x) ELSE up
<1> DEFINE r == [do |-> "new", of |-> n]
<1>1. n \in Session /\ Sends(<<Asks(r)>>) BY DEF Session, Creates
<1>2. r \in Request /\ r.of = n /\ r.do = "new" BY <1>1, NewIs
<1> HIDE DEF r
<1>3. Asks(r) \in UpFrame /\ Asks(r).t = "new" /\ Asks(r).s = n BY <1>2, AsksIs
<1>4. up' = IF c.sock = "open" THEN Append(up, Asks(r)) ELSE up BY <1>1, <1>3, SendsOne
<1> QED BY <1>3, <1>4 DEF r

\* The messages on their way up were on their way before.
OldUp == \A i \in 1..Len(up') : up'[i].t = "message" => \E j \in 1..Len(up) : up'[i] = up[j]

LEMMA UpTail ==
    ASSUME BaseInv, up # <<>>, up' = Tail(up)
    PROVE  OldUp
<1>1. \A i \in 1..Len(up') : i + 1 \in 1..Len(up) /\ up'[i] = up[i + 1]
  BY Taken DEF BaseInv, WireFormed
<1> QED BY <1>1 DEF OldUp

LEMMA UpOne ==
    ASSUME BaseInv, NEW x \in UpFrame, x.t # "message", up' = Append(up, x)
    PROVE  OldUp
<1>1. up \in Seq(UpFrame) BY DEF BaseInv, WireFormed
<1>2. /\ Len(up) \in Nat /\ Len(up') = Len(up) + 1 /\ up'[Len(up) + 1] = x
      /\ \A i \in 1..Len(up) : up'[i] = up[i]
  BY <1>1, OneMore
<1>3. \A i \in 1..Len(up') : i \in 1..Len(up) \/ i = Len(up) + 1 BY <1>2
<1> QED BY <1>2, <1>3 DEF OldUp

LEMMA UpTwo ==
    ASSUME BaseInv, NEW x \in UpFrame, NEW y \in UpFrame, x.t # "message", y.t # "message",
           up' = up \o <<x, y>>
    PROVE  OldUp
<1>1. up \in Seq(UpFrame) BY DEF BaseInv, WireFormed
<1>2. /\ Len(up) \in Nat /\ Len(up') = Len(up) + 2 /\ up'[Len(up) + 1] = x
      /\ up'[Len(up) + 2] = y
      /\ \A i \in 1..Len(up) : up'[i] = up[i]
  BY <1>1, TwoMore
<1>3. \A i \in 1..Len(up') : i \in 1..Len(up) \/ i = Len(up) + 1 \/ i = Len(up) + 2 BY <1>2
<1> QED BY <1>2, <1>3 DEF OldUp

LEMMA UpNone == ASSUME up' = <<>> PROVE OldUp
<1>1. Len(<<>>) = 0 BY EmptySeq
<1> QED BY <1>1 DEF OldUp

LEMMA UpSame == ASSUME up' = up PROVE OldUp
BY DEF OldUp

LEMMA OpensUp ==
    ASSUME BaseInv, Opens
    PROVE  \/ up' = <<>>
           \/ \E r \in Request : /\ r.do = "new" => r.of \in NewSession
                                 /\ Asks(r) \in UpFrame /\ Asks(r).t = r.do /\ Asks(r).s = r.of
                                 /\ up' = <<Asks(r)>>
<1>1. ASSUME NEW r \in Request, r = c.queued PROVE r.do = "new" => r.of \in NewSession
  <2>1. r # Null BY SessionShape
  <2> QED BY <1>1, <2>1 DEF BaseInv, ClientKnown
<1>2. ASSUME NEW r \in Request, r = c.queued, up' = <<Asks(r)>>
      PROVE  \E k \in Request : /\ k.do = "new" => k.of \in NewSession
                                /\ Asks(k) \in UpFrame /\ Asks(k).t = k.do /\ Asks(k).s = k.of
                                /\ up' = <<Asks(k)>>
  BY <1>1, <1>2, AsksIs
<1>3. ASSUME NEW s \in Session, up' = <<Asks(Load(s))>>
      PROVE  \E k \in Request : /\ k.do = "new" => k.of \in NewSession
                                /\ Asks(k) \in UpFrame /\ Asks(k).t = k.do /\ Asks(k).s = k.of
                                /\ up' = <<Asks(k)>>
  <2> DEFINE k == Load(s)
  <2>1. k \in Request /\ k.do = "load" /\ up' = <<Asks(k)>> BY <1>3, LoadIs
  <2> HIDE DEF k
  <2>2. Asks(k) \in UpFrame /\ Asks(k).t = k.do /\ Asks(k).s = k.of BY <2>1, AsksIs
  <2> QED BY <2>1, <2>2
<1>4. \/ up' = <<>>
      \/ \E r \in Request : r = c.queued /\ up' = <<Asks(r)>>
      \/ \E s \in Session : up' = <<Asks(Load(s))>>
  BY OpensSteps
<1> QED BY <1>2, <1>3, <1>4

LEMMA AskingUp ==
    ASSUME BaseInv,
           \/ (\E s \in Old : Joins(s)) \/ (\E s \in Old : Switches(s))
           \/ (\E n \in NewSession : Creates(n)) \/ Leaves
    PROVE  OldUp
<1>1. ASSUME NEW s \in Old, Joins(s) PROVE OldUp
  <2>1. /\ Asks(Load(s)) \in UpFrame /\ Asks(Load(s)).t = "load"
        /\ up' = up \/ up' = Append(up, Asks(Load(s)))
    BY <1>1, JoinsSends
  <2> QED BY <2>1, UpOne, UpSame
<1>2. ASSUME NEW s \in Old, Switches(s) PROVE OldUp
  <2>1. c.shown \in Place BY DEF BaseInv, ClientFormed, ClientState
  <2> DEFINE x == Frame("leave", c.shown)
             y == Asks(Load(s))
  <2>2. x \in UpFrame /\ x.t = "leave" BY <2>1, LeaveIs
  <2>3. y \in UpFrame /\ y.t = "load"
    <3>1. Load(s) \in Request /\ Load(s).do = "load" BY LoadIs DEF Session
    <3> QED BY <3>1, AsksIs
  <2>4. up' = up \/ up' = Append(up, y) \/ up' = up \o <<x, y>> BY <1>2, SwitchesSends
  <2> HIDE DEF x, y
  <2> QED BY <2>2, <2>3, <2>4, UpOne, UpTwo, UpSame
<1>3. ASSUME NEW n \in NewSession, Creates(n) PROVE OldUp
  <2> DEFINE x == Asks([do |-> "new", of |-> n])
  <2>1. x \in UpFrame /\ x.t = "new" /\ (up' = up \/ up' = Append(up, x)) BY <1>3, CreatesSends
  <2> HIDE DEF x
  <2> QED BY <2>1, UpOne, UpSame
<1>4. ASSUME Leaves PROVE OldUp
  <2>1. c.shown \in Place BY DEF BaseInv, ClientFormed, ClientState
  <2> DEFINE x == Frame("leave", c.shown)
  <2>2. x \in UpFrame /\ x.t = "leave" BY <2>1, LeaveIs
  <2>3. up' = up \/ up' = Append(up, x) BY <1>4, LeavesSteps
  <2> HIDE DEF x
  <2> QED BY <2>2, <2>3, UpOne, UpSame
<1> QED BY <1>1, <1>2, <1>3, <1>4

LEMMA NextUp ==
    ASSUME BaseInv, ClientNext
    PROVE  OldUp \/ Submits \/ (\E m \in Message : Resends(m))
<1>1. CASE Ticks \/ BecomesVisible
  <2> DEFINE x == Frame("ping", Null)
  <2>1. x \in UpFrame /\ x.t = "ping" BY LeaveIs DEF Place, Maybe
  <2>2. up' = Append(up, x) BY <1>1, ProbesSteps
  <2> HIDE DEF x
  <2> QED BY <2>1, <2>2, UpOne
<1>2. CASE Opens
  <2>1. up = <<>> BY <1>2, OpensSteps
  <2>2. ASSUME NEW r \in Request, Asks(r) \in UpFrame, Asks(r).t = r.do, up' = <<Asks(r)>>
        PROVE  OldUp
    <3> DEFINE x == Asks(r)
    <3>1. x \in UpFrame /\ x.t # "message" /\ up' = <<x>> BY <2>2 DEF Request
    <3> HIDE DEF x
    <3>2. up' = Append(up, x) BY <2>1, <3>1
    <3> QED BY <3>1, <3>2, UpOne
  <2> QED BY <1>2, <2>2, OpensUp, UpNone
<1>3. CASE Closes \/ Suspends \/ ReloadsPage \/ ProbeExpires
  BY <1>3, UpNone DEF Closes, Suspends, ReloadsPage, ProbeExpires, LosesSocket
<1>4. CASE ServerReads BY <1>4, ServerReadsSteps, UpTail
<1>5. CASE \/ GoesSilent \/ RetryFires \/ HandshakeStalls \/ Reads \/ ServerFinishes
           \/ ServerBuilds \/ LoadExpires \/ CreateExpires \/ Resumes \/ ServerDestroys
           \/ (\E m \in Message : ConfirmExpires(m)) \/ (\E m \in Message : Discards(m))
  BY <1>5, UpSame DEF GoesSilent, RetryFires, HandshakeStalls, Reads, ServerFinishes,
       ServerBuilds, LoadExpires, CreateExpires, Resumes, ServerDestroys, ConfirmExpires,
       Discards, conn
<1> QED BY <1>1, <1>2, <1>3, <1>4, <1>5, AskingUp, NextSteps DEF Steps

\* What is new on the way down is true.
NewDown == \A i \in 1..Len(down') : \/ \E j \in 1..Len(down) : down'[i] = down[j]
                                    \/ /\ down'[i].t = "ack" => down'[i].m \in log'[down'[i].s]
                                       /\ down'[i].t = "history" =>
                                            down'[i].of \subseteq log'[down'[i].s]

LEMMA DownTail ==
    ASSUME BaseInv, down # <<>>, down' = Tail(down)
    PROVE  NewDown
<1>1. \A i \in 1..Len(down') : i + 1 \in 1..Len(down) /\ down'[i] = down[i + 1]
  BY Taken DEF BaseInv, WireFormed
<1> QED BY <1>1 DEF NewDown

LEMMA DownOne ==
    ASSUME BaseInv, NEW x \in DownFrame, down' = Append(down, x),
           x.t = "ack" => x.m \in log'[x.s], x.t # "history"
    PROVE  NewDown
<1>1. down \in Seq(DownFrame) BY DEF BaseInv, WireFormed
<1>2. /\ Len(down) \in Nat /\ Len(down') = Len(down) + 1 /\ down'[Len(down) + 1] = x
      /\ \A i \in 1..Len(down) : down'[i] = down[i]
  BY <1>1, OneMore
<1>3. \A i \in 1..Len(down') : i \in 1..Len(down) \/ i = Len(down) + 1 BY <1>2
<1> QED BY <1>2, <1>3 DEF NewDown

LEMMA DownTwo ==
    ASSUME BaseInv, NEW x \in DownFrame, NEW y \in DownFrame, x.t = "created",
           y.t = "history", y.of \subseteq log'[y.s], down' = down \o <<x, y>>
    PROVE  NewDown
<1>1. down \in Seq(DownFrame) BY DEF BaseInv, WireFormed
<1>2. /\ Len(down) \in Nat /\ Len(down') = Len(down) + 2 /\ down'[Len(down) + 1] = x
      /\ down'[Len(down) + 2] = y
      /\ \A i \in 1..Len(down) : down'[i] = down[i]
  BY <1>1, TwoMore
<1>3. \A i \in 1..Len(down') : i \in 1..Len(down) \/ i = Len(down) + 1 \/ i = Len(down) + 2 BY <1>2
<1> QED BY <1>2, <1>3 DEF NewDown

LEMMA NextDown ==
    ASSUME BaseInv, clientEvents \in Nat, ClientNext
    PROVE  NewDown
<1>1. CASE Closes \/ Suspends \/ ReloadsPage \/ ProbeExpires
  <2>1. down' = <<>> /\ Len(<<>>) = 0
    BY <1>1, EmptySeq DEF Closes, Suspends, ReloadsPage, ProbeExpires, LosesSocket
  <2> QED BY <2>1 DEF NewDown
<1>2. CASE Reads BY <1>2, ReadsSteps, DownTail
<1>3. CASE down' = down BY <1>3 DEF NewDown
<1>4. CASE ServerReads
  <2>1. PICK f \in UpFrame :
                /\ (Names(f) => f.s \in Known)
                /\ \/ down' = down
                   \/ down' = Append(down, Frame("error", f.s))
                   \/ /\ f.t = "message" /\ log' = [log EXCEPT ![f.s] = @ \cup {f.m}]
                      /\ down' = Append(down, [f EXCEPT !.t = "ack"])
                   \/ down' = Append(down, Frame("pong", Null))
    BY <1>4, ServerReadsSteps DEF ServerTakes
  <2>2. CASE down' = Append(down, Frame("error", f.s))
    <3>1. f.s \in Place BY DEF UpFrame, Frames, Place
    <3>2. Frame("error", f.s) \in DownFrame /\ Frame("error", f.s).t = "error" BY <3>1, FrameDown
    <3> QED BY <2>2, <3>2, DownOne
  <2>3. CASE down' = Append(down, Frame("pong", Null))
    <3>1. Frame("pong", Null) \in DownFrame /\ Frame("pong", Null).t = "pong"
      BY FrameDown DEF Place, Maybe
    <3> QED BY <2>3, <3>1, DownOne
  <2>4. CASE /\ f.t = "message" /\ log' = [log EXCEPT ![f.s] = @ \cup {f.m}]
             /\ down' = Append(down, [f EXCEPT !.t = "ack"])
    <3> DEFINE x == [f EXCEPT !.t = "ack"]
    <3>1. x \in DownFrame /\ x.t = "ack" /\ x.s = f.s /\ x.m = f.m BY <2>4, AckIs
    <3>2. f.s \in Known /\ {f.m} \in SUBSET Message BY <2>1, <2>4 DEF Names, UpFrame
    <3>3. log'[f.s] = log[f.s] \cup {f.m} BY <2>4, <3>2, Accepted DEF BaseInv
    <3>4. down' = Append(down, x) BY <2>4
    <3> HIDE DEF x
    <3> QED BY <3>1, <3>3, <3>4, DownOne
  <2> QED BY <1>3, <2>1, <2>2, <2>3, <2>4
<1>5. CASE ServerFinishes
  <2>1. PICK i \in 1..Len(srv.work) : ServerAnswers(i) BY <1>5 DEF ServerFinishes
  <2>2. log' = log BY <1>5 DEF ServerFinishes
  <2>3. PICK r : r = srv.work[i] OBVIOUS
  <2>4. /\ r.of \in Known
        /\ \/ \E b \in BOOLEAN : down' = down \o <<PaintFrame(r.of, b), History(r.of)>>
           \/ down' = Append(down, Frame("error", Null))
    BY <2>1, <2>3, AnswersSteps
  <2>5. ASSUME NEW b \in BOOLEAN, down' = down \o <<PaintFrame(r.of, b), History(r.of)>>
        PROVE  NewDown
    <3> DEFINE x == PaintFrame(r.of, b)
               y == History(r.of)
    <3>1. x \in DownFrame /\ x.t = "created"
      <4>1. r.of \in Session BY <2>4 DEF Known
      <4> QED BY <4>1, PaintIs
    <3>2. y \in DownFrame /\ y.t = "history" /\ y.s = r.of /\ y.of = log[r.of]
      BY <2>4, HistoryIs DEF BaseInv
    <3>3. down' = down \o <<x, y>> BY <2>5
    <3> HIDE DEF x, y
    <3> QED BY <2>2, <3>1, <3>2, <3>3, DownTwo
  <2>6. CASE down' = Append(down, Frame("error", Null))
    <3>1. Frame("error", Null) \in DownFrame /\ Frame("error", Null).t = "error"
      BY FrameDown DEF Place, Maybe
    <3> QED BY <2>6, <3>1, DownOne
  <2> QED BY <2>4, <2>5, <2>6
<1>6. CASE ServerBuilds
  <2>1. PICK s \in Place : \/ down' = Append(down, Frame("ready", s))
                           \/ down' = down
                           \/ down' = Append(down, Frame("error", s))
    <3>1. PICK s \in srv.cold : /\ s \in Known
                                /\ \/ down' = Append(down, Frame("ready", s))
                                   \/ down' = down
                                   \/ down' = Append(down, Frame("error", s))
      BY <1>6, BuildsSteps
    <3>2. s \in Place BY <3>1 DEF Known, Place, Maybe
    <3> QED BY <3>1, <3>2
  <2>2. /\ Frame("ready", s) \in DownFrame /\ Frame("ready", s).t = "ready"
        /\ Frame("error", s) \in DownFrame /\ Frame("error", s).t = "error"
    BY FrameDown
  <2> QED BY <1>3, <2>1, <2>2, DownOne
<1>7. CASE ServerDestroys
  <2> DEFINE x == Frame("destroyed", srv.at)
  <2>1. srv.at \in Place /\ down' = Append(down, x) BY <1>7, DestroysSteps
  <2>2. x \in DownFrame /\ x.t = "destroyed" BY <2>1, FrameDown
  <2> HIDE DEF x
  <2> QED BY <2>1, <2>2, DownOne
<1>8. CASE \/ (\E s \in Old : Joins(s)) \/ (\E s \in Old : Switches(s)) \/ (\E n \in NewSession : Creates(n))
           \/ Leaves \/ Submits \/ (\E m \in Message : Resends(m)) \/ (\E m \in Message : Discards(m))
  BY <1>3, <1>8 DEF Joins, Switches, Creates, Leaves, Submits, Resends, Discards, Keep, conn
<1>9. CASE \/ GoesSilent \/ Ticks \/ BecomesVisible \/ RetryFires \/ HandshakeStalls \/ Opens
           \/ LoadExpires \/ CreateExpires \/ Resumes \/ (\E m \in Message : ConfirmExpires(m))
  BY <1>3, <1>9 DEF GoesSilent, Ticks, BecomesVisible, Probed, RetryFires, HandshakeStalls,
       Opens, LoadExpires, CreateExpires, Resumes, ConfirmExpires, conn
<1> QED BY <1>1, <1>2, <1>4, <1>5, <1>6, <1>7, <1>8, <1>9, NextSteps DEF Steps

\* What a session accepts was on its way to it.
NewLog == \A s \in Known' : \A m \in log'[s] :
            \/ s \in Known /\ m \in log[s]
            \/ \E j \in 1..Len(up) : up[j].t = "message" /\ up[j].s = s /\ up[j].m = m

LEMMA LostLog ==
    ASSUME BaseInv, LosesSocket
    PROVE  NewLog
<1>1. CASE log' = log BY <1>1, Unlogged DEF BaseInv, NewLog
<1>2. ASSUME live, srv.at # Null, NEW k \in 1..Len(up),
             \A i \in 1..k : up[i].t = "message" /\ up[i].s = srv.at,
             log' = [log EXCEPT ![srv.at] = @ \cup {up[i].m : i \in 1..k}]
      PROVE  NewLog
  <2>1. srv.at \in Known BY <1>2 DEF BaseInv, WireKnown, Maybe
  <2>2. Len(up) \in Nat /\ \A i \in 1..Len(up) : up[i] \in UpFrame
    BY LenProperties, ElementOfSeq DEF BaseInv, WireFormed
  <2>3. \A i \in 1..k : i \in 1..Len(up) BY <2>2
  <2>4. \A i \in 1..k : up[i].m \in Message BY <1>2, <2>2, <2>3 DEF UpFrame
  <2> DEFINE A == {up[i].m : i \in 1..k}
  <2>5. log' = [log EXCEPT ![srv.at] = @ \cup A] /\ A \in SUBSET Message BY <1>2, <2>4
  <2>6. \A m \in A : \E i \in 1..Len(up) : up[i].t = "message" /\ up[i].s = srv.at /\ up[i].m = m
    BY <1>2, <2>3
  <2> HIDE DEF A
  <2>7. /\ Known' = Known /\ log'[srv.at] = log[srv.at] \cup A
        /\ \A r \in Session \ {srv.at} : log'[r] = log[r]
    BY <2>1, <2>5, Accepted DEF BaseInv
  <2>8. Known \subseteq Session BY DEF Known
  <2> QED BY <2>6, <2>7, <2>8 DEF NewLog
<1> QED BY <1>1, <1>2 DEF LosesSocket

LEMMA NextLog ==
    ASSUME BaseInv, clientEvents \in Nat, ClientNext
    PROVE  NewLog
<1>1. CASE Closes \/ Suspends \/ ReloadsPage \/ ProbeExpires
  BY <1>1, LostLog DEF Closes, Suspends, ReloadsPage, ProbeExpires
<1>2. CASE log' = log BY <1>2, Unlogged DEF BaseInv, NewLog
<1>3. ASSUME NEW n \in NewSession, Creates(n) PROVE NewLog
  <2>1. /\ Known' = Known \cup {n} /\ log'[n] = {}
        /\ \A s \in Known : log'[s] = log[s]
    BY <1>3, CreatesLog DEF BaseInv
  <2> QED BY <2>1 DEF NewLog
<1>4. CASE ServerReads
  <2>1. PICK f \in UpFrame :
                /\ f = up[1] /\ (Names(f) => f.s \in Known)
                /\ \/ log' = log
                   \/ f.t = "message" /\ log' = [log EXCEPT ![f.s] = @ \cup {f.m}]
    BY <1>4, ServerReadsSteps DEF ServerTakes
  <2>2. CASE f.t = "message" /\ log' = [log EXCEPT ![f.s] = @ \cup {f.m}]
    <3>1. f.s \in Known /\ {f.m} \in SUBSET Message BY <2>1, <2>2 DEF Names, UpFrame
    <3>2. /\ Known' = Known /\ log'[f.s] = log[f.s] \cup {f.m}
          /\ \A r \in Session \ {f.s} : log'[r] = log[r]
      BY <2>2, <3>1, Accepted DEF BaseInv
    <3>3. 1 \in 1..Len(up)
      <4>1. up # <<>> BY <1>4, ServerReadsSteps
      <4> QED BY <4>1, Taken DEF BaseInv, WireFormed
    <3>4. Known \subseteq Session BY DEF Known
    <3> QED BY <2>1, <2>2, <3>2, <3>3, <3>4 DEF NewLog
  <2> QED BY <1>2, <2>1, <2>2
<1>5. CASE \/ (\E s \in Old : Joins(s)) \/ (\E s \in Old : Switches(s))
           \/ Leaves \/ Submits \/ (\E m \in Message : Resends(m)) \/ (\E m \in Message : Discards(m))
           \/ Reads \/ ServerFinishes \/ ServerBuilds \/ ServerDestroys
  BY <1>2, <1>5 DEF Joins, Switches, Leaves, Submits, Resends, Discards, Keep, conn,
       Reads, ServerFinishes, ServerBuilds, ServerDestroys
<1>6. CASE \/ GoesSilent \/ Ticks \/ BecomesVisible \/ RetryFires \/ HandshakeStalls \/ Opens
           \/ LoadExpires \/ CreateExpires \/ Resumes \/ (\E m \in Message : ConfirmExpires(m))
  BY <1>2, <1>6 DEF GoesSilent, Ticks, BecomesVisible, Probed, RetryFires, HandshakeStalls,
       Opens, LoadExpires, CreateExpires, Resumes, ConfirmExpires, conn
<1> QED BY <1>1, <1>3, <1>4, <1>5, <1>6, NextSteps DEF Steps

--------------------
(* What a step does to the messages. *)

\* A step that touches no message: the bubbles stay, or go with the session on screen.
Quietly ==
    /\ UNCHANGED <<saved, home, dropped>>
    /\ \/ view' = view /\ c'.shown \in {Null, c.shown} /\ (c'.fresh => c.fresh)
       \/ view' = NoBubbles /\ (c'.shown = Null \/ ~c'.fresh)
\* A reply that touches them.
Reconciles(f) ==
    /\ f \in DownFrame /\ down # <<>> /\ f = down[1] /\ (Names(f) => f.s \in Known)
    /\ UNCHANGED <<home, log, dropped>>
    /\ \/ f.t = "created" /\ OnCreated(f) /\ Accepts(c, f.s)
       \/ f.t = "history" /\ OnHistory(f) /\ ~Stale(f)
       \/ f.t = "ack" /\ OnAck(f)

LEMMA ReadsQuietly ==
    ASSUME BaseInv, Reads
    PROVE  Quietly \/ \E f \in DownFrame : Reconciles(f)
<1>1. /\ UNCHANGED <<home, log, dropped>> /\ down # <<>> /\ c \in ClientState
  BY ReadsSteps DEF BaseInv, ClientFormed
<1>2. PICK f \in DownFrame :
        /\ f = down[1] /\ (Names(f) => f.s \in Known)
        /\ \/ f.t = "created" /\ OnCreated(f)
           \/ f.t = "history" /\ OnHistory(f)
           \/ f.t = "ready" /\ OnReady(f)
           \/ f.t = "ack" /\ OnAck(f)
           \/ f.t = "error" /\ OnError(f)
           \/ f.t = "destroyed" /\ OnDestroyed(f)
           \/ f.t = "pong" /\ OnPong(f)
  BY ReadsSteps
<1>3. ASSUME UNCHANGED <<view, saved>>, c'.shown = c.shown, c'.fresh = c.fresh
      PROVE  Quietly
  BY <1>1, <1>3 DEF Quietly
<1>4. CASE f.t = "created" /\ OnCreated(f)
  <2>1. f.s \in Session BY <1>2, <1>4 DEF Names, Known
  <2>2. CASE Accepts(c, f.s) BY <1>1, <1>2, <1>4, <2>2 DEF Reconciles
  <2>3. CASE ~Accepts(c, f.s)
    <3>1. c'.shown = c.shown /\ c'.fresh = c.fresh BY <1>1, <1>4, <2>1, <2>3, RejectedClient
    <3>2. UNCHANGED <<view, saved>> BY <1>4 DEF OnCreated
    <3> QED BY <1>3, <3>1, <3>2
  <2> QED BY <2>2, <2>3
<1>5. CASE f.t = "history" /\ OnHistory(f)
  <2>1. CASE Stale(f)
    <3>1. c'.shown = c.shown /\ c'.fresh = c.fresh
      <4>1. c' = [c EXCEPT !.probe = "no"] BY <1>5, <2>1 DEF OnHistory
      <4> QED BY <1>1, <4>1 DEF ClientState
    <3>2. UNCHANGED <<view, saved>> BY <1>5, <2>1 DEF OnHistory
    <3> QED BY <1>3, <3>1, <3>2
  <2>2. CASE ~Stale(f) BY <1>1, <1>2, <1>5, <2>2 DEF Reconciles
  <2> QED BY <2>1, <2>2
<1>6. CASE f.t = "ready" /\ OnReady(f)
  <2>1. UNCHANGED <<view, saved>> BY <1>6 DEF OnReady
  <2>2. c'.shown = c.shown /\ c'.fresh = c.fresh BY <1>1, <1>6, ReadyClient
  <2> QED BY <1>3, <2>1, <2>2
<1>7. CASE f.t = "ack" /\ OnAck(f) BY <1>1, <1>2, <1>7 DEF Reconciles
<1>8. CASE f.t = "error" /\ OnError(f)
  <2>1. CASE RejectsPaint(f)
    <3>1. view' = NoBubbles /\ UNCHANGED saved BY <1>8, <2>1 DEF OnError
    <3>2. c'.shown = Null BY <1>1, <1>8, <2>1, PaintRejectedClient
    <3> QED BY <1>1, <3>1, <3>2 DEF Quietly
  <2>2. CASE ~RejectsPaint(f)
    <3>1. UNCHANGED <<view, saved>> BY <1>8, <2>2 DEF OnError
    <3>2. c'.shown = c.shown /\ c'.fresh = c.fresh BY <1>1, <1>8, <2>2, ErrorClient
    <3> QED BY <1>3, <3>1, <3>2
  <2> QED BY <2>1, <2>2
<1>9. CASE f.t = "destroyed" /\ OnDestroyed(f)
  <2>1. /\ view' = (IF f.s = c.shown THEN NoBubbles ELSE view)
        /\ UNCHANGED saved
    BY <1>9 DEF OnDestroyed
  <2>2. c'.shown = (IF f.s = c.shown THEN Null ELSE c.shown) /\ c'.fresh = c.fresh
    BY <1>1, <1>9, DestroyedClient
  <2> QED BY <1>1, <2>1, <2>2 DEF Quietly
<1>10. CASE f.t = "pong" /\ OnPong(f)
  <2>1. UNCHANGED <<view, saved>> BY <1>10 DEF OnPong
  <2>2. c'.shown = c.shown /\ c'.fresh = c.fresh BY <1>1, <1>10, AckClient
  <2> QED BY <1>3, <2>1, <2>2
<1> QED BY <1>2, <1>4, <1>5, <1>6, <1>7, <1>8, <1>9, <1>10

LEMMA UserQuietly ==
    ASSUME BaseInv,
           \/ (\E s \in Old : Joins(s)) \/ (\E s \in Old : Switches(s))
           \/ (\E n \in NewSession : Creates(n)) \/ Leaves
    PROVE  Quietly
<1>1. c \in ClientState /\ UNCHANGED <<saved, home, dropped>>
  BY DEF BaseInv, ClientFormed, Joins, Switches, Creates, Leaves, Keep
<1>2. ASSUME NEW s \in Old, Joins(s) PROVE Quietly
  <2>1. c'.shown = c.shown /\ c'.fresh = c.fresh BY <1>1, <1>2, JoinsClient
  <2> QED BY <1>1, <1>2, <2>1 DEF Quietly, Joins
<1>3. ASSUME NEW s \in Old, Switches(s) PROVE Quietly
  <2>1. c'.shown = Null BY <1>1, <1>3, SwitchesClient
  <2> QED BY <1>1, <1>3, <2>1 DEF Quietly, Switches
<1>4. ASSUME NEW n \in NewSession, Creates(n) PROVE Quietly
  <2>1. c'.shown = c.shown /\ c'.fresh = c.fresh BY <1>1, <1>4, CreatesClient
  <2> QED BY <1>1, <1>4, <2>1 DEF Quietly, Creates
<1>5. CASE Leaves
  <2>1. CASE c.shown = Null /\ c.pending = Null /\ c.resume = Null
    <3>1. c'.shown = c.shown /\ c'.fresh = c.fresh BY <1>1, <1>5, <2>1, LeavesNothing
    <3>2. view' = view BY <1>5, <2>1 DEF Leaves
    <3> QED BY <1>1, <3>1, <3>2 DEF Quietly
  <2>2. CASE ~(c.shown = Null /\ c.pending = Null /\ c.resume = Null)
    <3>1. c'.shown = Null BY <1>1, <1>5, <2>2, LeavesClient
    <3>2. view' = NoBubbles BY <1>5, <2>2 DEF Leaves
    <3> QED BY <1>1, <3>1, <3>2 DEF Quietly
  <2> QED BY <2>1, <2>2
<1> QED BY <1>2, <1>3, <1>4, <1>5

LEMMA SocketQuietly ==
    ASSUME BaseInv,
           \/ Closes \/ GoesSilent \/ Ticks \/ BecomesVisible \/ RetryFires \/ HandshakeStalls
           \/ Suspends \/ ReloadsPage \/ ProbeExpires \/ Opens \/ Resumes
           \/ LoadExpires \/ CreateExpires
    PROVE  Quietly
<1>1. c \in ClientState BY DEF BaseInv, ClientFormed
<1>2. UNCHANGED <<saved, home, dropped>>
  BY DEF Closes, GoesSilent, Ticks, BecomesVisible, Probed, RetryFires, HandshakeStalls,
         Suspends, ReloadsPage, ProbeExpires, Opens, Resumes, LoadExpires, CreateExpires, conn
<1>3. ASSUME view' = view, c'.shown = c.shown, c'.fresh \in {c.fresh, FALSE}
      PROVE  Quietly
  BY <1>2, <1>3 DEF Quietly
<1>4. CASE Closes \/ Suspends \/ Resumes
  <2>1. c'.shown = c.shown /\ c'.fresh = c.fresh
    BY <1>1, <1>4, ClosesClient, SuspendsClient, ResumesClient
  <2>2. view' = view BY <1>4 DEF Closes, Suspends, Resumes
  <2> QED BY <1>3, <2>1, <2>2
<1>5. CASE LoadExpires \/ CreateExpires
  <2>1. c'.shown = c.shown /\ c'.fresh = c.fresh
    BY <1>1, <1>5, LoadExpiresClient, CreateExpiresClient
  <2>2. view' = view BY <1>5 DEF LoadExpires, CreateExpires
  <2> QED BY <1>3, <2>1, <2>2
<1>6. CASE Ticks \/ BecomesVisible BY <1>3, <1>6, ProbesSteps
<1>7. CASE GoesSilent BY <1>3, <1>7 DEF GoesSilent
<1>8. CASE Opens BY <1>3, <1>8, OpensSteps
<1>9. CASE ReloadsPage
  <2>1. c'.fresh = FALSE BY <1>9, ReloadsSteps
  <2>2. view' = NoBubbles BY <1>9 DEF ReloadsPage
  <2> QED BY <1>2, <2>1, <2>2 DEF Quietly
<1>10. ASSUME c'.shown = c.shown, c'.fresh = (c.shown # Null /\ c.fresh),
              view' = IF c.shown # Null THEN view ELSE NoBubbles
       PROVE  Quietly
  BY <1>2, <1>10 DEF Quietly
<1>11. CASE RetryFires \/ HandshakeStalls
  <2>1. Reconnect BY <1>11 DEF RetryFires, HandshakeStalls
  <2>2. c'.shown = c.shown /\ c'.fresh = (c.shown # Null /\ c.fresh) BY <1>1, <2>1, ReconnectClient
  <2>3. view' = IF c.shown # Null THEN view ELSE NoBubbles BY <2>1 DEF Reconnect
  <2> QED BY <1>10, <2>2, <2>3
<1>12. CASE ProbeExpires
  <2>1. CASE c.probe = "return"
    <3>1. c'.shown = c.shown /\ c'.fresh = (c.shown # Null /\ c.fresh)
      BY <1>1, <1>12, <2>1, ExpiresReturn
    <3>2. view' = IF c.shown # Null THEN view ELSE NoBubbles BY <1>12, <2>1 DEF ProbeExpires
    <3> QED BY <1>10, <3>1, <3>2
  <2>2. CASE c.probe # "return"
    <3>1. c'.shown = c.shown /\ c'.fresh = c.fresh BY <1>1, <1>12, <2>2, ExpiresTick
    <3>2. view' = view BY <1>12, <2>2 DEF ProbeExpires
    <3> QED BY <1>3, <3>1, <3>2
  <2> QED BY <2>1, <2>2
<1> QED BY <1>4, <1>5, <1>6, <1>7, <1>8, <1>9, <1>11, <1>12

LEMMA NextMessages ==
    ASSUME BaseInv, ClientNext
    PROVE  \/ Quietly \/ Submits \/ (\E m \in Message : Resends(m))
           \/ (\E m \in Message : Discards(m)) \/ (\E m \in Message : ConfirmExpires(m))
           \/ (\E f \in DownFrame : Reconciles(f))
<1>1. CASE ServerReads \/ ServerFinishes \/ ServerBuilds \/ ServerDestroys
  <2>1. UNCHANGED <<c, view, saved, home, dropped>>
    BY <1>1 DEF ServerReads, ServerFinishes, ServerBuilds, ServerDestroys, Client
  <2> QED BY <2>1 DEF Quietly
<1> QED BY <1>1, ReadsQuietly, UserQuietly, SocketQuietly, NextSteps DEF Steps

\* A message stays where it was written.
LEMMA HomeStays ==
    ASSUME BaseInv, ClientNext
    PROVE  \A m \in Message : home[m] # Null => home'[m] = home[m]
<1>1. CASE Submits
  <2>1. PICK m \in Message : home[m] = Null /\ \A k \in Message \ {m} : home'[k] = home[k]
    BY <1>1, SubmitsSteps
  <2> QED BY <2>1
<1>2. CASE Quietly BY <1>2 DEF Quietly
<1>3. ASSUME NEW m \in Message, Resends(m) \/ Discards(m) \/ ConfirmExpires(m)
      PROVE  home' = home
  BY <1>3 DEF Resends, Discards, ConfirmExpires
<1>4. ASSUME NEW f \in DownFrame, Reconciles(f) PROVE home' = home BY <1>4 DEF Reconciles
<1> QED BY <1>1, <1>2, <1>3, <1>4, NextMessages

--------------------
(* Where a message was written, and what was accepted. *)

\* A message that is written down anywhere was sent; and unless a bubble was carried
\* to another session, it is only where it was sent.
HomedUp == \A i \in 1..Len(up) : up[i].t = "message" =>
              /\ home[up[i].m] # Null
              /\ "moved" \notin mark => home[up[i].m] = up[i].s
HomedLog == \A s \in Known : \A m \in log[s] :
              /\ home[m] # Null
              /\ "moved" \notin mark => home[m] = s
HomedSaved == \A s \in Session : \A m \in saved[s] :
              /\ home[m] # Null
              /\ "moved" \notin mark => home[m] = s
HomedView == \A m \in Message : view[m] # "none" => home[m] # Null
ShownHome == "moved" \notin mark /\ c.shown # Null =>
               \A m \in Unconfirmed(view) : home[m] = c.shown
\* What the server says it accepted, it accepted.
TrueDown == \A i \in 1..Len(down) :
              /\ down[i].t = "ack" => down[i].m \in log[down[i].s]
              /\ down[i].t = "history" => down[i].of \subseteq log[down[i].s]
WireTruth == HomedUp /\ HomedLog /\ TrueDown
ScreenTruth == HomedSaved /\ HomedView /\ ShownHome
MsgInv == WireTruth /\ ScreenTruth /\ ConfirmedIsDelivered

LEMMA UnconfirmedNot ==
    /\ Unconfirmed(NoBubbles) = {}
    /\ \A v, m : m \in Unconfirmed(v) => m \in Message /\ v[m] # "none" /\ v[m] # "plain"
BY BubblesIs DEF Unconfirmed

LEMMA TrueStep ==
    ASSUME BaseInv, clientEvents \in Nat, ClientNext, Grows, TrueDown
    PROVE  TrueDown'
<1>1. NewDown BY NextDown
<1>2. \A j \in 1..Len(down) : Names(down[j]) => down[j].s \in Known BY DEF BaseInv, WireKnown
<1>3. \A j \in 1..Len(down) :
         /\ down[j].t = "ack" => down[j].m \in log'[down[j].s]
         /\ down[j].t = "history" => down[j].of \subseteq log'[down[j].s]
  BY <1>2 DEF TrueDown, Grows, Names
<1> QED BY <1>1, <1>3 DEF TrueDown, NewDown

LEMMA AppendedUp ==
    ASSUME BaseInv, NEW x \in UpFrame, up' = Append(up, x)
    PROVE  \A i \in 1..Len(up') : (\E j \in 1..Len(up) : up'[i] = up[j]) \/ up'[i] = x
<1>1. up \in Seq(UpFrame) BY DEF BaseInv, WireFormed
<1>2. /\ Len(up) \in Nat /\ Len(up') = Len(up) + 1 /\ up'[Len(up) + 1] = x
      /\ \A i \in 1..Len(up) : up'[i] = up[i]
  BY <1>1, OneMore
<1>3. \A i \in 1..Len(up') : i \in 1..Len(up) \/ i = Len(up) + 1 BY <1>2
<1> QED BY <1>2, <1>3

LEMMA HomedUpStep ==
    ASSUME BaseInv, ClientNext, HomedUp, HomedView, ShownHome, mark \subseteq mark'
    PROVE  HomedUp'
<1>1. \A j \in 1..Len(up) : up[j].t = "message" =>
         /\ home'[up[j].m] # Null
         /\ "moved" \notin mark' => home'[up[j].m] = up[j].s
  <2>1. \A j \in 1..Len(up) : up[j].t = "message" => up[j].m \in Message
    <3>1. up \in Seq(UpFrame) BY DEF BaseInv, WireFormed
    <3>2. \A j \in 1..Len(up) : up[j] \in UpFrame BY <3>1, ElementOfSeq
    <3> QED BY <3>2 DEF UpFrame
  <2> QED BY <2>1, HomeStays DEF HomedUp
<1>2. CASE OldUp BY <1>1, <1>2 DEF OldUp, HomedUp
<1>3. ASSUME NEW m \in Message, c.shown \in Session, up' = Append(up, Writes(m)),
             home'[m] # Null, "moved" \notin mark' => home'[m] = c.shown
      PROVE  HomedUp'
  <2>1. PICK x : x = Writes(m) OBVIOUS
  <2>2. x \in UpFrame /\ x.s = c.shown /\ x.m = m BY <1>3, <2>1, WritesIs
  <2>3. up' = Append(up, x) BY <1>3, <2>1
  <2>4. \A i \in 1..Len(up') : (\E j \in 1..Len(up) : up'[i] = up[j]) \/ up'[i] = x
    BY <2>2, <2>3, AppendedUp
  <2> QED BY <1>1, <1>3, <2>2, <2>4 DEF HomedUp
<1>4. CASE Submits
  <2>1. /\ c.shown \in Session
        /\ \E m \in Message : home'[m] = c.shown /\ up' = Append(up, Writes(m))
    BY <1>4, SubmitsSteps
  <2>2. c.shown # Null BY <2>1, SessionShape
  <2> QED BY <1>3, <2>1, <2>2
<1>5. ASSUME NEW m \in Message, Resends(m) PROVE HomedUp'
  <2>1. /\ c.shown \in Session /\ view[m] = "failed" /\ home' = home
        /\ up' = up \/ up' = Append(up, Writes(m))
    BY <1>5, ResendsSteps
  <2>2. c.shown # Null /\ home[m] # Null /\ m \in Unconfirmed(view)
    BY <2>1, SessionShape DEF HomedView, Unconfirmed
  <2>3. "moved" \notin mark' => home'[m] = c.shown BY <2>1, <2>2 DEF ShownHome
  <2>4. CASE up' = up BY <1>2, <2>4, UpSame
  <2> QED BY <1>3, <2>1, <2>2, <2>3, <2>4
<1> QED BY <1>2, <1>4, <1>5, NextUp

LEMMA HomedLogStep ==
    ASSUME BaseInv, clientEvents \in Nat, ClientNext, HomedUp, HomedLog, mark \subseteq mark'
    PROVE  HomedLog'
<1>1. NewLog BY NextLog
<1>2. \A s \in Known : \A m \in log[s] : m \in Message BY KnownIs DEF BaseInv
<1>3. \A j \in 1..Len(up) : up[j].t = "message" => up[j].m \in Message
  <2>1. up \in Seq(UpFrame) BY DEF BaseInv, WireFormed
  <2>2. \A j \in 1..Len(up) : up[j] \in UpFrame BY <2>1, ElementOfSeq
  <2> QED BY <2>2 DEF UpFrame
<1>4. ASSUME NEW s \in Known', NEW m \in log'[s]
      PROVE  home'[m] # Null /\ ("moved" \notin mark' => home'[m] = s)
  <2>1. m \in Message /\ home[m] # Null /\ ("moved" \notin mark' => home[m] = s)
    BY <1>1, <1>2, <1>3, <1>4 DEF NewLog, HomedUp, HomedLog
  <2> QED BY <2>1, HomeStays
<1> QED BY <1>4 DEF HomedLog

\* The bubbles of the session on screen are what is kept of it.
Rewritten == \/ saved' = saved
             \/ /\ c.shown # Null /\ c.shown \in Session /\ saved'[c.shown] = Unconfirmed(view')
                /\ \A r \in Session \ {c.shown} : saved'[r] = saved[r]

LEMMA QuietScreen ==
    ASSUME BaseInv, ScreenTruth, Quietly, mark \subseteq mark'
    PROVE  ScreenTruth'
<1>1. UNCHANGED <<saved, home>> BY DEF Quietly
<1>2. HomedSaved' BY <1>1 DEF ScreenTruth, HomedSaved
<1>3. CASE view' = NoBubbles
  BY <1>2, <1>3, BubblesIs, UnconfirmedNot DEF ScreenTruth, HomedView, ShownHome
<1>4. CASE view' = view /\ c'.shown \in {Null, c.shown}
  BY <1>1, <1>2, <1>4 DEF ScreenTruth, HomedView, ShownHome
<1> QED BY <1>3, <1>4 DEF Quietly

LEMMA FewerScreen ==
    ASSUME ScreenTruth, UNCHANGED home, c'.shown = c.shown, Rewritten, mark \subseteq mark',
           \A m \in Message : view'[m] # "none" => view[m] # "none",
           Unconfirmed(view') \subseteq Unconfirmed(view)
    PROVE  ScreenTruth'
<1>1. HomedView' BY DEF ScreenTruth, HomedView
<1>2. ShownHome' BY DEF ScreenTruth, ShownHome
<1>3. HomedSaved'
  <2>1. CASE saved' = saved BY <2>1 DEF ScreenTruth, HomedSaved
  <2>2. CASE /\ c.shown # Null /\ saved'[c.shown] = Unconfirmed(view')
             /\ \A r \in Session \ {c.shown} : saved'[r] = saved[r]
    <3>1. \A m \in Unconfirmed(view') :
             /\ home'[m] # Null
             /\ "moved" \notin mark' => home'[m] = c.shown
      BY <1>1, <1>2, <2>2, UnconfirmedNot DEF HomedView, ShownHome
    <3>2. ASSUME NEW s \in Session, NEW m \in saved'[s]
          PROVE  home'[m] # Null /\ ("moved" \notin mark' => home'[m] = s)
      BY <2>2, <3>1, <3>2 DEF ScreenTruth, HomedSaved
    <3> QED BY <3>2 DEF HomedSaved
  <2> QED BY <2>1, <2>2 DEF Rewritten
<1> QED BY <1>1, <1>2, <1>3 DEF ScreenTruth

LEMMA SubmitsScreen ==
    ASSUME BaseInv, ScreenTruth, Submits, mark \subseteq mark'
    PROVE  ScreenTruth'
<1>1. /\ c' = c /\ c.shown \in Session
      /\ saved' \in [Session -> SUBSET Message] /\ saved'[c.shown] = Unconfirmed(view')
      /\ \A r \in Session \ {c.shown} : saved'[r] = saved[r]
  BY SubmitsSteps
<1>2. PICK m \in Message :
        /\ home[m] = Null /\ home'[m] = c.shown
        /\ \A k \in Message \ {m} : home'[k] = home[k]
        /\ view'[m] = "sending" /\ \A k \in Message \ {m} : view'[k] = view[k]
  BY SubmitsSteps
<1>3. c.shown # Null BY <1>1, SessionShape
<1>4. HomedView' BY <1>2, <1>3 DEF ScreenTruth, HomedView
<1>5. ASSUME "moved" \notin mark', NEW k \in Unconfirmed(view') PROVE home'[k] = c.shown
  <2>1. CASE k = m BY <1>2, <2>1
  <2>2. CASE k # m
    <3>1. k \in Message /\ k \in Unconfirmed(view) BY <1>2, <1>5, <2>2 DEF Unconfirmed
    <3> QED BY <1>2, <1>3, <1>5, <2>2, <3>1 DEF ScreenTruth, ShownHome
  <2> QED BY <2>1, <2>2
<1>6. ShownHome' BY <1>1, <1>5 DEF ShownHome
<1>7. ASSUME NEW s \in Session, NEW k \in saved'[s]
      PROVE  home'[k] # Null /\ ("moved" \notin mark' => home'[k] = s)
  <2>1. CASE s = c.shown BY <1>1, <1>4, <1>5, <1>7, <2>1, UnconfirmedNot DEF HomedView
  <2>2. CASE s # c.shown
    <3>1. k \in saved[s] /\ k \in Message BY <1>1, <1>7, <2>2
    <3>2. home[k] # Null /\ ("moved" \notin mark => home[k] = s) BY <3>1 DEF ScreenTruth, HomedSaved
    <3>3. k # m BY <1>2, <3>2
    <3> QED BY <1>2, <3>1, <3>2, <3>3
  <2> QED BY <2>1, <2>2
<1>8. HomedSaved' BY <1>7 DEF HomedSaved
<1> QED BY <1>4, <1>6, <1>8 DEF ScreenTruth

\* What the client does with its bubbles and with a reply, seen from the screen.
LEMMA MarkedScreen ==
    ASSUME BaseInv, NEW m \in Message,
           Resends(m) \/ Discards(m) \/ ConfirmExpires(m)
    PROVE  /\ UNCHANGED home /\ c'.shown = c.shown /\ c'.fresh = c.fresh /\ Rewritten
           /\ \A k \in Message : view'[k] # "none" => view[k] # "none"
           /\ \A k \in Message : view'[k] = "plain" => view[k] = "plain"
           /\ Unconfirmed(view') \subseteq Unconfirmed(view)
<1>0. c \in ClientState BY DEF BaseInv, ClientFormed
<1>1. CASE Resends(m)
  <2>1. c'.shown = c.shown /\ c'.fresh = c.fresh BY <1>0, <1>1, ResendsClient
  <2>2. /\ UNCHANGED home /\ view[m] = "failed" /\ c.shown \in Session
        /\ \/ /\ view'[m] = "sending"
              /\ \A k \in Message \ {m} : view'[k] = view[k]
              /\ saved'[c.shown] = Unconfirmed(view')
              /\ \A r \in Session \ {c.shown} : saved'[r] = saved[r]
           \/ UNCHANGED <<view, saved>>
    BY <1>1, ResendsSteps
  <2>3. Rewritten BY <2>2, SessionShape DEF Rewritten
  <2>4. Unconfirmed(view') = Unconfirmed(view) BY <2>2 DEF Unconfirmed
  <2> QED BY <2>1, <2>2, <2>3, <2>4
<1>2. CASE Discards(m)
  <2>1. /\ c' = c /\ home' = home /\ view[m] = "failed" /\ c.shown \in Session
        /\ view'[m] = "none" /\ \A k \in Message \ {m} : view'[k] = view[k]
        /\ saved'[c.shown] = Unconfirmed(view')
        /\ \A r \in Session \ {c.shown} : saved'[r] = saved[r]
    BY <1>2, DiscardsSteps
  <2>2. Rewritten BY <2>1, SessionShape DEF Rewritten
  <2>3. Unconfirmed(view') \subseteq Unconfirmed(view) BY <2>1 DEF Unconfirmed
  <2> QED BY <2>1, <2>2, <2>3
<1>3. CASE ConfirmExpires(m)
  <2>1. /\ c' = c /\ home' = home
        /\ \/ UNCHANGED <<view, saved>>
           \/ /\ view[m] = "sending" /\ view'[m] = "failed"
              /\ \A k \in Message \ {m} : view'[k] = view[k]
              /\ Unconfirmed(view') = Unconfirmed(view)
              /\ IF c.shown = Null THEN saved' = saved
                 ELSE /\ saved'[c.shown] = Unconfirmed(view')
                      /\ \A r \in Session \ {c.shown} : saved'[r] = saved[r]
    BY <1>3, ConfirmSteps
  <2>2. Rewritten BY <2>1, ShownIs DEF Rewritten
  <2> QED BY <2>1, <2>2
<1> QED BY <1>1, <1>2, <1>3

LEMMA AckScreen ==
    ASSUME BaseInv, NEW f \in DownFrame, f.m \in Message, OnAck(f)
    PROVE  /\ c'.shown = c.shown /\ c'.fresh = c.fresh /\ Rewritten
           /\ \A k \in Message : view'[k] # "none" => view[k] # "none"
           /\ Unconfirmed(view') \subseteq Unconfirmed(view)
           /\ \/ UNCHANGED <<view, saved, mark>>
              \/ \E m \in Message :
                   /\ m \in Unconfirmed(view)
                   /\ \A k \in Message : k # m /\ view'[k] = "plain" => view[k] = "plain"
                   /\ Unconfirmed(view') = Unconfirmed(view) \ {m}
                   /\ (m # f.m \/ home[m] # f.s) => "mistaken" \in mark'
<1>1. c'.shown = c.shown /\ c'.fresh = c.fresh BY AckClient DEF BaseInv, ClientFormed
<1>2. CASE UNCHANGED <<view, saved, mark>> BY <1>1, <1>2 DEF Rewritten
<1>3. ASSUME NEW m \in Message, m \in Acked(f), view[m] \in {"sending", "failed"},
             view'[m] = "plain", \A k \in Message \ {m} : view'[k] = view[k],
             Unconfirmed(view') = Unconfirmed(view) \ {m},
             mark' = IF m # f.m \/ home[m] # f.s THEN mark \cup {"mistaken"} ELSE mark,
             IF c.shown = Null THEN saved' = saved
             ELSE /\ saved'[c.shown] = Unconfirmed(view')
                  /\ \A r \in Session \ {c.shown} : saved'[r] = saved[r]
      PROVE  /\ Rewritten
             /\ \A k \in Message : view'[k] # "none" => view[k] # "none"
             /\ Unconfirmed(view') \subseteq Unconfirmed(view)
             /\ m \in Unconfirmed(view)
             /\ \A k \in Message : k # m /\ view'[k] = "plain" => view[k] = "plain"
             /\ (m # f.m \/ home[m] # f.s) => "mistaken" \in mark'
  <2>1. Rewritten BY <1>3, ShownIs DEF Rewritten
  <2>2. m \in Unconfirmed(view) BY <1>3 DEF Acked
  <2> QED BY <1>3, <2>1, <2>2
<1>4. \/ UNCHANGED <<view, saved, mark>>
      \/ \E m \in Message :
                /\ m \in Acked(f) /\ view[m] \in {"sending", "failed"}
                /\ view'[m] = "plain"
                /\ \A k \in Message \ {m} : view'[k] = view[k]
                /\ Unconfirmed(view') = Unconfirmed(view) \ {m}
                /\ mark' = IF m # f.m \/ home[m] # f.s THEN mark \cup {"mistaken"} ELSE mark
                /\ IF c.shown = Null THEN saved' = saved
                   ELSE /\ saved'[c.shown] = Unconfirmed(view')
                        /\ \A r \in Session \ {c.shown} : saved'[r] = saved[r]
  BY AckSteps
<1>5. CASE ~UNCHANGED <<view, saved, mark>>
  <2>1. PICK m \in Message :
                /\ m \in Acked(f) /\ view[m] \in {"sending", "failed"}
                /\ view'[m] = "plain"
                /\ \A k \in Message \ {m} : view'[k] = view[k]
                /\ Unconfirmed(view') = Unconfirmed(view) \ {m}
                /\ mark' = IF m # f.m \/ home[m] # f.s THEN mark \cup {"mistaken"} ELSE mark
                /\ IF c.shown = Null THEN saved' = saved
                   ELSE /\ saved'[c.shown] = Unconfirmed(view')
                        /\ \A r \in Session \ {c.shown} : saved'[r] = saved[r]
    BY <1>4, <1>5
  <2> QED BY <1>1, <1>3, <2>1
<1> QED BY <1>2, <1>5

LEMMA CreatedScreen ==
    ASSUME BaseInv, ScreenTruth, NEW f \in DownFrame, f.s \in Session, home' = home,
           OnCreated(f), Accepts(c, f.s), mark \subseteq mark'
    PROVE  ScreenTruth' /\ UNCHANGED <<view, saved>> /\ c'.fresh = FALSE
<1>1. UNCHANGED <<view, saved>> BY DEF OnCreated
<1>2. c'.shown = f.s /\ c'.fresh = FALSE BY AcceptedClient DEF BaseInv, ClientFormed
<1>3. ("moved" \notin mark' => \A m \in Unconfirmed(view) : home[m] = f.s) BY DEF OnCreated
<1>4. HomedSaved' /\ HomedView' BY <1>1 DEF ScreenTruth, HomedSaved, HomedView
<1>5. ShownHome' BY <1>1, <1>2, <1>3 DEF ShownHome
<1> QED BY <1>1, <1>2, <1>4, <1>5 DEF ScreenTruth

LEMMA HistoryScreen ==
    ASSUME BaseInv, ScreenTruth, HomedLog, NEW f \in DownFrame, f.s \in Known,
           f.of \subseteq log[f.s], home' = home,
           OnHistory(f), ~Stale(f), mark \subseteq mark'
    PROVE  /\ ScreenTruth'
           /\ "moved" \notin mark' => \A m \in Unconfirmed(view') : home'[m] = f.s
<1>1. f.s \in Session BY DEF Known
<1>2. /\ \A m \in Message : view'[m] = IF m \in Undelivered(f.s, f.of) THEN "failed"
                                       ELSE IF m \in f.of THEN "plain" ELSE "none"
      /\ Unconfirmed(view') = Undelivered(f.s, f.of) \cap Message
      /\ saved'[f.s] = Unconfirmed(view')
      /\ \A r \in Session \ {f.s} : saved'[r] = saved[r]
      /\ "moved" \notin mark' => \A m \in Unconfirmed(view) : home[m] = f.s
  BY <1>1, HistorySteps
<1>3. c'.shown = c.shown /\ c.shown \in {Null, f.s}
  BY HistoryClient DEF BaseInv, ClientFormed, Stale
<1>4. \A m \in Unconfirmed(view') :
         /\ home[m] # Null
         /\ "moved" \notin mark' => home[m] = f.s
  <2>1. ASSUME NEW m \in Unconfirmed(view')
        PROVE  home[m] # Null /\ ("moved" \notin mark' => home[m] = f.s)
    <3>1. m \in Message /\ (m \in saved[f.s] \/ m \in Unconfirmed(view))
      BY <1>2, <2>1 DEF Undelivered, Candidates
    <3>2. CASE m \in saved[f.s] BY <1>1, <3>2 DEF ScreenTruth, HomedSaved
    <3>3. CASE m \in Unconfirmed(view)
      <4>1. home[m] # Null BY <3>1, <3>3, UnconfirmedNot DEF ScreenTruth, HomedView
      <4> QED BY <1>2, <3>3, <4>1
    <3> QED BY <3>1, <3>2, <3>3
  <2> QED BY <2>1
<1>5. HomedView'
  <2>1. ASSUME NEW m \in Message, view'[m] # "none" PROVE home'[m] # Null
    <3>1. CASE m \in Undelivered(f.s, f.of) BY <1>2, <1>4, <2>1, <3>1
    <3>2. CASE m \in f.of BY <3>2 DEF HomedLog
    <3> QED BY <1>2, <2>1, <3>1, <3>2
  <2> QED BY <2>1 DEF HomedView
<1>6. ShownHome' BY <1>3, <1>4 DEF ShownHome
<1>7. HomedSaved'
  <2>1. ASSUME NEW s \in Session, NEW m \in saved'[s]
        PROVE  home'[m] # Null /\ ("moved" \notin mark' => home'[m] = s)
    BY <1>2, <1>4, <2>1 DEF ScreenTruth, HomedSaved
  <2> QED BY <2>1 DEF HomedSaved
<1> QED BY <1>4, <1>5, <1>6, <1>7 DEF ScreenTruth

LEMMA ScreenStep ==
    ASSUME BaseInv, MsgInv, ClientNext, mark \subseteq mark'
    PROVE  ScreenTruth'
<1>0. ScreenTruth /\ HomedLog /\ TrueDown BY DEF MsgInv, WireTruth
<1>1. CASE Quietly BY <1>0, <1>1, QuietScreen
<1>2. CASE Submits BY <1>0, <1>2, SubmitsScreen
<1>3. ASSUME NEW m \in Message, Resends(m) \/ Discards(m) \/ ConfirmExpires(m)
      PROVE  ScreenTruth'
  BY <1>0, <1>3, MarkedScreen, FewerScreen
<1>4. ASSUME NEW f \in DownFrame, Reconciles(f) PROVE ScreenTruth'
  <2>1. home' = home /\ (Names(f) => f.s \in Known /\ f.s \in Session) BY <1>4 DEF Reconciles, Known
  <2>2. CASE f.t = "created" /\ OnCreated(f) /\ Accepts(c, f.s)
    BY <1>0, <2>1, <2>2, CreatedScreen DEF Names
  <2>3. CASE f.t = "history" /\ OnHistory(f) /\ ~Stale(f)
    <3>1. f.of \subseteq log[f.s]
      <4>1. 1 \in 1..Len(down) /\ f = down[1] BY <1>4, Taken DEF Reconciles, BaseInv, WireFormed
      <4> QED BY <1>0, <2>3, <4>1 DEF TrueDown
    <3> QED BY <1>0, <2>1, <2>3, <3>1, HistoryScreen DEF Names
  <2>4. CASE f.t = "ack" /\ OnAck(f)
    <3>1. f.m \in Message BY <2>4 DEF DownFrame
    <3> QED BY <1>0, <2>1, <2>4, <3>1, AckScreen, FewerScreen
  <2> QED BY <1>4, <2>2, <2>3, <2>4 DEF Reconciles
<1> QED BY <1>1, <1>2, <1>3, <1>4, NextMessages

LEMMA StillConfirmed ==
    ASSUME BaseInv, MsgInv, Grows, mark \subseteq mark', NEW m \in Message, home'[m] = home[m],
           view[m] = "plain", log' \in [Session -> Maybe(SUBSET Message)]
    PROVE  \/ m \in log'[home'[m]]
           \/ "mistaken" \in mark'
           \/ "moved" \in mark' /\ (\E s \in Session : log'[s] # Null /\ m \in log'[s])
<1>1. home[m] \in Known BY DEF MsgInv, ScreenTruth, HomedView, BaseInv, ClientKnown, Maybe
<1>2. CASE m \in log[home[m]] BY <1>1, <1>2 DEF Grows
<1>3. CASE "moved" \in mark /\ (\E s \in Session : log[s] # Null /\ m \in log[s])
  <2>1. PICK s \in Session : log[s] # Null /\ m \in log[s] BY <1>3
  <2>2. s \in Known /\ s \in Known' /\ log[s] \subseteq log'[s] BY <2>1 DEF Known, Grows
  <2>3. log'[s] # Null /\ m \in log'[s] BY <2>1, <2>2 DEF Known
  <2> QED BY <1>3, <2>3
<1> QED BY <1>2, <1>3 DEF MsgInv, ConfirmedIsDelivered

LEMMA ConfirmedStep ==
    ASSUME BaseInv, MsgInv, ClientNext, Grows, mark \subseteq mark'
    PROVE  ConfirmedIsDelivered'
<1>1. ASSUME NEW m \in Message, view'[m] = "plain", view[m] = "plain"
      PROVE  \/ m \in log'[home'[m]]
             \/ "mistaken" \in mark'
             \/ "moved" \in mark' /\ (\E s \in Session : log'[s] # Null /\ m \in log'[s])
  <2>1. home'[m] = home[m] BY <1>1, HomeStays DEF MsgInv, ScreenTruth, HomedView
  <2> QED BY <1>1, <2>1, StillConfirmed DEF Grows
<1>2. ASSUME \A m \in Message : view'[m] = "plain" => view[m] = "plain"
      PROVE  ConfirmedIsDelivered'
  BY <1>1, <1>2 DEF ConfirmedIsDelivered
<1>3. CASE Quietly BY <1>2, <1>3, BubblesIs DEF Quietly
<1>4. CASE Submits
  <2>1. \E m \in Message : view'[m] = "sending" /\ \A k \in Message \ {m} : view'[k] = view[k]
    BY <1>4, SubmitsSteps
  <2> QED BY <1>2, <2>1
<1>5. ASSUME NEW m \in Message, Resends(m) \/ Discards(m) \/ ConfirmExpires(m)
      PROVE  ConfirmedIsDelivered'
  BY <1>2, <1>5, MarkedScreen
<1>6. ASSUME NEW f \in DownFrame, Reconciles(f) PROVE ConfirmedIsDelivered'
  <2>1. home' = home /\ log' = log /\ (Names(f) => f.s \in Known /\ f.s \in Session)
    BY <1>6 DEF Reconciles, Known
  <2>2. 1 \in 1..Len(down) /\ f = down[1] BY <1>6, Taken DEF Reconciles, BaseInv, WireFormed
  <2>3. /\ f.t = "ack" => f.m \in log[f.s]
        /\ f.t = "history" => f.of \subseteq log[f.s]
    BY <2>2 DEF MsgInv, WireTruth, TrueDown
  <2>4. CASE f.t = "created" /\ OnCreated(f) BY <1>2, <2>4 DEF OnCreated
  <2>5. CASE f.t = "history" /\ OnHistory(f) /\ ~Stale(f)
    <3>1. f.s \in Session /\ f.s \in Known BY <2>1, <2>5 DEF Names
    <3>2. \A m \in Message : view'[m] = IF m \in Undelivered(f.s, f.of) THEN "failed"
                                        ELSE IF m \in f.of THEN "plain" ELSE "none"
      BY <2>5, <3>1, HistorySteps
    <3>3. ASSUME NEW m \in Message, view'[m] = "plain"
          PROVE  \/ m \in log'[home'[m]]
                 \/ "moved" \in mark' /\ (\E s \in Session : log'[s] # Null /\ m \in log'[s])
      <4>1. m \in log[f.s] /\ log[f.s] # Null BY <2>3, <2>5, <3>1, <3>2, <3>3 DEF Known
      <4>2. "moved" \notin mark => home[m] = f.s BY <3>1, <4>1 DEF MsgInv, WireTruth, HomedLog
      <4> QED BY <2>1, <3>1, <4>1, <4>2
    <3> QED BY <3>3 DEF ConfirmedIsDelivered
  <2>6. CASE f.t = "ack" /\ OnAck(f)
    <3>1. f.m \in Message BY <2>6 DEF DownFrame
    <3>2. CASE UNCHANGED <<view, saved, mark>> BY <1>2, <3>2
    <3>3. ASSUME NEW k \in Message,
                 \A m \in Message : m # k /\ view'[m] = "plain" => view[m] = "plain",
                 (k # f.m \/ home[k] # f.s) => "mistaken" \in mark'
          PROVE  ConfirmedIsDelivered'
      <4>1. k \in log'[home'[k]] \/ "mistaken" \in mark' BY <2>1, <2>3, <2>6, <3>3
      <4> QED BY <1>1, <3>3, <4>1 DEF ConfirmedIsDelivered
    <3> QED BY <2>6, <3>1, <3>2, <3>3, AckScreen
  <2> QED BY <1>6, <2>4, <2>5, <2>6 DEF Reconciles
<1> QED BY <1>3, <1>4, <1>5, <1>6, NextMessages

LEMMA MsgStep ==
    ASSUME BaseInv, clientEvents \in Nat, MsgInv, ClientNext
    PROVE  MsgInv'
<1>1. Grows /\ mark \subseteq mark' BY BaseStep, MarkGrows
<1>2. /\ HomedUp /\ HomedLog /\ TrueDown /\ HomedSaved /\ HomedView /\ ShownHome
  BY DEF MsgInv, WireTruth, ScreenTruth
<1>3. TrueDown' /\ HomedUp' /\ HomedLog' BY <1>1, <1>2, TrueStep, HomedUpStep, HomedLogStep
<1>4. ScreenTruth' /\ ConfirmedIsDelivered' BY <1>1, ScreenStep, ConfirmedStep
<1> QED BY <1>3, <1>4 DEF MsgInv, WireTruth

LEMMA MsgStutters ==
    ASSUME MsgInv, UNCHANGED clientVars
    PROVE  MsgInv'
<1>1. UNCHANGED <<c, view, timers, saved, home, live, up, down, srv, log, want, dropped, mark, clientEvents>>
  BY DEF clientVars, conn
<1>2. HomedUp' /\ TrueDown' BY <1>1 DEF MsgInv, WireTruth, HomedUp, TrueDown
<1>3. HomedLog' BY <1>1 DEF MsgInv, WireTruth, HomedLog, Known
<1>4. HomedSaved' /\ HomedView' /\ ShownHome'
  BY <1>1 DEF MsgInv, ScreenTruth, HomedSaved, HomedView, ShownHome
<1>5. ConfirmedIsDelivered' BY <1>1 DEF MsgInv, ConfirmedIsDelivered
<1> QED BY <1>2, <1>3, <1>4, <1>5 DEF MsgInv, WireTruth, ScreenTruth

LEMMA MsgInit ==
    ASSUME ClientInit
    PROVE  MsgInv
<1>1. /\ view = NoBubbles /\ saved = [s \in Session |-> {}]
      /\ up = <<>> /\ down = <<>> /\ Len(<<>>) = 0
      /\ log = [s \in Session |-> IF s \in Old THEN {} ELSE Null]
  BY EmptySeq DEF ClientInit
<1>2. \A s \in Known : log[s] = {} BY <1>1 DEF Known
<1>3. HomedUp /\ TrueDown /\ HomedLog BY <1>1, <1>2 DEF HomedUp, TrueDown, HomedLog
<1>4. HomedSaved /\ HomedView /\ ShownHome /\ ConfirmedIsDelivered
  BY <1>1, BubblesIs, UnconfirmedNot DEF HomedSaved, HomedView, ShownHome, ConfirmedIsDelivered
<1> QED BY <1>3, <1>4 DEF MsgInv, WireTruth, ScreenTruth

LEMMA MsgHolds ==
    ClientSpec => [](BaseInv /\ clientEvents \in Nat /\ MsgInv)
<1>1. ClientInit => MsgInv BY MsgInit
<1>2. BaseInv /\ clientEvents \in Nat /\ MsgInv /\ [ClientNext]_clientVars => MsgInv'
  BY MsgStep, MsgStutters
<1> QED BY <1>1, <1>2, BaseHolds, PTL DEF ClientSpec

--------------------
(* A message is delivered, or offered where it was written. *)

\* What the user took and nobody has: neither delivered nor discarded.  Unless one of the
\* races happened it is kept, and it is on screen wherever its session's bubbles are.
Unheard(k) == home[k] # Null /\ k \notin dropped /\ k \notin log[home[k]]
Kept == \A k \in Message : Unheard(k) => k \in saved[home[k]]
Together == \A m \in Unconfirmed(view), k \in Message :
              Unheard(k) /\ home[k] = home[m] => k \in Unconfirmed(view)
Complete == c.fresh /\ c.shown # Null =>
              \A k \in Message : Unheard(k) /\ home[k] = c.shown => k \in Unconfirmed(view)
Unraced == mark \cap {"early", "mistaken", "moved"} = {}
KeptInv == Unraced => Kept /\ Together /\ Complete
\* No two messages have one text.
DistinctTexts == \A m, k \in Message : TextOf[m] = TextOf[k] => m = k

LEMMA LessUnheard ==
    ASSUME BaseInv, Grows, NEW k \in Message, home' = home, dropped \subseteq dropped', Unheard(k)'
    PROVE  Unheard(k)
<1>1. home[k] # Null /\ k \notin dropped BY DEF Unheard
<1>2. home[k] \in Known BY <1>1 DEF BaseInv, ClientKnown, Maybe
<1> QED BY <1>1, <1>2 DEF Unheard, Grows

LEMMA QuietKept ==
    ASSUME BaseInv, Grows, Quietly, Kept, Together, Complete
    PROVE  Kept' /\ Together' /\ Complete'
<1>1. UNCHANGED <<saved, home, dropped>> BY DEF Quietly
<1>2. \A k \in Message : Unheard(k)' => Unheard(k) BY <1>1, LessUnheard
<1>3. Kept' BY <1>1, <1>2 DEF Kept
<1>4. CASE view' = NoBubbles /\ (c'.shown = Null \/ ~c'.fresh)
  BY <1>3, <1>4, UnconfirmedNot DEF Together, Complete
<1>5. CASE view' = view /\ c'.shown \in {Null, c.shown} /\ (c'.fresh => c.fresh)
  BY <1>1, <1>2, <1>3, <1>5 DEF Together, Complete
<1> QED BY <1>4, <1>5 DEF Quietly

\* A bubble that goes, or changes its mark, goes because it was discarded or delivered.
LEMMA FewerKept ==
    ASSUME BaseInv, Kept, Together, Complete, ShownHome, Unraced, home' = home,
           c'.shown = c.shown, c'.fresh = c.fresh, Rewritten,
           \A k \in Message : Unheard(k)' => Unheard(k),
           Unconfirmed(view') \subseteq Unconfirmed(view),
           saved' = saved \/ Unconfirmed(view) # {},
           \A k \in Unconfirmed(view) : k \in Unconfirmed(view') \/ ~Unheard(k)'
    PROVE  Kept' /\ Together' /\ Complete'
<1>1. \A m \in Unconfirmed(view), k \in Message :
         Unheard(k)' /\ home[k] = home[m] => k \in Unconfirmed(view')
  BY DEF Together
<1>2. Together' /\ Complete' BY <1>1 DEF Together, Complete
<1>3. ASSUME NEW k \in Message, Unheard(k)' PROVE k \in saved'[home[k]]
  <2>1. k \in saved[home[k]] /\ Unheard(k) BY <1>3 DEF Kept
  <2>2. CASE saved' = saved BY <2>1, <2>2
  <2>3. CASE Unconfirmed(view) # {} /\ c.shown # Null /\ c.shown \in Session /\ home[k] = c.shown
             /\ saved'[c.shown] = Unconfirmed(view')
    <3>1. PICK m \in Unconfirmed(view) : TRUE BY <2>3
    <3>2. home[m] = c.shown BY <2>3, <3>1 DEF ShownHome, Unraced
    <3> QED BY <1>1, <1>3, <2>3, <3>1, <3>2
  <2>4. home[k] \in Session BY <2>1 DEF Unheard, BaseInv, ClientFormed, Place, Maybe
  <2> QED BY <2>1, <2>2, <2>3, <2>4 DEF Rewritten
<1> QED BY <1>2, <1>3 DEF Kept

LEMMA SubmitsKept ==
    ASSUME BaseInv, Grows, Submits, Kept, Together, Complete, ShownHome, Unraced'
    PROVE  Kept' /\ Together' /\ Complete'
<1>1. /\ c' = c /\ dropped' = dropped /\ log' = log /\ c.shown \in Session
      /\ saved'[c.shown] = Unconfirmed(view')
      /\ \A r \in Session \ {c.shown} : saved'[r] = saved[r]
      /\ mark' = mark \cup (IF c.fresh THEN {} ELSE {"early"})
  BY SubmitsSteps
<1>2. PICK m \in Message :
        /\ home[m] = Null /\ home'[m] = c.shown
        /\ \A k \in Message \ {m} : home'[k] = home[k]
        /\ view'[m] = "sending" /\ \A k \in Message \ {m} : view'[k] = view[k]
  BY SubmitsSteps
<1>3. c.shown # Null /\ c.fresh /\ "moved" \notin mark BY <1>1, SessionShape DEF Unraced
<1>4. \A k \in Unconfirmed(view') : home'[k] = c.shown
  <2>1. ASSUME NEW k \in Unconfirmed(view'), k # m PROVE home'[k] = c.shown
    <3>1. k \in Message /\ k \in Unconfirmed(view) BY <1>2, <2>1 DEF Unconfirmed
    <3> QED BY <1>2, <1>3, <2>1, <3>1 DEF ShownHome
  <2> QED BY <1>2, <2>1
<1>5. \A k \in Message : k # m /\ Unheard(k)' => Unheard(k) BY <1>1, <1>2 DEF Unheard
<1>6. ASSUME NEW k \in Message, Unheard(k)', home'[k] = c.shown
      PROVE  k \in Unconfirmed(view')
  <2>1. CASE k = m BY <1>2, <2>1 DEF Unconfirmed
  <2>2. CASE k # m
    <3>1. k \in Unconfirmed(view) BY <1>2, <1>3, <1>5, <1>6, <2>2 DEF Complete
    <3> QED BY <1>2, <2>2, <3>1 DEF Unconfirmed
  <2> QED BY <2>1, <2>2
<1>7. Together' /\ Complete' BY <1>1, <1>4, <1>6 DEF Together, Complete
<1>8. ASSUME NEW k \in Message, Unheard(k)' PROVE k \in saved'[home'[k]]
  <2>1. CASE home'[k] = c.shown BY <1>1, <1>6, <1>8, <2>1
  <2>2. CASE home'[k] # c.shown
    <3>1. k # m /\ home'[k] = home[k] /\ Unheard(k) BY <1>2, <1>5, <1>8, <2>2
    <3>2. home[k] \in Session BY <3>1 DEF Unheard, BaseInv, ClientFormed, Place, Maybe
    <3> QED BY <1>1, <2>2, <3>1, <3>2 DEF Kept
  <2> QED BY <2>1, <2>2
<1> QED BY <1>7, <1>8 DEF Kept

LEMMA HistoryKept ==
    ASSUME BaseInv, DistinctTexts, Kept, Unraced',
           NEW f \in DownFrame, f.s \in Known, f.of \subseteq log[f.s],
           UNCHANGED <<home, log, dropped>>, OnHistory(f), ~Stale(f),
           "moved" \notin mark' => \A m \in Unconfirmed(view') : home'[m] = f.s
    PROVE  Kept' /\ Together' /\ Complete'
<1>1. f.s \in Session /\ f.of \in SUBSET Message BY DEF Known, DownFrame, Frames
<1>2. /\ Unconfirmed(view') = Undelivered(f.s, f.of) \cap Message
      /\ saved'[f.s] = Unconfirmed(view')
      /\ \A r \in Session \ {f.s} : saved'[r] = saved[r]
  BY <1>1, HistorySteps
<1>3. c'.shown = c.shown /\ c.shown \in {Null, f.s}
  BY HistoryClient DEF BaseInv, ClientFormed, Stale
<1>4. \A k \in Message : Unheard(k)' <=> Unheard(k) BY DEF Unheard
<1>5. ASSUME NEW k \in Message, Unheard(k), home[k] = f.s
      PROVE  k \in Unconfirmed(view')
  <2>1. k \in Candidates(f.s) BY <1>5 DEF Kept, Candidates
  <2>2. k \notin f.of BY <1>5 DEF Unheard
  <2>3. TextOf[k] \notin Texts(f.of)
    <3>1. \A n \in f.of : n \in Message /\ n # k BY <1>1, <2>2
    <3> QED BY <3>1 DEF Texts, DistinctTexts
  <2>4. \A n \in Candidates(f.s) : n < k => TextOf[n] # TextOf[k]
    <3>1. \A n \in Candidates(f.s) : n \in Message
      BY <1>1, UnconfirmedIn DEF Candidates, BaseInv, ClientFormed
    <3>2. ~(k < k) BY DEF Message
    <3> QED BY <3>1, <3>2 DEF DistinctTexts
  <2> QED BY <1>2, <2>1, <2>3, <2>4 DEF Undelivered
<1>6. \A m \in Unconfirmed(view') : home[m] = f.s BY DEF Unraced
<1>7. Together' BY <1>4, <1>5, <1>6 DEF Together
<1>8. Complete' BY <1>3, <1>4, <1>5 DEF Complete
<1>9. ASSUME NEW k \in Message, Unheard(k) PROVE k \in saved'[home[k]]
  <2>1. home[k] \in Session BY <1>9 DEF Unheard, BaseInv, ClientFormed, Place, Maybe
  <2> QED BY <1>2, <1>5, <1>9, <2>1 DEF Kept
<1> QED BY <1>4, <1>7, <1>8, <1>9 DEF Kept

LEMMA MarkedKept ==
    ASSUME BaseInv, Grows, Kept, Together, Complete, ShownHome, Unraced,
           NEW m \in Message, Resends(m) \/ Discards(m) \/ ConfirmExpires(m)
    PROVE  Kept' /\ Together' /\ Complete'
<1>1. /\ UNCHANGED home /\ c'.shown = c.shown /\ c'.fresh = c.fresh /\ Rewritten
      /\ Unconfirmed(view') \subseteq Unconfirmed(view)
  BY MarkedScreen
<1>2. /\ dropped \subseteq dropped'
      /\ \/ saved' = saved /\ view' = view
         \/ /\ m \in Unconfirmed(view)
            /\ \A k \in Unconfirmed(view) : k \in Unconfirmed(view') \/ (k = m /\ m \in dropped')
  <2>1. CASE Resends(m)
    <3>1. /\ dropped' = dropped /\ view[m] = "failed"
          /\ \/ view'[m] = "sending" /\ \A k \in Message \ {m} : view'[k] = view[k]
             \/ UNCHANGED <<view, saved>>
      BY <2>1, ResendsSteps
    <3> QED BY <3>1 DEF Unconfirmed
  <2>2. CASE Discards(m)
    <3>1. /\ dropped' = dropped \cup {m} /\ view[m] = "failed"
          /\ \A k \in Message \ {m} : view'[k] = view[k]
      BY <2>2, DiscardsSteps
    <3> QED BY <3>1 DEF Unconfirmed
  <2>3. CASE ConfirmExpires(m)
    <3>1. /\ dropped' = dropped
          /\ \/ UNCHANGED <<view, saved>>
             \/ view[m] = "sending" /\ Unconfirmed(view') = Unconfirmed(view)
      BY <2>3, ConfirmSteps
    <3> QED BY <3>1 DEF Unconfirmed
  <2> QED BY <2>1, <2>2, <2>3
<1>3. \A k \in Message : Unheard(k)' => Unheard(k) BY <1>1, <1>2, LessUnheard
<1>4. saved' = saved \/ Unconfirmed(view) # {} BY <1>2
<1>5. \A k \in Unconfirmed(view) : k \in Unconfirmed(view') \/ ~Unheard(k)' BY <1>2 DEF Unheard
<1> QED BY <1>1, <1>3, <1>4, <1>5, FewerKept

LEMMA AckKept ==
    ASSUME BaseInv, Grows, Kept, Together, Complete, ShownHome, Unraced, Unraced',
           UNCHANGED <<home, log, dropped>>,
           NEW f \in DownFrame, f.m \in Message, f.m \in log[f.s], OnAck(f)
    PROVE  Kept' /\ Together' /\ Complete'
<1>1. /\ c'.shown = c.shown /\ c'.fresh = c.fresh /\ Rewritten
      /\ Unconfirmed(view') \subseteq Unconfirmed(view)
  BY AckScreen
<1>2. \/ UNCHANGED <<view, saved, mark>>
      \/ \E m \in Message :
           /\ m \in Unconfirmed(view)
           /\ Unconfirmed(view') = Unconfirmed(view) \ {m}
           /\ (m # f.m \/ home[m] # f.s) => "mistaken" \in mark'
  BY AckScreen
<1>3. \A k \in Message : Unheard(k)' => Unheard(k) BY LessUnheard
<1>4. CASE UNCHANGED <<view, saved, mark>> BY <1>1, <1>3, <1>4, FewerKept
<1>5. ASSUME NEW m \in Message, m \in Unconfirmed(view),
             Unconfirmed(view') = Unconfirmed(view) \ {m},
             (m # f.m \/ home[m] # f.s) => "mistaken" \in mark'
      PROVE  Kept' /\ Together' /\ Complete'
  <2>1. m \in log[home[m]] BY <1>5 DEF Unraced
  <2>2. \A k \in Unconfirmed(view) : k \in Unconfirmed(view') \/ ~Unheard(k)'
    BY <1>5, <2>1 DEF Unheard
  <2>3. Unconfirmed(view) # {} BY <1>5
  <2> QED BY <1>1, <1>3, <2>2, <2>3, FewerKept
<1> QED BY <1>2, <1>4, <1>5

LEMMA CreatedKept ==
    ASSUME BaseInv, Grows, Kept, Together, UNCHANGED <<home, dropped, view, saved>>,
           c'.fresh = FALSE
    PROVE  Kept' /\ Together' /\ Complete'
<1>1. \A k \in Message : Unheard(k)' => Unheard(k) BY LessUnheard
<1> QED BY <1>1 DEF Kept, Together, Complete

LEMMA KeptStep ==
    ASSUME DistinctTexts, BaseInv, clientEvents \in Nat, MsgInv, KeptInv, ClientNext
    PROVE  KeptInv'
<1>1. Grows /\ mark \subseteq mark' BY BaseStep, MarkGrows
<1>2. SUFFICES ASSUME Unraced' PROVE Kept' /\ Together' /\ Complete' BY DEF KeptInv
<1>3. Unraced /\ Kept /\ Together /\ Complete BY <1>1, <1>2 DEF KeptInv, Unraced
<1>4. ScreenTruth /\ ShownHome /\ HomedLog /\ TrueDown BY DEF MsgInv, ScreenTruth, WireTruth
<1>5. CASE Quietly BY <1>1, <1>3, <1>5, QuietKept
<1>6. CASE Submits BY <1>1, <1>2, <1>3, <1>4, <1>6, SubmitsKept
<1>7. ASSUME NEW m \in Message, Resends(m) \/ Discards(m) \/ ConfirmExpires(m)
      PROVE  Kept' /\ Together' /\ Complete'
  BY <1>1, <1>3, <1>4, <1>7, MarkedKept
<1>8. ASSUME NEW f \in DownFrame, Reconciles(f) PROVE Kept' /\ Together' /\ Complete'
  <2>1. UNCHANGED <<home, log, dropped>> /\ (Names(f) => f.s \in Known /\ f.s \in Session)
    BY <1>8 DEF Reconciles, Known
  <2>2. 1 \in 1..Len(down) /\ f = down[1] BY <1>8, Taken DEF Reconciles, BaseInv, WireFormed
  <2>3. /\ f.t = "ack" => f.m \in log[f.s]
        /\ f.t = "history" => f.of \subseteq log[f.s]
    BY <1>4, <2>2 DEF TrueDown
  <2>4. CASE f.t = "created" /\ OnCreated(f) /\ Accepts(c, f.s)
    <3>1. UNCHANGED <<view, saved>> /\ c'.fresh = FALSE
      BY <1>1, <1>4, <2>1, <2>4, CreatedScreen DEF Names
    <3> QED BY <1>1, <1>3, <2>1, <3>1, CreatedKept
  <2>5. CASE f.t = "history" /\ OnHistory(f) /\ ~Stale(f)
    <3>1. f.s \in Known /\ f.of \subseteq log[f.s] BY <2>1, <2>3, <2>5 DEF Names
    <3>2. "moved" \notin mark' => \A m \in Unconfirmed(view') : home'[m] = f.s
      BY <1>1, <1>4, <2>1, <2>5, <3>1, HistoryScreen
    <3> QED BY <1>2, <1>3, <2>1, <2>5, <3>1, <3>2, HistoryKept
  <2>6. CASE f.t = "ack" /\ OnAck(f)
    <3>1. f.m \in Message BY <2>6 DEF DownFrame
    <3> QED BY <1>1, <1>2, <1>3, <1>4, <2>1, <2>3, <2>6, <3>1, AckKept
  <2> QED BY <1>8, <2>4, <2>5, <2>6 DEF Reconciles
<1> QED BY <1>5, <1>6, <1>7, <1>8, NextMessages

LEMMA KeptStutters ==
    ASSUME KeptInv, UNCHANGED clientVars
    PROVE  KeptInv'
<1>1. UNCHANGED <<c, view, timers, saved, home, live, up, down, srv, log, want, dropped, mark, clientEvents>>
  BY DEF clientVars, conn
<1> QED BY <1>1 DEF KeptInv, Kept, Together, Complete, Unraced, Unheard

LEMMA KeptInit == ASSUME ClientInit PROVE KeptInv
<1>1. home = [m \in Message |-> Null] /\ view = NoBubbles BY DEF ClientInit
<1>2. \A k \in Message : ~Unheard(k) BY <1>1 DEF Unheard
<1> QED BY <1>2 DEF KeptInv, Kept, Together, Complete

LEMMA NothingLost ==
    ASSUME MsgInv, KeptInv
    PROVE  MessagesAreKeptUnlessRaced
<1>1. NeverSilentlyLostUnlessRaced
  <2>1. ASSUME Unraced, NEW m \in Message, home[m] # Null, m \notin dropped, m \notin log[home[m]]
        PROVE  Offered(m)
    BY <2>1 DEF KeptInv, Kept, Unheard, Offered
  <2> QED BY <2>1 DEF NeverSilentlyLostUnlessRaced, NeverSilentlyLost, Unraced
<1>2. ConfirmedIsDelivered /\ StaysHomeUnlessMoved
  BY DEF MsgInv, ScreenTruth, ShownHome, StaysHomeUnlessMoved, StaysHome
<1> QED BY <1>1, <1>2 DEF MessagesAreKeptUnlessRaced

\* A message typed into a session is in its log, on its way, offered again or known to be
\* lost, a confirmed bubble's message was delivered, and a bubble stays with its session,
\* unless one of the races the mark names has happened.
THEOREM ClientKeeps ==
    ASSUME DistinctTexts
    PROVE  ClientSpec => []MessagesAreKeptUnlessRaced
<1>1. ClientInit => KeptInv BY KeptInit
<1>2. BaseInv /\ clientEvents \in Nat /\ MsgInv /\ KeptInv /\ [ClientNext]_clientVars => KeptInv'
  BY KeptStep, KeptStutters
<1>3. MsgInv /\ KeptInv => MessagesAreKeptUnlessRaced BY NothingLost
<1> QED BY <1>1, <1>2, <1>3, MsgHolds, PTL DEF ClientSpec

========================================
