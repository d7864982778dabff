--------------------------- MODULE CliBridgeProofs ---------------------------
(* Proofs about the bridge between a terminal and the server, for any files *)
(* and answers and any number of sockets and events.                        *)
EXTENDS CliBridge, FiniteSetTheorems, TLAPS

--------------------
(* Queues. *)

LEMMA Joined ==
    ASSUME NEW T, NEW q \in Seq(T), NEW e \in T, NEW r, r = q \o <<e>>
    PROVE  /\ r \in Seq(T) /\ r # <<>> /\ Len(r) = Len(q) + 1 /\ Len(q) \in Nat
           /\ \A i \in 1..Len(q) : r[i] = q[i]
           /\ r[Len(q) + 1] = e
           /\ Head(r) = IF q = <<>> THEN e ELSE Head(q)
<1>1. r \in Seq(T) /\ Len(r) = Len(q) + 1 /\ Len(q) \in Nat OBVIOUS
<1>2. \A i \in 1..(Len(q) + 1) : r[i] = IF i <= Len(q) THEN q[i] ELSE e OBVIOUS
<1>3. \A i \in 1..Len(q) : r[i] = q[i] BY <1>1, <1>2
<1>4. r[Len(q) + 1] = e BY <1>1, <1>2
<1>5. r # <<>> /\ Head(r) = r[1] BY <1>1
<1>6. CASE q = <<>> BY <1>1, <1>3, <1>4, <1>5, <1>6
<1>7. CASE q # <<>>
  <2>1. 1 \in 1..Len(q) /\ Head(q) = q[1] BY <1>7
  <2> QED BY <1>1, <1>3, <1>4, <1>5, <1>7, <2>1
<1> QED BY <1>6, <1>7

LEMMA Tailed ==
    ASSUME NEW T, NEW q \in Seq(T), q # <<>>, NEW r, r = Tail(q)
    PROVE  /\ r \in Seq(T) /\ Len(r) = Len(q) - 1 /\ Len(q) \in Nat /\ Len(q) >= 1
           /\ Head(q) \in T /\ Head(q) = q[1]
           /\ \A i \in 1..Len(r) : i + 1 \in 2..Len(q) /\ r[i] = q[i + 1]
           /\ r # <<>> => Len(q) >= 2 /\ Head(r) = q[2]
<1>1. r \in Seq(T) /\ Len(r) = Len(q) - 1 /\ Len(q) \in Nat /\ Len(q) >= 1 OBVIOUS
<1>2. Head(q) \in T /\ Head(q) = q[1] OBVIOUS
<1>3. \A i \in 1..Len(r) : i + 1 \in 2..Len(q) /\ r[i] = q[i + 1] BY <1>1
<1>4. r # <<>> => Len(q) >= 2 /\ Head(r) = q[2]
  <2> SUFFICES ASSUME r # <<>> PROVE Len(q) >= 2 /\ Head(r) = q[2] OBVIOUS
  <2>1. Len(r) >= 1 /\ Head(r) = r[1] BY <1>1
  <2> QED BY <1>1, <1>3, <2>1
<1> QED BY <1>1, <1>2, <1>3, <1>4

\* What the last word on whether pi runs becomes when a frame joins, or is taken from,
\* a queue.
LEMMA SaysJoined ==
    ASSUME NEW T, NEW q \in Seq(T), NEW e \in T, NEW r, r = q \o <<e>>, NEW b,
           NEW c
    PROVE  /\ Says(e) /\ (SaysBusy(e) <=> c # None) => LastSays(r, c) /\ ~Silent(r)
           /\ ~Says(e) => (Silent(r) => Silent(q)) /\ (LastSays(q, b) => LastSays(r, b))
<1>1. /\ Len(r) = Len(q) + 1 /\ Len(q) \in Nat
      /\ \A i \in 1..Len(q) : r[i] = q[i]
      /\ r[Len(q) + 1] = e
  BY Joined
<1>2. ASSUME Says(e), SaysBusy(e) <=> c # None PROVE LastSays(r, c) /\ ~Silent(r)
  <2>1. ~Silent(r) BY <1>1, <1>2 DEF Silent
  <2> SUFFICES ASSUME NEW i \in 1..Len(r), \A j \in i + 1..Len(r) : ~Says(r[j])
               PROVE  SaysBusy(r[i]) <=> c # None
    BY <2>1 DEF LastSays
  <2>2. i = Len(q) + 1
    <3>1. i # Len(q) + 1 => Len(q) + 1 \in i + 1..Len(r) BY <1>1
    <3> QED BY <1>1, <1>2, <3>1
  <2> QED BY <1>1, <1>2, <2>2
<1>3. ASSUME ~Says(e) PROVE (Silent(r) => Silent(q)) /\ (LastSays(q, b) => LastSays(r, b))
  <2>1. Silent(r) => Silent(q) BY <1>1 DEF Silent
  <2>2. ASSUME LastSays(q, b), NEW i \in 1..Len(r), Says(r[i]), \A j \in i + 1..Len(r) : ~Says(r[j])
        PROVE  SaysBusy(r[i]) <=> b # None
    <3>1. i \in 1..Len(q) BY <1>1, <1>3, <2>2
    <3>2. Says(q[i]) /\ \A j \in i + 1..Len(q) : ~Says(q[j]) BY <1>1, <2>2, <3>1
    <3>3. SaysBusy(q[i]) <=> b # None BY <2>2, <3>1, <3>2 DEF LastSays
    <3> QED BY <1>1, <3>1, <3>3
  <2> QED BY <2>1, <2>2 DEF LastSays
<1> QED BY <1>2, <1>3

LEMMA SaysTaken ==
    ASSUME NEW T, NEW q \in Seq(T), q # <<>>, NEW r, r = Tail(q), NEW b, LastSays(q, b)
    PROVE  /\ LastSays(r, b)
           /\ Silent(r) /\ Says(Head(q)) => (SaysBusy(Head(q)) <=> b # None)
           /\ Silent(r) /\ ~Says(Head(q)) => Silent(q)
<1>1. /\ Len(r) = Len(q) - 1 /\ Len(q) \in Nat /\ Len(q) >= 1 /\ Head(q) = q[1]
      /\ \A i \in 1..Len(r) : i + 1 \in 2..Len(q) /\ r[i] = q[i + 1]
  BY Tailed
<1>2. \A i \in 2..Len(q) : i - 1 \in 1..Len(r) /\ r[i - 1] = q[i]
  <2> SUFFICES ASSUME NEW i \in 2..Len(q) PROVE i - 1 \in 1..Len(r) /\ r[i - 1] = q[i] OBVIOUS
  <2>1. i - 1 \in 1..Len(r) /\ (i - 1) + 1 = i BY <1>1
  <2> QED BY <1>1, <2>1
<1>3. LastSays(r, b)
  <2> SUFFICES ASSUME NEW i \in 1..Len(r), Says(r[i]), \A j \in i + 1..Len(r) : ~Says(r[j])
               PROVE  SaysBusy(r[i]) <=> b # None
    BY DEF LastSays
  <2>1. i + 1 \in 1..Len(q) /\ r[i] = q[i + 1] BY <1>1
  <2>2. \A j \in (i + 1) + 1..Len(q) : ~Says(q[j])
    <3> SUFFICES ASSUME NEW j \in (i + 1) + 1..Len(q) PROVE ~Says(q[j]) OBVIOUS
    <3>1. j \in 2..Len(q) /\ j - 1 \in i + 1..Len(r) BY <1>1
    <3> QED BY <1>2, <3>1
  <2> QED BY <2>1, <2>2 DEF LastSays
<1>4. ASSUME Silent(r) PROVE \A i \in 2..Len(q) : ~Says(q[i]) BY <1>2, <1>4 DEF Silent
<1>5. ASSUME Silent(r), Says(Head(q)) PROVE SaysBusy(Head(q)) <=> b # None
  <2>1. 1 \in 1..Len(q) /\ Says(q[1]) BY <1>1, <1>5
  <2>2. \A j \in 1 + 1..Len(q) : ~Says(q[j]) BY <1>4, <1>5
  <2> QED BY <1>1, <2>1, <2>2 DEF LastSays
<1>6. ASSUME Silent(r), ~Says(Head(q)) PROVE Silent(q)
  <2>1. \A i \in 1..Len(q) : i = 1 \/ i \in 2..Len(q) BY <1>1
  <2> QED BY <1>1, <1>4, <1>6, <2>1 DEF Silent
<1> QED BY <1>3, <1>5, <1>6

\* The same of the last push.
LEMMA PushJoined ==
    ASSUME NEW T, NEW q \in Seq(T), NEW e \in T, NEW r, r = q \o <<e>>, NEW z, NEW y
    PROVE  /\ e.t = "push" /\ e.info = y => LastPush(r, y) /\ PushIn(r)
           /\ e.t # "push" => (PushIn(r) <=> PushIn(q)) /\ (LastPush(q, z) => LastPush(r, z))
<1>1. /\ Len(r) = Len(q) + 1 /\ Len(q) \in Nat
      /\ \A i \in 1..Len(q) : r[i] = q[i]
      /\ r[Len(q) + 1] = e
  BY Joined
<1>2. ASSUME e.t = "push", e.info = y PROVE LastPush(r, y) /\ PushIn(r)
  <2>1. Len(q) + 1 \in 1..Len(r) BY <1>1
  <2>2. PushIn(r) BY <1>1, <1>2, <2>1 DEF PushIn
  <2> SUFFICES ASSUME NEW i \in 1..Len(r), \A j \in i + 1..Len(r) : r[j].t # "push"
               PROVE  r[i].info = y
    BY <2>2 DEF LastPush
  <2>3. i = Len(q) + 1
    <3>1. i # Len(q) + 1 => Len(q) + 1 \in i + 1..Len(r) BY <1>1
    <3> QED BY <1>1, <1>2, <3>1
  <2> QED BY <1>1, <1>2, <2>3
<1>3. ASSUME e.t # "push" PROVE (PushIn(r) <=> PushIn(q)) /\ (LastPush(q, z) => LastPush(r, z))
  <2>1. \A i \in 1..Len(r) : r[i].t = "push" => i \in 1..Len(q)
    <3> SUFFICES ASSUME NEW i \in 1..Len(r), r[i].t = "push" PROVE i \in 1..Len(q) OBVIOUS
    <3>1. i # Len(q) + 1 BY <1>1, <1>3
    <3> QED BY <1>1, <3>1
  <2>2. PushIn(r) <=> PushIn(q)
    <3>1. \A i \in 1..Len(q) : i \in 1..Len(r) BY <1>1
    <3> QED BY <1>1, <2>1, <3>1 DEF PushIn
  <2>3. ASSUME LastPush(q, z), NEW i \in 1..Len(r), r[i].t = "push",
               \A j \in i + 1..Len(r) : r[j].t # "push"
        PROVE  r[i].info = z
    <3>1. i \in 1..Len(q) BY <2>1, <2>3
    <3>2. q[i].t = "push" /\ \A j \in i + 1..Len(q) : q[j].t # "push" BY <1>1, <2>3, <3>1
    <3>3. q[i].info = z BY <2>3, <3>1, <3>2 DEF LastPush
    <3> QED BY <1>1, <3>1, <3>3
  <2> QED BY <2>2, <2>3 DEF LastPush
<1> QED BY <1>2, <1>3

LEMMA PushTaken ==
    ASSUME NEW T, NEW q \in Seq(T), q # <<>>, NEW r, r = Tail(q), NEW z, LastPush(q, z)
    PROVE  /\ LastPush(r, z)
           /\ Head(q).t = "push" => PushIn(r) \/ Head(q).info = z
           /\ Head(q).t # "push" => (PushIn(r) <=> PushIn(q))
<1>1. /\ Len(r) = Len(q) - 1 /\ Len(q) \in Nat /\ Len(q) >= 1 /\ Head(q) = q[1]
      /\ \A i \in 1..Len(r) : i + 1 \in 2..Len(q) /\ r[i] = q[i + 1]
  BY Tailed
<1>2. \A i \in 2..Len(q) : i - 1 \in 1..Len(r) /\ r[i - 1] = q[i]
  <2> SUFFICES ASSUME NEW i \in 2..Len(q) PROVE i - 1 \in 1..Len(r) /\ r[i - 1] = q[i] OBVIOUS
  <2>1. i - 1 \in 1..Len(r) /\ (i - 1) + 1 = i BY <1>1
  <2> QED BY <1>1, <2>1
<1>3. LastPush(r, z)
  <2> SUFFICES ASSUME NEW i \in 1..Len(r), r[i].t = "push", \A j \in i + 1..Len(r) : r[j].t # "push"
               PROVE  r[i].info = z
    BY DEF LastPush
  <2>1. i + 1 \in 1..Len(q) /\ r[i] = q[i + 1] BY <1>1
  <2>2. \A j \in (i + 1) + 1..Len(q) : q[j].t # "push"
    <3> SUFFICES ASSUME NEW j \in (i + 1) + 1..Len(q) PROVE q[j].t # "push" OBVIOUS
    <3>1. j \in 2..Len(q) /\ j - 1 \in i + 1..Len(r) BY <1>1
    <3> QED BY <1>2, <3>1
  <2> QED BY <2>1, <2>2 DEF LastPush
<1>4. ASSUME ~PushIn(r) PROVE \A i \in 2..Len(q) : q[i].t # "push" BY <1>2, <1>4 DEF PushIn
<1>5. ASSUME Head(q).t = "push", ~PushIn(r) PROVE Head(q).info = z
  <2>1. 1 \in 1..Len(q) /\ q[1].t = "push" BY <1>1, <1>5
  <2>2. \A j \in 1 + 1..Len(q) : q[j].t # "push" BY <1>4, <1>5
  <2> QED BY <1>1, <2>1, <2>2 DEF LastPush
<1>6. ASSUME Head(q).t # "push" PROVE PushIn(r) <=> PushIn(q)
  <2>1. \A i \in 1..Len(q) : i = 1 \/ i \in 2..Len(q) BY <1>1
  <2>2. PushIn(r) => PushIn(q)
    <3>1. \A i \in 2..Len(q) : i \in 1..Len(q) BY <1>1
    <3> QED BY <1>1, <3>1 DEF PushIn
  <2>3. PushIn(q) => PushIn(r) BY <1>1, <1>2, <1>6, <2>1 DEF PushIn
  <2> QED BY <2>2, <2>3
<1> QED BY <1>3, <1>5, <1>6

--------------------
(* Types. *)

ReqType == [id : Nat, op : {"info"} \cup Infos, gen : Nat]
ResType == [gen : Nat, answer : Infos \cup {Refused, Unsupported, Disconnected}]
PromptType == [flag : BOOLEAN, mode : {Steer, None}]
TurnType == [asked : BOOLEAN, spoken : BOOLEAN]
ConnType == [file : Files \cup {None}, phase : {"none", "reading", "done"},
             isNew : BOOLEAN, busy : BOOLEAN, open : BOOLEAN]
AnsType == [sock : Sockets, id : Nat, answer : Infos \cup {Refused, None}]
EntryType == {None, Server} \cup Bridge

LEMMA TypesOf ==
    ASSUME TypeOK
    PROVE  /\ file \in Files \cup {None} /\ opened \in 0..MaxSockets /\ sock \in {0, opened}
           /\ (file = None => sock = 0) /\ (sock = 0 => pending = {})
           /\ pending \subseteq ReqType /\ resolved \in Seq(ResType)
           /\ info \in Infos \cup {Unsupported, Disconnected} /\ generation \in Nat
           /\ pendingIsNew \in BOOLEAN /\ armed \in BOOLEAN /\ prompts \in Seq(PromptType)
           /\ (turn = None \/ turn \in TurnType) /\ fresh \in [Files -> BOOLEAN]
           /\ conns \in [Sockets -> ConnType] /\ entry \in [Files -> EntryType]
           /\ zone \in Infos /\ answers \subseteq AnsType
           /\ created \in [Files -> Nat] /\ starts \in [Files -> Nat]
           /\ up \in [Sockets -> Seq(UpFrame)] /\ down \in Seq(DownFrame)
           /\ misapplied \in BOOLEAN /\ overlap \in BOOLEAN /\ lost \in BOOLEAN
           /\ requests \in Nat /\ events \in 0..MaxEvents
BY DEF TypeOK, ReqType, ResType, PromptType, TurnType, ConnType, AnsType, EntryType

LEMMA TypesAre ==
    ASSUME file' \in Files \cup {None}, opened' \in 0..MaxSockets, sock' \in {0, opened'},
           file' = None => sock' = 0, sock' = 0 => pending' = {},
           pending' \subseteq ReqType, resolved' \in Seq(ResType),
           info' \in Infos \cup {Unsupported, Disconnected}, generation' \in Nat,
           pendingIsNew' \in BOOLEAN, armed' \in BOOLEAN, prompts' \in Seq(PromptType),
           turn' = None \/ turn' \in TurnType, fresh' \in [Files -> BOOLEAN],
           conns' \in [Sockets -> ConnType], entry' \in [Files -> EntryType],
           zone' \in Infos, answers' \subseteq AnsType,
           created' \in [Files -> Nat], starts' \in [Files -> Nat],
           up' \in [Sockets -> Seq(UpFrame)], down' \in Seq(DownFrame),
           misapplied' \in BOOLEAN, overlap' \in BOOLEAN, lost' \in BOOLEAN,
           requests' \in Nat, events' \in 0..MaxEvents
    PROVE  TypeOK'
BY DEF TypeOK, ReqType, ResType, PromptType, TurnType, ConnType, AnsType, EntryType

LEMMA SocketFacts ==
    ASSUME TypeOK
    PROVE  /\ MaxSockets \in Nat \ {0} /\ opened \in Nat /\ opened <= MaxSockets
           /\ 0 \notin Sockets /\ (sock # 0 => sock \in Sockets /\ sock = opened)
           /\ (opened < MaxSockets => opened + 1 \in Sockets /\ opened + 1 \in 0..MaxSockets /\ opened + 1 # 0)
           /\ \A s \in Sockets : s \in Nat /\ s >= 1 /\ s # 0
           /\ (sock # 0 => file \in Files)
<1>1. MaxSockets \in Nat \ {0} /\ opened \in 0..MaxSockets /\ sock \in {0, opened}
  BY BridgeAssumption, TypesOf
<1>2. file \in Files \cup {None} /\ (file = None => sock = 0) BY TypesOf
<1> QED BY <1>1, <1>2 DEF Sockets

LEMMA HappensType == ASSUME TypeOK, Happens PROVE events' \in 0..MaxEvents
<1>1. events \in 0..MaxEvents /\ MaxEvents \in Nat BY BridgeAssumption, TypesOf
<1> QED BY <1>1 DEF Happens

LEMMA UpFrameFacts ==
    ASSUME NEW m \in UpFrame
    PROVE  /\ m.t \in {"register", "start", "end", "closed", "request"}
           /\ m.t = "register" => m.file \in Files /\ m.isNew \in BOOLEAN /\ m.busy \in BOOLEAN
           /\ m.t = "request" => m.id \in Nat /\ m.op \in {"info"} \cup Infos
BY DEF UpFrame

LEMMA UpFrames ==
    /\ [t |-> "start"] \in UpFrame /\ [t |-> "end"] \in UpFrame /\ [t |-> "closed"] \in UpFrame
    /\ \A id \in Nat, op \in {"info"} \cup Infos :
         /\ Request(id, op) \in UpFrame /\ Request(id, op).t = "request"
         /\ Request(id, op).id = id /\ Request(id, op).op = op
    /\ \A f \in Files, n \in BOOLEAN, b \in BOOLEAN :
         [t |-> "register", file |-> f, isNew |-> n, busy |-> b] \in UpFrame
BY DEF UpFrame, Request

LEMMA DownFrameFacts ==
    ASSUME NEW m \in DownFrame
    PROVE  /\ m.t \in {"response", "push", "message"}
           /\ m.t = "response" => m.id \in Nat /\ m.answer \in Infos \cup {Refused, None}
           /\ m.t = "push" => m.info \in Infos
           /\ m.t = "message" => m.flag \in BOOLEAN /\ m.mode \in {Steer, None}
BY DEF DownFrame

LEMMA DownFrames ==
    /\ \A id \in Nat, a \in Infos \cup {Refused, None} :
         [t |-> "response", id |-> id, answer |-> a] \in DownFrame
    /\ \A z \in Infos : [t |-> "push", info |-> z] \in DownFrame
    /\ \A b \in BOOLEAN, m \in {Steer, None} : [t |-> "message", flag |-> b, mode |-> m] \in DownFrame
BY DEF DownFrame

\* A frame reaches the extension on its socket, while that is open, and nowhere else.
LEMMA PutFacts ==
    ASSUME TypeOK, NEW s \in Sockets, NEW m \in DownFrame, down' = down \o Put(s, m)
    PROVE  /\ down' \in Seq(DownFrame)
           /\ s = sock /\ conns[s].open => down' = down \o <<m>>
           /\ ~(s = sock /\ conns[s].open) => down' = down
<1>1. down \in Seq(DownFrame) BY TypesOf
<1>2. down \o <<>> = down BY <1>1
<1>3. CASE s = sock /\ conns[s].open
  <2>1. down' = down \o <<m>> BY <1>3 DEF Put
  <2>2. down' \in Seq(DownFrame)
    <3> DEFINE q == down
    <3> DEFINE d == down'
    <3>1. q \in Seq(DownFrame) /\ d = q \o <<m>> BY <1>1, <2>1
    <3> HIDE DEF q, d
    <3>2. d \in Seq(DownFrame) BY <3>1, Joined
    <3> QED BY <3>2 DEF d
  <2> QED BY <1>3, <2>1, <2>2
<1>4. CASE ~(s = sock /\ conns[s].open) BY <1>1, <1>2, <1>4 DEF Put
<1> QED BY <1>3, <1>4

\* A push reaches the extension once its socket has registered.
LEMMA PushFacts ==
    ASSUME TypeOK, NEW z \in Infos, down' = down \o Push(z)
    PROVE  /\ down' \in Seq(DownFrame)
           /\ sock # 0 /\ conns[sock].open /\ conns[sock].file # None =>
                down' = down \o <<[t |-> "push", info |-> z]>>
           /\ ~(sock # 0 /\ conns[sock].open /\ conns[sock].file # None) => down' = down
<1>1. down \in Seq(DownFrame) /\ [t |-> "push", info |-> z] \in DownFrame BY TypesOf, DownFrames
<1>2. down \o <<>> = down BY <1>1
<1>3. \A s \in Sockets : Put(s, 0) # <<>> <=> s = sock /\ conns[s].open
  <2>1. <<0>> # <<>> OBVIOUS
  <2> QED BY <2>1 DEF Put
<1>4. CASE sock # 0 /\ conns[sock].open /\ conns[sock].file # None
  <2>1. sock \in Sockets BY <1>4, SocketFacts
  <2>2. down' = down \o <<[t |-> "push", info |-> z]>> BY <1>3, <1>4, <2>1 DEF Push
  <2>3. down' \in Seq(DownFrame)
    <3> DEFINE q == down
    <3> DEFINE d == down'
    <3> DEFINE m == [t |-> "push", info |-> z]
    <3>1. q \in Seq(DownFrame) /\ d = q \o <<m>> /\ m \in DownFrame BY <1>1, <2>2
    <3> HIDE DEF q, d, m
    <3>2. d \in Seq(DownFrame) BY <3>1, Joined
    <3> QED BY <3>2 DEF d
  <2> QED BY <1>1, <1>4, <2>2, <2>3
<1>5. CASE ~(sock # 0 /\ conns[sock].open /\ conns[sock].file # None)
  <2>1. \A s \in Sockets : ~(conns[s].file # None /\ Put(s, 0) # <<>>) BY <1>3, <1>5, SocketFacts
  <2>2. Push(z) = <<>> BY <2>1 DEF Push
  <2> QED BY <1>1, <1>2, <1>5, <2>2
<1> QED BY <1>4, <1>5

\* Only a refresh leaves something to do once it is answered, and there is one at most.
LEMMA ResolveFacts ==
    ASSUME TypeOK, OneRefresh, NEW reqs \in SUBSET pending, NEW a,
           \A r \in reqs : r.op = "info" => a \in Infos \cup {Refused, Unsupported, Disconnected}
    PROVE  /\ Resolve(reqs, a) \in Seq(ResType)
           /\ (\A r \in reqs : r.op # "info") => Resolve(reqs, a) = resolved
           /\ \A r \in reqs : r.op = "info" =>
                /\ resolved = <<>> /\ Len(Resolve(reqs, a)) = 1 /\ Resolve(reqs, a) # <<>>
                /\ Head(Resolve(reqs, a)).gen = r.gen /\ Head(Resolve(reqs, a)).answer = a
<1> DEFINE R == {r \in reqs : r.op = "info"}
<1> DEFINE g == (CHOOSE r \in R : TRUE).gen
<1> DEFINE n == Cardinality(R)
<1> DEFINE x == [gen |-> g, answer |-> a]
<1>1. resolved \in Seq(ResType) /\ pending \subseteq ReqType BY TypesOf
<1>2. Resolve(reqs, a) = resolved \o [i \in 1..n |-> x] BY DEF Resolve
<1>3. CASE R = {}
  <2>1. n = 0 BY <1>3, FS_EmptySet
  <2> HIDE DEF n, x
  <2>2. [i \in 1..n |-> x] = <<>> BY <2>1
  <2>3. resolved \o <<>> = resolved BY <1>1
  <2>4. Resolve(reqs, a) = resolved BY <1>2, <2>2, <2>3
  <2> QED BY <1>1, <1>3, <2>4
<1>4. ASSUME NEW r \in R
      PROVE  /\ resolved = <<>> /\ Resolve(reqs, a) \in Seq(ResType) /\ Len(Resolve(reqs, a)) = 1
             /\ Resolve(reqs, a) # <<>>
             /\ Head(Resolve(reqs, a)).gen = r.gen /\ Head(Resolve(reqs, a)).answer = a
  <2>1. R = {r} BY DEF OneRefresh
  <2>2. n = 1 /\ g = r.gen BY <2>1, FS_Singleton
  <2>3. resolved = <<>> BY DEF OneRefresh
  <2>4. x \in ResType /\ x.gen = r.gen /\ x.answer = a BY <1>1, <2>2 DEF ReqType, ResType
  <2> HIDE DEF n, x
  <2>5. [i \in 1..n |-> x] = <<x>> BY <2>2
  <2>6. Resolve(reqs, a) = <<x>> BY <1>2, <2>3, <2>5
  <2> QED BY <2>3, <2>4, <2>6
<1>5. CASE R # {}
  <2>1. PICK r \in R : TRUE BY <1>5
  <2>2. Resolve(reqs, a) \in Seq(ResType) BY <1>4, <2>1
  <2>3. ~(\A q \in reqs : q.op # "info") BY <2>1
  <2> QED BY <1>4, <2>2, <2>3
<1> QED BY <1>3, <1>5

--------------------
(* Steps that leave a part alone. *)

Wires == Unopened /\ (\A s \in Sockets : RegistersFirst(s)) /\ Current /\ EntriesRegistered

LEMMA Parts ==
    IInv <=> TypeOK /\ Wires /\ OneRefresh /\ ClaimsCounted /\ SpeechInOrder /\ BusyFollows /\ InfoFollows
BY DEF IInv, Wires

LEMMA PartsPrimed ==
    TypeOK' /\ Wires' /\ OneRefresh' /\ ClaimsCounted' /\ SpeechInOrder' /\ BusyFollows' /\ InfoFollows'
      => IInv'
BY DEF IInv, Wires

LEMMA WiresKept ==
    ASSUME Wires, UNCHANGED <<up, conns, sock, opened, file, entry>>, answers' \subseteq answers
    PROVE  Wires'
<1>1. Unopened' BY DEF Wires, Unopened
<1>2. \A s \in Sockets : RegistersFirst(s)' BY DEF Wires, RegistersFirst
<1>3. Current' BY DEF Wires, Current
<1>4. EntriesRegistered' BY DEF Wires, EntriesRegistered, IsBridge
<1> QED BY <1>1, <1>2, <1>3, <1>4 DEF Wires

LEMMA OneRefreshKept ==
    ASSUME OneRefresh, UNCHANGED <<sock, down, pending, resolved, generation, requests, up>>
    PROVE  OneRefresh'
BY DEF OneRefresh

LEMMA ClaimsFinite == ASSUME NEW f PROVE IsFiniteSet(Claims(f))
<1>1. IsFiniteSet(0..MaxSockets) BY BridgeAssumption, FS_Interval
<1>2. Claims(f) \subseteq 0..MaxSockets BY BridgeAssumption DEF Claims, Sockets
<1> QED BY <1>1, <1>2, FS_Subset

LEMMA FewerClaims ==
    ASSUME TypeOK, ClaimsCounted, created' = created, starts' = starts,
           \A f \in Files : Claims(f)' \subseteq Claims(f)
    PROVE  ClaimsCounted'
<1> SUFFICES ASSUME NEW f \in Files
             PROVE  created'[f] + Cardinality(Claims(f)') <= starts'[f]
  BY DEF ClaimsCounted
<1> DEFINE c == Cardinality(Claims(f))
<1> DEFINE d == Cardinality(Claims(f)')
<1>1. c \in Nat /\ d \in Nat /\ d <= c BY ClaimsFinite, FS_Subset, FS_CardinalityType
<1>2. created[f] \in Nat /\ starts[f] \in Nat BY TypesOf
<1>3. created[f] + c <= starts[f] BY DEF ClaimsCounted
<1> HIDE DEF c, d
<1>4. created[f] + d <= starts[f] BY <1>1, <1>2, <1>3
<1> QED BY <1>4 DEF d

LEMMA ClaimsKept ==
    ASSUME TypeOK, ClaimsCounted, UNCHANGED <<created, starts, up, conns, file, pendingIsNew>>
    PROVE  ClaimsCounted'
<1>1. \A f \in Files : Claims(f)' = Claims(f) BY DEF Claims, Carries
<1> QED BY <1>1, FewerClaims

LEMMA SpeechKept ==
    ASSUME SpeechInOrder, UNCHANGED <<overlap, prompts, armed, turn>>
    PROVE  SpeechInOrder'
BY DEF SpeechInOrder, Running

LEMMA BusyKept ==
    ASSUME BusyFollows, UNCHANGED <<sock, misapplied, up, conns, entry, turn>>
    PROVE  BusyFollows'
BY DEF BusyFollows, LastSays, Silent, Says, SaysBusy, Running, IsBridge

LEMMA InfoKept ==
    ASSUME InfoFollows, UNCHANGED <<sock, down, zone, info, pending, resolved, answers, generation, conns>>
    PROVE  InfoFollows'
BY DEF InfoFollows, LastPush, AnswersAreCurrent, BeforeRegistering, HasPush, PushIn, Asking, Answered

\* Nothing is owed to an extension without a socket.
LEMMA Unplugged == sock' = 0 => Current' /\ BusyFollows' /\ InfoFollows'
BY DEF Current, BusyFollows, InfoFollows

--------------------
(* Frames that the extension sends. *)

LEMMA SentFacts ==
    ASSUME TypeOK, sock # 0, NEW e \in UpFrame, up' = Sent(<<e>>)
    PROVE  /\ up' \in [Sockets -> Seq(UpFrame)]
           /\ up'[sock] = up[sock] \o <<e>> /\ up[sock] \in Seq(UpFrame) /\ sock \in Sockets
           /\ \A s \in Sockets \ {sock} : up'[s] = up[s]
<1> DEFINE q == up[sock] \o <<e>>
<1>1. up \in [Sockets -> Seq(UpFrame)] /\ sock \in Sockets BY TypesOf, SocketFacts
<1>2. q \in Seq(UpFrame) BY <1>1, Joined
<1>3. up' = [up EXCEPT ![sock] = q] BY DEF Sent
<1> HIDE DEF q
<1> QED BY <1>1, <1>2, <1>3 DEF q

\* A frame behind the others on the socket of the moment.
LEMMA SendKeeps ==
    ASSUME TypeOK, Wires, ClaimsCounted, sock # 0, NEW e \in UpFrame, up' = Sent(<<e>>),
           e.t \in {"start", "end", "request"},
           UNCHANGED <<conns, sock, opened, file, entry, answers, created, starts, pendingIsNew>>
    PROVE  Wires' /\ ClaimsCounted'
<1> DEFINE q == up[sock]
<1> DEFINE r == up'[sock]
<1>1. /\ q \in Seq(UpFrame) /\ r = q \o <<e>> /\ sock \in Sockets
      /\ \A s \in Sockets \ {sock} : up'[s] = up[s]
  BY SentFacts
<1>2. /\ r \in Seq(UpFrame) /\ r # <<>> /\ Len(r) = Len(q) + 1 /\ Len(q) \in Nat
      /\ \A i \in 1..Len(q) : r[i] = q[i]
      /\ r[Len(q) + 1] = e
      /\ Head(r) = IF q = <<>> THEN e ELSE Head(q)
  <2> HIDE DEF q, r
  <2> QED BY <1>1, Joined
<1>3. q = <<>> => conns[sock].phase # "none" BY DEF Wires, Current
<1>4. Unopened'
  <2>1. ~(sock > opened) BY SocketFacts
  <2> QED BY <1>1, <2>1 DEF Wires, Unopened
<1>5. RegistersFirst(sock)'
  <2>1. RegistersFirst(sock) BY <1>1 DEF Wires
  <2> HIDE DEF r
  <2>2. \A i \in 2..Len(r) : r[i].t # "register"
    <3> SUFFICES ASSUME NEW i \in 2..Len(r) PROVE r[i].t # "register" OBVIOUS
    <3>1. i \in 2..Len(q) \/ i = Len(q) + 1 BY <1>2
    <3>2. \A k \in 2..Len(q) : q[k].t # "register" /\ r[k] = q[k] BY <1>2, <2>1 DEF RegistersFirst
    <3> QED BY <1>2, <3>1, <3>2
  <2>3. IF conns[sock].phase = "none" THEN Head(r).t \in {"register", "closed"}
        ELSE Head(r).t # "register"
    BY <1>2, <1>3, <2>1 DEF RegistersFirst
  <2>4. \A i \in 1..Len(r) : r[i].t = "closed" => i = Len(r)
    <3> SUFFICES ASSUME NEW i \in 1..Len(r) PROVE r[i].t = "closed" => i = Len(r) OBVIOUS
    <3>1. i \in 1..Len(q) \/ i = Len(q) + 1 BY <1>2
    <3>2. \A k \in 1..Len(q) : q[k].t # "closed" /\ r[k] = q[k] BY <1>2 DEF Wires, Current
    <3> QED BY <1>2, <3>1, <3>2
  <2> QED BY <1>2, <2>1, <2>2, <2>3, <2>4 DEF RegistersFirst, r
<1>6. \A s \in Sockets : RegistersFirst(s)' BY <1>1, <1>5, SMTT(30) DEF Wires, RegistersFirst
<1>7. Current'
  <2>1. \A i \in 1..Len(r) : r[i].t # "closed"
    <3> HIDE DEF r
    <3> SUFFICES ASSUME NEW i \in 1..Len(r) PROVE r[i].t # "closed" OBVIOUS
    <3>1. i \in 1..Len(q) \/ i = Len(q) + 1 BY <1>2
    <3> QED BY <1>2, <3>1 DEF Wires, Current
  <2>2. conns[sock].phase = "none" => r # <<>> /\ Head(r).file = file
    BY <1>2, <1>3 DEF Wires, Current
  <2> QED BY <2>1, <2>2 DEF Wires, Current
<1>8. EntriesRegistered' BY DEF Wires, EntriesRegistered, IsBridge
<1>9. \A f \in Files : Claims(f)' \subseteq Claims(f)
  <2> SUFFICES ASSUME NEW f \in Files, NEW s \in Sockets, Carries(s, f)' PROVE Carries(s, f)
    BY DEF Claims
  <2>1. CASE s = sock BY <1>2, <2>1 DEF Carries
  <2>2. CASE s # sock BY <1>1, <2>2 DEF Carries
  <2> QED BY <2>1, <2>2
<1> QED BY <1>4, <1>6, <1>7, <1>8, <1>9, FewerClaims DEF Wires

LEMMA BusySilent ==
    ASSUME TypeOK, BusyFollows, sock # 0, NEW e \in UpFrame, up' = Sent(<<e>>),
           UNCHANGED <<conns, sock, entry, misapplied>>,
           \/ Says(e) /\ (SaysBusy(e) <=> turn' # None)
           \/ ~Says(e) /\ turn' = turn
    PROVE  BusyFollows'
<1> DEFINE b == turn
<1> DEFINE c == turn'
<1> DEFINE q == up[sock]
<1> DEFINE r == up'[sock]
<1>1. q \in Seq(UpFrame) /\ r = q \o <<e>> BY SentFacts
<1>2. /\ Says(e) /\ (SaysBusy(e) <=> c # None) => LastSays(r, c) /\ ~Silent(r)
      /\ ~Says(e) => (Silent(r) => Silent(q)) /\ (LastSays(q, b) => LastSays(r, b))
  <2> HIDE DEF b, c, q, r
  <2> QED BY <1>1, SaysJoined
<1> DEFINE G ==
      /\ LastSays(r, c)
      /\ Silent(r) =>
           /\ conns[sock].phase = "reading" => (conns[sock].busy <=> c # None)
           /\ \A f \in Files : IsBridge(f) /\ entry[f].sock = sock => (entry[f].busy <=> c # None)
<1>3. ASSUME ~misapplied => G PROVE BusyFollows'
  <2>1. LastSays(r, c) => LastSays(up[sock], turn)' BY DEF LastSays, Says, SaysBusy
  <2>2. Silent(up[sock])' => Silent(r) BY DEF Silent, Says
  <2>3. \A f \in Files : IsBridge(f)' <=> IsBridge(f) BY DEF IsBridge
  <2> HIDE DEF r
  <2> QED BY <1>3, <2>1, <2>2, <2>3 DEF BusyFollows, Running
<1> SUFFICES ASSUME ~misapplied PROVE G BY <1>3
<1>4. /\ LastSays(q, b)
      /\ Silent(q) =>
           /\ conns[sock].phase = "reading" => (conns[sock].busy <=> b # None)
           /\ \A f \in Files : IsBridge(f) /\ entry[f].sock = sock => (entry[f].busy <=> b # None)
  BY DEF BusyFollows, Running
<1>5. CASE Says(e) /\ (SaysBusy(e) <=> c # None) BY <1>2, <1>5
<1>6. CASE ~Says(e) /\ c = b
  <2> HIDE DEF b, c, q, r
  <2> QED BY <1>2, <1>4, <1>6
<1> QED BY <1>5, <1>6

--------------------
(* Turns and prompts. *)

LEMMA TypesKeeps == ASSUME IInv, Types PROVE IInv'
<1> DEFINE e == [flag |-> FALSE, mode |-> Steer]
<1>1. /\ Happens /\ prompts' = Append(prompts, e) /\ overlap' = (overlap \/ prompts # <<>>)
      /\ UNCHANGED <<file, sock, opened, pending, resolved, info, generation, pendingIsNew, armed,
                     turn, fresh, conns, entry, zone, answers, created, up, down, starts, misapplied,
                     lost, requests>>
  BY DEF Types, srv
<1>2. /\ TypeOK /\ Wires /\ OneRefresh /\ ClaimsCounted /\ SpeechInOrder /\ BusyFollows /\ InfoFollows
      /\ prompts \in Seq(PromptType)
  BY Parts, TypesOf
<1>3. e \in PromptType /\ e.flag = FALSE BY DEF PromptType
<1>4. events' \in 0..MaxEvents BY <1>1, <1>2, HappensType
<1> HIDE DEF e
<1>5. prompts' \in Seq(PromptType) BY <1>1, <1>2, <1>3
<1>6. overlap' \in BOOLEAN BY <1>1, <1>2, TypesOf
<1>7. TypeOK' BY <1>1, <1>2, <1>4, <1>5, <1>6, TypesOf, TypesAre
<1>8. SpeechInOrder'
  <2> SUFFICES ASSUME ~overlap'
               PROVE  /\ Len(prompts') <= 1
                      /\ armed <=> prompts' # <<>> /\ Head(prompts').flag
                      /\ Running => ~armed /\ (turn.spoken <=> turn.asked)
    BY <1>1 DEF SpeechInOrder, Running
  <2>1. ~overlap /\ prompts = <<>> BY <1>1
  <2>2. prompts' = <<e>> BY <1>1, <2>1
  <2>3. Len(prompts') = 1 /\ prompts' # <<>> /\ Head(prompts') = e BY <2>2
  <2>4. ~armed /\ (Running => (turn.spoken <=> turn.asked)) BY <1>2, <2>1 DEF SpeechInOrder
  <2> QED BY <1>3, <2>3, <2>4
<1>9. Wires' /\ OneRefresh' /\ ClaimsCounted' /\ BusyFollows' /\ InfoFollows'
  BY <1>1, <1>2, WiresKept, OneRefreshKept, ClaimsKept, BusyKept, InfoKept
<1> QED BY <1>7, <1>8, <1>9, PartsPrimed

\* One prompt is taken off the queue.
LEMMA PromptTaken ==
    ASSUME TypeOK, prompts # <<>>
    PROVE  /\ Tail(prompts) \in Seq(PromptType) /\ Head(prompts) \in PromptType
           /\ Len(prompts) <= 1 => Tail(prompts) = <<>>
<1>1. prompts \in Seq(PromptType) BY TypesOf
<1>2. /\ Tail(prompts) \in Seq(PromptType) /\ Len(Tail(prompts)) = Len(prompts) - 1
      /\ Len(prompts) \in Nat /\ Len(prompts) >= 1 /\ Head(prompts) \in PromptType
  BY <1>1, Tailed
<1>3. Len(prompts) <= 1 => Len(Tail(prompts)) = 0 BY <1>2
<1> QED BY <1>2, <1>3

LEMMA PromptMeetsTurnKeeps == ASSUME IInv, PromptMeetsTurn PROVE IInv'
<1>1. /\ prompts # <<>> /\ Running /\ prompts' = Tail(prompts)
      /\ lost' = (lost \/ Head(prompts).mode # Steer)
      /\ UNCHANGED <<file, sock, opened, pending, resolved, info, generation, pendingIsNew, armed,
                     turn, fresh, conns, entry, zone, answers, created, up, down, starts, misapplied,
                     overlap, requests, events>>
  BY DEF PromptMeetsTurn, srv
<1>2. TypeOK /\ Wires /\ OneRefresh /\ ClaimsCounted /\ SpeechInOrder /\ BusyFollows /\ InfoFollows
  BY Parts
<1>3. Tail(prompts) \in Seq(PromptType) /\ (Len(prompts) <= 1 => Tail(prompts) = <<>>)
  BY <1>1, <1>2, PromptTaken
<1>4. lost' \in BOOLEAN BY <1>1, <1>2, TypesOf
<1>5. TypeOK' BY <1>1, <1>2, <1>3, <1>4, TypesOf, TypesAre
<1>6. SpeechInOrder'
  <2>0. ASSUME ~overlap => prompts' = <<>> /\ ~armed /\ (turn.spoken <=> turn.asked)
        PROVE  SpeechInOrder'
    <3>1. prompts' = <<>> => Len(prompts') <= 1 OBVIOUS
    <3> QED BY <1>1, <2>0, <3>1 DEF SpeechInOrder
  <2> SUFFICES ASSUME ~overlap
               PROVE  prompts' = <<>> /\ ~armed /\ (turn.spoken <=> turn.asked)
    BY <2>0
  <2>1. Len(prompts) <= 1 /\ ~armed /\ (turn.spoken <=> turn.asked) BY <1>1, <1>2 DEF SpeechInOrder
  <2> QED BY <1>1, <1>3, <2>1
<1>7. Wires' /\ OneRefresh' /\ ClaimsCounted' /\ BusyFollows' /\ InfoFollows'
  BY <1>1, <1>2, WiresKept, OneRefreshKept, ClaimsKept, BusyKept, InfoKept
<1> QED BY <1>5, <1>6, <1>7, PartsPrimed

\* What a word on the turn does to the wire.
LEMMA TurnSent ==
    ASSUME TypeOK, Wires, OneRefresh, ClaimsCounted, BusyFollows, InfoFollows, NEW e \in UpFrame,
           e.t \in {"start", "end"}, up' = SentIfOpen(e),
           UNCHANGED <<file, sock, opened, pending, resolved, info, generation, pendingIsNew,
                       conns, entry, zone, answers, created, down, starts, misapplied, requests>>,
           e.t = "start" <=> turn' # None
    PROVE  /\ up' \in [Sockets -> Seq(UpFrame)]
           /\ Wires' /\ OneRefresh' /\ ClaimsCounted' /\ BusyFollows' /\ InfoFollows'
<1>1. InfoFollows' BY InfoKept
<1>2. CASE sock = 0
  <2>1. up' = up BY <1>2 DEF SentIfOpen
  <2>2. BusyFollows' BY <1>2, Unplugged
  <2> QED BY <1>1, <2>1, <2>2, TypesOf, WiresKept, OneRefreshKept, ClaimsKept
<1>3. CASE sock # 0
  <2>1. up' = Sent(<<e>>) BY <1>3 DEF SentIfOpen
  <2>2. Wires' /\ ClaimsCounted' BY <1>3, <2>1, SendKeeps
  <2>3. Says(e) /\ (SaysBusy(e) <=> turn' # None) BY DEF Says, SaysBusy
  <2>4. BusyFollows' BY <1>3, <2>1, <2>3, BusySilent
  <2>5. up' \in [Sockets -> Seq(UpFrame)] BY <1>3, <2>1, SentFacts
  <2>6. OneRefresh'
    <3> DEFINE q == up[sock]
    <3> DEFINE r == up'[sock]
    <3>1. q \in Seq(UpFrame) /\ r = q \o <<e>> BY <1>3, <2>1, SentFacts
    <3>2. /\ Len(r) = Len(q) + 1 /\ Len(q) \in Nat
          /\ \A i \in 1..Len(q) : r[i] = q[i]
          /\ r[Len(q) + 1] = e
      <4> HIDE DEF q, r
      <4> QED BY <3>1, Joined
    <3>3. \A i \in 1..Len(r) : r[i].t = "request" => i \in 1..Len(q) /\ r[i] = q[i]
      <4> HIDE DEF q, r
      <4> SUFFICES ASSUME NEW i \in 1..Len(r), r[i].t = "request" PROVE i \in 1..Len(q) /\ r[i] = q[i]
        OBVIOUS
      <4>1. i # Len(q) + 1 BY <3>2
      <4> QED BY <3>2, <4>1
    <3>4. \A s \in pending : s.op = "info" =>
            \A i \in 1..Len(r) : r[i].t = "request" /\ r[i].id = s.id => r[i].op = "info"
      BY <1>3, <3>3 DEF OneRefresh
    <3> HIDE DEF q
    <3> QED BY <1>3, <3>4 DEF OneRefresh
  <2> QED BY <1>1, <2>2, <2>4, <2>5, <2>6
<1> QED BY <1>2, <1>3

LEMMA TurnStartsKeeps == ASSUME IInv, TurnStarts PROVE IInv'
<1> DEFINE p == Head(prompts)
<1> DEFINE e == [t |-> "start"]
<1>1. /\ prompts # <<>> /\ turn = None /\ turn' = [asked |-> p.flag, spoken |-> armed]
      /\ armed' = FALSE /\ prompts' = Tail(prompts) /\ fresh' = [fresh EXCEPT ![file] = FALSE]
      /\ up' = SentIfOpen(e)
      /\ UNCHANGED <<file, sock, opened, pending, resolved, info, generation, pendingIsNew,
                     conns, entry, zone, answers, created, down, starts, misapplied, overlap, lost,
                     requests, events>>
  BY DEF TurnStarts, TurnStartsWith, Running, srv, history
<1>2. TypeOK /\ Wires /\ OneRefresh /\ ClaimsCounted /\ SpeechInOrder /\ BusyFollows /\ InfoFollows
  BY Parts
<1>3. /\ Tail(prompts) \in Seq(PromptType) /\ p \in PromptType
      /\ (Len(prompts) <= 1 => Tail(prompts) = <<>>)
  BY <1>1, <1>2, PromptTaken
<1>4. p.flag \in BOOLEAN /\ armed \in BOOLEAN BY <1>2, <1>3, TypesOf DEF PromptType
<1>5. /\ turn' \in TurnType /\ turn' # None /\ turn'.asked = p.flag /\ turn'.spoken = armed
  BY <1>1, <1>4, BridgeAssumption DEF TurnType
<1>6. e \in UpFrame /\ e.t = "start" BY UpFrames
<1> HIDE DEF e, p
<1>7. /\ up' \in [Sockets -> Seq(UpFrame)]
      /\ Wires' /\ OneRefresh' /\ ClaimsCounted' /\ BusyFollows' /\ InfoFollows'
  BY <1>1, <1>2, <1>5, <1>6, TurnSent
<1>8. fresh' \in [Files -> BOOLEAN] BY <1>1, <1>2, TypesOf
<1>9. armed' \in BOOLEAN /\ prompts' \in Seq(PromptType) BY <1>1, <1>3
<1>10. TypeOK' BY <1>1, <1>2, <1>5, <1>7, <1>8, <1>9, TypesOf, TypesAre
<1>11. SpeechInOrder'
  <2> SUFFICES ASSUME ~overlap'
               PROVE  /\ Len(prompts') <= 1
                      /\ armed' <=> prompts' # <<>> /\ Head(prompts').flag
                      /\ ~armed' /\ (turn'.spoken <=> turn'.asked)
    BY DEF SpeechInOrder
  <2>1. Len(prompts) <= 1 /\ (armed <=> p.flag) BY <1>1, <1>2 DEF SpeechInOrder, p
  <2>2. prompts' = <<>> BY <1>1, <1>3, <2>1
  <2> QED BY <1>1, <1>5, <2>1, <2>2
<1> QED BY <1>7, <1>10, <1>11, PartsPrimed

LEMMA TurnEndsKeeps == ASSUME IInv, TurnEnds PROVE IInv'
<1> DEFINE e == [t |-> "end"]
<1>1. /\ Running /\ turn' = None /\ up' = SentIfOpen(e)
      /\ UNCHANGED <<file, sock, opened, pending, resolved, info, generation, pendingIsNew, armed,
                     prompts, fresh, conns, entry, zone, answers, created, down, starts, misapplied,
                     overlap, lost, requests, events>>
  BY DEF TurnEnds, srv, history
<1>2. TypeOK /\ Wires /\ OneRefresh /\ ClaimsCounted /\ SpeechInOrder /\ BusyFollows /\ InfoFollows
  BY Parts
<1>3. e \in UpFrame /\ e.t = "end" BY UpFrames
<1> HIDE DEF e
<1>4. /\ up' \in [Sockets -> Seq(UpFrame)]
      /\ Wires' /\ OneRefresh' /\ ClaimsCounted' /\ BusyFollows' /\ InfoFollows'
  BY <1>1, <1>2, <1>3, TurnSent
<1>5. TypeOK' BY <1>1, <1>2, <1>4, TypesOf, TypesAre
<1>6. SpeechInOrder' BY <1>1, <1>2 DEF SpeechInOrder, Running
<1> QED BY <1>4, <1>5, <1>6, PartsPrimed

--------------------
(* Requests and the cache. *)

\* The cache looks at refreshes only.
LEMMA InfoSame ==
    ASSUME InfoFollows, UNCHANGED <<sock, down, zone, info, resolved, generation>>,
           conns'[sock].phase = "none" => conns[sock].phase = "none",
           answers' \subseteq answers,
           \A r \in pending' : r.op = "info" => r \in pending,
           \A r \in pending : r.op = "info" => r \in pending'
    PROVE  InfoFollows'
<1> SUFFICES ASSUME sock # 0
             PROVE  /\ LastPush(down, zone)' /\ AnswersAreCurrent' /\ BeforeRegistering'
                    /\ HasPush' \/ info' \in {zone', Unsupported} \/ Asking' \/ Answered'
  BY DEF InfoFollows
<1>1. /\ LastPush(down, zone) /\ AnswersAreCurrent /\ BeforeRegistering
      /\ HasPush \/ info \in {zone, Unsupported} \/ Asking \/ Answered
  BY DEF InfoFollows
<1>2. LastPush(down, zone)' /\ HasPush' = HasPush /\ Answered' = Answered
  BY <1>1 DEF LastPush, HasPush, PushIn, Answered
<1>3. Asking' = Asking BY DEF Asking
<1>4. AnswersAreCurrent' BY <1>1, <1>2 DEF AnswersAreCurrent
<1>5. BeforeRegistering' BY <1>1, <1>2, <1>3 DEF BeforeRegistering
<1> QED BY <1>1, <1>2, <1>3, <1>4, <1>5

LEMMA ToolCallsKeeps == ASSUME IInv, NEW z \in Infos, ToolCalls(z) PROVE IInv'
<1> DEFINE e == Request(requests, z)
<1> DEFINE w == Waiting(requests, z)
<1>1. /\ Happens /\ sock # 0 /\ pending' = pending \cup {w} /\ up' = Sent(<<e>>)
      /\ requests' = requests + 1
      /\ UNCHANGED <<file, sock, opened, resolved, info, generation, pendingIsNew, armed, prompts,
                     turn, fresh, conns, entry, zone, answers, created, down, starts, misapplied,
                     overlap, lost>>
  BY DEF ToolCalls, srv, history
<1>2. TypeOK /\ Wires /\ OneRefresh /\ ClaimsCounted /\ SpeechInOrder /\ BusyFollows /\ InfoFollows
  BY Parts
<1>3. /\ requests \in Nat /\ generation \in Nat /\ pending \subseteq ReqType BY <1>2, TypesOf
<1>4. z # "info" BY BridgeAssumption
<1>5. e \in UpFrame /\ e.t = "request" /\ e.id = requests BY <1>3, UpFrames
<1>6. w \in ReqType /\ w.op = z /\ w.id = requests /\ w.gen = generation
  BY <1>3 DEF Waiting, ReqType
<1> HIDE DEF e, w
<1>7. Wires' /\ ClaimsCounted' BY <1>1, <1>2, <1>5, SendKeeps
<1>8. BusyFollows'
  <2>1. ~Says(e) BY <1>5 DEF Says
  <2> QED BY <1>1, <1>2, <1>5, <2>1, BusySilent
<1>9. SpeechInOrder' BY <1>1, <1>2, SpeechKept
<1>10. InfoFollows' BY <1>1, <1>2, <1>4, <1>6, InfoSame
<1>11. TypeOK'
  <2>1. up' \in [Sockets -> Seq(UpFrame)] BY <1>1, <1>2, <1>5, SentFacts
  <2>2. pending' \subseteq ReqType /\ requests' \in Nat BY <1>1, <1>3, <1>6
  <2>3. events' \in 0..MaxEvents BY <1>1, <1>2, HappensType
  <2> QED BY <1>1, <1>2, <2>1, <2>2, <2>3, TypesOf, TypesAre
<1>12. OneRefresh'
  <2>1. \A r \in pending' : r.op = "info" => r \in pending BY <1>1, <1>4, <1>6
  <2>2. \A r \in pending' : r.gen <= generation' /\ r.id < requests'
    BY <1>1, <1>2, <1>3, <1>6 DEF OneRefresh, ReqType
  <2>3. ASSUME NEW r \in pending, r.op = "info", NEW i \in 1..Len(up'[sock]),
               up'[sock][i].t = "request", up'[sock][i].id = r.id
        PROVE  up'[sock][i].op = "info"
    <3> DEFINE q == up[sock]
    <3> DEFINE v == up'[sock]
    <3>1. q \in Seq(UpFrame) /\ v = q \o <<e>> BY <1>1, <1>2, <1>5, SentFacts
    <3>2. \A k \in 1..Len(q) : q[k].t = "request" /\ q[k].id = r.id => q[k].op = "info"
      BY <1>1, <1>2, <2>3 DEF OneRefresh
    <3>3. r.id < requests /\ r.id \in Nat BY <1>2, <1>3 DEF OneRefresh, ReqType
    <3>4. i \in 1..Len(v) /\ v[i].t = "request" /\ v[i].id = r.id BY <2>3
    <3> SUFFICES v[i].op = "info" OBVIOUS
    <3> HIDE DEF q, v
    <3>5. /\ Len(v) = Len(q) + 1 /\ Len(q) \in Nat
          /\ \A k \in 1..Len(q) : v[k] = q[k]
          /\ v[Len(q) + 1] = e
      BY <1>5, <3>1, Joined
    <3>6. i # Len(q) + 1 BY <1>3, <1>5, <3>3, <3>4, <3>5
    <3>7. i \in 1..Len(q) BY <3>4, <3>5, <3>6
    <3> QED BY <3>2, <3>4, <3>5, <3>7
  <2>4. \A r, q \in pending' : r.op = "info" /\ q.op = "info" => r = q BY <1>2, <2>1 DEF OneRefresh
  <2>5. resolved # <<>> => Len(resolved) = 1 /\ \A r \in pending' : r.op # "info"
    BY <1>2, <2>1 DEF OneRefresh
  <2> QED BY <1>1, <1>2, <2>1, <2>2, <2>3, <2>4, <2>5 DEF OneRefresh
<1> QED BY <1>2, <1>7, <1>8, <1>9, <1>10, <1>11, <1>12, PartsPrimed

LEMMA TimesOutKeeps == ASSUME IInv, NEW STATE r, r \in pending, TimesOut(r) PROVE IInv'
<1> DEFINE R == Resolve({r}, Unsupported)
<1>1. /\ Happens /\ pending' = pending \ {r} /\ resolved' = R /\ resolved = <<>>
      /\ UNCHANGED <<file, sock, opened, info, generation, pendingIsNew, armed, prompts, turn, fresh,
                     conns, entry, zone, answers, created, up, down, starts, misapplied, overlap, lost,
                     requests>>
  BY DEF TimesOut, srv, history, Settled
<1>2. TypeOK /\ Wires /\ OneRefresh /\ ClaimsCounted /\ SpeechInOrder /\ BusyFollows /\ InfoFollows
  BY Parts
<1>3. /\ R \in Seq(ResType)
      /\ (r.op # "info" => R = resolved)
      /\ (r.op = "info" => Len(R) = 1 /\ R # <<>> /\ Head(R).gen = r.gen /\ Head(R).answer = Unsupported)
  <2> DEFINE reqs == {r}
  <2>1. reqs \in SUBSET pending /\ Unsupported \in Infos \cup {Refused, Unsupported, Disconnected}
    OBVIOUS
  <2>2. \A q : q \in reqs <=> q = r OBVIOUS
  <2> HIDE DEF reqs
  <2>3. /\ Resolve(reqs, Unsupported) \in Seq(ResType)
        /\ (\A q \in reqs : q.op # "info") => Resolve(reqs, Unsupported) = resolved
        /\ \A q \in reqs : q.op = "info" =>
             /\ Len(Resolve(reqs, Unsupported)) = 1 /\ Resolve(reqs, Unsupported) # <<>>
             /\ Head(Resolve(reqs, Unsupported)).gen = q.gen
             /\ Head(Resolve(reqs, Unsupported)).answer = Unsupported
    BY <1>2, <2>1, ResolveFacts
  <2> QED BY <2>2, <2>3 DEF reqs
<1> HIDE DEF R
<1>4. events' \in 0..MaxEvents BY <1>1, <1>2, HappensType
<1>5. TypeOK' BY <1>1, <1>2, <1>3, <1>4, TypesOf, TypesAre
<1>6. Wires' /\ ClaimsCounted' /\ SpeechInOrder' /\ BusyFollows'
  BY <1>1, <1>2, WiresKept, ClaimsKept, SpeechKept, BusyKept
<1>7. OneRefresh'
  <2>1. r.op = "info" => \A q \in pending' : q.op # "info" BY <1>1, <1>2 DEF OneRefresh
  <2> QED BY <1>1, <1>2, <1>3, <2>1 DEF OneRefresh
<1>8. InfoFollows'
  <2>1. CASE r.op # "info" BY <1>1, <1>2, <1>3, <2>1, InfoSame
  <2>2. CASE r.op = "info"
    <3>1. \A q \in pending' : q.op # "info" BY <1>1, <1>2, <2>2 DEF OneRefresh
    <3>2. \A q \in pending : q.op = "info" => q = r BY <1>2, <2>2 DEF OneRefresh
    <3>3. Asking => Answered' BY <1>1, <1>3, <2>2, <3>2 DEF Asking, Answered
    <3>4. ~Answered BY <1>1 DEF Answered
    <3> SUFFICES ASSUME sock # 0
                 PROVE  /\ LastPush(down, zone)' /\ AnswersAreCurrent' /\ BeforeRegistering'
                        /\ HasPush' \/ info' \in {zone', Unsupported} \/ Asking' \/ Answered'
      BY <1>1 DEF InfoFollows
    <3>5. /\ LastPush(down, zone) /\ AnswersAreCurrent /\ BeforeRegistering
          /\ HasPush \/ info \in {zone, Unsupported} \/ Asking \/ Answered
      BY <1>2 DEF InfoFollows
    <3>6. LastPush(down, zone)' /\ HasPush' = HasPush BY <1>1, <3>5 DEF LastPush, HasPush, PushIn
    <3>7. AnswersAreCurrent' BY <1>1, <1>3, <2>2, <3>1 DEF AnswersAreCurrent
    <3>8. BeforeRegistering' BY <1>1, <1>3, <2>2, <3>3, <3>4, <3>5 DEF BeforeRegistering
    <3> QED BY <1>1, <3>3, <3>4, <3>5, <3>6, <3>7, <3>8
  <2> QED BY <2>1, <2>2
<1> QED BY <1>5, <1>6, <1>7, <1>8, PartsPrimed

LEMMA RefreshContinuesKeeps == ASSUME IInv, RefreshContinues PROVE IInv'
<1> DEFINE r == Head(resolved)
<1>1. /\ resolved # <<>> /\ info' = Refreshed(r) /\ resolved' = Tail(resolved)
      /\ UNCHANGED <<file, sock, opened, pending, generation, pendingIsNew, armed, prompts, turn,
                     fresh, conns, entry, zone, answers, created, up, down, starts, misapplied, overlap,
                     lost, requests, events>>
  BY DEF RefreshContinues, srv, history
<1>2. TypeOK /\ Wires /\ OneRefresh /\ ClaimsCounted /\ SpeechInOrder /\ BusyFollows /\ InfoFollows
  BY Parts
<1>3. resolved \in Seq(ResType) /\ zone \in Infos /\ info \in Infos \cup {Unsupported, Disconnected}
  BY <1>2, TypesOf
<1>4. Len(resolved) = 1 /\ \A q \in pending : q.op # "info" BY <1>1, <1>2 DEF OneRefresh
<1>5. Tail(resolved) = <<>> /\ r \in ResType
  <2> DEFINE v == Tail(resolved)
  <2>1. v \in Seq(ResType) /\ Len(v) = Len(resolved) - 1 /\ r \in ResType BY <1>1, <1>3, Tailed
  <2> HIDE DEF v
  <2>2. v = <<>> BY <1>4, <2>1
  <2> QED BY <2>1, <2>2 DEF v
<1> HIDE DEF r
<1>6. info' \in Infos \cup {Unsupported, Disconnected}
  BY <1>1, <1>3, <1>5 DEF Refreshed, AnswerTaken, ResType
<1>7. TypeOK' BY <1>1, <1>2, <1>5, <1>6, TypesOf, TypesAre
<1>8. Wires' /\ ClaimsCounted' /\ SpeechInOrder' /\ BusyFollows'
  BY <1>1, <1>2, WiresKept, ClaimsKept, SpeechKept, BusyKept
<1>9. OneRefresh' BY <1>1, <1>2, <1>5 DEF OneRefresh
<1>10. InfoFollows'
  <2> SUFFICES ASSUME sock # 0
               PROVE  /\ LastPush(down, zone)' /\ AnswersAreCurrent' /\ BeforeRegistering'
                      /\ HasPush' \/ info' \in {zone', Unsupported} \/ Asking' \/ Answered'
    BY <1>1 DEF InfoFollows
  <2>1. /\ LastPush(down, zone) /\ AnswersAreCurrent /\ BeforeRegistering
        /\ HasPush \/ info \in {zone, Unsupported} \/ Asking \/ Answered
    BY <1>2 DEF InfoFollows
  <2>2. LastPush(down, zone)' /\ HasPush' = HasPush BY <1>1, <2>1 DEF LastPush, HasPush, PushIn
  <2>3. AnswersAreCurrent' /\ ~Asking BY <1>1, <1>4, <1>5 DEF AnswersAreCurrent, Answered, Asking
  <2>4. Answered <=> r.gen = generation BY <1>1 DEF Answered, r
  <2>5. Answered => r.answer \in {zone, Unsupported} \/ HasPush BY <2>1 DEF AnswersAreCurrent, r
  <2>6. zone \notin {Unsupported, Refused, Disconnected}
    BY <1>3, BridgeAssumption DEF Unsupported, Refused, Disconnected
  <2>7. r.answer \in {zone, Unsupported} => AnswerTaken(r) = r.answer
    BY <2>6 DEF AnswerTaken, Unsupported, Refused, Disconnected
  <2>8. HasPush \/ info' \in {zone, Unsupported} BY <1>1, <2>1, <2>3, <2>4, <2>5, <2>7 DEF Refreshed
  <2>9. BeforeRegistering'
    <3> SUFFICES ASSUME conns[sock].phase = "none"
                 PROVE  down = <<>> /\ (\A a \in answers : a.sock # sock) /\ info' = Unsupported
      BY <1>1, <1>5 DEF BeforeRegistering
    <3>1. /\ down = <<>> /\ (\A a \in answers : a.sock # sock) /\ r.answer = Unsupported
          /\ info = Unsupported \/ Answered
      BY <1>1, <2>1, <2>3 DEF BeforeRegistering, r
    <3>2. AnswerTaken(r) = Unsupported BY <2>7, <3>1
    <3> QED BY <1>1, <2>4, <3>1, <3>2 DEF Refreshed
  <2> QED BY <1>1, <2>2, <2>3, <2>8, <2>9
<1> QED BY <1>7, <1>8, <1>9, <1>10, PartsPrimed

--------------------
(* What the extension hears. *)

LEMMA HeardFacts ==
    ASSUME TypeOK, OneRefresh, InfoFollows, down # <<>>, down' = Tail(down), UNCHANGED <<sock, zone>>
    PROVE  /\ sock # 0 /\ conns[sock].phase # "none"
           /\ Head(down) \in DownFrame /\ down' \in Seq(DownFrame) /\ LastPush(down, zone)'
           /\ Head(down).t = "push" => HasPush' \/ Head(down).info = zone
           /\ Head(down).t # "push" => (HasPush' <=> HasPush)
           /\ \E k \in 1..Len(down) : down[k] = Head(down)
           /\ \A i \in 1..Len(down') : \E k \in 1..Len(down) : down[k] = down'[i]
<1> DEFINE q == down
<1> DEFINE r == down'
<1>1. sock # 0 BY DEF OneRefresh
<1>2. conns[sock].phase # "none" /\ LastPush(q, zone) BY <1>1 DEF InfoFollows, BeforeRegistering
<1>3. q \in Seq(DownFrame) /\ q # <<>> /\ r = Tail(q) BY TypesOf
<1>4. /\ r \in Seq(DownFrame) /\ Len(r) = Len(q) - 1 /\ Len(q) \in Nat /\ Len(q) >= 1
      /\ Head(q) \in DownFrame /\ Head(q) = q[1]
      /\ \A i \in 1..Len(r) : i + 1 \in 2..Len(q) /\ r[i] = q[i + 1]
  <2> HIDE DEF q, r
  <2> QED BY <1>3, Tailed
<1>5. /\ LastPush(r, zone)
      /\ Head(q).t = "push" => PushIn(r) \/ Head(q).info = zone
      /\ Head(q).t # "push" => (PushIn(r) <=> PushIn(q))
  <2> HIDE DEF q, r
  <2> QED BY <1>2, <1>3, PushTaken
<1>6. 1 \in 1..Len(q) BY <1>4
<1>7. \A i \in 1..Len(r) : \E k \in 1..Len(q) : q[k] = r[i]
  <2> HIDE DEF q, r
  <2> SUFFICES ASSUME NEW i \in 1..Len(r) PROVE \E k \in 1..Len(q) : q[k] = r[i] OBVIOUS
  <2>1. i + 1 \in 1..Len(q) /\ r[i] = q[i + 1] BY <1>4
  <2> QED BY <2>1
<1>8. LastPush(down, zone)' BY <1>5 DEF LastPush
<1>9. HasPush' <=> PushIn(r) BY DEF HasPush, PushIn
<1> QED BY <1>1, <1>2, <1>4, <1>5, <1>6, <1>7, <1>8, <1>9 DEF HasPush

\* The answers on their way stay what they are.
LEMMA HeardAnswers ==
    ASSUME TypeOK, OneRefresh, AnswersAreCurrent, UNCHANGED <<sock, zone, answers>>,
           \A i \in 1..Len(down') : \E k \in 1..Len(down) : down[k] = down'[i],
           \A r \in pending' : r.op = "info" => r \in pending,
           \/ generation' = generation /\ (HasPush => HasPush')
           \/ generation' = generation + 1,
           Answered' => Head(resolved').answer \in {zone, Unsupported} \/ HasPush'
    PROVE  AnswersAreCurrent'
<1> SUFFICES ASSUME NEW r \in pending', r.op = "info"
             PROVE  /\ \A a \in answers : a.sock = sock /\ a.id = r.id =>
                         a.answer \in Infos /\ (r.gen = generation' => a.answer = zone \/ HasPush')
                    /\ \A i \in 1..Len(down') : down'[i].t = "response" /\ down'[i].id = r.id =>
                         down'[i].answer \in Infos /\ (r.gen = generation' => down'[i].answer = zone \/ HasPush')
  BY DEF AnswersAreCurrent
<1>1. r \in pending OBVIOUS
<1>2. r.gen <= generation /\ r.gen \in Nat /\ generation \in Nat
  BY <1>1, TypesOf DEF OneRefresh, ReqType
<1>3. r.gen = generation' => generation' = generation BY <1>2
<1>4. r.gen = generation' => (HasPush => HasPush') BY <1>2
<1> QED BY <1>1, <1>3, <1>4 DEF AnswersAreCurrent

LEMMA ResponseKeeps ==
    ASSUME TypeOK, OneRefresh, InfoFollows, down # <<>>, down' = Tail(down),
           Head(down).t = "response", Response(Head(down)),
           UNCHANGED <<sock, zone, answers, conns, up, requests>>
    PROVE  /\ pending' \subseteq pending /\ resolved' \in Seq(ResType)
           /\ OneRefresh' /\ InfoFollows'
<1> DEFINE m == Head(down)
<1> DEFINE asked == {r \in pending : r.id = m.id}
<1> DEFINE R == Resolve(asked, m.answer)
<1>1. /\ pending' = pending \ asked /\ resolved' = R
      /\ UNCHANGED <<info, generation, armed, prompts, overlap>>
  BY DEF Response
<1>2. /\ sock # 0 /\ conns[sock].phase # "none"
      /\ LastPush(down, zone)' /\ (HasPush' <=> HasPush)
      /\ \E k \in 1..Len(down) : down[k] = m
      /\ \A i \in 1..Len(down') : \E k \in 1..Len(down) : down[k] = down'[i]
  BY HeardFacts
<1>3. AnswersAreCurrent /\ (HasPush \/ info \in {zone, Unsupported} \/ Asking \/ Answered)
  BY <1>2 DEF InfoFollows
<1>4. \A r \in asked : r.op = "info" =>
        m.answer \in Infos /\ (r.gen = generation => m.answer = zone \/ HasPush)
  BY <1>2, <1>3 DEF AnswersAreCurrent
<1>5. /\ R \in Seq(ResType)
      /\ (\A r \in asked : r.op # "info") => R = resolved
      /\ \A r \in asked : r.op = "info" =>
           /\ resolved = <<>> /\ Len(R) = 1 /\ R # <<>>
           /\ Head(R).gen = r.gen /\ Head(R).answer = m.answer
  <2>1. /\ asked \in SUBSET pending
        /\ \A r \in asked : r.op = "info" => m.answer \in Infos \cup {Refused, Unsupported, Disconnected}
    BY <1>4
  <2> HIDE DEF asked, m
  <2> QED BY <2>1, ResolveFacts DEF R
<1> HIDE DEF R
<1>6. /\ \A r, q \in pending : r.op = "info" /\ q.op = "info" => r = q
      /\ resolved # <<>> => Len(resolved) = 1 /\ \A r \in pending : r.op # "info"
      /\ resolved # <<>> => Head(resolved).gen <= generation
      /\ \A r \in pending : r.gen <= generation /\ r.id < requests
  BY DEF OneRefresh
<1>7. pending' \subseteq pending BY <1>1
<1>8. CASE \A r \in asked : r.op # "info"
  <2>1. resolved' = resolved BY <1>1, <1>5, <1>8
  <2>2. \A r \in pending : r.op = "info" => r \in pending' BY <1>1, <1>8
  <2>3. OneRefresh' BY <1>1, <1>2, <1>6, <1>7, <2>1 DEF OneRefresh
  <2>4. Answered' = Answered /\ Asking' = Asking BY <1>1, <1>7, <2>1, <2>2 DEF Answered, Asking
  <2>5. AnswersAreCurrent'
    <3>1. Answered' => Head(resolved').answer \in {zone, Unsupported} \/ HasPush'
      BY <1>2, <1>3, <2>1, <2>4 DEF AnswersAreCurrent
    <3> QED BY <1>1, <1>2, <1>3, <1>7, <3>1, HeardAnswers
  <2> QED BY <1>1, <1>2, <1>3, <1>5, <1>7, <2>3, <2>4, <2>5 DEF InfoFollows, BeforeRegistering
<1>9. ASSUME NEW STATE r, r \in asked, r.op = "info"
      PROVE  /\ pending' \subseteq pending /\ resolved' \in Seq(ResType)
             /\ OneRefresh' /\ InfoFollows'
  <2>1. \A q \in pending : q.op = "info" => q = r BY <1>6, <1>9
  <2>2. \A q \in pending' : q.op # "info" BY <1>1, <1>9, <2>1
  <2>3. /\ resolved = <<>> /\ Len(resolved') = 1 /\ resolved' # <<>>
        /\ Head(resolved').gen = r.gen /\ Head(resolved').answer = m.answer
    BY <1>1, <1>5, <1>9
  <2>4. OneRefresh' BY <1>1, <1>2, <1>6, <1>7, <1>9, <2>2, <2>3 DEF OneRefresh
  <2>5. Asking => Answered' BY <1>1, <2>1, <2>3 DEF Asking, Answered
  <2>6. ~Answered BY <2>3 DEF Answered
  <2>7. AnswersAreCurrent'
    <3>1. Answered' => Head(resolved').answer \in {zone, Unsupported} \/ HasPush'
      BY <1>1, <1>2, <1>4, <1>9, <2>3 DEF Answered
    <3> QED BY <1>1, <1>2, <1>3, <1>7, <3>1, HeardAnswers
  <2> QED BY <1>1, <1>2, <1>3, <1>5, <1>7, <2>4, <2>5, <2>6, <2>7 DEF InfoFollows, BeforeRegistering
<1> QED BY <1>8, <1>9

LEMMA PushedKeeps ==
    ASSUME TypeOK, OneRefresh, InfoFollows, down # <<>>, down' = Tail(down),
           Head(down).t = "push", Pushed(Head(down)),
           UNCHANGED <<sock, zone, answers, conns, up, requests>>
    PROVE  OneRefresh' /\ InfoFollows'
<1>1. /\ generation' = generation + 1 /\ info' = Head(down).info
      /\ UNCHANGED <<pending, resolved, armed, prompts, overlap>>
  BY DEF Pushed
<1>2. /\ sock # 0 /\ conns[sock].phase # "none"
      /\ LastPush(down, zone)' /\ (HasPush' \/ info' = zone)
      /\ \A i \in 1..Len(down') : \E k \in 1..Len(down) : down[k] = down'[i]
  BY <1>1, HeardFacts
<1>3. AnswersAreCurrent BY <1>2 DEF InfoFollows
<1>4. generation \in Nat /\ resolved \in Seq(ResType) /\ pending \subseteq ReqType BY TypesOf
<1>5. resolved # <<>> => Head(resolved).gen \in Nat /\ Head(resolved).gen <= generation
  <2>1. resolved # <<>> => Head(resolved) \in ResType BY <1>4
  <2> QED BY <2>1 DEF OneRefresh, ResType
<1>6. \A r \in pending : r.gen \in Nat /\ r.gen <= generation BY <1>4 DEF OneRefresh, ReqType
<1>7. OneRefresh' BY <1>1, <1>2, <1>4, <1>5, <1>6 DEF OneRefresh
<1>8. ~Answered' BY <1>1, <1>4, <1>5 DEF Answered
<1>9. AnswersAreCurrent' BY <1>1, <1>2, <1>3, <1>8, HeardAnswers
<1> QED BY <1>1, <1>2, <1>7, <1>9 DEF InfoFollows, BeforeRegistering

LEMMA MessageKeeps ==
    ASSUME TypeOK, OneRefresh, InfoFollows, SpeechInOrder, down # <<>>, down' = Tail(down),
           Head(down).t = "message", Message(Head(down)),
           UNCHANGED <<sock, zone, answers, conns, up, requests, turn>>
    PROVE  /\ armed' \in BOOLEAN /\ prompts' \in Seq(PromptType) /\ overlap' \in BOOLEAN
           /\ OneRefresh' /\ InfoFollows' /\ SpeechInOrder'
<1> DEFINE m == Head(down)
<1> DEFINE p == [flag |-> m.flag, mode |-> m.mode]
<1>1. /\ armed' = m.flag /\ prompts' = Append(prompts, p)
      /\ overlap' = (overlap \/ prompts # <<>> \/ (m.flag /\ Running))
      /\ UNCHANGED <<pending, resolved, info, generation>>
  BY DEF Message
<1>2. /\ sock # 0 /\ conns[sock].phase # "none" /\ m \in DownFrame
      /\ LastPush(down, zone)' /\ (HasPush' <=> HasPush)
      /\ \A i \in 1..Len(down') : \E k \in 1..Len(down) : down[k] = down'[i]
  BY HeardFacts
<1>3. AnswersAreCurrent /\ (HasPush \/ info \in {zone, Unsupported} \/ Asking \/ Answered)
  BY <1>2 DEF InfoFollows
<1>4. m.flag \in BOOLEAN /\ p \in PromptType /\ p.flag = m.flag
  BY <1>2, DownFrameFacts DEF PromptType
<1>5. prompts \in Seq(PromptType) /\ overlap \in BOOLEAN BY TypesOf
<1> HIDE DEF p
<1>6. armed' \in BOOLEAN /\ prompts' \in Seq(PromptType) /\ overlap' \in BOOLEAN BY <1>1, <1>4, <1>5
<1>7. OneRefresh' BY <1>1, <1>2 DEF OneRefresh
<1>8. Asking' = Asking /\ Answered' = Answered BY <1>1 DEF Asking, Answered
<1>9. InfoFollows'
  <2>1. Answered' => Head(resolved').answer \in {zone, Unsupported} \/ HasPush'
    BY <1>1, <1>2, <1>3, <1>8 DEF AnswersAreCurrent
  <2>2. AnswersAreCurrent' BY <1>1, <1>2, <1>3, <2>1, HeardAnswers
  <2> QED BY <1>1, <1>2, <1>3, <1>8, <2>2 DEF InfoFollows, BeforeRegistering
<1>10. SpeechInOrder'
  <2>0. ASSUME ~overlap' => /\ prompts' = <<p>> /\ (armed' <=> p.flag)
                            /\ Running => ~armed' /\ (turn.spoken <=> turn.asked)
        PROVE  SpeechInOrder'
    <3>1. prompts' = <<p>> => Len(prompts') <= 1 /\ prompts' # <<>> /\ Head(prompts') = p OBVIOUS
    <3> QED BY <2>0, <3>1 DEF SpeechInOrder, Running
  <2> SUFFICES ASSUME ~overlap'
               PROVE  /\ prompts' = <<p>> /\ (armed' <=> p.flag)
                      /\ Running => ~armed' /\ (turn.spoken <=> turn.asked)
    BY <2>0
  <2>1. ~overlap /\ prompts = <<>> /\ ~(m.flag /\ Running) BY <1>1
  <2>2. prompts' = <<p>> BY <1>1, <2>1
  <2>3. Running => (turn.spoken <=> turn.asked) BY <2>1 DEF SpeechInOrder
  <2> QED BY <1>1, <1>4, <2>1, <2>2, <2>3
<1> QED BY <1>6, <1>7, <1>9, <1>10

LEMMA ReceiveKeeps == ASSUME IInv, Receive PROVE IInv'
<1>1. /\ down # <<>> /\ down' = Tail(down)
      /\ UNCHANGED <<file, sock, opened, pendingIsNew, turn, fresh, conns, entry, zone, answers,
                     created, up, starts, misapplied, lost, requests, events>>
  BY DEF Receive, srv
<1>2. TypeOK /\ Wires /\ OneRefresh /\ ClaimsCounted /\ SpeechInOrder /\ BusyFollows /\ InfoFollows
  BY Parts
<1>3. down' \in Seq(DownFrame) /\ Head(down) \in DownFrame /\ sock # 0 BY <1>1, <1>2, HeardFacts
<1>4. Wires' /\ ClaimsCounted' /\ BusyFollows' BY <1>1, <1>2, WiresKept, ClaimsKept, BusyKept
<1>5. CASE Head(down).t = "response" /\ Response(Head(down))
  <2>1. UNCHANGED <<info, generation, armed, prompts, overlap>> BY <1>5 DEF Response
  <2>2. pending' \subseteq pending /\ resolved' \in Seq(ResType) /\ OneRefresh' /\ InfoFollows'
    BY <1>1, <1>2, <1>5, ResponseKeeps
  <2>3. SpeechInOrder' BY <1>1, <1>2, <2>1, SpeechKept
  <2>4. TypeOK' BY <1>1, <1>2, <1>3, <2>1, <2>2, TypesOf, TypesAre
  <2> QED BY <1>4, <2>2, <2>3, <2>4, PartsPrimed
<1>6. CASE Head(down).t = "push" /\ Pushed(Head(down))
  <2>1. /\ generation' = generation + 1 /\ info' = Head(down).info
        /\ UNCHANGED <<pending, resolved, armed, prompts, overlap>>
    BY <1>6 DEF Pushed
  <2>2. OneRefresh' /\ InfoFollows' BY <1>1, <1>2, <1>6, PushedKeeps
  <2>3. SpeechInOrder' BY <1>1, <1>2, <2>1, SpeechKept
  <2>4. info' \in Infos BY <1>3, <1>6, <2>1, DownFrameFacts
  <2>5. generation' \in Nat BY <1>2, <2>1, TypesOf
  <2>6. TypeOK' BY <1>1, <1>2, <1>3, <2>1, <2>4, <2>5, TypesOf, TypesAre
  <2> QED BY <1>4, <2>2, <2>3, <2>6, PartsPrimed
<1>7. CASE Head(down).t = "message" /\ Message(Head(down))
  <2>1. UNCHANGED <<pending, resolved, info, generation>> BY <1>7 DEF Message
  <2>2. /\ armed' \in BOOLEAN /\ prompts' \in Seq(PromptType) /\ overlap' \in BOOLEAN
        /\ OneRefresh' /\ InfoFollows' /\ SpeechInOrder'
    BY <1>1, <1>2, <1>7, MessageKeeps
  <2>3. TypeOK' BY <1>1, <1>2, <1>3, <2>1, <2>2, TypesOf, TypesAre
  <2> QED BY <1>4, <2>2, <2>3, PartsPrimed
<1> QED BY <1>5, <1>6, <1>7 DEF Receive

--------------------
(* What the server says. *)

LEMMA DownJoined ==
    ASSUME TypeOK, NEW m \in DownFrame, down' = down \o <<m>>
    PROVE  /\ m.t # "push" => (HasPush' <=> HasPush) /\ (LastPush(down, zone) => LastPush(down', zone))
           /\ m.t = "push" => HasPush' /\ LastPush(down', m.info)
           /\ \A i \in 1..Len(down') : down'[i] = m \/ \E k \in 1..Len(down) : down[k] = down'[i]
<1> DEFINE q == down
<1> DEFINE d == down'
<1> DEFINE y == m.info
<1> DEFINE z == zone
<1>1. q \in Seq(DownFrame) /\ d = q \o <<m>> /\ m.info = y BY TypesOf
<1>2. /\ d \in Seq(DownFrame) /\ d # <<>> /\ Len(d) = Len(q) + 1 /\ Len(q) \in Nat
      /\ \A i \in 1..Len(q) : d[i] = q[i]
      /\ d[Len(q) + 1] = m
  <2> HIDE DEF q, d
  <2> QED BY <1>1, Joined
<1>3. /\ m.t = "push" => LastPush(d, y) /\ PushIn(d)
      /\ m.t # "push" => (PushIn(d) <=> PushIn(q)) /\ (LastPush(q, z) => LastPush(d, z))
  <2> HIDE DEF q, d, y, z
  <2> QED BY <1>1, PushJoined
<1>4. \A i \in 1..Len(d) : d[i] = m \/ \E k \in 1..Len(q) : q[k] = d[i]
  <2> HIDE DEF q, d
  <2> SUFFICES ASSUME NEW i \in 1..Len(d) PROVE d[i] = m \/ \E k \in 1..Len(q) : q[k] = d[i] OBVIOUS
  <2>1. i \in 1..Len(q) \/ i = Len(q) + 1 BY <1>2
  <2> QED BY <1>2, <2>1
<1>5. HasPush' <=> PushIn(d) BY DEF HasPush, PushIn
<1> QED BY <1>3, <1>4, <1>5 DEF HasPush

\* A frame that is no push; a response brings an answer that was on its way.
LEMMA SaidKeeps ==
    ASSUME TypeOK, InfoFollows, NEW m \in DownFrame, down' = down \o <<m>>, m.t # "push",
           conns[sock].phase # "none",
           m.t = "response" =>
             \A r \in pending : r.op = "info" /\ r.id = m.id =>
               m.answer \in Infos /\ (r.gen = generation => m.answer = zone \/ HasPush),
           UNCHANGED <<sock, zone, info, pending, resolved, generation, conns>>,
           answers' \subseteq answers
    PROVE  InfoFollows'
<1> SUFFICES ASSUME sock # 0
             PROVE  /\ LastPush(down, zone)' /\ AnswersAreCurrent' /\ BeforeRegistering'
                    /\ HasPush' \/ info' \in {zone', Unsupported} \/ Asking' \/ Answered'
  BY DEF InfoFollows
<1>1. /\ LastPush(down, zone) /\ AnswersAreCurrent
      /\ HasPush \/ info \in {zone, Unsupported} \/ Asking \/ Answered
  BY DEF InfoFollows
<1>2. /\ HasPush' <=> HasPush
      /\ LastPush(down', zone)
      /\ \A i \in 1..Len(down') : down'[i] = m \/ \E k \in 1..Len(down) : down[k] = down'[i]
  BY <1>1, DownJoined
<1>3. (HasPush' <=> HasPush) /\ LastPush(down, zone)' BY <1>2 DEF LastPush
<1>4. Asking' = Asking /\ Answered' = Answered BY DEF Asking, Answered
<1>5. AnswersAreCurrent'
  <2>1. \A r \in pending : r.op = "info" => \A i \in 1..Len(down') :
          down'[i].t = "response" /\ down'[i].id = r.id =>
            down'[i].answer \in Infos /\ (r.gen = generation => down'[i].answer = zone \/ HasPush)
    BY <1>1, <1>2 DEF AnswersAreCurrent
  <2> QED BY <1>1, <1>3, <1>4, <2>1 DEF AnswersAreCurrent
<1> QED BY <1>1, <1>3, <1>4, <1>5 DEF BeforeRegistering

LEMMA SaidOneRefresh ==
    ASSUME OneRefresh, sock = 0 => down' = down, UNCHANGED <<sock, pending, resolved, generation, requests, up>>
    PROVE  OneRefresh'
BY DEF OneRefresh

LEMMA AnswerSentKeeps == ASSUME IInv, NEW STATE a, a \in answers, AnswerSent(a) PROVE IInv'
<1> DEFINE m == [t |-> "response", id |-> a.id, answer |-> a.answer]
<1>1. /\ answers' = answers \ {a} /\ down' = down \o Put(a.sock, m)
      /\ UNCHANGED <<file, sock, opened, pending, resolved, info, generation, pendingIsNew, armed,
                     prompts, turn, fresh, conns, entry, zone, created, up, starts, misapplied, overlap,
                     lost, requests, events>>
  BY DEF AnswerSent, ext, history
<1>2. TypeOK /\ Wires /\ OneRefresh /\ ClaimsCounted /\ SpeechInOrder /\ BusyFollows /\ InfoFollows
  BY Parts
<1>3. a.sock \in Sockets /\ a.id \in Nat /\ a.answer \in Infos \cup {Refused, None}
  BY <1>2, TypesOf DEF AnsType
<1>4. m \in DownFrame /\ m.t = "response" /\ m.id = a.id /\ m.answer = a.answer BY <1>3, DownFrames
<1> HIDE DEF m
<1>5. /\ down' \in Seq(DownFrame)
      /\ a.sock = sock /\ conns[a.sock].open => down' = down \o <<m>>
      /\ ~(a.sock = sock /\ conns[a.sock].open) => down' = down
  <2> DEFINE s == a.sock
  <2>1. down' = down \o Put(s, m) /\ s \in Sockets BY <1>1, <1>3
  <2> HIDE DEF s
  <2>2. /\ down' \in Seq(DownFrame)
        /\ s = sock /\ conns[s].open => down' = down \o <<m>>
        /\ ~(s = sock /\ conns[s].open) => down' = down
    BY <1>2, <1>4, <2>1, PutFacts
  <2> QED BY <2>2 DEF s
<1>6. Wires' /\ ClaimsCounted' /\ BusyFollows' /\ SpeechInOrder'
  BY <1>1, <1>2, WiresKept, ClaimsKept, BusyKept, SpeechKept
<1>7. answers' \subseteq AnsType BY <1>1, <1>2, TypesOf
<1>8. TypeOK' BY <1>1, <1>2, <1>5, <1>7, TypesOf, TypesAre
<1>9. sock = 0 => down' = down BY <1>2, <1>3, <1>5, SocketFacts
<1>10. OneRefresh' BY <1>1, <1>2, <1>9, SaidOneRefresh
<1>11. InfoFollows'
  <2>1. CASE a.sock = sock /\ conns[a.sock].open
    <3>1. sock # 0 BY <1>2, <1>3, <2>1, SocketFacts
    <3>2. conns[sock].phase # "none" BY <1>2, <2>1, <3>1 DEF InfoFollows, BeforeRegistering
    <3>3. \A r \in pending : r.op = "info" /\ r.id = m.id =>
            m.answer \in Infos /\ (r.gen = generation => m.answer = zone \/ HasPush)
      BY <1>2, <1>4, <2>1, <3>1 DEF InfoFollows, AnswersAreCurrent
    <3>4. answers' \subseteq answers /\ down' = down \o <<m>> BY <1>1, <1>5, <2>1
    <3> QED BY <1>1, <1>2, <1>4, <3>2, <3>3, <3>4, SaidKeeps
  <2>2. CASE ~(a.sock = sock /\ conns[a.sock].open)
    <3>1. answers' \subseteq answers /\ down' = down BY <1>1, <1>5, <2>2
    <3> QED BY <1>1, <1>2, <3>1, InfoSame
  <2> QED BY <2>1, <2>2
<1> QED BY <1>6, <1>8, <1>10, <1>11, PartsPrimed

LEMMA RelaysKeeps == ASSUME IInv, NEW f \in Files, NEW flag \in BOOLEAN, Relays(f, flag) PROVE IInv'
<1> DEFINE s == entry[f].sock
<1> DEFINE m == [t |-> "message", flag |-> flag, mode |-> IF entry[f].busy THEN Steer ELSE None]
<1>1. /\ Happens /\ IsBridge(f) /\ down' = down \o Put(s, m)
      /\ UNCHANGED <<file, sock, opened, pending, resolved, info, generation, pendingIsNew, armed,
                     prompts, turn, fresh, conns, entry, zone, answers, created, up, starts, misapplied,
                     overlap, lost, requests>>
  BY DEF Relays, ext, srv, history
<1>2. TypeOK /\ Wires /\ OneRefresh /\ ClaimsCounted /\ SpeechInOrder /\ BusyFollows /\ InfoFollows
  BY Parts
<1>3. s \in Sockets /\ conns[s].phase = "done"
  <2>1. entry[f] \in Bridge BY <1>1, <1>2, TypesOf DEF IsBridge, EntryType
  <2> QED BY <1>1, <1>2, <2>1 DEF Bridge, Wires, EntriesRegistered
<1>4. m \in DownFrame /\ m.t = "message" BY DownFrames
<1> HIDE DEF m
<1>5. /\ down' \in Seq(DownFrame)
      /\ s = sock /\ conns[s].open => down' = down \o <<m>>
      /\ ~(s = sock /\ conns[s].open) => down' = down
  <2>1. down' = down \o Put(s, m) BY <1>1
  <2> HIDE DEF s
  <2> QED BY <1>2, <1>3, <1>4, <2>1, PutFacts
<1> HIDE DEF s
<1>6. Wires' /\ ClaimsCounted' /\ BusyFollows' /\ SpeechInOrder'
  BY <1>1, <1>2, WiresKept, ClaimsKept, BusyKept, SpeechKept
<1>7. events' \in 0..MaxEvents BY <1>1, <1>2, HappensType
<1>8. TypeOK' BY <1>1, <1>2, <1>5, <1>7, TypesOf, TypesAre, ZenonT(40)
<1>9. sock = 0 => down' = down BY <1>2, <1>3, <1>5, SocketFacts
<1>10. OneRefresh' BY <1>1, <1>2, <1>9, SaidOneRefresh
<1>11. InfoFollows'
  <2>1. CASE s = sock /\ conns[s].open
    <3>1. conns[sock].phase # "none" /\ down' = down \o <<m>> BY <1>3, <1>5, <2>1
    <3> QED BY <1>1, <1>2, <1>4, <3>1, SaidKeeps
  <2>2. CASE ~(s = sock /\ conns[s].open)
    <3>1. down' = down BY <1>5, <2>2
    <3> QED BY <1>1, <1>2, <3>1, InfoSame
  <2> QED BY <2>1, <2>2
<1> QED BY <1>6, <1>8, <1>10, <1>11, PartsPrimed

\* The zone moves, and every bridge that registered is told.
LEMMA ZoneMoves ==
    ASSUME TypeOK, Wires, InfoFollows, NEW z \in Infos, zone' = z, down' = down \o Push(z),
           UNCHANGED <<sock, info, pending, resolved, generation, conns>>,
           \A a \in answers' : a \in answers \/
             (a.sock = sock => conns[sock].phase # "none" /\
                \A r \in pending : r.op = "info" /\ r.id = a.id => a.answer \in Infos)
    PROVE  /\ down' \in Seq(DownFrame) /\ InfoFollows'
           /\ sock = 0 => down' = down
<1> DEFINE m == [t |-> "push", info |-> z]
<1>1. /\ down' \in Seq(DownFrame)
      /\ sock # 0 /\ conns[sock].open /\ conns[sock].file # None => down' = down \o <<m>>
      /\ ~(sock # 0 /\ conns[sock].open /\ conns[sock].file # None) => down' = down
  BY PushFacts
<1>2. m \in DownFrame /\ m.t = "push" /\ m.info = z BY DownFrames
<1> HIDE DEF m
<1>3. CASE sock = 0 BY <1>1, <1>3, Unplugged
<1>4. CASE sock # 0 /\ conns[sock].file # None
  <2>1. conns[sock].open /\ conns[sock].phase # "none"
    BY <1>4, SocketFacts DEF Wires, Current, RegistersFirst
  <2>2. /\ HasPush' /\ LastPush(down', z)
        /\ \A i \in 1..Len(down') : down'[i] = m \/ \E k \in 1..Len(down) : down[k] = down'[i]
    <3>1. down' = down \o <<m>> BY <1>1, <1>4, <2>1
    <3> QED BY <1>2, <3>1, DownJoined
  <2>3. HasPush' /\ LastPush(down, zone)' BY <2>2 DEF LastPush
  <2>4. AnswersAreCurrent BY <1>4 DEF InfoFollows
  <2>5. AnswersAreCurrent'
    <3>1. \A r \in pending : r.op = "info" =>
            \A i \in 1..Len(down') : down'[i].t = "response" /\ down'[i].id = r.id => down'[i].answer \in Infos
      <4> SUFFICES ASSUME NEW r \in pending, r.op = "info", NEW i \in 1..Len(down'),
                          down'[i].t = "response", down'[i].id = r.id
                   PROVE  down'[i].answer \in Infos
        OBVIOUS
      <4>1. PICK k \in 1..Len(down) : down[k] = down'[i] BY <1>2, <2>2
      <4>2. /\ \A j \in 1..Len(down) : down[j].t = "response" /\ down[j].id = r.id =>
                 down[j].answer \in Infos
        BY <2>4 DEF AnswersAreCurrent
      <4> QED BY <4>1, <4>2
    <3>2. \A r \in pending : r.op = "info" =>
            \A a \in answers' : a.sock = sock /\ a.id = r.id => a.answer \in Infos
      BY <2>4 DEF AnswersAreCurrent
    <3> QED BY <2>3, <3>1, <3>2 DEF AnswersAreCurrent
  <2> QED BY <1>1, <1>4, <2>1, <2>3, <2>5 DEF InfoFollows, BeforeRegistering
<1>5. CASE sock # 0 /\ conns[sock].file = None
  <2>1. down' = down /\ conns[sock].phase = "none"
    BY <1>1, <1>5, SocketFacts DEF Wires, RegistersFirst
  <2>2. /\ AnswersAreCurrent /\ down = <<>> /\ (\A a \in answers : a.sock # sock)
        /\ resolved # <<>> => Head(resolved).answer = Unsupported
        /\ info = Unsupported \/ Asking \/ Answered
    BY <1>5, <2>1 DEF InfoFollows, BeforeRegistering
  <2>3. (\A a \in answers' : a.sock # sock) /\ down' = <<>> BY <2>1, <2>2
  <2>4. Asking' = Asking /\ Answered' = Answered BY DEF Asking, Answered
  <2>5. Len(down') = 0 BY <2>3
  <2>6. LastPush(down, zone)' BY <2>5 DEF LastPush
  <2>7. AnswersAreCurrent' BY <2>2, <2>3, <2>4, <2>5 DEF AnswersAreCurrent, Answered
  <2>8. BeforeRegistering' BY <2>2, <2>3, <2>4 DEF BeforeRegistering
  <2> QED BY <1>1, <1>5, <2>2, <2>4, <2>6, <2>7, <2>8 DEF InfoFollows
<1> QED BY <1>3, <1>4, <1>5

LEMMA ZoneChangesKeeps == ASSUME IInv, NEW z \in Infos, ZoneChanges(z) PROVE IInv'
<1>1. /\ Happens /\ zone' = z /\ down' = down \o Push(z)
      /\ UNCHANGED <<file, sock, opened, pending, resolved, info, generation, pendingIsNew, armed,
                     prompts, turn, fresh, conns, entry, answers, created, up, starts, misapplied,
                     overlap, lost, requests>>
  BY DEF ZoneChanges, ext, history
<1>2. TypeOK /\ Wires /\ OneRefresh /\ ClaimsCounted /\ SpeechInOrder /\ BusyFollows /\ InfoFollows
  BY Parts
<1>3. down' \in Seq(DownFrame) /\ InfoFollows' /\ (sock = 0 => down' = down)
  BY <1>1, <1>2, ZoneMoves
<1>4. Wires' /\ ClaimsCounted' /\ BusyFollows' /\ SpeechInOrder'
  BY <1>1, <1>2, WiresKept, ClaimsKept, BusyKept, SpeechKept
<1>5. events' \in 0..MaxEvents BY <1>1, <1>2, HappensType
<1>6. TypeOK' BY <1>1, <1>2, <1>3, <1>5, TypesOf, TypesAre, SMTT(30)
<1>7. OneRefresh' BY <1>1, <1>2, <1>3, SaidOneRefresh
<1> QED BY <1>3, <1>4, <1>6, <1>7, PartsPrimed

--------------------
(* Sessions and sockets. *)

LEMMA SessionStartsKeeps == ASSUME IInv, NEW f \in Files, SessionStarts(f) PROVE IInv'
<1>1. /\ Happens /\ resolved = <<>> /\ file = None /\ file' = f /\ pendingIsNew' = fresh[f]
      /\ starts' = IF fresh[f] THEN [starts EXCEPT ![f] = @ + 1] ELSE starts
      /\ UNCHANGED <<sock, opened, pending, resolved, info, generation, armed, prompts, turn, fresh,
                     conns, entry, zone, answers, created, up, down, misapplied, overlap, lost, requests>>
  BY DEF SessionStarts, srv, Settled
<1>2. TypeOK /\ Wires /\ OneRefresh /\ ClaimsCounted /\ SpeechInOrder /\ BusyFollows /\ InfoFollows
  BY Parts
<1>3. sock = 0 /\ sock' = 0 /\ fresh[f] \in BOOLEAN /\ f # None
  BY <1>1, <1>2, TypesOf, BridgeAssumption
<1>4. starts' \in [Files -> Nat] BY <1>1, <1>2, TypesOf
<1>5. events' \in 0..MaxEvents BY <1>1, <1>2, HappensType
<1>6. TypeOK' BY <1>1, <1>2, <1>3, <1>4, <1>5, TypesOf, TypesAre
<1>7. Current' /\ BusyFollows' /\ InfoFollows' BY <1>3, Unplugged
<1>8. Wires'
  <2>1. Unopened' BY <1>1, <1>2 DEF Wires, Unopened
  <2>2. \A s \in Sockets : RegistersFirst(s)' BY <1>1, <1>2 DEF Wires, RegistersFirst
  <2>3. EntriesRegistered' BY <1>1, <1>2 DEF Wires, EntriesRegistered, IsBridge
  <2> QED BY <1>7, <2>1, <2>2, <2>3 DEF Wires
<1>9. OneRefresh' /\ SpeechInOrder' BY <1>1, <1>2, OneRefreshKept, SpeechKept
<1>10. ClaimsCounted'
  <2> SUFFICES ASSUME NEW g \in Files PROVE created'[g] + Cardinality(Claims(g)') <= starts'[g]
    BY DEF ClaimsCounted
  <2>1. created'[g] = created[g] /\ created[g] \in Nat /\ starts[g] \in Nat BY <1>1, <1>2, TypesOf
  <2>2. created[g] + Cardinality(Claims(g)) <= starts[g] BY <1>2 DEF ClaimsCounted
  <2>3. \A s \in Sockets : Carries(s, g)' <=> Carries(s, g) BY <1>1 DEF Carries
  <2>4. CASE g = f /\ fresh[f]
    <3>1. Claims(g)' \subseteq Claims(g) \cup {0} BY <2>3 DEF Claims
    <3>2. /\ IsFiniteSet(Claims(g)) /\ IsFiniteSet(Claims(g) \cup {0})
          /\ Cardinality(Claims(g) \cup {0}) <= Cardinality(Claims(g)) + 1
          /\ Cardinality(Claims(g)) \in Nat /\ Cardinality(Claims(g) \cup {0}) \in Nat
      <4>1. IsFiniteSet(Claims(g)) BY ClaimsFinite
      <4>2. /\ IsFiniteSet(Claims(g) \cup {0})
            /\ Cardinality(Claims(g) \cup {0}) \in {Cardinality(Claims(g)), Cardinality(Claims(g)) + 1}
        BY <4>1, FS_AddElement
      <4>3. Cardinality(Claims(g)) \in Nat BY <4>1, FS_CardinalityType
      <4> QED BY <4>1, <4>2, <4>3
    <3>3. Cardinality(Claims(g)') \in Nat /\ Cardinality(Claims(g)') <= Cardinality(Claims(g) \cup {0})
      BY <3>1, <3>2, FS_Subset, FS_CardinalityType
    <3>4. starts'[g] = starts[g] + 1 BY <1>1, <1>2, <2>4, TypesOf
    <3> QED BY <2>1, <2>2, <3>2, <3>3, <3>4
  <2>5. CASE ~(g = f /\ fresh[f])
    <3>1. Claims(g)' \subseteq Claims(g) BY <1>1, <2>3, <2>5 DEF Claims
    <3>2. /\ Cardinality(Claims(g)') \in Nat /\ Cardinality(Claims(g)) \in Nat
          /\ Cardinality(Claims(g)') <= Cardinality(Claims(g))
      BY <3>1, ClaimsFinite, FS_Subset, FS_CardinalityType
    <3>3. starts'[g] = starts[g] BY <1>1, <1>2, <2>5, TypesOf
    <3> QED BY <2>1, <2>2, <3>2, <3>3
  <2> QED BY <2>4, <2>5
<1> QED BY <1>6, <1>7, <1>8, <1>9, <1>10, PartsPrimed

LEMMA SocketLost ==
    ASSUME TypeOK, OneRefresh, LosesSocket, UNCHANGED <<generation, requests>>
    PROVE  /\ sock' = 0 /\ pending' = {} /\ down' = <<>> /\ resolved' \in Seq(ResType)
           /\ OneRefresh' /\ Current' /\ BusyFollows' /\ InfoFollows'
<1> DEFINE R == Resolve(pending, Disconnected)
<1>1. sock' = 0 /\ pending' = {} /\ down' = <<>> /\ resolved' = R BY DEF LosesSocket
<1>2. /\ R \in Seq(ResType)
      /\ (\A r \in pending : r.op # "info") => R = resolved
      /\ \A r \in pending : r.op = "info" => Len(R) = 1 /\ R # <<>> /\ Head(R).gen = r.gen
  <2> DEFINE reqs == pending
  <2> DEFINE a == Disconnected
  <2>1. reqs \in SUBSET pending /\ a \in Infos \cup {Refused, Unsupported, Disconnected} OBVIOUS
  <2> HIDE DEF reqs, a
  <2>2. /\ Resolve(reqs, a) \in Seq(ResType)
        /\ (\A r \in reqs : r.op # "info") => Resolve(reqs, a) = resolved
        /\ \A r \in reqs : r.op = "info" =>
             Len(Resolve(reqs, a)) = 1 /\ Resolve(reqs, a) # <<>> /\ Head(Resolve(reqs, a)).gen = r.gen
    BY <2>1, ResolveFacts
  <2> QED BY <2>2 DEF reqs, a
<1> HIDE DEF R
<1>3. OneRefresh' BY <1>1, <1>2 DEF OneRefresh
<1> QED BY <1>1, <1>2, <1>3, Unplugged

\* The close is the last frame of the socket, behind some of what was sent.
LEMMA ClosedSent ==
    ASSUME TypeOK, Wires, ClaimsCounted, sock # 0, sock' = 0, up'[sock] # <<>>,
           \A s \in Sockets \ {sock} : up'[s] = up[s],
           Head(up'[sock]).t = "closed" \/ (up[sock] # <<>> /\ Head(up'[sock]) = Head(up[sock])),
           \A i \in 2..Len(up'[sock]) :
             up'[sock][i].t = "closed" \/ (i \in 2..Len(up[sock]) /\ up'[sock][i] = up[sock][i]),
           \A i \in 1..Len(up'[sock]) : up'[sock][i].t = "closed" => i = Len(up'[sock]),
           file' \in {file, None},
           UNCHANGED <<conns, opened, entry, answers, created, starts, pendingIsNew>>
    PROVE  Wires' /\ ClaimsCounted'
<1>1. sock \in Sockets /\ sock = opened BY SocketFacts
<1>2. Unopened'
  <2>1. ~(sock > opened) BY SocketFacts
  <2> QED BY <2>1 DEF Wires, Unopened
<1>3. ASSUME NEW s \in Sockets, s = sock PROVE RegistersFirst(s)'
  <2>1. RegistersFirst(s) BY DEF Wires
  <2> DEFINE q == up[s]
  <2> DEFINE r == up'[s]
  <2>2. /\ r # <<>> /\ (Head(r).t = "closed" \/ (q # <<>> /\ Head(r) = Head(q)))
        /\ \A i \in 2..Len(r) : r[i].t = "closed" \/ (i \in 2..Len(q) /\ r[i] = q[i])
        /\ \A i \in 1..Len(r) : r[i].t = "closed" => i = Len(r)
    BY <1>3
  <2>3. \A i \in 2..Len(r) : r[i].t # "register"
    <3>1. \A i \in 2..Len(q) : q[i].t # "register" BY <2>1 DEF RegistersFirst
    <3> HIDE DEF q, r
    <3> QED BY <2>2, <3>1
  <2>4. IF conns[s].phase = "none" THEN Head(r).t \in {"register", "closed"}
        ELSE Head(r).t # "register"
    BY <2>1, <2>2 DEF RegistersFirst
  <2>5. (conns[s].file = None <=> conns[s].phase = "none") /\ conns' = conns
    BY <2>1 DEF RegistersFirst
  <2> QED BY <2>2, <2>3, <2>4, <2>5 DEF RegistersFirst
<1>4. ASSUME NEW s \in Sockets PROVE RegistersFirst(s)'
  <2>1. CASE s # sock BY <2>1 DEF Wires, RegistersFirst
  <2> QED BY <1>3, <2>1
<1>5. Current' BY Unplugged
<1>6. EntriesRegistered' BY DEF Wires, EntriesRegistered, IsBridge
<1>7. \A f \in Files : Claims(f)' \subseteq Claims(f)
  <2> SUFFICES ASSUME NEW f \in Files PROVE Claims(f)' \subseteq Claims(f) OBVIOUS
  <2>1. ASSUME NEW s \in Sockets, Carries(s, f)' PROVE Carries(s, f)
    <3>1. CASE s = sock BY <2>1, <3>1 DEF Carries
    <3>2. CASE s # sock BY <2>1, <3>2 DEF Carries
    <3> QED BY <3>1, <3>2
  <2>2. file' = f /\ pendingIsNew' => file = f /\ pendingIsNew BY BridgeAssumption
  <2> QED BY <2>1, <2>2 DEF Claims
<1> QED BY <1>2, <1>4, <1>5, <1>6, <1>7, FewerClaims DEF Wires

LEMMA SessionShutsDownKeeps == ASSUME IInv, SessionShutsDown PROVE IInv'
<1>1. /\ Happens /\ resolved = <<>> /\ file # None /\ turn = None /\ file' = None /\ prompts' = <<>>
      /\ overlap' = (overlap \/ prompts # <<>>)
      /\ UNCHANGED <<opened, info, generation, pendingIsNew, armed, turn, fresh, conns, entry, zone,
                     answers, created, starts, misapplied, lost, requests>>
  BY DEF SessionShutsDown, srv, Settled, Running
<1>2. TypeOK /\ Wires /\ OneRefresh /\ ClaimsCounted /\ SpeechInOrder /\ BusyFollows /\ InfoFollows
  BY Parts
<1>3. /\ events' \in 0..MaxEvents /\ prompts' \in Seq(PromptType) /\ overlap' \in BOOLEAN
  BY <1>1, <1>2, HappensType, TypesOf
<1>4. SpeechInOrder'
  <2>1. ~overlap' => ~armed BY <1>1, <1>2 DEF SpeechInOrder
  <2>2. Len(prompts') <= 1 BY <1>1
  <2> QED BY <1>1, <2>1, <2>2 DEF SpeechInOrder, Running
<1>5. CASE sock = 0
  <2>1. UNCHANGED <<sock, pending, resolved, down, up>> BY <1>5 DEF SessionShutsDown
  <2>2. Current' /\ BusyFollows' /\ InfoFollows' BY <1>5, <2>1, Unplugged
  <2>3. Wires'
    <3>1. Unopened' /\ (\A s \in Sockets : RegistersFirst(s)') /\ EntriesRegistered'
      BY <1>1, <1>2, <2>1 DEF Wires, Unopened, RegistersFirst, EntriesRegistered, IsBridge
    <3> QED BY <2>2, <3>1 DEF Wires
  <2>4. OneRefresh' BY <1>1, <1>2, <2>1, OneRefreshKept
  <2>5. ClaimsCounted'
    <3>1. \A f \in Files : Claims(f)' \subseteq Claims(f)
      BY <1>1, <2>1, BridgeAssumption DEF Claims, Carries
    <3> QED BY <1>1, <1>2, <3>1, FewerClaims
  <2>6. TypeOK' BY <1>1, <1>2, <1>3, <1>5, <2>1, TypesOf, TypesAre
  <2> QED BY <1>4, <2>2, <2>3, <2>4, <2>5, <2>6, PartsPrimed
<1>6. CASE sock # 0
  <2> DEFINE e == [t |-> "closed"]
  <2>1. LosesSocket /\ up' = Sent(<<e>>) BY <1>6 DEF SessionShutsDown
  <2>2. e \in UpFrame /\ e.t = "closed" BY UpFrames
  <2> HIDE DEF e
  <2>3. /\ sock' = 0 /\ pending' = {} /\ down' = <<>> /\ resolved' \in Seq(ResType)
        /\ OneRefresh' /\ Current' /\ BusyFollows' /\ InfoFollows'
    BY <1>1, <1>2, <2>1, SocketLost
  <2> DEFINE q == up[sock]
  <2> DEFINE r == up'[sock]
  <2>4. /\ up' \in [Sockets -> Seq(UpFrame)] /\ q \in Seq(UpFrame) /\ r = q \o <<e>>
        /\ \A s \in Sockets \ {sock} : up'[s] = up[s]
    BY <1>2, <1>6, <2>1, <2>2, SentFacts
  <2>5. /\ r # <<>> /\ (Head(r).t = "closed" \/ (q # <<>> /\ Head(r) = Head(q)))
        /\ \A i \in 2..Len(r) : r[i].t = "closed" \/ (i \in 2..Len(q) /\ r[i] = q[i])
        /\ \A i \in 1..Len(r) : r[i].t = "closed" => i = Len(r)
    <3>0. \A k \in 1..Len(q) : q[k].t # "closed" BY <1>2, <1>6 DEF Wires, Current
    <3> HIDE DEF q, r
    <3>1. /\ r # <<>> /\ Len(r) = Len(q) + 1 /\ Len(q) \in Nat
          /\ \A i \in 1..Len(q) : r[i] = q[i]
          /\ r[Len(q) + 1] = e
          /\ Head(r) = IF q = <<>> THEN e ELSE Head(q)
      BY <2>2, <2>4, Joined
    <3>2. ASSUME NEW i \in 2..Len(r) PROVE r[i].t = "closed" \/ (i \in 2..Len(q) /\ r[i] = q[i])
      <4>1. i \in 2..Len(q) \/ i = Len(q) + 1 BY <3>1
      <4>2. i \in 2..Len(q) => i \in 1..Len(q) BY <3>1
      <4> QED BY <2>2, <3>1, <4>1, <4>2
    <3>3. ASSUME NEW i \in 1..Len(r) PROVE r[i].t = "closed" => i = Len(r)
      <4>1. i \in 1..Len(q) \/ i = Len(q) + 1 BY <3>1
      <4> QED BY <3>0, <3>1, <4>1
    <3> QED BY <2>2, <3>1, <3>2, <3>3
  <2>6. Wires' /\ ClaimsCounted' BY <1>1, <1>2, <1>6, <2>3, <2>4, <2>5, ClosedSent
  <2> HIDE DEF q, r
  <2>7. down' \in Seq(DownFrame) /\ pending' \subseteq ReqType BY <2>3
  <2>8. TypeOK' BY <1>1, <1>2, <1>3, <2>3, <2>4, <2>7, TypesOf, TypesAre
  <2> QED BY <1>4, <2>3, <2>6, <2>8, PartsPrimed
<1> QED BY <1>5, <1>6

LEMMA DropsKeeps == ASSUME IInv, Drops PROVE IInv'
<1> DEFINE e == [t |-> "closed"]
<1> DEFINE q == up[sock]
<1> DEFINE r == up'[sock]
<1>1. /\ Happens /\ resolved = <<>> /\ sock # 0 /\ LosesSocket
      /\ UNCHANGED <<file, opened, info, generation, pendingIsNew, armed, prompts, turn, fresh,
                     conns, entry, zone, answers, created, starts, misapplied, overlap, lost, requests>>
  BY DEF Drops, srv, history, Settled
<1>2. TypeOK /\ Wires /\ OneRefresh /\ ClaimsCounted /\ SpeechInOrder /\ BusyFollows /\ InfoFollows
  BY Parts
<1>3. PICK n \in 0..Len(q) : up' = [up EXCEPT ![sock] = Append(SubSeq(q, 1, n), e)] BY DEF Drops
<1>4. e \in UpFrame /\ e.t = "closed" BY UpFrames
<1>5. up \in [Sockets -> Seq(UpFrame)] /\ sock \in Sockets /\ q \in Seq(UpFrame)
  BY <1>1, <1>2, TypesOf, SocketFacts
<1>6. r = Append(SubSeq(q, 1, n), e) /\ \A s \in Sockets \ {sock} : up'[s] = up[s] BY <1>3, <1>5
<1>7. /\ r \in Seq(UpFrame) /\ r # <<>> /\ Len(r) = n + 1
      /\ \A i \in 1..n : r[i] = q[i]
      /\ r[n + 1] = e
      /\ Head(r) = IF n = 0 THEN e ELSE Head(q)
  <2> DEFINE p == SubSeq(q, 1, n)
  <2>1. p \in Seq(UpFrame) /\ Len(p) = n /\ \A i \in 1..n : p[i] = q[i] BY <1>5
  <2>2. r = Append(p, e) BY <1>6
  <2> HIDE DEF p, r, q, e
  <2>3. r \in Seq(UpFrame) /\ r # <<>> /\ Len(r) = n + 1 /\ Head(r) = r[1]
    <3>1. p \in Seq(UpFrame) /\ e \in UpFrame BY <1>4, <2>1
    <3>2. r \in Seq(UpFrame) /\ Len(r) = Len(p) + 1 /\ Len(p) \in Nat BY ONLY <3>1, <2>2
    <3>3. r # <<>> /\ Head(r) = r[1] BY ONLY <3>2
    <3> QED BY <2>1, <3>2, <3>3
  <2>4. /\ \A i \in 1..n : r[i] = p[i]
        /\ r[n + 1] = e
    BY <2>1, <2>2
  <2>5. n # 0 => 1 \in 1..n /\ Head(q) = q[1]
    <3>1. n \in Nat /\ n <= Len(q) /\ q \in Seq(UpFrame) BY <1>5
    <3> QED BY ONLY <3>1
  <2> QED BY <2>1, <2>3, <2>4, <2>5
<1>8. up' \in [Sockets -> Seq(UpFrame)]
  <2> DEFINE p == Append(SubSeq(q, 1, n), e)
  <2>1. p \in Seq(UpFrame) /\ up' = [up EXCEPT ![sock] = p] BY <1>3, <1>6, <1>7
  <2> HIDE DEF p, q, r, e
  <2> QED BY <1>5, <2>1
<1>9. /\ sock' = 0 /\ pending' = {} /\ down' = <<>> /\ resolved' \in Seq(ResType)
      /\ OneRefresh' /\ Current' /\ BusyFollows' /\ InfoFollows'
  BY <1>1, <1>2, SocketLost
<1>10. /\ Head(r).t = "closed" \/ (q # <<>> /\ Head(r) = Head(q))
       /\ \A i \in 2..Len(r) : r[i].t = "closed" \/ (i \in 2..Len(q) /\ r[i] = q[i])
       /\ \A i \in 1..Len(r) : r[i].t = "closed" => i = Len(r)
  <2>0. \A k \in 1..Len(q) : q[k].t # "closed" BY <1>1, <1>2 DEF Wires, Current
  <2> HIDE DEF e, q, r
  <2>1. n \in Nat /\ Len(q) \in Nat /\ n <= Len(q) /\ (n # 0 => q # <<>>) BY <1>5
  <2>2. ASSUME NEW i \in 2..Len(r) PROVE r[i].t = "closed" \/ (i \in 2..Len(q) /\ r[i] = q[i])
    <3>1. (i \in 2..Len(q) /\ i \in 1..n) \/ i = n + 1 BY <1>7, <2>1
    <3> QED BY <1>4, <1>7, <3>1
  <2>3. ASSUME NEW i \in 1..Len(r) PROVE r[i].t = "closed" => i = Len(r)
    <3>1. (i \in 1..n /\ i \in 1..Len(q)) \/ i = n + 1 BY <1>7, <2>1
    <3> QED BY <1>7, <2>0, <3>1
  <2> QED BY <1>4, <1>7, <2>1, <2>2, <2>3
<1>11. Wires' /\ ClaimsCounted' BY <1>1, <1>2, <1>6, <1>7, <1>9, <1>10, ClosedSent
<1> HIDE DEF q, r, e
<1>12. SpeechInOrder' BY <1>1, <1>2, SpeechKept
<1>13. events' \in 0..MaxEvents /\ down' \in Seq(DownFrame) /\ pending' \subseteq ReqType
  BY <1>1, <1>2, <1>9, HappensType
<1>14. TypeOK' BY <1>1, <1>2, <1>8, <1>9, <1>13, TypesOf, TypesAre
<1> QED BY <1>9, <1>11, <1>12, <1>14, PartsPrimed

LEMMA RestartsKeeps == ASSUME IInv, Restarts PROVE IInv'
<1>1. /\ Happens /\ resolved = <<>> /\ zone' \in Infos
      /\ conns' = [s \in Sockets |-> [NoConn EXCEPT !.open = s > opened]]
      /\ entry' = [f \in Files |-> None] /\ answers' = {} /\ up' = [s \in Sockets |-> <<>>]
      /\ UNCHANGED <<file, opened, info, generation, pendingIsNew, armed, prompts, turn, fresh, created,
                     starts, misapplied, overlap, lost, requests>>
  BY DEF Restarts, history, Settled
<1>2. TypeOK /\ Wires /\ OneRefresh /\ ClaimsCounted /\ SpeechInOrder /\ BusyFollows /\ InfoFollows
  BY Parts
<1>3. /\ sock' = 0 /\ down' \in Seq(DownFrame) /\ pending' = {} /\ resolved' \in Seq(ResType) /\ OneRefresh'
      /\ Current' /\ BusyFollows' /\ InfoFollows'
  <2>1. CASE sock = 0
    <3>1. UNCHANGED <<sock, pending, resolved, down>> BY <2>1 DEF Restarts
    <3>2. OneRefresh' BY <1>1, <1>2, <2>1, <3>1 DEF OneRefresh
    <3> QED BY <1>2, <2>1, <3>1, <3>2, TypesOf, Unplugged
  <2>2. CASE sock # 0
    <3>1. LosesSocket BY <2>2 DEF Restarts
    <3>2. /\ sock' = 0 /\ pending' = {} /\ down' = <<>> /\ resolved' \in Seq(ResType)
          /\ OneRefresh' /\ Current' /\ BusyFollows' /\ InfoFollows'
      BY <1>1, <1>2, <3>1, SocketLost
    <3>3. down' \in Seq(DownFrame) BY <3>2
    <3> QED BY <3>2, <3>3
  <2> QED BY <2>1, <2>2
<1>4. \A s \in Sockets : /\ conns'[s] \in ConnType /\ conns'[s].file = None /\ conns'[s].phase = "none"
                         /\ (s > opened => conns'[s] = NoConn) /\ up'[s] = <<>>
  <2> SUFFICES ASSUME NEW s \in Sockets
               PROVE  /\ conns'[s] \in ConnType /\ conns'[s].file = None /\ conns'[s].phase = "none"
                      /\ (s > opened => conns'[s] = NoConn) /\ up'[s] = <<>>
    OBVIOUS
  <2> DEFINE b == s > opened
  <2>1. b \in BOOLEAN /\ (s > opened => b = TRUE) OBVIOUS
  <2>2. conns'[s] = [NoConn EXCEPT !.open = b] /\ up'[s] = <<>> BY <1>1
  <2> HIDE DEF b
  <2>3. conns'[s] = [file |-> None, phase |-> "none", isNew |-> FALSE, busy |-> FALSE, open |-> b]
    BY <2>2 DEF NoConn
  <2>4. conns'[s] \in ConnType /\ conns'[s].file = None /\ conns'[s].phase = "none"
    BY <2>1, <2>3 DEF ConnType
  <2> QED BY <2>1, <2>2, <2>3, <2>4 DEF NoConn
<1>5. conns' \in [Sockets -> ConnType] /\ up' \in [Sockets -> Seq(UpFrame)]
  <2>1. conns' = [s \in Sockets |-> conns'[s]] BY <1>1
  <2> QED BY <1>1, <1>4, <2>1
<1>6. entry' \in [Files -> EntryType] BY <1>1 DEF EntryType
<1>7. Wires'
  <2>1. Unopened' BY <1>1, <1>4 DEF Unopened
  <2>2. ASSUME NEW s \in Sockets PROVE RegistersFirst(s)'
    <3>1. up'[s] = <<>> /\ Len(up'[s]) = 0 BY <1>4
    <3> QED BY <1>4, <3>1 DEF RegistersFirst
  <2>3. EntriesRegistered' BY <1>1 DEF EntriesRegistered, IsBridge
  <2> QED BY <1>3, <2>1, <2>2, <2>3 DEF Wires
<1>8. ClaimsCounted'
  <2>1. \A f \in Files : Claims(f)' \subseteq Claims(f) BY <1>1, <1>4 DEF Claims, Carries
  <2> QED BY <1>1, <1>2, <2>1, FewerClaims
<1>9. SpeechInOrder' BY <1>1, <1>2, SpeechKept
<1>10. events' \in 0..MaxEvents /\ pending' \subseteq ReqType /\ answers' \subseteq AnsType
  BY <1>1, <1>2, <1>3, HappensType
<1>11. TypeOK' BY <1>1, <1>2, <1>3, <1>5, <1>6, <1>10, TypesOf, TypesAre
<1> QED BY <1>3, <1>7, <1>8, <1>9, <1>11, PartsPrimed

LEMMA ConnectsKeeps == ASSUME IInv, Connects PROVE IInv'
<1> DEFINE n == opened + 1
<1> DEFINE reg == [t |-> "register", file |-> file, isNew |-> pendingIsNew, busy |-> Running]
<1> DEFINE req == Request(requests, "info")
<1> DEFINE w == Waiting(requests, "info")
<1> DEFINE q == <<reg, req>>
<1>1. /\ resolved = <<>> /\ file # None /\ sock = 0 /\ opened < MaxSockets
      /\ opened' = n /\ sock' = n /\ pendingIsNew' = FALSE /\ pending' = {w} /\ requests' = requests + 1
      /\ up' = [up EXCEPT ![n] = q]
      /\ UNCHANGED <<file, resolved, info, generation, armed, prompts, turn, fresh, conns, entry, zone,
                     answers, created, down, starts, misapplied, overlap, lost, events>>
  BY DEF Connects, Opens, Settled, srv, history
<1>2. TypeOK /\ Wires /\ OneRefresh /\ ClaimsCounted /\ SpeechInOrder /\ BusyFollows /\ InfoFollows
  BY Parts
<1>3. /\ n \in Sockets /\ n \in 0..MaxSockets /\ n # 0 /\ opened \in Nat /\ n > opened /\ opened <= n
  BY <1>1, <1>2, SocketFacts
<1>4. /\ requests \in Nat /\ generation \in Nat /\ file \in Files /\ pendingIsNew \in BOOLEAN
      /\ up \in [Sockets -> Seq(UpFrame)] /\ resolved \in Seq(ResType)
  BY <1>1, <1>2, TypesOf
<1>5. Running \in BOOLEAN BY DEF Running
<1>6. /\ reg \in UpFrame /\ reg.t = "register" /\ reg.file = file /\ (reg.isNew <=> pendingIsNew)
      /\ (reg.busy <=> turn # None)
  <2> DEFINE b == Running
  <2>1. b \in BOOLEAN /\ (b <=> turn # None) BY DEF Running
  <2> HIDE DEF b
  <2>2. [t |-> "register", file |-> file, isNew |-> pendingIsNew, busy |-> b] \in UpFrame
    BY <1>4, <2>1, UpFrames
  <2> QED BY <2>1, <2>2 DEF b
<1>7. req \in UpFrame /\ req.t = "request" /\ req.id = requests /\ req.op = "info" BY <1>4, UpFrames
<1>8. w \in ReqType /\ w.op = "info" /\ w.id = requests /\ w.gen = generation
  BY <1>4 DEF Waiting, ReqType
<1> HIDE DEF reg, req, w
<1>9. /\ q \in Seq(UpFrame) /\ q # <<>> /\ Len(q) = 2 /\ q[1] = reg /\ q[2] = req /\ Head(q) = reg
  BY <1>6, <1>7
<1>10. up[n] = <<>> /\ conns[n] = NoConn BY <1>2, <1>3 DEF Wires, Unopened
<1>11. conns[n].file = None /\ conns[n].phase = "none" /\ conns[n].open BY <1>10 DEF NoConn
<1> HIDE DEF q, n
<1>12. /\ up' \in [Sockets -> Seq(UpFrame)] /\ up'[n] = q
       /\ \A s \in Sockets \ {n} : up'[s] = up[s]
  BY <1>1, <1>3, <1>4, <1>9
<1>13. down = <<>> /\ \A a \in answers : a.sock # n
  <2>1. \A a \in answers : a.sock <= opened /\ a.sock \in Nat
    BY <1>2, TypesOf, SocketFacts DEF Wires, Unopened, AnsType
  <2>2. \A a \in answers : a.sock # n BY <1>3, <2>1
  <2> QED BY <1>1, <1>2, <2>2 DEF OneRefresh
<1>14. \A i \in 1..Len(q) : (i = 1 /\ q[i] = reg) \/ (i = 2 /\ q[i] = req)
  <2>1. \A i \in 1..2 : i = 1 \/ i = 2 OBVIOUS
  <2> QED BY <1>9, <2>1
<1>15. Wires'
  <2>1. Unopened'
    <3>1. \A s \in Sockets : s > n => s > opened /\ s # n BY <1>1, <1>2, <1>3, SocketFacts
    <3>2. \A a \in answers : a.sock <= n
      <4>1. \A a \in answers : a.sock <= opened /\ a.sock \in Nat
        BY <1>2, TypesOf, SocketFacts DEF Wires, Unopened, AnsType
      <4>2. n = opened + 1 BY DEF n
      <4> QED BY <1>3, <4>1, <4>2
    <3> QED BY <1>1, <1>2, <1>12, <3>1, <3>2 DEF Wires, Unopened
  <2>2. ASSUME NEW s \in Sockets PROVE RegistersFirst(s)'
    <3>1. CASE s # n BY <1>1, <1>2, <1>12, <3>1 DEF Wires, RegistersFirst
    <3>2. CASE s = n
      <4>1. \A i \in 2..Len(q) : q[i].t # "register"
        <5>1. \A i \in 2..Len(q) : i = 2 BY <1>9
        <5> QED BY <1>7, <1>9, <5>1
      <4>2. \A i \in 1..Len(q) : q[i].t # "closed" BY <1>6, <1>7, <1>14
      <4> QED BY <1>1, <1>6, <1>9, <1>11, <1>12, <3>2, <4>1, <4>2 DEF RegistersFirst
    <3> QED BY <3>1, <3>2
  <2>3. Current'
    <3>1. \A i \in 1..Len(q) : q[i].t # "closed" BY <1>6, <1>7, <1>14
    <3>2. /\ up'[sock'] = q /\ conns'[sock'].open /\ conns'[sock'].file = None /\ file' = file
      BY <1>1, <1>11, <1>12
    <3>3. q # <<>> /\ Head(q).file = file BY <1>6, <1>9
    <3> QED BY <3>1, <3>2, <3>3 DEF Current
  <2>4. EntriesRegistered' BY <1>1, <1>2 DEF Wires, EntriesRegistered, IsBridge
  <2> QED BY <2>1, <2>2, <2>3, <2>4 DEF Wires
<1>16. OneRefresh'
  <2>1. \A r \in pending' : r = w BY <1>1
  <2>2. \A i \in 1..Len(q) : q[i].t = "request" => q[i].op = "info" BY <1>6, <1>7, <1>14
  <2>3. w.gen <= generation /\ w.id < requests + 1 BY <1>4, <1>8
  <2> QED BY <1>1, <1>3, <1>12, <2>1, <2>2, <2>3 DEF OneRefresh
<1>17. ClaimsCounted'
  <2> SUFFICES ASSUME NEW f \in Files PROVE created'[f] + Cardinality(Claims(f)') <= starts'[f]
    BY DEF ClaimsCounted
  <2> DEFINE C == Claims(f)
  <2> DEFINE D == Claims(f)'
  <2>1. /\ created'[f] = created[f] /\ starts'[f] = starts[f]
        /\ created[f] \in Nat /\ starts[f] \in Nat /\ created[f] + Cardinality(C) <= starts[f]
    BY <1>1, <1>2, TypesOf DEF ClaimsCounted
  <2>2. IsFiniteSet(C) /\ IsFiniteSet(D)
    <3>1. IsFiniteSet(0..MaxSockets) BY BridgeAssumption, FS_Interval
    <3>2. D \subseteq 0..MaxSockets BY BridgeAssumption DEF Claims, Sockets
    <3> QED BY <3>1, <3>2, ClaimsFinite, FS_Subset
  <2>3. \A s \in Sockets \ {n} : Carries(s, f)' <=> Carries(s, f) BY <1>1, <1>12 DEF Carries
  <2>4. \A s \in Sockets : s = n /\ Carries(s, f)' => f = file /\ pendingIsNew
    <3> SUFFICES ASSUME NEW s \in Sockets, s = n, Carries(s, f)' PROVE f = file /\ pendingIsNew
      OBVIOUS
    <3>1. up'[s] = q /\ conns'[s].phase = "none" /\ Head(q) = reg BY <1>1, <1>9, <1>11, <1>12
    <3>2. Head(q).isNew /\ Head(q).file = f BY <3>1 DEF Carries
    <3> QED BY <1>6, <3>1, <3>2
  <2>5. CASE f = file /\ pendingIsNew
    <3>1. 0 \in C BY <2>5 DEF Claims
    <3>2. D \subseteq (C \ {0}) \cup {n}
      <4>1. \A x \in D : x \in Sockets /\ Carries(x, f)' BY <1>1 DEF Claims
      <4>2. \A x \in Sockets : Carries(x, f) => x \in C /\ x # 0 BY <1>2, SocketFacts DEF Claims
      <4> HIDE DEF C, D
      <4> QED BY <2>3, <4>1, <4>2
    <3> HIDE DEF C, D
    <3>3. /\ IsFiniteSet(C \ {0}) /\ Cardinality(C \ {0}) = Cardinality(C) - 1
      BY <2>2, <3>1, FS_RemoveElement
    <3>4. /\ IsFiniteSet((C \ {0}) \cup {n})
          /\ Cardinality((C \ {0}) \cup {n}) \in {Cardinality(C \ {0}), Cardinality(C \ {0}) + 1}
      BY <3>3, FS_AddElement
    <3>5. Cardinality(D) <= Cardinality((C \ {0}) \cup {n}) BY <3>2, <3>4, FS_Subset
    <3>6. Cardinality(C) \in Nat /\ Cardinality(D) \in Nat BY <2>2, FS_CardinalityType
    <3>7. Cardinality(D) <= Cardinality(C) BY <3>3, <3>4, <3>5, <3>6
    <3> QED BY <2>1, <3>6, <3>7 DEF D
  <2>6. CASE ~(f = file /\ pendingIsNew)
    <3>1. D \subseteq C
      <4>1. \A x \in D : x \in Sockets /\ Carries(x, f)' BY <1>1 DEF Claims
      <4>2. \A x \in Sockets : Carries(x, f) => x \in C BY DEF Claims
      <4> HIDE DEF C, D
      <4> QED BY <2>3, <2>4, <2>6, <4>1, <4>2
    <3> HIDE DEF C, D
    <3>2. Cardinality(C) \in Nat /\ Cardinality(D) \in Nat /\ Cardinality(D) <= Cardinality(C)
      BY <2>2, <3>1, FS_Subset, FS_CardinalityType
    <3> QED BY <2>1, <3>2 DEF D
  <2> QED BY <2>5, <2>6
<1>18. SpeechInOrder' BY <1>1, <1>2, SpeechKept
<1>19. BusyFollows'
  <2>1. LastSays(q, turn) BY <1>6, <1>7, <1>14 DEF LastSays, Says, SaysBusy
  <2>2. ~Silent(q)
    <3>1. 1 \in 1..Len(q) BY <1>9
    <3> QED BY <1>6, <1>9, <3>1 DEF Silent, Says
  <2>3. up'[sock'] = q /\ turn' = turn BY <1>1, <1>12
  <2>4. LastSays(up[sock], turn)' /\ ~Silent(up[sock])'
    BY <2>1, <2>2, <2>3 DEF LastSays, Silent, Says, SaysBusy
  <2> QED BY <2>4 DEF BusyFollows
<1>20. InfoFollows'
  <2>1. Asking' /\ ~Answered' BY <1>1, <1>8 DEF Asking, Answered
  <2>2. Len(down') = 0 BY <1>1, <1>13
  <2>3. AnswersAreCurrent' BY <1>1, <1>13, <2>1, <2>2 DEF AnswersAreCurrent
  <2>4. BeforeRegistering' BY <1>1, <1>13, <2>1 DEF BeforeRegistering
  <2>5. LastPush(down, zone)' BY <2>2 DEF LastPush
  <2> QED BY <2>1, <2>3, <2>4, <2>5 DEF InfoFollows
<1>21. TypeOK'
  <2>1. /\ pending' \subseteq ReqType /\ requests' \in Nat /\ pendingIsNew' \in BOOLEAN
        /\ opened' \in 0..MaxSockets /\ sock' \in {0, opened'} /\ (sock' = 0 => pending' = {})
        /\ (file' = None => sock' = 0)
    <3>1. pending' \subseteq ReqType /\ requests' \in Nat BY <1>1, <1>4, <1>8
    <3>2. file' # None /\ sock' # 0 /\ sock' = opened' /\ opened' \in 0..MaxSockets BY <1>1, <1>3
    <3> QED BY <1>1, <3>1, <3>2
  <2> QED BY <1>1, <1>2, <1>12, <2>1, TypesOf, TypesAre
<1> QED BY <1>15, <1>16, <1>17, <1>18, <1>19, <1>20, <1>21, PartsPrimed

--------------------
(* What the server handles. *)

LEMMA HandledFacts ==
    ASSUME TypeOK, Wires, OneRefresh, NEW s \in Sockets, up[s] # <<>>, up' = [up EXCEPT ![s] = Tail(@)]
    PROVE  /\ up' \in [Sockets -> Seq(UpFrame)] /\ (\A x \in Sockets \ {s} : up'[x] = up[x])
           /\ Head(up[s]) \in UpFrame /\ s <= opened
           /\ \A i \in 1..Len(up'[s]) : \E k \in 1..Len(up[s]) : up[s][k] = up'[s][i]
           /\ \A i \in 1..Len(up'[s]) : up'[s][i].t # "register"
           /\ up'[s] # <<>> => Head(up'[s]).t # "register"
           /\ \A i \in 1..Len(up'[s]) : up'[s][i].t = "closed" => i = Len(up'[s])
           /\ Head(up[s]).t = "closed" => up'[s] = <<>>
           /\ \E k \in 1..Len(up[s]) : up[s][k] = Head(up[s])
<1> DEFINE q == up[s]
<1> DEFINE r == up'[s]
<1>1. /\ q \in Seq(UpFrame) /\ q # <<>> /\ r = Tail(q) /\ up' = [up EXCEPT ![s] = Tail(q)]
      /\ \A x \in Sockets \ {s} : up'[x] = up[x]
  BY TypesOf
<1>2. /\ r \in Seq(UpFrame) /\ Len(r) = Len(q) - 1 /\ Len(q) \in Nat /\ Len(q) >= 1
      /\ Head(q) \in UpFrame /\ Head(q) = q[1]
      /\ \A i \in 1..Len(r) : i + 1 \in 2..Len(q) /\ r[i] = q[i + 1]
      /\ r # <<>> => Len(q) >= 2 /\ Head(r) = q[2]
  <2> HIDE DEF q, r
  <2> QED BY <1>1, Tailed
<1>3. up' \in [Sockets -> Seq(UpFrame)]
  <2>1. up \in [Sockets -> Seq(UpFrame)] BY TypesOf
  <2> DEFINE v == Tail(q)
  <2>2. v \in Seq(UpFrame) /\ up' = [up EXCEPT ![s] = v] BY <1>1, <1>2
  <2> HIDE DEF v, q, r
  <2> QED BY <2>1, <2>2
<1>4. s <= opened
  <2>1. s > opened => q = <<>> BY DEF Wires, Unopened
  <2> HIDE DEF q
  <2> QED BY <1>1, <2>1, SocketFacts
<1>5. /\ \A i \in 2..Len(q) : q[i].t # "register"
      /\ \A i \in 1..Len(q) : q[i].t = "closed" => i = Len(q)
  BY DEF Wires, RegistersFirst
<1> HIDE DEF q, r
<1>6. \A i \in 1..Len(r) : \E k \in 1..Len(q) : q[k] = r[i]
  <2> SUFFICES ASSUME NEW i \in 1..Len(r) PROVE \E k \in 1..Len(q) : q[k] = r[i] OBVIOUS
  <2>1. i + 1 \in 1..Len(q) /\ r[i] = q[i + 1] BY <1>2
  <2> QED BY <2>1
<1>7. \A i \in 1..Len(r) : r[i].t # "register" /\ (r[i].t = "closed" => i = Len(r))
  <2> SUFFICES ASSUME NEW i \in 1..Len(r) PROVE r[i].t # "register" /\ (r[i].t = "closed" => i = Len(r))
    OBVIOUS
  <2>1. i + 1 \in 2..Len(q) /\ i + 1 \in 1..Len(q) /\ r[i] = q[i + 1] BY <1>2
  <2>2. r[i].t = "closed" => i + 1 = Len(q) BY <1>5, <2>1
  <2>3. r[i].t # "register" BY <1>5, <2>1
  <2> QED BY <1>2, <2>2, <2>3
<1>8. r # <<>> => Head(r).t # "register"
  <2>1. Len(q) >= 2 => 2 \in 2..Len(q) BY <1>2
  <2> QED BY <1>2, <1>5, <2>1
<1>9. Head(q).t = "closed" => r = <<>>
  <2>1. 1 \in 1..Len(q) BY <1>2
  <2>2. Head(q).t = "closed" => Len(q) = 1 BY <1>2, <1>5, <2>1
  <2>3. Len(q) = 1 => Len(r) = 0 BY <1>2
  <2> QED BY <1>2, <2>2, <2>3
<1>10. \E k \in 1..Len(q) : q[k] = Head(q)
  <2>1. 1 \in 1..Len(q) BY <1>2
  <2> QED BY <1>2, <2>1
<1>11. Head(q) \in UpFrame /\ \A x \in Sockets \ {s} : up'[x] = up[x] BY <1>1, <1>2
<1>12. \A i \in 1..Len(r) : r[i].t # "register" BY <1>7
<1>13. \A i \in 1..Len(r) : r[i].t = "closed" => i = Len(r) BY <1>7
<1> QED BY ONLY <1>3, <1>4, <1>6, <1>8, <1>9, <1>10, <1>11, <1>12, <1>13 DEF q, r

\* A frame that the server takes off the wire leaves the other ends of it as they were.
LEMMA HandledKeeps ==
    ASSUME TypeOK, Wires, OneRefresh, NEW s \in Sockets, up[s] # <<>>, up' = [up EXCEPT ![s] = Tail(@)],
           UNCHANGED <<sock, opened, file, pending, resolved, generation, requests>>,
           sock = 0 => down' = down,
           \A x \in Sockets \ {s} : conns'[x] = conns[x],
           conns'[s].file = None <=> conns'[s].phase = "none",
           conns'[s].phase = "none" => Head(up[s]).t = "closed",
           s = sock => conns'[s].open /\ conns'[s].file \in {None, file} /\ conns'[s].phase # "none",
           \A a \in answers' : a \in answers \/ a.sock = s,
           EntriesRegistered'
    PROVE  Wires' /\ OneRefresh'
<1>1. /\ \A x \in Sockets \ {s} : up'[x] = up[x]
      /\ s <= opened
      /\ \A i \in 1..Len(up'[s]) : \E k \in 1..Len(up[s]) : up[s][k] = up'[s][i]
      /\ \A i \in 1..Len(up'[s]) : up'[s][i].t # "register"
      /\ up'[s] # <<>> => Head(up'[s]).t # "register"
      /\ \A i \in 1..Len(up'[s]) : up'[s][i].t = "closed" => i = Len(up'[s])
      /\ Head(up[s]).t = "closed" => up'[s] = <<>>
  BY HandledFacts
<1>2. Unopened'
  <2>1. \A x \in Sockets : x > opened => x # s BY <1>1, SocketFacts
  <2> QED BY <1>1, <2>1 DEF Wires, Unopened
<1>3. ASSUME NEW x \in Sockets PROVE RegistersFirst(x)'
  <2>1. CASE x = s
    <3> DEFINE r == up'[x]
    <3>0. /\ \A i \in 1..Len(r) : r[i].t # "register"
          /\ \A i \in 1..Len(r) : r[i].t = "closed" => i = Len(r)
      <4>1. r = up'[s] BY <2>1
      <4> HIDE DEF r
      <4> QED BY ONLY <1>1, <4>1
    <3>1. /\ r # <<>> => Head(r).t # "register"
          /\ conns'[x].phase = "none" => r = <<>>
      BY <1>1, <2>1
    <3>2. \A i \in 2..Len(r) : i \in 1..Len(r) OBVIOUS
    <3>3. \A i \in 2..Len(r) : r[i].t # "register" BY <3>0, <3>2
    <3>4. conns'[x].file = None <=> conns'[x].phase = "none" BY <2>1
    <3>6. r # <<>> => IF conns'[x].phase = "none" THEN Head(r).t \in {"register", "closed"}
                      ELSE Head(r).t # "register"
      BY <3>1
    <3> QED BY <3>0, <3>3, <3>4, <3>6 DEF RegistersFirst
  <2>2. CASE x # s BY <1>1, <2>2 DEF Wires, RegistersFirst
  <2> QED BY <2>1, <2>2
<1>4. Current'
  <2> SUFFICES ASSUME sock # 0 PROVE Current' BY DEF Current
  <2>1. CASE s = sock
    <3>1. \A i \in 1..Len(up'[sock]) : up'[sock][i].t # "closed" BY <1>1, <2>1 DEF Wires, Current
    <3> QED BY <2>1, <3>1 DEF Current
  <2>2. CASE s # sock
    <3>1. up'[sock] = up[sock] /\ conns'[sock] = conns[sock] BY <1>1, <2>2, SocketFacts
    <3> QED BY <3>1 DEF Wires, Current
  <2> QED BY <2>1, <2>2
<1>5. OneRefresh'
  <2>1. sock # 0 => \A r \in pending : r.op = "info" =>
          \A i \in 1..Len(up'[sock]) :
            up'[sock][i].t = "request" /\ up'[sock][i].id = r.id => up'[sock][i].op = "info"
    <3>1. CASE s = sock BY <1>1, <3>1 DEF OneRefresh
    <3>2. CASE s # sock
      <4>1. sock # 0 => up'[sock] = up[sock] BY <1>1, <3>2, SocketFacts
      <4> QED BY <4>1 DEF OneRefresh
    <3> QED BY <3>1, <3>2
  <2> QED BY <2>1 DEF OneRefresh
<1> QED BY <1>2, <1>3, <1>4, <1>5 DEF Wires

\* The claims of a socket after one of its frames.
LEMMA HandledClaims ==
    ASSUME TypeOK, Wires, OneRefresh, ClaimsCounted, NEW s \in Sockets, up[s] # <<>>,
           up' = [up EXCEPT ![s] = Tail(@)], UNCHANGED <<file, pendingIsNew, created, starts>>,
           \A x \in Sockets \ {s} : conns'[x] = conns[x],
           \A f \in Files : conns'[s].phase = "reading" /\ conns'[s].isNew /\ conns'[s].file = f => Carries(s, f)
    PROVE  ClaimsCounted'
<1>1. /\ \A x \in Sockets \ {s} : up'[x] = up[x]
      /\ up'[s] # <<>> => Head(up'[s]).t # "register"
  BY HandledFacts
<1>2. ASSUME NEW f \in Files, NEW x \in Sockets, Carries(x, f)' PROVE Carries(x, f)
  <2>1. CASE x = s
    <3>1. conns'[s].phase = "reading" /\ conns'[s].isNew /\ conns'[s].file = f
      BY <1>1, <1>2, <2>1 DEF Carries
    <3> QED BY <2>1, <3>1
  <2>2. CASE x # s BY <1>1, <1>2, <2>2 DEF Carries
  <2> QED BY <2>1, <2>2
<1>3. \A f \in Files : Claims(f)' \subseteq Claims(f) BY <1>2 DEF Claims
<1> QED BY <1>3, FewerClaims

\* The word on pi's turn that goes with a frame taken off the wire.
LEMMA HandledSays ==
    ASSUME TypeOK, BusyFollows, NEW s \in Sockets, up[s] # <<>>, up' = [up EXCEPT ![s] = Tail(@)],
           sock = s, ~misapplied
    PROVE  /\ LastSays(up'[s], turn)
           /\ Silent(up'[s]) /\ Says(Head(up[s])) => (SaysBusy(Head(up[s])) <=> turn # None)
           /\ Silent(up'[s]) /\ ~Says(Head(up[s])) => Silent(up[s])
<1> DEFINE q == up[s]
<1> DEFINE r == up'[s]
<1> DEFINE t == turn
<1>1. q \in Seq(UpFrame) /\ q # <<>> /\ r = Tail(q) BY TypesOf
<1>2. s # 0 BY SocketFacts
<1>3. LastSays(q, t) BY <1>2 DEF BusyFollows
<1> HIDE DEF q, r, t
<1>4. /\ LastSays(r, t)
      /\ Silent(r) /\ Says(Head(q)) => (SaysBusy(Head(q)) <=> t # None)
      /\ Silent(r) /\ ~Says(Head(q)) => Silent(q)
  BY <1>1, <1>3, SaysTaken
<1> QED BY <1>4 DEF q, r, t

\* The busy state follows when a frame of another socket is handled, and no entry of the
\* socket of the moment is changed.
LEMMA BusyElsewhere ==
    ASSUME BusyFollows, UNCHANGED <<sock, turn>>, misapplied' = FALSE => misapplied = FALSE,
           misapplied \in BOOLEAN, misapplied' \in BOOLEAN,
           sock # 0 => up'[sock] = up[sock] /\ conns'[sock] = conns[sock],
           \A f \in Files : IsBridge(f)' /\ entry'[f].sock = sock => entry'[f] = entry[f]
    PROVE  BusyFollows'
<1> SUFFICES ASSUME sock # 0, ~misapplied'
             PROVE  /\ LastSays(up[sock], turn)'
                    /\ Silent(up[sock])' =>
                         /\ conns'[sock].phase = "reading" => (conns'[sock].busy <=> Running)
                         /\ \A f \in Files : IsBridge(f)' /\ entry'[f].sock = sock => (entry'[f].busy <=> Running)
  BY DEF BusyFollows, Running
<1>1. ~misapplied OBVIOUS
<1>2. /\ LastSays(up[sock], turn)
      /\ Silent(up[sock]) =>
           /\ conns[sock].phase = "reading" => (conns[sock].busy <=> Running)
           /\ \A f \in Files : IsBridge(f) /\ entry[f].sock = sock => (entry[f].busy <=> Running)
  BY <1>1 DEF BusyFollows
<1>3. up'[sock] = up[sock] /\ conns'[sock] = conns[sock] OBVIOUS
<1>4. LastSays(up[sock], turn)' /\ (Silent(up[sock])' <=> Silent(up[sock]))
  BY <1>2, <1>3 DEF LastSays, Silent, Says, SaysBusy
<1>5. \A f \in Files : IsBridge(f)' /\ entry'[f].sock = sock => IsBridge(f) /\ entry'[f] = entry[f]
  BY DEF IsBridge
<1> QED BY <1>2, <1>3, <1>4, <1>5

LEMMA BridgeFacts ==
    ASSUME TypeOK, Wires, NEW f \in Files, IsBridge(f)
    PROVE  /\ entry[f].sock \in Sockets /\ entry[f] \in Bridge
           /\ conns[entry[f].sock].file = f /\ conns[entry[f].sock].phase = "done"
<1>1. entry[f] \in Bridge BY TypesOf DEF IsBridge, EntryType
<1> QED BY <1>1 DEF Bridge, Wires, EntriesRegistered

LEMMA RegisterKeeps ==
    ASSUME IInv, NEW s \in Sockets, up[s] # <<>>, up' = [up EXCEPT ![s] = Tail(@)],
           Head(up[s]).t = "register", Register(s, Head(up[s])),
           UNCHANGED <<file, sock, opened, pending, resolved, info, generation, pendingIsNew, armed,
                       prompts, turn, fresh, starts, overlap, lost, requests, events>>
    PROVE  IInv'
<1> DEFINE m == Head(up[s])
<1> DEFINE reads == entry[m.file] = None
<1> DEFINE ph == IF reads THEN "reading" ELSE "done"
<1> DEFINE c == [file |-> m.file, phase |-> ph, isNew |-> m.isNew, busy |-> m.busy, open |-> TRUE]
<1> DEFINE e == [sock |-> s, busy |-> m.busy]
<1>1. /\ conns' = [conns EXCEPT ![s] = c]
      /\ entry' = IF reads THEN entry ELSE [entry EXCEPT ![m.file] = e]
      /\ UNCHANGED <<zone, answers, created, down, misapplied>>
  BY DEF Register
<1>2. TypeOK /\ Wires /\ OneRefresh /\ ClaimsCounted /\ SpeechInOrder /\ BusyFollows /\ InfoFollows
  BY Parts
<1>3. /\ up' \in [Sockets -> Seq(UpFrame)] /\ (\A x \in Sockets \ {s} : up'[x] = up[x])
      /\ m \in UpFrame
  BY <1>2, HandledFacts
<1>4. m.file \in Files /\ m.isNew \in BOOLEAN /\ m.busy \in BOOLEAN /\ m.file # None
  BY <1>3, UpFrameFacts, BridgeAssumption
<1>5. conns \in [Sockets -> ConnType] /\ entry \in [Files -> EntryType] /\ misapplied \in BOOLEAN
  BY <1>2, TypesOf
<1>6. conns[s].phase = "none" /\ conns[s].file = None BY <1>2 DEF Wires, RegistersFirst
<1>7. ph \in {"reading", "done"} /\ (ph = "reading" <=> reads) OBVIOUS
<1>8. Says(m) /\ (SaysBusy(m) <=> m.busy) BY DEF Says, SaysBusy
<1>9. /\ s = sock => m.file = file
      /\ \A f \in Files : m.isNew /\ m.file = f => Carries(s, f)
  <2>1. s = sock => sock # 0 BY <1>2, SocketFacts
  <2> QED BY <1>2, <1>6, <2>1 DEF Wires, Current, Carries
<1>10. e \in Bridge /\ e.sock = s /\ e.busy = m.busy BY <1>4 DEF Bridge
<1> HIDE DEF m, reads, ph, e
<1>11. c \in ConnType /\ c.file = m.file /\ c.phase = ph /\ c.isNew = m.isNew /\ c.busy = m.busy /\ c.open
  BY <1>4, <1>7 DEF ConnType
<1> HIDE DEF c
<1>12. conns' \in [Sockets -> ConnType] /\ conns'[s] = c /\ \A x \in Sockets \ {s} : conns'[x] = conns[x]
  BY <1>1, <1>5, <1>11
<1>13. \A f \in Files :
         \/ (f = m.file /\ ~reads) /\ entry'[f] = e
         \/ ~(f = m.file /\ ~reads) /\ entry'[f] = entry[f]
  <2>1. CASE reads BY <1>1, <2>1
  <2>2. CASE ~reads BY <1>1, <1>4, <1>5, <2>2
  <2> QED BY <2>1, <2>2
<1>14. entry' \in [Files -> EntryType] BY <1>1, <1>4, <1>5, <1>10 DEF EntryType
<1>15. \A f \in Files : IsBridge(f)' /\ entry'[f] = entry[f] =>
         IsBridge(f) /\ entry[f].sock \in Sockets \ {s}
  <2> SUFFICES ASSUME NEW f \in Files, IsBridge(f)', entry'[f] = entry[f]
               PROVE  IsBridge(f) /\ entry[f].sock \in Sockets \ {s}
    OBVIOUS
  <2>1. IsBridge(f) BY DEF IsBridge
  <2>2. entry[f].sock \in Sockets /\ conns[entry[f].sock].phase = "done" BY <1>2, <2>1, BridgeFacts
  <2> QED BY <1>6, <2>1, <2>2
<1>16. EntriesRegistered'
  <2> SUFFICES ASSUME NEW f \in Files, IsBridge(f)'
               PROVE  conns'[entry'[f].sock].file = f /\ conns'[entry'[f].sock].phase = "done"
    BY DEF EntriesRegistered
  <2>1. CASE f = m.file /\ ~reads /\ entry'[f] = e BY <1>7, <1>10, <1>11, <1>12, <2>1
  <2>2. CASE entry'[f] = entry[f] BY <1>2, <1>12, <1>15, <2>2 DEF Wires, EntriesRegistered
  <2> QED BY <1>13, <2>1, <2>2
<1>17. Wires' /\ OneRefresh'
  <2>1. /\ conns'[s].file = None <=> conns'[s].phase = "none"
        /\ conns'[s].phase = "none" => Head(up[s]).t = "closed"
        /\ s = sock => conns'[s].open /\ conns'[s].file \in {None, file} /\ conns'[s].phase # "none"
        /\ \A a \in answers' : a \in answers \/ a.sock = s
        /\ sock = 0 => down' = down
    BY <1>1, <1>4, <1>7, <1>9, <1>11, <1>12
  <2> QED BY <1>2, <1>12, <1>16, <2>1, HandledKeeps
<1>18. ClaimsCounted'
  <2>1. \A f \in Files : conns'[s].phase = "reading" /\ conns'[s].isNew /\ conns'[s].file = f => Carries(s, f)
    BY <1>9, <1>11, <1>12
  <2> QED BY <1>1, <1>2, <1>12, <2>1, HandledClaims
<1>19. SpeechInOrder' BY <1>2, SpeechKept
<1>20. BusyFollows'
  <2>1. CASE s # sock
    <3>1. \A f \in Files : IsBridge(f)' /\ entry'[f].sock = sock => entry'[f] = entry[f]
      BY <1>10, <1>13, <2>1
    <3>2. sock # 0 => up'[sock] = up[sock] /\ conns'[sock] = conns[sock]
      BY <1>2, <1>3, <1>12, <2>1, SocketFacts
    <3> QED BY <1>1, <1>2, <1>5, <3>1, <3>2, BusyElsewhere
  <2>2. CASE s = sock
    <3> SUFFICES ASSUME ~misapplied
                 PROVE  /\ LastSays(up[sock], turn)'
                        /\ Silent(up[sock])' =>
                             /\ conns'[sock].phase = "reading" => (conns'[sock].busy <=> turn # None)
                             /\ \A f \in Files : IsBridge(f)' /\ entry'[f].sock = sock => (entry'[f].busy <=> turn # None)
      BY <1>1 DEF BusyFollows, Running
    <3>1. /\ LastSays(up'[s], turn)
          /\ Silent(up'[s]) => (m.busy <=> turn # None)
      BY <1>2, <1>8, <2>2, HandledSays DEF m
    <3>2. LastSays(up[sock], turn)' /\ (Silent(up[sock])' => Silent(up'[s]))
      BY <2>2, <3>1 DEF LastSays, Silent, Says, SaysBusy
    <3>3. \A f \in Files : IsBridge(f)' /\ entry'[f].sock = sock => entry'[f] = e
      BY <1>13, <1>15, <2>2
    <3>4. conns'[sock].busy = m.busy BY <1>11, <1>12, <2>2
    <3> QED BY <1>10, <3>1, <3>2, <3>3, <3>4
  <2> QED BY <2>1, <2>2
<1>21. InfoFollows'
  <2>1. conns'[sock].phase = "none" => conns[sock].phase = "none"
    <3>1. CASE s = sock BY <1>6, <3>1
    <3>2. CASE s # sock BY <1>1, <3>2
    <3> QED BY <3>1, <3>2
  <2> QED BY <1>1, <1>2, <2>1, InfoSame
<1>22. TypeOK' BY <1>1, <1>2, <1>3, <1>12, <1>14, TypesOf, TypesAre
<1> QED BY <1>17, <1>18, <1>19, <1>20, <1>21, <1>22, PartsPrimed

LEMMA AgentEventKeeps ==
    ASSUME IInv, NEW s \in Sockets, up[s] # <<>>, up' = [up EXCEPT ![s] = Tail(@)],
           NEW busy \in BOOLEAN, AgentEvent(s, busy), Head(up[s]).t = IF busy THEN "start" ELSE "end",
           UNCHANGED <<file, sock, opened, pending, resolved, info, generation, pendingIsNew, armed,
                       prompts, turn, fresh, starts, overlap, lost, requests, events>>
    PROVE  IInv'
<1> DEFINE m == Head(up[s])
<1> DEFINE f == conns[s].file
<1>1. /\ entry' = IF IsBridge(f) THEN [entry EXCEPT ![f].busy = busy] ELSE entry
      /\ misapplied' = (misapplied \/ ~IsBridge(f) \/ entry[f].sock # s)
      /\ UNCHANGED <<conns, zone, answers, created, down>>
  BY DEF AgentEvent
<1>2. TypeOK /\ Wires /\ OneRefresh /\ ClaimsCounted /\ SpeechInOrder /\ BusyFollows /\ InfoFollows
  BY Parts
<1>3. /\ up' \in [Sockets -> Seq(UpFrame)] /\ (\A x \in Sockets \ {s} : up'[x] = up[x])
  BY <1>2, HandledFacts
<1>4. /\ conns \in [Sockets -> ConnType] /\ entry \in [Files -> EntryType] /\ misapplied \in BOOLEAN
  BY <1>2, TypesOf
<1>5. m.t \in {"start", "end"} /\ Says(m) /\ (SaysBusy(m) <=> busy) BY DEF Says, SaysBusy
<1>6. conns[s].phase # "none" /\ f # None /\ f \in Files
  <2>1. RegistersFirst(s) /\ m.t \notin {"register", "closed"} BY <1>2, <1>5 DEF Wires
  <2>2. conns[s].phase # "none" /\ f # None BY <2>1 DEF RegistersFirst
  <2>3. f \in Files \cup {None} BY <1>4 DEF ConnType
  <2> QED BY <2>2, <2>3
<1> HIDE DEF m, f
<1>7. misapplied' \in BOOLEAN /\ (~misapplied' => ~misapplied /\ IsBridge(f) /\ entry[f].sock = s)
  BY <1>1, <1>4
<1>8. IsBridge(f) => /\ entry[f] \in Bridge /\ entry'[f] \in Bridge /\ entry'[f].sock = entry[f].sock
                     /\ entry'[f].busy = busy
  <2> SUFFICES ASSUME IsBridge(f)
               PROVE  /\ entry[f] \in Bridge /\ entry'[f] \in Bridge /\ entry'[f].sock = entry[f].sock
                      /\ entry'[f].busy = busy
    OBVIOUS
  <2>1. entry[f] \in Bridge BY <1>2, <1>6, BridgeFacts
  <2>2. entry'[f] = [entry[f] EXCEPT !.busy = busy] BY <1>1, <1>4, <1>6
  <2> QED BY <2>1, <2>2 DEF Bridge
<1>9. \A g \in Files : entry'[g] = entry[g] \/ (g = f /\ IsBridge(f)) BY <1>1, <1>4, <1>6
<1>10. entry' \in [Files -> EntryType]
  <2>1. \A g \in Files : entry'[g] \in EntryType BY <1>4, <1>8, <1>9 DEF EntryType
  <2>2. entry' = [g \in Files |-> entry'[g]] BY <1>1, <1>4
  <2> QED BY <2>1, <2>2
<1>11. \A g \in Files : IsBridge(g)' => IsBridge(g) /\ entry'[g].sock = entry[g].sock
  <2> SUFFICES ASSUME NEW g \in Files, IsBridge(g)'
               PROVE  IsBridge(g) /\ entry'[g].sock = entry[g].sock
    OBVIOUS
  <2>1. CASE entry'[g] = entry[g] BY <2>1 DEF IsBridge
  <2>2. CASE g = f /\ IsBridge(f) BY <1>8, <2>2
  <2> QED BY <1>9, <2>1, <2>2
<1>12. EntriesRegistered' BY <1>1, <1>2, <1>11 DEF Wires, EntriesRegistered
<1>13. Wires' /\ OneRefresh'
  <2>1. /\ conns'[s].file = None <=> conns'[s].phase = "none"
        /\ conns'[s].phase = "none" => Head(up[s]).t = "closed"
        /\ \A a \in answers' : a \in answers \/ a.sock = s
        /\ sock = 0 => down' = down
        /\ \A x \in Sockets \ {s} : conns'[x] = conns[x]
    BY <1>1, <1>2, <1>6 DEF Wires, RegistersFirst
  <2>2. s = sock => conns'[s].open /\ conns'[s].file \in {None, file} /\ conns'[s].phase # "none"
    BY <1>1, <1>2, <1>6, SocketFacts DEF Wires, Current
  <2> QED BY <1>2, <1>12, <2>1, <2>2, HandledKeeps
<1>14. ClaimsCounted'
  <2>1. \A g \in Files : conns'[s].phase = "reading" /\ conns'[s].isNew /\ conns'[s].file = g => Carries(s, g)
    BY <1>1 DEF Carries
  <2>2. \A x \in Sockets \ {s} : conns'[x] = conns[x] BY <1>1
  <2> QED BY <1>1, <1>2, <2>1, <2>2, HandledClaims
<1>15. SpeechInOrder' BY <1>2, SpeechKept
<1>16. BusyFollows'
  <2>1. CASE s # sock
    <3>1. ASSUME NEW g \in Files, IsBridge(g)', entry'[g].sock = sock, ~misapplied' PROVE entry'[g] = entry[g]
      BY <1>7, <1>8, <1>9, <2>1, <3>1
    <3>2. sock # 0 => up'[sock] = up[sock] /\ conns'[sock] = conns[sock]
      BY <1>1, <1>2, <1>3, <2>1, SocketFacts
    <3>3. CASE misapplied' BY <3>3 DEF BusyFollows
    <3>4. CASE ~misapplied'
      <4>1. \A g \in Files : IsBridge(g)' /\ entry'[g].sock = sock => entry'[g] = entry[g]
        BY <3>1, <3>4
      <4> QED BY <1>2, <1>4, <1>7, <3>2, <4>1, BusyElsewhere
    <3> QED BY <3>3, <3>4
  <2>2. CASE s = sock
    <3> SUFFICES ASSUME ~misapplied'
                 PROVE  /\ LastSays(up[sock], turn)'
                        /\ Silent(up[sock])' =>
                             /\ conns'[sock].phase = "reading" => (conns'[sock].busy <=> turn # None)
                             /\ \A g \in Files : IsBridge(g)' /\ entry'[g].sock = sock => (entry'[g].busy <=> turn # None)
      BY DEF BusyFollows, Running
    <3>1. ~misapplied /\ IsBridge(f) /\ entry[f].sock = s BY <1>7
    <3>2. /\ LastSays(up'[s], turn)
          /\ Silent(up'[s]) => (busy <=> turn # None)
      BY <1>2, <1>5, <2>2, <3>1, HandledSays DEF m
    <3>3. LastSays(up[sock], turn)' /\ (Silent(up[sock])' => Silent(up'[s]))
      BY <2>2, <3>2 DEF LastSays, Silent, Says, SaysBusy
    <3>4. conns'[sock].phase = "done" BY <1>1, <1>2, <1>6, <2>2, <3>1, BridgeFacts
    <3>5. ASSUME NEW g \in Files, IsBridge(g)', entry'[g].sock = sock PROVE g = f
      <4>1. IsBridge(g) /\ entry[g].sock = s BY <1>11, <2>2, <3>5
      <4> QED BY <1>2, <4>1, BridgeFacts DEF f
    <3> QED BY <1>8, <3>1, <3>2, <3>3, <3>4, <3>5
  <2> QED BY <2>1, <2>2
<1>17. InfoFollows' BY <1>1, <1>2, InfoSame
<1>18. TypeOK' BY <1>1, <1>2, <1>3, <1>7, <1>10, TypesOf, TypesAre
<1> QED BY <1>13, <1>14, <1>15, <1>16, <1>17, <1>18, PartsPrimed

LEMMA AnswerKeeps ==
    ASSUME IInv, NEW s \in Sockets, up[s] # <<>>, up' = [up EXCEPT ![s] = Tail(@)],
           Head(up[s]).t = "request", Answer(s, Head(up[s])),
           UNCHANGED <<file, sock, opened, pending, resolved, info, generation, pendingIsNew, armed,
                       prompts, turn, fresh, starts, overlap, lost, requests, events>>
    PROVE  IInv'
<1> DEFINE m == Head(up[s])
<1> DEFINE refused == m.op # "info" /\ entry[conns[s].file] = None
<1> DEFINE sets == m.op \in Infos \ {zone} /\ ~refused
<1> DEFINE v == IF refused THEN Refused ELSE IF m.op = "info" THEN zone ELSE None
<1> DEFINE a == [sock |-> s, id |-> m.id, answer |-> v]
<1>1. /\ zone' = IF sets THEN m.op ELSE zone
      /\ down' = IF sets THEN down \o Push(m.op) ELSE down
      /\ answers' = answers \cup {a}
      /\ UNCHANGED <<conns, entry, created, misapplied>>
  BY DEF Answer
<1>2. TypeOK /\ Wires /\ OneRefresh /\ ClaimsCounted /\ SpeechInOrder /\ BusyFollows /\ InfoFollows
  BY Parts
<1>3. /\ up' \in [Sockets -> Seq(UpFrame)] /\ (\A x \in Sockets \ {s} : up'[x] = up[x])
      /\ m \in UpFrame /\ \E k \in 1..Len(up[s]) : up[s][k] = m
  BY <1>2, HandledFacts
<1>4. m.id \in Nat /\ m.op \in {"info"} \cup Infos /\ m.t = "request" BY <1>3, UpFrameFacts
<1>5. zone \in Infos /\ answers \subseteq AnsType /\ misapplied \in BOOLEAN /\ "info" \notin Infos
  BY <1>2, TypesOf, BridgeAssumption
<1>6. v \in Infos \cup {Refused, None} /\ (m.op = "info" => v = zone) BY <1>5
<1>7. sets => m.op \in Infos /\ m.op # "info" BY <1>5
<1>8. conns[s].phase # "none" BY <1>2, <1>4 DEF Wires, RegistersFirst
\* A refresh gets the zone.
<1>9. s = sock => \A r \in pending : r.op = "info" /\ r.id = m.id => m.op = "info"
  <2>1. s = sock => sock # 0 BY <1>2, SocketFacts
  <2> QED BY <1>2, <1>3, <1>4, <2>1 DEF OneRefresh
<1> HIDE DEF m, refused, sets, v
<1>10. a \in AnsType /\ a.sock = s /\ a.id = m.id /\ a.answer = v BY <1>4, <1>6 DEF AnsType
<1> HIDE DEF a
<1>11. answers' \subseteq AnsType BY <1>1, <1>5, <1>10
<1>12. /\ InfoFollows' /\ zone' \in Infos /\ down' \in Seq(DownFrame) /\ (sock = 0 => down' = down)
  <2>1. CASE sets
    <3> DEFINE z == m.op
    <3>1. z \in Infos /\ zone' = z /\ down' = down \o Push(z) BY <1>1, <1>7, <2>1
    <3>2. \A x \in answers' : x \in answers \/
             (x.sock = sock => conns[sock].phase # "none" /\
                \A r \in pending : r.op = "info" /\ r.id = x.id => x.answer \in Infos)
      BY <1>1, <1>7, <1>8, <1>9, <1>10, <2>1
    <3> HIDE DEF z
    <3>3. down' \in Seq(DownFrame) /\ InfoFollows' /\ (sock = 0 => down' = down)
      BY <1>1, <1>2, <3>1, <3>2, ZoneMoves
    <3> QED BY <3>1, <3>3
  <2>2. CASE ~sets
    <3>1. zone' = zone /\ down' = down BY <1>1, <2>2
    <3> SUFFICES InfoFollows' BY <1>2, <3>1, TypesOf
    <3> SUFFICES ASSUME sock # 0
                 PROVE  /\ LastPush(down, zone)' /\ AnswersAreCurrent' /\ BeforeRegistering'
                        /\ HasPush' \/ info' \in {zone', Unsupported} \/ Asking' \/ Answered'
      BY DEF InfoFollows
    <3>2. /\ LastPush(down, zone) /\ AnswersAreCurrent /\ BeforeRegistering
          /\ HasPush \/ info \in {zone, Unsupported} \/ Asking \/ Answered
      BY <1>2 DEF InfoFollows
    <3>3. LastPush(down, zone)' /\ HasPush' = HasPush /\ Answered' = Answered /\ Asking' = Asking
      BY <3>1, <3>2 DEF LastPush, HasPush, PushIn, Answered, Asking
    <3>4. \A r \in pending : r.op = "info" =>
            \A x \in answers' : x.sock = sock /\ x.id = r.id =>
              x.answer \in Infos /\ (r.gen = generation => x.answer = zone \/ HasPush)
      BY <1>1, <1>5, <1>6, <1>9, <1>10, <3>2 DEF AnswersAreCurrent
    <3>5. AnswersAreCurrent' BY <3>1, <3>2, <3>3, <3>4 DEF AnswersAreCurrent
    <3>6. BeforeRegistering' BY <1>1, <1>8, <1>10, <3>1, <3>2, <3>3 DEF BeforeRegistering
    <3> QED BY <3>1, <3>2, <3>3, <3>5, <3>6
  <2> QED BY <2>1, <2>2
<1>13. Wires' /\ OneRefresh'
  <2>1. /\ conns'[s].file = None <=> conns'[s].phase = "none"
        /\ conns'[s].phase = "none" => Head(up[s]).t = "closed"
        /\ \A x \in Sockets \ {s} : conns'[x] = conns[x]
    BY <1>1, <1>2, <1>8 DEF Wires, RegistersFirst
  <2>2. s = sock => conns'[s].open /\ conns'[s].file \in {None, file} /\ conns'[s].phase # "none"
    BY <1>1, <1>2, <1>8, SocketFacts DEF Wires, Current
  <2>3. \A x \in answers' : x \in answers \/ x.sock = s BY <1>1, <1>10
  <2>4. EntriesRegistered' BY <1>1, <1>2 DEF Wires, EntriesRegistered, IsBridge
  <2> QED BY <1>2, <1>12, <2>1, <2>2, <2>3, <2>4, HandledKeeps
<1>14. ClaimsCounted'
  <2>1. \A g \in Files : conns'[s].phase = "reading" /\ conns'[s].isNew /\ conns'[s].file = g => Carries(s, g)
    BY <1>1 DEF Carries
  <2>2. \A x \in Sockets \ {s} : conns'[x] = conns[x] BY <1>1
  <2> QED BY <1>1, <1>2, <2>1, <2>2, HandledClaims
<1>15. SpeechInOrder' BY <1>2, SpeechKept
<1>16. BusyFollows'
  <2>1. CASE s # sock
    <3>1. sock # 0 => up'[sock] = up[sock] /\ conns'[sock] = conns[sock]
      BY <1>1, <1>2, <1>3, <2>1, SocketFacts
    <3> QED BY <1>1, <1>2, <1>5, <3>1, BusyElsewhere
  <2>2. CASE s = sock
    <3> SUFFICES ASSUME ~misapplied
                 PROVE  /\ LastSays(up[sock], turn)'
                        /\ Silent(up[sock])' =>
                             /\ conns[sock].phase = "reading" => (conns[sock].busy <=> turn # None)
                             /\ \A g \in Files : IsBridge(g) /\ entry[g].sock = sock => (entry[g].busy <=> turn # None)
      BY <1>1 DEF BusyFollows, Running, IsBridge
    <3>1. ~Says(m) BY <1>4 DEF Says
    <3>2. /\ LastSays(up'[s], turn)
          /\ Silent(up'[s]) => Silent(up[s])
      BY <1>2, <2>2, <3>1, HandledSays DEF m
    <3>3. LastSays(up[sock], turn)' /\ (Silent(up[sock])' => Silent(up'[s]))
      BY <2>2, <3>2 DEF LastSays, Silent, Says, SaysBusy
    <3>4. sock # 0 BY <1>2, <2>2, SocketFacts
    <3> QED BY <1>2, <2>2, <3>2, <3>3, <3>4 DEF BusyFollows, Running
  <2> QED BY <2>1, <2>2
<1>17. TypeOK' BY <1>1, <1>2, <1>3, <1>11, <1>12, TypesOf, TypesAre, SMTT(30)
<1> QED BY <1>12, <1>13, <1>14, <1>15, <1>16, <1>17, PartsPrimed

LEMMA ClosedKeeps ==
    ASSUME IInv, NEW s \in Sockets, up[s] # <<>>, up' = [up EXCEPT ![s] = Tail(@)],
           Head(up[s]).t = "closed", Closed(s),
           UNCHANGED <<file, sock, opened, pending, resolved, info, generation, pendingIsNew, armed,
                       prompts, turn, fresh, starts, overlap, lost, requests, events>>
    PROVE  IInv'
<1> DEFINE f == conns[s].file
<1>1. /\ conns' = [conns EXCEPT ![s].open = FALSE]
      /\ UNCHANGED <<zone, answers, created, down, misapplied>>
  BY DEF Closed
<1>2. TypeOK /\ Wires /\ OneRefresh /\ ClaimsCounted /\ SpeechInOrder /\ BusyFollows /\ InfoFollows
  BY Parts
<1>3. /\ up' \in [Sockets -> Seq(UpFrame)] /\ (\A x \in Sockets \ {s} : up'[x] = up[x])
      /\ \E k \in 1..Len(up[s]) : up[s][k] = Head(up[s])
  BY <1>2, HandledFacts
<1>4. conns \in [Sockets -> ConnType] /\ entry \in [Files -> EntryType] /\ misapplied \in BOOLEAN
  BY <1>2, TypesOf
\* The extension never closes the socket it listens to.
<1>5. s # sock
  <2>1. s = sock => sock # 0 BY <1>2, SocketFacts
  <2> QED BY <1>2, <1>3, <2>1 DEF Wires, Current
<1>6. /\ conns' \in [Sockets -> ConnType] /\ (\A x \in Sockets \ {s} : conns'[x] = conns[x])
      /\ conns'[s].file = conns[s].file /\ conns'[s].phase = conns[s].phase
      /\ conns'[s].isNew = conns[s].isNew
  <2> DEFINE c == [conns[s] EXCEPT !.open = FALSE]
  <2>1. /\ c \in ConnType /\ c.file = conns[s].file /\ c.phase = conns[s].phase
        /\ c.isNew = conns[s].isNew
    BY <1>4 DEF ConnType
  <2>2. conns' = [conns EXCEPT ![s] = c] BY <1>1
  <2> HIDE DEF c
  <2> QED BY <1>4, <2>1, <2>2
<1>7. /\ entry' \in [Files -> EntryType]
      /\ \A g \in Files : entry'[g] = entry[g] \/ entry'[g] \in {None, Server}
  <2>1. CASE f # None /\ IsBridge(f)
    <3>1. PICK e \in {None, Server} : entry' = [entry EXCEPT ![f] = e] BY <2>1 DEF Closed
    <3>2. f \in Files BY <1>4, <2>1 DEF ConnType
    <3> QED BY <1>4, <3>1, <3>2 DEF EntryType
  <2>2. CASE ~(f # None /\ IsBridge(f))
    <3>1. entry' = entry BY <2>2 DEF Closed
    <3> QED BY <1>4, <3>1
  <2> QED BY <2>1, <2>2
<1>8. \A g \in Files : IsBridge(g)' => IsBridge(g) /\ entry'[g] = entry[g] BY <1>7 DEF IsBridge
<1>9. EntriesRegistered'
  <2> SUFFICES ASSUME NEW g \in Files, IsBridge(g)'
               PROVE  conns'[entry'[g].sock].file = g /\ conns'[entry'[g].sock].phase = "done"
    BY DEF EntriesRegistered
  <2>1. /\ entry'[g] = entry[g] /\ entry[g].sock \in Sockets
        /\ conns[entry[g].sock].file = g /\ conns[entry[g].sock].phase = "done"
    BY <1>2, <1>8, BridgeFacts
  <2> QED BY <1>6, <2>1
<1>10. Wires' /\ OneRefresh'
  <2>1. /\ conns'[s].file = None <=> conns'[s].phase = "none"
        /\ conns'[s].phase = "none" => Head(up[s]).t = "closed"
        /\ \A x \in answers' : x \in answers \/ x.sock = s
        /\ sock = 0 => down' = down
    BY <1>1, <1>2, <1>6 DEF Wires, RegistersFirst
  <2> QED BY <1>2, <1>5, <1>6, <1>9, <2>1, HandledKeeps
<1>11. ClaimsCounted'
  <2>1. \A g \in Files : conns'[s].phase = "reading" /\ conns'[s].isNew /\ conns'[s].file = g => Carries(s, g)
    BY <1>6 DEF Carries
  <2> QED BY <1>1, <1>2, <1>6, <2>1, HandledClaims
<1>12. SpeechInOrder' BY <1>2, SpeechKept
<1>13. BusyFollows'
  <2>1. sock # 0 => up'[sock] = up[sock] /\ conns'[sock] = conns[sock]
    BY <1>2, <1>3, <1>5, <1>6, SocketFacts
  <2> QED BY <1>1, <1>2, <1>4, <1>8, <2>1, BusyElsewhere
<1>14. InfoFollows'
  <2>1. conns'[sock].phase = "none" => conns[sock].phase = "none" BY <1>1, <1>5
  <2> QED BY <1>1, <1>2, <2>1, InfoSame
<1>15. TypeOK' BY <1>1, <1>2, <1>3, <1>6, <1>7, TypesOf, TypesAre, SMTT(30)
<1> QED BY <1>10, <1>11, <1>12, <1>13, <1>14, <1>15, PartsPrimed

LEMMA HandlesKeeps == ASSUME IInv, NEW s \in Sockets, Handles(s) PROVE IInv'
<1> DEFINE m == Head(up[s])
<1>1. /\ up[s] # <<>> /\ up' = [up EXCEPT ![s] = Tail(@)]
      /\ UNCHANGED <<file, sock, opened, pending, resolved, info, generation, pendingIsNew, armed,
                     prompts, turn, fresh, starts, overlap, lost, requests, events>>
  BY DEF Handles, ext
<1>2. CASE m.t = "register" /\ Register(s, m) BY <1>1, <1>2, RegisterKeeps
<1>3. CASE m.t = "start" /\ AgentEvent(s, TRUE)
  <2> DEFINE b == TRUE
  <2>1. b \in BOOLEAN /\ AgentEvent(s, b) /\ m.t = IF b THEN "start" ELSE "end" BY <1>3
  <2> HIDE DEF b
  <2> QED BY <1>1, <2>1, AgentEventKeeps
<1>4. CASE m.t = "end" /\ AgentEvent(s, FALSE)
  <2> DEFINE b == FALSE
  <2>1. b \in BOOLEAN /\ AgentEvent(s, b) /\ m.t = IF b THEN "start" ELSE "end" BY <1>4
  <2> HIDE DEF b
  <2> QED BY <1>1, <2>1, AgentEventKeeps
<1>5. CASE m.t = "request" /\ Answer(s, m) BY <1>1, <1>5, AnswerKeeps
<1>6. CASE m.t = "closed" /\ Closed(s) BY <1>1, <1>6, ClosedKeeps
<1> QED BY <1>2, <1>3, <1>4, <1>5, <1>6 DEF Handles

LEMMA RegisterEndsKeeps == ASSUME IInv, NEW s \in Sockets, RegisterEnds(s) PROVE IInv'
<1> DEFINE c == conns[s]
<1> DEFINE e == [sock |-> s, busy |-> c.busy]
<1>1. /\ c.phase = "reading" /\ conns' = [conns EXCEPT ![s].phase = "done"]
      /\ entry' = [entry EXCEPT ![c.file] = e]
      /\ created' = IF c.isNew THEN [created EXCEPT ![c.file] = @ + 1] ELSE created
      /\ UNCHANGED <<file, sock, opened, pending, resolved, info, generation, pendingIsNew, armed,
                     prompts, turn, fresh, zone, answers, up, down, starts, misapplied, overlap, lost,
                     requests, events>>
  BY DEF RegisterEnds, ext, history
<1>2. TypeOK /\ Wires /\ OneRefresh /\ ClaimsCounted /\ SpeechInOrder /\ BusyFollows /\ InfoFollows
  BY Parts
<1>3. /\ conns \in [Sockets -> ConnType] /\ entry \in [Files -> EntryType]
      /\ created \in [Files -> Nat] /\ starts \in [Files -> Nat] /\ misapplied \in BOOLEAN
  BY <1>2, TypesOf
<1>4. /\ c.file \in Files /\ c.file # None /\ c.busy \in BOOLEAN /\ c.isNew \in BOOLEAN
  <2>1. c.file # None BY <1>1, <1>2 DEF Wires, RegistersFirst
  <2> QED BY <1>3, <2>1 DEF ConnType
<1>5. e \in Bridge /\ e.sock = s /\ e.busy = c.busy BY <1>4 DEF Bridge
<1>6. /\ conns' \in [Sockets -> ConnType] /\ (\A x \in Sockets \ {s} : conns'[x] = conns[x])
      /\ conns'[s].file = c.file /\ conns'[s].phase = "done" /\ conns'[s].open = c.open
  <2> DEFINE d == [conns[s] EXCEPT !.phase = "done"]
  <2>1. d \in ConnType /\ d.file = c.file /\ d.phase = "done" /\ d.open = c.open
    BY <1>3 DEF ConnType
  <2>2. conns' = [conns EXCEPT ![s] = d] BY <1>1
  <2> HIDE DEF d
  <2> QED BY <1>3, <2>1, <2>2
<1> HIDE DEF e
<1>7. /\ entry' \in [Files -> EntryType] /\ entry'[c.file] = e
      /\ \A g \in Files \ {c.file} : entry'[g] = entry[g]
  BY <1>1, <1>3, <1>4, <1>5 DEF EntryType
\* No other entry was that of a socket still reading.
<1>8. \A g \in Files \ {c.file} : IsBridge(g)' =>
        IsBridge(g) /\ entry'[g] = entry[g] /\ entry[g].sock \in Sockets \ {s}
  <2> SUFFICES ASSUME NEW g \in Files \ {c.file}, IsBridge(g)'
               PROVE  IsBridge(g) /\ entry'[g] = entry[g] /\ entry[g].sock \in Sockets \ {s}
    OBVIOUS
  <2>1. IsBridge(g) /\ entry'[g] = entry[g] BY <1>7 DEF IsBridge
  <2>2. entry[g].sock \in Sockets /\ conns[entry[g].sock].phase = "done" BY <1>2, <2>1, BridgeFacts
  <2> QED BY <1>1, <2>1, <2>2
<1>9. s <= opened
  <2>1. s > opened => c.phase = "none" BY <1>2 DEF Wires, Unopened, NoConn
  <2> QED BY <1>1, <1>2, <2>1, SocketFacts
<1>10. Wires'
  <2>1. Unopened'
    <3>1. \A x \in Sockets : x > opened => x # s BY <1>2, <1>9, SocketFacts
    <3> QED BY <1>1, <1>2, <1>6, <3>1 DEF Wires, Unopened
  <2>2. ASSUME NEW x \in Sockets PROVE RegistersFirst(x)'
    <3>1. RegistersFirst(x) BY <1>2 DEF Wires
    <3>2. CASE x = s
      <4>1. conns'[x].file # None /\ conns'[x].phase = "done" /\ conns[x].phase = "reading"
        BY <1>1, <1>4, <1>6, <3>2
      <4> QED BY <1>1, <3>1, <4>1 DEF RegistersFirst
    <3>3. CASE x # s BY <1>1, <1>6, <3>1, <3>3 DEF RegistersFirst
    <3> QED BY <3>2, <3>3
  <2>3. Current'
    <3> SUFFICES ASSUME sock # 0 PROVE Current' BY <1>1 DEF Current
    <3>1. /\ conns'[sock].open = conns[sock].open /\ conns'[sock].file = conns[sock].file
          /\ conns'[sock].phase = "none" => conns[sock].phase = "none"
      <4>1. CASE s = sock BY <1>6, <4>1
      <4>2. CASE s # sock BY <1>2, <1>6, <4>2, SocketFacts
      <4> QED BY <4>1, <4>2
    <3> QED BY <1>1, <1>2, <3>1 DEF Wires, Current
  <2>4. EntriesRegistered'
    <3> SUFFICES ASSUME NEW g \in Files, IsBridge(g)'
                 PROVE  conns'[entry'[g].sock].file = g /\ conns'[entry'[g].sock].phase = "done"
      BY DEF EntriesRegistered
    <3>1. CASE g = c.file BY <1>5, <1>6, <1>7, <3>1
    <3>2. CASE g # c.file BY <1>2, <1>6, <1>8, <3>2 DEF Wires, EntriesRegistered
    <3> QED BY <3>1, <3>2
  <2> QED BY <2>1, <2>2, <2>3, <2>4 DEF Wires
<1>11. OneRefresh' /\ SpeechInOrder' BY <1>1, <1>2, OneRefreshKept, SpeechKept
<1>12. created' \in [Files -> Nat] BY <1>1, <1>3, <1>4
<1>13. ClaimsCounted'
  <2> SUFFICES ASSUME NEW f \in Files PROVE created'[f] + Cardinality(Claims(f)') <= starts'[f]
    BY DEF ClaimsCounted
  <2> DEFINE C == Claims(f)
  <2> DEFINE D == Claims(f)'
  <2>1. /\ starts'[f] = starts[f] /\ created[f] \in Nat /\ starts[f] \in Nat
        /\ created[f] + Cardinality(C) <= starts[f]
    BY <1>1, <1>2, <1>3 DEF ClaimsCounted
  <2>2. ~(up[s] # <<>> /\ Head(up[s]).t = "register") BY <1>1, <1>2 DEF Wires, RegistersFirst
  <2>3. \A x \in Sockets : Carries(x, f)' => x # s /\ Carries(x, f)
    <3> SUFFICES ASSUME NEW x \in Sockets, Carries(x, f)' PROVE x # s /\ Carries(x, f) OBVIOUS
    <3>1. x # s BY <1>1, <1>6, <2>2 DEF Carries
    <3> QED BY <1>1, <1>6, <3>1 DEF Carries
  <2>4. D \subseteq C /\ s \notin D
    <3>1. s # 0 BY <1>2, SocketFacts
    <3> QED BY <1>1, <2>3, <3>1 DEF Claims
  <2>5. IsFiniteSet(C) /\ Cardinality(C) \in Nat BY ClaimsFinite, FS_CardinalityType
  <2>6. CASE c.isNew /\ c.file = f
    <3>1. s \in C BY <1>1, <2>6 DEF Claims, Carries
    <3>2. created'[f] = created[f] + 1 BY <1>1, <1>3, <2>6
    <3> HIDE DEF C, D
    <3>3. IsFiniteSet(C \ {s}) /\ Cardinality(C \ {s}) = Cardinality(C) - 1
      BY <2>5, <3>1, FS_RemoveElement
    <3>4. D \subseteq C \ {s} BY <2>4
    <3>5. Cardinality(D) \in Nat /\ Cardinality(D) <= Cardinality(C \ {s})
      BY <3>3, <3>4, FS_Subset, FS_CardinalityType
    <3>6. created'[f] + Cardinality(D) <= starts'[f] BY <2>1, <2>5, <3>2, <3>3, <3>5
    <3> QED BY <3>6 DEF D
  <2>7. CASE ~(c.isNew /\ c.file = f)
    <3>1. created'[f] = created[f] BY <1>1, <1>3, <1>4, <2>7
    <3> HIDE DEF C, D
    <3>2. Cardinality(D) \in Nat /\ Cardinality(D) <= Cardinality(C)
      BY <2>4, <2>5, FS_Subset, FS_CardinalityType
    <3>3. created'[f] + Cardinality(D) <= starts'[f] BY <2>1, <2>5, <3>1, <3>2
    <3> QED BY <3>3 DEF D
  <2> QED BY <2>6, <2>7
<1>14. BusyFollows'
  <2>1. CASE s # sock
    <3>1. \A f \in Files : IsBridge(f)' /\ entry'[f].sock = sock => entry'[f] = entry[f]
      BY <1>5, <1>7, <2>1
    <3>2. sock # 0 => up'[sock] = up[sock] /\ conns'[sock] = conns[sock]
      BY <1>1, <1>2, <1>6, <2>1, SocketFacts
    <3> QED BY <1>1, <1>2, <1>3, <3>1, <3>2, BusyElsewhere
  <2>2. CASE s = sock
    <3> SUFFICES ASSUME ~misapplied
                 PROVE  /\ LastSays(up[sock], turn)
                        /\ Silent(up[sock]) =>
                             /\ conns'[sock].phase = "reading" => (conns'[sock].busy <=> turn # None)
                             /\ \A f \in Files : IsBridge(f)' /\ entry'[f].sock = sock => (entry'[f].busy <=> turn # None)
      <4>1. LastSays(up[sock], turn) => LastSays(up[sock], turn)'
        BY <1>1 DEF LastSays, Says, SaysBusy
      <4>2. Silent(up[sock])' <=> Silent(up[sock]) BY <1>1 DEF Silent, Says
      <4> QED BY <1>1, <4>1, <4>2 DEF BusyFollows, Running
    <3>1. sock # 0 BY <1>2, <2>2, SocketFacts
    <3>2. LastSays(up[sock], turn) /\ (Silent(up[sock]) => (c.busy <=> turn # None))
      BY <1>1, <1>2, <2>2, <3>1 DEF BusyFollows, Running
    <3>3. \A f \in Files : IsBridge(f)' /\ entry'[f].sock = sock => entry'[f] = e
      BY <1>7, <1>8, <2>2
    <3> QED BY <1>5, <1>6, <2>2, <3>2, <3>3
  <2> QED BY <2>1, <2>2
<1>15. InfoFollows'
  <2>1. conns'[sock].phase = "none" => conns[sock].phase = "none"
    <3>1. CASE s = sock BY <1>6, <3>1
    <3>2. CASE s # sock BY <1>1, <3>2
    <3> QED BY <3>1, <3>2
  <2> QED BY <1>1, <1>2, <2>1, InfoSame
<1>16. TypeOK' BY <1>1, <1>2, <1>6, <1>7, <1>12, TypesOf, TypesAre
<1> QED BY <1>10, <1>11, <1>13, <1>14, <1>15, <1>16, PartsPrimed

--------------------
(* The specification. *)

LEMMA InitHolds == Init => IInv
<1> SUFFICES ASSUME Init PROVE IInv OBVIOUS
<1>1. /\ file = None /\ sock = 0 /\ opened = 0 /\ pending = {} /\ resolved = <<>>
      /\ info = Disconnected /\ generation = 0 /\ pendingIsNew = FALSE /\ armed = FALSE
      /\ prompts = <<>> /\ turn = None /\ fresh = [f \in Files |-> TRUE]
      /\ conns = [s \in Sockets |-> NoConn] /\ entry = [f \in Files |-> None]
      /\ zone \in Infos /\ answers = {}
      /\ created = [f \in Files |-> 0] /\ starts = [f \in Files |-> 0]
      /\ up = [s \in Sockets |-> <<>>] /\ down = <<>>
      /\ misapplied = FALSE /\ overlap = FALSE /\ lost = FALSE /\ requests = 0 /\ events = 0
  BY DEF Init
<1>2. NoConn \in ConnType /\ NoConn.file = None /\ NoConn.phase = "none" /\ NoConn.isNew = FALSE
  BY DEF NoConn, ConnType
<1>3. TypeOK
  <2>1. opened \in 0..MaxSockets /\ events \in 0..MaxEvents BY <1>1, BridgeAssumption
  <2>2. conns \in [Sockets -> ConnType] /\ entry \in [Files -> EntryType]
    BY <1>1, <1>2 DEF EntryType
  <2>3. /\ resolved \in Seq(ResType) /\ prompts \in Seq(PromptType) /\ down \in Seq(DownFrame)
        /\ up \in [Sockets -> Seq(UpFrame)]
    BY <1>1
  <2>4. /\ pending \subseteq ReqType /\ answers \subseteq AnsType /\ fresh \in [Files -> BOOLEAN]
        /\ created \in [Files -> Nat] /\ starts \in [Files -> Nat]
    BY <1>1
  <2> QED BY <1>1, <2>1, <2>2, <2>3, <2>4
          DEF TypeOK, ReqType, ResType, PromptType, TurnType, ConnType, AnsType, EntryType
<1>4. \A s \in Sockets : conns[s] = NoConn /\ up[s] = <<>> /\ Len(up[s]) = 0 BY <1>1
<1>5. Unopened /\ EntriesRegistered BY <1>1, <1>4 DEF Unopened, EntriesRegistered, IsBridge
<1>6. \A s \in Sockets : RegistersFirst(s) BY <1>2, <1>4 DEF RegistersFirst
<1>7. Current /\ BusyFollows /\ InfoFollows BY <1>1 DEF Current, BusyFollows, InfoFollows
<1>8. OneRefresh BY <1>1 DEF OneRefresh
<1>9. ClaimsCounted
  <2> SUFFICES ASSUME NEW f \in Files PROVE created[f] + Cardinality(Claims(f)) <= starts[f]
    BY DEF ClaimsCounted
  <2>1. Claims(f) = {} BY <1>1, <1>2, <1>4 DEF Claims, Carries
  <2>2. Cardinality(Claims(f)) = 0 BY <2>1, FS_EmptySet
  <2>3. created[f] = 0 /\ starts[f] = 0 BY <1>1
  <2> QED BY <2>2, <2>3
<1>10. SpeechInOrder
  <2>1. Len(prompts) <= 1 BY <1>1
  <2> QED BY <1>1, <2>1 DEF SpeechInOrder, Running
<1> QED BY <1>3, <1>5, <1>6, <1>7, <1>8, <1>9, <1>10 DEF IInv

LEMMA StutterKeeps == ASSUME IInv, UNCHANGED vars PROVE IInv'
<1>1. UNCHANGED <<file, sock, opened, pending, resolved, info, generation, pendingIsNew, armed, prompts,
                  turn, fresh, conns, entry, zone, answers, created, up, down, starts, misapplied,
                  overlap, lost, requests, events>>
  BY DEF vars, ext, srv, history
<1>2. TypeOK /\ Wires /\ OneRefresh /\ ClaimsCounted /\ SpeechInOrder /\ BusyFollows /\ InfoFollows
  BY Parts
<1>3. TypeOK' BY <1>1, <1>2, TypesOf, TypesAre
<1>4. Wires' /\ OneRefresh' /\ ClaimsCounted' /\ SpeechInOrder' /\ BusyFollows' /\ InfoFollows'
  BY <1>1, <1>2, WiresKept, OneRefreshKept, ClaimsKept, SpeechKept, BusyKept, InfoKept
<1> QED BY <1>3, <1>4, PartsPrimed

LEMMA NextKeeps == ASSUME IInv, [Next]_vars PROVE IInv'
<1>1. ASSUME NEW f \in Files, SessionStarts(f) PROVE IInv' BY <1>1, SessionStartsKeeps
<1>2. CASE SessionShutsDown BY <1>2, SessionShutsDownKeeps
<1>3. CASE Connects BY <1>3, ConnectsKeeps
<1>4. CASE Drops BY <1>4, DropsKeeps
<1>5. CASE Restarts BY <1>5, RestartsKeeps
<1>6. ASSUME NEW z \in Infos, ToolCalls(z) PROVE IInv' BY <1>6, ToolCallsKeeps
<1>7. ASSUME NEW z \in Infos, ZoneChanges(z) PROVE IInv' BY <1>7, ZoneChangesKeeps
<1>8. ASSUME NEW r \in pending, TimesOut(r) PROVE IInv' BY <1>8, TimesOutKeeps
<1>9. CASE RefreshContinues BY <1>9, RefreshContinuesKeeps
<1>10. CASE Receive BY <1>10, ReceiveKeeps
<1>11. CASE Types BY <1>11, TypesKeeps
<1>12. CASE TurnStarts BY <1>12, TurnStartsKeeps
<1>13. CASE PromptMeetsTurn BY <1>13, PromptMeetsTurnKeeps
<1>14. CASE TurnEnds BY <1>14, TurnEndsKeeps
<1>15. ASSUME NEW s \in Sockets, Handles(s) PROVE IInv' BY <1>15, HandlesKeeps
<1>16. ASSUME NEW s \in Sockets, RegisterEnds(s) PROVE IInv' BY <1>16, RegisterEndsKeeps
<1>17. ASSUME NEW a \in answers, AnswerSent(a) PROVE IInv' BY <1>17, AnswerSentKeeps
<1>18. ASSUME NEW f \in Files, NEW flag \in BOOLEAN, Relays(f, flag) PROVE IInv'
  BY <1>18, RelaysKeeps
<1>19. CASE UNCHANGED vars BY <1>19, StutterKeeps
<1> QED BY <1>1, <1>2, <1>3, <1>4, <1>5, <1>6, <1>7, <1>8, <1>9, <1>10, <1>11, <1>12, <1>13, <1>14,
           <1>15, <1>16, <1>17, <1>18, <1>19 DEF Next

\* The inductive invariant holds in every reachable state, for any files and answers and any
\* number of sockets and events: frames, claims, refreshes and latch stay in step through
\* drops, restarts, overtaken registrations and answers that cross pushes.
THEOREM InvariantHolds == Spec => []IInv
<1>1. Init => IInv BY InitHolds
<1>2. IInv /\ [Next]_vars => IInv' BY NextKeeps
<1> QED BY <1>1, <1>2, PTL DEF Spec

\* Every variable has its type.
THEOREM TypesHold == Spec => []TypeOK
<1>1. IInv => TypeOK BY DEF IInv
<1> QED BY <1>1, InvariantHolds, PTL

\* The session-created callback fires at most once for each start of a session without
\* messages (the claim `isNew` of cli_register): every claim still under way, in the
\* extension, on a wire or behind a header being read, is counted against a start.
THEOREM OneCallbackPerStart == Spec => []CreatedOncePerStart
<1>1. IInv => CreatedOncePerStart
  <2> SUFFICES ASSUME IInv, NEW f \in Files PROVE created[f] <= starts[f] BY DEF CreatedOncePerStart
  <2>1. created[f] + Cardinality(Claims(f)) <= starts[f] /\ TypeOK BY DEF IInv, ClaimsCounted
  <2>2. Cardinality(Claims(f)) \in Nat BY ClaimsFinite, FS_CardinalityType
  <2>3. created[f] \in Nat /\ starts[f] \in Nat BY <2>1, TypesOf
  <2> QED BY <2>1, <2>2, <2>3
<1> QED BY <1>1, InvariantHolds, PTL

\* A turn is spoken exactly when the message that started it asked for it, as long as
\* prompts reach pi one at a time (the latch that before_agent_start consumes).
THEOREM SpokenAsAsked == Spec => []SpokenAsAskedUnlessOverlap
<1>1. IInv => SpokenAsAskedUnlessOverlap BY DEF IInv, SpeechInOrder, SpokenAsAskedUnlessOverlap
<1> QED BY <1>1, InvariantHolds, PTL

\* Once nothing is on its way the bridge's cached assistant_info is the server's, or given
\* up, and the server's entry says running exactly when pi runs, unless an agent event met
\* no entry of its own socket.
THEOREM EndsAgree == Spec => []EndsAgreeUnlessMisapplied
<1>1. IInv => InfoIsCurrent
  <2> SUFFICES ASSUME IInv, Quiet PROVE info \in {zone, Unsupported} BY DEF InfoIsCurrent
  <2>1. sock # 0 /\ down = <<>> /\ resolved = <<>> /\ pending = {} BY DEF Quiet
  <2>2. HasPush \/ info \in {zone, Unsupported} \/ Asking \/ Answered BY <2>1 DEF IInv, InfoFollows
  <2>3. ~HasPush
    <3>1. Len(down) = 0 BY <2>1
    <3> QED BY <3>1 DEF HasPush, PushIn
  <2> QED BY <2>1, <2>2, <2>3 DEF Asking, Answered
<1>2. IInv => BusyAgreesUnlessMisapplied
  <2> SUFFICES ASSUME IInv, Quiet, ~misapplied, IsBridge(file), entry[file].sock = sock
               PROVE  entry[file].busy = Running
    BY DEF BusyAgreesUnlessMisapplied
  <2>1. sock # 0 /\ up[sock] = <<>> /\ TypeOK /\ Wires BY Parts DEF Quiet
  <2>2. file \in Files /\ entry[file] \in Bridge BY <2>1, SocketFacts, BridgeFacts
  <2>3. Silent(up[sock])
    <3>1. Len(up[sock]) = 0 BY <2>1
    <3> QED BY <3>1 DEF Silent
  <2>4. entry[file].busy <=> Running BY <2>1, <2>2, <2>3 DEF IInv, BusyFollows
  <2>5. entry[file].busy \in BOOLEAN BY <2>2 DEF Bridge
  <2> DEFINE a == entry[file].busy
  <2> DEFINE b == Running
  <2>6. b \in BOOLEAN BY DEF Running
  <2> HIDE DEF a, b
  <2>7. a = b BY <2>4, <2>5, <2>6 DEF a, b
  <2> QED BY <2>7 DEF a, b
<1> QED BY <1>1, <1>2, InvariantHolds, PTL DEF EndsAgreeUnlessMisapplied

========================================
