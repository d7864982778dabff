------------------------------- MODULE CliBridge -------------------------------
(***************************************************************************)
(* A terminal pi and the server it bridges to (extension/src/index.ts,     *)
(* extension/src/bridge-requests.ts, the cli_* handlers of index.ts and    *)
(* the bridge half of session-pool.ts).                                    *)
(*                                                                         *)
(* The extension holds one socket for the session the terminal shows.  On  *)
(* every open it registers, reports whether pi is running, and asks for    *)
(* `assistant_info`, whose answer it caches.  The server handles the       *)
(* frames of a socket without waiting for the handler of the frame before: *)
(* a registration that reads the session's header is overtaken by the      *)
(* frames behind it.  Sockets drop with what was on the wire, the server   *)
(* restarts, the terminal changes or reloads its session, requests time    *)
(* out, viewers relay messages.                                            *)
(*                                                                         *)
(* pi (external) is what index.ts uses of it: a prompt starts a turn, or   *)
(* joins the running one when it is a steer, or is refused.                *)
(***************************************************************************)
EXTENDS Naturals, Sequences, FiniteSets, Functions

CONSTANTS
    Files,          \* the sessions the terminal may show
    Infos,          \* the answers the server may give to assistant_info
    None, Server,
    MaxSockets,     \* bound: sockets the extension opens
    MaxEvents       \* bound: things that happen to the system from outside

ASSUME BridgeAssumption ==
    /\ {None, Server} \cap (Files \cup Infos) = {}
    /\ None \notin [asked : BOOLEAN, spoken : BOOLEAN]
    /\ Infos \cap {"info", "unsupported", "disconnected", "refused"} = {}
    /\ MaxSockets \in Nat \ {0}
    /\ MaxEvents \in Nat

Sockets == 1..MaxSockets
Unsupported == "unsupported"
Disconnected == "disconnected"
Refused == "refused"
Steer == "steer"

VARIABLES
    \* the extension
    file,           \* the session it is bound to, or None (sessionFile, ctxVal)
    sock,           \* its open socket, 0 while there is none
    opened,         \* sockets opened so far
    pending,        \* requests waiting for an answer
    resolved,       \* answered refreshes whose continuation has not run
    info,           \* the cached assistant_info
    generation,     \* pushes seen
    pendingIsNew,
    armed,          \* the conversation-mode latch
    prompts,        \* prompts given to pi that it has not taken yet
    turn,           \* pi's running turn, or None
    fresh,          \* sessions without messages
    \* the server
    conns,          \* what it knows of each socket
    entry,          \* the pool's entry of each file: None, Server or a bridge
    zone,           \* its own assistant_info
    answers,        \* answers computed and not sent yet
    created,        \* times the session-created callback fired, per file
    \* the wire
    up, down,
    \* history and bounds
    starts,         \* session_starts of a session without messages, per file
    misapplied,     \* an agent event met no entry of its own socket
    overlap,        \* two prompts were on their way to pi at once
    lost,           \* a relayed, acknowledged message was refused by pi
    requests, events

ext == <<file, sock, opened, pending, resolved, info, generation, pendingIsNew, armed, prompts, turn, fresh>>
srv == <<conns, entry, zone, answers, created>>
history == <<starts, misapplied, overlap, lost>>
vars == <<ext, srv, up, down, history, requests, events>>

-----------------------------------------------------------------------------
(* Types *)

UpFrame ==
         [t : {"register"}, file : Files, isNew : BOOLEAN, busy : BOOLEAN]
    \cup [t : {"start", "end", "closed"}]
    \cup [t : {"request"}, id : Nat, op : {"info"} \cup Infos]

DownFrame ==
         [t : {"response"}, id : Nat, answer : Infos \cup {Refused, None}]
    \cup [t : {"push"}, info : Infos]
    \cup [t : {"message"}, flag : BOOLEAN, mode : {Steer, None}]

Bridge == [sock : Sockets, busy : BOOLEAN]

TypeOK ==
    /\ file \in Files \cup {None}
    /\ opened \in 0..MaxSockets /\ sock \in {0, opened}
    /\ file = None => sock = 0
    \* Nothing waits on a socket that is not there.
    /\ pending \subseteq [id : Nat, op : {"info"} \cup Infos, gen : Nat]
    /\ sock = 0 => pending = {}
    /\ resolved \in Seq([gen : Nat, answer : Infos \cup {Refused, Unsupported, Disconnected}])
    /\ info \in Infos \cup {Unsupported, Disconnected}
    /\ generation \in Nat
    /\ pendingIsNew \in BOOLEAN /\ armed \in BOOLEAN
    /\ prompts \in Seq([flag : BOOLEAN, mode : {Steer, None}])
    /\ turn = None \/ turn \in [asked : BOOLEAN, spoken : BOOLEAN]
    /\ fresh \in [Files -> BOOLEAN]
    /\ conns \in [Sockets -> [file : Files \cup {None}, phase : {"none", "reading", "done"},
                              isNew : BOOLEAN, busy : BOOLEAN, open : BOOLEAN]]
    /\ entry \in [Files -> {None, Server} \cup Bridge]
    /\ zone \in Infos
    /\ answers \subseteq [sock : Sockets, id : Nat, answer : Infos \cup {Refused, None}]
    /\ created \in [Files -> Nat] /\ starts \in [Files -> Nat]
    /\ up \in [Sockets -> Seq(UpFrame)] /\ down \in Seq(DownFrame)
    /\ misapplied \in BOOLEAN /\ overlap \in BOOLEAN /\ lost \in BOOLEAN
    /\ requests \in Nat /\ events \in 0..MaxEvents

-----------------------------------------------------------------------------
(* Helpers *)

Happens == events < MaxEvents /\ events' = events + 1

\* Microtasks run before the next timer or socket event; only frames of one
\* burst are handled with a continuation still waiting.
Settled == resolved = <<>>

Running == turn # None
IsBridge(f) == entry[f] \notin {None, Server}

Sent(frames) == [up EXCEPT ![sock] = @ \o frames]
SentIfOpen(frame) == IF sock = 0 THEN up ELSE Sent(<<frame>>)

Request(id, op) == [t |-> "request", id |-> id, op |-> op]
Waiting(id, op) == [id |-> id, op |-> op, gen |-> generation]

\* What a pending request's promise resolves to; only a refresh has a
\* continuation that changes the cache.
Resolve(reqs, answer) ==
    LET refreshes == {r \in reqs : r.op = "info"}
    IN  resolved \o [i \in 1..Cardinality(refreshes) |->
                        [gen |-> (CHOOSE r \in refreshes : TRUE).gen, answer |-> answer]]

\* The frame reaches the extension only on the socket it still listens to.
Put(s, frame) == IF s = sock /\ conns[s].open THEN <<frame>> ELSE <<>>

\* pushAssistantInfoChanged: every connected bridge.
Push(z) == IF \E s \in Sockets : conns[s].file # None /\ Put(s, 0) # <<>>
           THEN <<[t |-> "push", info |-> z]>>
           ELSE <<>>

-----------------------------------------------------------------------------
(* The extension: sessions and sockets *)

NoConn == [file |-> None, phase |-> "none", isNew |-> FALSE, busy |-> FALSE, open |-> TRUE]

Init ==
    /\ file = None /\ sock = 0 /\ opened = 0
    /\ pending = {} /\ resolved = <<>>
    /\ info = Disconnected /\ generation = 0
    /\ pendingIsNew = FALSE /\ armed = FALSE
    /\ prompts = <<>> /\ turn = None
    /\ fresh = [f \in Files |-> TRUE]
    /\ conns = [s \in Sockets |-> NoConn]
    /\ entry = [f \in Files |-> None]
    /\ zone \in Infos /\ answers = {}
    /\ created = [f \in Files |-> 0] /\ starts = [f \in Files |-> 0]
    /\ up = [s \in Sockets |-> <<>>] /\ down = <<>>
    /\ misapplied = FALSE /\ overlap = FALSE /\ lost = FALSE
    /\ requests = 0 /\ events = 0

\* session_start, bridge enabled: isNew is decided here, then connect().
SessionStarts(f) ==
    /\ Happens /\ Settled /\ file = None
    /\ file' = f
    /\ pendingIsNew' = fresh[f]
    /\ starts' = IF fresh[f] THEN [starts EXCEPT ![f] = @ + 1] ELSE starts
    /\ UNCHANGED <<sock, opened, pending, resolved, info, generation, armed, prompts, turn, fresh,
                   srv, up, down, misapplied, overlap, lost, requests>>

\* Mutant: failAll is not called.
LosesSocketQuietly == sock' = 0 /\ down' = <<>> /\ UNCHANGED <<pending, resolved>>

\* The socket is gone for the extension: no frame of it is heard any more, and
\* what was pending is answered "disconnected".
LosesSocket ==
    /\ sock' = 0 /\ down' = <<>>
    /\ pending' = {}
    /\ resolved' = Resolve(pending, Disconnected)

\* session_shutdown, once pi is idle: disconnect(true) flushes what was sent.
SessionShutsDown ==
    /\ Happens /\ Settled /\ file # None /\ ~Running
    /\ file' = None /\ prompts' = <<>>
    /\ overlap' = (overlap \/ prompts # <<>>)
    /\ IF sock = 0
       THEN UNCHANGED <<sock, pending, resolved, down, up>>
       ELSE LosesSocket /\ up' = Sent(<<[t |-> "closed"]>>)
    /\ UNCHANGED <<opened, info, generation, pendingIsNew, armed, turn, fresh, srv,
                   starts, misapplied, lost, requests>>

\* The socket opens: cli_register, then the refresh.
Opens(isNewAfter, busy) ==
    /\ Settled /\ file # None /\ sock = 0 /\ opened < MaxSockets
    /\ opened' = opened + 1 /\ sock' = opened + 1
    /\ pendingIsNew' = isNewAfter
    /\ pending' = {Waiting(requests, "info")}
    /\ requests' = requests + 1
    /\ up' = [up EXCEPT ![opened + 1] =
                 <<[t |-> "register", file |-> file, isNew |-> pendingIsNew, busy |-> busy],
                   Request(requests, "info")>>]
    /\ UNCHANGED <<file, resolved, info, generation, armed, prompts, turn, fresh, srv, down,
                   history, events>>

\* A mutant: every register of a new session says so.
ConnectsNewAgain == Opens(pendingIsNew, Running)

\* The claim of a new session goes with the first register only, and each
\* register reports whether pi is running now.
Connects == Opens(FALSE, Running)

\* The network takes the socket, with a tail of what was sent on it.
Drops ==
    /\ Happens /\ Settled /\ sock # 0
    /\ LosesSocket
    /\ \E n \in 0..Len(up[sock]) :
          up' = [up EXCEPT ![sock] = Append(SubSeq(@, 1, n), [t |-> "closed"])]
    /\ UNCHANGED <<file, opened, info, generation, pendingIsNew, armed, prompts, turn, fresh, srv,
                   history, requests>>

-----------------------------------------------------------------------------
(* The extension: requests and their answers *)

\* A tool twin runs: assistant_set_timezone, on the socket of the moment.
\* Without one it is answered at once.
ToolCalls(z) ==
    /\ Happens /\ Settled /\ Running /\ sock # 0
    /\ pending' = pending \cup {Waiting(requests, z)}
    /\ up' = Sent(<<Request(requests, z)>>)
    /\ requests' = requests + 1
    /\ UNCHANGED <<file, sock, opened, resolved, info, generation, pendingIsNew, armed, prompts,
                   turn, fresh, srv, down, history>>

TimesOut(r) ==
    /\ Happens /\ Settled
    /\ pending' = pending \ {r}
    /\ resolved' = Resolve({r}, Unsupported)
    /\ UNCHANGED <<file, sock, opened, info, generation, pendingIsNew, armed, prompts, turn, fresh,
                   srv, up, down, history, requests>>

\* What an answer makes of the cache; all there is if the generation is not looked at.
AnswerTaken(r) ==
    CASE r.answer = Refused -> Unsupported
      [] r.answer = Disconnected -> info
      [] OTHER -> r.answer

\* refresh() after its await: a push since it began is newer than its answer.
Refreshed(r) ==
    IF r.gen # generation THEN info ELSE AnswerTaken(r)

RefreshContinues ==
    /\ resolved # <<>>
    /\ info' = Refreshed(Head(resolved))
    /\ resolved' = Tail(resolved)
    /\ UNCHANGED <<file, sock, opened, pending, generation, pendingIsNew, armed, prompts, turn,
                   fresh, srv, up, down, history, requests, events>>

\* handleResponse: an answer nobody waits for is dropped.
Response(m) ==
    LET asked == {r \in pending : r.id = m.id}
    IN  /\ pending' = pending \ asked
        /\ resolved' = Resolve(asked, m.answer)
        /\ UNCHANGED <<info, generation, armed, prompts, overlap>>

Pushed(m) ==
    /\ generation' = generation + 1
    /\ info' = m.info
    /\ UNCHANGED <<pending, resolved, armed, prompts, overlap>>

\* cli_message: the latch takes this message's flag, then pi is given it.
Message(m) ==
    /\ armed' = m.flag
    /\ prompts' = Append(prompts, [flag |-> m.flag, mode |-> m.mode])
    /\ overlap' = (overlap \/ prompts # <<>> \/ (m.flag /\ Running))
    /\ UNCHANGED <<pending, resolved, info, generation>>

Receive ==
    /\ down # <<>>
    /\ down' = Tail(down)
    /\ LET m == Head(down)
       IN  \/ m.t = "response" /\ Response(m)
           \/ m.t = "push" /\ Pushed(m)
           \/ m.t = "message" /\ Message(m)
    /\ UNCHANGED <<file, sock, opened, pendingIsNew, turn, fresh, srv, up,
                   starts, misapplied, lost, requests, events>>

-----------------------------------------------------------------------------
(* The extension: pi's turns *)

\* Something is typed into the terminal.
Types ==
    /\ Happens /\ Settled
    /\ prompts' = Append(prompts, [flag |-> FALSE, mode |-> Steer])
    /\ overlap' = (overlap \/ prompts # <<>>)
    /\ UNCHANGED <<file, sock, opened, pending, resolved, info, generation, pendingIsNew, armed,
                   turn, fresh, srv, up, down, starts, misapplied, lost, requests>>

TurnStartsWith(armedAfter) ==
    /\ Settled /\ prompts # <<>> /\ ~Running
    /\ turn' = [asked |-> Head(prompts).flag, spoken |-> armed]
    /\ armed' = armedAfter
    /\ fresh' = [fresh EXCEPT ![file] = FALSE]
    /\ prompts' = Tail(prompts)
    /\ up' = SentIfOpen([t |-> "start"])
    /\ UNCHANGED <<file, sock, opened, pending, resolved, info, generation, pendingIsNew,
                   srv, down, history, requests, events>>

\* Mutant: the latch is left as it is.
TurnStartsArmed == TurnStartsWith(armed)

\* before_agent_start consumes the latch, whatever it says.
TurnStarts == TurnStartsWith(FALSE)

\* pi runs: a steer joins the turn, anything else is refused.
PromptMeetsTurn ==
    /\ Settled /\ prompts # <<>> /\ Running
    /\ prompts' = Tail(prompts)
    /\ lost' = (lost \/ Head(prompts).mode # Steer)
    /\ UNCHANGED <<file, sock, opened, pending, resolved, info, generation, pendingIsNew, armed,
                   turn, fresh, srv, up, down, starts, misapplied, overlap, requests, events>>

TurnEnds ==
    /\ Settled /\ Running
    /\ turn' = None
    /\ up' = SentIfOpen([t |-> "end"])
    /\ UNCHANGED <<file, sock, opened, pending, resolved, info, generation, pendingIsNew, armed,
                   prompts, fresh, srv, down, history, requests, events>>

-----------------------------------------------------------------------------
(* The server *)

\* registerCliSession: an entry it finds is replaced at once, otherwise the
\* header is read first.
Register(s, m) ==
    LET reads == entry[m.file] = None
    IN  /\ conns' = [conns EXCEPT ![s] = [file |-> m.file, phase |-> IF reads THEN "reading" ELSE "done",
                                          isNew |-> m.isNew, busy |-> m.busy, open |-> TRUE]]
        /\ entry' = IF reads THEN entry ELSE [entry EXCEPT ![m.file] = [sock |-> s, busy |-> m.busy]]
        /\ UNCHANGED <<zone, answers, created, down, misapplied>>

\* handleCliEvent goes to whatever bridge entry the file has.
AgentEvent(s, busy) ==
    LET f == conns[s].file
    IN  /\ entry' = IF IsBridge(f) THEN [entry EXCEPT ![f].busy = busy] ELSE entry
        /\ misapplied' = (misapplied \/ ~IsBridge(f) \/ entry[f].sock # s)
        /\ UNCHANGED <<conns, zone, answers, created, down>>

\* cli_request: the answer is computed now and sent after an await.
Answer(s, m) ==
    LET refused == m.op # "info" /\ entry[conns[s].file] = None
        sets == m.op \in Infos \ {zone} /\ ~refused
        answer == IF refused THEN Refused ELSE IF m.op = "info" THEN zone ELSE None
    IN  /\ zone' = IF sets THEN m.op ELSE zone
        /\ down' = IF sets THEN down \o Push(m.op) ELSE down
        /\ answers' = answers \cup {[sock |-> s, id |-> m.id, answer |-> answer]}
        /\ UNCHANGED <<conns, entry, created, misapplied>>

\* The close: the file's bridge entry goes, and comes back as a server session
\* when viewers are attached (unregisterCliSession).
Closed(s) ==
    LET f == conns[s].file
    IN  /\ conns' = [conns EXCEPT ![s].open = FALSE]
        /\ IF f # None /\ IsBridge(f)
           THEN \E e \in {None, Server} : entry' = [entry EXCEPT ![f] = e]
           ELSE UNCHANGED entry
        /\ UNCHANGED <<zone, answers, created, down, misapplied>>

Handles(s) ==
    /\ up[s] # <<>>
    /\ up' = [up EXCEPT ![s] = Tail(@)]
    /\ LET m == Head(up[s])
       IN  \/ m.t = "register" /\ Register(s, m)
           \/ m.t = "start" /\ AgentEvent(s, TRUE)
           \/ m.t = "end" /\ AgentEvent(s, FALSE)
           \/ m.t = "request" /\ Answer(s, m)
           \/ m.t = "closed" /\ Closed(s)
    /\ UNCHANGED <<ext, starts, overlap, lost, requests, events>>

\* The header was read: the entry is set, and the callback fires for a session
\* that was new and had no entry.
RegisterEnds(s) ==
    LET c == conns[s]
    IN  /\ c.phase = "reading"
        /\ conns' = [conns EXCEPT ![s].phase = "done"]
        /\ entry' = [entry EXCEPT ![c.file] = [sock |-> s, busy |-> c.busy]]
        /\ created' = IF c.isNew THEN [created EXCEPT ![c.file] = @ + 1] ELSE created
        /\ UNCHANGED <<ext, zone, answers, up, down, history, requests, events>>

AnswerSent(a) ==
    /\ answers' = answers \ {a}
    /\ down' = down \o Put(a.sock, [t |-> "response", id |-> a.id, answer |-> a.answer])
    /\ UNCHANGED <<ext, conns, entry, zone, created, up, history, requests, events>>

\* A viewer sends: a steer when the server believes pi is running.  The viewer
\* is answered message_ack when the frame has been handed to the socket.
Relays(f, flag) ==
    /\ Happens /\ IsBridge(f)
    /\ LET e == entry[f]
       IN  down' = down \o Put(e.sock, [t |-> "message", flag |-> flag,
                                        mode |-> IF e.busy THEN Steer ELSE None])
    /\ UNCHANGED <<ext, srv, up, history, requests>>

\* The user's timezone changes, from the web.
ZoneChanges(z) ==
    /\ Happens /\ z # zone
    /\ zone' = z
    /\ down' = down \o Push(z)
    /\ UNCHANGED <<ext, conns, entry, answers, created, up, history, requests>>

\* The server restarts, maybe with another configuration: every socket goes.
Restarts ==
    /\ Happens /\ Settled
    /\ zone' \in Infos
    /\ conns' = [s \in Sockets |-> [NoConn EXCEPT !.open = s > opened]]
    /\ entry' = [f \in Files |-> None]
    /\ answers' = {}
    /\ up' = [s \in Sockets |-> <<>>]
    /\ IF sock = 0 THEN UNCHANGED <<sock, pending, resolved, down>> ELSE LosesSocket
    /\ UNCHANGED <<file, opened, info, generation, pendingIsNew, armed, prompts, turn, fresh,
                   created, history, requests>>

Next ==
    \/ \E f \in Files : SessionStarts(f)
    \/ SessionShutsDown \/ Connects \/ Drops \/ Restarts
    \/ \E z \in Infos : ToolCalls(z) \/ ZoneChanges(z)
    \/ \E r \in pending : TimesOut(r)
    \/ RefreshContinues \/ Receive
    \/ Types \/ TurnStarts \/ PromptMeetsTurn \/ TurnEnds
    \/ \E s \in Sockets : Handles(s) \/ RegisterEnds(s)
    \/ \E a \in answers : AnswerSent(a)
    \/ \E f \in Files, flag \in BOOLEAN : Relays(f, flag)

Spec == Init /\ [][Next]_vars

-----------------------------------------------------------------------------
(* Properties *)

Quiet ==
    /\ sock # 0 /\ up[sock] = <<>> /\ down = <<>>
    /\ resolved = <<>> /\ answers = {} /\ pending = {}

\* Once nothing is on its way, the terminal's cached assistant_info is what the
\* server would answer now, through pushes that cross answers, reconnects and
\* restarts; or it is "unsupported", a refresh having timed out.  The tool
\* twins and the timezone line of every turn read nothing else.
InfoIsCurrent == Quiet => info \in {zone, Unsupported}

\* Once the bridge's frames are handled, the server believes pi running exactly
\* when it is: what viewers show (Abort, composer) and whether their next
\* message is a steer.  Excluded: an agent event that met no entry of its own
\* socket, because a registration was reading the header or sockets overlapped.
BusyAgreesUnlessMisapplied ==
    Quiet /\ ~misapplied /\ IsBridge(file) =>
        (entry[file].sock = sock => entry[file].busy = Running)

\* Once nothing is on its way, the bridge and the server agree on both.
EndsAgreeUnlessMisapplied == InfoIsCurrent /\ BusyAgreesUnlessMisapplied

\* The session-created callback, which moves the assistant pointer, fires at
\* most once for each start of a session without messages, however often the
\* bridge reconnects or the server restarts.
CreatedOncePerStart == \A f \in Files : created[f] <= starts[f]

\* A turn is spoken exactly when the message that started it asked for it, as
\* long as prompts reach pi one at a time.
SpokenAsAskedUnlessOverlap == Running /\ ~overlap => (turn.spoken <=> turn.asked)

\* Claimed by index.ts of the acknowledgement ("accepted by the agent"): a
\* message a viewer was told is delivered is taken by the terminal's pi.
AckedIsTaken == ~lost

-----------------------------------------------------------------------------
(* The inductive invariant behind the properties above.                    *)

\* A socket not opened yet carries nothing.
Unopened ==
    /\ \A s \in Sockets : s > opened => up[s] = <<>> /\ conns[s] = NoConn
    /\ \A a \in answers : a.sock <= opened

\* A socket registers once, with its first frame, and only what registered has a file;
\* its close is its last frame.
RegistersFirst(s) ==
    /\ conns[s].file = None <=> conns[s].phase = "none"
    /\ \A i \in 1..Len(up[s]) : up[s][i].t = "closed" => i = Len(up[s])
    /\ \A i \in 2..Len(up[s]) : up[s][i].t # "register"
    /\ up[s] # <<>> => IF conns[s].phase = "none" THEN Head(up[s]).t \in {"register", "closed"}
                       ELSE Head(up[s]).t # "register"

\* The socket of the moment is open at both ends, for the session of the moment.
Current ==
    sock # 0 =>
      /\ conns[sock].open /\ conns[sock].file \in {None, file}
      /\ \A i \in 1..Len(up[sock]) : up[sock][i].t # "closed"
      /\ conns[sock].phase = "none" => up[sock] # <<>> /\ Head(up[sock]).file = file

\* An entry is that of a socket that registered for the file.
EntriesRegistered ==
    \A f \in Files : IsBridge(f) => conns[entry[f].sock].file = f /\ conns[entry[f].sock].phase = "done"

\* One refresh per socket, waiting for its answer or for its continuation.
OneRefresh ==
    /\ sock = 0 => down = <<>>
    /\ \A r, q \in pending : r.op = "info" /\ q.op = "info" => r = q
    /\ resolved # <<>> => Len(resolved) = 1 /\ \A r \in pending : r.op # "info"
    /\ resolved # <<>> => Head(resolved).gen <= generation
    /\ \A r \in pending : r.gen <= generation /\ r.id < requests
    /\ sock # 0 => \A r \in pending : r.op = "info" =>
         \A i \in 1..Len(up[sock]) :
           up[sock][i].t = "request" /\ up[sock][i].id = r.id => up[sock][i].op = "info"

\* Who may still have the session-created callback fired for f: a socket with its claim,
\* and the extension itself (0).
Carries(s, f) ==
    \/ up[s] # <<>> /\ Head(up[s]).t = "register" /\ Head(up[s]).isNew /\ Head(up[s]).file = f
    \/ conns[s].phase = "reading" /\ conns[s].isNew /\ conns[s].file = f
Claims(f) ==
    {s \in Sockets : Carries(s, f)} \cup {s \in {0} : file = f /\ pendingIsNew}
ClaimsCounted == \A f \in Files : created[f] + Cardinality(Claims(f)) <= starts[f]

\* Without overlap there is one prompt at most, the latch is its flag, and no turn runs
\* with the latch set.
SpeechInOrder ==
    ~overlap =>
      /\ Len(prompts) <= 1
      /\ armed <=> prompts # <<>> /\ Head(prompts).flag
      /\ Running => ~armed /\ (turn.spoken <=> turn.asked)

\* The last frame that says whether pi runs is right, and so is the entry once there is
\* none.
Says(m) == m.t \in {"register", "start", "end"}
SaysBusy(m) == m.t = "start" \/ (m.t = "register" /\ m.busy)
Silent(q) == \A i \in 1..Len(q) : ~Says(q[i])
LastSays(q, t) ==
    \A i \in 1..Len(q) :
      Says(q[i]) /\ (\A j \in i + 1..Len(q) : ~Says(q[j])) => (SaysBusy(q[i]) <=> t # None)
BusyFollows ==
    sock # 0 /\ ~misapplied =>
      /\ LastSays(up[sock], turn)
      /\ Silent(up[sock]) =>
           /\ conns[sock].phase = "reading" => (conns[sock].busy <=> Running)
           /\ \A f \in Files : IsBridge(f) /\ entry[f].sock = sock => (entry[f].busy <=> Running)

\* A push on its way brings the zone of now; without one the cache has it, or has given
\* up, or a refresh that no push outdated will bring it.
PushIn(q) == \E i \in 1..Len(q) : q[i].t = "push"
LastPush(q, z) ==
    \A i \in 1..Len(q) :
      q[i].t = "push" /\ (\A j \in i + 1..Len(q) : q[j].t # "push") => q[i].info = z
HasPush == PushIn(down)
Asking == \E r \in pending : r.op = "info" /\ r.gen = generation
Answered == resolved # <<>> /\ Head(resolved).gen = generation
AnswersAreCurrent ==
    /\ \A r \in pending : r.op = "info" =>
         /\ \A a \in answers : a.sock = sock /\ a.id = r.id =>
              a.answer \in Infos /\ (r.gen = generation => a.answer = zone \/ HasPush)
         /\ \A i \in 1..Len(down) : down[i].t = "response" /\ down[i].id = r.id =>
              down[i].answer \in Infos /\ (r.gen = generation => down[i].answer = zone \/ HasPush)
    /\ Answered => Head(resolved).answer \in {zone, Unsupported} \/ HasPush
BeforeRegistering ==
    conns[sock].phase = "none" =>
      /\ down = <<>> /\ \A a \in answers : a.sock # sock
      /\ resolved # <<>> => Head(resolved).answer = Unsupported
      /\ info = Unsupported \/ Asking \/ Answered
InfoFollows ==
    sock # 0 =>
      /\ LastPush(down, zone) /\ AnswersAreCurrent /\ BeforeRegistering
      /\ HasPush \/ info \in {zone, Unsupported} \/ Asking \/ Answered

IInv ==
    /\ TypeOK /\ Unopened /\ (\A s \in Sockets : RegistersFirst(s)) /\ Current
    /\ EntriesRegistered /\ OneRefresh
    /\ ClaimsCounted /\ SpeechInOrder /\ BusyFollows /\ InfoFollows

=============================================================================
