--------------------------- MODULE ClientSession ---------------------------
(***************************************************************************)
(* One viewer's client (client/src/client.ts) over sockets that fail: the  *)
(* connection with its liveness probe and its reconnects, the session on   *)
(* screen with the load or create that is to replace it, and the messages  *)
(* whose delivery is not confirmed yet.                                    *)
(*                                                                         *)
(* A callback of the client is one step.  The server's end of the socket   *)
(* (handleWSMessage, server/src/index.ts) reads frames in order, and a     *)
(* request that awaits is finished in any order.  A socket is "half-open"  *)
(* when the path is dead and neither end was told: what is written to it   *)
(* goes nowhere.  A session's file and its id are one name here.           *)
(***************************************************************************)
EXTENDS Naturals, Sequences, FiniteSets

CONSTANTS
    Old,         \* session files that exist
    NewSession,  \* the ones session_new makes
    MaxMessages, \* bound: messages the user sends
    TextOf,      \* their texts
    Null,
    MaxClientEvents \* bound: user actions, failures and false alarms

Session == Old \cup NewSession
Message == 1..MaxMessages
Maybe(S) == S \cup {Null}
Request == [do : {"load", "new"}, of : Session]

ASSUME SessionShape ==
    /\ Old \cap NewSession = {} /\ Null \notin Session \cup Request
    /\ \A S \in SUBSET Message : S # Null
    /\ MaxMessages \in Nat /\ MaxClientEvents \in Nat
    /\ DOMAIN TextOf = Message

VARIABLES
    c,       \* the client: its socket, timers, and the store's session fields
    view,    \* user bubbles: "none", "sending", "failed" or "plain" (no mark)
    timers,  \* confirmTimers
    saved,   \* localStorage, per session: the unconfirmed messages
    home,    \* the session each message was sent to, Null before
    live,    \* the path of the current socket carries frames
    up, down,\* frames on it
    srv,     \* the server's end: WSClient, requests at an await, builds
    log,     \* per session, the messages the server accepted
    want,    \* history: what the user asked for last
    dropped, \* history: messages the user discarded
    mark,    \* history: which of the known races happened
    clientEvents

conn == <<live, up, down, srv, log>>
clientVars == <<c, view, timers, saved, home, conn, want, dropped, mark, clientEvents>>

IdleClient == [sock |-> "none", retry |-> FALSE, asleep |-> FALSE, probe |-> "no",
               shown |-> Null, fresh |-> FALSE, building |-> FALSE,
               pending |-> Null, queued |-> Null, resume |-> Null, hydrated |-> Null,
               abandoned |-> {}, loading |-> FALSE, resyncing |-> FALSE, creating |-> FALSE,
               loadTimer |-> FALSE, createTimer |-> FALSE]
NoSocket == [at |-> Null, painted |-> Null, work |-> <<>>, cold |-> {}]
NoBubbles == [m \in Message |-> "none"]

Frame(t, s) == [t |-> t, s |-> s, m |-> 0, of |-> {}]
Asks(r) == [Frame(r.do, r.of) EXCEPT !.m = 0]
Load(s) == [do |-> "load", of |-> s]

Connected == c.sock = "open"
Unconfirmed(v) == {m \in Message : v[m] \in {"sending", "failed"}}
Oldest(S) == CHOOSE m \in S : \A n \in S : m <= n
Budget == clientEvents < MaxClientEvents /\ clientEvents' = clientEvents + 1

\* send: a frame leaves only on an OPEN socket, and leaves a half-open one too.
Sends(frames) == up' = IF Connected THEN up \o frames ELSE up

-----------------------------------------------------------------------------
(* The socket.                                                             *)

\* disconnect(false): no timer of the old socket survives it.
TornDown(d) == [d EXCEPT !.sock = "none", !.retry = FALSE, !.probe = "no",
                         !.loading = FALSE, !.creating = FALSE,
                         !.loadTimer = FALSE, !.createTimer = FALSE]

\* connect(undefined, preserve): without preserve the store starts blank.
Connecting(d, preserve) ==
    LET e == [TornDown(d) EXCEPT !.sock = "opening", !.asleep = FALSE] IN
    IF preserve THEN e
    ELSE [e EXCEPT !.shown = Null, !.fresh = FALSE, !.building = FALSE, !.resyncing = FALSE]

\* The frames of a socket that goes away are lost, except that the server may
\* still read the messages written before an orderly close.
LosesSocket ==
    /\ up' = <<>> /\ down' = <<>> /\ srv' = NoSocket /\ live' = TRUE
    /\ \/ UNCHANGED log
       \/ /\ live /\ srv.at # Null
          /\ \E k \in 1..Len(up) :
               /\ \A i \in 1..k : up[i].t = "message" /\ up[i].s = srv.at
               /\ log' = [log EXCEPT ![srv.at] = @ \cup {up[i].m : i \in 1..k}]

\* reconnectNow: a client that shows a session keeps its store.
Reconnect ==
    /\ c' = Connecting(c, c.shown # Null)
    /\ view' = IF c.shown # Null THEN view ELSE NoBubbles

\* The timer of scheduleReconnect fires.
RetryFires ==
    /\ c.retry /\ Reconnect
    /\ UNCHANGED <<timers, saved, home, conn, want, dropped, mark, clientEvents>>

\* onOpen: a request the user made meanwhile goes out instead of the rejoin.  The
\* mutants rejoin only after an explicit suspend, and forget the replay's watchdog.
Opened(d) == [d EXCEPT !.sock = "open", !.abandoned = {}, !.queued = Null, !.resume = Null]
RejoinOnlyResumed(d) == d.resume
RejoinTarget(d) == IF d.resume # Null THEN d.resume ELSE d.shown
Replayed(d) == IF d.queued = Load(RejoinTarget(d)) THEN Null ELSE d.queued
Rejoin(d, s) == [Opened(d) EXCEPT !.resyncing = TRUE, !.fresh = FALSE, !.pending = s,
                                  !.loadTimer = TRUE]
ReplayUnwatched(d, r) ==
    IF r.do = "load"
    THEN [Opened(d) EXCEPT !.loading = TRUE, !.resyncing = FALSE, !.pending = r.of]
    ELSE [Opened(d) EXCEPT !.creating = TRUE, !.loading = FALSE, !.resyncing = FALSE,
                           !.pending = Null]
Replay(d, r) ==
    IF r.do = "load"
    THEN [Opened(d) EXCEPT !.loading = TRUE, !.resyncing = FALSE, !.pending = r.of,
                           !.loadTimer = TRUE]
    ELSE [Opened(d) EXCEPT !.creating = TRUE, !.loading = FALSE, !.resyncing = FALSE,
                           !.pending = Null, !.createTimer = TRUE]
Opens ==
    /\ c.sock = "opening"
    /\ LET r == Replayed(c)
           s == RejoinTarget(c) IN
       \/ /\ r # Null
          /\ c' = Replay(c, r) /\ up' = <<Asks(r)>>
       \/ /\ r = Null /\ s # Null
          /\ c' = Rejoin(c, s) /\ up' = <<Asks(Load(s))>>
       \/ /\ r = Null /\ s = Null
          /\ c' = [Opened(c) EXCEPT !.resyncing = FALSE] /\ UNCHANGED up
    /\ UNCHANGED <<view, timers, saved, home, live, down, srv, log, want, dropped, mark, clientEvents>>

\* The mutant forgets to stop the probe.
ClosedProbing(d) == [d EXCEPT !.sock = "none", !.retry = TRUE,
                              !.loading = FALSE, !.creating = FALSE, !.loadTimer = FALSE,
                              !.resyncing = @ \/ d.shown # Null]
\* onClose, also of a socket that never opened.  The create watchdog is left armed.
Closed(d) == [d EXCEPT !.sock = "none", !.retry = TRUE, !.probe = "no",
                       !.loading = FALSE, !.creating = FALSE, !.loadTimer = FALSE,
                       !.resyncing = @ \/ d.shown # Null]
Closes ==
    /\ c.sock # "none" /\ Budget
    /\ c' = Closed(c) /\ LosesSocket
    /\ UNCHANGED <<view, timers, saved, home, want, dropped, mark>>

\* The path dies and no one is told.
GoesSilent ==
    /\ Connected /\ live /\ Budget
    /\ live' = FALSE
    /\ UNCHANGED <<c, view, timers, saved, home, up, down, srv, log, want, dropped, mark>>

\* checkLiveness finds a silent socket, or noVisible distrusts one (startLivenessProbe).
Probed(kind) ==
    /\ c' = [c EXCEPT !.probe = kind]
    /\ Sends(<<Frame("ping", Null)>>)
    /\ UNCHANGED <<view, timers, saved, home, live, down, srv, log, want, dropped, mark>>
Ticks ==
    /\ Connected /\ c.probe = "no" /\ ~live
    /\ Probed("tick") /\ UNCHANGED clientEvents
BecomesVisible ==
    /\ Connected /\ Budget
    /\ Probed("return")

\* noteVisible on a handshake that stalled.
HandshakeStalls ==
    /\ c.sock = "opening" /\ Budget
    /\ Reconnect
    /\ UNCHANGED <<timers, saved, home, conn, want, dropped, mark>>

\* tearDownStaleSocket.  An answer that is late counts as none.
Condemned(d) == [d EXCEPT !.sock = "none", !.probe = "no", !.loading = FALSE, !.creating = FALSE]
ProbeExpires ==
    /\ Connected /\ c.probe # "no"
    /\ IF live THEN Budget ELSE UNCHANGED clientEvents
    /\ IF c.probe = "return"
       THEN /\ c' = Connecting(Condemned(c), c.shown # Null)
            /\ view' = IF c.shown # Null THEN view ELSE NoBubbles
       ELSE /\ c' = [Condemned(c) EXCEPT !.retry = TRUE]
            /\ UNCHANGED view
    /\ LosesSocket
    /\ UNCHANGED <<timers, saved, home, want, dropped, mark>>

\* suspend and resume, around a page that is hidden.
Suspends ==
    /\ ~c.asleep /\ Budget
    /\ c' = [TornDown(c) EXCEPT !.asleep = TRUE,
                                !.resume = IF c.shown # Null THEN c.shown ELSE @]
    /\ LosesSocket
    /\ UNCHANGED <<view, timers, saved, home, want, dropped, mark>>
Resumes ==
    /\ c.asleep /\ c.sock = "none"
    /\ c' = [Connecting(c, TRUE) EXCEPT !.resyncing = @ \/ RejoinTarget(c) # Null]
    /\ UNCHANGED <<view, timers, saved, home, conn, want, dropped, mark, clientEvents>>

\* The page is reloaded: only localStorage and the on-device copy of the session
\* on screen survive (hydrateCachedSession, then connect with preserve).
ReloadsPage ==
    /\ Budget
    /\ \E s \in {Null, c.shown} :
         /\ c' = [IdleClient EXCEPT !.sock = "opening", !.shown = s, !.hydrated = s,
                                    !.resyncing = s # Null]
         /\ want' = s
    /\ view' = NoBubbles /\ timers' = {}
    /\ LosesSocket
    /\ UNCHANGED <<saved, home, dropped, mark>>

-----------------------------------------------------------------------------
(* What the user asks for.                                                 *)

\* abandonPendingLoad: the replies of what the user moves away from are dropped.
Abandon(d, next, keep) ==
    (d.abandoned \cup {d.pending}
                \cup (IF ~keep /\ ~d.fresh THEN {d.shown} ELSE {})) \ {Null, next}

\* sendSessionLoad and session_new: without a socket the request waits for one.
Asked(d, r) == [d EXCEPT !.queued = IF d.sock = "open" THEN Null ELSE r]
Keep == UNCHANGED <<timers, saved, home, live, down, srv, log, dropped>>

\* A request whose answer may still come on this socket.
Outstanding(do, s) ==
    \/ \E i \in 1..Len(up) : up[i].t = do /\ up[i].s = s
    \/ \E i \in 1..Len(srv.work) : srv.work[i] = [do |-> do, of |-> s]
    \/ \E i \in 1..Len(down) : down[i].t = "created" /\ down[i].s = s
Doubled(do, S) == mark \cup (IF \E s \in S : Outstanding(do, s) THEN {"doubled"} ELSE {})

\* joinSession: a deep link at the start, and reloadSession.
Joins(s) ==
    /\ Budget
    /\ c.shown \in {Null, s} /\ ~c.loading /\ ~c.resyncing /\ ~c.creating
    /\ c' = Asked([c EXCEPT !.loading = TRUE, !.building = FALSE, !.pending = s,
                            !.abandoned = Abandon(c, s, FALSE), !.loadTimer = TRUE], Load(s))
    /\ Sends(<<Asks(Load(s))>>)
    /\ want' = s /\ mark' = Doubled("load", {s})
    /\ UNCHANGED view /\ Keep

\* switchSession, also with nothing on screen.
Blanked(d) == [d EXCEPT !.shown = Null, !.resyncing = FALSE, !.building = FALSE,
                        !.creating = FALSE, !.resume = Null, !.hydrated = Null]
LeftBehind == IF c.shown = Null THEN <<>> ELSE <<Frame("leave", c.shown)>>
Switches(s) ==
    /\ Budget
    /\ c.shown # s \/ c.loading \/ c.resyncing
    /\ c' = Asked([Blanked(c) EXCEPT !.abandoned = Abandon(c, s, FALSE), !.pending = s,
                       !.loading = TRUE, !.createTimer = FALSE, !.loadTimer = TRUE], Load(s))
    /\ Sends(LeftBehind \o <<Asks(Load(s))>>)
    /\ want' = s /\ view' = NoBubbles /\ mark' = Doubled("load", {s})
    /\ Keep

\* createSession.  n stands for the session this very request makes.
Creates(n) ==
    /\ Budget
    /\ ~c.creating /\ log[n] = Null
    /\ LET r == [do |-> "new", of |-> n] IN
       /\ c' = Asked([c EXCEPT !.creating = TRUE, !.loading = FALSE, !.pending = Null,
                          !.abandoned = Abandon(c, Null, TRUE), !.hydrated = Null,
                          !.resume = Null, !.createTimer = TRUE], r)
       /\ Sends(<<Asks(r)>>)
    /\ want' = n
    /\ log' = [log EXCEPT ![n] = {}]
    /\ mark' = Doubled("new", NewSession)
    /\ UNCHANGED <<view, timers, saved, home, live, down, srv, dropped>>

\* leaveSession.  With nothing on screen and nothing asked for it sends nothing.
Leaves ==
    /\ Budget
    /\ LET d == [c EXCEPT !.queued = Null, !.createTimer = FALSE, !.creating = FALSE,
                          !.abandoned = Abandon(c, Null, FALSE)] IN
       IF c.shown = Null /\ c.pending = Null /\ c.resume = Null
       THEN /\ c' = d /\ UNCHANGED <<view, up>>
       ELSE /\ c' = [Blanked(d) EXCEPT !.loading = FALSE, !.loadTimer = FALSE, !.pending = Null]
            /\ Sends(LeftBehind) /\ view' = NoBubbles
    /\ want' = Null
    /\ UNCHANGED mark /\ Keep

-----------------------------------------------------------------------------
(* Messages, which are unconfirmed until the server answers.               *)

\* persistPending: what is unconfirmed in the store is what is kept.
Persists(s, v) == saved' = [saved EXCEPT ![s] = Unconfirmed(v)]
Writes(m) == [t |-> "message", s |-> c.shown, m |-> m, of |-> {}]

\* sendMessage from a composer that is enabled (ChatInput's sendBlocked).
Composable == Connected /\ c.shown # Null /\ ~c.building /\ ~c.resyncing
Submits ==
    /\ Composable /\ Budget
    /\ \E m \in Message :
         /\ home[m] = Null /\ \A n \in 1..(m - 1) : home[n] # Null
         /\ home' = [home EXCEPT ![m] = c.shown]
         /\ view' = [view EXCEPT ![m] = "sending"]
         /\ timers' = timers \cup {m}
         /\ Sends(<<Writes(m)>>)
    /\ Persists(c.shown, view')
    /\ mark' = mark \cup (IF c.fresh THEN {} ELSE {"early"})
    /\ UNCHANGED <<c, live, down, srv, log, want, dropped>>

\* resendMessage; without a socket and a retry it only asks for one.
Resends(m) ==
    /\ view[m] = "failed" /\ c.shown # Null /\ Budget
    /\ IF Connected
       THEN /\ view' = [view EXCEPT ![m] = "sending"]
            /\ timers' = timers \cup {m}
            /\ Sends(<<Writes(m)>>) /\ Persists(c.shown, view')
            /\ UNCHANGED <<c, mark>>
       ELSE /\ c' = [c EXCEPT !.retry = @ \/ c.sock = "none"]
            /\ UNCHANGED <<view, timers, saved, up, mark>>
    /\ UNCHANGED <<home, live, down, srv, log, want, dropped>>

\* discardMessage.
Discards(m) ==
    /\ view[m] = "failed" /\ c.shown # Null
    /\ view' = [view EXCEPT ![m] = "none"]
    /\ timers' = timers \ {m} /\ dropped' = dropped \cup {m}
    /\ Persists(c.shown, view')
    /\ UNCHANGED <<c, home, conn, want, mark, clientEvents>>

\* The timer of armConfirm fires.
ConfirmExpires(m) ==
    /\ m \in timers /\ timers' = timers \ {m}
    /\ IF view[m] = "sending"
       THEN /\ view' = [view EXCEPT ![m] = "failed"]
            /\ IF c.shown # Null THEN Persists(c.shown, view') ELSE UNCHANGED saved
       ELSE UNCHANGED <<view, saved>>
    /\ UNCHANGED <<c, home, conn, want, dropped, mark, clientEvents>>

\* armLoadWatchdog and armCreateWatchdog: a request that waited for a socket until
\* now is given up.
Unqueued(d, do) == IF d.queued # Null /\ d.queued.do = do THEN Null ELSE d.queued
LoadExpires ==
    /\ c.loadTimer
    /\ c' = [c EXCEPT !.loadTimer = FALSE, !.loading = FALSE, !.resyncing = FALSE,
                      !.queued = Unqueued(c, "load")]
    /\ UNCHANGED <<view, timers, saved, home, conn, want, dropped, mark, clientEvents>>
CreateExpires ==
    /\ c.createTimer
    /\ c' = [c EXCEPT !.createTimer = FALSE, !.creating = FALSE,
                      !.queued = Unqueued(c, "new")]
    /\ mark' = IF c.creating THEN mark \cup {"late"} ELSE mark
    /\ UNCHANGED <<view, timers, saved, home, conn, want, dropped, clientEvents>>

-----------------------------------------------------------------------------
(* What the server answers.                                                *)

\* A session_created is taken only when it is the reply that is waited for.  The
\* mutant takes every reply while a create is on its way.
AcceptsAbandoned(d, s) == s = d.pending \/ (d.pending = Null /\ d.creating)
Accepts(d, s) == s = d.pending \/ (d.pending = Null /\ d.creating /\ s \notin d.abandoned)
OnCreated(f) ==
    LET d == [c EXCEPT !.probe = "no", !.createTimer = FALSE] IN
    /\ c' = IF Accepts(c, f.s)
            THEN [d EXCEPT !.abandoned = @ \ {f.s}, !.pending = Null, !.hydrated = Null,
                           !.shown = f.s, !.fresh = FALSE, !.creating = FALSE,
                           !.building = f.m = 1]
            ELSE [d EXCEPT !.abandoned = @ \cup ({f.s} \ {c.shown})]
    /\ mark' = mark
         \cup (IF ~Accepts(c, f.s) /\ c.creating THEN {"disarmed"} ELSE {})
         \cup (IF /\ Accepts(c, f.s)
                  /\ \E m \in Unconfirmed(view) : home[m] # f.s THEN {"moved"} ELSE {})
    /\ UNCHANGED <<view, timers, saved>>

\* message_history reconciles what is unconfirmed, in the store and in
\* localStorage, with the transcript: by text, one of each text.  The mutant
\* forgets localStorage.
Stale(f) == (c.shown # Null /\ f.s # c.shown) \/ f.s \in c.abandoned
CandidatesInFlight(s) == Unconfirmed(view)
Candidates(s) == saved[s] \cup Unconfirmed(view)
Texts(S) == {TextOf[m] : m \in S}
Undelivered(s, L) ==
    {m \in Candidates(s) : /\ TextOf[m] \notin Texts(L)
                          /\ ~\E n \in Candidates(s) : n < m /\ TextOf[n] = TextOf[m]}
OnHistory(f) ==
    IF Stale(f)
    THEN /\ c' = [c EXCEPT !.probe = "no"] /\ UNCHANGED <<view, timers, saved, mark>>
    ELSE /\ c' = [c EXCEPT !.probe = "no", !.fresh = TRUE, !.loading = FALSE,
                           !.resyncing = FALSE, !.loadTimer = FALSE]
         /\ view' = [m \in Message |-> IF m \in Undelivered(f.s, f.of) THEN "failed"
                                      ELSE IF m \in f.of THEN "plain" ELSE "none"]
         /\ timers' = timers \ Candidates(f.s)
         /\ Persists(f.s, view')
         /\ mark' = IF \E m \in Unconfirmed(view) : home[m] # f.s THEN mark \cup {"moved"} ELSE mark

\* session_ready, for the session on screen.
OnReady(f) ==
    /\ c' = [c EXCEPT !.probe = "no", !.building = @ /\ c.shown \notin {Null, f.s}]
    /\ UNCHANGED <<view, timers, saved, mark>>

\* message_ack (and the user's echo in message_end): by text, the oldest first.
Acked(f) == {m \in Unconfirmed(view) : TextOf[m] = TextOf[f.m]}
OnAck(f) ==
    /\ c' = [c EXCEPT !.probe = "no"]
    /\ IF Acked(f) = {} THEN UNCHANGED <<view, timers, saved, mark>>
       ELSE LET m == Oldest(Acked(f)) IN
            /\ view' = [view EXCEPT ![m] = "plain"]
            /\ timers' = timers \ {m}
            /\ IF c.shown # Null THEN Persists(c.shown, view') ELSE UNCHANGED saved
            /\ mark' = IF m # f.m \/ home[m] # f.s THEN mark \cup {"mistaken"} ELSE mark

\* session_error.  The one that answers the load of a session painted from the
\* device's copy takes that paint down (rejectHydration).
Cleared(d) == [d EXCEPT !.probe = "no", !.loadTimer = FALSE, !.createTimer = FALSE,
                        !.creating = FALSE, !.loading = FALSE, !.resyncing = FALSE,
                        !.building = FALSE]
RejectsPaint(f) == f.s = Null /\ c.hydrated # Null /\ c.pending = c.hydrated
OnError(f) ==
    /\ IF RejectsPaint(f)
       THEN /\ c' = [Cleared(c) EXCEPT !.shown = Null, !.fresh = FALSE, !.pending = Null,
                                       !.hydrated = Null]
            /\ view' = NoBubbles
       ELSE c' = Cleared(c) /\ UNCHANGED view
    /\ mark' = mark
         \cup (IF c.creating THEN {"disarmed"} ELSE {})
         \cup (IF RejectsPaint(f) /\ Outstanding("load", c.pending) THEN {"misread"} ELSE {})
    /\ UNCHANGED <<timers, saved>>

\* session_destroyed disarms the load watchdog whatever session it is about.
OnDestroyed(f) ==
    /\ IF f.s = c.shown
       THEN /\ c' = [c EXCEPT !.probe = "no", !.loadTimer = FALSE, !.loading = FALSE,
                              !.shown = Null, !.building = FALSE]
            /\ view' = NoBubbles
       ELSE /\ c' = [c EXCEPT !.probe = "no", !.loadTimer = FALSE]
            /\ UNCHANGED view
    /\ mark' = IF c.loading \/ c.resyncing THEN mark \cup {"disarmed"} ELSE mark
    /\ UNCHANGED <<timers, saved>>

OnPong(f) == c' = [c EXCEPT !.probe = "no"] /\ UNCHANGED <<view, timers, saved, mark>>

\* onMessage: whatever arrives answers the probe.
Reads ==
    /\ Connected /\ live /\ down # <<>>
    /\ down' = Tail(down)
    /\ LET f == Head(down) IN
       \/ f.t = "created" /\ OnCreated(f)
       \/ f.t = "history" /\ OnHistory(f)
       \/ f.t = "ready" /\ OnReady(f)
       \/ f.t = "ack" /\ OnAck(f)
       \/ f.t = "error" /\ OnError(f)
       \/ f.t = "destroyed" /\ OnDestroyed(f)
       \/ f.t = "pong" /\ OnPong(f)
    /\ UNCHANGED <<home, live, up, srv, log, want, dropped, clientEvents>>

-----------------------------------------------------------------------------
(* The server's end of the socket.                                         *)

Client == <<c, view, timers, saved, home, want, dropped>>

\* A request runs to its first await; the painted session is forgotten before it.
ServerTakes(f) ==
    /\ srv' = [srv EXCEPT !.painted = Null, !.work = Append(@, [do |-> f.t, of |-> f.s])]
    /\ UNCHANGED <<down, log>>
ServerLeaves ==
    /\ srv' = [srv EXCEPT !.painted = Null, !.at = Null]
    /\ UNCHANGED <<down, log>>
\* A message goes to the session it names, if the socket is attached to it.
ServerAccepts(f) ==
    /\ IF srv.at = Null THEN UNCHANGED <<down, log>>
       ELSE IF srv.at # f.s
            THEN down' = Append(down, Frame("error", f.s)) /\ UNCHANGED log
            ELSE /\ log' = [log EXCEPT ![f.s] = @ \cup {f.m}]
                 /\ down' = Append(down, [f EXCEPT !.t = "ack"])
    /\ UNCHANGED srv
ServerReads ==
    /\ live /\ up # <<>> /\ up' = Tail(up)
    /\ LET f == Head(up) IN
       \/ f.t \in {"load", "new"} /\ ServerTakes(f)
       \/ f.t = "leave" /\ ServerLeaves
       \/ f.t = "message" /\ ServerAccepts(f)
       \/ f.t = "ping" /\ down' = Append(down, Frame("pong", Null)) /\ UNCHANGED <<srv, log>>
    /\ UNCHANGED <<Client, live, mark, clientEvents>>

Without(q, i) == SubSeq(q, 1, i - 1) \o SubSeq(q, i + 1, Len(q))
History(s) == [Frame("history", s) EXCEPT !.of = log[s]]
PaintFrame(s, pending) == [Frame("created", s) EXCEPT !.m = IF pending THEN 1 ELSE 0]

\* A request is answered: the load of a session in the pool and a create attach,
\* the load of another paints and builds its agent, and either can fail.
ServerAnswers(i) ==
    LET r == srv.work[i]
        rest == Without(srv.work, i) IN
    \/ /\ srv' = [srv EXCEPT !.work = rest, !.painted = r.of, !.at = r.of]
       /\ down' = down \o <<PaintFrame(r.of, FALSE), History(r.of)>>
       /\ UNCHANGED clientEvents
    \/ /\ r.do = "load" /\ srv.at # r.of
       /\ srv' = [srv EXCEPT !.work = rest, !.painted = r.of, !.cold = @ \cup {r.of}]
       /\ down' = down \o <<PaintFrame(r.of, TRUE), History(r.of)>>
       /\ UNCHANGED clientEvents
    \/ /\ Budget
       /\ srv' = [srv EXCEPT !.work = rest]
       /\ down' = Append(down, Frame("error", Null))
ServerFinishes ==
    /\ live
    /\ \E i \in 1..Len(srv.work) :
         /\ ServerAnswers(i)
         /\ mark' = mark \cup (IF i > 1 THEN {"overtaken"} ELSE {})
                         \cup (IF clientEvents' > clientEvents THEN {"failed"} ELSE {})
    /\ UNCHANGED <<Client, live, up, log>>

\* The late attach of a cold load.
ServerBuilds ==
    /\ live
    /\ \E s \in srv.cold :
         \/ /\ srv.painted = s
            /\ srv' = [srv EXCEPT !.cold = @ \ {s}, !.at = s]
            /\ down' = Append(down, Frame("ready", s)) /\ UNCHANGED clientEvents
         \/ /\ srv.painted # s
            /\ srv' = [srv EXCEPT !.cold = @ \ {s}] /\ UNCHANGED <<down, clientEvents>>
         \/ /\ srv.painted = s /\ Budget
            /\ srv' = [srv EXCEPT !.cold = @ \ {s}]
            /\ down' = Append(down, Frame("error", s))
    /\ mark' = mark \cup (IF clientEvents' > clientEvents THEN {"failed"} ELSE {})
    /\ UNCHANGED <<Client, live, up, log>>

\* /session/destroy from another client.
ServerDestroys ==
    /\ live /\ srv.at # Null /\ Budget
    /\ down' = Append(down, Frame("destroyed", srv.at))
    /\ srv' = [srv EXCEPT !.at = Null]
    /\ UNCHANGED <<Client, live, up, log, mark>>

-----------------------------------------------------------------------------
ClientInit ==
    /\ c = [IdleClient EXCEPT !.sock = "opening"]
    /\ view = NoBubbles /\ timers = {} /\ saved = [s \in Session |-> {}]
    /\ home = [m \in Message |-> Null]
    /\ live = TRUE /\ up = <<>> /\ down = <<>> /\ srv = NoSocket
    /\ log = [s \in Session |-> IF s \in Old THEN {} ELSE Null]
    /\ want = Null /\ dropped = {} /\ mark = {} /\ clientEvents = 0

User ==
    \/ \E s \in Old : Joins(s) \/ Switches(s)
    \/ \E n \in NewSession : Creates(n)
    \/ Leaves \/ Submits
    \/ \E m \in Message : Resends(m) \/ Discards(m)
Failure == Closes \/ GoesSilent \/ BecomesVisible \/ HandshakeStalls \/ Suspends \/ ReloadsPage
Network == Opens \/ Reads \/ ServerReads \/ ServerFinishes \/ ServerBuilds
Timer == \/ RetryFires \/ Ticks \/ ProbeExpires \/ LoadExpires \/ CreateExpires
         \/ \E m \in Message : ConfirmExpires(m)
ClientNext == User \/ Failure \/ Network \/ Timer \/ Resumes \/ ServerDestroys

ClientSpec == ClientInit /\ [][ClientNext]_clientVars

-----------------------------------------------------------------------------
Frames == [t : {"load", "new", "leave", "message", "ping", "created", "history", "ready",
                "ack", "error", "destroyed", "pong"},
           s : Maybe(Session), m : 0..(MaxMessages + 1), of : SUBSET Message]
ClientTypeOK ==
    /\ c.sock \in {"none", "opening", "open"} /\ c.probe \in {"no", "tick", "return"}
    /\ {c.shown, c.pending, c.resume, c.hydrated, want} \subseteq Maybe(Session)
    /\ c.queued \in Maybe(Request) /\ c.abandoned \subseteq Session
    /\ view \in [Message -> {"none", "sending", "failed", "plain"}]
    /\ timers \subseteq Message /\ saved \in [Session -> SUBSET Message]
    /\ home \in [Message -> Maybe(Session)]
    /\ up \in Seq(Frames) /\ down \in Seq(Frames)
    /\ {srv.at, srv.painted} \subseteq Maybe(Session)
    /\ \A s \in Session : log[s] \in Maybe(SUBSET Message)
    /\ (Connected => ~c.retry) /\ (c.probe # "no" => Connected)

\* The latest tap wins: whatever replies are still on their way, a session comes on
\* screen only if it is the one the user asked for last.
LatestTapWins == [][c'.shown \notin {Null, c.shown} => c'.shown = want']_clientVars
LatestTapWinsUnlessRaced ==
    [][c'.shown \notin {Null, c.shown} =>
         c'.shown = want' \/ mark \cap {"doubled", "misread"} # {}]_clientVars

\* On an open socket a spinner that blocks the user has a watchdog behind it.
SpinnerIsTimed ==
    Connected => /\ c.loading \/ c.resyncing => c.loadTimer
                 /\ c.creating => c.createTimer

\* Whatever the user waits for has a timer behind it: the spinner, the message that
\* is being sent, and the connection of a client that is not suspended.
SendingIsTimed == \A m \in Message : view[m] = "sending" => m \in timers
NeverParked == ~c.asleep => c.sock # "none" \/ c.retry
NothingIsStuck == /\ "disarmed" \notin mark => SpinnerIsTimed
                  /\ SendingIsTimed
                  /\ NeverParked

\* A message the client took and the server did not get is still offered to the
\* user, on screen or from localStorage, through every reconnect and reload.  Of
\* several with one text it is enough that one is.
OnItsWay(m) == live /\ \E i \in 1..Len(up) : up[i].t = "message" /\ up[i].m = m
Offered(m) == m \in Unconfirmed(view) \/ m \in saved[home[m]]
NeverSilentlyLost ==
    \A m \in Message :
      home[m] # Null =>
        \/ m \in dropped \/ m \in log[home[m]] \/ OnItsWay(m)
        \/ \E k \in Message : TextOf[k] = TextOf[m] /\ home[k] = home[m] /\ Offered(k)
NeverSilentlyLostUnlessRaced ==
    mark \cap {"early", "mistaken", "moved"} = {} => NeverSilentlyLost

\* A bubble without a mark was accepted by the session it was written in; a bubble
\* that was carried to another session, by some session.
ConfirmedIsDelivered ==
    \A m \in Message :
      view[m] = "plain" =>
        \/ m \in log[home[m]]
        \/ "mistaken" \in mark
        \/ "moved" \in mark /\ (\E s \in Session : log[s] # Null /\ m \in log[s])

\* An unconfirmed message is offered only in the session it was written in.
StaysHome == c.fresh /\ c.shown # Null => \A m \in Unconfirmed(view) : home[m] = c.shown
StaysHomeUnlessMoved == "moved" \notin mark => StaysHome

\* A message is delivered, or offered where it was written.
MessagesAreKeptUnlessRaced ==
    NeverSilentlyLostUnlessRaced /\ ConfirmedIsDelivered /\ StaysHomeUnlessMoved

\* Once nothing is on its way, the server is attached to the session on screen.
Quiet == /\ Connected /\ live /\ up = <<>> /\ down = <<>> /\ srv.work = <<>> /\ srv.cold = {}
QuietAgrees == Quiet /\ Composable => srv.at = c.shown
QuietAgreesUnlessRaced ==
    mark \cap {"overtaken", "failed", "late", "doubled", "disarmed"} = {} => QuietAgrees
=============================================================================
