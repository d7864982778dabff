---------------------------- MODULE SessionPool ----------------------------
(***************************************************************************)
(* The server's pool of resident sessions (server/src/session-pool.ts) and *)
(* the connection handlers that drive it (server/src/index.ts).            *)
(*                                                                         *)
(* A session file is driven by at most one of two parties: an agent the    *)
(* server builds, or a terminal `pi` that registers through its bridge     *)
(* socket.  Every handler is one JavaScript turn: it runs without          *)
(* interruption up to its next await, so an action below is the code       *)
(* between two awaits.  Promise continuations run before any other event;  *)
(* they wait in `resumed`, and while it is not empty nothing else moves.   *)
(***************************************************************************)
EXTENDS Naturals, Sequences, FiniteSets

CONSTANTS
    File,        \* session files, the keys of the pool's map
    Viewer,      \* web connections: one per socket, never reused
    Conn,        \* bridge sockets of terminals: one per connection attempt
    Agent,       \* agents the server may build (the pool of fresh identities)
    None,        \* no file, no entry, no agent
    MaxBusy,     \* bound: sends in flight on one entry
    MaxWaiters,  \* bound: callers waiting on one build
    MaxReads     \* bound: session_loads reading what they will paint

ASSUME DistinctNames ==
    /\ None \notin File \cup Viewer \cup Agent \cup Conn
    /\ Agent \cap Conn = {}
ASSUME Bounds == MaxBusy \in Nat /\ MaxWaiters \in Nat /\ MaxReads \in Nat

VARIABLES
    sessions,   \* the pool's map: an entry for every file, NoEntry when absent
    timers,     \* armed idle timers, each <<file, identity of its entry>>
    agents,     \* per agent its file and whether it is fresh, live or dead
    turning,    \* agents with a turn in progress
    builds,     \* pendingSessions: the callers waiting on a file's build
    resumed,    \* continuations of a finished build, still to run
    reloads,    \* rebuilds in progress, each [file, id of the entry it began on]
    pinned,     \* files exempt from the idle teardown of a bridge entry
    conns,      \* per bridge socket its state and the file it registered
    at,         \* WSClient.sessionId: the file a viewer's socket is attached to
    painted,    \* WSClient.paintedSessionFile: what the viewer is looking at
    gone,       \* viewers whose socket closed
    reads,      \* session_loads that await readSessionMeta
    ghosts,     \* history: viewers a warm load attached after their socket closed
    bridge,     \* history: the socket that registered last for a file
    raced,      \* history: files on which one of the named races happened
    tornTwice   \* history: agents shut down more than once

vars == <<sessions, timers, agents, turning, builds, resumed, reloads, pinned,
          conns, at, painted, gone, reads, ghosts, bridge, raced, tornTwice>>
poolVars == <<builds, resumed, reloads, pinned>>
viewVars == <<at, painted, gone, reads, ghosts>>
historyVars == <<bridge, raced, tornTwice>>

EntryId == Agent \cup Conn \cup {None}
Entry == [kind : {"none", "server", "cli"}, id : EntryId, agent : Agent \cup {None},
          clients : SUBSET Viewer, idle : BOOLEAN, reloading : BOOLEAN, busy : Nat]

NoEntry == [kind |-> "none", id |-> None, agent |-> None, clients |-> {},
            idle |-> TRUE, reloading |-> FALSE, busy |-> 0]
ServerEntry(a) == [NoEntry EXCEPT !.kind = "server", !.id = a, !.agent = a]
CliEntry(c, V, streaming) ==
    [NoEntry EXCEPT !.kind = "cli", !.id = c, !.clients = V, !.idle = ~streaming]

\* A caller of loadSession that waits for the build: a viewer's cold load, the
\* handback of a departed terminal's viewers, or a caller with no viewer.
Waiter == [kind : {"view", "handback", "bare"}, who : SUBSET Viewer]
Continuation == [file : File, kind : {"view", "handback", "bare"}, who : SUBSET Viewer]

\* A session_load that awaits readSessionMeta: whose it is, the file, and whether
\* the file was resident when the read began.  `n` tells loads alike apart.
Read == [n : 1..MaxReads, who : Viewer, file : File, warm : BOOLEAN]

Resident(f) == sessions[f].kind # "none"
Settled == resumed = <<>>

Init ==
    /\ sessions = [f \in File |-> NoEntry]
    /\ timers = {}
    /\ agents = [a \in Agent |-> [file |-> None, st |-> "fresh"]]
    /\ turning = {}
    /\ builds = [f \in File |-> <<>>]
    /\ resumed = <<>>
    /\ reloads = {}
    /\ pinned = {}
    /\ conns = [c \in Conn |-> [st |-> "new", file |-> None]]
    /\ at = [v \in Viewer |-> None]
    /\ painted = [v \in Viewer |-> None]
    /\ gone = {}
    /\ reads = {}
    /\ ghosts = {}
    /\ bridge = [f \in File |-> None]
    /\ raced = {}
    /\ tornTwice = {}

-----------------------------------------------------------------------------
(* Idle timers.                                                            *)

\* cancelIdleCheck for the entry e of file f.
Cancelled(f, e, T) == T \ {<<f, e.id>>}

\* scheduleIdleCheck: cancel, then arm only for an idle entry nobody views, and
\* never for a pinned bridge entry.
MayExpire(f, e, exempt) ==
    /\ e.kind # "none"
    /\ ~(e.kind = "cli" /\ f \in exempt)
    /\ e.clients = {}
    /\ e.idle
Rearmed(f, e, T) ==
    Cancelled(f, e, T) \cup IF MayExpire(f, e, pinned) THEN {<<f, e.id>>} ELSE {}

-----------------------------------------------------------------------------
(* Teardown of agents and entries.                                         *)

\* shutdownAndDisposeAgentSession: aborts the turn at once, then disposes.
Shutdown(a) ==
    /\ agents' = [agents EXCEPT ![a].st = "dead"]
    /\ turning' = turning \ {a}
    /\ tornTwice' = IF agents[a].st = "dead" THEN tornTwice \cup {a} ELSE tornTwice

KeepAgents == UNCHANGED <<agents, turning, tornTwice>>

\* The agent of an entry is its own to shut down, except mid-reload, when the
\* reload has it.  The two mutants drop one half each.
OwnsAgentNever(e) == FALSE
OwnsAgentAlways(e) == e.kind = "server"
OwnsAgent(e) == e.kind = "server" /\ ~e.reloading

\* destroySession: an agent being rebuilt is left to its reload, a bridge socket
\* is closed, and the entry is dropped before any await.
Destroy(f) ==
    LET e == sessions[f] IN
    /\ IF OwnsAgent(e) THEN Shutdown(e.agent) ELSE KeepAgents
    /\ conns' = IF e.kind = "cli" /\ conns[e.id].st = "open"
                THEN [conns EXCEPT ![e.id].st = "closing"] ELSE conns
    /\ sessions' = [sessions EXCEPT ![f] = NoEntry]

\* The idle timer of an entry fires: it destroys whatever entry its file has now.
IdleTimeout(f, i) ==
    /\ Settled
    /\ <<f, i>> \in timers
    /\ Destroy(f)
    /\ timers' = Cancelled(f, sessions[f], timers) \ {<<f, i>>}
    /\ UNCHANGED <<poolVars, viewVars, bridge, raced>>

\* /session/destroy and /session/delete: detach the entry's viewers that are still
\* connected, then destroy.
DeleteSession(f) ==
    /\ Settled
    /\ Resident(f)
    /\ Destroy(f)
    /\ timers' = Cancelled(f, sessions[f], timers)
    /\ at' = [v \in Viewer |-> IF v \in sessions[f].clients \ gone THEN None ELSE at[v]]
    /\ UNCHANGED <<poolVars, painted, gone, reads, ghosts, bridge, raced>>

PinSession(f) ==
    /\ Settled
    /\ pinned' = pinned \cup {f}
    /\ timers' = IF sessions[f].kind = "cli" THEN Cancelled(f, sessions[f], timers) ELSE timers
    /\ UNCHANGED <<sessions, agents, turning, builds, resumed, reloads, conns, viewVars, historyVars>>

UnpinSession(f) ==
    /\ Settled
    /\ f \in pinned
    /\ pinned' = pinned \ {f}
    /\ timers' = Cancelled(f, sessions[f], timers)
                   \cup IF MayExpire(f, sessions[f], pinned') THEN {<<f, sessions[f].id>>} ELSE {}
    /\ UNCHANGED <<sessions, agents, turning, builds, resumed, reloads, conns, viewVars, historyVars>>

-----------------------------------------------------------------------------
(* Viewers.                                                                *)

\* switchClientSession leaves the previous file when the new one is another.
Leaves(v, f) == at[v] # None /\ at[v] # f

\* addClient on f, which counts the viewer if f still has an entry, then
\* switchClientSession to f.
Attach(v, f) ==
    LET old  == at[v]
        left == Leaves(v, f)
        after(g) == CASE g = f /\ Resident(f) -> [sessions[g] EXCEPT !.clients = @ \cup {v}]
                      [] left /\ g = old -> [sessions[g] EXCEPT !.clients = @ \ {v}]
                      [] OTHER -> sessions[g]
        stopped == Cancelled(f, sessions[f], timers)
    IN  /\ sessions' = [g \in File |-> after(g)]
        /\ timers' = IF left THEN Rearmed(old, after(old), stopped) ELSE stopped
        /\ at' = [at EXCEPT ![v] = f]

\* removeClient on the file the viewer is attached to, which may have no entry.
Release(v) ==
    LET f == at[v] IN
    /\ sessions' = IF f = None THEN sessions
                   ELSE [sessions EXCEPT ![f].clients = @ \ {v}]
    /\ timers' = IF f = None THEN timers
                 ELSE Rearmed(f, [sessions[f] EXCEPT !.clients = @ \ {v}], timers)

\* switchClientSession to no session.
Detach(v) == Release(v) /\ at' = [at EXCEPT ![v] = None]

\* loadSession for a file with no entry: join its build, or start one.
Wait(f, kind, who) ==
    builds' = [builds EXCEPT ![f] = Append(@, [kind |-> kind, who |-> who])]

\* session_load: nothing is painted any more, and the metadata is read.
LoadStart(v, f) ==
    /\ Settled
    /\ v \notin gone
    /\ \E n \in 1..MaxReads :
         /\ \A r \in reads : r.n # n
         /\ reads' = reads \cup {[n |-> n, who |-> v, file |-> f, warm |-> Resident(f)]}
    /\ painted' = [painted EXCEPT ![v] = None]
    /\ UNCHANGED <<sessions, timers, agents, turning, poolVars, conns, at, gone, ghosts, historyVars>>

\* The read ends, in an error or not, whatever became of the viewer and the file.
ReadEnds(r) == Settled /\ r \in reads /\ reads' = reads \ {r}
Paint(r) == painted' = [painted EXCEPT ![r.who] = r.file]

ReadFails(r) ==
    /\ ReadEnds(r)
    /\ UNCHANGED <<sessions, timers, agents, turning, poolVars, conns, at, painted,
                   gone, ghosts, historyVars>>

\* The file was resident when the read began: painted and attached in one go, with
\* no look at whether the socket is still open.
OpenWarm(r) ==
    /\ ReadEnds(r)
    /\ r.warm
    /\ Paint(r)
    /\ Attach(r.who, r.file)
    /\ ghosts' = IF r.who \in gone THEN ghosts \cup {r.who} ELSE ghosts
    /\ UNCHANGED <<agents, turning, poolVars, conns, gone, historyVars>>

\* It was not: painted now, attached when its build is done.  If it is resident
\* by now, loadSession answers at once.
OpenCold(r) ==
    /\ ReadEnds(r)
    /\ ~r.warm
    /\ Paint(r)
    /\ IF Resident(r.file)
       THEN /\ resumed' = <<[file |-> r.file, kind |-> "view", who |-> {r.who}]>>
            /\ UNCHANGED builds
       ELSE /\ Len(builds[r.file]) < MaxWaiters
            /\ Wait(r.file, "view", {r.who})
            /\ UNCHANGED resumed
    /\ UNCHANGED <<sessions, timers, agents, turning, reloads, pinned, conns, at,
                   gone, ghosts, historyVars>>

\* It was not, and its folder is missing: painted and locked, attached to nothing.
OpenLocked(r) ==
    /\ ReadEnds(r)
    /\ ~r.warm
    /\ Paint(r)
    /\ Detach(r.who)
    /\ UNCHANGED <<agents, turning, poolVars, conns, gone, ghosts, historyVars>>

\* A caller with no viewer (the assistant) loads a file.
LoadUnviewed(f) ==
    /\ Settled
    /\ ~Resident(f)
    /\ Len(builds[f]) < MaxWaiters
    /\ Wait(f, "bare", {})
    /\ UNCHANGED <<sessions, timers, agents, turning, resumed, reloads, pinned,
                   conns, viewVars, historyVars>>

\* session_leave.
Leave(v) ==
    /\ Settled
    /\ v \notin gone
    /\ painted[v] # None \/ at[v] # None
    /\ Detach(v)
    /\ painted' = [painted EXCEPT ![v] = None]
    /\ UNCHANGED <<agents, turning, poolVars, conns, gone, reads, ghosts, historyVars>>

\* The viewer's socket closes: its session counts it no more.  What the connection
\* was attached to is not reset, and a load still in flight reads it.
ViewerGone(v) ==
    /\ Settled
    /\ v \notin gone
    /\ gone' = gone \cup {v}
    /\ Release(v)
    /\ UNCHANGED <<agents, turning, poolVars, conns, at, painted, reads, ghosts, historyVars>>

-----------------------------------------------------------------------------
(* Building an agent for a cold file.                                      *)

\* The build ends well: its entry is put in the map, whatever the map holds by
\* then, and the callers that waited for it run next, in the order they came.
BuildDone(f, a) ==
    /\ Settled
    /\ builds[f] # <<>>
    /\ agents[a].st = "fresh"
    /\ agents' = [agents EXCEPT ![a] = [file |-> f, st |-> "live"]]
    /\ sessions' = [sessions EXCEPT ![f] = ServerEntry(a)]
    /\ resumed' = [i \in 1..Len(builds[f]) |->
                     [file |-> f, kind |-> builds[f][i].kind, who |-> builds[f][i].who]]
    /\ builds' = [builds EXCEPT ![f] = <<>>]
    /\ raced' = IF Resident(f) THEN raced \cup {f} ELSE raced
    /\ UNCHANGED <<timers, turning, reloads, pinned, conns, viewVars, bridge, tornTwice>>

\* The build fails: every caller gets the error and changes nothing.
BuildFailed(f) ==
    /\ Settled
    /\ builds[f] # <<>>
    /\ builds' = [builds EXCEPT ![f] = <<>>]
    /\ UNCHANGED <<sessions, timers, agents, turning, resumed, reloads, pinned,
                   conns, viewVars, historyVars>>

\* The late attach of a cold load, unless its viewer moved on or is gone: then
\* the fresh entry is left to the idle timer.
ResumeViewAnySocket(v, f) ==
    IF painted[v] = f THEN Attach(v, f)
    ELSE timers' = Rearmed(f, sessions[f], timers) /\ UNCHANGED <<sessions, at>>
ResumeView(v, f) ==
    IF painted[v] = f /\ v \notin gone
    THEN Attach(v, f)
    ELSE /\ timers' = Rearmed(f, sessions[f], timers)
         /\ UNCHANGED <<sessions, at>>

\* unregisterCliSession after its load: the entry gets the departed terminal's
\* viewers, in place of whatever viewers it has.
ResumeHandback(f, V) ==
    /\ sessions' = [sessions EXCEPT ![f].clients = V]
    /\ raced' = IF \/ \E v \in V : at[v] # f \/ v \in gone \ ghosts
                   \/ sessions[f].clients # {}
                   \/ <<f, sessions[f].id>> \in timers
                THEN raced \cup {f} ELSE raced
    /\ UNCHANGED <<timers, at>>

Resume ==
    /\ ~Settled
    /\ LET k == Head(resumed) IN
       \/ k.kind = "view" /\ UNCHANGED raced /\ \E v \in k.who : ResumeView(v, k.file)
       \/ k.kind = "handback" /\ ResumeHandback(k.file, k.who)
       \/ k.kind = "bare" /\ UNCHANGED <<sessions, timers, at, raced>>
    /\ resumed' = Tail(resumed)
    /\ UNCHANGED <<agents, turning, builds, reloads, pinned, conns, painted, gone, reads,
                   ghosts, bridge, tornTwice>>

-----------------------------------------------------------------------------
(* Terminals: cli_register, the close of a bridge socket, cli_event.       *)

\* registerCliSession of a resident file: the entry is replaced in the same turn
\* and keeps its viewers; a live server agent is shut down, one being rebuilt is
\* left to its reload.
RegisterResident(c, f, streaming) ==
    LET e == sessions[f] IN
    /\ Settled
    /\ conns[c].st = "new"
    /\ Resident(f)
    /\ IF OwnsAgent(e) THEN Shutdown(e.agent) ELSE KeepAgents
    /\ timers' = Cancelled(f, e, timers)
    /\ sessions' = [sessions EXCEPT ![f] = CliEntry(c, e.clients, streaming)]
    /\ conns' = [conns EXCEPT ![c] = [st |-> "open", file |-> f]]
    /\ bridge' = [bridge EXCEPT ![f] = c]
    /\ UNCHANGED <<poolVars, viewVars, raced>>

\* registerCliSession of a file with no entry: first the header is read.
RegisterCold(c, f) ==
    /\ Settled
    /\ conns[c].st = "new"
    /\ ~Resident(f)
    /\ conns' = [conns EXCEPT ![c] = [st |-> "reading", file |-> f]]
    /\ UNCHANGED <<sessions, timers, agents, turning, poolVars, viewVars, historyVars>>

\* The header is read: the bridge entry is put in the map, whatever the map holds
\* by then and whether or not the socket is still open.
HeaderRead(c, streaming) ==
    LET f == conns[c].file IN
    /\ Settled
    /\ conns[c].st \in {"reading", "orphaned"}
    /\ sessions' = [sessions EXCEPT ![f] = CliEntry(c, {}, streaming)]
    /\ timers' = IF streaming THEN Cancelled(f, sessions[f], timers) ELSE timers
    /\ conns' = [conns EXCEPT ![c].st = IF @ = "reading" THEN "open" ELSE "closed"]
    /\ bridge' = [bridge EXCEPT ![f] = c]
    /\ raced' = IF Resident(f) \/ conns[c].st = "orphaned" THEN raced \cup {f} ELSE raced
    /\ UNCHANGED <<agents, turning, poolVars, viewVars, tornTwice>>

\* No session id can be made out: the registration is refused, the socket stays.
RegisterRefused(c) ==
    /\ Settled
    /\ conns[c].st \in {"reading", "orphaned"}
    /\ conns' = [conns EXCEPT ![c].st = IF @ = "reading" THEN "open" ELSE "closed"]
    /\ UNCHANGED <<sessions, timers, agents, turning, poolVars, viewVars, historyVars>>

\* The entry unregisterCliSession drops.
DropsViewedBridge(e) == e.kind = "cli" /\ e.clients # {}
DropsBridge(e) == e.kind = "cli"

\* A bridge socket closes: unregisterCliSession drops the file's bridge entry,
\* whichever socket it belongs to, and a viewed session gets a server agent again.
BridgeClosed(c) ==
    LET f == conns[c].file
        e == sessions[f]
        drops == DropsBridge(e)
    IN  /\ Settled
        /\ conns[c].st \in {"reading", "open", "closing"}
        /\ drops /\ e.clients # {} => Len(builds[f]) < MaxWaiters
        /\ conns' = [conns EXCEPT ![c].st = IF @ = "reading" THEN "orphaned" ELSE "closed"]
        /\ sessions' = IF drops THEN [sessions EXCEPT ![f] = NoEntry] ELSE sessions
        /\ timers' = IF drops THEN Cancelled(f, e, timers) ELSE timers
        /\ IF drops /\ e.clients # {} THEN Wait(f, "handback", e.clients)
                                      ELSE UNCHANGED builds
        /\ raced' = IF drops /\ e.id # c THEN raced \cup {f} ELSE raced
        /\ UNCHANGED <<agents, turning, resumed, reloads, pinned, viewVars, bridge, tornTwice>>

\* cli_event agent_start / agent_end: taken from any bridge socket of the file.
CliAgentStart(c) ==
    LET f == conns[c].file IN
    /\ Settled
    /\ conns[c].st = "open"
    /\ sessions[f].kind = "cli"
    /\ sessions' = [sessions EXCEPT ![f].idle = FALSE]
    /\ timers' = Cancelled(f, sessions[f], timers)
    /\ UNCHANGED <<agents, turning, poolVars, conns, viewVars, historyVars>>

CliAgentEnd(c) ==
    LET f == conns[c].file IN
    /\ Settled
    /\ conns[c].st = "open"
    /\ sessions[f].kind = "cli"
    /\ sessions' = [sessions EXCEPT ![f].idle = TRUE]
    /\ timers' = Rearmed(f, [sessions[f] EXCEPT !.idle = TRUE], timers)
    /\ UNCHANGED <<agents, turning, poolVars, conns, viewVars, historyVars>>

-----------------------------------------------------------------------------
(* Turns, sends and the rebuild of an agent (/reload).                     *)

\* The events of a live agent are booked on whatever entry its file has now.
AgentStart(a) ==
    LET f == agents[a].file IN
    /\ Settled
    /\ agents[a].st = "live"
    /\ a \notin turning
    /\ turning' = turning \cup {a}
    /\ sessions' = IF Resident(f) THEN [sessions EXCEPT ![f].idle = FALSE] ELSE sessions
    /\ timers' = Cancelled(f, sessions[f], timers)
    /\ UNCHANGED <<agents, poolVars, conns, viewVars, historyVars>>

AgentEnd(a) ==
    LET f == agents[a].file IN
    /\ Settled
    /\ a \in turning
    /\ turning' = turning \ {a}
    /\ sessions' = IF Resident(f) THEN [sessions EXCEPT ![f].idle = TRUE] ELSE sessions
    /\ timers' = Rearmed(f, [sessions[f] EXCEPT !.idle = TRUE], timers)
    /\ UNCHANGED <<agents, poolVars, conns, viewVars, historyVars>>

\* sendUserMessage: refused while the agent is being rebuilt; a server entry
\* counts the call as busy until its prompt (or shell command) returns.
Send(f) ==
    LET e == sessions[f] IN
    /\ Settled
    /\ Resident(f)
    /\ ~e.reloading
    /\ e.busy < MaxBusy
    /\ timers' = Cancelled(f, e, timers)
    /\ sessions' = IF e.kind = "server" THEN [sessions EXCEPT ![f].busy = @ + 1] ELSE sessions
    /\ UNCHANGED <<agents, turning, poolVars, conns, viewVars, historyVars>>

SendReturnsTwice(f) ==
    /\ Settled
    /\ sessions[f].busy > 0
    /\ sessions' = [sessions EXCEPT ![f].busy = @ - 2]
    /\ UNCHANGED <<timers, agents, turning, poolVars, conns, viewVars, historyVars>>
SendReturns(f) ==
    /\ Settled
    /\ sessions[f].busy > 0
    /\ sessions' = [sessions EXCEPT ![f].busy = @ - 1]
    /\ UNCHANGED <<timers, agents, turning, poolVars, conns, viewVars, historyVars>>

\* reloadSession refuses while the agent does anything, or a send is under way.
NotStreaming(e) == e.agent \notin turning
Quiet(e) == e.agent \notin turning /\ e.busy = 0

\* reloadSession past its refusals: the old agent is unsubscribed and shut down.
ReloadStart(f) ==
    LET e == sessions[f] IN
    /\ Settled
    /\ e.kind = "server"
    /\ ~e.reloading
    /\ Quiet(e)
    /\ Shutdown(e.agent)
    /\ sessions' = [sessions EXCEPT ![f].reloading = TRUE]
    /\ reloads' = reloads \cup {[file |-> f, id |-> e.id]}
    /\ UNCHANGED <<timers, builds, resumed, pinned, conns, viewVars, bridge, raced>>

\* What becomes of the new agent: an entry replaced or dropped meanwhile has no
\* use for it, and the reload shuts it down.
RebuiltAnyway(mine) == "live"
Rebuilt(mine) == IF mine THEN "live" ELSE "dead"

\* The rebuild ends well: the entry it began on, if still there, gets the agent.
ReloadDone(r, a) ==
    LET e == sessions[r.file]
        mine == e.id = r.id
        fresh == [e EXCEPT !.agent = a, !.idle = TRUE, !.reloading = FALSE]
    IN  /\ Settled
        /\ r \in reloads
        /\ agents[a].st = "fresh"
        /\ agents' = [agents EXCEPT ![a] = [file |-> r.file, st |-> Rebuilt(mine)]]
        /\ sessions' = IF mine THEN [sessions EXCEPT ![r.file] = fresh] ELSE sessions
        /\ timers' = IF mine THEN Rearmed(r.file, fresh, timers) ELSE timers
        /\ reloads' = reloads \ {r}
        /\ UNCHANGED <<turning, builds, resumed, pinned, conns, viewVars, historyVars>>

ReloadFailedKeepsEntry(r) ==
    /\ Settled
    /\ r \in reloads
    /\ sessions' = IF sessions[r.file].id = r.id
                   THEN [sessions EXCEPT ![r.file].reloading = FALSE] ELSE sessions
    /\ reloads' = reloads \ {r}
    /\ UNCHANGED <<timers, agents, turning, builds, resumed, pinned, conns, viewVars, historyVars>>

\* The rebuild fails: the old agent is gone, so its entry is dropped.
ReloadFailed(r) ==
    LET e == sessions[r.file]
        mine == e.id = r.id
    IN  /\ Settled
        /\ r \in reloads
        /\ sessions' = IF mine THEN [sessions EXCEPT ![r.file] = NoEntry] ELSE sessions
        /\ timers' = IF mine THEN Cancelled(r.file, e, timers) ELSE timers
        /\ reloads' = reloads \ {r}
        /\ UNCHANGED <<agents, turning, builds, resumed, pinned, conns, viewVars, historyVars>>

-----------------------------------------------------------------------------
ViewerStep == \E v \in Viewer :
    \/ \E f \in File : LoadStart(v, f)
    \/ Leave(v)
    \/ ViewerGone(v)
LoadStep == \E r \in reads : ReadFails(r) \/ OpenWarm(r) \/ OpenCold(r) \/ OpenLocked(r)
BuildStep == \E f \in File :
    \/ LoadUnviewed(f)
    \/ \E a \in Agent : BuildDone(f, a)
    \/ BuildFailed(f)
BridgeStep == \E c \in Conn :
    \/ \E f \in File : RegisterCold(c, f) \/ \E s \in BOOLEAN : RegisterResident(c, f, s)
    \/ \E s \in BOOLEAN : HeaderRead(c, s)
    \/ RegisterRefused(c)
    \/ BridgeClosed(c)
    \/ CliAgentStart(c)
    \/ CliAgentEnd(c)
TurnStep ==
    \/ \E a \in Agent : AgentStart(a) \/ AgentEnd(a)
    \/ \E f \in File : Send(f) \/ SendReturns(f)
ReloadStep ==
    \/ \E f \in File : ReloadStart(f)
    \/ \E r \in reloads : ReloadFailed(r) \/ \E a \in Agent : ReloadDone(r, a)
PoolStep == \E f \in File :
    \/ \E i \in EntryId : IdleTimeout(f, i)
    \/ DeleteSession(f)
    \/ PinSession(f)
    \/ UnpinSession(f)

Next == ViewerStep \/ LoadStep \/ BuildStep \/ Resume \/ BridgeStep \/ TurnStep \/ ReloadStep \/ PoolStep

Spec == Init /\ [][Next]_vars

-----------------------------------------------------------------------------
(* Properties.                                                             *)

\* Every variable holds a value of its type.
TypeOK ==
    /\ sessions \in [File -> Entry]
    /\ timers \subseteq File \X EntryId
    /\ agents \in [Agent -> [file : File \cup {None}, st : {"fresh", "live", "dead"}]]
    /\ turning \subseteq Agent
    /\ builds \in [File -> Seq(Waiter)]
    /\ resumed \in Seq(Continuation)
    /\ reloads \subseteq [file : File, id : EntryId]
    /\ pinned \subseteq File
    /\ conns \in [Conn -> [st : {"new", "reading", "orphaned", "open", "closing", "closed"},
                           file : File \cup {None}]]
    /\ at \in [Viewer -> File \cup {None}]
    /\ painted \in [Viewer -> File \cup {None}]
    /\ gone \subseteq Viewer
    /\ reads \subseteq Read
    /\ ghosts \subseteq gone
    /\ bridge \in [File -> Conn \cup {None}]
    /\ raced \subseteq File
    /\ tornTwice \subseteq Agent

Live(f) == {a \in Agent : agents[a].st = "live" /\ agents[a].file = f}
TerminalDrives(f) == bridge[f] # None /\ conns[bridge[f]].st = "open"

\* shutdownAndDisposeAgentSession runs at most once per agent, although a delete,
\* an idle eviction, a takeover and a reload may all reach for the same one: the
\* `reloading` branches of destroySession and registerCliSession, and the
\* identity check after a rebuild, decide who owns it.
ShutDownOnce == tornTwice = {}

\* "The terminal and the server never both run a session" (README: control is
\* handed back and forth with no conflict), as far as the code keeps it: it can
\* fail only where a build or a registration ended on top of an entry that
\* appeared while it waited, or a stale socket's close dropped its successor.
OneDriver(f) ==
    /\ Cardinality(Live(f)) <= 1
    /\ TerminalDrives(f) => Live(f) = {}
OneDriverUnlessRaced == \A f \in File : f \notin raced => OneDriver(f)

\* No agent is left running with nobody to shut it down: a live agent is the one
\* its file's entry names, unless a named race hit the file.
NoLeakUnlessRaced ==
    \A f \in File : f \notin raced =>
        \A a \in Live(f) : sessions[f].kind = "server" /\ sessions[f].agent = a

\* An entry mid-reload has no call in flight on it and no turn: everything that
\* could use the dying agent was refused, and the entry's reload is still running.
ReloadIsExclusive ==
    \A f \in File : sessions[f].reloading =>
        /\ sessions[f].kind = "server"
        /\ sessions[f].busy = 0
        /\ sessions[f].agent \notin turning
        /\ [file |-> f, id |-> sessions[f].id] \in reloads

\* A server entry outside a reload has a live agent of its own file to talk to.
EntryHasAgent ==
    \A f \in File : sessions[f].kind = "server" /\ ~sessions[f].reloading =>
        sessions[f].agent \in Live(f)

\* So whoever finds an entry may use it: it has an agent, or refuses the call while
\* its agent is being rebuilt.
EntryIsUsable == ReloadIsExclusive /\ EntryHasAgent

\* A counted viewer is an attached one: an entry counts no viewer that moved on,
\* and none whose socket is gone but for those a warm load attached after it closed
\* (`ghosts`); idle eviction would wait for it and every other session of the
\* folder would be in conflict with it.  (A race on one file reaches the
\* others: deleting its entry detaches the viewers it wrongly counts from theirs.)
NoPhantomViewer(f) == \A v \in sessions[f].clients : at[v] = f /\ v \notin gone \ ghosts
NoPhantomUnlessRaced == raced = {} => \A f \in File : NoPhantomViewer(f)

\* Only the entry a file has now is timed, and only while nobody views it: no
\* timer outlives its entry to evict the next one, none fires under a viewer.
ViewedIsNotTimed ==
    \A f \in File : f \notin raced =>
        \A i \in EntryId : <<f, i>> \in timers => sessions[f].id = i /\ sessions[f].clients = {}

\* A bridge entry stands for a socket that is open: a message relayed to it
\* reaches a terminal.
BridgeEntryIsOpen(f) == sessions[f].kind = "cli" => conns[sessions[f].id].st = "open"
BridgeEntryIsOpenUnlessRaced == \A f \in File : f \notin raced => BridgeEntryIsOpen(f)

\* What an entry refers to is there: its terminal, its viewers, its timer's entry.
EntryIsTrueUnlessRaced ==
    BridgeEntryIsOpenUnlessRaced /\ NoPhantomUnlessRaced /\ ViewedIsNotTimed

(* The invariant behind the unconditional properties: who owns which agent. *)

\* What an entry of each kind refers to.
EntryShape ==
    \A f \in File : LET e == sessions[f] IN
        /\ e.kind = "none" => e.id = None
        /\ e.kind = "cli" => e.id \in Conn
        /\ e.kind # "server" => ~e.reloading /\ e.busy = 0
        /\ e.kind = "server" => /\ e.id \in Agent /\ agents[e.id].st # "fresh"
                                /\ e.agent \in Agent /\ agents[e.agent].file = f
        /\ e.kind = "server" /\ ~e.reloading => agents[e.agent].st = "live"
        /\ e.reloading => /\ e.busy = 0
                          /\ agents[e.agent].st = "dead"
                          /\ [file |-> f, id |-> e.id] \in reloads

\* A reload that finds the entry it began on finds it still mid-reload.
ReloadShape ==
    \A r \in reloads : /\ r.id \in Agent /\ agents[r.id].st # "fresh"
                       /\ sessions[r.file].id = r.id => sessions[r.file].reloading

AgentShape ==
    /\ \A a \in Agent : agents[a].st = "live" => agents[a].file \in File
    /\ \A a \in turning : agents[a].st = "live"
    /\ tornTwice = {}

ConnShape == \A c \in Conn : conns[c].st # "new" => conns[c].file \in File

Ownership == EntryShape /\ ReloadShape /\ AgentShape /\ ConnShape

(* The invariant behind the properties that hold up to a race. *)

\* A bridge entry names a socket that registered its file, and so does `bridge`.
BridgeShape ==
    \A f \in File :
        /\ sessions[f].kind = "cli" =>
              /\ conns[sessions[f].id].file = f
              /\ conns[sessions[f].id].st \in {"open", "closing", "closed"}
        /\ bridge[f] # None => conns[bridge[f]].st \in {"open", "closing", "closed"}

\* The terminal that registered last has the entry as long as its socket is open.
DriverHasEntry ==
    \A f \in File : f \notin raced /\ TerminalDrives(f) =>
        sessions[f].kind = "cli" /\ sessions[f].id = bridge[f]

TimedIsResident ==
    \A f \in File : f \notin raced => \A i \in EntryId : <<f, i>> \in timers => Resident(f)

Standing ==
    /\ NoLeakUnlessRaced /\ BridgeShape /\ DriverHasEntry
    /\ EntryIsTrueUnlessRaced /\ TimedIsResident

(* What the documentation says without exception; the code does not keep it. *)

\* README.md:35, "zero database lock conflicts": never two drivers on one file.
NeverTwoDrivers == \A f \in File : OneDriver(f)

\* A takeover shuts the server agent down (CONTEXT.md:389): when a bridge entry
\* replaces a server entry, the agent of the latter is dead in the same step.
TakeoverShutsDown ==
    [][\A f \in File :
        OwnsAgent(sessions[f]) /\ sessions'[f].kind = "cli"
            => agents'[sessions[f].agent].st = "dead"]_vars

\* The re-registration of a bridge on a new socket is handled (index.ts:470): the
\* close of a socket leaves the entry of another socket alone.
CloseDropsOwnEntry ==
    [][\A f \in File : \A c \in Conn :
        sessions[f].id = c /\ sessions'[f].kind = "none" /\ conns[c].st = "open"
            => conns'[c].st # "open"]_vars

\* A bridge entry is dropped when its terminal disconnects (index.ts:3680, "the
\* web frontend regains control only once that CLI disconnects").
BridgeEntriesAreOpen == \A f \in File : BridgeEntryIsOpen(f)

\* A session nobody is attached to counts no viewer (index.ts:3243).
NoPhantomViewers == \A f \in File : NoPhantomViewer(f)
\* index.ts:3079, a closed socket's teardown leaves its session "released, not
\* left dangling": no entry counts a viewer whose socket has closed.  A warm load's does.
GoneIsReleased == \A f \in File : sessions[f].clients \cap gone = {}
=============================================================================
