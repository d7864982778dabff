-------------------------- MODULE FolderConflict --------------------------
(***************************************************************************)
(* Viewers that open, create, leave and lose sessions which share a        *)
(* working folder (session_load, session_new, session_leave,               *)
(* folder_conflict_continue and the conflict broadcast of                  *)
(* server/src/index.ts, with the screen client/src/client.ts keeps).       *)
(*                                                                         *)
(* A handler runs to its next await, so a load is up to three steps: the   *)
(* request, the paint after the metadata read, the late attach after the   *)
(* agent's build.  Handlers of one socket start in order but overlap from  *)
(* their first await on.  A frame reaches the screen at once; agents,      *)
(* turns and bridges are the business of SessionPool.                      *)
(***************************************************************************)
EXTENDS Naturals, FiniteSets

CONSTANTS
    File,            \* session files
    Fresh,           \* those that do not exist yet, for session_new
    Folder, FolderOf,\* working folders, and the one of each file
    ReadOnlyFolder,  \* folders a sessions.readOnly pattern matches
    Viewer,          \* web connections: one per socket, never reused
    None,
    MaxEvents        \* bound: requests, closes and folder changes

ASSUME Shape ==
    /\ Fresh \subseteq File /\ ReadOnlyFolder \subseteq Folder
    /\ FolderOf \in [File -> Folder]
    /\ None \notin File \cup Folder \cup Viewer /\ "new" \notin File \cup {None}
    /\ MaxEvents \in Nat

VARIABLES
    resident,  \* files with an entry in the pool
    clients,   \* TrackedSession.clients, empty for a file without an entry
    exists,    \* files on disk
    gone,      \* files deleted; a new session never takes the name of one
    usable,    \* folders that exist and are not being restored
    client,    \* WSClient: one record per viewer
    open,      \* viewers whose socket is open
    screen,    \* what each viewer's client shows
    ops,       \* handlers suspended at an await
    owed,      \* a sessions_updated (and its conflict verdicts) is to be sent
    events,    \* events so far
    ghost,     \* history: viewers attached after their socket had closed
    silent,    \* history: /session/destroy removed a viewed session
    overtaken  \* history: viewers attached by a first load after a second one of
               \* the same file found its folder gone

vars == <<resident, clients, exists, gone, usable, client, open, screen, ops, owed, events,
          ghost, silent, overtaken>>

NoClient == [at |-> None, painted |-> None, pending |-> None, missing |-> None,
             readOnly |-> FALSE, observer |-> FALSE, continued |-> FALSE]
Blank == [file |-> None, want |-> None, readOnly |-> FALSE, banner |-> FALSE,
          continued |-> FALSE, missing |-> FALSE]

Init ==
    /\ resident = {} /\ clients = [f \in File |-> {}]
    /\ exists = File \ Fresh /\ gone = {} /\ usable = Folder
    /\ client = [v \in Viewer |-> NoClient] /\ open = Viewer
    /\ screen = [v \in Viewer |-> Blank]
    /\ ops = {} /\ owed = FALSE /\ events = 0
    /\ ghost = {} /\ silent = FALSE /\ overtaken = {}

Tick == events < MaxEvents /\ events' = events + 1
KeepHistory == UNCHANGED <<ghost, silent, overtaken>>

-----------------------------------------------------------------------------
(* The verdicts.                                                           *)

OtherViewed(f, C) == \E g \in File \ {f} : FolderOf[g] = FolderOf[f] /\ C[g] # {}

\* detectConflict: a session already in the pool is never in conflict.
DetectConflict(f) == f \notin resident /\ OtherViewed(f, clients)

\* hasHardReadOnly: neither reason is ever dismissed.
HardReadOnly(c, d) == d \in ReadOnlyFolder \/ c.missing # None

Attached(c, R) == c.at # None /\ c.at \in R

\* resolveFolderConflictState: a resolved conflict gives back what it took.  The
\* mutant leaves that to the client.
ResolvedNever(c, R, C) == c
Resolved(c, R, C) ==
    IF Attached(c, R) /\ c.observer /\ ~OtherViewed(c.at, C)
    THEN [c EXCEPT !.observer = FALSE,
                   !.readOnly = @ /\ HardReadOnly(c, FolderOf[c.at])]
    ELSE c

\* sendFolderConflict, and what the client makes of the frame: it is for the
\* folder on screen, and a conflict that appears later locks nothing.
Shown(s, c, R, C) ==
    IF ~Attached(c, R) \/ s.file = None \/ FolderOf[s.file] # FolderOf[c.at] THEN s
    ELSE LET active == OtherViewed(c.at, C) IN
         [s EXCEPT !.readOnly = c.readOnly, !.banner = active,
                   !.continued = active /\ (@ \/ ~s.banner)]

\* The trailing edge of the sessions_updated throttle.
Broadcast ==
    /\ owed
    /\ owed' = FALSE
    /\ client' = [v \in Viewer |-> IF v \in open THEN Resolved(client[v], resident, clients)
                                   ELSE client[v]]
    /\ screen' = [v \in Viewer |-> IF v \in open THEN Shown(screen[v], client'[v], resident, clients)
                                   ELSE screen[v]]
    /\ UNCHANGED <<resident, clients, exists, gone, usable, open, ops, events>>
    /\ KeepHistory

-----------------------------------------------------------------------------
(* Attaching and detaching.                                                *)

\* switchClientSession after addClient: off the old session, onto the new one.
\* A file that left the pool meanwhile is pointed at but counts nobody.
Moved(v, f, R) ==
    [g \in File |-> IF g = f /\ f \in R THEN clients[g] \cup {v}
                    ELSE IF g = f THEN clients[g]
                    ELSE IF g = client[v].at THEN clients[g] \ {v} ELSE clients[g]]

Detached(c) == [c EXCEPT !.at = None, !.observer = FALSE, !.continued = FALSE,
                         !.pending = None]

\* The start of every load: earlier decisions belong to the session being left.
LoadStarts(c) == [c EXCEPT !.continued = FALSE, !.missing = None, !.painted = None]

\* session_leave.
Left(c) == LET d == [c EXCEPT !.missing = None, !.painted = None] IN
           IF c.at = None THEN d ELSE [Detached(d) EXCEPT !.readOnly = FALSE]

Op(v, kind, f, d, warm) ==
    [n |-> events + 1, v |-> v, kind |-> kind, file |-> f, folder |-> d, warm |-> warm]

-----------------------------------------------------------------------------
(* Requests: the synchronous part of each handler.                         *)

\* joinSession (a retry, a deep link): a load without a leave.
Join(v, f) ==
    /\ v \in open /\ f \in exists /\ Tick
    /\ client' = [client EXCEPT ![v] = LoadStarts(@)]
    /\ screen' = [screen EXCEPT ![v].want = f, ![v].banner = FALSE, ![v].continued = FALSE,
                                ![v].missing = FALSE]
    /\ ops' = ops \cup {Op(v, "meta", f, FolderOf[f], f \in resident)}
    /\ UNCHANGED <<resident, clients, exists, gone, usable, open, owed>>
    /\ KeepHistory

\* switchSession: the leave of the session on screen, and the load, in one go.
Switch(v, f) ==
    /\ v \in open /\ f \in exists /\ screen[v].file # f /\ Tick
    /\ LET leaves == screen[v].file # None IN
       /\ client' = [client EXCEPT ![v] = LoadStarts(IF leaves THEN Left(@) ELSE @)]
       /\ clients' = IF leaves THEN Moved(v, None, resident) ELSE clients
       /\ owed' = (owed \/ (leaves /\ client[v].at # None))
    /\ screen' = [screen EXCEPT ![v] = [Blank EXCEPT !.want = f]]
    /\ ops' = ops \cup {Op(v, "meta", f, FolderOf[f], f \in resident)}
    /\ UNCHANGED <<resident, exists, gone, usable, open>>
    /\ KeepHistory

AtList(v) == screen[v].file = None /\ screen[v].want = None

\* leaveSession: the frame goes out only for a session that is on screen.
Leave(v) ==
    /\ v \in open /\ ~AtList(v) /\ Tick
    /\ IF screen[v].file = None THEN UNCHANGED <<client, clients, owed>>
       ELSE /\ client' = [client EXCEPT ![v] = Left(@)]
            /\ clients' = Moved(v, None, resident)
            /\ owed' = (owed \/ client[v].at # None)
    /\ screen' = [screen EXCEPT ![v] = Blank]
    /\ UNCHANGED <<resident, exists, gone, usable, open, ops>>
    /\ KeepHistory

New(v, d) ==
    /\ v \in open /\ Tick
    /\ client' = [client EXCEPT ![v].painted = None]
    /\ screen' = [screen EXCEPT ![v].want = "new", ![v].banner = FALSE, ![v].continued = FALSE,
                                ![v].missing = FALSE]
    /\ ops' = ops \cup {Op(v, "create", None, d, FALSE)}
    /\ UNCHANGED <<resident, clients, exists, gone, usable, open, owed>>
    /\ KeepHistory

\* "Continue anyway": the intent is kept for the attach, and lifts at once what
\* is not a hard rule.  A click that names a session of another folder is dropped.
StaleClick(c, s) ==
    LET d == IF Attached(c, resident) THEN FolderOf[c.at] ELSE c.pending IN
    d # None /\ s \in resident /\ FolderOf[s] # d
Continued(c) ==
    LET d == IF Attached(c, resident) THEN FolderOf[c.at] ELSE c.pending IN
    [c EXCEPT !.continued = TRUE, !.readOnly = @ /\ (d = None \/ HardReadOnly(c, d))]

Continue(v) ==
    LET s == screen[v]
        lifted == [s EXCEPT !.readOnly = FALSE, !.continued = TRUE] IN
    /\ v \in open /\ s.banner /\ s.file # None /\ ~s.missing /\ Tick
    /\ IF StaleClick(client[v], s.file)
       THEN client' = client /\ screen' = [screen EXCEPT ![v] = lifted]
       ELSE LET c == Continued(client[v]) IN
            /\ client' = [client EXCEPT ![v] = Resolved(c, resident, clients)]
            /\ screen' = [screen EXCEPT ![v] = Shown(lifted, client'[v], resident, clients)]
    /\ UNCHANGED <<resident, clients, exists, gone, usable, open, ops, owed>>
    /\ KeepHistory

-----------------------------------------------------------------------------
(* The rest of the handlers, after their awaits.                           *)

\* session_created: only the reply the client still waits for is painted.
Paints(s, f, c, banner) ==
    IF s.want # f THEN s
    ELSE [file |-> f, want |-> None, readOnly |-> c.readOnly, banner |-> banner,
          continued |-> FALSE, missing |-> c.missing # None]
\* folder_missing: for the session on screen, whichever load found it.
Locks(s, f, missing) ==
    IF missing /\ s.file \in {None, f} THEN [s EXCEPT !.readOnly = TRUE, !.missing = TRUE] ELSE s

\* readSessionMeta: the folder has to be there, and no restore may run in it.
FolderMissing(op) == op.folder \notin usable

\* session_load after readSessionMeta: paint, then attach a warm session, give
\* up on a missing folder, or go on to build.  `warm` is what the read found
\* when it began.
Paint(op) ==
    LET v == op.v
        f == op.file
        conflict == DetectConflict(f)
        missing == FolderMissing(op)
        c == [client[v] EXCEPT
                !.readOnly = op.folder \in ReadOnlyFolder \/ missing \/ conflict,
                !.observer = conflict, !.pending = op.folder, !.painted = f,
                !.missing = IF missing THEN op.folder ELSE None] IN
    /\ op \in ops /\ op.kind = "meta"
    /\ screen' = IF v \in open 
                 THEN [screen EXCEPT ![v] = Locks(Paints(@, f, c, conflict), f, missing)]
                 ELSE screen
    /\ CASE op.warm ->
              /\ client' = [client EXCEPT ![v] = [c EXCEPT !.at = f]]
              /\ clients' = Moved(v, f, resident)
              /\ owed' = TRUE /\ ops' = ops \ {op}
              /\ ghost' = IF v \in open THEN ghost ELSE ghost \cup {v}
         [] ~op.warm /\ missing ->
              /\ client' = [client EXCEPT ![v] = [Detached(c) EXCEPT !.readOnly = TRUE]]
              /\ clients' = Moved(v, None, resident)
              /\ owed' = TRUE /\ ops' = ops \ {op}
              /\ ghost' = ghost
         [] OTHER ->
              /\ client' = [client EXCEPT ![v] = c]
              /\ ops' = (ops \ {op}) \cup {[op EXCEPT !.kind = "build"]}
              /\ UNCHANGED <<clients, owed, ghost>>
    /\ UNCHANGED <<resident, exists, gone, usable, open, events, silent, overtaken>>

\* The late attach guard: the load is still the one on screen, and the socket is
\* open.  The mutants drop one half each.
AnyLoad(op) == op.v \in open
AnySocket(op) == client[op.v].painted = op.file
StillPainted(op) == client[op.v].painted = op.file /\ op.v \in open

\* The read-only of a cold attach is derived again, so that a click during the
\* build counts.  The mutant forgets the click.
AtAttachForced(op, c) ==
    [c EXCEPT !.at = op.file, !.readOnly = op.folder \in ReadOnlyFolder \/ c.observer]
AtAttach(op, c) ==
    [c EXCEPT !.at = op.file,
              !.readOnly = op.folder \in ReadOnlyFolder \/ (c.observer /\ ~c.continued)]

Attach(op) ==
    LET v == op.v
        R == resident \cup {op.file} IN
    /\ op \in ops /\ op.kind = "build"
    /\ resident' = R
    /\ ops' = ops \ {op}
    /\ IF StillPainted(op)
       THEN LET C == Moved(v, op.file, R) IN
            /\ clients' = C
            /\ client' = [client EXCEPT ![v] = Resolved(AtAttach(op, @), R, C)]
            /\ screen' = [screen EXCEPT ![v] = Shown(@, client'[v], R, C)]
            /\ owed' = TRUE
       ELSE UNCHANGED <<clients, client, screen, owed>>
    /\ overtaken' = IF StillPainted(op) /\ client[v].missing # None
                    THEN overtaken \cup {v} ELSE overtaken
    /\ UNCHANGED <<exists, gone, usable, open, events, ghost, silent>>

\* A build that fails leaves the conversation readable and attaches nobody.
BuildFails(op) ==
    /\ op \in ops /\ op.kind = "build" /\ op.file \notin resident
    /\ ops' = ops \ {op}
    /\ UNCHANGED <<resident, clients, exists, gone, usable, client, open, screen, owed, events>>
    /\ KeepHistory

\* createNewSession (forceNew): a folder made if need be, a file of its own.
CreatesFile(op, f) ==
    /\ op \in ops /\ op.kind = "create" /\ f \in Fresh \ (exists \cup gone) /\ FolderOf[f] = op.folder
    /\ ops' = ops \ {op}
    /\ gone' = gone
    /\ resident' = resident \cup {f} /\ exists' = exists \cup {f}
    /\ usable' = usable \cup {op.folder}

\* session_new, once the session exists: locked if the folder is occupied.
Created(op, f) ==
    LET v == op.v
        d == op.folder
        R == resident \cup {f}
        C == Moved(v, f, R)
        occupied == OtherViewed(f, C)
        c == [Detached(client[v]) EXCEPT
                !.at = f, !.missing = None, !.pending = d, !.painted = f,
                !.readOnly = occupied \/ d \in ReadOnlyFolder, !.observer = occupied] IN
    /\ CreatesFile(op, f)
    /\ clients' = C
    /\ client' = [client EXCEPT ![v] = c]
    /\ screen' = IF v \in open /\ screen[v].want = "new"
                 THEN [screen EXCEPT ![v] = Paints([@ EXCEPT !.want = f], f, c, occupied)]
                 ELSE screen
    /\ owed' = TRUE
    /\ ghost' = IF v \in open THEN ghost ELSE ghost \cup {v}
    /\ UNCHANGED <<open, events, silent, overtaken>>

-----------------------------------------------------------------------------
(* The pool, the sockets and the folders.                                  *)

\* The idle timeout of a session nobody views.  The mutant does not look.
EvictAny(f) ==
    /\ f \in resident
    /\ resident' = resident \ {f}
    /\ UNCHANGED <<clients, exists, gone, usable, client, open, screen, ops, owed, events>>
    /\ KeepHistory
Evict(f) ==
    /\ f \in resident /\ clients[f] = {}
    /\ resident' = resident \ {f}
    /\ UNCHANGED <<clients, exists, gone, usable, client, open, screen, ops, owed, events>>
    /\ KeepHistory

\* /session/delete announces the change to every client; /session/destroy, which
\* also keeps the file, does not.
Remove(f, deleted) ==
    LET V == clients[f] IN
    /\ f \in resident /\ Tick
    /\ resident' = resident \ {f}
    /\ clients' = [clients EXCEPT ![f] = {}]
    /\ exists' = IF deleted THEN exists \ {f} ELSE exists
    /\ gone' = IF deleted THEN gone \cup {f} ELSE gone
    /\ client' = [v \in Viewer |-> IF v \in V /\ v \in open
                                   THEN [Detached(client[v]) EXCEPT !.readOnly = FALSE]
                                   ELSE client[v]]
    /\ screen' = [v \in Viewer |->
                    IF v \in V /\ v \in open /\ screen[v].file = f
                    THEN [Blank EXCEPT !.want = screen[v].want] ELSE screen[v]]
    /\ owed' = (owed \/ deleted)
    /\ silent' = (silent \/ (~deleted /\ V # {}))
    /\ UNCHANGED <<usable, open, ops, ghost, overtaken>>

\* evictPreviousConnection: the viewer is back on a new socket.
Retired(c) == Detached(c)

\* A socket closes, or is retired.
Close(v, superseded) ==
    /\ v \in open /\ Tick
    /\ open' = open \ {v}
    /\ clients' = Moved(v, None, resident)
    /\ client' = IF superseded THEN [client EXCEPT ![v] = Retired(@)] ELSE client
    /\ owed' = (owed \/ superseded \/ client[v].at # None)
    /\ UNCHANGED <<resident, exists, gone, usable, screen, ops>>
    /\ KeepHistory

\* A folder vanishes or a restore starts in it; a restore lands.
FolderChanges(d) ==
    /\ Tick
    /\ usable' = IF d \in usable THEN usable \ {d} ELSE usable \cup {d}
    /\ UNCHANGED <<resident, clients, exists, gone, client, open, screen, ops, owed>>
    /\ KeepHistory

Next ==
    \/ Broadcast
    \/ \E v \in Viewer, f \in File : Join(v, f) \/ Switch(v, f)
    \/ \E v \in Viewer : Leave(v) \/ Continue(v)
    \/ \E v \in Viewer, d \in Folder : New(v, d)
    \/ \E op \in ops : Paint(op) \/ Attach(op) \/ BuildFails(op)
    \/ \E op \in ops, f \in Fresh : Created(op, f)
    \/ \E f \in File : Evict(f) \/ \E b \in BOOLEAN : Remove(f, b)
    \/ \E v \in Viewer, b \in BOOLEAN : Close(v, b)
    \/ \E d \in Folder : FolderChanges(d)

Spec == Init /\ [][Next]_vars

-----------------------------------------------------------------------------
(* Properties.                                                             *)

Idle(v) == \A op \in ops : op.v # v
Counted(v) == client[v].at # None /\ v \in clients[client[v].at]

TypeOK ==
    /\ resident \subseteq File /\ exists \subseteq File /\ gone \subseteq File /\ usable \subseteq Folder
    /\ clients \in [File -> SUBSET Viewer] /\ \A f \in File \ resident : clients[f] = {}
    /\ client \in [Viewer -> [at : File \cup {None}, painted : File \cup {None},
                              pending : Folder \cup {None}, missing : Folder \cup {None},
                              readOnly : BOOLEAN, observer : BOOLEAN, continued : BOOLEAN]]
    /\ screen \in [Viewer -> [file : File \cup {None}, want : File \cup {None, "new"},
                              readOnly : BOOLEAN, banner : BOOLEAN, continued : BOOLEAN,
                              missing : BOOLEAN]]
    /\ open \subseteq Viewer /\ overtaken \subseteq Viewer /\ ghost \subseteq Viewer \ open
    /\ owed \in BOOLEAN /\ silent \in BOOLEAN /\ events \in 0..MaxEvents
    /\ \A op \in ops : op.kind \in {"meta", "build", "create"} /\ op.n \in 1..MaxEvents

\* Whoever a session counts as its viewer is connected and attached to it, so
\* nobody's folder is in conflict with a viewer who is not there.
NoPhantomUnlessGhost ==
    \A f \in File : \A v \in clients[f] \ ghost : v \in open /\ client[v].at = f /\ f \in resident

\* A lock that a conflict imposed ends with the conflict, once the throttled
\* broadcast went out.
LockHasReason ==
    ~owed /\ ~silent =>
      \A v \in open : Counted(v) /\ client[v].at = client[v].painted
                      /\ client[v].observer => OtherViewed(client[v].at, clients)

\* The banner on screen is the state of the folder.
BannerIsTrue ==
    ~owed /\ ~silent =>
      \A v \in open : Idle(v) /\ Counted(v)
                      /\ screen[v].file = client[v].at /\ screen[v].want = None =>
                        (screen[v].banner <=> OtherViewed(client[v].at, clients))

\* The composer is locked exactly when the server would refuse the message, once
\* the broadcast went out: no text vanishes and no lock outlives its button.
ComposerAgrees ==
    ~owed =>
    \A v \in open : Idle(v) /\ Counted(v)
                    /\ client[v].at = client[v].painted /\ screen[v].file = client[v].at =>
                      (screen[v].readOnly <=> client[v].readOnly)

\* A hard rule is never lifted by a click meant for a conflict.
HardRuleHolds ==
    \A v \in open \ overtaken :
                    Counted(v) /\ client[v].painted = client[v].at
                    /\ HardReadOnly(client[v], FolderOf[client[v].at]) => client[v].readOnly

\* "Continue anyway" counts wherever it lands: before the paint, during the build
\* or after the attach.
ContinueIsHonoured ==
    \A v \in open : Idle(v) /\ Counted(v)
                    /\ client[v].at = client[v].painted /\ client[v].continued /\ screen[v].file = client[v].at
                    /\ ~HardReadOnly(client[v], FolderOf[client[v].at]) => ~client[v].readOnly

\* Lock, banner and composer tell each viewer the truth about its folder.
ScreenIsTrue == LockHasReason /\ BannerIsTrue /\ ComposerAgrees

\* A click to continue lifts the lock of a conflict, always, and no other.
VerdictStands == HardRuleHolds /\ ContinueIsHonoured

\* However slow an agent was to build, its load never drags the socket back from
\* the session that was painted since.
NeverDraggedBack ==
    [][\A v \in Viewer : client'[v].at \notin {None, client[v].at} =>
                           client'[v].at = client'[v].painted]_vars

\* Who comes second into a folder observes until it continues.
OpensAsObserver ==
    \A v, w \in open :
      LET c == client[v]
          e == client[w] IN
      (Attached(c, resident) /\ Attached(e, resident)) =>
      ((c.at # e.at /\ FolderOf[c.at] = FolderOf[e.at]) =>
         (c.readOnly \/ e.readOnly \/ c.continued \/ e.continued))

\* A viewer who went back to the list is attached to nothing.
LeavingDetaches ==
    \A v \in open : Idle(v) /\ AtList(v) => client[v].at = None

\* A retired or closed connection is never counted as a second viewer.
NeverASecondViewer == \A f \in File : clients[f] \subseteq open

-----------------------------------------------------------------------------
(* The inductive invariant behind the properties above, viewer by viewer.  *)

\* A suspended load knows the folder of its file.
OpsAreLoads ==
    \A op \in ops :
      /\ op \in [n : 1..MaxEvents, v : Viewer, kind : {"meta", "build", "create"},
                file : File \cup {None}, folder : Folder, warm : BOOLEAN]
      /\ op.kind # "create" => op.file \in File /\ op.folder = FolderOf[op.file]

\* The session that counts a viewer is the one it is attached to.
Placed(v) ==
    \A f \in File : v \in clients[f] /\ v \notin ghost =>
                      v \in open /\ client[v].at = f /\ f \in resident

\* The viewer is counted where its last load was painted.
Showing(v) == Counted(v) /\ client[v].at = client[v].painted
Hard(v) == HardReadOnly(client[v], FolderOf[client[v].at])
HardStands(v) == v \notin overtaken /\ Showing(v) /\ Hard(v) => client[v].readOnly
ClickStands(v) == Showing(v) /\ client[v].continued /\ ~Hard(v) => ~client[v].readOnly

\* A load asked for is one that has not been painted; only one that was warm when it
\* was asked for can be of the session the viewer is still counted in.
WarmLoad(v) == \E op \in ops : op.v = v /\ op.kind = "meta" /\ op.warm
AskedAnew(v) ==
    screen[v].want \in File =>
      /\ screen[v].want \in exists \cup gone
      /\ client[v].painted # screen[v].want
      /\ Counted(v) /\ client[v].at = screen[v].want => WarmLoad(v)

\* With no broadcast to come, lock and banner follow the folder, and the composer the
\* lock, unless the viewer's own load is still to attach.
LockFollows(v) ==
    Counted(v) /\ client[v].at = client[v].painted /\ client[v].observer =>
      OtherViewed(client[v].at, clients)
BannerFollows(v) ==
    Counted(v) /\ screen[v].file = client[v].at /\ screen[v].want = None =>
      WarmLoad(v) \/ (screen[v].banner <=> OtherViewed(client[v].at, clients))
ToAttach(v) == \E op \in ops : op.v = v /\ op.kind = "build" /\ op.file = client[v].painted
ComposerFollows(v) ==
    Showing(v) /\ screen[v].file = client[v].at =>
      ToAttach(v) \/ (screen[v].readOnly <=> client[v].readOnly)

InOrder(v) ==
    /\ HardStands(v) /\ ClickStands(v) /\ AskedAnew(v)
    /\ ~owed /\ ~silent => LockFollows(v) /\ BannerFollows(v)
    /\ ~owed => ComposerFollows(v)

IInv ==
    /\ TypeOK /\ OpsAreLoads
    /\ \A v \in Viewer : Placed(v)
    /\ \A v \in open : InOrder(v)
=============================================================================
