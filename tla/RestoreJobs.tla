------------------------------ MODULE RestoreJobs ------------------------------
(***************************************************************************)
(* Materialising one missing working folder (server/src/restore-jobs.ts),  *)
(* the handlers that drive it (restore_start, restore_cancel, session_new, *)
(* session_load in server/src/index.ts), the listing's existence cache     *)
(* (session-pool.ts) and what a viewer shows of it (client.ts).            *)
(*                                                                         *)
(* Everything is keyed by the target path, so one path is modelled.  A     *)
(* request starts a job there, joins the running one or is refused; a job  *)
(* clones through a git child, or makes the folder on the next tick and    *)
(* may then run `git init`.  Jobs outlive the socket that asked for them,  *)
(* can be cancelled by any viewer, and are forgotten a while after they    *)
(* settle.  Two observers of the path, one for the viewers and one for the *)
(* listing, live while a job runs.                                         *)
(*                                                                         *)
(* Files are told apart by what they mean: part of a clone, a complete     *)
(* tree, something another program put there.  git (external) may fail,    *)
(* tidies up after itself unless it is killed outright, and refuses a      *)
(* folder that is not empty.  The sessions of the folder are cold: a warm  *)
(* one keeps the agent it has, whatever happens to the folder.             *)
(***************************************************************************)
EXTENDS Naturals, Sequences

CONSTANTS
    Clients,        \* viewers
    MaxJobs,        \* bound: jobs ever started
    MaxEvents       \* bound: taps, drops, listings, outsiders' changes, progress frames

ASSUME RestoreAssumption ==
    /\ MaxJobs \in Nat \ {0}
    /\ MaxEvents \in Nat

JobIds == 1..MaxJobs
Kinds == {"clone", "mkdir", "init"}

VARIABLES
    \* the registry
    jobs,           \* every job ever created, as the closures of its child see it
    current,        \* the job registered at the path, or 0
    nextId,
    relay,          \* restoreObservers holds the path
    listing,        \* folderExistenceObservers holds the path
    \* the handlers
    srv,            \* each viewer's connection
    waits,          \* session_new handlers that have not answered yet
    \* the folder
    disk,
    \* the listing of sessions
    scan,           \* the answer of a stat not delivered yet, if any
    cache,          \* the cached existence, if any
    \* the viewers
    ui, up, down,
    \* history and bounds
    restored,       \* the folder there is what a job that ended well left
    late,           \* a job settled while a stat was on its way
    cut,            \* viewers whose clone lost its socket or never spawned, or who moved on too early
    raced,          \* known ways an agent gets a folder that is not whole
    events

registry == <<jobs, current, nextId, relay, listing>>
handlers == <<srv, waits>>
listed == <<scan, cache>>
viewers == <<ui, up, down>>
history == <<restored, late, cut, raced>>
vars == <<registry, handlers, disk, listed, viewers, history, events>>

-----------------------------------------------------------------------------
(* Types *)

States == {"running", "done", "failed", "cancelled"}

Job == [kind : Kinds, state : States \cup {"none"},
        created : BOOLEAN,      \* the target was missing when it was asked for
        cancel : BOOLEAN,
        proc : {"none", "tick", "spawned", "writing", "ok", "bad"},
        made : BOOLEAN,         \* git made the directory itself
        reaping : BOOLEAN]

Snapshot == [id : 0..MaxJobs, state : States \cup {"none"}]
NoJob == [id |-> 0, state |-> "none"]

\* What a stat said, if there was one.
StatAnswers == {"none", "there", "gone"}

UpFrame ==
         [t : {"load", "leave", "cancel"}]
    \cup [t : {"start"}, kind : Kinds, ok : BOOLEAN]
    \cup [t : {"new"}, clone : BOOLEAN]

DownFrame ==
         [t : {"missing", "started", "progress", "complete"}, job : Snapshot]
    \cup [t : {"created", "rejected", "error"}]

\* The registry: ids are given out in order, a slot is blank until then.
RegistryTypes ==
    /\ jobs \in [JobIds -> Job]
    /\ current \in 0..MaxJobs
    /\ nextId \in 1..MaxJobs + 1 /\ current < nextId
    /\ \A i \in JobIds : jobs[i].state = "none" <=> i >= nextId
    /\ relay \in BOOLEAN /\ listing \in BOOLEAN

\* The handlers: none waits for a job that has settled.
HandlerTypes ==
    /\ srv \in [Clients -> [open : BOOLEAN, pend : BOOLEAN, lock : BOOLEAN,
                            attached : BOOLEAN, seen : StatAnswers]]
    /\ waits \subseteq [client : Clients, open : BOOLEAN, job : 0..MaxJobs, step : {"cloning", "building"}]
    /\ \A w \in waits : w.step = "cloning" => w.job # 0 /\ jobs[w.job].state = "running"

FolderTypes ==
    /\ disk \in [dir : BOOLEAN, files : SUBSET {"part", "tree", "others"}]
    /\ disk.files # {} => disk.dir
    /\ scan \in StatAnswers /\ cache \in StatAnswers

ViewerTypes ==
    /\ ui \in [Clients -> [view : {"away", "loading", "live", "panel", "creating", "clone"},
                           job : Snapshot, asked : BOOLEAN]]
    /\ up \in [Clients -> Seq(UpFrame)]
    /\ down \in [Clients -> Seq(DownFrame)]

HistoryTypes ==
    /\ restored \in BOOLEAN /\ late \in BOOLEAN
    /\ cut \subseteq Clients
    /\ raced \subseteq {"bare", "vanished", "leftover"}
    /\ events \in 0..MaxEvents

\* Every variable holds a value of its type, and what refers to a job refers to one
\* that is there.
TypeOK == RegistryTypes /\ HandlerTypes /\ FolderTypes /\ ViewerTypes /\ HistoryTypes

-----------------------------------------------------------------------------
(* Helpers *)

Running == current # 0 /\ jobs[current].state = "running"

\* git is alive in the folder on behalf of job i.
Live(i) == jobs[i].proc \in {"spawned", "writing"}

Snap(i) == [id |-> i, state |-> jobs[i].state]

\* Is the folder on this connection's screen?
Watches(s) == s.open /\ (s.attached \/ s.pend \/ s.lock)

\* A frame to everyone who watches, and one to a single connection.
Broadcast(d, s, f) == [c \in Clients |-> IF Watches(s[c]) THEN Append(d[c], f) ELSE d[c]]
Answer(d, c, f) == IF srv[c].open THEN [d EXCEPT ![c] = Append(@, f)] ELSE d

Complete(i, s) == [t |-> "complete", job |-> [id |-> i, state |-> s]]

NoFolder == [dir |-> FALSE, files |-> {}]

\* Is this a folder an agent can work in?
Usable == disk.dir /\ "part" \notin disk.files /\ ~\E i \in JobIds : Live(i) /\ jobs[i].kind = "clone"

-----------------------------------------------------------------------------
(* The registry *)

NoProc == [kind |-> "clone", state |-> "none", created |-> FALSE, cancel |-> FALSE,
           proc |-> "none", made |-> FALSE, reaping |-> FALSE]

\* What a request may meet.  A running job is joined before anything else is
\* looked at; making the parent or spawning git may throw inside the request.
Outcomes(kind, ok) ==
    IF Running THEN {"joined"}
    ELSE IF (kind = "clone" /\ ~ok) \/ disk.files # {} THEN {"refused"}
    ELSE IF kind = "clone" THEN {"started", "unspawned"} ELSE {"started"}

NewJob(kind, o) ==
    [NoProc EXCEPT !.kind = kind, !.created = ~disk.dir,
                   !.state = IF o = "unspawned" THEN "failed" ELSE "running",
                   !.proc = IF o = "unspawned" THEN "none" ELSE IF kind = "clone" THEN "spawned" ELSE "tick",
                   !.reaping = o = "unspawned"]

\* A request that keeps its observers when it is refused.
RequestKeepsObservers(kind, ok, o) ==
    /\ o \in Outcomes(kind, ok)
    /\ IF o \in {"started", "unspawned"}
         THEN /\ nextId <= MaxJobs
              /\ jobs' = [jobs EXCEPT ![nextId] = NewJob(kind, o)]
              /\ current' = nextId /\ nextId' = nextId + 1
         ELSE UNCHANGED <<jobs, current, nextId>>
    /\ relay' = (o # "unspawned") /\ listing' = (o # "unspawned")
    /\ cache' = IF o = "unspawned" THEN "none" ELSE cache
    /\ late' = (late \/ (o = "unspawned" /\ scan # "none"))

\* Both observers are taken before the request.  They stay while a job runs;
\* a refusal lets go of them, a job that fails inside the request fires them.
Request(kind, ok, o) ==
    /\ o \in Outcomes(kind, ok)
    /\ IF o \in {"started", "unspawned"}
         THEN /\ nextId <= MaxJobs
              /\ jobs' = [jobs EXCEPT ![nextId] = NewJob(kind, o)]
              /\ current' = nextId /\ nextId' = nextId + 1
         ELSE UNCHANGED <<jobs, current, nextId>>
    /\ relay' = (o \in {"joined", "started"}) /\ listing' = (o \in {"joined", "started"})
    /\ cache' = IF o = "unspawned" THEN "none" ELSE cache
    /\ late' = (late \/ (o = "unspawned" /\ scan # "none"))

\* Handlers that hear of a success only.
ContinuedIfDone(i, s) ==
    IF s # "done" THEN waits
    ELSE {w \in waits : w.job # i \/ w.step = "building"}
             \cup {[w EXCEPT !.step = "building"] : w \in {v \in waits : v.job = i}}

\* The handlers waiting for job i go on: into the creation, which makes the
\* folder if it has to, or to the error that ends them.
Continued(i, s) ==
    {w \in waits : w.job # i \/ w.step = "building"}
        \cup (IF s = "done" THEN {[w EXCEPT !.step = "building"] : w \in {v \in waits : v.job = i}} ELSE {})

Ended(i, s) == {c \in Clients : s # "done" /\ [client |-> c, open |-> TRUE, job |-> i, step |-> "cloning"] \in waits}

\* A job that settles without the listing being told.
FinishUnlisted(i, s, d) ==
    /\ jobs' = [jobs EXCEPT ![i].state = s, ![i].reaping = TRUE,
                            ![i].proc = IF @ = "tick" /\ s = "cancelled" THEN "tick" ELSE "none"]
    /\ relay' = FALSE /\ listing' = FALSE
    /\ late' = (late \/ scan # "none")
    /\ waits' = Continued(i, s)
    /\ disk' = d
    /\ restored' = ((s = "done" \/ restored) /\ disk'.dir)
    /\ UNCHANGED <<current, nextId, srv, scan, cache, ui, down, cut, raced, events>>

\* Job i settles as s with the folder as d: observers, waiting handlers, timer.
Finish(i, s, d) ==
    /\ jobs' = [jobs EXCEPT ![i].state = s, ![i].reaping = TRUE,
                            ![i].proc = IF @ = "tick" /\ s = "cancelled" THEN "tick" ELSE "none"]
    /\ relay' = FALSE /\ listing' = FALSE
    /\ cache' = IF listing THEN "none" ELSE cache
    /\ late' = (late \/ scan # "none")
    /\ waits' = Continued(i, s)
    /\ srv' = [c \in Clients |-> IF c \in Ended(i, s) THEN [srv[c] EXCEPT !.pend = FALSE] ELSE srv[c]]
    /\ down' = LET told == IF relay THEN Broadcast(down, srv, Complete(i, s)) ELSE down
               IN  [c \in Clients |-> IF c \in Ended(i, s) THEN Append(told[c], [t |-> "error"]) ELSE told[c]]
    /\ disk' = IF waits' # waits /\ s = "done" THEN [d EXCEPT !.dir = TRUE] ELSE d
    /\ restored' = ((s = "done" \/ restored) /\ disk'.dir)
    /\ raced' = IF "part" \in disk'.files THEN raced \cup {"leftover"} ELSE raced
    /\ UNCHANGED <<current, nextId, scan, ui, cut, events>>

\* The setImmediate of a folder to be made; a job cancelled before it is left alone.
Tick(i) ==
    /\ jobs[i].proc = "tick"
    /\ IF jobs[i].state # "running"
         THEN /\ jobs' = [jobs EXCEPT ![i].proc = "none"]
              /\ UNCHANGED <<current, nextId, relay, listing, handlers, disk, listed, viewers, history, events>>
         ELSE \/ Finish(i, "failed", disk) /\ UNCHANGED up
              \/ jobs[i].kind = "mkdir" /\ Finish(i, "done", [disk EXCEPT !.dir = TRUE]) /\ UNCHANGED up
              \/ /\ jobs[i].kind = "init"
                 /\ jobs' = [jobs EXCEPT ![i].proc = "spawned"]
                 /\ disk' = [disk EXCEPT !.dir = TRUE]
                 /\ UNCHANGED <<current, nextId, relay, listing, handlers, listed, viewers, history, events>>

\* git (external): a clone begins to write, into an empty or missing folder only.
GitWrites(i) ==
    /\ jobs[i].proc = "spawned" /\ jobs[i].kind = "clone" /\ disk.files = {}
    /\ jobs' = [jobs EXCEPT ![i].proc = "writing", ![i].made = ~disk.dir]
    /\ disk' = [dir |-> TRUE, files |-> {"part"}]
    /\ UNCHANGED <<current, nextId, relay, listing, handlers, listed, viewers, history, events>>

\* git (external) ends: well, badly after tidying up, or killed outright.
GitExits(i) ==
    /\ Live(i)
    /\ \/ /\ jobs[i].kind = "init" \/ jobs[i].proc = "writing"
          /\ jobs' = [jobs EXCEPT ![i].proc = "ok"]
          /\ disk' = IF jobs[i].kind = "clone" THEN [disk EXCEPT !.files = (@ \ {"part"}) \cup {"tree"}] ELSE disk
       \/ /\ jobs' = [jobs EXCEPT ![i].proc = "bad"]
          /\ \/ disk' = disk
             \/ jobs[i].proc = "writing" /\ disk' = IF jobs[i].made THEN NoFolder ELSE [disk EXCEPT !.files = @ \ {"part"}]
    /\ restored' = (restored /\ disk'.dir)
    /\ UNCHANGED <<current, nextId, relay, listing, handlers, listed, viewers, late, cut, raced, events>>

\* The child's close event.
Close(i) ==
    /\ jobs[i].proc \in {"ok", "bad"}
    /\ IF jobs[i].cancel THEN Finish(i, "cancelled", IF jobs[i].created THEN NoFolder ELSE disk)
       ELSE Finish(i, IF jobs[i].proc = "ok" THEN "done" ELSE "failed", disk)
    /\ UNCHANGED up

\* The child's error event: git could not be run at all.
SpawnErrors(i) ==
    /\ jobs[i].proc = "spawned"
    /\ Finish(i, "failed", disk) /\ UNCHANGED up

Progress(i) ==
    /\ events < MaxEvents /\ events' = events + 1
    /\ Live(i) /\ jobs[i].state = "running"
    /\ down' = IF relay THEN Broadcast(down, srv, [t |-> "progress", job |-> Snap(i)]) ELSE down
    /\ UNCHANGED <<registry, handlers, disk, listed, ui, up, history>>

\* A settled job is forgotten after a while, unless another took its place.
Reap(i) ==
    /\ jobs[i].reaping
    /\ jobs' = [jobs EXCEPT ![i].reaping = FALSE]
    /\ current' = IF current = i THEN 0 ELSE current
    /\ UNCHANGED <<nextId, relay, listing, handlers, disk, listed, viewers, history, events>>

-----------------------------------------------------------------------------
(* The handlers *)

\* The next frame of a connection, taken.
Takes(c, t) ==
    /\ srv[c].open /\ up[c] # <<>> /\ Head(up[c]).t = t
    /\ up' = [up EXCEPT ![c] = Tail(@)]

Started(i, s) == [t |-> "started", job |-> [id |-> i, state |-> s]]

\* restore_start.  A job that failed inside the request is reported once more.
RestoreStart(c) ==
    /\ Takes(c, "start")
    /\ \E o \in Outcomes(Head(up[c]).kind, Head(up[c]).ok) :
         /\ Request(Head(up[c]).kind, Head(up[c]).ok, o)
         /\ down' = CASE o = "refused" -> Answer(down, c, [t |-> "rejected"])
                      [] o \in {"joined", "started"} -> Answer(down, c, Started(current', "running"))
                      [] o = "unspawned" ->
                           LET told == Broadcast(down, srv, Complete(current', "failed"))
                           IN  Broadcast(Answer(told, c, Started(current', "failed")), srv, Complete(current', "failed"))
    /\ UNCHANGED <<handlers, disk, scan, ui, restored, cut, raced, events>>

\* A cancel that settles the job without waiting for its git to be gone.
RestoreCancelAtOnce(c) ==
    /\ Takes(c, "cancel")
    /\ IF ~Running
         THEN /\ down' = IF current = 0 THEN down ELSE Answer(down, c, Complete(current, jobs[current].state))
              /\ UNCHANGED <<registry, handlers, disk, listed, ui, history, events>>
         ELSE /\ jobs' = [jobs EXCEPT ![current].cancel = TRUE, ![current].state = "cancelled", ![current].reaping = TRUE]
              /\ relay' = FALSE /\ listing' = FALSE
              /\ down' = Broadcast(down, srv, Complete(current, "cancelled"))
              /\ UNCHANGED <<current, nextId, handlers, disk, listed, ui, history, events>>

\* restore_cancel.  With a child the job settles when it closes; without one, now.
RestoreCancel(c) ==
    /\ Takes(c, "cancel")
    /\ IF ~Running
         THEN /\ down' = IF current = 0 THEN down ELSE Answer(down, c, Complete(current, jobs[current].state))
              /\ UNCHANGED <<registry, handlers, disk, listed, ui, history, events>>
       ELSE IF jobs[current].proc = "tick" THEN Finish(current, "cancelled", disk)
         ELSE /\ jobs' = [jobs EXCEPT ![current].cancel = TRUE]
              /\ UNCHANGED <<current, nextId, relay, listing, handlers, disk, listed, ui, down, history, events>>

Waiting(c, i, step) == [client |-> c, open |-> TRUE, job |-> i, step |-> step]

\* session_new with a remote to clone: it waits for the job like anyone else.
SessionNewClones(c) ==
    /\ Takes(c, "new") /\ Head(up[c]).clone
    /\ \E o \in Outcomes("clone", TRUE) :
         LET s == [srv EXCEPT ![c].pend = TRUE] IN
         /\ Request("clone", TRUE, o)
         /\ srv' = [srv EXCEPT ![c].pend = o \in {"joined", "started"}]
         /\ waits' = waits \cup IF o \in {"joined", "started"} THEN {Waiting(c, current', "cloning")} ELSE {}
         /\ cut' = IF o = "unspawned" THEN cut \cup {c} ELSE cut
         /\ down' = CASE o = "refused" -> Answer(down, c, [t |-> "error"])
                      [] o \in {"joined", "started"} -> Answer(down, c, Started(current', "running"))
                      [] o = "unspawned" ->
                           Answer(Answer(Broadcast(down, s, Complete(current', "failed")),
                                         c, Started(current', "failed")), c, [t |-> "error"])
    /\ UNCHANGED <<disk, scan, ui, restored, raced, events>>

\* session_new without one, or when the probe finds none: it looks at no job.
SessionNewCreates(c) ==
    /\ Takes(c, "new")
    /\ waits' = waits \cup {Waiting(c, 0, "building")}
    /\ disk' = [disk EXCEPT !.dir = TRUE]
    /\ \E found \in {Head(up[c]).clone, FALSE} : srv' = [srv EXCEPT ![c].pend = @ \/ found]
    /\ raced' = IF Running THEN raced \cup {"bare"} ELSE raced
    /\ UNCHANGED <<registry, listed, ui, down, restored, late, cut, events>>

\* The new session exists, or could not be made.
SessionNewEnds(w) ==
    /\ w \in waits /\ w.step = "building"
    /\ waits' = waits \ {w}
    /\ IF ~w.open THEN UNCHANGED <<srv, down>>
       ELSE \/ /\ srv' = [srv EXCEPT ![w.client] = [@ EXCEPT !.attached = TRUE, !.pend = TRUE, !.lock = FALSE]]
               /\ down' = Answer(down, w.client, [t |-> "created"])
            \/ /\ down' = Answer(down, w.client, [t |-> "error"])
               /\ UNCHANGED srv
    /\ UNCHANGED <<registry, disk, listed, ui, up, history, events>>

\* session_load: the stat comes with the transcript, before the verdict.
SessionLoad(c) ==
    /\ Takes(c, "load") /\ srv[c].seen = "none"
    /\ srv' = [srv EXCEPT ![c].lock = FALSE, ![c].seen = IF disk.dir THEN "there" ELSE "gone"]
    /\ UNCHANGED <<registry, waits, disk, listed, ui, down, history, events>>

\* A verdict that trusts the stat alone.
MissingByStat(seen) == seen = "gone"

Missing(seen) == seen = "gone" \/ Running

\* A load that keeps the folder only as the pending one, which detaching clears.
LoadPaintsUnwatched(c) ==
    /\ srv[c].seen # "none"
    /\ LET missing == Missing(srv[c].seen) IN
       /\ srv' = [srv EXCEPT ![c] = [open |-> TRUE, seen |-> "none",
                                     lock |-> FALSE, attached |-> ~missing, pend |-> ~missing]]
       /\ down' = IF missing
                    THEN Answer(down, c, [t |-> "missing", job |-> IF current = 0 THEN NoJob ELSE Snap(current)])
                    ELSE Answer(down, c, [t |-> "created"])
       /\ raced' = IF ~missing /\ ~disk.dir THEN raced \cup {"vanished"} ELSE raced
    /\ UNCHANGED <<registry, waits, disk, listed, ui, up, restored, late, cut, events>>

\* The paint, in one frame with the verdict.  A folder that is not usable gets no
\* agent, whatever its reason.
LoadPaints(c) ==
    /\ srv[c].seen # "none"
    /\ LET missing == Missing(srv[c].seen) IN
       /\ srv' = [srv EXCEPT ![c] = [open |-> TRUE, seen |-> "none",
                                     lock |-> missing, attached |-> ~missing, pend |-> ~missing]]
       /\ down' = IF missing
                    THEN Answer(down, c, [t |-> "missing", job |-> IF current = 0 THEN NoJob ELSE Snap(current)])
                    ELSE Answer(down, c, [t |-> "created"])
       /\ raced' = IF ~missing /\ ~disk.dir THEN raced \cup {"vanished"} ELSE raced
    /\ UNCHANGED <<registry, waits, disk, listed, ui, up, restored, late, cut, events>>

SessionLeave(c) ==
    /\ Takes(c, "leave")
    /\ srv' = [srv EXCEPT ![c] = [@ EXCEPT !.lock = FALSE, !.attached = FALSE,
                                            !.pend = srv[c].pend /\ ~srv[c].attached]]
    /\ UNCHANGED <<registry, waits, disk, listed, ui, down, history, events>>

-----------------------------------------------------------------------------
(* The viewers *)

Elsewhere == [view |-> "away", job |-> NoJob, asked |-> FALSE]
Panel(u) == u.view = "panel"

\* What a frame makes of the screen.
Shown(u, f) ==
    CASE f.t = "created" -> [Elsewhere EXCEPT !.view = "live"]
      [] f.t = "missing" -> [view |-> "panel", job |-> f.job, asked |-> FALSE]
      [] f.t = "error" -> IF u.view = "creating" THEN Elsewhere ELSE u
      [] f.t = "rejected" -> [u EXCEPT !.asked = FALSE]
      [] f.t = "started" /\ u.view = "creating" -> [view |-> "clone", job |-> f.job, asked |-> FALSE]
      [] f.t = "complete" /\ u.view = "clone" ->
           [Elsewhere EXCEPT !.view = IF f.job.state = "done" THEN "creating" ELSE "away"]
      [] OTHER ->
           IF u.view \in {"panel", "clone"} THEN [u EXCEPT !.job = f.job, !.asked = FALSE] ELSE u

Receives(c) ==
    /\ srv[c].open /\ down[c] # <<>>
    /\ ui' = [ui EXCEPT ![c] = Shown(@, Head(down[c]))]
    /\ down' = [down EXCEPT ![c] = Tail(@)]
    /\ UNCHANGED <<registry, handlers, disk, listed, up, history, events>>

\* A tap: what is sent, and what the screen shows at once.
Taps(c, f, u) ==
    /\ events < MaxEvents /\ events' = events + 1
    /\ srv[c].open
    /\ up' = [up EXCEPT ![c] = Append(@, f)]
    /\ ui' = [ui EXCEPT ![c] = u]
    /\ UNCHANGED <<registry, handlers, disk, listed, down, restored, late, raced>>

Loading == [Elsewhere EXCEPT !.view = "loading"]

Opens(c) == ui[c].view \in {"away", "panel"} /\ Taps(c, [t |-> "load"], Loading) /\ UNCHANGED cut

\* What was asked for before may still be answered, to a viewer who moved on: the
\* verdict of a load is shown though no session is, and the answer to a restore
\* or to an earlier creation is taken by the next creation for its own.
MovesOn(c) ==
    cut' = IF \/ up[c] # <<>> \/ srv[c].seen # "none"
              \/ \E w \in waits : w.client = c /\ w.open
              \/ \E k \in DOMAIN down[c] : down[c][k].t \in {"missing", "started"}
             THEN cut \cup {c} ELSE cut

Creates(c) ==
    /\ ui[c].view = "away"
    /\ \E clone \in BOOLEAN : Taps(c, [t |-> "new", clone |-> clone], [Elsewhere EXCEPT !.view = "creating"])
    /\ MovesOn(c)

\* startRestore: offered while nothing runs, is ready or is on its way.
StartRestore(c) ==
    /\ Panel(ui[c]) /\ ~ui[c].asked /\ ui[c].job.state \notin {"running", "done"}
    /\ \E kind \in Kinds, ok \in BOOLEAN :
         /\ kind # "clone" => ok
         /\ Taps(c, [t |-> "start", kind |-> kind, ok |-> ok], [ui[c] EXCEPT !.job = NoJob, !.asked = TRUE])
    /\ UNCHANGED cut

CancelRestore(c) ==
    /\ (Panel(ui[c]) /\ ui[c].job.state = "running") \/ ui[c].view = "clone"
    /\ Taps(c, [t |-> "cancel"], ui[c]) /\ UNCHANGED cut

Leaves(c) ==
    /\ ui[c].view \in {"panel", "live"}
    /\ MovesOn(c)
    /\ Taps(c, [t |-> "leave"], Elsewhere)

\* The create watchdog, disarmed while a clone is watched.
CreateTimesOut(c) ==
    /\ ui[c].view = "creating"
    /\ ui' = [ui EXCEPT ![c] = Elsewhere]
    /\ UNCHANGED <<registry, handlers, disk, listed, up, down, history, events>>

\* The socket drops with everything on it.  The server's handlers go on; the
\* client ends its spinners, and keeps the clone it was watching on the screen.
Drops(c) ==
    /\ events < MaxEvents /\ events' = events + 1
    /\ srv[c].open
    /\ srv' = [srv EXCEPT ![c] = [open |-> FALSE, pend |-> FALSE, lock |-> FALSE, attached |-> FALSE, seen |-> "none"]]
    /\ waits' = {IF w.client = c THEN [w EXCEPT !.open = FALSE] ELSE w : w \in waits}
    /\ up' = [up EXCEPT ![c] = <<>>] /\ down' = [down EXCEPT ![c] = <<>>]
    /\ ui' = [ui EXCEPT ![c] = IF @.view = "creating" THEN Elsewhere ELSE @]
    /\ cut' = IF ui[c].view = "clone" THEN cut \cup {c} ELSE cut
    /\ UNCHANGED <<registry, disk, listed, restored, late, raced>>

\* The session on the screen is rejoined; behind the clone of a new session
\* there may be one of another folder, whose rejoin clears it, or none.
Reconnects(c) ==
    /\ ~srv[c].open
    /\ srv' = [srv EXCEPT ![c].open = TRUE]
    /\ IF ui[c].view \in {"loading", "panel", "live"}
         THEN up' = [up EXCEPT ![c] = <<[t |-> "load"]>>] /\ UNCHANGED ui
         ELSE UNCHANGED up /\ (UNCHANGED ui \/ ui' = [ui EXCEPT ![c] = Elsewhere])
    /\ UNCHANGED <<registry, waits, disk, listed, down, history, events>>

-----------------------------------------------------------------------------
(* The listing, and outsiders *)

\* annotateFolderExistence: nothing cached, so the folder is looked at.
ScanStarts ==
    /\ events < MaxEvents /\ events' = events + 1
    /\ cache = "none" /\ scan = "none"
    /\ scan' = IF disk.dir THEN "there" ELSE "gone"
    /\ UNCHANGED <<registry, handlers, disk, cache, viewers, history>>

ScanEnds ==
    /\ scan # "none"
    /\ cache' = scan /\ scan' = "none"
    /\ UNCHANGED <<registry, handlers, disk, viewers, history, events>>

CacheExpires ==
    /\ cache # "none" /\ cache' = "none"
    /\ UNCHANGED <<registry, handlers, disk, scan, viewers, history, events>>

\* Somebody else puts something there, or takes the folder away.
OthersWrite ==
    /\ events < MaxEvents /\ events' = events + 1
    /\ disk' = [dir |-> TRUE, files |-> disk.files \cup {"others"}]
    /\ UNCHANGED <<registry, handlers, listed, viewers, history>>

OthersRemove ==
    /\ events < MaxEvents /\ events' = events + 1
    /\ disk.dir /\ ~\E i \in JobIds : Live(i)
    /\ disk' = NoFolder /\ restored' = FALSE
    /\ UNCHANGED <<registry, handlers, listed, viewers, late, cut, raced>>

-----------------------------------------------------------------------------

\* Viewers who have already opened a session of the folder, and found it missing.
Init ==
  \E P \in SUBSET Clients :
    /\ jobs = [i \in JobIds |-> NoProc] /\ current = 0 /\ nextId = 1
    /\ relay = FALSE /\ listing = FALSE
    /\ srv = [c \in Clients |-> [open |-> TRUE, pend |-> FALSE, lock |-> c \in P, attached |-> FALSE, seen |-> "none"]]
    /\ waits = {}
    /\ disk = NoFolder
    /\ scan = "none" /\ cache = "none"
    /\ ui = [c \in Clients |-> [Elsewhere EXCEPT !.view = IF c \in P THEN "panel" ELSE "away"]]
    /\ up = [c \in Clients |-> <<>>] /\ down = [c \in Clients |-> <<>>]
    /\ restored = FALSE /\ late = FALSE /\ cut = {} /\ raced = {}
    /\ events = 0

JobNext(i) == Tick(i) \/ GitWrites(i) \/ GitExits(i) \/ Close(i) \/ SpawnErrors(i) \/ Progress(i) \/ Reap(i)

ServerNext(c) ==
    \/ RestoreStart(c) \/ RestoreCancel(c)
    \/ SessionNewClones(c) \/ SessionNewCreates(c)
    \/ SessionLoad(c) \/ LoadPaints(c) \/ SessionLeave(c)

ClientNext(c) ==
    \/ Receives(c) \/ Opens(c) \/ Creates(c) \/ StartRestore(c) \/ CancelRestore(c) \/ Leaves(c)
    \/ CreateTimesOut(c) \/ Drops(c) \/ Reconnects(c)

Next ==
    \/ \E i \in JobIds : JobNext(i)
    \/ \E c \in Clients : ServerNext(c) \/ ClientNext(c)
    \/ \E w \in waits : SessionNewEnds(w)
    \/ ScanStarts \/ ScanEnds \/ CacheExpires
    \/ OthersWrite \/ OthersRemove

Spec == Init /\ [][Next]_vars

-----------------------------------------------------------------------------
(* Properties *)

\* "a second request for the same folder COALESCES instead of racing a
\* competing clone into the same directory": at most one git is alive in the
\* folder, whatever was cancelled, retried, joined or forgotten meanwhile, and
\* it belongs to the job that is registered and still runs.
OneGitAtATime ==
    \A i \in JobIds : Live(i) => i = current /\ jobs[i].state = "running"

\* "an observer cannot outlive its job", and no running job goes unobserved.
ObservedWhileRunning == relay = Running /\ listing = Running

\* One git, and everybody hears of it.
OneObservedGit == OneGitAtATime /\ ObservedWhileRunning

\* The viewer waits for something: its request, or the end of the job it is shown.
Spins(c) ==
    \/ Panel(ui[c]) /\ (ui[c].asked \/ ui[c].job.state = "running")
    \/ ui[c].view = "clone"

\* Something is on its way that will change that.
IsComing(c) ==
    \/ up[c] # <<>> \/ down[c] # <<>> \/ srv[c].seen # "none"
    \/ Running /\ relay /\ Watches(srv[c]) /\ ui[c].job = Snap(current)

\* A connected viewer never watches a restore that is not there: not after a
\* drop and a rejoin, a cancel from another device, a retry or a refusal.
NothingSpinsUnlessCut == \A c \in Clients \ cut : srv[c].open /\ Spins(c) => IsComing(c)

\* The dialog of a new session's clone "ends by itself" (+page.svelte:424).
NothingSpins == \A c \in Clients : srv[c].open /\ Spins(c) => IsComing(c)

\* Who has an agent in the folder, or is being given one.
Given == {c \in Clients : srv[c].attached} \cup {w.client : w \in {v \in waits : v.step = "building"}}

\* No agent is handed out in a folder that is missing, being cloned or left half
\* cloned, unless one of the known ways led there.
AgentHasFolderUnlessRaced ==
    [][Given' \subseteq Given \/ raced' # {} \/ Usable']_vars

\* A folder a job has just restored is not marked missing by the listing, unless
\* the mark was being computed while the job settled.
RestoredIsNotMarked == restored /\ ~late => cache # "gone"

-----------------------------------------------------------------------------
(* The invariant behind the proved properties *)

\* Only the registered job runs; git, and its close event, come before its job
\* settles; only a settled job waits to be forgotten.
JobShape ==
    \A i \in JobIds :
        /\ jobs[i].state = "running" => i = current
        /\ jobs[i].proc \in {"spawned", "writing", "ok", "bad"} => jobs[i].state = "running"
        /\ jobs[i].reaping => jobs[i].state \notin {"none", "running"}

\* The folder a clone writes into is there.
WritesInPlace == \A i \in JobIds : jobs[i].proc = "writing" => disk.dir

\* Part of a clone lies in the folder only while its job runs, or because git was killed.
PartIsBeingWritten ==
    "part" \in disk.files =>
        raced # {} \/ \E i \in JobIds : jobs[i].kind = "clone" /\ jobs[i].proc \in {"writing", "bad"}

\* A restored folder is there, and no stat under way says otherwise.
RestoredIsThere == restored => disk.dir /\ (~late => scan # "gone" /\ cache # "gone")

IInv ==
    /\ TypeOK /\ JobShape /\ ObservedWhileRunning /\ WritesInPlace
    /\ PartIsBeingWritten /\ RestoredIsThere

-----------------------------------------------------------------------------
(* The invariant behind NothingSpinsUnlessCut: what holds between the      *)
(* screen u of a viewer, its frames q on their way to the server and d on  *)
(* their way back, its connection s there, and the job n that runs.        *)

Now == IF Running THEN Snap(current) ELSE NoJob

Carries(q, T) == \E k \in DOMAIN q : q[k].t \in T

\* No load is on its way, nor under way.
NoLoad(q, s) == ~Carries(q, {"load"}) /\ s.seen = "none"

\* Whoever moves on does so with nothing else sent, and shows no restore until the
\* server has heard of it.
MovesFirst(u, q, d, s) ==
    /\ \A k \in DOMAIN q : q[k].t \in {"leave", "new"} => k = 1 /\ s.seen = "none"
    /\ q # <<>> /\ Head(q).t \in {"leave", "new"} /\ NoLoad(q, s) =>
         u.view \in {"away", "creating", "live"} /\ ~Carries(d, {"missing", "started"})

\* A creation is one request, and the clone it watches runs.
CreatesAlone(u, q, d, s) ==
    /\ u.view \in {"creating", "clone"} =>
         /\ NoLoad(q, s) /\ ~Carries(q, {"start", "leave"})
         /\ \A k \in DOMAIN d : d[k].t = "started" => d[k].job.state = "running"
    /\ u.view = "clone" => u.job.state = "running"

\* A request to restore is on its way, or its answer is.
Answers == {"missing", "started", "progress", "complete", "created", "rejected"}
AskedIsAnswered(u, q, d, s) ==
    Panel(u) /\ u.asked =>
      /\ u.job.state = "none"
      /\ \/ q # <<>> /\ q[Len(q)].t \in {"start", "load"}
         \/ s.seen # "none"
         \/ Carries(d, Answers)

\* A panel on the screen, or on its way there, is of a folder the server has for this
\* viewer.
PanelIsWatched(u, q, d, s) ==
    NoLoad(q, s) /\ (Panel(u) \/ Carries(d, {"missing"})) => s.lock \/ s.attached

\* The job that is shown when everything on its way has been received.
Telling == {"missing", "started", "progress", "complete", "created"}
SaidLast(d, k) == k \in DOMAIN d /\ d[k].t \in Telling /\ \A j \in k + 1..Len(d) : d[j].t \notin Telling
Claims(u, d) ==
    {d[k].job : k \in {k \in DOMAIN d : SaidLast(d, k) /\ d[k].t # "created"}}
        \cup {j \in {u.job} : u.view \in {"panel", "clone"} /\ ~Carries(d, Telling)}

\* If it runs there, it is the one that does, and its end will be told.
Heard(u, d) ==
    \/ u.view \in {"panel", "clone"}
    \/ Carries(d, {"missing"})
    \/ u.view = "creating" /\ Carries(d, {"started"})
ToldTruly(u, q, d, s, n) ==
    NoLoad(q, s) /\ Heard(u, d) =>
      \A j \in Claims(u, d) : j.state = "running" => j = n /\ Watches(s)

ProgressRuns(d) == \A k \in DOMAIN d : d[k].t = "progress" => d[k].job.state = "running"

\* Nothing is on its way over a closed socket but what says nothing.
Silent(u, q, d, s) ==
    /\ q = <<>> /\ s.seen = "none" /\ ~Carries(d, {"missing", "started", "progress"})
    /\ u.view \notin {"creating", "clone"} /\ (Panel(u) /\ u.asked => u.job.state = "none")

Follows(u, q, d, s, n) ==
    IF s.open
      THEN /\ MovesFirst(u, q, d, s) /\ CreatesAlone(u, q, d, s) /\ AskedIsAnswered(u, q, d, s)
           /\ PanelIsWatched(u, q, d, s) /\ ToldTruly(u, q, d, s, n) /\ ProgressRuns(d)
      ELSE Silent(u, q, d, s)

SInv == \A c \in Clients \ cut : Follows(ui[c], up[c], down[c], srv[c], Now)

=============================================================================
