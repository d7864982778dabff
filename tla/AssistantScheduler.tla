------------------------- MODULE AssistantScheduler -------------------------
(***************************************************************************)
(* The assistant's scheduler (server/src/assistant-scheduler.ts, planJob of *)
(* assistant-schedule.ts) with the controller that sends for it and the    *)
(* sessions it sends to.                                                   *)
(*                                                                         *)
(* An inline job waits in `pending` until the current session has settled, *)
(* but the drain looks, awaits the controller, and looks again; and what it *)
(* sends is on its way for a while before the agent runs.  Meanwhile people *)
(* send, terminals come and go, the pointer moves, the schedule is edited, *)
(* and the server crashes.  Only the schedule, the run log and the pointer *)
(* survive it.                                                             *)
(***************************************************************************)
EXTENDS Naturals, Sequences, FiniteSets, SequencesExt

CONSTANTS
    NumJobs,    \* jobs 1..NumJobs, in the order of the file
    Kind,       \* per job "inline", "isolated" or "shell" (a prompt that starts with !)
    Recurring,  \* the jobs with a cron expression; the others have one `at`
    OffAtFirst, \* the jobs that may be disabled at first
    Times,      \* per job the instants of its occurrences
    Grace,      \* assistantScheduleGraceMinutes
    Session,    \* session files the pointer may have
    First,      \* the session it has at first
    MaxTime,    \* bounds: the clock, what people, terminals and crashes do, and
    MaxEvents,  \* per job the runs that the log file misses
    MaxUnwritten

Job == 1..NumJobs
ASSUME Jobs == /\ NumJobs \in Nat /\ {Recurring, OffAtFirst} \subseteq SUBSET Job
               /\ Kind \in [Job -> {"inline", "isolated", "shell"}]
               /\ Times \in [Job -> SUBSET Nat]
               /\ \A j \in Job \ Recurring : Cardinality(Times[j]) = 1
ASSUME Bounds == /\ First \in Session /\ Grace \in Nat
                 /\ {MaxTime, MaxEvents} \subseteq Nat /\ MaxUnwritten \in [Job -> Nat]

VARIABLES
    now,       \* the clock
    schedule,  \* schedule.json: per job "absent", "off" (not enabled) or "on"
    log,       \* assistant-runs.jsonl: per job its run entries, those it misses too
    cur,       \* the pointer to the current assistant session
    \* In memory.
    started,   \* the server runs
    read,      \* lastRead: the schedule as the last tick read it
    seen,      \* when a job was first seen, and last re-enabled
    pending,   \* pendingInline
    drain,     \* the drain that awaits the controller, and the head it took
    starting,  \* isolated jobs whose session is being created
    marks,     \* runs: per session what is known of a run
    sends,     \* inline sends under way
    pi,        \* the sessions: agent or terminal, its run and its queue
    \* For the properties and the bounds.
    told,      \* per session the runs of jobs the exchange under way was given
    raced,     \* whether something came between a job's dispatch and its delivery
               \* ("send"), or the pending jobs changed under a drain ("drain")
    lost,      \* sessions whose run ended unheard
    used       \* the events that happened

diskVars == <<schedule, log, cur>>
loopVars == <<read, seen, pending, drain>>
histVars == <<told, lost, raced>>
vars == <<now, diskVars, started, loopVars, starting, marks, sends, pi, histVars, used>>

Unseen == [seen |-> FALSE, first |-> 0, on |-> FALSE, changed |-> 0]
NoDrain == [on |-> FALSE, job |-> 0, at |-> 0]
Gone == [kind |-> "none", run |-> "no", queue |-> 0]

Init ==
    /\ now = 0
    /\ \E off \in SUBSET OffAtFirst : schedule = [j \in Job |-> IF j \in off THEN "off" ELSE "on"]
    /\ log = [j \in Job |-> <<>>] /\ cur = First
    /\ started = FALSE
    /\ read = [j \in Job |-> "absent"] /\ seen = [j \in Job |-> Unseen]
    /\ pending = <<>> /\ drain = NoDrain /\ starting = {}
    /\ marks = [s \in Session |-> "none"] /\ sends = {}
    /\ pi = [s \in Session |-> Gone]
    /\ told = [s \in Session |-> {}] /\ raced = {} /\ lost = {}
    /\ used = 0

\* What the properties set aside: while a job is on its way somebody runs, comes or
\* goes, or the mark that announces it is forgotten; or a terminal takes a minute; or the
\* late answer of a send whose run was cut off takes the mark of the next.
Overtaken ==
    \/ \E x \in sends \cap sends' :
          /\ x.st # "running"
          /\ \/ cur' # cur
             \/ \E s \in {x.mark, x.at, cur} :
                   \/ marks'[s] # marks[s] /\ marks'[s] # "expired"
                   \/ pi'[s].kind # pi[s].kind
                   \/ pi[s].run = "no" /\ pi'[s].run # "no"
    \/ \E s \in Session : marks'[s] = "expired" /\ pi'[s].kind \in {"cli", "oldcli"}
    \/ \E x \in sends \ sends' : x.st = "running" /\ pi[x.at].run = "no" /\ told'[x.mark] # {}
Shifted == /\ drain.on /\ drain' = drain
           /\ pending' = <<>> \/ Head(pending') # [job |-> drain.job, for |-> drain.at]
Watch == raced' = raced \cup (IF Overtaken THEN {"send"} ELSE {})
                        \cup (IF Shifted THEN {"drain"} ELSE {})

Event == used < MaxEvents /\ used' = used + 1

-----------------------------------------------------------------------------
(* Planning.                                                               *)

\* track: when the job was first seen, and when it was seen re-enabled.
Tracked(j) ==
    IF ~seen[j].seen THEN [seen |-> TRUE, first |-> now, on |-> schedule[j] = "on", changed |-> 0]
    ELSE [seen[j] EXCEPT !.on = schedule[j] = "on",
                         !.changed = IF ~seen[j].on /\ schedule[j] = "on" THEN now ELSE @]

\* What the server knows of the runs: all that it decided itself and, of those of
\* earlier starts, what the file has.  (Filed, a mutant, does not remember a run that
\* could not be appended.)
Filed(j) == {i \in DOMAIN log[j] : log[j][i].place = "file"}
Known(j) == {i \in DOMAIN log[j] : log[j][i].place # "lost"}

\* sinceFor and planJob: the base of a recurring job is its newest run, or when it
\* was seen first or re-enabled; of the occurrences missed only the latest counts.
\* (RunsOfFirst, a mutant, never goes on from the first run.)
RunsOfFirst(j) == {log[j][i].for : i \in {k \in Known(j) : k = Min(Known(j))}}
RunsOf(j) == {log[j][i].for : i \in Known(j)}
Since(j, s) == IF s.changed # 0 THEN {s.changed} ELSE IF Known(j) = {} THEN {s.first} ELSE {}
Open(j, s) ==
    IF j \in Recurring
    THEN {t \in Times[j] : t <= now /\ \A b \in RunsOf(j) \cup Since(j, s) : t > b}
    ELSE {t \in Times[j] : t <= now /\ Known(j) = {}}
Plan(j, s) ==
    LET open == Open(j, s) IN
    IF schedule[j] # "on" \/ open = {} THEN [job |-> j, state |-> "idle", for |-> 0]
    ELSE [job |-> j, state |-> IF Max(open) + Grace >= now THEN "due" ELSE "missed",
          for |-> Max(open)]

\* A run is remembered, and appended to the file; an append that fails is reported and
\* passed over, and so is one whose line a half written one before it spoils.
Place == {"file", "memory"}
Places(j) == IF Cardinality(DOMAIN log[j] \ Filed(j)) < MaxUnwritten[j] THEN Place ELSE {"file"}
Entry(t, outcome, place) == [for |-> t, outcome |-> outcome, place |-> place]
Logged(j, t, outcome) ==
    \E place \in Places(j) : log' = [log EXCEPT ![j] = Append(@, Entry(t, outcome, place))]

-----------------------------------------------------------------------------
(* Is the session idle, and the drain up to its await.                     *)

Cli(s, Q) == Q[s].kind \in {"cli", "oldcli"}
Streaming(s, Q) == Q[s].run = "run"

\* A mark counts no more once its session is not resident, or when a terminal has
\* not started the run for a minute.
Forgets(s, Q, M) ==
    \/ Q[s].kind = "none"
    \/ ~Streaming(s, Q) /\ Cli(s, Q) /\ M[s] = "expired"
\* (IdleUnmarked, a mutant, asks the pool alone.)
IdleUnmarked(s, Q, M) == Q[s].kind = "none" \/ ~Streaming(s, Q)
Idle(s, Q, M) ==
    \/ Q[s].kind = "none"
    \/ /\ ~Streaming(s, Q)
       /\ M[s] = "none" \/ Forgets(s, Q, M)
       /\ Cli(s, Q) \/ Q[s].queue = 0
Looked(s, Q, M) == IF Forgets(s, Q, M) THEN [M EXCEPT ![s] = "none"] ELSE M

\* The jobs at the head that were removed or disabled while they waited are dropped.
Wanted(P, R) ==
    LET k == Min({Len(P) + 1} \cup {i \in DOMAIN P : R[P[i].job] = "on"})
    IN  SubSeq(P, k, Len(P))

\* The loop of drainInline from its head on: it ends, or awaits the controller.
DrainLoop(P, R, Q, M) ==
    LET W == Wanted(P, R) IN
    /\ pending' = W
    /\ IF W = <<>> THEN drain' = NoDrain /\ marks' = M
       ELSE /\ marks' = Looked(cur', Q, M)
            /\ drain' = IF Idle(cur', Q, M)
                        THEN [on |-> TRUE, job |-> Head(W).job, at |-> Head(W).for] ELSE NoDrain
DrainInline(P, R, Q, M) ==
    IF drain.on \/ P = <<>> THEN pending' = P /\ marks' = M /\ UNCHANGED drain
    ELSE DrainLoop(P, R, Q, M)

\* What is in T of a sequence, in its order (filter).
Only(q, T) ==
    LET at == {i \in DOMAIN q : q[i] \in T}
        nth(k) == CHOOSE i \in at : Cardinality({l \in at : l <= i}) = k
    IN  [k \in 1..Cardinality(at) |-> q[nth(k)]]

\* tickNow: the schedule is read, every job that is not in flight planned, what is due
\* fired in the order of the file, and what was removed forgotten.
InFlight(j) == (\E i \in DOMAIN pending : pending[i].job = j) \/ \E x \in starting : x.job = j
Planned == {j \in Job : schedule[j] # "absent" /\ ~InFlight(j)}
Due(kind) == {[job |-> j, for |-> Plan(j, Tracked(j)).for] :
                j \in {i \in Planned : Plan(i, Tracked(i)).state = "due" /\ Kind[i] = kind}}
InFileOrder(S) ==
    {q \in [1..Cardinality(S) -> S] : \A i, k \in DOMAIN q : i < k => q[i].job < q[k].job}
\* What a plan puts into the log at once.
Verdict(p, place) ==
    IF p.state = "missed" THEN <<Entry(p.for, "skipped", place)>>
    ELSE IF p.state = "due" /\ Kind[p.job] = "shell" THEN <<Entry(p.for, "refused", place)>>
    ELSE <<>>
Present(P) == Only(P, {p \in ToSet(P) : schedule[p.job] # "absent"})
Tick ==
    /\ started
    /\ read' = schedule
    /\ seen' = [j \in Job |-> IF schedule[j] = "absent" THEN Unseen ELSE Tracked(j)]
    /\ \E place \in {p \in [Job -> Place] : \A j \in Job : p[j] \in Places(j)} :
         log' = [j \in Job |-> IF j \in Planned THEN log[j] \o Verdict(Plan(j, Tracked(j)), place[j])
                                              ELSE log[j]]
    /\ starting' = starting \cup Due("isolated")
    /\ UNCHANGED <<now, schedule, cur, started, sends, pi, told, lost, used>>
    /\ \E fired \in InFileOrder(Due("inline")) :
         DrainInline(Present(pending \o fired), schedule, pi, marks)
    /\ Watch

\* The controller works through its calls in turn: it answers a drain once an earlier
\* send has loaded its session.
Answers == \A x \in sends : x.st # "loading"

\* The controller answers: the drain looks again at the session it names now, and
\* dispatches the head it took; what it removes is the head there is by then.
DrainResumes ==
    LET head == [job |-> drain.job, for |-> drain.at]
        rest == IF pending = <<>> THEN <<>> ELSE Tail(pending)
    IN
    /\ drain.on /\ Answers
    /\ UNCHANGED <<now, schedule, cur, started, read, seen, starting, pi, told, lost, used>>
    /\ \/ /\ ~Idle(cur, pi, marks)
          /\ drain' = NoDrain
          /\ marks' = Looked(cur, pi, marks)
          /\ UNCHANGED <<pending, log, sends>>
       \/ /\ Idle(cur, pi, marks)
          /\ drain' = NoDrain
          /\ pending' = rest
          /\ marks' = [marks EXCEPT ![cur] = "sent"]
          /\ Logged(head.job, head.for, "fired")
          /\ sends' = sends \cup {[job |-> head.job, for |-> head.for, mark |-> cur,
                                   st |-> "loading", at |-> cur]}
    /\ Watch
\* The controller cannot provide a session: the job failed, the next is tried.
EnsureFails ==
    /\ drain.on /\ Answers
    /\ Logged(drain.job, drain.at, "failed")
    /\ UNCHANGED <<now, schedule, cur, started, read, seen, starting, sends, pi, told,
                   lost, used>>
    /\ DrainLoop(IF pending = <<>> THEN <<>> ELSE Tail(pending), read, pi, marks)
    /\ Watch

-----------------------------------------------------------------------------
(* A send on its way.                                                      *)

KeepLoop == UNCHANGED <<now, schedule, cur, started, read, seen, starting, used>>

\* A send returned: on a server session with no run, its mark is dropped.
Returns(x, Q) ==
    LET frees == Q[x.mark].kind = "server" /\ ~Streaming(x.mark, Q) IN
    IF frees THEN DrainInline(pending, read, Q, [marks EXCEPT ![x.mark] = "none"])
    ELSE UNCHANGED <<pending, drain, marks>>

\* controller.send: the session the pointer names by now is loaded, and given the
\* prompt; into a run under way it steers.
Deliver(x) ==
    LET s == cur
        Q == IF pi[s].kind = "none" THEN [pi EXCEPT ![s].kind = "server"] ELSE pi
        relay == [pi EXCEPT ![s].queue = IF Cli(s, pi) THEN @ ELSE @ + 1]
    IN
    /\ x.st = "loading"
    /\ KeepLoop
    /\ \/ /\ ~Cli(s, Q) /\ ~Streaming(s, Q)
          /\ pi' = Q
          /\ sends' = (sends \ {x}) \cup {[x EXCEPT !.st = "prompting", !.at = s]}
          /\ UNCHANGED <<pending, drain, marks, told>>
       \/ /\ Cli(s, Q) \/ Streaming(s, Q)
          /\ pi' = relay
          /\ sends' = sends \ {x}
          /\ told' = [told EXCEPT ![s] = @ \cup {<<x.job, x.for>>}]
          /\ Returns(x, relay)
    /\ UNCHANGED <<log, lost>>

\* pi runs the prompt, ...
PromptStarts(x) ==
    /\ x.st = "prompting"
    /\ pi[x.at].kind = "server" /\ ~Streaming(x.at, pi)
    /\ pi' = [pi EXCEPT ![x.at].run = "run"]
    /\ sends' = (sends \ {x}) \cup {[x EXCEPT !.st = "running"]}
    /\ marks' = [marks EXCEPT ![x.at] = "started"]
    /\ told' = [told EXCEPT ![x.at] = @ \cup {<<x.job, x.for>>}]
    /\ UNCHANGED <<pending, drain, log, lost>>
    /\ KeepLoop
\* ... an extension's command takes it, so that no run follows, ...
PromptHandled(x) ==
    /\ x.st = "prompting"
    /\ sends' = sends \ {x}
    /\ UNCHANGED <<pi, log, told, lost>>
    /\ KeepLoop
    /\ Returns(x, pi)
\* ... or the send fails.
SendFails(x) ==
    /\ x.st # "running" \/ pi[x.at].run = "no"
    /\ sends' = sends \ {x}
    /\ Logged(x.job, x.for, "failed")
    /\ UNCHANGED <<pi, told, lost>>
    /\ KeepLoop
    /\ DrainInline(pending, read, pi, [marks EXCEPT ![x.mark] = "none"])
\* The run of a send was cut off with its agent.
Interrupted(x) ==
    /\ x.st = "running" /\ pi[x.at].run = "no"
    /\ sends' = sends \ {x}
    /\ UNCHANGED <<pi, log, told, lost>>
    /\ KeepLoop
    /\ Returns(x, pi)

\* An isolated job's session: its run entry is written once it exists, and the
\* prompt goes to it, which may fail; no other session and no mark is concerned.
IsolatedCreated(x) ==
    /\ starting' = starting \ {x}
    /\ \/ \E outcome \in {"fired", "failed"} : Logged(x.job, x.for, outcome)
       \/ \E p, q \in Places(x.job) :
            log' = [log EXCEPT ![x.job] =
                       Append(Append(@, Entry(x.for, "fired", p)), Entry(x.for, "failed", q))]
    /\ UNCHANGED <<now, schedule, cur, started, loopVars, marks, sends, pi, told, lost, used>>

-----------------------------------------------------------------------------
(* What happens in the sessions.                                           *)

KeepWork == UNCHANGED <<now, schedule, log, started, read, seen, starting>>

\* Somebody's message starts a run (agent_start).
RunStarts(s) ==
    /\ pi[s].kind # "none" /\ pi[s].run = "no"
    /\ Event
    /\ pi' = [pi EXCEPT ![s].run = "run"]
    /\ marks' = [marks EXCEPT ![s] = "started"]
    /\ UNCHANGED <<cur, pending, drain, sends, told, lost>>
    /\ KeepWork
\* What a terminal was sent starts its run there.
RelayStarts(s) ==
    /\ Cli(s, pi) /\ pi[s].run = "no" /\ told[s] # {}
    /\ pi' = [pi EXCEPT ![s].run = "run"]
    /\ marks' = [marks EXCEPT ![s] = "started"]
    /\ UNCHANGED <<cur, pending, drain, sends, told, lost, used>>
    /\ KeepWork
\* A message during the run is queued.
Steer(s) ==
    /\ pi[s].kind = "server" /\ pi[s].run = "run" /\ pi[s].queue = 0
    /\ Event
    /\ pi' = [pi EXCEPT ![s].queue = 1]
    /\ UNCHANGED <<cur, pending, drain, marks, sends, told, lost>>
    /\ KeepWork

\* agent_end: an older extension sends no agent_settled after it.
Settles(s, Q) ==
    LET ended == {x \in sends : x.st = "running" /\ x.at = s}
        freed == {s} \cup {x.mark : x \in {y \in ended : Q[y.mark].kind = "server" /\ ~Streaming(y.mark, Q)}}
    IN  /\ sends' = sends \ ended
        /\ told' = [told EXCEPT ![s] = {}]
        /\ pi' = Q
        /\ DrainInline(pending, read, Q, [t \in Session |-> IF t \in freed THEN "none" ELSE marks[t]])
AgentEnd(s) ==
    /\ pi[s].run = "run"
    /\ UNCHANGED <<cur, used>>
    /\ lost' = IF pi[s].kind = "oldcli" THEN lost \ {s} ELSE lost
    /\ KeepWork
    /\ IF pi[s].kind = "oldcli" THEN Settles(s, [pi EXCEPT ![s].run = "no"])
       ELSE /\ pi' = [pi EXCEPT ![s].run = "ended"]
            /\ UNCHANGED <<pending, drain, marks, sends, told>>
\* pi goes on with what was queued.
Continues(s) ==
    /\ pi[s].run = "ended" /\ pi[s].queue > 0
    /\ pi' = [pi EXCEPT ![s].run = "run", ![s].queue = @ - 1]
    /\ marks' = [marks EXCEPT ![s] = "started"]
    /\ UNCHANGED <<cur, pending, drain, sends, told, lost, used>>
    /\ KeepWork
\* agent_settled: of an aborted run the queue is left; the controller clears that of
\* the current session.  (Two mutants: one message too many is dropped, and none is.)
OneFewer(s) == pi[s].queue - 1
KeepsQueue(s) == pi[s].queue
LeftQueued(s) == IF s = cur THEN 0 ELSE pi[s].queue
AgentSettled(s) ==
    /\ pi[s].run = "ended" /\ pi[s].kind # "oldcli"
    /\ \E aborted \in BOOLEAN :
         /\ aborted \/ pi[s].queue = 0
         /\ UNCHANGED <<cur, used>>
         /\ lost' = lost \ {s}
         /\ KeepWork
         /\ Settles(s, [pi EXCEPT ![s].run = "no",
                                  ![s].queue = IF aborted THEN LeftQueued(s) ELSE 0])

\* A terminal registers, and the server's agent is disposed with its run.
\* A terminal that is in a run already says so, but its start is not heard of.
Register(s, kind, running) ==
    /\ ~Cli(s, pi)
    /\ Event
    /\ pi' = [pi EXCEPT ![s] = [kind |-> kind, run |-> IF running THEN "run" ELSE "no", queue |-> 0]]
    /\ told' = [told EXCEPT ![s] = {}]
    /\ lost' = IF marks[s] = "started" THEN lost \cup {s} ELSE lost
    /\ UNCHANGED <<cur, pending, drain, marks, sends>>
    /\ KeepWork
\* The terminal leaves: a viewed session gets an agent, another is dropped; so is
\* an agent nobody views.
Departs(s, kind) ==
    /\ pi[s].kind # "none" /\ (kind = "server" => Cli(s, pi))
    /\ Event
    /\ pi' = [pi EXCEPT ![s] = [Gone EXCEPT !.kind = kind]]
    /\ told' = [told EXCEPT ![s] = {}]
    /\ lost' = IF marks[s] # "none" /\ kind = "server" THEN lost \cup {s} ELSE lost \ {s}
    /\ UNCHANGED <<cur, pending, drain, marks, sends>>
    /\ KeepWork
\* /new: the pointer moves to a fresh session; the run of the old one is aborted.
Reset(s) ==
    /\ s # cur /\ pi[s].kind = "none" /\ marks[s] = "none" /\ s # First
    /\ Event
    /\ cur' = s
    /\ pi' = [pi EXCEPT ![s].kind = "server", ![cur].queue = 0]
    /\ UNCHANGED <<pending, drain, marks, sends, told, lost>>
    /\ KeepWork
\* A mark is a minute old: a terminal that still has not started is not waited for.
MarkAges(s) ==
    /\ marks[s] = "sent"
    /\ marks' = [marks EXCEPT ![s] = "expired"]
    /\ UNCHANGED <<cur, pending, drain, sends, pi, told, lost, used>>
    /\ KeepWork

-----------------------------------------------------------------------------
(* The clock, the schedule file, crashes.                                  *)

TimePasses ==
    /\ now < MaxTime
    /\ now' = now + 1
    /\ UNCHANGED <<diskVars, started, loopVars, starting, marks, sends, pi, told, lost, used>>

\* The user edits the file, or a tool adds or disables a job.
Edit(j, as) ==
    /\ schedule[j] # as
    /\ Event
    /\ schedule' = [schedule EXCEPT ![j] = as]
    /\ UNCHANGED <<now, log, cur, started, loopVars, starting, marks, sends, pi, told, lost>>

\* removeJob: also out of the pending ones.
RemoveJob(j) ==
    /\ started
    /\ schedule[j] # "absent"
    /\ Event
    /\ schedule' = [schedule EXCEPT ![j] = "absent"]
    /\ pending' = Only(pending, {p \in ToSet(pending) : p.job # j})
    /\ UNCHANGED <<now, log, cur, started, read, seen, drain, starting, marks, sends, pi, told, lost>>

Start ==
    /\ ~started
    /\ started' = TRUE
    /\ UNCHANGED <<now, diskVars, loopVars, starting, marks, sends, pi, histVars, used>>

\* The log is read again at the next start: what its file misses is forgotten.
Forgotten(e) == IF e.place = "memory" THEN Entry(e.for, e.outcome, "lost") ELSE e
Crash ==
    /\ started
    /\ log' = [j \in Job |-> [i \in DOMAIN log[j] |-> Forgotten(log[j][i])]]
    /\ Event
    /\ started' = FALSE
    /\ read' = [j \in Job |-> "absent"] /\ seen' = [j \in Job |-> Unseen]
    /\ pending' = <<>> /\ drain' = NoDrain /\ starting' = {}
    /\ marks' = [s \in Session |-> "none"] /\ sends' = {}
    /\ pi' = [s \in Session |-> Gone]
    /\ told' = [s \in Session |-> {}] /\ lost' = {}
    /\ UNCHANGED <<now, schedule, cur>>

SendStep == /\ \E x \in sends : \/ Deliver(x) \/ PromptStarts(x) \/ PromptHandled(x)
                               \/ SendFails(x) \/ Interrupted(x)
            /\ Watch
RunStep == (\E s \in Session : AgentEnd(s) \/ Continues(s) \/ AgentSettled(s)) /\ Watch
Others ==
    /\ \E s \in Session :
         \/ RunStarts(s) \/ RelayStarts(s) \/ Steer(s) \/ Reset(s)
         \/ \E kind \in {"cli", "oldcli"}, running \in BOOLEAN : Register(s, kind, running)
         \/ \E kind \in {"server", "none"} : Departs(s, kind)
    /\ Watch
AMinutePasses == (\E s \in Session : MarkAges(s)) /\ Watch
Outside ==
    /\ \/ TimePasses \/ Crash
       \/ \E j \in Job : RemoveJob(j) \/ \E as \in {"off", "on"} : Edit(j, as)
    /\ Watch
IsolatedStep == (\E x \in starting : IsolatedCreated(x)) /\ Watch

Next ==
    \/ Start \/ Tick \/ DrainResumes \/ EnsureFails
    \/ SendStep \/ IsolatedStep \/ RunStep \/ Others \/ AMinutePasses \/ Outside

Spec == Init /\ [][Next]_vars

\* What the code's scheduling provides: as long as the server can be started, its
\* timer tick, the controller answer, a send go on, a run end and settle, or a minute
\* pass, one of these happens.
Progress == Start \/ DrainResumes \/ SendStep \/ RunStep \/ IsolatedStep \/ AMinutePasses \/ Tick
Fairness == WF_vars(Progress)
FairSpec == Spec /\ Fairness

-----------------------------------------------------------------------------
(* Properties.                                                             *)

Outcomes == {"fired", "failed", "refused", "skipped"}

\* Every variable holds a value of its type.
TypeOK ==
    /\ now \in 0..MaxTime /\ cur \in Session /\ started \in BOOLEAN
    /\ schedule \in [Job -> {"absent", "off", "on"}] /\ read \in [Job -> {"absent", "off", "on"}]
    /\ log \in [Job -> Seq([for : Nat, outcome : Outcomes, place : {"file", "memory", "lost"}])]
    /\ seen \in [Job -> [seen : BOOLEAN, first : Nat, on : BOOLEAN, changed : Nat]]
    /\ pending \in Seq([job : Job, for : Nat]) /\ starting \subseteq [job : Job, for : Nat]
    /\ drain \in [on : BOOLEAN, job : 0..NumJobs, at : Nat]
    /\ marks \in [Session -> {"none", "sent", "expired", "started"}]
    /\ sends \subseteq [job : Job, for : Nat, mark : Session,
                        st : {"loading", "prompting", "running"}, at : Session]
    /\ pi \in [Session -> [kind : {"none", "server", "cli", "oldcli"},
                           run : {"no", "run", "ended"}, queue : Nat]]
    /\ told \in [Session -> SUBSET (Job \X Nat)] /\ lost \subseteq Session
    /\ raced \subseteq {"send", "drain"}

\* An occurrence is decided once, whatever crashes, restarts, late ticks and edits
\* come between: no run is fired twice, and none after it was skipped, but after a
\* restart one that the file of the log misses.
Decided(j, t) == {i \in DOMAIN log[j] : log[j][i].for = t /\ log[j][i].outcome # "failed"
                                      /\ log[j][i].place # "lost"}
FiredOnceUnlessRaced ==
    "drain" \notin raced => \A j \in Job : \A t \in Times[j] : Cardinality(Decided(j, t)) <= 1

\* "Every append goes to the file and the memory copy together" (assistant-schedule.ts:204),
\* and a one-shot "with any entry is done" (CONTEXT.md:168): then no restart could fire
\* an occurrence a second time, as after an append that failed it does.
NeverFiredTwice ==
    \A j \in Job : \A i, k \in DOMAIN log[j] :
        log[j][i].for = log[j][k].for /\ {log[j][i].outcome, log[j][k].outcome} = {"fired"}
        => i = k

\* "The next waits for the settle of the previous one, so a job never merges into a
\* running exchange" (assistant-scheduler.ts:29).
JobsNeverMerge == \A s \in Session : Cardinality(told[s]) <= 1
\* So it is as long as nothing comes between the dispatch of a job and its delivery.
OneJobAtATime == "send" \notin raced => JobsNeverMerge
RunsOnceAndAlone == FiredOnceUnlessRaced /\ OneJobAtATime

\* An inline job that waits is delivered, dropped or failed in the end, as long as
\* no run of the current session ended without the scheduler hearing of it.
Waits(j) == \E i \in DOMAIN pending : pending[i].job = j
JobsAreServed ==
    \A j \in {i \in Job : Kind[i] = "inline"} : Waits(j) ~> (~Waits(j) \/ cur \in lost)

-----------------------------------------------------------------------------
(* The inductive invariant behind RunsOnceAndAlone.                        *)

\* A job is in flight once, for an occurrence that no run decided yet; what the drain
\* took is the head.
InFlightOnce ==
    /\ \A i, k \in DOMAIN pending : pending[i].job = pending[k].job => i = k
    /\ \A i \in DOMAIN pending : \A x \in starting : pending[i].job # x.job
    /\ \A x, y \in starting : x.job = y.job => x = y
Undecided(j, t) == \A i \in Known(j) : log[j][i].for = t => log[j][i].outcome = "failed"
InFlightUndecided ==
    /\ \A i \in DOMAIN pending : Undecided(pending[i].job, pending[i].for)
    /\ \A x \in starting : Undecided(x.job, x.for)
DecidedOnce ==
    \A j \in Job : \A i, k \in Known(j) :
        /\ log[j][i].for = log[j][k].for
        /\ log[j][i].outcome # "failed" /\ log[j][k].outcome # "failed"
        => i = k
TakenIsHead == drain.on => pending # <<>> /\ Head(pending) = [job |-> drain.job, for |-> drain.at]
OnceInv == "drain" \notin raced => InFlightOnce /\ InFlightUndecided /\ DecidedOnce /\ TakenIsHead

\* One job at most is on its way; until it is delivered the current session, where it
\* goes, is marked and was told of no other.
OnItsWay == {x \in sends : x.st # "running"}
OneOnItsWay == \A x, y \in OnItsWay : x = y
WayIsMarked ==
    \A x \in OnItsWay :
        /\ x.at = cur /\ marks[cur] \in {"sent", "expired"} /\ told[cur] = {}
        /\ x.st = "prompting" => pi[cur].kind = "server"
SentWhereMarked == \A x \in sends : x.mark = x.at
\* A session that was told of a job is resident, and marked until it settles.
ToldIsMarked ==
    \A s \in Session : told[s] # {} =>
        /\ pi[s].kind # "none" /\ marks[s] # "none"
        /\ \A a, b \in told[s] : a = b
NoTerminalIsSlow == \A s \in Session : ~(Cli(s, pi) /\ marks[s] = "expired")
AloneInv ==
    "send" \notin raced =>
        OneOnItsWay /\ WayIsMarked /\ SentWhereMarked /\ ToldIsMarked /\ NoTerminalIsSlow

RunIsResident == \A s \in Session : pi[s].run # "no" => pi[s].kind # "none"
TakenIsJob == drain.on => drain.job \in Job
IInv == TypeOK /\ TakenIsJob /\ RunIsResident /\ OnceInv /\ AloneInv
=============================================================================
