------------------------- MODULE RestoreJobsProofs -------------------------
(* Proofs about RestoreJobs, for any viewers and any number of jobs. *)
EXTENDS RestoreJobs, SequenceTheorems, TLAPS

Settled == {"done", "failed", "cancelled"}
Folder == [dir : BOOLEAN, files : SUBSET {"part", "tree", "others"}]

--------------------
(* The registry: what a request and the end of a job do to it. *)

LEMMA RunningIsBoolean == Running \in BOOLEAN /\ Running' \in BOOLEAN
BY DEF Running

\* A job that settles leaves a registry in which nothing runs.
LEMMA FinishRegistry ==
    ASSUME TypeOK, JobShape, ObservedWhileRunning,
           NEW i \in JobIds, jobs[i].state = "running",
           NEW s \in Settled, NEW STATE d, Finish(i, s, d)
    PROVE  RegistryTypes' /\ JobShape' /\ ObservedWhileRunning' /\ ~Running'
<1>1. i = current /\ current' = current /\ nextId' = nextId /\ current # 0
  BY DEF JobShape, Finish, JobIds
<1>2. PICK p \in {"none", "tick"} :
        jobs' = [jobs EXCEPT ![i].state = s, ![i].reaping = TRUE, ![i].proc = p]
  BY DEF Finish
<1>3. jobs[i] \in Job BY DEF TypeOK, RegistryTypes
<1>4. jobs' = [jobs EXCEPT ![i] = [jobs[i] EXCEPT !.state = s, !.reaping = TRUE, !.proc = p]]
  BY <1>2, <1>3 DEF TypeOK, RegistryTypes
<1>5. jobs' \in [JobIds -> Job] BY <1>3, <1>4 DEF TypeOK, RegistryTypes, Job, States, Settled
<1>6. jobs'[i].state = s /\ jobs'[i].reaping /\ jobs'[i].proc = p
  BY <1>3, <1>4 DEF TypeOK, RegistryTypes, Job
<1>7. \A k \in JobIds \ {i} : jobs'[k] = jobs[k] BY <1>4 DEF TypeOK, RegistryTypes
<1>8. RegistryTypes'
  <2>1. relay' = FALSE /\ listing' = FALSE BY DEF Finish
  <2>2. \A k \in JobIds : jobs'[k].state = "none" <=> k >= nextId
    BY <1>6, <1>7 DEF TypeOK, RegistryTypes, Settled
  <2> QED BY <1>1, <1>5, <2>1, <2>2 DEF TypeOK, RegistryTypes
<1>9. JobShape' BY <1>1, <1>6, <1>7 DEF JobShape, Settled
<1>10. ~Running' BY <1>1, <1>6 DEF Running, Settled
<1>11. ObservedWhileRunning'
  <2>1. relay' = FALSE /\ listing' = FALSE BY DEF Finish
  <2> QED BY <1>10, <2>1, RunningIsBoolean DEF ObservedWhileRunning
<1> QED BY <1>8, <1>9, <1>10, <1>11

\* A request leaves both observers exactly while a job runs.
LEMMA RequestRegistry ==
    ASSUME TypeOK, JobShape, ObservedWhileRunning,
           NEW kind \in Kinds, NEW ok \in BOOLEAN, NEW o, Request(kind, ok, o)
    PROVE  /\ RegistryTypes' /\ JobShape' /\ ObservedWhileRunning'
           /\ o \in {"joined", "refused", "started", "unspawned"}
           /\ o \in {"joined", "started"} => Running' /\ current' # 0
           /\ o \in {"started", "unspawned"} => ~Running /\ current' = nextId
           /\ \A i \in JobIds : jobs[i].state # "none" => jobs'[i] = jobs[i]
<1>1. /\ o \in Outcomes(kind, ok)
      /\ relay' = (o \in {"joined", "started"}) /\ listing' = (o \in {"joined", "started"})
  BY DEF Request
<1>2. o \in {"joined", "refused", "started", "unspawned"} BY <1>1 DEF Outcomes
<1>3. CASE o \in {"joined", "refused"}
  <2>1. UNCHANGED <<jobs, current, nextId>> BY <1>3 DEF Request
  <2>2. Running' <=> Running BY <2>1 DEF Running
  <2>3. Running <=> o = "joined" BY <1>1, <1>3 DEF Outcomes
  <2> QED BY <1>1, <1>2, <1>3, <2>1, <2>2, <2>3
          DEF TypeOK, RegistryTypes, JobShape, ObservedWhileRunning, Running
<1>4. CASE o \in {"started", "unspawned"}
  <2>1. /\ nextId \in JobIds /\ nextId' = nextId + 1 /\ current' = nextId
        /\ jobs' = [jobs EXCEPT ![nextId] = NewJob(kind, o)]
    BY <1>4 DEF Request, TypeOK, RegistryTypes, JobIds
  <2>2. ~Running BY <1>1, <1>4 DEF Outcomes
  <2>3. \A i \in JobIds : jobs[i].state # "running" BY <2>2 DEF JobShape, Running, JobIds
  <2>4. /\ NewJob(kind, o) \in Job
        /\ NewJob(kind, o).state = IF o = "started" THEN "running" ELSE "failed"
        /\ NewJob(kind, o).proc \in {"spawned", "tick"} => o = "started"
        /\ NewJob(kind, o).proc \in {"none", "spawned", "tick"}
        /\ NewJob(kind, o).reaping <=> o = "unspawned"
    BY <1>4 DEF NewJob, NoProc, Job, States, Kinds, TypeOK, FolderTypes
  <2>5. jobs' \in [JobIds -> Job] /\ jobs'[nextId] = NewJob(kind, o)
        /\ \A i \in JobIds \ {nextId} : jobs'[i] = jobs[i]
    BY <2>1, <2>4 DEF TypeOK, RegistryTypes
  <2>6. \A i \in JobIds : jobs'[i].state = "none" <=> i >= nextId'
    BY <1>4, <2>1, <2>4, <2>5 DEF TypeOK, RegistryTypes, JobIds
  <2>7. Running' <=> o = "started" BY <1>4, <2>1, <2>4, <2>5 DEF Running, JobIds
  <2>0. relay' \in BOOLEAN /\ listing' \in BOOLEAN
    <3>1. CASE o = "started" BY <1>1, <3>1
    <3>2. CASE o = "unspawned" BY <1>1, <3>2
    <3> QED BY <1>4, <3>1, <3>2
  <2>8. RegistryTypes'
    BY <2>0, <2>1, <2>5, <2>6, RestoreAssumption DEF TypeOK, RegistryTypes, JobIds
  <2>9. JobShape' BY <1>4, <2>1, <2>3, <2>4, <2>5 DEF JobShape
  <2>10. ObservedWhileRunning'
    <3>0. (o \in {"joined", "started"}) = (o = "started") BY <1>4
    <3>1. CASE o = "started" BY <1>1, <2>7, <3>1, RunningIsBoolean DEF ObservedWhileRunning
    <3>2. CASE o = "unspawned" BY <1>1, <2>7, <3>2, RunningIsBoolean DEF ObservedWhileRunning
    <3> QED BY <1>4, <3>1, <3>2
  <2>11. \A i \in JobIds : jobs[i].state # "none" => jobs'[i] = jobs[i]
    BY <2>1, <2>5 DEF TypeOK, RegistryTypes, JobIds
  <2> QED BY <1>1, <1>2, <1>4, <2>1, <2>2, <2>7, <2>8, <2>9, <2>10, <2>11 DEF JobIds
<1> QED BY <1>2, <1>3, <1>4

--------------------
(* Frames stay well-typed. *)

Queues(F) == [Clients -> Seq(F)]

LEMMA FrameTypes ==
    /\ \A i \in 0..MaxJobs, s \in States \cup {"none"} :
          /\ Complete(i, s) \in DownFrame /\ Started(i, s) \in DownFrame
          /\ [t |-> "missing", job |-> [id |-> i, state |-> s]] \in DownFrame
          /\ [t |-> "progress", job |-> [id |-> i, state |-> s]] \in DownFrame
    /\ [t |-> "created"] \in DownFrame /\ [t |-> "rejected"] \in DownFrame
    /\ [t |-> "error"] \in DownFrame
BY DEF Complete, Started, DownFrame, Snapshot

LEMMA SendTypes ==
    ASSUME HandlerTypes, NEW d \in Queues(DownFrame), NEW f \in DownFrame, NEW STATE s
    PROVE  /\ Broadcast(d, s, f) \in Queues(DownFrame)
           /\ \A c \in Clients : Answer(d, c, f) \in Queues(DownFrame)
<1>1. \A c \in Clients : d[c] \in Seq(DownFrame) /\ Append(d[c], f) \in Seq(DownFrame) BY DEF Queues
<1>2. Broadcast(d, s, f) \in Queues(DownFrame) BY <1>1 DEF Broadcast, Queues
<1>3. ASSUME NEW c \in Clients PROVE Answer(d, c, f) \in Queues(DownFrame)
  BY <1>1 DEF Answer, Queues
<1> QED BY <1>2, <1>3

\* The end of a job keeps the types of everything it touches.
LEMMA FinishTypes ==
    ASSUME TypeOK, JobShape, ObservedWhileRunning,
           NEW i \in JobIds, jobs[i].state = "running",
           NEW s \in Settled, NEW STATE d, Finish(i, s, d),
           d \in Folder, d.files # {} => d.dir
    PROVE  HandlerTypes' /\ FolderTypes' /\ HistoryTypes'
           /\ ui' = ui /\ down' \in Queues(DownFrame)
<1>1. /\ \A k \in JobIds \ {i} : jobs'[k] = jobs[k]
      /\ i = current /\ i \in 0..MaxJobs
  BY DEF Finish, TypeOK, RegistryTypes, JobShape, JobIds
<1>2. HandlerTypes'
  <2>1. srv' \in [Clients -> [open : BOOLEAN, pend : BOOLEAN, lock : BOOLEAN,
                              attached : BOOLEAN, seen : StatAnswers]]
    BY DEF Finish, TypeOK, HandlerTypes
  <2>2. waits' \subseteq [client : Clients, open : BOOLEAN, job : 0..MaxJobs, step : {"cloning", "building"}]
    BY ZenonT(40) DEF Finish, Continued, TypeOK, HandlerTypes
  <2>3. ASSUME NEW w \in waits', w.step = "cloning"
        PROVE  w.job # 0 /\ jobs'[w.job].state = "running"
    <3>1. w \in waits /\ w.job # i BY <2>3 DEF Finish, Continued, TypeOK, HandlerTypes
    <3>2. w.job \in JobIds /\ jobs[w.job].state = "running"
      BY <2>3, <3>1 DEF TypeOK, HandlerTypes, JobIds
    <3> QED BY <1>1, <3>1, <3>2 DEF JobIds
  <2> QED BY <2>1, <2>2, <2>3 DEF HandlerTypes
<1>3. FolderTypes'
  <2>1. disk' \in Folder /\ (disk'.files # {} => disk'.dir) BY DEF Finish, Folder
  <2>2. scan' \in StatAnswers /\ cache' \in StatAnswers
    BY DEF Finish, TypeOK, FolderTypes, StatAnswers
  <2> QED BY <2>1, <2>2 DEF FolderTypes, Folder
<1>4. HistoryTypes'
  <2>1. disk'.dir \in BOOLEAN BY DEF Finish, Folder
  <2>2. restored' \in BOOLEAN /\ late' \in BOOLEAN BY <2>1 DEF Finish, TypeOK, HistoryTypes
  <2> QED BY <2>2 DEF Finish, TypeOK, HistoryTypes
<1>5. down' \in Queues(DownFrame)
  <2> DEFINE told == IF relay THEN Broadcast(down, srv, Complete(i, s)) ELSE down
  <2>1. Complete(i, s) \in DownFrame BY <1>1, FrameTypes DEF Settled, States
  <2>2. down \in Queues(DownFrame) BY DEF TypeOK, ViewerTypes, Queues
  <2>3. told \in Queues(DownFrame) BY <2>1, <2>2, SendTypes DEF TypeOK
  <2>4. \A c \in Clients : told[c] \in Seq(DownFrame) /\ Append(told[c], [t |-> "error"]) \in Seq(DownFrame)
    BY <2>3, FrameTypes DEF Queues
  <2>5. down' = [c \in Clients |-> IF c \in Ended(i, s) THEN Append(told[c], [t |-> "error"]) ELSE told[c]]
    BY DEF Finish
  <2> HIDE DEF told
  <2> QED BY <2>4, <2>5 DEF Queues
<1>6. ui' = ui BY DEF Finish
<1> QED BY <1>2, <1>3, <1>4, <1>5, <1>6

LEMMA RequestHistory ==
    ASSUME TypeOK, NEW kind \in Kinds, NEW ok \in BOOLEAN, NEW o, Request(kind, ok, o)
    PROVE  cache' \in StatAnswers /\ late' \in BOOLEAN
BY DEF Request, TypeOK, FolderTypes, HistoryTypes, StatAnswers

--------------------
(* Types, the shape of the registry, and its observers, action by action.  *)

Core == TypeOK /\ JobShape /\ ObservedWhileRunning /\ WritesInPlace

LEMMA RegistryFrame ==
    ASSUME Core, UNCHANGED registry
    PROVE  RegistryTypes' /\ JobShape' /\ ObservedWhileRunning'
BY DEF Core, TypeOK, RegistryTypes, JobShape, ObservedWhileRunning, Running, registry

LEMMA HandlerFrame ==
    ASSUME Core, UNCHANGED handlers, \A k \in JobIds : jobs'[k].state = jobs[k].state
    PROVE  HandlerTypes'
<1>1. srv' = srv /\ waits' = waits BY DEF handlers
<1>2. ASSUME NEW w \in waits', w.step = "cloning"
      PROVE  w.job # 0 /\ jobs'[w.job].state = "running"
  <2>1. w.job \in JobIds /\ jobs[w.job].state = "running"
    BY <1>1, <1>2 DEF Core, TypeOK, HandlerTypes, JobIds
  <2> QED BY <2>1 DEF JobIds
<1> QED BY <1>1, <1>2 DEF Core, TypeOK, HandlerTypes

LEMMA FolderFrame ==
    ASSUME Core, UNCHANGED <<disk, listed>>
    PROVE  FolderTypes'
BY DEF Core, TypeOK, FolderTypes, listed

LEMMA ViewerFrame ==
    ASSUME Core, UNCHANGED viewers
    PROVE  ViewerTypes'
BY DEF Core, TypeOK, ViewerTypes, viewers

LEMMA HistoryFrame ==
    ASSUME Core, UNCHANGED <<history, events>>
    PROVE  HistoryTypes'
BY DEF Core, TypeOK, HistoryTypes, history

LEMMA WritesFrame ==
    ASSUME Core, UNCHANGED <<jobs, disk>>
    PROVE  WritesInPlace'
BY DEF Core, WritesInPlace

\* A job that neither starts nor settles.
LEMMA JobUpdate ==
    ASSUME Core, NEW i \in JobIds, NEW STATE j, j \in Job,
           jobs' = [jobs EXCEPT ![i] = j], j.state = jobs[i].state,
           j.proc \in {"spawned", "writing", "ok", "bad"} => j.state = "running",
           j.reaping => j.state \notin {"none", "running"},
           UNCHANGED <<nextId, relay, listing>>,
           current' = current \/ (current = i /\ current' = 0 /\ j.state # "running")
    PROVE  /\ RegistryTypes' /\ JobShape' /\ ObservedWhileRunning'
           /\ jobs'[i] = j /\ \A k \in JobIds \ {i} : jobs'[k] = jobs[k]
           /\ \A k \in JobIds : jobs'[k].state = jobs[k].state
<1>1. jobs'[i] = j /\ \A k \in JobIds \ {i} : jobs'[k] = jobs[k] BY DEF Core, TypeOK, RegistryTypes
<1>2. \A k \in JobIds : jobs'[k].state = jobs[k].state BY <1>1
<1>3. RegistryTypes'
  <2>1. jobs' \in [JobIds -> Job] BY DEF Core, TypeOK, RegistryTypes
  <2>2. current' \in 0..MaxJobs /\ current' < nextId'
    <3>1. current' \in {0, current} /\ nextId' = nextId OBVIOUS
    <3>2. current \in 0..MaxJobs /\ nextId \in 1..MaxJobs + 1 /\ current < nextId
      BY DEF Core, TypeOK, RegistryTypes
    <3> QED BY <3>1, <3>2, RestoreAssumption
  <2> QED BY <1>2, <2>1, <2>2 DEF Core, TypeOK, RegistryTypes
<1>4. JobShape' BY <1>1, <1>2 DEF Core, JobShape
<1>5. Running' <=> Running
  <2>1. CASE current' = current BY <1>2, <2>1 DEF Running, Core, TypeOK, RegistryTypes, JobIds
  <2>2. CASE current = i /\ current' = 0 /\ j.state # "running" BY <2>2 DEF Running
  <2> QED BY <2>1, <2>2
<1>6. ObservedWhileRunning' BY <1>5, RunningIsBoolean DEF Core, ObservedWhileRunning
<1> QED BY <1>1, <1>2, <1>3, <1>4, <1>6

\* The end of a job keeps the invariant, whatever it leaves of the folder.
LEMMA FinishCore ==
    ASSUME Core, NEW i \in JobIds, jobs[i].state = "running",
           NEW s \in Settled, NEW STATE d, Finish(i, s, d),
           d \in Folder, d.files # {} => d.dir,
           up' \in Queues(UpFrame)
    PROVE  Core' /\ ~Running'
<1>1. RegistryTypes' /\ JobShape' /\ ObservedWhileRunning' /\ ~Running' BY FinishRegistry DEF Core
<1>2. HandlerTypes' /\ FolderTypes' /\ HistoryTypes' /\ ui' = ui /\ down' \in Queues(DownFrame)
  BY FinishTypes DEF Core
<1>3. ViewerTypes' BY <1>2 DEF Core, TypeOK, ViewerTypes, Queues
<1>4. WritesInPlace'
  <2>1. SUFFICES ASSUME NEW k \in JobIds PROVE jobs'[k].proc # "writing" BY DEF WritesInPlace
  <2>2. jobs'[k].proc = "writing" => k = current' /\ jobs'[k].state = "running" BY <1>1 DEF JobShape
  <2> QED BY <1>1, <2>2 DEF Running, JobIds
<1> QED BY <1>1, <1>2, <1>3, <1>4 DEF Core, TypeOK

LEMMA TickCore ==
    ASSUME Core, NEW i \in JobIds, Tick(i)
    PROVE  Core'
<1>0. jobs[i] \in Job /\ disk \in Folder /\ (disk.files # {} => disk.dir) /\ up \in Queues(UpFrame)
  BY DEF Core, TypeOK, RegistryTypes, FolderTypes, ViewerTypes, Folder, Queues
<1>1. CASE jobs[i].state # "running"
  <2> DEFINE j == [jobs[i] EXCEPT !.proc = "none"]
  <2>1. jobs' = [jobs EXCEPT ![i] = j] BY <1>0, <1>1 DEF Tick, Core, TypeOK, RegistryTypes
  <2>2. j \in Job /\ j.state = jobs[i].state /\ j.proc = "none" /\ j.reaping = jobs[i].reaping
    BY <1>0 DEF Job
  <2>3. UNCHANGED <<current, nextId, relay, listing, handlers, disk, listed, viewers, history, events>>
    BY <1>1 DEF Tick
  <2> HIDE DEF j
  <2>4. /\ RegistryTypes' /\ JobShape' /\ ObservedWhileRunning'
        /\ jobs'[i] = j /\ \A k \in JobIds \ {i} : jobs'[k] = jobs[k]
        /\ \A k \in JobIds : jobs'[k].state = jobs[k].state
    BY <2>1, <2>2, <2>3, JobUpdate DEF Core, JobShape
  <2>5. WritesInPlace' BY <2>2, <2>3, <2>4 DEF Core, WritesInPlace
  <2> QED BY <2>3, <2>4, <2>5, HandlerFrame, FolderFrame, ViewerFrame, HistoryFrame DEF Core, TypeOK
<1>2. CASE /\ jobs[i].state = "running" /\ jobs[i].kind = "init"
           /\ jobs' = [jobs EXCEPT ![i].proc = "spawned"]
           /\ disk' = [disk EXCEPT !.dir = TRUE]
           /\ UNCHANGED <<current, nextId, relay, listing, handlers, listed, viewers, history, events>>
  <2> DEFINE j == [jobs[i] EXCEPT !.proc = "spawned"]
  <2>1. jobs' = [jobs EXCEPT ![i] = j] BY <1>0, <1>2 DEF Core, TypeOK, RegistryTypes
  <2>2. j \in Job /\ j.state = jobs[i].state /\ j.proc = "spawned" /\ j.reaping = jobs[i].reaping
    BY <1>0 DEF Job
  <2> HIDE DEF j
  <2>3. /\ RegistryTypes' /\ JobShape' /\ ObservedWhileRunning'
        /\ \A k \in JobIds : jobs'[k].state = jobs[k].state
    BY <1>2, <2>1, <2>2, JobUpdate, ZenonT(40) DEF Core, JobShape
  <2>4. FolderTypes' /\ disk'.dir BY <1>0, <1>2 DEF Core, TypeOK, FolderTypes, Folder, listed
  <2>5. WritesInPlace' BY <2>4 DEF WritesInPlace
  <2> QED BY <1>2, <2>3, <2>4, <2>5, HandlerFrame, ViewerFrame, HistoryFrame DEF Core, TypeOK
<1>3. CASE jobs[i].state = "running" /\ Finish(i, "failed", disk) /\ UNCHANGED up
  BY <1>0, <1>3, FinishCore DEF Settled
<1>4. CASE jobs[i].state = "running" /\ Finish(i, "done", [disk EXCEPT !.dir = TRUE]) /\ UNCHANGED up
  <2>1. [disk EXCEPT !.dir = TRUE] \in Folder /\ [disk EXCEPT !.dir = TRUE].dir BY <1>0 DEF Folder
  <2> QED BY <1>0, <1>4, <2>1, FinishCore DEF Settled
<1> QED BY <1>1, <1>2, <1>3, <1>4 DEF Tick

LEMMA GitWritesCore ==
    ASSUME Core, NEW i \in JobIds, GitWrites(i)
    PROVE  Core'
<1> DEFINE j == [jobs[i] EXCEPT !.proc = "writing", !.made = ~disk.dir]
<1>0. jobs[i] \in Job BY DEF Core, TypeOK, RegistryTypes
<1>1. jobs' = [jobs EXCEPT ![i] = j] BY <1>0 DEF GitWrites, Core, TypeOK, RegistryTypes
<1>2. j \in Job /\ j.state = jobs[i].state /\ j.proc = "writing" /\ j.reaping = jobs[i].reaping
  BY <1>0 DEF Job, Core, TypeOK, FolderTypes
<1> HIDE DEF j
<1>3. jobs[i].state = "running" /\ ~jobs[i].reaping BY <1>0 DEF GitWrites, Core, JobShape, Job
<1>4. /\ RegistryTypes' /\ JobShape' /\ ObservedWhileRunning'
      /\ \A k \in JobIds : jobs'[k].state = jobs[k].state
  BY <1>1, <1>2, <1>3, JobUpdate, ZenonT(40) DEF GitWrites
<1>5. FolderTypes' /\ WritesInPlace'
  BY DEF GitWrites, Core, TypeOK, FolderTypes, WritesInPlace, listed
<1>6. UNCHANGED <<handlers, viewers, history, events>> BY DEF GitWrites
<1> QED BY <1>4, <1>5, <1>6, HandlerFrame, ViewerFrame, HistoryFrame DEF Core, TypeOK

LEMMA GitExitsCore ==
    ASSUME Core, NEW i \in JobIds, GitExits(i)
    PROVE  Core'
<1>0. jobs[i] \in Job /\ disk \in Folder /\ (disk.files # {} => disk.dir)
  BY DEF Core, TypeOK, RegistryTypes, FolderTypes, Folder
<1>1. PICK p \in {"ok", "bad"} : jobs' = [jobs EXCEPT ![i].proc = p] BY DEF GitExits
<1> DEFINE j == [jobs[i] EXCEPT !.proc = p]
<1>2. jobs' = [jobs EXCEPT ![i] = j] BY <1>0, <1>1 DEF Core, TypeOK, RegistryTypes
<1>3. j \in Job /\ j.state = jobs[i].state /\ j.proc = p /\ j.reaping = jobs[i].reaping
  BY <1>0 DEF Job
<1> HIDE DEF j
<1>4. jobs[i].state = "running" /\ ~jobs[i].reaping /\ i = current
  BY <1>0 DEF GitExits, Live, Core, JobShape, Job
<1>5. /\ RegistryTypes' /\ JobShape' /\ ObservedWhileRunning'
      /\ jobs'[i] = j /\ \A k \in JobIds \ {i} : jobs'[k] = jobs[k]
      /\ \A k \in JobIds : jobs'[k].state = jobs[k].state
  BY <1>2, <1>3, <1>4, JobUpdate DEF GitExits
<1>6. disk' \in Folder /\ (disk'.files # {} => disk'.dir)
  <2>1. \/ disk' = disk
        \/ disk' = NoFolder
        \/ disk' = [disk EXCEPT !.files = @ \ {"part"}]
        \/ disk' = [disk EXCEPT !.files = (@ \ {"part"}) \cup {"tree"}] /\ jobs[i].kind = "clone" /\ jobs[i].proc = "writing"
    BY DEF GitExits
  <2>2. jobs[i].proc = "writing" => disk.dir BY DEF Core, WritesInPlace
  <2>3. CASE disk' \in {disk, NoFolder}
    <3>1. NoFolder \in Folder /\ NoFolder.files = {} BY DEF NoFolder, Folder
    <3> QED BY <1>0, <2>3, <3>1
  <2>4. CASE disk' = [disk EXCEPT !.files = @ \ {"part"}] BY <1>0, <2>4 DEF Folder
  <2>5. CASE /\ disk' = [disk EXCEPT !.files = (@ \ {"part"}) \cup {"tree"}]
             /\ jobs[i].kind = "clone" /\ jobs[i].proc = "writing"
    <3>1. (disk.files \ {"part"}) \cup {"tree"} \in SUBSET {"part", "tree", "others"}
      <4>1. disk.files \in SUBSET {"part", "tree", "others"} BY <1>0 DEF Folder
      <4> QED BY <4>1
    <3>2. disk' = [dir |-> disk.dir, files |-> (disk.files \ {"part"}) \cup {"tree"}] /\ disk.dir = TRUE
      BY <1>0, <2>2, <2>5 DEF Folder
    <3> QED BY <3>1, <3>2 DEF Folder
  <2> QED BY <2>1, <2>3, <2>4, <2>5
<1>7. FolderTypes' BY <1>6 DEF GitExits, Core, TypeOK, FolderTypes, Folder, listed
<1>8. HistoryTypes' BY <1>6 DEF GitExits, Core, TypeOK, HistoryTypes, Folder
<1>9. WritesInPlace' BY <1>3, <1>4, <1>5 DEF Core, JobShape, WritesInPlace
<1>10. UNCHANGED <<handlers, viewers>> BY DEF GitExits
<1> QED BY <1>5, <1>7, <1>8, <1>9, <1>10, HandlerFrame, ViewerFrame DEF Core, TypeOK

LEMMA CloseCore ==
    ASSUME Core, NEW i \in JobIds, Close(i)
    PROVE  Core'
<1>0. /\ jobs[i].state = "running" /\ disk \in Folder /\ (disk.files # {} => disk.dir)
      /\ NoFolder \in Folder /\ NoFolder.files = {} /\ up' \in Queues(UpFrame)
  BY DEF Close, Core, JobShape, TypeOK, FolderTypes, ViewerTypes, NoFolder, Folder, Queues
<1>1. CASE Finish(i, "cancelled", NoFolder) BY <1>0, <1>1, FinishCore DEF Settled
<1>2. ASSUME NEW s \in Settled, Finish(i, s, disk) PROVE Core' BY <1>0, <1>2, FinishCore
<1> QED BY <1>1, <1>2 DEF Close, Settled

LEMMA SpawnErrorsCore ==
    ASSUME Core, NEW i \in JobIds, SpawnErrors(i)
    PROVE  Core'
<1>0. /\ jobs[i].state = "running" /\ disk \in Folder /\ (disk.files # {} => disk.dir)
      /\ up' \in Queues(UpFrame) /\ Finish(i, "failed", disk)
  BY DEF SpawnErrors, Core, JobShape, TypeOK, FolderTypes, ViewerTypes, Folder, Queues
<1> QED BY <1>0, FinishCore DEF Settled

LEMMA ProgressCore ==
    ASSUME Core, NEW i \in JobIds, Progress(i)
    PROVE  Core'
<1>1. UNCHANGED <<registry, handlers, disk, listed, ui, up, history>> /\ jobs' = jobs
  BY DEF Progress, registry
<1>2. HistoryTypes' BY <1>1, RestoreAssumption DEF Progress, Core, TypeOK, HistoryTypes, history
<1>3. [t |-> "progress", job |-> Snap(i)] \in DownFrame
  <2>1. i \in 0..MaxJobs /\ jobs[i].state \in States \cup {"none"}
    BY RestoreAssumption DEF Core, TypeOK, RegistryTypes, Job, JobIds
  <2> QED BY <2>1, FrameTypes DEF Snap
<1>4. down' \in Queues(DownFrame)
  <2>1. down \in Queues(DownFrame) BY DEF Core, TypeOK, ViewerTypes, Queues
  <2> QED BY <1>3, <2>1, SendTypes DEF Progress, Core, TypeOK
<1>5. ViewerTypes' BY <1>1, <1>4 DEF Core, TypeOK, ViewerTypes, Queues
<1> QED BY <1>1, <1>2, <1>5, RegistryFrame, HandlerFrame, FolderFrame, WritesFrame DEF Core, TypeOK

LEMMA ReapCore ==
    ASSUME Core, NEW i \in JobIds, Reap(i)
    PROVE  Core'
<1>0. jobs[i] \in Job /\ jobs[i].reaping /\ jobs[i].state \notin {"none", "running"}
  BY DEF Reap, Core, TypeOK, RegistryTypes, JobShape
<1> DEFINE j == [jobs[i] EXCEPT !.reaping = FALSE]
<1>1. jobs' = [jobs EXCEPT ![i] = j] BY <1>0 DEF Reap, Core, TypeOK, RegistryTypes
<1>2. j \in Job /\ j.state = jobs[i].state /\ j.proc = jobs[i].proc /\ j.reaping = FALSE
  BY <1>0 DEF Job
<1> HIDE DEF j
<1>3. /\ RegistryTypes' /\ JobShape' /\ ObservedWhileRunning'
      /\ jobs'[i] = j /\ \A k \in JobIds \ {i} : jobs'[k] = jobs[k]
      /\ \A k \in JobIds : jobs'[k].state = jobs[k].state
  BY <1>0, <1>1, <1>2, JobUpdate DEF Reap, Core, JobShape
<1>4. UNCHANGED <<handlers, disk, listed, viewers, history, events>> BY DEF Reap
<1>5. WritesInPlace' BY <1>2, <1>3, <1>4 DEF Core, WritesInPlace
<1> QED BY <1>3, <1>4, <1>5, HandlerFrame, FolderFrame, ViewerFrame, HistoryFrame DEF Core, TypeOK

--------------------
(* The handlers. *)

Connection == [open : BOOLEAN, pend : BOOLEAN, lock : BOOLEAN, attached : BOOLEAN, seen : StatAnswers]
Waiter == [client : Clients, open : BOOLEAN, job : 0..MaxJobs, step : {"cloning", "building"}]

LEMMA TakeTypes ==
    ASSUME Core, NEW c \in Clients, NEW t, Takes(c, t)
    PROVE  up' \in Queues(UpFrame) /\ Head(up[c]) \in UpFrame /\ Head(up[c]).t = t
<1>1. up[c] \in Seq(UpFrame) /\ up[c] # <<>> BY DEF Takes, Core, TypeOK, ViewerTypes
<1>2. Head(up[c]) \in UpFrame /\ Tail(up[c]) \in Seq(UpFrame) BY <1>1, HeadTailProperties
<1>3. up' = [up EXCEPT ![c] = Tail(up[c])] BY DEF Takes
<1> QED BY <1>2, <1>3 DEF Takes, Core, TypeOK, ViewerTypes, Queues

LEMMA StartFrame ==
    ASSUME NEW f \in UpFrame, f.t = "start"
    PROVE  f.kind \in Kinds /\ f.ok \in BOOLEAN
BY DEF UpFrame

\* Waiting handlers stay where they are while a job is asked for.
LEMMA RequestHandlers ==
    ASSUME Core, NEW kind \in Kinds, NEW ok \in BOOLEAN, NEW o, Request(kind, ok, o)
    PROVE  \A w \in waits : w.step = "cloning" => w.job # 0 /\ jobs'[w.job].state = "running"
<1> SUFFICES ASSUME NEW w \in waits, w.step = "cloning"
             PROVE  w.job # 0 /\ jobs'[w.job].state = "running"
  OBVIOUS
<1>1. w.job \in JobIds /\ jobs[w.job].state = "running" BY DEF Core, TypeOK, HandlerTypes, JobIds
<1>2. jobs'[w.job] = jobs[w.job] BY <1>1, RequestRegistry DEF Core
<1> QED BY <1>1, <1>2 DEF JobIds

LEMMA RequestWrites ==
    ASSUME Core, NEW kind \in Kinds, NEW ok \in BOOLEAN, NEW o, Request(kind, ok, o), disk' = disk
    PROVE  WritesInPlace'
<1>1. CASE jobs' = jobs BY <1>1, WritesFrame
<1>2. CASE jobs' = [jobs EXCEPT ![nextId] = NewJob(kind, o)]
  <2>1. NewJob(kind, o).proc # "writing" BY DEF NewJob, NoProc
  <2> QED BY <1>2, <2>1 DEF Core, WritesInPlace, TypeOK, RegistryTypes
<1> QED BY <1>1, <1>2 DEF Request

LEMMA RestoreStartCore ==
    ASSUME Core, NEW c \in Clients, RestoreStart(c)
    PROVE  Core'
<1> DEFINE f == Head(up[c])
<1>1. f.kind \in Kinds /\ f.ok \in BOOLEAN /\ up' \in Queues(UpFrame)
  BY TakeTypes, StartFrame DEF RestoreStart
<1>2. PICK o \in Outcomes(f.kind, f.ok) :
        /\ Request(f.kind, f.ok, o)
        /\ down' = CASE o = "refused" -> Answer(down, c, [t |-> "rejected"])
                     [] o \in {"joined", "started"} -> Answer(down, c, Started(current', "running"))
                     [] o = "unspawned" ->
                          LET told == Broadcast(down, srv, Complete(current', "failed"))
                          IN  Broadcast(Answer(told, c, Started(current', "failed")), srv, Complete(current', "failed"))
  BY DEF RestoreStart
<1>3. UNCHANGED <<handlers, disk, scan, ui, restored, cut, raced, events>> BY DEF RestoreStart
<1> HIDE DEF f
<1>4. /\ RegistryTypes' /\ JobShape' /\ ObservedWhileRunning'
      /\ o \in {"joined", "refused", "started", "unspawned"}
  BY <1>1, <1>2, RequestRegistry DEF Core
<1>5. HandlerTypes'
  <2>1. \A w \in waits : w.step = "cloning" => w.job # 0 /\ jobs'[w.job].state = "running"
    BY <1>1, <1>2, RequestHandlers
  <2> QED BY <1>3, <2>1 DEF Core, TypeOK, HandlerTypes, handlers
<1>6. cache' \in StatAnswers /\ late' \in BOOLEAN BY <1>1, <1>2, RequestHistory DEF Core
<1>7. FolderTypes' /\ HistoryTypes' BY <1>3, <1>6 DEF Core, TypeOK, FolderTypes, HistoryTypes
<1>8. WritesInPlace' BY <1>1, <1>2, <1>3, RequestWrites
<1>9. down' \in Queues(DownFrame)
  <2>1. down \in Queues(DownFrame) BY DEF Core, TypeOK, ViewerTypes, Queues
  <2>2. /\ Complete(current', "failed") \in DownFrame
        /\ Started(current', "failed") \in DownFrame /\ Started(current', "running") \in DownFrame
    BY <1>4, FrameTypes DEF RegistryTypes, States
  <2>3. CASE o = "refused" BY <1>2, <2>1, <2>3, FrameTypes, SendTypes DEF Core, TypeOK
  <2>4. CASE o \in {"joined", "started"} BY <1>2, <2>1, <2>2, <2>4, SendTypes DEF Core, TypeOK
  <2>5. CASE o = "unspawned"
    <3> DEFINE told == Broadcast(down, srv, Complete(current', "failed"))
               both == Answer(told, c, Started(current', "failed"))
    <3>1. told \in Queues(DownFrame) BY <2>1, <2>2, SendTypes DEF Core, TypeOK
    <3>2. down' = Broadcast(both, srv, Complete(current', "failed")) BY <1>2, <2>5
    <3> HIDE DEF told
    <3>3. both \in Queues(DownFrame) BY <2>2, <3>1, SendTypes DEF Core, TypeOK
    <3> HIDE DEF both
    <3> QED BY <2>2, <3>2, <3>3, SendTypes DEF Core, TypeOK
  <2> QED BY <1>4, <2>3, <2>4, <2>5
<1>10. ViewerTypes' BY <1>1, <1>3, <1>9 DEF Core, TypeOK, ViewerTypes, Queues
<1> QED BY <1>4, <1>5, <1>7, <1>8, <1>10 DEF Core, TypeOK

LEMMA RestoreCancelCore ==
    ASSUME Core, NEW c \in Clients, RestoreCancel(c)
    PROVE  Core'
<1>0. /\ up' \in Queues(UpFrame) /\ down \in Queues(DownFrame)
      /\ disk \in Folder /\ (disk.files # {} => disk.dir)
  BY TakeTypes DEF RestoreCancel, Core, TypeOK, FolderTypes, ViewerTypes, Folder, Queues
<1>1. CASE ~Running
  <2>1. /\ down' = IF current = 0 THEN down ELSE Answer(down, c, Complete(current, jobs[current].state))
        /\ UNCHANGED <<registry, handlers, disk, listed, ui, history, events>> /\ jobs' = jobs
    BY <1>1 DEF RestoreCancel, registry
  <2>2. current # 0 => Complete(current, jobs[current].state) \in DownFrame
    <3>1. current \in 0..MaxJobs /\ (current # 0 => jobs[current].state \in States \cup {"none"})
      BY RestoreAssumption DEF Core, TypeOK, RegistryTypes, Job, JobIds
    <3> QED BY <3>1, FrameTypes
  <2>3. down' \in Queues(DownFrame) BY <1>0, <2>1, <2>2, SendTypes DEF Core, TypeOK
  <2>4. ViewerTypes' BY <1>0, <2>1, <2>3 DEF Core, TypeOK, ViewerTypes, Queues
  <2> QED BY <2>1, <2>4, RegistryFrame, HandlerFrame, FolderFrame, HistoryFrame, WritesFrame DEF Core, TypeOK
<1>2. ASSUME Running PROVE current \in JobIds /\ jobs[current].state = "running" /\ jobs[current] \in Job
  BY <1>2 DEF Running, Core, TypeOK, RegistryTypes, JobIds
<1>3. CASE Running /\ Finish(current, "cancelled", disk)
  <2>1. PICK i \in JobIds : i = current BY <1>2, <1>3
  <2> QED BY <1>0, <1>2, <1>3, <2>1, FinishCore DEF Settled
<1>4. CASE /\ Running /\ jobs' = [jobs EXCEPT ![current].cancel = TRUE]
           /\ UNCHANGED <<current, nextId, relay, listing, handlers, disk, listed, ui, down, history, events>>
  <2>1. PICK i \in JobIds : i = current BY <1>2, <1>4
  <2> DEFINE j == [jobs[i] EXCEPT !.cancel = TRUE]
  <2>2. jobs' = [jobs EXCEPT ![i] = j] BY <1>2, <1>4, <2>1 DEF Core, TypeOK, RegistryTypes
  <2>3. /\ j \in Job /\ j.state = jobs[i].state /\ j.proc = jobs[i].proc
        /\ j.reaping = jobs[i].reaping /\ j.state = "running"
    BY <1>2, <1>4, <2>1 DEF Job
  <2> HIDE DEF j
  <2>4. /\ RegistryTypes' /\ JobShape' /\ ObservedWhileRunning'
        /\ jobs'[i] = j /\ \A k \in JobIds \ {i} : jobs'[k] = jobs[k]
        /\ \A k \in JobIds : jobs'[k].state = jobs[k].state
    BY <1>4, <2>2, <2>3, JobUpdate DEF Core, JobShape
  <2>5. WritesInPlace' BY <1>4, <2>3, <2>4 DEF Core, WritesInPlace
  <2>6. ViewerTypes' BY <1>0, <1>4 DEF Core, TypeOK, ViewerTypes, Queues
  <2> QED BY <1>4, <2>4, <2>5, <2>6, HandlerFrame, FolderFrame, HistoryFrame DEF Core, TypeOK
<1> QED BY <1>1, <1>3, <1>4 DEF RestoreCancel

LEMMA SessionNewClonesCore ==
    ASSUME Core, NEW c \in Clients, SessionNewClones(c)
    PROVE  Core'
<1> DEFINE s == [srv EXCEPT ![c].pend = TRUE]
<1>1. up' \in Queues(UpFrame) BY TakeTypes DEF SessionNewClones
<1>2. PICK o \in Outcomes("clone", TRUE) :
         /\ Request("clone", TRUE, o)
         /\ srv' = [srv EXCEPT ![c].pend = o \in {"joined", "started"}]
         /\ waits' = waits \cup IF o \in {"joined", "started"} THEN {Waiting(c, current', "cloning")} ELSE {}
         /\ cut' = IF o = "unspawned" THEN cut \cup {c} ELSE cut
         /\ down' = CASE o = "refused" -> Answer(down, c, [t |-> "error"])
                      [] o \in {"joined", "started"} -> Answer(down, c, Started(current', "running"))
                      [] o = "unspawned" ->
                           Answer(Answer(Broadcast(down, s, Complete(current', "failed")),
                                         c, Started(current', "failed")), c, [t |-> "error"])
  BY DEF SessionNewClones
<1>3. UNCHANGED <<disk, scan, ui, restored, raced, events>> BY DEF SessionNewClones
<1> HIDE DEF s
<1>4. /\ RegistryTypes' /\ JobShape' /\ ObservedWhileRunning'
      /\ o \in {"joined", "refused", "started", "unspawned"}
      /\ o \in {"joined", "started"} => Running' /\ current' # 0
  BY <1>2, RequestRegistry DEF Core, Kinds
<1>5. HandlerTypes'
  <2>1. srv' \in [Clients -> Connection]
    <3>1. srv \in [Clients -> Connection] BY DEF Core, TypeOK, HandlerTypes, Connection
    <3>2. PICK b \in BOOLEAN : srv' = [srv EXCEPT ![c].pend = b]
      <4> DEFINE b == o \in {"joined", "started"}
      <4>1. srv' = [srv EXCEPT ![c].pend = b] BY <1>2
      <4>2. b \in BOOLEAN OBVIOUS
      <4> HIDE DEF b
      <4> QED BY <4>1, <4>2
    <3> QED BY <3>1, <3>2 DEF Connection
  <2>2. ASSUME NEW w \in waits'
        PROVE  w \in Waiter /\ (w.step = "cloning" => w.job # 0 /\ jobs'[w.job].state = "running")
    <3>1. CASE w \in waits
      <4>1. \A v \in waits : v.step = "cloning" => v.job # 0 /\ jobs'[v.job].state = "running"
        BY <1>2, RequestHandlers DEF Kinds
      <4> QED BY <3>1, <4>1 DEF Core, TypeOK, HandlerTypes, Waiter
    <3>2. CASE w = Waiting(c, current', "cloning") /\ o \in {"joined", "started"}
      BY <1>4, <3>2 DEF Waiting, Waiter, Running, RegistryTypes
    <3> QED BY <1>2, <2>2, <3>1, <3>2
  <2> QED BY <2>1, <2>2 DEF HandlerTypes, Connection, Waiter
<1>6. cache' \in StatAnswers /\ late' \in BOOLEAN BY <1>2, RequestHistory DEF Core, Kinds
<1>7. FolderTypes' /\ HistoryTypes' BY <1>2, <1>3, <1>6 DEF Core, TypeOK, FolderTypes, HistoryTypes
<1>8. WritesInPlace' BY <1>2, <1>3, RequestWrites DEF Kinds
<1>9. down' \in Queues(DownFrame)
  <2>1. down \in Queues(DownFrame) BY DEF Core, TypeOK, ViewerTypes, Queues
  <2>2. /\ Complete(current', "failed") \in DownFrame
        /\ Started(current', "failed") \in DownFrame /\ Started(current', "running") \in DownFrame
    BY <1>4, FrameTypes DEF RegistryTypes, States
  <2>3. CASE o = "refused" BY <1>2, <2>1, <2>3, FrameTypes, SendTypes DEF Core, TypeOK
  <2>4. CASE o \in {"joined", "started"} BY <1>2, <2>1, <2>2, <2>4, SendTypes DEF Core, TypeOK
  <2>5. CASE o = "unspawned"
    <3> DEFINE told == Broadcast(down, s, Complete(current', "failed"))
               both == Answer(told, c, Started(current', "failed"))
    <3>1. told \in Queues(DownFrame) BY <2>1, <2>2, SendTypes DEF Core, TypeOK
    <3>2. down' = Answer(both, c, [t |-> "error"]) BY <1>2, <2>5
    <3> HIDE DEF told
    <3>3. both \in Queues(DownFrame) BY <2>2, <3>1, SendTypes DEF Core, TypeOK
    <3> HIDE DEF both
    <3> QED BY <3>2, <3>3, FrameTypes, SendTypes DEF Core, TypeOK
  <2> QED BY <1>4, <2>3, <2>4, <2>5
<1>10. ViewerTypes' BY <1>1, <1>3, <1>9 DEF Core, TypeOK, ViewerTypes, Queues
<1> QED BY <1>4, <1>5, <1>7, <1>8, <1>10 DEF Core, TypeOK

LEMMA SessionNewCreatesCore ==
    ASSUME Core, NEW c \in Clients, SessionNewCreates(c)
    PROVE  Core'
<1>1. up' \in Queues(UpFrame) BY TakeTypes DEF SessionNewCreates
<1>2. UNCHANGED <<registry, listed, ui, down, restored, late, cut, events>> /\ jobs' = jobs
  BY DEF SessionNewCreates, registry
<1>3. HandlerTypes'
  <2>1. srv' \in [Clients -> Connection]
    <3>1. PICK found \in {Head(up[c]).clone, FALSE} : srv' = [srv EXCEPT ![c].pend = @ \/ found]
      BY DEF SessionNewCreates
    <3>2. srv \in [Clients -> Connection] /\ srv[c].pend \in BOOLEAN
      BY DEF Core, TypeOK, HandlerTypes, Connection
    <3> DEFINE b == srv[c].pend \/ found
    <3>3. srv' = [srv EXCEPT ![c].pend = b] /\ b \in BOOLEAN BY <3>1
    <3> HIDE DEF b
    <3> QED BY <3>2, <3>3 DEF Connection
  <2>2. ASSUME NEW w \in waits'
        PROVE  w \in Waiter /\ (w.step = "cloning" => w.job # 0 /\ jobs'[w.job].state = "running")
    <3>1. CASE w \in waits BY <1>2, <3>1 DEF Core, TypeOK, HandlerTypes, Waiter
    <3>2. CASE w = Waiting(c, 0, "building") BY <3>2, RestoreAssumption DEF Waiting, Waiter
    <3> QED BY <2>2, <3>1, <3>2 DEF SessionNewCreates
  <2> QED BY <2>1, <2>2 DEF HandlerTypes, Connection, Waiter
<1>4. FolderTypes' /\ WritesInPlace'
  <2>1. disk' = [disk EXCEPT !.dir = TRUE] BY DEF SessionNewCreates
  <2> QED BY <1>2, <2>1 DEF Core, TypeOK, FolderTypes, WritesInPlace, listed
<1>5. HistoryTypes' BY <1>2 DEF SessionNewCreates, Core, TypeOK, HistoryTypes
<1>6. ViewerTypes' BY <1>1, <1>2 DEF Core, TypeOK, ViewerTypes, Queues
<1> QED BY <1>2, <1>3, <1>4, <1>5, <1>6, RegistryFrame DEF Core, TypeOK

LEMMA SessionNewEndsCore ==
    ASSUME Core, NEW w \in waits, SessionNewEnds(w)
    PROVE  Core'
<1>1. UNCHANGED <<registry, disk, listed, ui, up, history, events>> /\ jobs' = jobs
  BY DEF SessionNewEnds, registry
<1>2. w.client \in Clients BY DEF Core, TypeOK, HandlerTypes
<1>3. HandlerTypes'
  <2>1. srv' \in [Clients -> Connection]
    <3>1. srv \in [Clients -> Connection] BY DEF Core, TypeOK, HandlerTypes, Connection
    <3>2. \/ srv' = srv
          \/ srv' = [srv EXCEPT ![w.client] = [srv[w.client] EXCEPT !.attached = TRUE, !.pend = TRUE, !.lock = FALSE]]
      BY DEF SessionNewEnds
    <3>3. [srv[w.client] EXCEPT !.attached = TRUE, !.pend = TRUE, !.lock = FALSE] \in Connection
      BY <1>2, <3>1 DEF Connection
    <3> QED BY <1>2, <3>1, <3>2, <3>3
  <2>2. waits' \subseteq waits BY DEF SessionNewEnds
  <2> QED BY <1>1, <2>1, <2>2 DEF Core, TypeOK, HandlerTypes, Connection
<1>4. down' \in Queues(DownFrame)
  <2>1. down \in Queues(DownFrame) BY DEF Core, TypeOK, ViewerTypes, Queues
  <2>2. \/ down' = down \/ down' = Answer(down, w.client, [t |-> "created"])
        \/ down' = Answer(down, w.client, [t |-> "error"])
    BY DEF SessionNewEnds
  <2> QED BY <1>2, <2>1, <2>2, FrameTypes, SendTypes DEF Core, TypeOK
<1>5. ViewerTypes' BY <1>1, <1>4 DEF Core, TypeOK, ViewerTypes, Queues
<1> QED BY <1>1, <1>3, <1>5, RegistryFrame, FolderFrame, HistoryFrame, WritesFrame DEF Core, TypeOK

\* Handlers that are waiting while a connection changes.
LEMMA WaitersFrame ==
    ASSUME Core, UNCHANGED <<waits, jobs>>, srv' \in [Clients -> Connection]
    PROVE  HandlerTypes'
BY DEF Core, TypeOK, HandlerTypes, Connection

LEMMA SessionLoadCore ==
    ASSUME Core, NEW c \in Clients, SessionLoad(c)
    PROVE  Core'
<1>1. up' \in Queues(UpFrame) BY TakeTypes DEF SessionLoad
<1>2. UNCHANGED <<registry, waits, disk, listed, ui, down, history, events>> /\ jobs' = jobs
  BY DEF SessionLoad, registry
<1>3. srv' \in [Clients -> Connection]
  <2>1. PICK seen \in {"there", "gone"} : srv' = [srv EXCEPT ![c].lock = FALSE, ![c].seen = seen]
    BY DEF SessionLoad
  <2>2. srv \in [Clients -> Connection] BY DEF Core, TypeOK, HandlerTypes, Connection
  <2> QED BY <2>1, <2>2 DEF Connection, StatAnswers
<1>4. ViewerTypes' BY <1>1, <1>2 DEF Core, TypeOK, ViewerTypes, Queues
<1> QED BY <1>2, <1>3, <1>4, WaitersFrame, RegistryFrame, FolderFrame, HistoryFrame, WritesFrame DEF Core, TypeOK

LEMMA LoadPaintsCore ==
    ASSUME Core, NEW c \in Clients, LoadPaints(c)
    PROVE  Core'
<1> DEFINE missing == Missing(srv[c].seen)
<1>1. UNCHANGED <<registry, waits, disk, listed, ui, up, restored, late, cut, events>> /\ jobs' = jobs
  BY DEF LoadPaints, registry
<1>2. missing \in BOOLEAN BY DEF Missing, Running
<1>3. /\ srv' = [srv EXCEPT ![c] = [open |-> TRUE, seen |-> "none",
                                    lock |-> missing, attached |-> ~missing, pend |-> ~missing]]
      /\ down' = IF missing
                   THEN Answer(down, c, [t |-> "missing", job |-> IF current = 0 THEN NoJob ELSE Snap(current)])
                   ELSE Answer(down, c, [t |-> "created"])
      /\ raced' = IF ~missing /\ ~disk.dir THEN raced \cup {"vanished"} ELSE raced
  BY DEF LoadPaints
<1> HIDE DEF missing
<1>4. srv' \in [Clients -> Connection]
  <2>1. srv \in [Clients -> Connection] BY DEF Core, TypeOK, HandlerTypes, Connection
  <2>2. [open |-> TRUE, seen |-> "none", lock |-> missing, attached |-> ~missing, pend |-> ~missing] \in Connection
    BY <1>2 DEF Connection, StatAnswers
  <2> QED BY <1>3, <2>1, <2>2
<1>5. down' \in Queues(DownFrame)
  <2>1. down \in Queues(DownFrame) BY DEF Core, TypeOK, ViewerTypes, Queues
  <2>2. [t |-> "missing", job |-> IF current = 0 THEN NoJob ELSE Snap(current)] \in DownFrame
    <3>1. \A i \in 0..MaxJobs, s \in States \cup {"none"} :
             [t |-> "missing", job |-> [id |-> i, state |-> s]] \in DownFrame
      BY FrameTypes
    <3>2. CASE current = 0 BY <3>1, <3>2, RestoreAssumption DEF NoJob
    <3>3. CASE current # 0
      <4>1. current \in 0..MaxJobs /\ jobs[current].state \in States \cup {"none"}
        BY <3>3, RestoreAssumption DEF Core, TypeOK, RegistryTypes, Job, JobIds
      <4> QED BY <3>1, <3>3, <4>1 DEF Snap
    <3> QED BY <3>2, <3>3
  <2> QED BY <1>3, <2>1, <2>2, FrameTypes, SendTypes DEF Core, TypeOK
<1>6. ViewerTypes' BY <1>1, <1>5 DEF Core, TypeOK, ViewerTypes, Queues
<1>7. HistoryTypes' BY <1>1, <1>3 DEF Core, TypeOK, HistoryTypes
<1> QED BY <1>1, <1>4, <1>6, <1>7, WaitersFrame, RegistryFrame, FolderFrame, WritesFrame DEF Core, TypeOK

LEMMA SessionLeaveCore ==
    ASSUME Core, NEW c \in Clients, SessionLeave(c)
    PROVE  Core'
<1>1. up' \in Queues(UpFrame) BY TakeTypes DEF SessionLeave
<1>2. UNCHANGED <<registry, waits, disk, listed, ui, down, history, events>> /\ jobs' = jobs
  BY DEF SessionLeave, registry
<1>3. srv' \in [Clients -> Connection]
  <2> DEFINE b == srv[c].pend /\ ~srv[c].attached
  <2>1. srv \in [Clients -> Connection] /\ srv[c] \in Connection
    BY DEF Core, TypeOK, HandlerTypes, Connection
  <2>2. srv' = [srv EXCEPT ![c] = [srv[c] EXCEPT !.lock = FALSE, !.attached = FALSE, !.pend = b]]
    BY DEF SessionLeave
  <2>3. b \in BOOLEAN BY <2>1 DEF Connection
  <2> HIDE DEF b
  <2>4. [srv[c] EXCEPT !.lock = FALSE, !.attached = FALSE, !.pend = b] \in Connection
    BY <2>1, <2>3 DEF Connection
  <2> QED BY <2>1, <2>2, <2>4
<1>4. ViewerTypes' BY <1>1, <1>2 DEF Core, TypeOK, ViewerTypes, Queues
<1> QED BY <1>2, <1>3, <1>4, WaitersFrame, RegistryFrame, FolderFrame, HistoryFrame, WritesFrame DEF Core, TypeOK

--------------------
(* The viewers. *)

Screen == [view : {"away", "loading", "live", "panel", "creating", "clone"}, job : Snapshot, asked : BOOLEAN]

LEMMA ElsewhereTypes ==
    Elsewhere \in Screen /\ NoJob \in Snapshot /\ Loading \in Screen
<1>1. NoJob \in Snapshot BY RestoreAssumption DEF NoJob, Snapshot
<1>2. Elsewhere \in Screen BY <1>1 DEF Elsewhere, Screen
<1>3. Loading \in Screen BY <1>2 DEF Loading, Screen
<1> QED BY <1>1, <1>2, <1>3

LEMMA ShownTypes ==
    ASSUME NEW u \in Screen, NEW f \in DownFrame
    PROVE  Shown(u, f) \in Screen
<1>1. \/ f.t \in {"missing", "started", "progress", "complete"} /\ f.job \in Snapshot
      \/ f.t \in {"created", "rejected", "error"}
  BY DEF DownFrame
<1>2. CASE f.t = "created" BY <1>2, ElsewhereTypes DEF Shown, Screen
<1>3. CASE f.t = "missing"
  <2>1. Shown(u, f) = [view |-> "panel", job |-> f.job, asked |-> FALSE] BY <1>3 DEF Shown
  <2> QED BY <1>1, <1>3, <2>1 DEF Screen
<1>4. CASE f.t = "error" BY <1>4, ElsewhereTypes DEF Shown, Screen
<1>5. CASE f.t = "rejected"
  <2>1. Shown(u, f) = [u EXCEPT !.asked = FALSE] BY <1>5 DEF Shown
  <2> QED BY <2>1 DEF Screen
<1>6. CASE f.t = "started" /\ u.view = "creating" BY <1>1, <1>6 DEF Shown, Screen
<1>7. CASE f.t = "complete" /\ u.view = "clone"
  <2>1. Shown(u, f) = [Elsewhere EXCEPT !.view = IF f.job.state = "done" THEN "creating" ELSE "away"]
    BY <1>7 DEF Shown
  <2> QED BY <2>1, ElsewhereTypes DEF Screen
<1>8. CASE /\ f.t \in {"started", "progress", "complete"}
           /\ ~(f.t = "started" /\ u.view = "creating") /\ ~(f.t = "complete" /\ u.view = "clone")
  <2>1. Shown(u, f) = IF u.view \in {"panel", "clone"} THEN [u EXCEPT !.job = f.job, !.asked = FALSE] ELSE u
    BY <1>8 DEF Shown
  <2> QED BY <1>1, <1>8, <2>1 DEF Screen
<1> QED BY <1>1, <1>2, <1>3, <1>4, <1>5, <1>6, <1>7, <1>8

LEMMA ReceivesCore ==
    ASSUME Core, NEW c \in Clients, Receives(c)
    PROVE  Core'
<1>1. UNCHANGED <<registry, handlers, disk, listed, up, history, events>> /\ jobs' = jobs
  BY DEF Receives, registry
<1>2. down[c] \in Seq(DownFrame) /\ down[c] # <<>> /\ ui[c] \in Screen
  BY DEF Receives, Core, TypeOK, ViewerTypes, Screen
<1>3. Head(down[c]) \in DownFrame /\ Tail(down[c]) \in Seq(DownFrame) BY <1>2, HeadTailProperties
<1>4. Shown(ui[c], Head(down[c])) \in Screen BY <1>2, <1>3, ShownTypes
<1>5. /\ ui' = [ui EXCEPT ![c] = Shown(ui[c], Head(down[c]))]
      /\ down' = [down EXCEPT ![c] = Tail(down[c])]
  BY DEF Receives
<1>6. ViewerTypes' BY <1>1, <1>3, <1>4, <1>5 DEF Core, TypeOK, ViewerTypes, Screen
<1> QED BY <1>1, <1>6, RegistryFrame, HandlerFrame, FolderFrame, HistoryFrame, WritesFrame DEF Core, TypeOK

\* One more of what MaxEvents bounds.
LEMMA OneMoreEvent ==
    ASSUME events \in 0..MaxEvents, events < MaxEvents, events' = events + 1
    PROVE  events' \in 0..MaxEvents
BY RestoreAssumption

LEMMA TapsCore ==
    ASSUME Core, NEW c \in Clients, NEW f \in UpFrame, NEW STATE u, u \in Screen, Taps(c, f, u),
           cut' \subseteq Clients
    PROVE  Core'
<1>1. UNCHANGED <<registry, handlers, disk, listed, down, restored, late, raced>> /\ jobs' = jobs
  BY DEF Taps, registry
<1>2. /\ up' = [up EXCEPT ![c] = Append(up[c], f)]
      /\ ui' = [ui EXCEPT ![c] = u]
  BY DEF Taps
<1>3. up[c] \in Seq(UpFrame) /\ Append(up[c], f) \in Seq(UpFrame) BY DEF Core, TypeOK, ViewerTypes
<1>4. ViewerTypes' BY <1>1, <1>2, <1>3 DEF Core, TypeOK, ViewerTypes, Screen
<1>5. events' \in 0..MaxEvents BY OneMoreEvent DEF Taps, Core, TypeOK, HistoryTypes
<1>6. HistoryTypes' BY <1>1, <1>5 DEF Core, TypeOK, HistoryTypes
<1> QED BY <1>1, <1>4, <1>6, RegistryFrame, HandlerFrame, FolderFrame, WritesFrame DEF Core, TypeOK

LEMMA ScreenTypes ==
    ASSUME Core, NEW c \in Clients
    PROVE  ui[c] \in Screen /\ cut \in SUBSET Clients /\ (MovesOn(c) => cut' \in SUBSET Clients)
BY DEF Core, TypeOK, ViewerTypes, HistoryTypes, Screen, MovesOn

LEMMA OpensCore ==
    ASSUME Core, NEW c \in Clients, Opens(c)
    PROVE  Core'
<1>1. [t |-> "load"] \in UpFrame BY DEF UpFrame
<1> QED BY <1>1, ElsewhereTypes, ScreenTypes, TapsCore DEF Opens

LEMMA CreatesCore ==
    ASSUME Core, NEW c \in Clients, Creates(c)
    PROVE  Core'
<1>1. PICK clone \in BOOLEAN : Taps(c, [t |-> "new", clone |-> clone], [Elsewhere EXCEPT !.view = "creating"])
  BY DEF Creates
<1>2. [t |-> "new", clone |-> clone] \in UpFrame BY DEF UpFrame
<1>3. [Elsewhere EXCEPT !.view = "creating"] \in Screen BY ElsewhereTypes DEF Screen
<1>4. cut' \subseteq Clients BY ScreenTypes DEF Creates
<1> QED BY <1>1, <1>2, <1>3, <1>4, TapsCore

LEMMA StartRestoreCore ==
    ASSUME Core, NEW c \in Clients, StartRestore(c)
    PROVE  Core'
<1>1. PICK kind \in Kinds, ok \in BOOLEAN :
        Taps(c, [t |-> "start", kind |-> kind, ok |-> ok], [ui[c] EXCEPT !.job = NoJob, !.asked = TRUE])
  BY DEF StartRestore
<1>2. [t |-> "start", kind |-> kind, ok |-> ok] \in UpFrame BY DEF UpFrame
<1>3. [ui[c] EXCEPT !.job = NoJob, !.asked = TRUE] \in Screen
  BY ElsewhereTypes, ScreenTypes DEF Screen
<1>4. cut' \subseteq Clients BY ScreenTypes DEF StartRestore
<1> QED BY <1>1, <1>2, <1>3, <1>4, TapsCore

LEMMA CancelRestoreCore ==
    ASSUME Core, NEW c \in Clients, CancelRestore(c)
    PROVE  Core'
<1>1. [t |-> "cancel"] \in UpFrame BY DEF UpFrame
<1> QED BY <1>1, ScreenTypes, TapsCore DEF CancelRestore

LEMMA LeavesCore ==
    ASSUME Core, NEW c \in Clients, Leaves(c)
    PROVE  Core'
<1>1. [t |-> "leave"] \in UpFrame BY DEF UpFrame
<1>2. cut' \subseteq Clients BY ScreenTypes DEF Leaves
<1> QED BY <1>1, <1>2, ElsewhereTypes, TapsCore DEF Leaves

LEMMA CreateTimesOutCore ==
    ASSUME Core, NEW c \in Clients, CreateTimesOut(c)
    PROVE  Core'
<1>1. UNCHANGED <<registry, handlers, disk, listed, up, down, history, events>> /\ jobs' = jobs
  BY DEF CreateTimesOut, registry
<1>2. ViewerTypes' BY <1>1, ElsewhereTypes DEF CreateTimesOut, Core, TypeOK, ViewerTypes, Screen
<1> QED BY <1>1, <1>2, RegistryFrame, HandlerFrame, FolderFrame, HistoryFrame, WritesFrame DEF Core, TypeOK

LEMMA DropsCore ==
    ASSUME Core, NEW c \in Clients, Drops(c)
    PROVE  Core'
<1>1. UNCHANGED <<registry, disk, listed, restored, late, raced>> /\ jobs' = jobs
  BY DEF Drops, registry
<1>2. HandlerTypes'
  <2>1. srv' \in [Clients -> Connection]
    <3>1. srv \in [Clients -> Connection] BY DEF Core, TypeOK, HandlerTypes, Connection
    <3>2. [open |-> FALSE, pend |-> FALSE, lock |-> FALSE, attached |-> FALSE, seen |-> "none"] \in Connection
      BY DEF Connection, StatAnswers
    <3> QED BY <3>1, <3>2 DEF Drops
  <2>2. ASSUME NEW w \in waits'
        PROVE  w \in Waiter /\ (w.step = "cloning" => w.job # 0 /\ jobs'[w.job].state = "running")
    <3>1. PICK v \in waits : w = IF v.client = c THEN [v EXCEPT !.open = FALSE] ELSE v
      BY <2>2 DEF Drops
    <3>2. v \in Waiter /\ (v.step = "cloning" => v.job # 0 /\ jobs[v.job].state = "running")
      BY DEF Core, TypeOK, HandlerTypes, Waiter
    <3>3. w \in Waiter /\ w.step = v.step /\ w.job = v.job BY <3>1, <3>2 DEF Waiter
    <3> QED BY <1>1, <3>2, <3>3
  <2> QED BY <2>1, <2>2 DEF HandlerTypes, Connection, Waiter
<1>3. ViewerTypes'
  <2>1. ui' \in [Clients -> Screen] BY ElsewhereTypes DEF Drops, Core, TypeOK, ViewerTypes, Screen
  <2>2. up' \in [Clients -> Seq(UpFrame)]
    <3>1. <<>> \in Seq(UpFrame) OBVIOUS
    <3> QED BY <3>1 DEF Drops, Core, TypeOK, ViewerTypes
  <2>3. down' \in [Clients -> Seq(DownFrame)]
    <3>1. <<>> \in Seq(DownFrame) OBVIOUS
    <3> QED BY <3>1 DEF Drops, Core, TypeOK, ViewerTypes
  <2> QED BY <2>1, <2>2, <2>3 DEF ViewerTypes, Screen
<1>4. HistoryTypes'
  <2>1. events' \in 0..MaxEvents BY OneMoreEvent DEF Drops, Core, TypeOK, HistoryTypes
  <2> QED BY <1>1, <2>1 DEF Drops, Core, TypeOK, HistoryTypes
<1> QED BY <1>1, <1>2, <1>3, <1>4, RegistryFrame, FolderFrame, WritesFrame DEF Core, TypeOK

LEMMA ReconnectsCore ==
    ASSUME Core, NEW c \in Clients, Reconnects(c)
    PROVE  Core'
<1>1. UNCHANGED <<registry, waits, disk, listed, down, history, events>> /\ jobs' = jobs
  BY DEF Reconnects, registry
<1>2. srv' \in [Clients -> Connection] BY DEF Reconnects, Core, TypeOK, HandlerTypes, Connection
<1>3. ViewerTypes'
  <2>1. ui' \in [Clients -> Screen]
    BY ElsewhereTypes DEF Reconnects, Core, TypeOK, ViewerTypes, Screen
  <2>2. up' \in [Clients -> Seq(UpFrame)]
    <3>1. <<[t |-> "load"]>> \in Seq(UpFrame) BY DEF UpFrame
    <3> QED BY <3>1 DEF Reconnects, Core, TypeOK, ViewerTypes
  <2> QED BY <1>1, <2>1, <2>2 DEF Core, TypeOK, ViewerTypes, Screen
<1> QED BY <1>1, <1>2, <1>3, WaitersFrame, RegistryFrame, FolderFrame, HistoryFrame, WritesFrame DEF Core, TypeOK

--------------------
(* The listing, outsiders, and the whole. *)

LEMMA ListingCore ==
    ASSUME Core, ScanStarts \/ ScanEnds \/ CacheExpires
    PROVE  Core'
<1>1. UNCHANGED <<registry, handlers, disk, viewers, history>> /\ jobs' = jobs
  BY DEF ScanStarts, ScanEnds, CacheExpires, registry
<1>2. FolderTypes'
  BY <1>1 DEF ScanStarts, ScanEnds, CacheExpires, Core, TypeOK, FolderTypes, StatAnswers
<1>3. events' \in 0..MaxEvents
  BY OneMoreEvent DEF ScanStarts, ScanEnds, CacheExpires, Core, TypeOK, HistoryTypes
<1>4. HistoryTypes' BY <1>1, <1>3 DEF Core, TypeOK, HistoryTypes, history
<1> QED BY <1>1, <1>2, <1>4, RegistryFrame, HandlerFrame, ViewerFrame, WritesFrame DEF Core, TypeOK

LEMMA OthersCore ==
    ASSUME Core, OthersWrite \/ OthersRemove
    PROVE  Core'
<1>1. UNCHANGED <<registry, handlers, listed, viewers, late, cut, raced>> /\ jobs' = jobs
  BY DEF OthersWrite, OthersRemove, registry, history
<1>2. FolderTypes'
  <2>1. disk \in Folder BY DEF Core, TypeOK, FolderTypes, Folder
  <2>2. disk' \in Folder /\ (disk'.files # {} => disk'.dir)
    <3>1. CASE disk' = [dir |-> TRUE, files |-> disk.files \cup {"others"}] BY <2>1, <3>1 DEF Folder
    <3>2. CASE disk' = NoFolder
      <4>1. NoFolder \in Folder /\ NoFolder.files = {} BY DEF NoFolder, Folder
      <4> QED BY <3>2, <4>1
    <3> QED BY <3>1, <3>2 DEF OthersWrite, OthersRemove
  <2> QED BY <1>1, <2>2 DEF Core, TypeOK, FolderTypes, Folder, listed
<1>3. HistoryTypes'
  <2>1. events' \in 0..MaxEvents
    BY OneMoreEvent DEF OthersWrite, OthersRemove, Core, TypeOK, HistoryTypes
  <2> QED BY <1>1, <2>1 DEF OthersWrite, OthersRemove, Core, TypeOK, HistoryTypes, history
<1>4. WritesInPlace' BY <1>1 DEF OthersWrite, OthersRemove, Live, Core, WritesInPlace
<1> QED BY <1>1, <1>2, <1>3, <1>4, RegistryFrame, HandlerFrame, ViewerFrame DEF Core, TypeOK

\* Every step keeps the types, the shape of the registry and the observers.
LEMMA CoreStep ==
    ASSUME Core, [Next]_vars
    PROVE  Core'
<1>1. ASSUME NEW i \in JobIds, JobNext(i) PROVE Core'
  BY <1>1, TickCore, GitWritesCore, GitExitsCore, CloseCore, SpawnErrorsCore, ProgressCore, ReapCore
     DEF JobNext
<1>2. ASSUME NEW c \in Clients, ServerNext(c) PROVE Core'
  BY <1>2, RestoreStartCore, RestoreCancelCore, SessionNewClonesCore, SessionNewCreatesCore,
     SessionLoadCore, LoadPaintsCore, SessionLeaveCore
     DEF ServerNext
<1>3. ASSUME NEW c \in Clients, ClientNext(c) PROVE Core'
  BY <1>3, ReceivesCore, OpensCore, CreatesCore, StartRestoreCore, CancelRestoreCore, LeavesCore,
     CreateTimesOutCore, DropsCore, ReconnectsCore
     DEF ClientNext
<1>4. ASSUME NEW w \in waits, SessionNewEnds(w) PROVE Core' BY <1>4, SessionNewEndsCore
<1>5. CASE UNCHANGED vars
  <2>1. UNCHANGED <<registry, handlers, disk, listed, viewers, history, events>> /\ jobs' = jobs
    BY <1>5 DEF vars, registry
  <2> QED BY <2>1, RegistryFrame, HandlerFrame, FolderFrame, ViewerFrame, HistoryFrame, WritesFrame DEF Core, TypeOK
<1> QED BY <1>1, <1>2, <1>3, <1>4, <1>5, ListingCore, OthersCore DEF Next

LEMMA CoreInit ==
    ASSUME Init PROVE Core
<1>1. PICK P \in SUBSET Clients :
        /\ srv = [c \in Clients |-> [open |-> TRUE, pend |-> FALSE, lock |-> c \in P, attached |-> FALSE, seen |-> "none"]]
        /\ ui = [c \in Clients |-> [Elsewhere EXCEPT !.view = IF c \in P THEN "panel" ELSE "away"]]
  BY DEF Init
<1>2. /\ jobs = [i \in JobIds |-> NoProc] /\ current = 0 /\ nextId = 1
      /\ relay = FALSE /\ listing = FALSE /\ waits = {}
      /\ disk = NoFolder /\ scan = "none" /\ cache = "none"
      /\ up = [c \in Clients |-> <<>>] /\ down = [c \in Clients |-> <<>>]
      /\ restored = FALSE /\ late = FALSE /\ cut = {} /\ raced = {} /\ events = 0
  BY DEF Init
<1>3. NoProc \in Job /\ NoProc.state = "none" /\ NoProc.proc = "none" /\ NoProc.reaping = FALSE
  BY DEF NoProc, Job, Kinds
<1>4. RegistryTypes
  <2>1. current \in 0..MaxJobs /\ nextId \in 1..MaxJobs + 1 /\ current < nextId
    BY <1>2, RestoreAssumption
  <2>2. \A i \in JobIds : jobs[i].state = "none" /\ i >= nextId BY <1>2, <1>3 DEF JobIds
  <2>3. jobs \in [JobIds -> Job] BY <1>2, <1>3
  <2> QED BY <1>2, <2>1, <2>2, <2>3 DEF RegistryTypes
<1>5. HandlerTypes
  <2>1. ASSUME NEW c \in Clients
        PROVE  [open |-> TRUE, pend |-> FALSE, lock |-> c \in P, attached |-> FALSE, seen |-> "none"] \in Connection
    <3> DEFINE b == c \in P
    <3>1. b \in BOOLEAN OBVIOUS
    <3> HIDE DEF b
    <3>2. [open |-> TRUE, pend |-> FALSE, lock |-> b, attached |-> FALSE, seen |-> "none"] \in Connection
      BY <3>1 DEF Connection, StatAnswers
    <3> QED BY <3>2 DEF b
  <2>2. srv \in [Clients -> Connection] BY <1>1, <2>1
  <2> QED BY <1>2, <2>2 DEF HandlerTypes, Connection
<1>6. FolderTypes BY <1>2 DEF FolderTypes, NoFolder, StatAnswers
<1>7. ViewerTypes
  <2>1. ui \in [Clients -> Screen] BY <1>1, ElsewhereTypes DEF Screen
  <2>2. <<>> \in Seq(UpFrame) /\ <<>> \in Seq(DownFrame) OBVIOUS
  <2> QED BY <1>2, <2>1, <2>2 DEF ViewerTypes, Screen
<1>8. HistoryTypes
  <2>1. events \in 0..MaxEvents BY <1>2, RestoreAssumption
  <2> QED BY <1>2, <2>1 DEF HistoryTypes
<1>9. JobShape /\ WritesInPlace BY <1>2, <1>3 DEF JobShape, WritesInPlace
<1>10. ~Running BY <1>2 DEF Running
<1>11. ObservedWhileRunning BY <1>2, <1>10, RunningIsBoolean DEF ObservedWhileRunning
<1> QED BY <1>4, <1>5, <1>6, <1>7, <1>8, <1>9, <1>11 DEF Core, TypeOK

--------------------
(* What lies in the folder, and what the listing says of it. *)

Kept == PartIsBeingWritten /\ RestoredIsThere

\* A clone that is being written stays one unless a step says otherwise.
LEMMA PartFrame ==
    ASSUME PartIsBeingWritten, "part" \in disk'.files => "part" \in disk.files, raced \subseteq raced',
           \A k \in JobIds : /\ jobs[k].kind = "clone" /\ jobs[k].proc \in {"writing", "bad"}
                             => jobs'[k].kind = "clone" /\ jobs'[k].proc \in {"writing", "bad"}
    PROVE  PartIsBeingWritten'
<1> SUFFICES ASSUME "part" \in disk'.files, raced' = {}
             PROVE  \E i \in JobIds : jobs'[i].kind = "clone" /\ jobs'[i].proc \in {"writing", "bad"}
  BY DEF PartIsBeingWritten
<1>1. PICK i \in JobIds : jobs[i].kind = "clone" /\ jobs[i].proc \in {"writing", "bad"}
  BY DEF PartIsBeingWritten
<1> QED BY <1>1

LEMMA RestoredFrame ==
    ASSUME RestoredIsThere, restored' => restored, disk.dir => disk'.dir, UNCHANGED listed, late => late'
    PROVE  RestoredIsThere'
BY DEF RestoredIsThere, listed

LEMMA StillKept ==
    ASSUME Kept, UNCHANGED <<jobs, disk, listed, restored, late, raced>>
    PROVE  Kept'
BY PartFrame, RestoredFrame DEF Kept

\* A job that settles leaves nothing half done, or has been seen to.
LEMMA FinishKept ==
    ASSUME Core, Kept, NEW i \in JobIds, jobs[i].state = "running",
           NEW s \in Settled, NEW STATE d, Finish(i, s, d)
    PROVE  Kept'
<1>1. PartIsBeingWritten' BY DEF Finish, PartIsBeingWritten
<1>2. listing
  <2>1. Running BY DEF Core, JobShape, Running, JobIds
  <2>2. listing = Running BY DEF Core, ObservedWhileRunning
  <2> QED BY <2>1, <2>2
<1>3. RestoredIsThere'
  <2>1. restored' => disk'.dir BY DEF Finish
  <2>2. cache' = "none" /\ scan' = scan /\ (~late' => scan = "none") BY <1>2 DEF Finish
  <2> QED BY <2>1, <2>2 DEF RestoredIsThere
<1> QED BY <1>1, <1>3 DEF Kept

LEMMA RequestKept ==
    ASSUME Core, Kept, NEW kind \in Kinds, NEW ok \in BOOLEAN, NEW o, Request(kind, ok, o),
           UNCHANGED <<disk, scan, restored, raced>>
    PROVE  Kept'
<1>1. \A k \in JobIds : jobs[k].proc \in {"writing", "bad"} => jobs'[k] = jobs[k]
  <2>1. \A k \in JobIds : jobs[k].state # "none" => jobs'[k] = jobs[k] BY RequestRegistry DEF Core
  <2> QED BY <2>1 DEF Core, JobShape
<1>2. PartIsBeingWritten' BY <1>1, PartFrame DEF Kept
<1>3. cache' \in {"none", cache} /\ (late => late') BY DEF Request
<1>4. RestoredIsThere' BY <1>3 DEF Kept, RestoredIsThere
<1> QED BY <1>2, <1>4 DEF Kept

LEMMA JobKept ==
    ASSUME Core, Kept, NEW i \in JobIds, JobNext(i)
    PROVE  Kept'
<1>0. jobs \in [JobIds -> Job] BY DEF Core, TypeOK, RegistryTypes
<1>1. ASSUME Tick(i) PROVE Kept'
  <2>1. CASE jobs[i].state # "running"
        \/ /\ jobs' = [jobs EXCEPT ![i].proc = "spawned"] /\ disk' = [disk EXCEPT !.dir = TRUE]
           /\ UNCHANGED <<listed, history>>
    <3>1. \A k \in JobIds \ {i} : jobs'[k] = jobs[k] BY <1>0, <1>1, <2>1 DEF Tick
    <3>2. disk'.files = disk.files /\ (disk.dir => disk'.dir) /\ UNCHANGED <<listed, restored, late, raced>>
      BY <1>1, <2>1 DEF Tick, history, Core, TypeOK, FolderTypes
    <3>3. PartIsBeingWritten' BY <1>1, <3>1, <3>2, PartFrame DEF Tick, Kept
    <3>4. RestoredIsThere' BY <3>2, RestoredFrame DEF Kept
    <3> QED BY <3>3, <3>4 DEF Kept
  <2>2. CASE jobs[i].state = "running" /\ \E s \in Settled : \/ Finish(i, s, disk)
                                                             \/ Finish(i, s, [disk EXCEPT !.dir = TRUE])
    BY <2>2, FinishKept
  <2> QED BY <1>1, <2>1, <2>2 DEF Tick, Settled
<1>2. ASSUME GitWrites(i) PROVE Kept'
  <2>1. jobs'[i].kind = "clone" /\ jobs'[i].proc = "writing" BY <1>0, <1>2 DEF GitWrites, Job
  <2>2. PartIsBeingWritten' BY <2>1 DEF PartIsBeingWritten
  <2>3. disk'.dir /\ UNCHANGED <<listed, restored, late>> BY <1>2 DEF GitWrites, history
  <2>4. RestoredIsThere' BY <2>3, RestoredFrame DEF Kept
  <2> QED BY <2>2, <2>4 DEF Kept
<1>3. ASSUME GitExits(i) PROVE Kept'
  <2>1. /\ \A k \in JobIds \ {i} : jobs'[k] = jobs[k]
        /\ jobs'[i].kind = jobs[i].kind /\ jobs'[i].proc \in {"ok", "bad"}
    BY <1>0, <1>3 DEF GitExits, Job
  <2>2. UNCHANGED <<listed, late, raced>> /\ restored' = (restored /\ disk'.dir)
    BY <1>3 DEF GitExits
  <2>3. PartIsBeingWritten'
    <3>1. CASE disk' = disk /\ jobs[i].kind # "clone" BY <2>1, <2>2, <3>1, PartFrame DEF Kept
    <3>2. CASE disk' = disk /\ jobs' = [jobs EXCEPT ![i].proc = "bad"]
      <4>1. jobs'[i].proc = "bad" BY <1>0, <3>2 DEF Job
      <4> QED BY <2>1, <2>2, <3>2, <4>1, PartFrame DEF Kept
    <3>3. CASE "part" \notin disk'.files BY <3>3 DEF PartIsBeingWritten
    <3>4. disk' \in {NoFolder, [disk EXCEPT !.files = @ \ {"part"}],
                     [disk EXCEPT !.files = (@ \ {"part"}) \cup {"tree"}]} => "part" \notin disk'.files
      <4>1. disk \in Folder BY DEF Core, TypeOK, FolderTypes, Folder
      <4> QED BY <4>1 DEF NoFolder, Folder
    <3> QED BY <1>3, <3>1, <3>2, <3>3, <3>4 DEF GitExits
  <2>4. RestoredIsThere' BY <2>2 DEF Kept, RestoredIsThere, listed
  <2> QED BY <2>3, <2>4 DEF Kept
<1>4. ASSUME Close(i) PROVE Kept'
  <2>1. jobs[i].state = "running" BY <1>4 DEF Close, Core, JobShape
  <2>2. \E s \in Settled : Finish(i, s, NoFolder) \/ Finish(i, s, disk) BY <1>4 DEF Close, Settled
  <2> QED BY <2>1, <2>2, FinishKept
<1>5. ASSUME SpawnErrors(i) PROVE Kept'
  <2>1. jobs[i].state = "running" /\ Finish(i, "failed", disk)
    BY <1>5 DEF SpawnErrors, Core, JobShape
  <2> QED BY <2>1, FinishKept DEF Settled
<1>6. ASSUME Progress(i) PROVE Kept' BY <1>6, StillKept DEF Progress, registry, history
<1>7. ASSUME Reap(i) PROVE Kept'
  <2>1. \A k \in JobIds : jobs'[k].kind = jobs[k].kind /\ jobs'[k].proc = jobs[k].proc
    BY <1>0, <1>7 DEF Reap, Job
  <2>2. UNCHANGED <<disk, listed, restored, late, raced>> BY <1>7 DEF Reap, history
  <2> QED BY <2>1, <2>2, PartFrame, RestoredFrame DEF Kept
<1> QED BY <1>1, <1>2, <1>3, <1>4, <1>5, <1>6, <1>7 DEF JobNext

LEMMA ServerKept ==
    ASSUME Core, Kept, NEW c \in Clients, ServerNext(c)
    PROVE  Kept'
<1>1. ASSUME RestoreStart(c) PROVE Kept'
  <2>1. Head(up[c]).kind \in Kinds /\ Head(up[c]).ok \in BOOLEAN
    BY <1>1, TakeTypes, StartFrame DEF RestoreStart
  <2> QED BY <1>1, <2>1, RequestKept DEF RestoreStart
<1>2. ASSUME RestoreCancel(c) PROVE Kept'
  <2>1. CASE ~Running BY <1>2, <2>1, StillKept DEF RestoreCancel, registry, history
  <2>2. CASE Running /\ Finish(current, "cancelled", disk)
    <3>1. current \in JobIds /\ jobs[current].state = "running"
      BY <2>2 DEF Running, Core, TypeOK, RegistryTypes, JobIds
    <3>2. PICK i \in JobIds : i = current BY <3>1
    <3> QED BY <2>2, <3>1, <3>2, FinishKept DEF Settled
  <2>3. CASE /\ Running /\ jobs' = [jobs EXCEPT ![current].cancel = TRUE]
             /\ UNCHANGED <<disk, listed, history>>
    <3>1. \A k \in JobIds : jobs'[k].kind = jobs[k].kind /\ jobs'[k].proc = jobs[k].proc
      BY <2>3 DEF Core, TypeOK, RegistryTypes, Job
    <3>2. UNCHANGED <<disk, listed, restored, late, raced>> BY <2>3 DEF history
    <3> QED BY <3>1, <3>2, PartFrame, RestoredFrame DEF Kept
  <2> QED BY <1>2, <2>1, <2>2, <2>3 DEF RestoreCancel
<1>3. ASSUME SessionNewClones(c) PROVE Kept' BY <1>3, RequestKept DEF SessionNewClones, Kinds
<1>4. ASSUME SessionNewCreates(c) PROVE Kept'
  <2>1. jobs' = jobs /\ UNCHANGED <<listed, restored, late>> /\ raced \subseteq raced'
    BY <1>4 DEF SessionNewCreates, registry
  <2>2. disk'.dir /\ disk'.files = disk.files
    BY <1>4 DEF SessionNewCreates, Core, TypeOK, FolderTypes
  <2> QED BY <2>1, <2>2, PartFrame, RestoredFrame DEF Kept
<1>5. ASSUME SessionLoad(c) \/ SessionLeave(c) PROVE Kept'
  BY <1>5, StillKept DEF SessionLoad, SessionLeave, registry, history
<1>6. ASSUME LoadPaints(c) PROVE Kept'
  <2>1. jobs' = jobs /\ UNCHANGED <<disk, listed, restored, late>> /\ raced \subseteq raced'
    BY <1>6 DEF LoadPaints, registry
  <2> QED BY <2>1, PartFrame, RestoredFrame DEF Kept
<1> QED BY <1>1, <1>2, <1>3, <1>4, <1>5, <1>6 DEF ServerNext

LEMMA ClientKept ==
    ASSUME Core, Kept, NEW c \in Clients, ClientNext(c)
    PROVE  Kept'
<1>1. jobs' = jobs /\ UNCHANGED <<disk, listed, restored, late, raced>>
  BY DEF ClientNext, Receives, Opens, Creates, StartRestore, CancelRestore, Leaves, Taps,
         CreateTimesOut, Drops, Reconnects, registry, history
<1> QED BY <1>1, StillKept

LEMMA OutsideKept ==
    ASSUME Core, Kept, ScanStarts \/ ScanEnds \/ CacheExpires \/ OthersWrite \/ OthersRemove
    PROVE  Kept'
<1>1. ASSUME ScanStarts \/ ScanEnds \/ CacheExpires PROVE Kept'
  <2>1. jobs' = jobs /\ UNCHANGED <<disk, restored, late, raced>>
    BY <1>1 DEF ScanStarts, ScanEnds, CacheExpires, registry, history
  <2>2. RestoredIsThere' BY <1>1, <2>1 DEF ScanStarts, ScanEnds, CacheExpires, Kept, RestoredIsThere
  <2> QED BY <2>1, <2>2, PartFrame DEF Kept
<1>2. ASSUME OthersWrite PROVE Kept'
  <2>1. jobs' = jobs /\ UNCHANGED <<listed, restored, late, raced>> /\ disk'.dir
        /\ ("part" \in disk'.files => "part" \in disk.files)
    BY <1>2 DEF OthersWrite, registry, history
  <2> QED BY <2>1, PartFrame, RestoredFrame DEF Kept
<1>3. ASSUME OthersRemove PROVE Kept'
  <2>1. disk' = NoFolder /\ ~restored' BY <1>3 DEF OthersRemove
  <2> QED BY <2>1 DEF Kept, PartIsBeingWritten, RestoredIsThere, NoFolder
<1> QED BY <1>1, <1>2, <1>3

LEMMA KeptStep ==
    ASSUME Core, Kept, [Next]_vars
    PROVE  Kept'
<1>1. ASSUME NEW w \in waits, SessionNewEnds(w) PROVE Kept'
  BY <1>1, StillKept DEF SessionNewEnds, registry, history
<1>2. CASE UNCHANGED vars BY <1>2, StillKept DEF vars, registry, history
<1> QED BY <1>1, <1>2, JobKept, ServerKept, ClientKept, OutsideKept DEF Next

--------------------
(* Who gets an agent. *)

\* A folder nobody works at can be used, or it is known why not.
LEMMA UsableNext ==
    ASSUME JobShape', PartIsBeingWritten', ~Running', disk'.dir
    PROVE  raced' # {} \/ Usable'
<1>1. \A i \in JobIds : jobs'[i].state # "running" BY DEF JobShape, Running, JobIds
<1>2. \A i \in JobIds : jobs'[i].proc \notin {"spawned", "writing", "ok", "bad"}
  BY <1>1 DEF JobShape
<1>3. "part" \in disk'.files => raced' # {} BY <1>2 DEF PartIsBeingWritten
<1> QED BY <1>2, <1>3 DEF Usable, Live

\* Nobody gets an agent unless a connection is attached or a handler starts to build.
LEMMA GivenFrame ==
    ASSUME \A c \in Clients : srv'[c].attached => srv[c].attached,
           \A w \in waits' : w.step = "building" => \E v \in waits : v.step = "building" /\ v.client = w.client
    PROVE  Given' \subseteq Given
BY DEF Given

LEMMA FinishGiven ==
    ASSUME Core, Core', Kept', NEW i \in JobIds, jobs[i].state = "running",
           NEW s \in Settled, NEW STATE d, Finish(i, s, d)
    PROVE  Given' \subseteq Given \/ raced' # {} \/ Usable'
<1>1. \A c \in Clients : srv'[c].attached => srv[c].attached
  BY DEF Finish, Core, TypeOK, HandlerTypes
<1>2. CASE waits' = waits \/ s # "done"
  <2>1. waits' \subseteq waits BY <1>2 DEF Finish, Continued
  <2> QED BY <1>1, <2>1, GivenFrame
<1>3. CASE waits' # waits /\ s = "done"
  <2>1. disk' = [d EXCEPT !.dir = TRUE] BY <1>3 DEF Finish
  <2>2. disk'.dir BY <2>1 DEF Core, TypeOK, FolderTypes
  <2>3. ~Running' BY FinishRegistry DEF Core
  <2> QED BY <2>2, <2>3, UsableNext DEF Core, Kept
<1> QED BY <1>2, <1>3

LEMMA JobGiven ==
    ASSUME Core, Core', Kept', NEW i \in JobIds, JobNext(i)
    PROVE  Given' \subseteq Given \/ raced' # {} \/ Usable'
<1>1. CASE \E s \in Settled : \/ Finish(i, s, disk) \/ Finish(i, s, NoFolder)
                              \/ Finish(i, s, [disk EXCEPT !.dir = TRUE])
  <2>1. CASE jobs[i].state = "running" BY <1>1, <2>1, FinishGiven
  <2>2. CASE jobs[i].state # "running"
    <3>1. UNCHANGED handlers
      BY <2>2 DEF JobNext, Tick, GitWrites, GitExits, Close, SpawnErrors, Progress, Reap, Core, JobShape
    <3> QED BY <3>1, GivenFrame DEF handlers
  <2> QED BY <2>1, <2>2
<1>2. CASE UNCHANGED handlers BY <1>2, GivenFrame DEF handlers
<1> QED BY <1>1, <1>2 DEF JobNext, Tick, GitWrites, GitExits, Close, SpawnErrors, Progress, Reap, Settled

LEMMA ServerGiven ==
    ASSUME Core, Core', Kept', NEW c \in Clients, ServerNext(c)
    PROVE  Given' \subseteq Given \/ raced' # {} \/ Usable'
<1>0. srv \in [Clients -> Connection] BY DEF Core, TypeOK, HandlerTypes, Connection
<1>1. ASSUME RestoreStart(c) PROVE Given' \subseteq Given
  BY <1>1, GivenFrame DEF RestoreStart, handlers
<1>2. ASSUME RestoreCancel(c) PROVE Given' \subseteq Given \/ raced' # {} \/ Usable'
  <2>1. CASE UNCHANGED handlers BY <2>1, GivenFrame DEF handlers
  <2>2. CASE Running /\ Finish(current, "cancelled", disk)
    <3>1. current \in JobIds /\ jobs[current].state = "running"
      BY <2>2 DEF Running, Core, TypeOK, RegistryTypes, JobIds
    <3>2. PICK i \in JobIds : i = current BY <3>1
    <3> QED BY <2>2, <3>1, <3>2, FinishGiven DEF Settled
  <2> QED BY <1>2, <2>1, <2>2 DEF RestoreCancel
<1>3. ASSUME SessionNewClones(c) PROVE Given' \subseteq Given
  <2>1. \A v \in Clients : srv'[v].attached => srv[v].attached
    BY <1>0, <1>3 DEF SessionNewClones, Connection
  <2>2. \A w \in waits' : w.step = "building" => w \in waits BY <1>3 DEF SessionNewClones, Waiting
  <2> QED BY <2>1, <2>2, GivenFrame
<1>4. ASSUME SessionNewCreates(c) PROVE raced' # {} \/ Usable'
  <2>1. Running => raced' # {} BY <1>4 DEF SessionNewCreates
  <2>2. Running' <=> Running BY <1>4 DEF SessionNewCreates, Running, registry
  <2>3. disk'.dir BY <1>4 DEF SessionNewCreates, Core, TypeOK, FolderTypes
  <2> QED BY <2>1, <2>2, <2>3, UsableNext DEF Core, Kept
<1>5. ASSUME SessionLoad(c) \/ SessionLeave(c) PROVE Given' \subseteq Given
  <2>1. \A v \in Clients : srv'[v].attached => srv[v].attached
    BY <1>0, <1>5, ZenonT(40) DEF SessionLoad, SessionLeave, Connection
  <2>2. waits' = waits BY <1>5 DEF SessionLoad, SessionLeave
  <2> QED BY <2>1, <2>2, GivenFrame
<1>6. ASSUME LoadPaints(c) PROVE Given' \subseteq Given \/ raced' # {} \/ Usable'
  <2>1. CASE Missing(srv[c].seen)
    <3>1. waits' = waits /\ \A v \in Clients : srv'[v].attached => srv[v].attached
      BY <1>0, <1>6, <2>1 DEF LoadPaints, Connection
    <3> QED BY <3>1, GivenFrame
  <2>2. CASE ~Missing(srv[c].seen)
    <3>1. ~Running' /\ disk' = disk /\ (~disk.dir => raced' # {})
      BY <1>6, <2>2 DEF LoadPaints, Missing, Running, registry
    <3> QED BY <3>1, UsableNext DEF Core, Kept
  <2> QED BY <2>1, <2>2
<1> QED BY <1>1, <1>2, <1>3, <1>4, <1>5, <1>6 DEF ServerNext

LEMMA ClientGiven ==
    ASSUME Core, NEW c \in Clients, ClientNext(c)
    PROVE  Given' \subseteq Given
<1>0. srv \in [Clients -> Connection] BY DEF Core, TypeOK, HandlerTypes, Connection
<1>1. ASSUME Drops(c) PROVE Given' \subseteq Given
  <2>1. \A v \in Clients : srv'[v].attached => srv[v].attached BY <1>0, <1>1 DEF Drops, Connection
  <2>2. ASSUME NEW w \in waits', w.step = "building"
        PROVE  \E v \in waits : v.step = "building" /\ v.client = w.client
    <3>1. PICK v \in waits : w = IF v.client = c THEN [v EXCEPT !.open = FALSE] ELSE v
      BY <1>1, <2>2 DEF Drops
    <3>2. v \in Waiter BY DEF Core, TypeOK, HandlerTypes, Waiter
    <3> QED BY <2>2, <3>1, <3>2 DEF Waiter
  <2> QED BY <2>1, <2>2, GivenFrame
<1>2. ASSUME Reconnects(c) PROVE Given' \subseteq Given
  <2>1. waits' = waits /\ \A v \in Clients : srv'[v].attached => srv[v].attached
    BY <1>0, <1>2 DEF Reconnects, Connection
  <2> QED BY <2>1, GivenFrame
<1>3. CASE UNCHANGED handlers BY <1>3, GivenFrame DEF handlers
<1> QED BY <1>1, <1>2, <1>3
        DEF ClientNext, Receives, Opens, Creates, StartRestore, CancelRestore, Leaves, Taps, CreateTimesOut

LEMMA GivenStep ==
    ASSUME Core, Core', Kept', [Next]_vars
    PROVE  Given' \subseteq Given \/ raced' # {} \/ Usable'
<1>1. ASSUME NEW w \in waits, SessionNewEnds(w) PROVE Given' \subseteq Given
  <2>1. w.step = "building" /\ w.client \in Clients /\ waits' \subseteq waits
    BY <1>1 DEF SessionNewEnds, Core, TypeOK, HandlerTypes
  <2>2. \A v \in Clients \ {w.client} : srv'[v].attached => srv[v].attached
    BY <1>1, <2>1 DEF SessionNewEnds, Core, TypeOK, HandlerTypes
  <2> QED BY <2>1, <2>2 DEF Given
<1>2. CASE UNCHANGED handlers BY <1>2, GivenFrame DEF handlers
<1> QED BY <1>1, <1>2, JobGiven, ServerGiven, ClientGiven
        DEF Next, vars, ScanStarts, ScanEnds, CacheExpires, OthersWrite, OthersRemove

--------------------
(* The theorems about the jobs, the folder and who is given it. *)

\* The invariant is inductive: what restore-jobs.ts keeps of its registry, its
\* children and its observers, together with the folder and what is said of it.
THEOREM Invariance == Spec => []IInv
<1>1. Init => IInv
  <2> SUFFICES ASSUME Init PROVE IInv OBVIOUS
  <2>1. Core BY CoreInit
  <2>2. PartIsBeingWritten /\ RestoredIsThere
    BY DEF Init, PartIsBeingWritten, RestoredIsThere, NoFolder
  <2> QED BY <2>1, <2>2 DEF IInv, Core
<1>2. IInv /\ [Next]_vars => IInv'
  <2> SUFFICES ASSUME IInv, [Next]_vars PROVE IInv' OBVIOUS
  <2>1. Core /\ Kept BY DEF IInv, Core, Kept
  <2>2. Core' /\ Kept' BY <2>1, CoreStep, KeptStep
  <2> QED BY <2>2 DEF IInv, Core, Kept
<1> QED BY <1>1, <1>2, PTL DEF Spec

\* Every variable keeps its type, and no handler waits for a job that has settled.
THEOREM TypeCorrectness == Spec => []TypeOK
<1>1. IInv => TypeOK BY DEF IInv
<1> QED BY <1>1, Invariance, PTL

\* Whatever is cancelled, retried, joined or forgotten, two gits never work in
\* one folder (the coalescing of RestoreJobRegistry.start).
THEOREM SingleGit == Spec => []OneGitAtATime
<1>1. IInv => OneGitAtATime BY DEF IInv, JobShape, OneGitAtATime, Live
<1> QED BY <1>1, Invariance, PTL

\* Both observers of the folder are held exactly while a job runs there
\* (restoreObservers in index.ts, folderExistenceObservers in session-pool.ts).
THEOREM ObserversFollowJobs == Spec => []ObservedWhileRunning
<1>1. IInv => ObservedWhileRunning BY DEF IInv
<1> QED BY <1>1, Invariance, PTL

\* The two together, as the run checks them.
THEOREM OneGitObserved == Spec => []OneObservedGit
<1>1. OneGitAtATime /\ ObservedWhileRunning => OneObservedGit BY DEF OneObservedGit
<1> QED BY <1>1, SingleGit, ObserversFollowJobs, PTL

\* The existence cache never marks a freshly restored folder missing, unless a
\* stat was under way when the job settled (watchFolderExistence).
THEOREM NotMarkedMissing == Spec => []RestoredIsNotMarked
<1>1. IInv => RestoredIsNotMarked BY DEF IInv, RestoredIsThere, RestoredIsNotMarked
<1> QED BY <1>1, Invariance, PTL

\* Nobody is handed an agent in a folder that is missing, being cloned or left
\* half cloned, outside the three known ways (the gates of session_load and
\* session_new in index.ts).
THEOREM AgentsGetWholeFolders == Spec => AgentHasFolderUnlessRaced
<1>1. IInv /\ IInv' /\ [Next]_vars => [Given' \subseteq Given \/ raced' # {} \/ Usable']_vars
  <2> SUFFICES ASSUME IInv, IInv', [Next]_vars PROVE Given' \subseteq Given \/ raced' # {} \/ Usable'
    OBVIOUS
  <2>1. Core /\ Core' /\ Kept' BY DEF IInv, Core, Kept
  <2> QED BY <2>1, GivenStep
<1> QED BY <1>1, Invariance, PTL DEF Spec, AgentHasFolderUnlessRaced

--------------------
(* What a viewer is shown follows the job: the queues. *)

LEMMA CarriesAppend ==
    ASSUME NEW F, NEW q \in Seq(F), NEW f \in F, NEW T
    PROVE  /\ Carries(Append(q, f), T) <=> Carries(q, T) \/ f.t \in T
           /\ Append(q, f) \in Seq(F) /\ Append(q, f) # <<>>
           /\ Append(q, f)[Len(Append(q, f))] = f
           /\ Head(Append(q, f)) = IF q = <<>> THEN f ELSE Head(q)
<1> DEFINE r == Append(q, f)
<1>1. /\ r \in Seq(F) /\ r # <<>> /\ Len(r) = Len(q) + 1 /\ r[Len(q) + 1] = f
      /\ \A k \in 1..Len(q) : r[k] = q[k]
  BY AppendProperties
<1>2. DOMAIN q = 1..Len(q) /\ DOMAIN r = 1..Len(q) + 1 /\ Len(q) \in Nat BY <1>1, LenProperties
<1>3. Head(r) = r[1] /\ (q # <<>> => Head(q) = q[1] /\ Len(q) # 0) /\ (q = <<>> => Len(q) = 0)
  BY <1>1, EmptySeq
<1> HIDE DEF r
<1>4. Carries(r, T) <=> Carries(q, T) \/ f.t \in T
  <2>1. ASSUME Carries(r, T) PROVE Carries(q, T) \/ f.t \in T
    <3>1. PICK k \in 1..Len(q) + 1 : r[k].t \in T BY <1>2, <2>1 DEF Carries
    <3> QED BY <1>1, <1>2, <3>1 DEF Carries
  <2>2. ASSUME Carries(q, T) PROVE Carries(r, T)
    <3>1. PICK k \in 1..Len(q) : q[k].t \in T BY <1>2, <2>2 DEF Carries
    <3> QED BY <1>1, <1>2, <3>1 DEF Carries
  <2>3. ASSUME f.t \in T PROVE Carries(r, T) BY <1>1, <1>2, <2>3 DEF Carries
  <2> QED BY <2>1, <2>2, <2>3
<1>5. Head(r) = IF q = <<>> THEN f ELSE Head(q) BY <1>1, <1>2, <1>3
<1> QED BY <1>1, <1>4, <1>5 DEF r

LEMMA TailShifts ==
    ASSUME NEW F, NEW q \in Seq(F), q # <<>>
    PROVE  /\ Tail(q) \in Seq(F) /\ Len(Tail(q)) = Len(q) - 1 /\ Len(q) \in Nat \ {0}
           /\ \A k \in 1..Len(q) - 1 : Tail(q)[k] = q[k + 1]
           /\ Head(q) = q[1] /\ Head(q) \in F
           /\ DOMAIN q = 1..Len(q) /\ DOMAIN Tail(q) = 1..Len(q) - 1
<1>1. Tail(q) \in Seq(F) /\ Len(Tail(q)) = Len(q) - 1 /\ Head(q) \in F BY HeadTailProperties
<1>2. Len(q) \in Nat \ {0} BY EmptySeq, LenProperties
<1>3. \A k \in 1..Len(q) - 1 : Tail(q)[k] = q[k + 1] BY <1>1, <1>2
<1> QED BY <1>1, <1>2, <1>3, LenProperties

LEMMA CarriesTail ==
    ASSUME NEW F, NEW q \in Seq(F), q # <<>>, NEW T
    PROVE  /\ Carries(q, T) <=> Head(q).t \in T \/ Carries(Tail(q), T)
           /\ Tail(q) # <<>> => Tail(q)[Len(Tail(q))] = q[Len(q)]
           /\ Tail(q) = <<>> => q[Len(q)] = Head(q)
<1> DEFINE r == Tail(q)
<1>1. /\ r \in Seq(F) /\ Len(r) = Len(q) - 1 /\ Len(q) \in Nat \ {0}
      /\ \A k \in 1..Len(q) - 1 : r[k] = q[k + 1]
      /\ Head(q) = q[1] /\ DOMAIN q = 1..Len(q) /\ DOMAIN r = 1..Len(q) - 1
  BY TailShifts
<1> HIDE DEF r
<1>2. (r # <<>> => Len(r) \in 1..Len(q) - 1) /\ (r = <<>> => Len(q) = 1)
  <2>1. r = <<>> <=> Len(r) = 0 BY <1>1, EmptySeq
  <2> QED BY <1>1, <2>1
<1>3. ASSUME Carries(q, T) PROVE Head(q).t \in T \/ Carries(r, T)
  <2>1. PICK k \in 1..Len(q) : q[k].t \in T BY <1>1, <1>3 DEF Carries
  <2>2. CASE k = 1 BY <1>1, <2>1, <2>2
  <2>3. CASE k # 1
    <3>1. k - 1 \in 1..Len(q) - 1 /\ r[k - 1] = q[k] BY <1>1, <2>3
    <3> QED BY <1>1, <2>1, <3>1 DEF Carries
  <2> QED BY <2>2, <2>3
<1>4. ASSUME Carries(r, T) PROVE Carries(q, T)
  <2>1. PICK k \in 1..Len(q) - 1 : r[k].t \in T BY <1>1, <1>4 DEF Carries
  <2>2. k + 1 \in 1..Len(q) /\ q[k + 1].t \in T BY <1>1, <2>1
  <2> QED BY <1>1, <2>2 DEF Carries
<1>5. ASSUME Head(q).t \in T PROVE Carries(q, T) BY <1>1, <1>5 DEF Carries
<1> QED BY <1>1, <1>2, <1>3, <1>4, <1>5 DEF r

\* A frame that tells of a job replaces whatever was said before it.
LEMMA ClaimsAppend ==
    ASSUME NEW F, NEW d \in Seq(F), NEW f \in F, NEW u
    PROVE  /\ f.t \notin Telling => Claims(u, Append(d, f)) \subseteq Claims(u, d)
           /\ f.t \in Telling => Claims(u, Append(d, f)) \subseteq {j \in {f.job} : f.t # "created"}
<1> DEFINE r == Append(d, f)
<1>1. /\ r \in Seq(F) /\ Len(r) = Len(d) + 1 /\ r[Len(d) + 1] = f
      /\ \A k \in 1..Len(d) : r[k] = d[k]
  BY AppendProperties
<1>2. DOMAIN d = 1..Len(d) /\ DOMAIN r = 1..Len(d) + 1 /\ Len(d) \in Nat /\ Len(r) = Len(d) + 1
  BY <1>1, LenProperties
<1>3. Carries(r, Telling) <=> Carries(d, Telling) \/ f.t \in Telling BY CarriesAppend
<1> HIDE DEF r
<1>4. ASSUME f.t \notin Telling PROVE Claims(u, r) \subseteq Claims(u, d)
  <2>1. ASSUME NEW k, SaidLast(r, k) PROVE SaidLast(d, k) /\ r[k] = d[k]
    <3>1. k \in 1..Len(d) /\ r[k] = d[k] /\ d[k].t \in Telling
      BY <1>1, <1>2, <1>4, <2>1 DEF SaidLast
    <3>2. ASSUME NEW j \in k + 1..Len(d) PROVE d[j].t \notin Telling
      <4>1. j \in 1..Len(d) /\ j \in k + 1..Len(r) BY <1>2, <3>1, <3>2
      <4> QED BY <1>1, <2>1, <4>1 DEF SaidLast
    <3> QED BY <1>2, <3>1, <3>2 DEF SaidLast
  <2> QED BY <1>3, <1>4, <2>1 DEF Claims, SaidLast
<1>5. ASSUME f.t \in Telling PROVE Claims(u, r) \subseteq {j \in {f.job} : f.t # "created"}
  <2>1. ASSUME NEW k, SaidLast(r, k) PROVE r[k] = f
    <3>1. k \in 1..Len(d) + 1 BY <1>2, <2>1 DEF SaidLast
    <3>2. CASE k # Len(d) + 1
      <4>1. Len(d) + 1 \in k + 1..Len(r) BY <1>2, <3>1, <3>2
      <4> QED BY <1>1, <1>5, <2>1, <4>1 DEF SaidLast
    <3> QED BY <1>1, <3>2
  <2> QED BY <1>3, <1>5, <2>1 DEF Claims
<1> QED BY <1>4, <1>5 DEF r

\* Receiving a frame leaves what the rest says, or puts it on the screen.
LEMMA ClaimsTail ==
    ASSUME NEW F, NEW d \in Seq(F), d # <<>>, NEW u, NEW v
    PROVE  /\ Carries(Tail(d), Telling) => Claims(v, Tail(d)) \subseteq Claims(u, d)
           /\ ~Carries(Tail(d), Telling) =>
                /\ Claims(v, Tail(d)) \subseteq {j \in {v.job} : v.view \in {"panel", "clone"}}
                /\ Head(d).t \in Telling \ {"created"} => Head(d).job \in Claims(u, d)
                /\ Head(d).t \notin Telling /\ u.view \in {"panel", "clone"} => u.job \in Claims(u, d)
<1> DEFINE r == Tail(d)
<1>1. /\ r \in Seq(F) /\ Len(r) = Len(d) - 1 /\ Len(d) \in Nat \ {0}
      /\ \A k \in 1..Len(d) - 1 : r[k] = d[k + 1]
      /\ Head(d) = d[1] /\ DOMAIN d = 1..Len(d) /\ DOMAIN r = 1..Len(d) - 1
  BY TailShifts
<1>2. Carries(d, Telling) <=> Head(d).t \in Telling \/ Carries(r, Telling) BY CarriesTail
<1> HIDE DEF r
<1>3. ASSUME Carries(r, Telling) PROVE Claims(v, r) \subseteq Claims(u, d)
  <2>1. ASSUME NEW k, SaidLast(r, k) PROVE SaidLast(d, k + 1) /\ r[k] = d[k + 1]
    <3>1. k \in 1..Len(d) - 1 /\ r[k] = d[k + 1] /\ k + 1 \in 1..Len(d) /\ r[k].t \in Telling
      BY <1>1, <2>1 DEF SaidLast
    <3>2. ASSUME NEW j \in k + 2..Len(d) PROVE d[j].t \notin Telling
      <4>1. j - 1 \in k + 1..Len(r) /\ j - 1 \in 1..Len(d) - 1 BY <1>1, <3>1, <3>2
      <4>2. r[j - 1].t \notin Telling /\ r[j - 1] = d[j] BY <1>1, <2>1, <4>1 DEF SaidLast
      <4> QED BY <4>2
    <3>3. (k + 1) + 1 = k + 2 BY <3>1
    <3> QED BY <1>1, <3>1, <3>2, <3>3 DEF SaidLast
  <2> QED BY <1>3, <2>1 DEF Claims, SaidLast
<1>4. ASSUME ~Carries(r, Telling)
      PROVE  /\ Claims(v, r) \subseteq {j \in {v.job} : v.view \in {"panel", "clone"}}
             /\ Head(d).t \in Telling \ {"created"} => Head(d).job \in Claims(u, d)
             /\ Head(d).t \notin Telling /\ u.view \in {"panel", "clone"} => u.job \in Claims(u, d)
  <2>1. \A k : ~SaidLast(r, k) BY <1>4 DEF SaidLast, Carries
  <2>2. Claims(v, r) \subseteq {j \in {v.job} : v.view \in {"panel", "clone"}} BY <2>1 DEF Claims
  <2>3. ASSUME Head(d).t \in Telling \ {"created"} PROVE Head(d).job \in Claims(u, d)
    <3>1. ASSUME NEW j \in 2..Len(d) PROVE d[j].t \notin Telling
      <4>1. j - 1 \in 1..Len(d) - 1 /\ r[j - 1] = d[j] BY <1>1, <3>1
      <4> QED BY <1>1, <1>4, <4>1 DEF Carries
    <3>2. SaidLast(d, 1) BY <1>1, <2>3, <3>1 DEF SaidLast
    <3> QED BY <1>1, <2>3, <3>2 DEF Claims, SaidLast
  <2>4. Head(d).t \notin Telling /\ u.view \in {"panel", "clone"} => u.job \in Claims(u, d)
    BY <1>2, <1>4 DEF Claims
  <2> QED BY <2>2, <2>3, <2>4
<1> QED BY <1>3, <1>4 DEF r

--------------------
(* What happens to a viewer while others act. *)

LEMMA DownFrameKinds ==
    ASSUME NEW f \in DownFrame
    PROVE  /\ f.t \in {"missing", "started", "progress", "complete", "created", "rejected", "error"}
           /\ f.t \in {"missing", "started", "progress", "complete"} => f.job \in Snapshot
BY DEF DownFrame

LEMMA ProgressAppend ==
    ASSUME NEW d \in Seq(DownFrame), NEW f \in DownFrame, ProgressRuns(d),
           f.t = "progress" => f.job.state = "running"
    PROVE  ProgressRuns(Append(d, f))
<1>1. /\ Len(Append(d, f)) = Len(d) + 1 /\ Append(d, f)[Len(d) + 1] = f
      /\ \A k \in 1..Len(d) : Append(d, f)[k] = d[k]
      /\ DOMAIN Append(d, f) = 1..Len(d) + 1 /\ DOMAIN d = 1..Len(d) /\ Len(d) \in Nat
  BY AppendProperties, LenProperties
<1> QED BY <1>1 DEF ProgressRuns

Attends(u, q, d, s, n) ==
    /\ MovesFirst(u, q, d, s) /\ CreatesAlone(u, q, d, s) /\ AskedIsAnswered(u, q, d, s)
    /\ PanelIsWatched(u, q, d, s) /\ ToldTruly(u, q, d, s, n) /\ ProgressRuns(d)

LEMMA OpenOrSilent ==
    ASSUME NEW u, NEW q, NEW d, NEW s, NEW n
    PROVE  /\ s.open => (Follows(u, q, d, s, n) <=> Attends(u, q, d, s, n))
           /\ ~s.open => (Follows(u, q, d, s, n) <=> Silent(u, q, d, s))
BY DEF Follows, Attends

\* Another job may take the place of one that does not run.
LEMMA FollowsNext ==
    ASSUME NEW u, NEW q, NEW d, NEW s, NEW n, NEW m, Follows(u, q, d, s, n),
           n = m \/ n.state # "running" \/ ~Watches(s)
    PROVE  Follows(u, q, d, s, m)
BY DEF Follows, ToldTruly

\* With nothing running, nobody has to be told.
LEMMA FollowsUnpend ==
    ASSUME NEW u, NEW q, NEW d, NEW s, NEW r, NEW n, Follows(u, q, d, s, n), n.state # "running",
           r.open = s.open, r.lock = s.lock, r.attached = s.attached, r.seen = s.seen
    PROVE  Follows(u, q, d, r, n)
BY DEF Follows, ToldTruly, MovesFirst, CreatesAlone, AskedIsAnswered, PanelIsWatched, Silent, NoLoad

\* A frame every watcher gets: progress, the end of a job, an error.
LEMMA FollowsHears ==
    ASSUME NEW u \in Screen, NEW q, NEW d \in Seq(DownFrame), NEW s, NEW n, NEW m,
           NEW f \in DownFrame, Follows(u, q, d, s, n),
           \/ f.t = "error" /\ m = n
           \/ f.t = "complete" /\ f.job.state # "running"
           \/ f.t = "progress" /\ f.job.state = "running" /\ f.job = m /\ Watches(s)
    PROVE  Follows(u, q, Append(d, f), s, m)
<1> DEFINE e == Append(d, f)
<1>1. \A T : Carries(e, T) <=> Carries(d, T) \/ f.t \in T BY CarriesAppend
<1>2. /\ f.t \notin Telling => Claims(u, e) \subseteq Claims(u, d)
      /\ f.t \in Telling => Claims(u, e) \subseteq {j \in {f.job} : f.t # "created"}
  BY ClaimsAppend
<1>3. ProgressRuns(d) => ProgressRuns(e) BY ProgressAppend
<1>4. CASE ~s.open
  <2>1. f.t # "progress" BY <1>4 DEF Watches
  <2> HIDE DEF e
  <2>2. Silent(u, q, d, s) BY <1>4, OpenOrSilent
  <2>3. Silent(u, q, e, s) BY <1>1, <2>1, <2>2 DEF Silent
  <2> QED BY <1>4, <2>3, OpenOrSilent DEF e
<1>5. CASE s.open
  <2>0. /\ MovesFirst(u, q, d, s) /\ CreatesAlone(u, q, d, s) /\ AskedIsAnswered(u, q, d, s)
        /\ PanelIsWatched(u, q, d, s) /\ ToldTruly(u, q, d, s, n) /\ ProgressRuns(d)
    BY <1>5, OpenOrSilent DEF Attends
  <2>1. CreatesAlone(u, q, e, s)
    <3>1. \A k \in DOMAIN e : e[k].t = "started" => k \in DOMAIN d /\ e[k] = d[k]
      <4>1. /\ Len(e) = Len(d) + 1 /\ e[Len(d) + 1] = f /\ \A k \in 1..Len(d) : e[k] = d[k]
            /\ DOMAIN e = 1..Len(d) + 1 /\ DOMAIN d = 1..Len(d) /\ Len(d) \in Nat
        BY AppendProperties, LenProperties
      <4> HIDE DEF e
      <4> QED BY <4>1
    <3> HIDE DEF e
    <3> QED BY <2>0, <3>1 DEF CreatesAlone
  <2> HIDE DEF e
  <2>2. MovesFirst(u, q, e, s) /\ AskedIsAnswered(u, q, e, s) /\ PanelIsWatched(u, q, e, s)
    BY <1>1, <2>0 DEF MovesFirst, AskedIsAnswered, PanelIsWatched
  <2>3. ToldTruly(u, q, e, s, m)
    <3>1. Heard(u, e) <=> Heard(u, d) BY <1>1 DEF Heard
    <3>2. CASE f.t = "error" BY <1>2, <2>0, <3>1, <3>2 DEF ToldTruly, Telling
    <3>3. CASE f.t \in {"complete", "progress"} BY <1>2, <3>3 DEF ToldTruly, Telling
    <3> QED BY <3>2, <3>3
  <2> QED BY <1>3, <1>5, <2>0, <2>1, <2>2, <2>3, OpenOrSilent DEF Attends, e
<1> QED BY <1>4, <1>5 DEF e

--------------------
(* What happens to a viewer whose frame the server takes. *)

\* Nothing after the first frame moves on.
LEMMA TailMovesOn ==
    ASSUME NEW u, NEW q \in Seq(UpFrame), q # <<>>, NEW d, NEW s, MovesFirst(u, q, d, s)
    PROVE  \A v, e, r : MovesFirst(v, Tail(q), e, r)
<1> DEFINE p == Tail(q)
<1>1. /\ p \in Seq(UpFrame) /\ Len(p) = Len(q) - 1 /\ Len(q) \in Nat \ {0}
      /\ \A k \in 1..Len(q) - 1 : p[k] = q[k + 1]
      /\ DOMAIN q = 1..Len(q) /\ DOMAIN p = 1..Len(q) - 1
  BY TailShifts
<1>2. p # <<>> => Head(p) = p[1] /\ 1 \in DOMAIN p BY <1>1, TailShifts
<1> HIDE DEF p
<1>3. ASSUME NEW k \in DOMAIN p PROVE p[k].t \notin {"leave", "new"}
  <2>1. k + 1 \in DOMAIN q /\ k + 1 # 1 /\ p[k] = q[k + 1] BY <1>1, <1>3
  <2> QED BY <2>1 DEF MovesFirst
<1>4. \A v, e, r : MovesFirst(v, p, e, r) BY <1>2, <1>3 DEF MovesFirst
<1> QED BY <1>4 DEF p

\* What is sent is told from what comes back by its last frame and what it carries.
LEMMA AskedTail ==
    ASSUME NEW u, NEW q \in Seq(UpFrame), q # <<>>, NEW d, NEW s, AskedIsAnswered(u, q, d, s),
           Tail(q) # <<>> \/ Head(q).t \notin {"start", "load"}
    PROVE  AskedIsAnswered(u, Tail(q), d, s)
<1>1. /\ Tail(q) # <<>> => Tail(q)[Len(Tail(q))] = q[Len(q)]
      /\ Tail(q) = <<>> => q[Len(q)] = Head(q)
  BY CarriesTail
<1> QED BY <1>1 DEF AskedIsAnswered

LEMMA NoLoadTail ==
    ASSUME NEW q \in Seq(UpFrame), q # <<>>, Head(q).t # "load", NEW s
    PROVE  /\ NoLoad(Tail(q), s) <=> NoLoad(q, s)
           /\ ~NoLoad(q, s) => s.seen # "none" \/ Tail(q) # <<>>
           /\ Carries(Tail(q), {"start", "leave"}) => Carries(q, {"start", "leave"})
<1>1. \A T : Carries(q, T) <=> Head(q).t \in T \/ Carries(Tail(q), T) BY CarriesTail
<1>2. Carries(Tail(q), {"load"}) => Tail(q) # <<>> BY DEF Carries
<1>3. Carries(q, {"load"}) <=> Carries(Tail(q), {"load"}) BY <1>1
<1>4. NoLoad(Tail(q), s) <=> NoLoad(q, s) BY <1>3 DEF NoLoad
<1> QED BY <1>1, <1>2, <1>3, <1>4 DEF NoLoad

\* A cancel alone changes nothing for the viewer that sent it.
LEMMA CancelTaken ==
    ASSUME NEW u, NEW q \in Seq(UpFrame), q # <<>>, Head(q).t = "cancel", NEW d, NEW s, NEW n,
           Attends(u, q, d, s, n)
    PROVE  Attends(u, Tail(q), d, s, n)
<1> DEFINE p == Tail(q)
<1>1. MovesFirst(u, p, d, s) /\ AskedIsAnswered(u, p, d, s) BY TailMovesOn, AskedTail DEF Attends
<1>2. /\ NoLoad(p, s) <=> NoLoad(q, s)
      /\ Carries(p, {"start", "leave"}) => Carries(q, {"start", "leave"})
  BY NoLoadTail
<1> HIDE DEF p
<1>3. CreatesAlone(u, p, d, s) /\ PanelIsWatched(u, p, d, s) /\ ToldTruly(u, p, d, s, n)
  BY <1>2 DEF Attends, CreatesAlone, PanelIsWatched, ToldTruly
<1> QED BY <1>1, <1>3 DEF Attends, p

\* A request to restore is answered: refused, or with the job it led to.
LEMMA StartTaken ==
    ASSUME NEW u \in Screen, NEW q \in Seq(UpFrame), q # <<>>, Head(q).t = "start",
           NEW d \in Seq(DownFrame), NEW s \in Connection, s.open, NEW n, NEW m,
           Attends(u, q, d, s, n), NEW f \in DownFrame,
           \/ f.t = "rejected" /\ m = n
           \/ f.t = "started" /\ (f.job.state = "running" => f.job = m)
    PROVE  Attends(u, Tail(q), Append(d, f), s, m)
<1> DEFINE p == Tail(q)
           e == Append(d, f)
<1>1. \A T : Carries(e, T) <=> Carries(d, T) \/ f.t \in T BY CarriesAppend
<1>2. /\ f.t \notin Telling => Claims(u, e) \subseteq Claims(u, d)
      /\ f.t \in Telling => Claims(u, e) \subseteq {j \in {f.job} : f.t # "created"}
  BY ClaimsAppend
<1>3. ProgressRuns(e) /\ MovesFirst(u, p, e, s) BY ProgressAppend, TailMovesOn DEF Attends
<1>4. NoLoad(p, s) <=> NoLoad(q, s) BY NoLoadTail
<1>5. u.view \notin {"creating", "clone"}
  <2>1. Carries(q, {"start", "leave"}) BY CarriesTail
  <2> QED BY <2>1 DEF Attends, CreatesAlone
<1> HIDE DEF e, p
<1>6. CreatesAlone(u, p, e, s) BY <1>5 DEF CreatesAlone
<1>7. AskedIsAnswered(u, p, e, s)
  <2>1. Carries(e, Answers) BY <1>1 DEF Answers
  <2> QED BY <2>1 DEF Attends, AskedIsAnswered
<1>8. PanelIsWatched(u, p, e, s) BY <1>1, <1>4 DEF Attends, PanelIsWatched
<1>9. ToldTruly(u, p, e, s, m)
  <2>1. Heard(u, e) <=> Heard(u, d) BY <1>1, <1>5 DEF Heard
  <2>2. CASE f.t = "rejected" BY <1>2, <1>4, <2>1, <2>2 DEF Attends, ToldTruly, Telling
  <2>3. CASE f.t = "started"
    <3>1. NoLoad(q, s) /\ Heard(u, d) => Watches(s)
      BY <1>5 DEF Attends, Heard, Panel, PanelIsWatched, Watches
    <3>2. Claims(u, e) \subseteq {f.job} BY <1>2, <2>3 DEF Telling
    <3> QED BY <1>4, <2>1, <2>3, <3>1, <3>2 DEF ToldTruly
  <2> QED BY <2>2, <2>3
<1> QED BY <1>3, <1>6, <1>7, <1>8, <1>9 DEF Attends, e, p

\* Who moved on has nothing of the folder on the screen nor on its way: whatever
\* the connection becomes, nothing has to be told.
LEMMA MoveTaken ==
    ASSUME NEW u \in Screen, NEW q \in Seq(UpFrame), q # <<>>, Head(q).t \in {"leave", "new"},
           NEW d \in Seq(DownFrame), NEW s \in Connection, NEW r \in Connection, r.seen = s.seen,
           NEW n, Attends(u, q, d, s, n)
    PROVE  \A m : Attends(u, Tail(q), d, r, m)
<1> DEFINE p == Tail(q)
<1>1. \A v, e, t : MovesFirst(v, p, e, t) BY TailMovesOn DEF Attends
<1>2. /\ NoLoad(p, r) <=> NoLoad(q, s)
      /\ ~NoLoad(q, s) => s.seen # "none" \/ p # <<>>
      /\ Carries(p, {"start", "leave"}) => Carries(q, {"start", "leave"})
  BY NoLoadTail DEF NoLoad
<1>3. NoLoad(q, s) => u.view \in {"away", "creating", "live"} /\ ~Carries(d, {"missing", "started"})
  BY DEF Attends, MovesFirst
<1>4. ~Carries(d, {"missing", "started"}) => ~Carries(d, {"missing"}) /\ ~Carries(d, {"started"})
  BY DEF Carries
<1>5. AskedIsAnswered(u, p, d, r)
  <2>1. CASE NoLoad(q, s) BY <1>3, <2>1 DEF Panel, AskedIsAnswered
  <2>2. CASE ~NoLoad(q, s)
    <3>1. CASE s.seen # "none" BY <3>1 DEF Attends, AskedIsAnswered
    <3>2. CASE p # <<>>
      <4>1. AskedIsAnswered(u, p, d, s) BY <3>2, AskedTail DEF Attends
      <4> QED BY <4>1 DEF AskedIsAnswered
    <3> QED BY <1>2, <2>2, <3>1, <3>2
  <2> QED BY <2>1, <2>2
<1> HIDE DEF p
<1>6. CreatesAlone(u, p, d, r) BY <1>2 DEF Attends, CreatesAlone
<1>7. PanelIsWatched(u, p, d, r) /\ \A m : ToldTruly(u, p, d, r, m)
  BY <1>2, <1>3, <1>4 DEF Panel, PanelIsWatched, ToldTruly, Heard
<1> QED BY <1>1, <1>5, <1>6, <1>7 DEF Attends, p

\* The clone a new session waits for is shown, to a connection it is pending on.
LEMMA CloneAnswered ==
    ASSUME NEW u \in Screen, NEW q \in Seq(UpFrame), NEW d \in Seq(DownFrame), NEW s \in Connection, NEW m,
           Attends(u, q, d, s, m), \A v, e, t : MovesFirst(v, q, e, t), Watches(s),
           NEW f \in DownFrame, f.t = "started", f.job.state = "running", f.job = m
    PROVE  Attends(u, q, Append(d, f), s, m)
<1> DEFINE e == Append(d, f)
<1>1. \A T : Carries(e, T) <=> Carries(d, T) \/ f.t \in T BY CarriesAppend
<1>2. Claims(u, e) \subseteq {m} BY ClaimsAppend DEF Telling
<1>3. ProgressRuns(e) /\ MovesFirst(u, q, e, s) BY ProgressAppend DEF Attends
<1>4. \A k \in DOMAIN e : (k \in DOMAIN d /\ e[k] = d[k]) \/ e[k] = f
  <2>1. /\ Len(e) = Len(d) + 1 /\ e[Len(d) + 1] = f /\ \A k \in 1..Len(d) : e[k] = d[k]
        /\ DOMAIN e = 1..Len(d) + 1 /\ DOMAIN d = 1..Len(d) /\ Len(d) \in Nat
    BY AppendProperties, LenProperties
  <2> HIDE DEF e
  <2> QED BY <2>1
<1> HIDE DEF e
<1>5. CreatesAlone(u, q, e, s) BY <1>4 DEF Attends, CreatesAlone
<1>6. AskedIsAnswered(u, q, e, s) /\ PanelIsWatched(u, q, e, s)
  BY <1>1 DEF Attends, AskedIsAnswered, PanelIsWatched
<1>7. ToldTruly(u, q, e, s, m) BY <1>2 DEF ToldTruly
<1> QED BY <1>3, <1>5, <1>6, <1>7 DEF Attends, e

\* While a load is looked at, what is shown waits for its verdict.
LEMMA LoadTaken ==
    ASSUME NEW u \in Screen, NEW q \in Seq(UpFrame), q # <<>>, Head(q).t = "load",
           NEW d \in Seq(DownFrame), NEW s \in Connection, NEW r \in Connection, r.seen # "none",
           NEW n, Attends(u, q, d, s, n)
    PROVE  Attends(u, Tail(q), d, r, n)
<1>1. MovesFirst(u, Tail(q), d, r) BY TailMovesOn DEF Attends
<1>2. ~NoLoad(q, s)
  <2>1. Carries(q, {"load"}) BY CarriesTail
  <2> QED BY <2>1 DEF NoLoad
<1>3. u.view \notin {"creating", "clone"} BY <1>2 DEF Attends, CreatesAlone
<1>4. ~NoLoad(Tail(q), r) BY DEF NoLoad
<1>5. CreatesAlone(u, Tail(q), d, r) BY <1>3 DEF CreatesAlone
<1>6. AskedIsAnswered(u, Tail(q), d, r) BY DEF Attends, AskedIsAnswered
<1>7. PanelIsWatched(u, Tail(q), d, r) /\ ToldTruly(u, Tail(q), d, r, n)
  BY <1>4 DEF PanelIsWatched, ToldTruly
<1> QED BY <1>1, <1>5, <1>6, <1>7 DEF Attends

\* The verdict: an agent, or the folder to watch and the job there.
LEMMA LoadPainted ==
    ASSUME NEW u \in Screen, NEW q \in Seq(UpFrame), NEW d \in Seq(DownFrame),
           NEW s \in Connection, s.seen # "none", NEW r \in Connection, r.open, r.lock \/ r.attached,
           NEW n, Attends(u, q, d, s, n), NEW f \in DownFrame,
           \/ f.t = "created"
           \/ f.t = "missing" /\ (f.job.state = "running" => f.job = n)
    PROVE  Attends(u, q, Append(d, f), r, n)
<1> DEFINE e == Append(d, f)
<1>1. \A T : Carries(e, T) <=> Carries(d, T) \/ f.t \in T BY CarriesAppend
<1>2. Claims(u, e) \subseteq {j \in {f.job} : f.t # "created"} BY ClaimsAppend DEF Telling
<1>3. ProgressRuns(e) BY ProgressAppend DEF Attends
<1> HIDE DEF e
<1>4. \A k \in DOMAIN q : q[k].t \notin {"leave", "new"} BY DEF Attends, MovesFirst
<1>5. q # <<>> => 1 \in DOMAIN q /\ Head(q) = q[1] BY TailShifts
<1>6. MovesFirst(u, q, e, r) BY <1>4, <1>5 DEF MovesFirst
<1>7. u.view \notin {"creating", "clone"} BY DEF Attends, CreatesAlone, NoLoad
<1>8. CreatesAlone(u, q, e, r) /\ PanelIsWatched(u, q, e, r)
  BY <1>7 DEF CreatesAlone, PanelIsWatched
<1>9. AskedIsAnswered(u, q, e, r)
  <2>1. Carries(e, Answers) BY <1>1 DEF Answers
  <2> QED BY <2>1 DEF Attends, AskedIsAnswered
<1>10. ToldTruly(u, q, e, r, n)
  <2>1. Watches(r) BY DEF Watches
  <2> QED BY <1>2, <2>1 DEF ToldTruly
<1> QED BY <1>3, <1>6, <1>8, <1>9, <1>10 DEF Attends, e

\* The new session takes the screen.
LEMMA SessionCreated ==
    ASSUME NEW u \in Screen, NEW q \in Seq(UpFrame), NEW d \in Seq(DownFrame),
           NEW s \in Connection, NEW r \in Connection, r.seen = s.seen, r.attached,
           NEW n, Attends(u, q, d, s, n), NEW f \in DownFrame, f.t = "created"
    PROVE  Attends(u, q, Append(d, f), r, n)
<1> DEFINE e == Append(d, f)
<1>1. \A T : Carries(e, T) <=> Carries(d, T) \/ f.t \in T BY CarriesAppend
<1>2. Claims(u, e) = {} BY ClaimsAppend DEF Telling
<1>3. ProgressRuns(e) BY ProgressAppend DEF Attends
<1>4. NoLoad(q, r) <=> NoLoad(q, s) BY DEF NoLoad
<1>5. \A k \in DOMAIN e : (k \in DOMAIN d /\ e[k] = d[k]) \/ e[k] = f
  <2>1. /\ Len(e) = Len(d) + 1 /\ e[Len(d) + 1] = f /\ \A k \in 1..Len(d) : e[k] = d[k]
        /\ DOMAIN e = 1..Len(d) + 1 /\ DOMAIN d = 1..Len(d) /\ Len(d) \in Nat
    BY AppendProperties, LenProperties
  <2> HIDE DEF e
  <2> QED BY <2>1
<1> HIDE DEF e
<1>6. MovesFirst(u, q, e, r) BY <1>1, <1>4 DEF Attends, MovesFirst
<1>7. CreatesAlone(u, q, e, r) BY <1>4, <1>5 DEF Attends, CreatesAlone
<1>8. AskedIsAnswered(u, q, e, r) BY <1>1 DEF Attends, AskedIsAnswered
<1>9. PanelIsWatched(u, q, e, r) /\ ToldTruly(u, q, e, r, n) BY <1>2 DEF PanelIsWatched, ToldTruly
<1> QED BY <1>3, <1>6, <1>7, <1>8, <1>9 DEF Attends, e

--------------------
(* What happens to a viewer that acts. *)

\* The screens a frame may make of one.
Becomes(u, f, v) ==
    \/ f.t = "created" /\ v.view = "live"
    \/ f.t = "missing" /\ v.view = "panel" /\ v.job = f.job /\ v.asked = FALSE
    \/ f.t = "error" /\ (v = u \/ (u.view = "creating" /\ v.view = "away"))
    \/ f.t = "rejected" /\ v.view = u.view /\ v.job = u.job /\ v.asked = FALSE
    \/ f.t = "started" /\ u.view = "creating" /\ v.view = "clone" /\ v.job = f.job /\ v.asked = FALSE
    \/ f.t = "complete" /\ u.view = "clone" /\ v.view \in {"creating", "away"}
    \/ /\ f.t \in {"started", "progress", "complete"}
       /\ u.view \in {"panel", "clone"} /\ v.view = u.view /\ v.job = f.job /\ v.asked = FALSE
       /\ ~(f.t = "complete" /\ u.view = "clone")
    \/ /\ f.t \in {"started", "progress", "complete"}
       /\ u.view \notin {"panel", "clone"} /\ v = u /\ ~(f.t = "started" /\ u.view = "creating")

LEMMA ShownCases ==
    ASSUME NEW u \in Screen, NEW f \in DownFrame
    PROVE  Becomes(u, f, Shown(u, f))
<1> DEFINE v == Shown(u, f)
<1> USE DEF Becomes
<1>1. f.t \in {"missing", "started", "progress", "complete", "created", "rejected", "error"}
  BY DownFrameKinds
<1>0. Elsewhere.view = "away" /\ Elsewhere \in Screen BY ElsewhereTypes DEF Elsewhere
<1>2. CASE f.t = "created" BY <1>0, <1>2 DEF Shown, Screen
<1>3. CASE f.t = "missing" BY <1>3 DEF Shown
<1>4. CASE f.t = "error" BY <1>0, <1>4 DEF Shown
<1>5. CASE f.t = "rejected"
  <2>1. v = [u EXCEPT !.asked = FALSE] BY <1>5 DEF Shown
  <2> QED BY <1>5, <2>1 DEF Screen
<1>6. CASE f.t = "started" /\ u.view = "creating" BY <1>6 DEF Shown
<1>7. CASE f.t = "complete" /\ u.view = "clone"
  <2>1. v = [Elsewhere EXCEPT !.view = IF f.job.state = "done" THEN "creating" ELSE "away"]
    BY <1>7 DEF Shown
  <2> QED BY <1>0, <1>7, <2>1 DEF Screen
<1>8. CASE /\ f.t \in {"started", "progress", "complete"}
           /\ ~(f.t = "started" /\ u.view = "creating") /\ ~(f.t = "complete" /\ u.view = "clone")
  <2>1. v = IF u.view \in {"panel", "clone"} THEN [u EXCEPT !.job = f.job, !.asked = FALSE] ELSE u
    BY <1>8 DEF Shown
  <2>2. CASE u.view \in {"panel", "clone"} BY <1>8, <2>1, <2>2 DEF Screen
  <2>3. CASE u.view \notin {"panel", "clone"} BY <1>8, <2>1, <2>3
  <2> QED BY <2>2, <2>3
<1> HIDE DEF v
<1> QED BY <1>1, <1>2, <1>3, <1>4, <1>5, <1>6, <1>7, <1>8 DEF Becomes, v

\* A frame received keeps the viewer on the job that runs.
LEMMA FrameReceived ==
    ASSUME NEW u \in Screen, NEW q \in Seq(UpFrame), NEW d \in Seq(DownFrame), d # <<>>,
           NEW s \in Connection, NEW n, Attends(u, q, d, s, n), NEW v, v = Shown(u, Head(d))
    PROVE  Attends(v, q, Tail(d), s, n)
<1> DEFINE e == Tail(d)
           f == Head(d)
<1>1. /\ e \in Seq(DownFrame) /\ Len(e) = Len(d) - 1 /\ Len(d) \in Nat \ {0} /\ f \in DownFrame
      /\ \A k \in 1..Len(d) - 1 : e[k] = d[k + 1]
      /\ f = d[1] /\ DOMAIN d = 1..Len(d) /\ DOMAIN e = 1..Len(d) - 1
  BY TailShifts
<1>2. \A T : Carries(d, T) <=> f.t \in T \/ Carries(e, T) BY CarriesTail
<1>3. /\ Carries(e, Telling) => Claims(v, e) \subseteq Claims(u, d)
      /\ ~Carries(e, Telling) =>
           /\ Claims(v, e) \subseteq {j \in {v.job} : v.view \in {"panel", "clone"}}
           /\ f.t \in Telling \ {"created"} => f.job \in Claims(u, d)
           /\ f.t \notin Telling /\ u.view \in {"panel", "clone"} => u.job \in Claims(u, d)
  BY ClaimsTail
<1>5. /\ f.t = "progress" => f.job.state = "running"
      /\ u.view \in {"creating", "clone"} /\ f.t = "started" => f.job.state = "running"
      /\ \A k \in DOMAIN e : \E l \in DOMAIN d : e[k] = d[l]
  <2>1. 1 \in DOMAIN d /\ f = d[1] BY <1>1
  <2>2. ASSUME NEW k \in DOMAIN e PROVE \E l \in DOMAIN d : e[k] = d[l]
    <3>1. k + 1 \in DOMAIN d /\ e[k] = d[k + 1] BY <1>1
    <3> QED BY <3>1
  <2> QED BY <2>1, <2>2 DEF Attends, ProgressRuns, CreatesAlone
<1>4. Becomes(u, f, v) BY <1>1, ShownCases
<1> HIDE DEF e, f
<1>6. MovesFirst(v, q, e, s)
  <2>1. CASE q # <<>> /\ Head(q).t \in {"leave", "new"} /\ NoLoad(q, s)
    <3>1. u.view \in {"away", "creating", "live"} /\ f.t \notin {"missing", "started"}
          /\ ~Carries(e, {"missing", "started"})
      BY <1>2, <2>1 DEF Attends, MovesFirst
    <3>2. v.view \in {"away", "creating", "live"} BY <1>4, <3>1 DEF Becomes
    <3> QED BY <3>1, <3>2 DEF Attends, MovesFirst
  <2>2. CASE ~(q # <<>> /\ Head(q).t \in {"leave", "new"} /\ NoLoad(q, s))
    BY <2>2 DEF Attends, MovesFirst
  <2> QED BY <2>1, <2>2
<1>7. CreatesAlone(v, q, e, s)
  <2>1. v.view \in {"creating", "clone"} => u.view \in {"creating", "clone"} BY <1>4 DEF Becomes
  <2>2. v.view = "clone" => v.job.state = "running"
    <3>1. u.view = "clone" => u.job.state = "running" BY DEF Attends, CreatesAlone
    <3> QED BY <1>4, <1>5, <3>1 DEF Becomes
  <2>3. u.view \in {"creating", "clone"} => \A k \in DOMAIN e : e[k].t = "started" => e[k].job.state = "running"
    BY <1>5 DEF Attends, CreatesAlone
  <2> QED BY <2>1, <2>2, <2>3 DEF Attends, CreatesAlone
<1>8. AskedIsAnswered(v, q, e, s)
  <2> SUFFICES ASSUME Panel(v), v.asked PROVE AskedIsAnswered(v, q, e, s) BY DEF AskedIsAnswered
  <2>1. f.t \notin Answers /\ v = u BY <1>4 DEF Panel, Answers, Becomes
  <2> QED BY <1>2, <2>1 DEF Attends, AskedIsAnswered
<1>9. PanelIsWatched(v, q, e, s)
  <2>1. Panel(v) => Panel(u) \/ f.t = "missing" BY <1>4 DEF Panel, Becomes
  <2>2. Panel(v) \/ Carries(e, {"missing"}) => Panel(u) \/ Carries(d, {"missing"}) BY <1>2, <2>1
  <2> QED BY <2>2 DEF Attends, PanelIsWatched
<1>10. ToldTruly(v, q, e, s, n)
  <2>1. Heard(v, e) => Heard(u, d)
    <3>1. v.view \in {"panel", "clone"} => u.view \in {"panel", "clone"} \/ f.t = "missing"
                                             \/ (u.view = "creating" /\ f.t = "started")
      BY <1>4 DEF Becomes
    <3>2. v.view = "creating" => u.view \in {"creating", "clone"} BY <1>4 DEF Becomes
    <3> QED BY <1>2, <3>1, <3>2 DEF Heard
  <2>2. Claims(v, e) \subseteq Claims(u, d)
    <3>1. CASE Carries(e, Telling) BY <1>3, <3>1
    <3>2. CASE ~Carries(e, Telling) /\ v.view \in {"panel", "clone"}
      <4>1. (f.t \in Telling \ {"created"} /\ v.job = f.job) \/ (f.t \notin Telling /\ v.job = u.job /\ v.view = u.view)
        BY <1>4, <3>2 DEF Telling, Becomes
      <4> QED BY <1>3, <3>2, <4>1
    <3>3. CASE ~Carries(e, Telling) /\ v.view \notin {"panel", "clone"} BY <1>3, <3>3
    <3> QED BY <3>1, <3>2, <3>3
  <2> QED BY <2>1, <2>2 DEF Attends, ToldTruly
<1>11. ProgressRuns(e) BY <1>5 DEF Attends, ProgressRuns
<1> QED BY <1>6, <1>7, <1>8, <1>9, <1>10, <1>11 DEF Attends, e

\* What holds of a queue holds of it with one frame more.
LEMMA SentAfter ==
    ASSUME NEW q \in Seq(UpFrame), NEW f \in UpFrame, NEW s, NEW u, NEW d, MovesFirst(u, q, d, s)
    PROVE  /\ f.t \notin {"leave", "new"} =>
                \A k \in DOMAIN Append(q, f) : Append(q, f)[k].t \in {"leave", "new"} => k = 1 /\ s.seen = "none"
           /\ NoLoad(Append(q, f), s) <=> NoLoad(q, s) /\ f.t # "load"
<1> DEFINE p == Append(q, f)
<1>1. /\ Len(p) = Len(q) + 1 /\ p[Len(q) + 1] = f /\ \A k \in 1..Len(q) : p[k] = q[k]
      /\ DOMAIN p = 1..Len(q) + 1 /\ DOMAIN q = 1..Len(q) /\ Len(q) \in Nat
  BY AppendProperties, LenProperties
<1>2. Carries(p, {"load"}) <=> Carries(q, {"load"}) \/ f.t \in {"load"} BY CarriesAppend
<1> HIDE DEF p
<1>3. f.t \notin {"leave", "new"} =>
        \A k \in DOMAIN p : p[k].t \in {"leave", "new"} => k = 1 /\ s.seen = "none"
  BY <1>1 DEF MovesFirst
<1>4. NoLoad(p, s) <=> NoLoad(q, s) /\ f.t # "load" BY <1>2 DEF NoLoad
<1> QED BY <1>3, <1>4 DEF p

\* A session is opened: nothing is shown until its verdict.
LEMMA LoadSent ==
    ASSUME NEW u \in Screen, NEW q \in Seq(UpFrame), NEW d \in Seq(DownFrame), NEW s \in Connection, NEW n,
           Attends(u, q, d, s, n), NEW f \in UpFrame, f.t = "load", NEW v, v.view = "loading"
    PROVE  Attends(v, Append(q, f), d, s, n)
<1> DEFINE p == Append(q, f)
<1>1. /\ \A k \in DOMAIN p : p[k].t \in {"leave", "new"} => k = 1 /\ s.seen = "none"
      /\ ~NoLoad(p, s)
  BY SentAfter DEF Attends
<1> HIDE DEF p
<1>2. MovesFirst(v, p, d, s) BY <1>1 DEF MovesFirst
<1>3. CreatesAlone(v, p, d, s) /\ AskedIsAnswered(v, p, d, s)
  BY DEF CreatesAlone, AskedIsAnswered, Panel
<1>4. PanelIsWatched(v, p, d, s) /\ ToldTruly(v, p, d, s, n) BY <1>1 DEF PanelIsWatched, ToldTruly
<1> QED BY <1>2, <1>3, <1>4 DEF Attends, p

\* A viewer that moves on with nothing under way.
LEMMA MoveSent ==
    ASSUME NEW d \in Seq(DownFrame), ProgressRuns(d), ~Carries(d, {"missing", "started"}),
           NEW s \in Connection, s.seen = "none", NEW n, NEW f \in UpFrame, NEW v,
           \/ f.t = "leave" /\ v.view = "away"
           \/ f.t = "new" /\ v.view = "creating"
    PROVE  Attends(v, Append(<<>>, f), d, s, n)
<1> DEFINE p == Append(<<>>, f)
<1>1. Len(p) = 1 /\ p[1] = f /\ DOMAIN p = 1..1 /\ p # <<>> /\ Head(p) = f OBVIOUS
<1>2. ~Carries(d, {"missing"}) /\ ~Carries(d, {"started"}) BY DEF Carries
<1> HIDE DEF p
<1>3. MovesFirst(v, p, d, s) BY <1>1 DEF MovesFirst
<1>4. \A T : Carries(p, T) <=> f.t \in T BY <1>1 DEF Carries
<1>5. CreatesAlone(v, p, d, s) BY <1>2, <1>4 DEF CreatesAlone, NoLoad, Carries
<1>6. AskedIsAnswered(v, p, d, s) /\ PanelIsWatched(v, p, d, s) /\ ToldTruly(v, p, d, s, n)
  BY <1>2 DEF AskedIsAnswered, PanelIsWatched, ToldTruly, Heard, Panel
<1> QED BY <1>3, <1>5, <1>6 DEF Attends, p

\* A restore is asked for from the panel.
LEMMA StartSent ==
    ASSUME NEW u \in Screen, NEW q \in Seq(UpFrame), NEW d \in Seq(DownFrame), NEW s \in Connection, NEW n,
           Attends(u, q, d, s, n), Panel(u), NEW f \in UpFrame, f.t = "start",
           NEW v, v.view = "panel", v.job = NoJob
    PROVE  Attends(v, Append(q, f), d, s, n)
<1> DEFINE p == Append(q, f)
<1>1. /\ \A k \in DOMAIN p : p[k].t \in {"leave", "new"} => k = 1 /\ s.seen = "none"
      /\ NoLoad(p, s) <=> NoLoad(q, s)
  BY SentAfter DEF Attends
<1>2. /\ p # <<>> /\ p[Len(p)] = f /\ Head(p) = IF q = <<>> THEN f ELSE Head(q) BY CarriesAppend
<1> HIDE DEF p
<1>3. MovesFirst(v, p, d, s) BY <1>1, <1>2 DEF Attends, MovesFirst, Panel
<1>4. CreatesAlone(v, p, d, s) BY DEF CreatesAlone
<1>5. NoJob.state = "none" BY DEF NoJob
<1>6. AskedIsAnswered(v, p, d, s) BY <1>2, <1>5 DEF AskedIsAnswered
<1>7. PanelIsWatched(v, p, d, s) BY <1>1 DEF Attends, Panel, PanelIsWatched
<1>8. ToldTruly(v, p, d, s, n)
  <2>1. \A j \in Claims(v, d) : j \in Claims(u, d) \/ j = NoJob BY DEF Claims
  <2>2. Heard(u, d) BY DEF Heard, Panel
  <2> QED BY <1>1, <1>5, <2>1, <2>2 DEF Attends, ToldTruly
<1> QED BY <1>3, <1>4, <1>6, <1>7, <1>8 DEF Attends, p

\* A restore is cancelled from where it is watched.
LEMMA CancelSent ==
    ASSUME NEW u \in Screen, NEW q \in Seq(UpFrame), NEW d \in Seq(DownFrame), NEW s \in Connection, NEW n,
           Attends(u, q, d, s, n), NEW f \in UpFrame, f.t = "cancel",
           (Panel(u) /\ u.job.state = "running") \/ u.view = "clone"
    PROVE  Attends(u, Append(q, f), d, s, n)
<1> DEFINE p == Append(q, f)
<1>1. /\ \A k \in DOMAIN p : p[k].t \in {"leave", "new"} => k = 1 /\ s.seen = "none"
      /\ NoLoad(p, s) <=> NoLoad(q, s)
  BY SentAfter DEF Attends
<1>2. /\ Head(p) = IF q = <<>> THEN f ELSE Head(q)
      /\ Carries(p, {"start", "leave"}) <=> Carries(q, {"start", "leave"})
  BY CarriesAppend
<1> HIDE DEF p
<1>3. MovesFirst(u, p, d, s) BY <1>1, <1>2 DEF Attends, MovesFirst, Panel
<1>4. CreatesAlone(u, p, d, s) BY <1>1, <1>2 DEF Attends, CreatesAlone
<1>5. AskedIsAnswered(u, p, d, s) BY DEF Attends, AskedIsAnswered, Panel
<1>6. PanelIsWatched(u, p, d, s) /\ ToldTruly(u, p, d, s, n)
  BY <1>1 DEF Attends, PanelIsWatched, ToldTruly
<1> QED BY <1>3, <1>4, <1>5, <1>6 DEF Attends, p

\* The watchdog ends a creation, and nothing is on the screen.
LEMMA CreationEnds ==
    ASSUME NEW u \in Screen, NEW q, NEW d, NEW s, NEW n, Attends(u, q, d, s, n),
           u.view = "creating", NEW v, v.view = "away"
    PROVE  Attends(v, q, d, s, n)
<1>1. MovesFirst(v, q, d, s) BY DEF Attends, MovesFirst
<1>2. CreatesAlone(v, q, d, s) /\ AskedIsAnswered(v, q, d, s)
  BY DEF CreatesAlone, AskedIsAnswered, Panel
<1>3. PanelIsWatched(v, q, d, s) BY DEF Attends, PanelIsWatched, Panel
<1>4. Heard(v, d) => Heard(u, d) BY DEF Heard
<1>5. Claims(v, d) \subseteq Claims(u, d) BY DEF Claims
<1>6. ToldTruly(v, q, d, s, n) BY <1>4, <1>5 DEF Attends, ToldTruly
<1> QED BY <1>1, <1>2, <1>3, <1>6 DEF Attends

\* A socket drops with everything on it.
LEMMA SocketDrops ==
    ASSUME NEW v, v.view \notin {"creating", "clone"}, Panel(v) /\ v.asked => v.job.state = "none",
           NEW s, s.seen = "none"
    PROVE  Silent(v, <<>>, <<>>, s)
<1>1. \A T : ~Carries(<<>>, T) BY DEF Carries
<1> QED BY <1>1 DEF Silent

\* Back on line the session on the screen is loaded anew, or there is none.
LEMMA SocketReturns ==
    ASSUME NEW u \in Screen, NEW q, NEW d \in Seq(DownFrame), NEW s \in Connection, NEW n, Silent(u, q, d, s),
           NEW r \in Connection, r.seen = s.seen, NEW v, NEW p, NEW f \in UpFrame, f.t = "load",
           \/ p = Append(<<>>, f) /\ v = u
           \/ p = q /\ v.view \notin {"panel", "clone", "creating"}
    PROVE  Attends(v, p, d, r, n)
<1>1. /\ q = <<>> /\ r.seen = "none" /\ ~Carries(d, {"missing", "started", "progress"})
      /\ u.view \notin {"creating", "clone"} /\ (Panel(u) /\ u.asked => u.job.state = "none")
  BY DEF Silent
<1>2. ~Carries(d, {"missing"}) /\ ~Carries(d, {"started"}) /\ ProgressRuns(d)
  BY <1>1 DEF Carries, ProgressRuns
<1>3. CASE p = Append(<<>>, f) /\ v = u
  <2>1. Len(p) = 1 /\ p[1] = f /\ DOMAIN p = 1..1 /\ p # <<>> /\ Head(p) = f BY <1>3
  <2>2. ~NoLoad(p, r) BY <2>1 DEF NoLoad, Carries
  <2>3. MovesFirst(v, p, d, r) /\ AskedIsAnswered(v, p, d, r)
    <3>1. p[Len(p)].t = "load" BY <2>1
    <3> QED BY <1>1, <1>3, <2>1, <3>1 DEF MovesFirst, AskedIsAnswered
  <2>4. CreatesAlone(v, p, d, r) /\ PanelIsWatched(v, p, d, r) /\ ToldTruly(v, p, d, r, n)
    BY <1>1, <1>3, <2>2 DEF CreatesAlone, PanelIsWatched, ToldTruly
  <2> QED BY <1>2, <2>3, <2>4 DEF Attends
<1>4. CASE p = q /\ v.view \notin {"panel", "clone", "creating"}
  <2>1. MovesFirst(v, p, d, r) /\ CreatesAlone(v, p, d, r) /\ AskedIsAnswered(v, p, d, r)
    BY <1>1, <1>4 DEF MovesFirst, CreatesAlone, AskedIsAnswered, Panel
  <2>2. PanelIsWatched(v, p, d, r) /\ ToldTruly(v, p, d, r, n)
    BY <1>2, <1>4 DEF PanelIsWatched, ToldTruly, Heard, Panel
  <2> QED BY <1>2, <2>1, <2>2 DEF Attends
<1> QED BY <1>3, <1>4

--------------------
(* Every step keeps every viewer on the job that runs. *)

Shows(c) == Follows(ui[c], up[c], down[c], srv[c], Now)

LEMMA ViewerShape ==
    ASSUME Core, NEW c \in Clients
    PROVE  /\ ui[c] \in Screen /\ up[c] \in Seq(UpFrame) /\ down[c] \in Seq(DownFrame)
           /\ srv[c] \in Connection
BY DEF Core, TypeOK, HandlerTypes, ViewerTypes, Screen, Connection

LEMMA NowTypes ==
    ASSUME Core
    PROVE  /\ Now \in Snapshot /\ (Running <=> Now.state = "running")
           /\ Running => current \in JobIds /\ Now = [id |-> current, state |-> "running"] /\ relay = TRUE
           /\ ~Running => Now = NoJob
<1>1. Running => current \in JobIds /\ jobs[current].state = "running"
  BY DEF Running, Core, TypeOK, RegistryTypes, JobIds
<1>2. relay = TRUE <=> Running BY RunningIsBoolean DEF Core, ObservedWhileRunning
<1>3. NoJob.state = "none" /\ NoJob \in Snapshot BY ElsewhereTypes DEF NoJob
<1> QED BY <1>1, <1>2, <1>3 DEF Now, Snap, Snapshot, JobIds, States

\* Who is left alone still shows the truth when nothing ran, or the same job does.
LEMMA UntouchedShows ==
    ASSUME NEW c, Shows(c), ui'[c] = ui[c], up'[c] = up[c], down'[c] = down[c], srv'[c] = srv[c],
           Now' = Now \/ Now.state # "running"
    PROVE  Shows(c)'
BY FollowsNext DEF Shows

LEMMA RegistryNow ==
    ASSUME UNCHANGED <<jobs, current>>
    PROVE  Now' = Now
BY DEF Now, Running, Snap

LEMMA BroadcastAt ==
    ASSUME NEW d, NEW s, NEW f, NEW c \in Clients
    PROVE  Broadcast(d, s, f)[c] = IF Watches(s[c]) THEN Append(d[c], f) ELSE d[c]
BY DEF Broadcast

LEMMA AnswerAt ==
    ASSUME NEW d \in Queues(DownFrame), NEW f, NEW c \in Clients, NEW v \in Clients
    PROVE  Answer(d, c, f)[v] = IF v = c /\ srv[c].open THEN Append(d[v], f) ELSE d[v]
BY DEF Answer, Queues

\* The end of a job, for a viewer who watches or not.
LEMMA EndHeard ==
    ASSUME Core, NEW c \in Clients, NEW q, NEW d \in Seq(DownFrame), NEW n,
           Follows(ui[c], q, d, srv[c], n),
           NEW i \in 0..MaxJobs, NEW s \in Settled, NEW m, NEW e,
           e = IF Watches(srv[c]) THEN Append(d, Complete(i, s)) ELSE d
    PROVE  Follows(ui[c], q, e, srv[c], m) /\ e \in Seq(DownFrame)
<1>1. /\ Complete(i, s) \in DownFrame
      /\ Complete(i, s).t = "complete" /\ Complete(i, s).job.state # "running"
  BY FrameTypes DEF Complete, Settled, States
<1>2. ui[c] \in Screen BY ViewerShape
<1>3. CASE Watches(srv[c])
  <2>1. Append(d, Complete(i, s)) \in Seq(DownFrame) BY <1>1
  <2> QED BY <1>1, <1>2, <1>3, <2>1, FollowsHears
<1>4. CASE ~Watches(srv[c]) BY <1>4, FollowsNext
<1> QED BY <1>3, <1>4

LEMMA ErrorHeard ==
    ASSUME Core, NEW c \in Clients, NEW q, NEW d \in Seq(DownFrame), NEW s, NEW n,
           Follows(ui[c], q, d, s, n)
    PROVE  Follows(ui[c], q, Append(d, [t |-> "error"]), s, n)
<1>1. [t |-> "error"] \in DownFrame BY FrameTypes
<1>2. ui[c] \in Screen BY ViewerShape
<1>3. [t |-> "error"].t = "error" OBVIOUS
<1> DEFINE f == [t |-> "error"]
<1> HIDE DEF f
<1>4. Follows(ui[c], q, Append(d, f), s, n) BY <1>1, <1>2, <1>3, FollowsHears DEF f
<1> QED BY <1>4 DEF f

\* Everybody who watches is told that a job has settled.
LEMMA FinishShows ==
    ASSUME Core, NEW i \in JobIds, jobs[i].state = "running",
           NEW s \in Settled, NEW STATE d, Finish(i, s, d),
           \A c \in Clients \ cut : Follows(ui[c], up'[c], down[c], srv[c], Now)
    PROVE  SInv'
<1>1. Running /\ relay = TRUE /\ i \in 0..MaxJobs
  <2>1. i = current /\ i # 0 /\ i \in 0..MaxJobs BY DEF Core, JobShape, JobIds
  <2>2. Running BY <2>1 DEF Running
  <2> QED BY <2>1, <2>2, NowTypes
<1>2. Now' = NoJob /\ NoJob.state # "running"
  <2>1. ~Running' BY FinishRegistry DEF Core
  <2> QED BY <2>1 DEF Now, NoJob
<1>3. ui' = ui /\ cut' = cut BY DEF Finish
<1> SUFFICES ASSUME NEW c \in Clients \ cut PROVE Follows(ui'[c], up'[c], down'[c], srv'[c], Now')
  BY <1>3 DEF SInv
<1> DEFINE e == IF Watches(srv[c]) THEN Append(down[c], Complete(i, s)) ELSE down[c]
<1>4. down[c] \in Seq(DownFrame) /\ srv[c] \in Connection /\ srv \in [Clients -> Connection]
  BY ViewerShape DEF Core, TypeOK, HandlerTypes, Connection
<1>5. Follows(ui[c], up'[c], e, srv[c], NoJob) /\ e \in Seq(DownFrame) BY <1>1, <1>4, EndHeard
<1>6. /\ down'[c] = IF c \in Ended(i, s) THEN Append(e, [t |-> "error"]) ELSE e
      /\ srv'[c] = IF c \in Ended(i, s) THEN [srv[c] EXCEPT !.pend = FALSE] ELSE srv[c]
  BY <1>1, BroadcastAt DEF Finish
<1> HIDE DEF e
<1>7. CASE c \notin Ended(i, s) BY <1>2, <1>3, <1>5, <1>6, <1>7
<1>8. CASE c \in Ended(i, s)
  <2>1. Follows(ui[c], up'[c], Append(e, [t |-> "error"]), srv[c], NoJob) BY <1>5, ErrorHeard
  <2>2. /\ srv'[c].open = srv[c].open /\ srv'[c].lock = srv[c].lock
        /\ srv'[c].attached = srv[c].attached /\ srv'[c].seen = srv[c].seen
    BY <1>4, <1>6, <1>8 DEF Connection
  <2>3. Follows(ui[c], up'[c], Append(e, [t |-> "error"]), srv'[c], NoJob)
    BY <1>2, <2>1, <2>2, FollowsUnpend
  <2> QED BY <1>2, <1>3, <1>6, <1>8, <2>3
<1> QED BY <1>7, <1>8

\* A request leaves the job that ran, or puts one in the place of none.
LEMMA RequestNow ==
    ASSUME Core, NEW kind \in Kinds, NEW ok \in BOOLEAN, NEW o, Request(kind, ok, o)
    PROVE  /\ o \in {"joined", "refused"} => Now' = Now
           /\ o \in {"started", "unspawned"} => Now.state # "running"
           /\ o \in {"joined", "started"} => Now' = [id |-> current', state |-> "running"]
           /\ current' \in 0..MaxJobs
<1>1. /\ RegistryTypes' /\ o \in {"joined", "refused", "started", "unspawned"}
      /\ o \in {"joined", "started"} => Running' /\ current' # 0
      /\ o \in {"started", "unspawned"} => ~Running /\ current' = nextId
  BY RequestRegistry DEF Core
<1>2. o \in {"joined", "refused"} => Now' = Now BY RegistryNow DEF Request
<1>3. ~Running => Now.state # "running" BY NowTypes
<1>4. Running' => Now' = [id |-> current', state |-> "running"] BY DEF Now, Snap, Running
<1> QED BY <1>1, <1>2, <1>3, <1>4 DEF RegistryTypes

\* A step that changes no job's state, at most forgetting one that has settled.
LEMMA StatesNow ==
    ASSUME Core, \A k \in JobIds : jobs'[k].state = jobs[k].state,
           current' = current \/ (~Running /\ current' = 0)
    PROVE  Now' = Now
<1>1. current = 0 \/ current \in JobIds BY DEF Core, TypeOK, RegistryTypes, JobIds
<1>2. Running' <=> Running BY <1>1 DEF Running
<1>3. Running => current' = current /\ jobs'[current].state = jobs[current].state
  BY <1>1 DEF Running
<1> QED BY <1>2, <1>3 DEF Now, Snap

\* Jobs that go on, or are forgotten.
LEMMA JobShows ==
    ASSUME Core, Core', SInv, NEW i \in JobIds, JobNext(i)
    PROVE  SInv'
<1>1. CASE \E s \in Settled : /\ jobs[i].state = "running" /\ up' = up
                              /\ \/ Finish(i, s, disk) \/ Finish(i, s, NoFolder)
                                 \/ Finish(i, s, [disk EXCEPT !.dir = TRUE])
  <2>1. \A c \in Clients \ cut : Follows(ui[c], up'[c], down[c], srv[c], Now) BY <1>1 DEF SInv
  <2> QED BY <1>1, <2>1, FinishShows
<1>2. CASE UNCHANGED <<ui, up, down, srv, cut>> /\ Now' = Now
  BY <1>2, UntouchedShows DEF SInv, Shows
<1>3. CASE Progress(i)
  <2>1. i = current /\ Running /\ Now' = Now /\ UNCHANGED <<ui, up, srv, cut>>
    BY <1>3, RegistryNow DEF Progress, Core, JobShape, Running, JobIds, registry, handlers, history
  <2>2. relay = TRUE /\ Now = Snap(i) /\ Snap(i).state = "running"
    BY <2>1, NowTypes DEF Now, Running, Snap
  <2> SUFFICES ASSUME NEW c \in Clients \ cut PROVE Shows(c)' BY <2>1 DEF SInv, Shows
  <2> DEFINE f == [t |-> "progress", job |-> Snap(i)]
  <2>3. down'[c] = IF Watches(srv[c]) THEN Append(down[c], f) ELSE down[c]
    BY <1>3, <2>2, BroadcastAt DEF Progress
  <2>4. f.t = "progress" /\ f.job = Now /\ f.job.state = "running" BY <2>2
  <2>5. f \in DownFrame BY <2>2, NowTypes DEF DownFrame
  <2>6. Shows(c) BY DEF SInv, Shows
  <2> HIDE DEF f
  <2>7. CASE Watches(srv[c])
    <3>1. Follows(ui[c], up[c], Append(down[c], f), srv[c], Now)
      BY <2>4, <2>5, <2>6, <2>7, ViewerShape, FollowsHears DEF Shows
    <3> QED BY <2>1, <2>3, <2>7, <3>1 DEF Shows
  <2>8. CASE ~Watches(srv[c]) BY <2>1, <2>3, <2>6, <2>8, UntouchedShows
  <2> QED BY <2>7, <2>8
<1>0. jobs \in [JobIds -> Job] BY DEF Core, TypeOK, RegistryTypes
<1>4. CASE Reap(i)
  <2>1. \A k \in JobIds : jobs'[k].state = jobs[k].state BY <1>0, <1>4 DEF Reap, Job
  <2>2. current' = current \/ (~Running /\ current' = 0) BY <1>4 DEF Reap, Running, Core, JobShape
  <2> QED BY <1>2, <1>4, <2>1, <2>2, StatesNow DEF Reap, handlers, viewers, history
<1>5. CASE UNCHANGED <<current, handlers, viewers, history>> /\ \E p : jobs' = [jobs EXCEPT ![i].proc = p]
  <2>1. \A k \in JobIds : jobs'[k].state = jobs[k].state BY <1>0, <1>5 DEF Job
  <2> QED BY <1>2, <1>5, <2>1, StatesNow DEF handlers, viewers, history
<1>6. CASE GitWrites(i) \/ GitExits(i)
  <2>1. UNCHANGED <<current, ui, up, down, srv, cut>>
    BY <1>6 DEF GitWrites, GitExits, handlers, viewers, history
  <2>2. \A k \in JobIds : jobs'[k].state = jobs[k].state BY <1>0, <1>6 DEF GitWrites, GitExits, Job
  <2> QED BY <1>2, <2>1, <2>2, StatesNow
<1>7. CASE Tick(i) BY <1>1, <1>5, <1>7 DEF Tick, Settled
<1>8. CASE Close(i) \/ SpawnErrors(i)
  <2>1. jobs[i].state = "running" BY <1>8 DEF Close, SpawnErrors, Core, JobShape
  <2> QED BY <1>1, <1>8, <2>1 DEF Close, SpawnErrors, Settled
<1> QED BY <1>3, <1>4, <1>6, <1>7, <1>8 DEF JobNext

\* The viewer whose frame is taken has an open socket; nobody else sent anything.
LEMMA TakenFrom ==
    ASSUME Core, SInv, NEW c \in Clients, NEW t, Takes(c, t)
    PROVE  /\ srv[c].open /\ up[c] # <<>> /\ Head(up[c]).t = t /\ up'[c] = Tail(up[c])
           /\ \A v \in Clients \ {c} : up'[v] = up[v]
           /\ c \notin cut => Attends(ui[c], up[c], down[c], srv[c], Now)
<1>1. up \in [Clients -> Seq(UpFrame)] BY DEF Core, TypeOK, ViewerTypes
<1>2. srv[c].open /\ (c \notin cut => Shows(c)) BY DEF Takes, SInv, Shows
<1> QED BY <1>1, <1>2, OpenOrSilent DEF Takes, Shows

\* restore_start: the one that asked is answered, everybody is told of a failure.
LEMMA RestoreStartShows ==
    ASSUME Core, Core', SInv, NEW c \in Clients, RestoreStart(c)
    PROVE  SInv'
<1> DEFINE h == Head(up[c])
<1>1. h.kind \in Kinds /\ h.ok \in BOOLEAN BY TakeTypes, StartFrame DEF RestoreStart
<1>2. PICK o \in Outcomes(h.kind, h.ok) :
        /\ Request(h.kind, h.ok, o)
        /\ down' = CASE o = "refused" -> Answer(down, c, [t |-> "rejected"])
                     [] o \in {"joined", "started"} -> Answer(down, c, Started(current', "running"))
                     [] o = "unspawned" ->
                          LET told == Broadcast(down, srv, Complete(current', "failed"))
                          IN  Broadcast(Answer(told, c, Started(current', "failed")), srv, Complete(current', "failed"))
  BY DEF RestoreStart
<1>3. UNCHANGED <<ui, srv, cut>> BY DEF RestoreStart, handlers
<1>4. /\ srv[c].open /\ up[c] # <<>> /\ h.t = "start" /\ up'[c] = Tail(up[c])
      /\ \A v \in Clients \ {c} : up'[v] = up[v]
      /\ c \notin cut => Attends(ui[c], up[c], down[c], srv[c], Now)
  BY TakenFrom DEF RestoreStart
<1> HIDE DEF h
<1>5. o \in {"joined", "refused", "started", "unspawned"} BY <1>1, <1>2, RequestRegistry DEF Core
<1>6. /\ o \in {"joined", "refused"} => Now' = Now
      /\ o \in {"started", "unspawned"} => Now.state # "running"
      /\ o \in {"joined", "started"} => Now' = [id |-> current', state |-> "running"]
      /\ current' \in 0..MaxJobs
  BY <1>1, <1>2, RequestNow
<1>7. \A v \in Clients : ui[v] \in Screen /\ up[v] \in Seq(UpFrame) /\ down[v] \in Seq(DownFrame) /\ srv[v] \in Connection
  BY ViewerShape
<1>8. down \in Queues(DownFrame) /\ [t |-> "rejected"] \in DownFrame
      /\ Started(current', "running") \in DownFrame /\ Started(current', "failed") \in DownFrame
  BY <1>6, FrameTypes DEF Core, TypeOK, ViewerTypes, Queues, States
<1> SUFFICES ASSUME NEW v \in Clients \ cut PROVE Follows(ui[v], up'[v], down'[v], srv[v], Now')
  BY <1>3 DEF SInv
<1>9. Shows(v) BY DEF SInv, Shows
<1>10. CASE o = "refused"
  <2> DEFINE f == [t |-> "rejected"]
  <2>1. down'[v] = IF v = c THEN Append(down[v], f) ELSE down[v]
    BY <1>2, <1>4, <1>8, <1>10, AnswerAt
  <2>2. f \in DownFrame /\ f.t = "rejected" BY <1>8
  <2> HIDE DEF f
  <2>3. CASE v = c
    <3>1. Attends(ui[c], Tail(up[c]), Append(down[c], f), srv[c], Now)
      BY <1>4, <1>7, <2>2, <2>3, StartTaken DEF h
    <3> QED BY <1>4, <1>6, <1>10, <2>1, <2>3, <3>1, OpenOrSilent
  <2>4. CASE v # c BY <1>4, <1>6, <1>9, <1>10, <2>1, <2>4 DEF Shows
  <2> QED BY <2>3, <2>4
<1>11. CASE o \in {"joined", "started"}
  <2> DEFINE f == Started(current', "running")
  <2>1. down'[v] = IF v = c THEN Append(down[v], f) ELSE down[v]
    BY <1>2, <1>4, <1>8, <1>11, AnswerAt
  <2>2. f \in DownFrame /\ f.t = "started" /\ f.job = Now' BY <1>6, <1>8, <1>11 DEF Started
  <2> HIDE DEF f
  <2>3. CASE v = c
    <3>1. Attends(ui[c], Tail(up[c]), Append(down[c], f), srv[c], Now')
      BY <1>4, <1>7, <2>2, <2>3, StartTaken DEF h
    <3> QED BY <1>4, <2>1, <2>3, <3>1, OpenOrSilent
  <2>4. CASE v # c BY <1>4, <1>6, <1>9, <1>11, <2>1, <2>4, FollowsNext DEF Shows
  <2> QED BY <2>3, <2>4
<1>12. CASE o = "unspawned"
  <2> DEFINE e == IF Watches(srv[v]) THEN Append(down[v], Complete(current', "failed")) ELSE down[v]
             f == Started(current', "failed")
             g == IF v = c THEN Append(e, f) ELSE e
             told == Broadcast(down, srv, Complete(current', "failed"))
             both == Answer(told, c, f)
  <2>1. told \in Queues(DownFrame) /\ told[v] = e
    <3>1. Complete(current', "failed") \in DownFrame BY <1>6, FrameTypes DEF States
    <3> QED BY <1>8, <3>1, SendTypes, BroadcastAt DEF Core, TypeOK
  <2>2. down' = Broadcast(both, srv, Complete(current', "failed")) BY <1>2, <1>12
  <2>3. f \in DownFrame /\ f.t = "started" /\ f.job.state # "running" BY <1>8 DEF Started
  <2> HIDE DEF told, f
  <2>4. both[v] = g BY <1>4, <2>1, AnswerAt
  <2> HIDE DEF both
  <2>5. down'[v] = IF Watches(srv[v]) THEN Append(g, Complete(current', "failed")) ELSE g
    BY <2>2, <2>4, BroadcastAt
  <2>6. "failed" \in Settled BY DEF Settled
  <2>7. Follows(ui[v], up[v], e, srv[v], Now') /\ e \in Seq(DownFrame)
    BY <1>6, <1>7, <1>9, <2>6, EndHeard DEF Shows
  <2> HIDE DEF e
  <2>8. Follows(ui[v], up'[v], g, srv[v], Now') /\ g \in Seq(DownFrame)
    <3>1. CASE v = c
      <4>1. Attends(ui[c], up[c], e, srv[c], Now') BY <1>4, <2>7, <3>1, OpenOrSilent
      <4>2. Attends(ui[c], Tail(up[c]), Append(e, f), srv[c], Now')
        BY <1>4, <1>7, <2>3, <2>7, <4>1, StartTaken DEF h
      <4>3. Append(e, f) \in Seq(DownFrame) BY <2>3, <2>7
      <4> QED BY <1>4, <3>1, <4>2, <4>3, OpenOrSilent
    <3>2. CASE v # c BY <1>4, <2>7, <3>2
    <3> QED BY <3>1, <3>2
  <2> HIDE DEF g
  <2>9. Follows(ui[v], up'[v], down'[v], srv[v], Now') BY <1>6, <2>5, <2>6, <2>8, EndHeard
  <2> QED BY <2>9
<1> QED BY <1>5, <1>10, <1>11, <1>12

\* restore_cancel: the job settles, or goes on until its git is gone.
LEMMA RestoreCancelShows ==
    ASSUME Core, Core', SInv, NEW c \in Clients, RestoreCancel(c)
    PROVE  SInv'
<1>1. /\ srv[c].open /\ up[c] # <<>> /\ Head(up[c]).t = "cancel" /\ up'[c] = Tail(up[c])
      /\ \A v \in Clients \ {c} : up'[v] = up[v]
      /\ c \notin cut => Attends(ui[c], up[c], down[c], srv[c], Now)
  BY TakenFrom DEF RestoreCancel
<1>2. \A v \in Clients : ui[v] \in Screen /\ up[v] \in Seq(UpFrame) /\ down[v] \in Seq(DownFrame) /\ srv[v] \in Connection
  BY ViewerShape
<1>3. \A v \in Clients \ cut : Follows(ui[v], up'[v], down[v], srv[v], Now)
  <2> SUFFICES ASSUME NEW v \in Clients \ cut PROVE Follows(ui[v], up'[v], down[v], srv[v], Now)
    OBVIOUS
  <2>1. CASE v = c
    <3>1. Attends(ui[c], Tail(up[c]), down[c], srv[c], Now) BY <1>1, <1>2, <2>1, CancelTaken
    <3> QED BY <1>1, <2>1, <3>1, OpenOrSilent
  <2>2. CASE v # c BY <1>1, <2>2 DEF SInv
  <2> QED BY <2>1, <2>2
<1>4. CASE Running /\ Finish(current, "cancelled", disk)
  <2>1. current \in JobIds /\ jobs[current].state = "running" BY <1>4, NowTypes DEF Running
  <2>2. PICK i \in JobIds : i = current BY <2>1
  <2>3. "cancelled" \in Settled BY DEF Settled
  <2> QED BY <1>3, <1>4, <2>1, <2>2, <2>3, FinishShows
<1>5. CASE Running /\ jobs' = [jobs EXCEPT ![current].cancel = TRUE]
             /\ UNCHANGED <<current, handlers, ui, down, history>>
  <2>1. \A k \in JobIds : jobs'[k].state = jobs[k].state
    BY <1>5 DEF Core, TypeOK, RegistryTypes, Job
  <2>2. Now' = Now BY <1>5, <2>1, StatesNow
  <2> QED BY <1>3, <1>5, <2>2 DEF SInv, handlers, history
<1>6. CASE /\ ~Running
           /\ down' = IF current = 0 THEN down ELSE Answer(down, c, Complete(current, jobs[current].state))
           /\ UNCHANGED <<registry, handlers, ui, history>>
  <2>1. Now' = Now /\ UNCHANGED <<ui, srv, cut>>
    BY <1>6, RegistryNow DEF registry, handlers, history
  <2> SUFFICES ASSUME NEW v \in Clients \ cut PROVE Follows(ui[v], up'[v], down'[v], srv[v], Now)
    BY <2>1 DEF SInv
  <2>2. CASE current = 0 BY <1>3, <1>6, <2>2
  <2>3. CASE current # 0
    <3> DEFINE f == Complete(current, jobs[current].state)
    <3>1. current \in JobIds /\ current \in 0..MaxJobs /\ jobs[current].state \in States \cup {"none"}
      BY <2>3 DEF Core, TypeOK, RegistryTypes, JobIds, Job
    <3>2. f \in DownFrame /\ f.t = "complete" /\ f.job.state # "running"
      BY <1>6, <2>3, <3>1, FrameTypes DEF Complete, Running
    <3>3. down'[v] = IF v = c THEN Append(down[v], f) ELSE down[v]
      <4>1. down \in Queues(DownFrame) BY DEF Core, TypeOK, ViewerTypes, Queues
      <4> QED BY <1>1, <1>6, <2>3, <4>1, AnswerAt
    <3> HIDE DEF f
    <3>4. Follows(ui[v], up'[v], Append(down[v], f), srv[v], Now) BY <1>2, <1>3, <3>2, FollowsHears
    <3> QED BY <1>3, <3>3, <3>4
  <2> QED BY <2>2, <2>3
<1> QED BY <1>4, <1>5, <1>6 DEF RestoreCancel

\* session_new with a remote: the viewer waits for the clone it is told of.
LEMMA SessionNewClonesShows ==
    ASSUME Core, Core', SInv, NEW c \in Clients, SessionNewClones(c)
    PROVE  SInv'
<1> DEFINE s == [srv EXCEPT ![c].pend = TRUE]
           r == srv'[c]
<1>1. PICK o \in Outcomes("clone", TRUE) :
        /\ Request("clone", TRUE, o)
        /\ srv' = [srv EXCEPT ![c].pend = o \in {"joined", "started"}]
        /\ cut' = IF o = "unspawned" THEN cut \cup {c} ELSE cut
        /\ down' = CASE o = "refused" -> Answer(down, c, [t |-> "error"])
                     [] o \in {"joined", "started"} -> Answer(down, c, Started(current', "running"))
                     [] o = "unspawned" ->
                          Answer(Answer(Broadcast(down, s, Complete(current', "failed")),
                                        c, Started(current', "failed")), c, [t |-> "error"])
  BY DEF SessionNewClones
<1>2. ui' = ui /\ "clone" \in Kinds BY DEF SessionNewClones, Kinds
<1>3. /\ srv[c].open /\ up[c] # <<>> /\ Head(up[c]).t = "new" /\ up'[c] = Tail(up[c])
      /\ \A v \in Clients \ {c} : up'[v] = up[v]
      /\ c \notin cut => Attends(ui[c], up[c], down[c], srv[c], Now)
  BY TakenFrom DEF SessionNewClones
<1>4. o \in {"joined", "refused", "started", "unspawned"} BY <1>1, <1>2, RequestRegistry DEF Core
<1>5. /\ o \in {"joined", "refused"} => Now' = Now
      /\ o \in {"started", "unspawned"} => Now.state # "running"
      /\ o \in {"joined", "started"} => Now' = [id |-> current', state |-> "running"]
      /\ current' \in 0..MaxJobs
  BY <1>1, <1>2, RequestNow
<1>6. \A v \in Clients : ui[v] \in Screen /\ up[v] \in Seq(UpFrame) /\ down[v] \in Seq(DownFrame) /\ srv[v] \in Connection
  BY ViewerShape
<1>7. down \in Queues(DownFrame) /\ srv \in [Clients -> Connection]
  BY DEF Core, TypeOK, ViewerTypes, HandlerTypes, Queues, Connection
<1>8. /\ \A v \in Clients \ {c} : srv'[v] = srv[v]
      /\ r \in Connection /\ r.open = srv[c].open /\ r.seen = srv[c].seen
      /\ o \in {"joined", "started"} => r.pend
  <2>1. r \in Connection BY DEF Core, TypeOK, HandlerTypes, Connection
  <2> QED BY <1>1, <1>7, <2>1 DEF Connection
<1> SUFFICES ASSUME NEW v \in Clients \ cut, v # c \/ o # "unspawned"
             PROVE  Follows(ui[v], up'[v], down'[v], srv'[v], Now')
  BY <1>1, <1>2 DEF SInv
<1>9. Shows(v) BY DEF SInv, Shows
<1> HIDE DEF r
<1>10. v = c => \A m : Attends(ui[c], Tail(up[c]), down[c], r, m) BY <1>3, <1>6, <1>8, MoveTaken
<1>11. CASE v # c /\ o # "unspawned"
  <2>1. down'[v] = down[v] BY <1>1, <1>4, <1>7, <1>11, AnswerAt
  <2> QED BY <1>3, <1>4, <1>5, <1>8, <1>9, <1>11, <2>1, FollowsNext DEF Shows
<1>12. CASE v # c /\ o = "unspawned"
  <2> DEFINE told == Broadcast(down, s, Complete(current', "failed"))
             both == Answer(told, c, Started(current', "failed"))
  <2>0. s[v] = srv[v] BY <1>7, <1>12
  <2> HIDE DEF s
  <2>1. told[v] = IF Watches(srv[v]) THEN Append(down[v], Complete(current', "failed")) ELSE down[v]
    BY <2>0, BroadcastAt
  <2>2. /\ Complete(current', "failed") \in DownFrame /\ Started(current', "failed") \in DownFrame
    BY <1>5, FrameTypes DEF States
  <2>3. told \in Queues(DownFrame) BY <1>7, <2>2, SendTypes DEF Core, TypeOK
  <2>4. down' = Answer(both, c, [t |-> "error"]) BY <1>1, <1>12
  <2> HIDE DEF told
  <2>5. both \in Queues(DownFrame) /\ both[v] = told[v]
    BY <1>12, <2>2, <2>3, SendTypes, AnswerAt DEF Core, TypeOK
  <2> HIDE DEF both
  <2>6. down'[v] = told[v] BY <1>12, <2>4, <2>5, AnswerAt
  <2>7. "failed" \in Settled BY DEF Settled
  <2>8. Follows(ui[v], up[v], down'[v], srv[v], Now')
    BY <1>5, <1>6, <1>9, <2>1, <2>6, <2>7, EndHeard DEF Shows
  <2> QED BY <1>3, <1>8, <1>12, <2>8
<1>13. CASE v = c /\ o = "refused"
  <2>1. down'[c] = Append(down[c], [t |-> "error"])
    <3>1. down' = Answer(down, c, [t |-> "error"]) BY <1>1, <1>13
    <3>2. Answer(down, c, [t |-> "error"])[c] = Append(down[c], [t |-> "error"])
      BY <1>3, <1>7, ZenonT(30) DEF Answer, Queues
    <3> QED BY <3>1, <3>2
  <2>2. Follows(ui[c], up'[c], down[c], r, Now) BY <1>3, <1>8, <1>10, <1>13, OpenOrSilent
  <2>3. Follows(ui[c], up'[c], down'[c], r, Now) BY <1>6, <2>1, <2>2, ErrorHeard
  <2> QED BY <1>5, <1>13, <2>3 DEF r
<1>14. CASE v = c /\ o \in {"joined", "started"}
  <2> DEFINE f == Started(current', "running")
  <2>1. down'[c] = Append(down[c], f)
    <3>1. down' = Answer(down, c, f) BY <1>1, <1>14
    <3> HIDE DEF f
    <3>2. Answer(down, c, f)[c] = Append(down[c], f) BY <1>3, <1>7, ZenonT(30) DEF Answer, Queues
    <3> QED BY <3>1, <3>2
  <2>2. f \in DownFrame /\ f.t = "started" /\ f.job = Now' /\ f.job.state = "running"
    BY <1>5, <1>14, FrameTypes DEF Started, States
  <2> HIDE DEF f
  <2>3. Watches(r) BY <1>3, <1>8, <1>14 DEF Watches
  <2>4. \A x, e, t : MovesFirst(x, Tail(up[c]), e, t) BY <1>3, <1>6, <1>14, TailMovesOn DEF Attends
  <2>5. Tail(up[c]) \in Seq(UpFrame) BY <1>3, <1>6, TailShifts
  <2>6. Attends(ui[c], Tail(up[c]), down[c], r, Now') BY <1>10, <1>14
  <2>7. Attends(ui[c], Tail(up[c]), Append(down[c], f), r, Now')
    BY <1>6, <1>8, <2>2, <2>3, <2>4, <2>5, <2>6, CloneAnswered
  <2>8. Follows(ui[c], Tail(up[c]), Append(down[c], f), r, Now') BY <1>3, <1>8, <2>7, OpenOrSilent
  <2> QED BY <1>3, <1>14, <2>1, <2>8 DEF r
<1> QED BY <1>4, <1>11, <1>12, <1>13, <1>14

\* A connection that changes, and at most one answer to it.
LEMMA SessionNewCreatesShows ==
    ASSUME Core, Core', SInv, NEW c \in Clients, SessionNewCreates(c) \/ SessionLeave(c)
    PROVE  SInv'
<1> DEFINE r == srv'[c]
<1>1. /\ srv[c].open /\ up[c] # <<>> /\ Head(up[c]).t \in {"leave", "new"} /\ up'[c] = Tail(up[c])
      /\ \A v \in Clients \ {c} : up'[v] = up[v]
      /\ c \notin cut => Attends(ui[c], up[c], down[c], srv[c], Now)
  BY TakenFrom DEF SessionNewCreates, SessionLeave
<1>2. /\ UNCHANGED <<ui, down, cut>> /\ Now' = Now
  BY RegistryNow DEF SessionNewCreates, SessionLeave, registry, history
<1>3. srv \in [Clients -> Connection] BY DEF Core, TypeOK, HandlerTypes, Connection
<1>4. /\ \A v \in Clients \ {c} : srv'[v] = srv[v]
      /\ r.open = srv[c].open /\ r.seen = srv[c].seen
  <2>1. CASE SessionNewCreates(c) BY <1>3, <2>1 DEF SessionNewCreates, Connection
  <2>2. CASE SessionLeave(c) BY <1>3, <2>2 DEF SessionLeave, Connection
  <2> QED BY <2>1, <2>2
<1>5. r \in Connection BY DEF Core, TypeOK, HandlerTypes, Connection
<1> HIDE DEF r
<1> SUFFICES ASSUME NEW v \in Clients \ cut PROVE Shows(v)' BY <1>2 DEF SInv, Shows
<1>6. CASE v = c
  <2>1. Attends(ui[c], Tail(up[c]), down[c], r, Now)
    BY <1>1, <1>4, <1>5, <1>6, ViewerShape, MoveTaken
  <2> QED BY <1>1, <1>2, <1>4, <1>6, <2>1, OpenOrSilent DEF Shows, r
<1>7. CASE v # c BY <1>1, <1>2, <1>4, <1>7, UntouchedShows DEF SInv, Shows
<1> QED BY <1>6, <1>7

\* The stat of a load is under way.
LEMMA SessionLoadShows ==
    ASSUME Core, Core', SInv, NEW c \in Clients, SessionLoad(c)
    PROVE  SInv'
<1> DEFINE r == srv'[c]
<1>1. /\ srv[c].open /\ up[c] # <<>> /\ Head(up[c]).t = "load" /\ up'[c] = Tail(up[c])
      /\ \A v \in Clients \ {c} : up'[v] = up[v]
      /\ c \notin cut => Attends(ui[c], up[c], down[c], srv[c], Now)
  BY TakenFrom DEF SessionLoad
<1>2. UNCHANGED <<ui, down, cut>> /\ Now' = Now BY RegistryNow DEF SessionLoad, registry, history
<1>3. srv \in [Clients -> Connection] BY DEF Core, TypeOK, HandlerTypes, Connection
<1>4. /\ \A v \in Clients \ {c} : srv'[v] = srv[v]
      /\ r.open = srv[c].open /\ r.seen # "none"
  BY <1>3 DEF SessionLoad, Connection
<1>5. r \in Connection BY DEF Core, TypeOK, HandlerTypes, Connection
<1> HIDE DEF r
<1> SUFFICES ASSUME NEW v \in Clients \ cut PROVE Shows(v)' BY <1>2 DEF SInv, Shows
<1>6. CASE v = c
  <2>1. Attends(ui[c], Tail(up[c]), down[c], r, Now)
    BY <1>1, <1>4, <1>5, <1>6, ViewerShape, LoadTaken
  <2>2. Follows(ui[c], Tail(up[c]), down[c], r, Now) BY <1>1, <1>4, <2>1, OpenOrSilent
  <2> QED BY <1>1, <1>2, <1>6, <2>2 DEF Shows, r
<1>7. CASE v # c BY <1>1, <1>2, <1>4, <1>7, UntouchedShows DEF SInv, Shows
<1> QED BY <1>6, <1>7

\* The verdict comes with the job there, to a connection that has the folder.
LEMMA LoadPaintsShows ==
    ASSUME Core, Core', SInv, NEW c \in Clients, LoadPaints(c)
    PROVE  SInv'
<1> DEFINE missing == Missing(srv[c].seen)
           f == IF missing THEN [t |-> "missing", job |-> IF current = 0 THEN NoJob ELSE Snap(current)]
                ELSE [t |-> "created"]
           r == srv'[c]
<1>1. /\ srv[c].seen # "none"
      /\ srv' = [srv EXCEPT ![c] = [open |-> TRUE, seen |-> "none",
                                    lock |-> missing, attached |-> ~missing, pend |-> ~missing]]
      /\ down' = Answer(down, c, f)
  BY DEF LoadPaints
<1>2. UNCHANGED <<ui, up, cut>> /\ Now' = Now BY RegistryNow DEF LoadPaints, registry
<1>3. srv \in [Clients -> Connection] /\ down \in Queues(DownFrame)
  BY DEF Core, TypeOK, HandlerTypes, ViewerTypes, Connection, Queues
<1>4. /\ \A v \in Clients \ {c} : srv'[v] = srv[v]
      /\ r.open /\ (r.lock \/ r.attached)
  BY <1>1, <1>3
<1>5. r \in Connection BY DEF Core, TypeOK, HandlerTypes, Connection
<1>6. /\ f.t = "created" \/ (f.t = "missing" /\ (f.job.state = "running" => f.job = Now))
      /\ f \in DownFrame
  <2> DEFINE j == IF current = 0 THEN NoJob ELSE Snap(current)
  <2>1. j \in Snapshot
    BY ElsewhereTypes DEF Snap, Snapshot, Core, TypeOK, RegistryTypes, JobIds, Job
  <2>2. j.state = "running" => j = Now BY DEF Now, Running, Snap, NoJob
  <2> HIDE DEF j
  <2>3. [t |-> "missing", job |-> j] \in DownFrame /\ [t |-> "created"] \in DownFrame
    BY <2>1 DEF DownFrame
  <2>4. f = IF missing THEN [t |-> "missing", job |-> j] ELSE [t |-> "created"] BY DEF j
  <2> HIDE DEF f, missing
  <2>5. CASE missing BY <2>2, <2>3, <2>4, <2>5
  <2>6. CASE ~missing BY <2>3, <2>4, <2>6
  <2> QED BY <2>5, <2>6
<1> HIDE DEF r, f, missing
<1> SUFFICES ASSUME NEW v \in Clients \ cut PROVE Shows(v)' BY <1>2 DEF SInv, Shows
<1>7. CASE v = c
  <2>0. srv[c].open /\ Attends(ui[c], up[c], down[c], srv[c], Now)
    <3>1. Shows(c) BY <1>7 DEF SInv, Shows
    <3>2. srv[c].open BY <1>1, <3>1, OpenOrSilent DEF Shows, Silent
    <3> QED BY <3>1, <3>2, OpenOrSilent DEF Shows
  <2>1. Attends(ui[c], up[c], Append(down[c], f), r, Now)
    BY <1>1, <1>4, <1>5, <1>6, <2>0, ViewerShape, LoadPainted
  <2>2. Answer(down, c, f)[c] = Append(down[c], f) BY <1>3, <2>0, ZenonT(30) DEF Answer, Queues
  <2>3. Follows(ui[c], up[c], Append(down[c], f), r, Now) BY <1>4, <2>1, OpenOrSilent
  <2> QED BY <1>1, <1>2, <1>7, <2>2, <2>3 DEF Shows, r
<1>8. CASE v # c
  <2>1. down'[v] = down[v] BY <1>1, <1>3, <1>8, AnswerAt
  <2> QED BY <1>2, <1>4, <1>8, <2>1, UntouchedShows DEF SInv, Shows
<1> QED BY <1>7, <1>8

\* A session that was waited for exists, or its creation failed.
LEMMA SessionNewEndsShows ==
    ASSUME Core, Core', SInv, NEW w \in waits, SessionNewEnds(w)
    PROVE  SInv'
<1> DEFINE c == w.client
           r == srv'[c]
<1>1. c \in Clients BY DEF Core, TypeOK, HandlerTypes
<1>2. UNCHANGED <<ui, up, cut>> /\ Now' = Now BY RegistryNow DEF SessionNewEnds, registry, history
<1>3. srv \in [Clients -> Connection] /\ down \in Queues(DownFrame) /\ srv' \in [Clients -> Connection]
  BY DEF Core, TypeOK, HandlerTypes, ViewerTypes, Connection, Queues
<1> SUFFICES ASSUME NEW v \in Clients \ cut PROVE Shows(v)' BY <1>2 DEF SInv, Shows
<1>4. Shows(v) BY DEF SInv, Shows
<1>5. CASE UNCHANGED <<srv, down>> BY <1>2, <1>4, <1>5, UntouchedShows
<1>6. CASE /\ srv' = [srv EXCEPT ![c] = [@ EXCEPT !.attached = TRUE, !.pend = TRUE, !.lock = FALSE]]
           /\ down' = Answer(down, c, [t |-> "created"])
  <2> DEFINE f == [t |-> "created"]
  <2>1. f \in DownFrame /\ f.t = "created" BY FrameTypes
  <2>2. /\ \A x \in Clients \ {c} : srv'[x] = srv[x]
        /\ r.attached /\ r.open = srv[c].open /\ r.seen = srv[c].seen /\ r \in Connection
    BY <1>1, <1>3, <1>6 DEF Connection
  <2>3. down' = Answer(down, c, f) BY <1>6
  <2> HIDE DEF c, f, r
  <2>4. CASE v # c
    <3>1. down'[v] = down[v] BY <1>1, <1>3, <2>3, <2>4, AnswerAt
    <3> QED BY <1>2, <1>4, <2>2, <2>4, <3>1, UntouchedShows
  <2>5. CASE v = c /\ srv[c].open
    <3>1. Answer(down, c, f)[c] = Append(down[c], f)
      BY <1>1, <1>3, <2>5, ZenonT(30) DEF Answer, Queues
    <3>2. Attends(ui[c], up[c], down[c], srv[c], Now) BY <1>4, <2>5, OpenOrSilent DEF Shows
    <3>3. Attends(ui[c], up[c], Append(down[c], f), r, Now)
      BY <1>1, <2>1, <2>2, <3>2, ViewerShape, SessionCreated
    <3>4. Follows(ui[c], up[c], Append(down[c], f), r, Now) BY <2>2, <2>5, <3>3, OpenOrSilent
    <3> QED BY <1>2, <2>3, <2>5, <3>1, <3>4 DEF Shows, r
  <2>6. CASE v = c /\ ~srv[c].open
    <3>1. down' = down BY <2>3, <2>6 DEF Answer
    <3>2. Silent(ui[c], up[c], down[c], srv[c]) BY <1>4, <2>6, OpenOrSilent DEF Shows
    <3>3. Silent(ui[c], up[c], down[c], r) BY <2>2, <3>2 DEF Silent
    <3>4. Follows(ui[c], up[c], down[c], r, Now) BY <2>2, <2>6, <3>3, OpenOrSilent
    <3> QED BY <1>2, <2>6, <3>1, <3>4 DEF Shows, r
  <2> QED BY <2>4, <2>5, <2>6
<1>7. CASE down' = Answer(down, c, [t |-> "error"]) /\ UNCHANGED srv
  <2>0. down' = Answer(down, c, [t |-> "error"]) /\ srv' = srv BY <1>7
  <2> HIDE DEF c
  <2>1. CASE v = c /\ srv[c].open
    <3>1. down'[c] = Append(down[c], [t |-> "error"])
      BY <1>1, <1>3, <2>0, <2>1, ZenonT(30) DEF Answer, Queues
    <3>2. Follows(ui[c], up[c], Append(down[c], [t |-> "error"]), srv[c], Now)
      BY <1>1, <1>4, <2>1, ViewerShape, ErrorHeard DEF Shows
    <3> QED BY <1>2, <2>0, <2>1, <3>1, <3>2 DEF Shows
  <2>2. CASE ~(v = c /\ srv[c].open)
    <3>1. down'[v] = down[v] BY <1>1, <1>3, <2>0, <2>2, AnswerAt
    <3> QED BY <1>2, <1>4, <2>0, <3>1, UntouchedShows
  <2> QED BY <2>1, <2>2
<1> QED BY <1>5, <1>6, <1>7 DEF SessionNewEnds

\* A frame reaches the screen.
LEMMA ReceivesShows ==
    ASSUME Core, SInv, NEW c \in Clients, Receives(c)
    PROVE  SInv'
<1>1. UNCHANGED <<up, srv, cut>> /\ Now' = Now
  BY RegistryNow DEF Receives, registry, handlers, history
<1>2. /\ srv[c].open /\ down[c] # <<>>
      /\ ui'[c] = Shown(ui[c], Head(down[c])) /\ down'[c] = Tail(down[c])
      /\ \A v \in Clients \ {c} : ui'[v] = ui[v] /\ down'[v] = down[v]
  BY DEF Receives, Core, TypeOK, ViewerTypes
<1> SUFFICES ASSUME NEW v \in Clients \ cut PROVE Shows(v)' BY <1>1 DEF SInv, Shows
<1>3. Shows(v) BY DEF SInv, Shows
<1>4. CASE v = c
  <2>1. Attends(ui[c], up[c], down[c], srv[c], Now) BY <1>2, <1>3, <1>4, OpenOrSilent DEF Shows
  <2>2. Attends(Shown(ui[c], Head(down[c])), up[c], Tail(down[c]), srv[c], Now)
    BY <1>2, <2>1, ViewerShape, FrameReceived
  <2>3. Follows(Shown(ui[c], Head(down[c])), up[c], Tail(down[c]), srv[c], Now)
    BY <1>2, <2>2, OpenOrSilent
  <2> QED BY <1>1, <1>2, <1>4, <2>3 DEF Shows
<1>5. CASE v # c BY <1>1, <1>2, <1>3, <1>5, UntouchedShows
<1> QED BY <1>4, <1>5

\* A tap changes what one viewer has sent, and its screen.
LEMMA TapsShow ==
    ASSUME Core, SInv, NEW c \in Clients, NEW f, NEW STATE u, Taps(c, f, u),
           cut \subseteq cut',
           c \notin cut' /\ Attends(ui[c], up[c], down[c], srv[c], Now) =>
              Attends(u, Append(up[c], f), down[c], srv[c], Now)
    PROVE  SInv'
<1>1. UNCHANGED <<down, srv>> /\ Now' = Now /\ srv[c].open
  BY RegistryNow DEF Taps, registry, handlers
<1>2. /\ ui'[c] = u /\ up'[c] = Append(up[c], f)
      /\ \A v \in Clients \ {c} : ui'[v] = ui[v] /\ up'[v] = up[v]
  BY DEF Taps, Core, TypeOK, ViewerTypes
<1> SUFFICES ASSUME NEW v \in Clients, v \notin cut' PROVE Shows(v)' BY DEF SInv, Shows
<1>3. Shows(v) BY DEF SInv, Shows
<1>4. CASE v = c
  <2>1. Attends(ui[c], up[c], down[c], srv[c], Now) BY <1>1, <1>3, <1>4, OpenOrSilent DEF Shows
  <2>2. Attends(u, Append(up[c], f), down[c], srv[c], Now) BY <1>4, <2>1
  <2>3. Follows(u, Append(up[c], f), down[c], srv[c], Now) BY <1>1, <2>2, OpenOrSilent
  <2> QED BY <1>1, <1>2, <1>4, <2>3 DEF Shows
<1>5. CASE v # c BY <1>1, <1>2, <1>3, <1>5, UntouchedShows
<1> QED BY <1>4, <1>5

LEMMA OpensShows ==
    ASSUME Core, SInv, NEW c \in Clients, Opens(c)
    PROVE  SInv'
<1> DEFINE f == [t |-> "load"]
<1>1. Taps(c, f, Loading) /\ cut' = cut BY DEF Opens
<1>2. f \in UpFrame /\ f.t = "load" /\ Loading.view = "loading"
  BY ElsewhereTypes DEF UpFrame, Loading, Elsewhere
<1> HIDE DEF f
<1>3. Attends(ui[c], up[c], down[c], srv[c], Now) => Attends(Loading, Append(up[c], f), down[c], srv[c], Now)
  BY <1>2, ViewerShape, LoadSent
<1> QED BY <1>1, <1>3, TapsShow

\* Who moves on, and is followed, has nothing under way.
LEMMA MovedOn ==
    ASSUME Core, NEW c \in Clients, MovesOn(c), NEW f \in UpFrame, NEW v,
           \/ f.t = "leave" /\ v.view = "away"
           \/ f.t = "new" /\ v.view = "creating"
    PROVE  /\ cut \subseteq cut'
           /\ c \notin cut' /\ Attends(ui[c], up[c], down[c], srv[c], Now) =>
                Attends(v, Append(up[c], f), down[c], srv[c], Now)
<1>1. cut \subseteq cut' BY DEF MovesOn
<1> SUFFICES ASSUME c \notin cut', Attends(ui[c], up[c], down[c], srv[c], Now)
             PROVE  Attends(v, Append(up[c], f), down[c], srv[c], Now)
  BY <1>1
<1>2. up[c] = <<>> /\ srv[c].seen = "none" /\ ~Carries(down[c], {"missing", "started"})
  BY DEF MovesOn, Carries
<1>3. ProgressRuns(down[c]) BY DEF Attends
<1>4. Attends(v, Append(<<>>, f), down[c], srv[c], Now) BY <1>2, <1>3, ViewerShape, MoveSent
<1> QED BY <1>2, <1>4

LEMMA CreatesShows ==
    ASSUME Core, SInv, NEW c \in Clients, Creates(c)
    PROVE  SInv'
<1> DEFINE v == [Elsewhere EXCEPT !.view = "creating"]
<1>1. PICK clone \in BOOLEAN : Taps(c, [t |-> "new", clone |-> clone], v) BY DEF Creates
<1> DEFINE f == [t |-> "new", clone |-> clone]
<1>2. f \in UpFrame /\ f.t = "new" /\ v.view = "creating" BY ElsewhereTypes DEF UpFrame, Screen
<1>3. Taps(c, f, v) /\ MovesOn(c) BY <1>1 DEF Creates
<1> HIDE DEF f, v
<1>4. /\ cut \subseteq cut'
      /\ c \notin cut' /\ Attends(ui[c], up[c], down[c], srv[c], Now) =>
           Attends(v, Append(up[c], f), down[c], srv[c], Now)
  BY <1>2, <1>3, MovedOn
<1> QED BY <1>3, <1>4, TapsShow

LEMMA LeavesShows ==
    ASSUME Core, SInv, NEW c \in Clients, Leaves(c)
    PROVE  SInv'
<1> DEFINE f == [t |-> "leave"]
<1>1. Taps(c, f, Elsewhere) /\ MovesOn(c) BY DEF Leaves
<1>2. f \in UpFrame /\ f.t = "leave" /\ Elsewhere.view = "away" BY DEF UpFrame, Elsewhere
<1> HIDE DEF f
<1>3. /\ cut \subseteq cut'
      /\ c \notin cut' /\ Attends(ui[c], up[c], down[c], srv[c], Now) =>
           Attends(Elsewhere, Append(up[c], f), down[c], srv[c], Now)
  BY <1>1, <1>2, MovedOn
<1> QED BY <1>1, <1>3, TapsShow

LEMMA StartRestoreShows ==
    ASSUME Core, SInv, NEW c \in Clients, StartRestore(c)
    PROVE  SInv'
<1> DEFINE v == [ui[c] EXCEPT !.job = NoJob, !.asked = TRUE]
<1>1. PICK kind \in Kinds, ok \in BOOLEAN : Taps(c, [t |-> "start", kind |-> kind, ok |-> ok], v)
  BY DEF StartRestore
<1> DEFINE f == [t |-> "start", kind |-> kind, ok |-> ok]
<1>2. Panel(ui[c]) /\ cut' = cut /\ Taps(c, f, v) BY <1>1 DEF StartRestore
<1>3. f \in UpFrame /\ f.t = "start" BY DEF UpFrame
<1>4. v.view = "panel" /\ v.job = NoJob BY <1>2, ViewerShape DEF Screen, Panel
<1> HIDE DEF f, v
<1>5. Attends(ui[c], up[c], down[c], srv[c], Now) => Attends(v, Append(up[c], f), down[c], srv[c], Now)
  BY <1>2, <1>3, <1>4, ViewerShape, StartSent
<1> QED BY <1>2, <1>5, TapsShow

LEMMA CancelRestoreShows ==
    ASSUME Core, SInv, NEW c \in Clients, CancelRestore(c)
    PROVE  SInv'
<1> DEFINE f == [t |-> "cancel"]
<1>1. /\ Taps(c, f, ui[c]) /\ cut' = cut
      /\ (Panel(ui[c]) /\ ui[c].job.state = "running") \/ ui[c].view = "clone"
  BY DEF CancelRestore
<1>2. f \in UpFrame /\ f.t = "cancel" BY DEF UpFrame
<1> HIDE DEF f
<1>3. Attends(ui[c], up[c], down[c], srv[c], Now) => Attends(ui[c], Append(up[c], f), down[c], srv[c], Now)
  BY <1>1, <1>2, ViewerShape, CancelSent
<1> QED BY <1>1, <1>3, TapsShow

LEMMA CreateTimesOutShows ==
    ASSUME Core, SInv, NEW c \in Clients, CreateTimesOut(c)
    PROVE  SInv'
<1>1. UNCHANGED <<up, down, srv, cut>> /\ Now' = Now
  BY RegistryNow DEF CreateTimesOut, registry, handlers, history
<1>2. /\ ui[c].view = "creating" /\ ui'[c] = Elsewhere /\ Elsewhere.view = "away"
      /\ \A v \in Clients \ {c} : ui'[v] = ui[v]
  BY DEF CreateTimesOut, Core, TypeOK, ViewerTypes, Elsewhere
<1> SUFFICES ASSUME NEW v \in Clients \ cut PROVE Shows(v)' BY <1>1 DEF SInv, Shows
<1>3. Shows(v) BY DEF SInv, Shows
<1>4. CASE v = c
  <2>1. srv[c].open BY <1>2, <1>3, <1>4, OpenOrSilent DEF Shows, Silent
  <2>2. Attends(ui[c], up[c], down[c], srv[c], Now) BY <1>3, <1>4, <2>1, OpenOrSilent DEF Shows
  <2>3. Attends(Elsewhere, up[c], down[c], srv[c], Now) BY <1>2, <2>2, ViewerShape, CreationEnds
  <2>4. Follows(Elsewhere, up[c], down[c], srv[c], Now) BY <2>1, <2>3, OpenOrSilent
  <2> QED BY <1>1, <1>2, <1>4, <2>4 DEF Shows
<1>5. CASE v # c BY <1>1, <1>2, <1>3, <1>5, UntouchedShows
<1> QED BY <1>4, <1>5

LEMMA DropsShows ==
    ASSUME Core, SInv, NEW c \in Clients, Drops(c)
    PROVE  SInv'
<1>1. Now' = Now /\ cut \subseteq cut' /\ (ui[c].view = "clone" => c \in cut')
  BY RegistryNow DEF Drops, registry
<1>2. /\ up'[c] = <<>> /\ down'[c] = <<>> /\ srv[c].open /\ ~srv'[c].open /\ srv'[c].seen = "none"
      /\ ui'[c] = IF ui[c].view = "creating" THEN Elsewhere ELSE ui[c]
      /\ \A v \in Clients \ {c} : ui'[v] = ui[v] /\ up'[v] = up[v] /\ down'[v] = down[v] /\ srv'[v] = srv[v]
  BY DEF Drops, Core, TypeOK, HandlerTypes, ViewerTypes
<1> SUFFICES ASSUME NEW v \in Clients, v \notin cut' PROVE Shows(v)' BY DEF SInv, Shows
<1>3. Shows(v) BY <1>1 DEF SInv, Shows
<1>4. CASE v = c
  <2>1. Attends(ui[c], up[c], down[c], srv[c], Now) BY <1>2, <1>3, <1>4, OpenOrSilent DEF Shows
  <2>2. ui'[c].view \notin {"creating", "clone"} /\ (Panel(ui'[c]) /\ ui'[c].asked => ui'[c].job.state = "none")
    BY <1>1, <1>2, <1>4, <2>1 DEF Elsewhere, Panel, Attends, AskedIsAnswered
  <2>3. Silent(ui'[c], <<>>, <<>>, srv'[c]) BY <1>2, <2>2, SocketDrops
  <2>4. Follows(ui'[c], <<>>, <<>>, srv'[c], Now') BY <1>2, <2>3, OpenOrSilent
  <2> QED BY <1>2, <1>4, <2>4 DEF Shows
<1>5. CASE v # c BY <1>1, <1>2, <1>3, <1>5, UntouchedShows
<1> QED BY <1>4, <1>5

LEMMA ReconnectsShows ==
    ASSUME Core, Core', SInv, NEW c \in Clients, Reconnects(c)
    PROVE  SInv'
<1> DEFINE f == [t |-> "load"]
<1>1. UNCHANGED <<down, cut>> /\ Now' = Now /\ ~srv[c].open
  BY RegistryNow DEF Reconnects, registry, history
<1>2. /\ srv'[c].open /\ srv'[c].seen = srv[c].seen
      /\ \A v \in Clients \ {c} : ui'[v] = ui[v] /\ up'[v] = up[v] /\ srv'[v] = srv[v]
  BY DEF Reconnects, Core, TypeOK, HandlerTypes, ViewerTypes
<1>3. \/ up'[c] = Append(<<>>, f) /\ ui'[c] = ui[c]
      \/ /\ up'[c] = up[c] /\ ui[c].view \notin {"loading", "panel", "live"}
         /\ ui'[c] = ui[c] \/ ui'[c] = Elsewhere
  BY DEF Reconnects, Core, TypeOK, ViewerTypes
<1>4. f \in UpFrame /\ f.t = "load" BY DEF UpFrame
<1> HIDE DEF f
<1> SUFFICES ASSUME NEW v \in Clients \ cut PROVE Shows(v)' BY <1>1 DEF SInv, Shows
<1>5. Shows(v) BY DEF SInv, Shows
<1>6. CASE v = c
  <2>1. Silent(ui[c], up[c], down[c], srv[c]) BY <1>1, <1>5, <1>6, OpenOrSilent DEF Shows
  <2>2. \/ up'[c] = Append(<<>>, f) /\ ui'[c] = ui[c]
        \/ up'[c] = up[c] /\ ui'[c].view \notin {"panel", "clone", "creating"}
    BY <1>3, <2>1 DEF Silent, Elsewhere
  <2>3. srv'[c] \in Connection BY DEF Core, TypeOK, HandlerTypes, Connection
  <2>4. Attends(ui'[c], up'[c], down[c], srv'[c], Now)
    BY <1>2, <1>4, <2>1, <2>2, <2>3, ViewerShape, SocketReturns
  <2>5. Follows(ui'[c], up'[c], down[c], srv'[c], Now) BY <1>2, <2>4, OpenOrSilent
  <2> QED BY <1>1, <1>6, <2>5 DEF Shows
<1>7. CASE v # c BY <1>1, <1>2, <1>5, <1>7, UntouchedShows
<1> QED BY <1>6, <1>7

\* The listing and outsiders leave the viewers and the jobs alone.
LEMMA OutsideShows ==
    ASSUME SInv, UNCHANGED <<registry, handlers, viewers, cut>>
    PROVE  SInv'
<1>1. UNCHANGED <<ui, up, down, srv, cut>> /\ Now' = Now
  BY RegistryNow DEF registry, handlers, viewers
<1> QED BY <1>1, UntouchedShows DEF SInv, Shows

LEMMA SInvStep ==
    ASSUME Core, Core', SInv, [Next]_vars
    PROVE  SInv'
<1>1. ASSUME NEW i \in JobIds, JobNext(i) PROVE SInv' BY <1>1, JobShows
<1>2. ASSUME NEW c \in Clients, ServerNext(c) PROVE SInv'
  BY <1>2, RestoreStartShows, RestoreCancelShows, SessionNewClonesShows, SessionNewCreatesShows,
     SessionLoadShows, LoadPaintsShows DEF ServerNext
<1>3. ASSUME NEW c \in Clients, ClientNext(c) PROVE SInv'
  BY <1>3, ReceivesShows, OpensShows, CreatesShows, StartRestoreShows, CancelRestoreShows, LeavesShows,
     CreateTimesOutShows, DropsShows, ReconnectsShows DEF ClientNext
<1>4. ASSUME NEW w \in waits, SessionNewEnds(w) PROVE SInv' BY <1>4, SessionNewEndsShows
<1>5. CASE ScanStarts \/ ScanEnds \/ CacheExpires \/ OthersWrite \/ OthersRemove \/ UNCHANGED vars
  <2>1. UNCHANGED <<registry, handlers, viewers, cut>>
    BY <1>5 DEF ScanStarts, ScanEnds, CacheExpires, OthersWrite, OthersRemove, history, vars
  <2> QED BY <2>1, OutsideShows
<1> QED BY <1>1, <1>2, <1>3, <1>4, <1>5 DEF Next

LEMMA SInvInit ==
    ASSUME Init
    PROVE  SInv
<1> SUFFICES ASSUME NEW c \in Clients \ cut PROVE Follows(ui[c], up[c], down[c], srv[c], Now)
  BY Zenon DEF SInv
<1>1. PICK P \in SUBSET Clients :
        /\ srv = [x \in Clients |-> [open |-> TRUE, pend |-> FALSE, lock |-> x \in P, attached |-> FALSE, seen |-> "none"]]
        /\ ui = [x \in Clients |-> [Elsewhere EXCEPT !.view = IF x \in P THEN "panel" ELSE "away"]]
  BY DEF Init
<1>2. up[c] = <<>> /\ down[c] = <<>> BY DEF Init
<1>3. srv[c].open /\ srv[c].seen = "none" /\ (srv[c].lock <=> c \in P) BY <1>1
<1>4. /\ ui[c].view = IF c \in P THEN "panel" ELSE "away"
      /\ ui[c].job = NoJob /\ ui[c].asked = FALSE /\ NoJob.state = "none"
  BY <1>1 DEF Elsewhere, NoJob
<1>5. \A T : ~Carries(<<>>, T) BY DEF Carries
<1>6. MovesFirst(ui[c], <<>>, <<>>, srv[c]) /\ CreatesAlone(ui[c], <<>>, <<>>, srv[c])
  BY <1>4 DEF MovesFirst, CreatesAlone
<1>7. AskedIsAnswered(ui[c], <<>>, <<>>, srv[c]) /\ PanelIsWatched(ui[c], <<>>, <<>>, srv[c])
  BY <1>3, <1>4, <1>5 DEF AskedIsAnswered, PanelIsWatched, Panel
<1>8. ToldTruly(ui[c], <<>>, <<>>, srv[c], Now) BY <1>4 DEF ToldTruly, Claims, SaidLast
<1>9. ProgressRuns(<<>>) BY DEF ProgressRuns
<1> QED BY <1>2, <1>3, <1>6, <1>7, <1>8, <1>9, OpenOrSilent DEF Attends

--------------------
(* The theorem about the viewers. *)

\* No connected viewer goes on watching a restore that is not there, after a drop and
\* a rejoin, a cancel from another device, a retry or a refusal (the restore frames of
\* index.ts and what client.ts makes of them), outside the ways the model names.
THEOREM NobodyWatchesNothing == Spec => []NothingSpinsUnlessCut
<1>1. Init => SInv BY SInvInit
<1>2. IInv /\ IInv' /\ SInv /\ [Next]_vars => SInv'
  <2>1. IInv /\ IInv' => Core /\ Core' BY DEF IInv, Core
  <2> QED BY <2>1, SInvStep
<1>3. IInv /\ SInv => NothingSpinsUnlessCut
  <2> SUFFICES ASSUME IInv, SInv, NEW c \in Clients \ cut, srv[c].open, Spins(c), ~IsComing(c)
               PROVE  FALSE
    BY DEF NothingSpinsUnlessCut
  <2>1. Core BY DEF IInv, Core
  <2>2. up[c] = <<>> /\ down[c] = <<>> /\ srv[c].seen = "none" BY DEF IsComing
  <2>3. Attends(ui[c], up[c], down[c], srv[c], Now) BY OpenOrSilent DEF SInv
  <2>4. \A T : ~Carries(up[c], T) /\ ~Carries(down[c], T) BY <2>2 DEF Carries
  <2>5. ui[c].view \in {"panel", "clone"} /\ ui[c].job.state = "running"
    <3>1. ~(Panel(ui[c]) /\ ui[c].asked) BY <2>2, <2>3, <2>4 DEF Attends, AskedIsAnswered
    <3>2. ui[c].view = "clone" => ui[c].job.state = "running" BY <2>3 DEF Attends, CreatesAlone
    <3> QED BY <3>1, <3>2 DEF Spins, Panel
  <2>6. ui[c].job \in Claims(ui[c], down[c]) BY <2>4, <2>5 DEF Claims
  <2>7. ui[c].job = Now /\ Watches(srv[c])
    BY <2>2, <2>3, <2>4, <2>5, <2>6 DEF Attends, ToldTruly, NoLoad, Heard
  <2>8. Running /\ relay = TRUE /\ Now = Snap(current) BY <2>1, <2>5, <2>7, NowTypes DEF Now
  <2> QED BY <2>7, <2>8 DEF IsComing
<1>4. Spec => []SInv BY <1>1, <1>2, Invariance, PTL DEF Spec
<1> QED BY <1>3, <1>4, Invariance, PTL

========================================
