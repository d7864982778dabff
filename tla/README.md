# Verification of wherever

`wherever` lets a browser drive a `pi` coding agent, and hands a session back and
forth between the browser and a `pi` running in a terminal. This directory holds
TLA+ modules of its server, client and terminal-extension logic, the TLC
configurations that check them on small instances, and proofs checked by TLAPS.
`PROJECT.json` maps every definition to the lines it models, and lists the runs,
the mutants that show each property can fail, the findings, the hazards and the
theorems.

- [The system](#the-system)
- [Modelling conventions](#modelling-conventions)
- The modules: [SessionPool](#sessionpool), [ReplyRouting](#replyrouting),
  [Upload](#upload), [AssistantScheduler](#assistantscheduler),
  [FolderConflict](#folderconflict), [ClientSession](#clientsession),
  [CliBridge](#clibridge), [RestoreJobs](#restorejobs),
  [TelegramChannel](#telegramchannel)
- [Runs](#runs), with the bounds and the fairness
- [Findings](#findings) and [known races](#known-races)
- [Proofs](#proofs)
- [Not modelled](#not-modelled), and [what is left](#what-is-left)

## The system

The server is one Node process: one JavaScript thread, so a handler runs without
interruption up to its next `await`. Everything hard about it happens at those
awaits (building an agent takes seconds), between its sockets, or across its
restarts. The client and the extension are event loops of the same kind.

| Component | State it keeps | What is hard | Module |
|---|---|---|---|
| **Session pool** `server/src/session-pool.ts` | resident sessions (server agent or terminal bridge), viewers per entry, idle timers, pending builds, pinned files | a build, a reload and a registration all await, and each writes the map when it resumes; four paths tear one agent down | `SessionPool` |
| **Reply routing** `reply-routing.ts` | two queues of sends awaiting their user message, the current destination | must agree with a queue it cannot see (pi's), through aborts, cancels, deferred and handled sends | `ReplyRouting` |
| **Viewer connections** `index.ts` | per socket: the file it is attached to, what it paints, read-only and observer flags | a late attach after the viewer moved on; the folder's verdict goes stale | `FolderConflict` |
| **Terminal bridges** `index.ts`, `session-pool.ts` | per socket the file it registered | a close overtakes the registration's header read, or comes after the next socket's registration | `SessionPool`, `CliBridge` |
| **Heartbeat** `index.ts`, `client/src/client.ts` | missed pongs; the client's probe and backoff | a socket that is silent and not closed; timers that must each end one thing | `ClientSession` (client's half) |
| **Client session** `client.ts` | the session on screen, requests awaited, unconfirmed messages | replies to requests the user has left; a delivery confirmed once, across reconnects and page reloads | `ClientSession` |
| **Uploads** `upload-staging.ts`, `upload-gate.ts`, `client.ts` | partial file and sidecar per upload id, a serial queue per id | chunks lost or repeated around a reconnect; a crash between two file operations | `Upload`, `AtomicUpload` |
| **Restore jobs** `restore-jobs.ts` | one job per target path, its observers | two starts for one path; cancel against finish; a folder half cloned is already there | `RestoreJobs` |
| **Assistant** `assistant-controller.ts`, `assistant-scheduler.ts` | pointer to the current session, pending inline jobs, run log | "idle" must be decided before an await and still be true after it; catch-up after a restart | `AssistantScheduler` |
| **CLI requests, bridge extension** `cli-requests.ts`, `extension/src/*.ts` | pending requests by id, cached info, the hint latch | answer, timeout and disconnect race for one request; a push overtakes a refresh | `CliBridge` |
| **Frame chunks, delta coalescing** `frame-chunks.ts`, `delta-coalescer.ts` | partly received frames; buffered deltas | order between buffered and direct frames | none |
| **Telegram** `telegram-*.ts` | update offset, pairing, albums being gathered, the inbound and the reply chain, one stream per message | updates come at least once, and some wait in memory; text grows while a call that shows it is answered, or fails after it took effect | `TelegramChannel`, `TelegramReplies` |
| **Web push, drafts, stars** | small files | expiry while a send is under way; two devices | none |
| **On-device cache** `web/src/lib/core/*` | cached conversations | a stale paint must never win over the server's answer | none (the client's rules: `ClientSession`) |
| **Speech** `core/speak.ts`, `hands-free.ts`, `conversation-mode-hint.ts` | utterance queue, hint latch | the latch is consumed by whichever turn starts next | the latch: `CliBridge` |

The other components (HTTP downloads, static files, the command line, the
extension for VS Code, the site, deployment) are I/O or presentation; the list in
`PROJECT.json` says so for each.

How they interact. A viewer's socket calls the pool through the handlers of
`index.ts`; the pool calls back through the event listeners those handlers
subscribe, and `index.ts` fans events out to the viewers an entry counts. A
terminal's socket registers a *bridge* entry, which takes the file over from the
server's agent; its close hands the file back. The assistant's controller and
scheduler call the pool as a client with no viewer. The reply routing sits inside
a server entry and sees its sends and its agent's events. A restore job is started
by one viewer's handler, awaited by another's `session_new`, watched by whoever has
the folder on screen and by the listing. A restart loses all of that except the
files on disk (sessions, upload staging, run log, subscriptions).

How the modules divide it. Each takes one protocol whole, both ends of it where it
has two, and abstracts its neighbours to what it sees of them: `FolderConflict`
and `ClientSession` see an agent's build as a step that ends or fails, which
`SessionPool` takes apart; `SessionPool` sees a bridge socket register and close,
which `CliBridge` takes apart; `AssistantScheduler` sees sends and settles, whose
matching `ReplyRouting` takes apart.

## Modelling conventions

An action is the code between two awaits. A handler that awaits is several
actions, and what it remembers across the await is part of the state (`builds`,
`reloads`, `ops`, `waits`, the `reading` state of a socket). Promise continuations
run before the next event: `SessionPool` keeps them in `resumed`, `CliBridge` in
`resolved`, and every other action waits until they have run. Identities that the
code compares by reference (entries, agents, sockets) are model values or numbers
that are never reused. Payloads, wire formats and logs are left out; texts are kept
where the code compares them (`ClientSession`).

Where the code has a race that breaks what it promises, the module records it in a
history variable at the very step where the race bites (`raced`, `ghost`, `mark`,
`misapplied`, ...). The properties named `...UnlessRaced` and the like then say that
*nothing else* breaks the promise. A history variable is never read by a guard, and
it is sticky: once the race has happened its exception holds for the rest of the
behaviour, so such a property speaks of all behaviours up to the first race. What
each one excepts is listed under [known races](#known-races).

## SessionPool

`SessionPool.tla` models `session-pool.ts` and the handlers of `index.ts` that
drive it.

| Variable | Code |
|---|---|
| `sessions` | `SessionPool.sessions`; `id` is the identity of the tracked object, `busy` is `promptsInFlight` plus a running shell command, `clients` the entry's viewers |
| `timers` | `idleTimeout` of every entry, with the entry it was armed for |
| `agents`, `turning` | the `AgentSession` objects the server built, and those in a turn |
| `builds`, `resumed` | `pendingSessions` with who awaits each, and the continuations of a finished build |
| `reloads` | `runReload` calls past their first await |
| `conns` | bridge sockets: `new`, `reading` (header read awaited), `orphaned` (closed meanwhile), `open`, `closing` (closed by the server), `closed` |
| `reads` | `session_load` handlers that await `readSessionMeta`, with the residency it found |
| `at`, `painted`, `gone` | `WSClient.sessionId`, `paintedSessionFile`, sockets that closed |
| `pinned` | `pinnedSessions` |
| `bridge`, `raced`, `tornTwice`, `ghosts` | history only |

Actions, by the code they follow: `LoadStart` (`session_load` up to its first await),
`ReadFails`, `OpenWarm`, `OpenCold`, `OpenLocked` (what follows it: nothing, the warm
attach, the cold build, a missing folder), `Leave`, `ViewerGone`
(`session_leave`, `ws.close` of a viewer), `LoadUnviewed`
(`loadSession` from the assistant), `BuildDone`, `BuildFailed`, `Resume`
(`loadSession` and its callers), `RegisterResident`, `RegisterCold`, `HeaderRead`,
`RegisterRefused`, `BridgeClosed`, `CliAgentStart`, `CliAgentEnd`
(`registerCliSession`, `unregisterCliSession`, `handleCliEvent`), `AgentStart`,
`AgentEnd`, `Send`, `SendReturns`, `ReloadStart`, `ReloadDone`, `ReloadFailed`
(`sendUserMessage`, `reloadSession`, `runReload`), `IdleTimeout`, `DeleteSession`,
`PinSession`, `UnpinSession`.

Properties:

- `OneDriverUnlessRaced`: the agent of the server and the terminal never both
  drive one file. `NoLeakUnlessRaced`: a live agent is the one its file's entry
  names, so somebody will shut it down.
- `ShutDownOnce`: delete, idle eviction, takeover and reload can all reach for
  one agent, and exactly one of them gets it.
- `EntryIsUsable`: a rebuild runs with nothing under way on the entry
  (`ReloadIsExclusive`), and an entry outside a rebuild has a live agent
  (`EntryHasAgent`), so whoever finds one may use it.
- `EntryIsTrueUnlessRaced`: what an entry says is there is there. A bridge entry
  stands for an open socket, an entry counts only the viewers it has, and no idle
  timer runs under a viewer or outlives its entry. A viewer whose socket closed while
  its warm load read the metadata is counted for good: `ghosts` names those;
  `GoneIsReleased`, which does not, is not kept by the code (known races).

## ReplyRouting

`ReplyRouting.tla` models `reply-routing.ts` as `sendUserMessage` and `routeEvent`
feed it. pi is a library: the queues it delivers from (`starting`, `steering`,
`following`) are the environment, modelled from what the pool relies on (external
entries of the map). Two assumptions about pi are constants: `QueuesInOrder`
(sends of one mode leave pi's input handlers in the order they were made) and
`DeferredInTime` (pi answers what it deferred at one settle before the next).
With both, `Attributed` holds: what the agent says goes back to the origin of the
message it answers. Without either it does not, and the code does not establish
either.

`MirrorsPi` says why it holds: the entries pi is known to have are pi's queues in
pi's order, a settle or a cancel never takes the entry of a send pi has not
answered, and an entry whose message will never come is a deferred one. Both are
proved for any set of sends (`ReplyRoutingProofs`). The state `relayed` belongs to
terminal sessions, whose queues the server cannot see, and is left out.

## Upload

`Upload.tla` follows one resumable upload through the three files that share it:
the page's `PendingUpload` (`client.ts`), the handlers of `index.ts`, and
`upload-staging.ts` with its directory. `AtomicUpload.tla` says what the page is
promised: the file arrives whole and at once, stays, and is reported done only
then. `Upload` implements it (`KeepsPromise`, with `arrived <- side.done`).

| Variable | Code |
|---|---|
| `page` | `PendingUpload`: `phase` folds `state`, `awaitingBegin`, `finishing` and "on the wire"; `reading` is `reading` plus whether `readGen` has moved on |
| `sock`, `alive`, `up`, `down` | the page's socket, the sockets the server still reads, the frames on each, the answers on the page's |
| `op` | the operation under way on the id (`UploadStaging.queues`), one step per file operation |
| `partial`, `side`, `saved` | the partial file, the sidecar (`savedPath`, `done`), the files in the target folder |
| `fresh`, `gc` | whether the staged files were touched within 24 hours; the collector between its scan and its removals |

The bytes of the file are numbered, so a byte lost, repeated or misplaced shows.
A socket the page has lost goes on delivering for a while: the server evicts it
when the page comes back (`sendThenTerminate`), so frames of the previous socket
are handled after the begin of the new one. The order of the frames of one socket
is kept, and operations on the id run one at a time.

What is abstracted: capabilities, holding an upload until the session is rejoined
and the rejoin are one step with the begin (`Connect`); the write gate is a refusal
that may always come; the size of a chunk is any that fits; the 24 hours are a flag.
The legacy base64 frame and the upload over HTTP are not modelled.

- `WholeAndOnce`: what the sidecar or the page calls done is the file, byte for
  byte (`DoneIsWhole`), whether or not the collector came by, unless it came by after
  a copy that was cut short (known races); and one upload makes one file, although
  `finish` may run again after a crash or a lost answer (`SavedOnce`), unless its
  record was collected.
- `PageAndStagingAgree`: the progress shown is never ahead of what the server has, but
  by what one short write left out (`AckedIsStaged`), and the staging never gives one
  of the answers its author keeps for a client bug ("Upload incomplete", "Unknown
  upload", ...), so the decision written at `finish` (refuse instead of realigning)
  hits a conforming page whose files were not collected only after a short write
  (`NeverConfused`). `writeChunk` does not look at `bytesWritten`, so a write that
  comes back short is acknowledged whole; `missed` is the most one left out. The next
  chunk realigns the page, unless there is none: then the finish
  fails, and `FinishFindsAll` is not kept by the code (known races).
- `KeepsPromise`, the refinement of `AtomicUpload`.
- `UploadEnds`: every upload ends, as done, failed or aborted.

## AssistantScheduler

`AssistantScheduler.tla` models `assistant-scheduler.ts` with `planJob`, the
operations of the controller it uses, and the sessions it sends to as far as the
pool's events and `isIdle` show them.

| Variable | Code |
|---|---|
| `schedule`, `log`, `cur` | `schedule.json`, the run log, the controller's pointer: what survives a crash. An entry of the log has a `place`: in the `file`, only in `memory` (its append failed), or `lost` by a restart since |
| `read`, `seen`, `pending` | `lastRead`, `seen`, `pendingInline` |
| `drain` | `draining` while it awaits `ensureCurrent`, with the head it took before |
| `starting` | `startingIsolated` |
| `marks` | `runs`: `sent` (our send, not started), `expired` (older than a minute), `started` |
| `sends` | sends from `controller.send` on: loading the session, in pi's preflight, running |
| `pi` | per session whether it is a server's agent or a terminal (`oldcli`: one without `agent_settled`), its run (`ended` is between `agent_end` and `agent_settled`) and queue |
| `told`, `raced`, `lost` | history only |

The controller works through its calls in turn, so a drain is answered once an
earlier send has loaded its session (`Answers`); a reset that was queued in between
moves the pointer under a send. An occurrence is an instant of a small set: cron
expressions, time zones and the file's parsing are abstracted to it. What the server
knows of a job's runs (`Known`) are the entries that are not lost; a line that a half
written one before it spoils counts as never appended, and the file is assumed to be
readable when the server starts.

- `RunsOnceAndAlone`: an occurrence is decided (fired, refused or skipped) once,
  whatever ticks, edits and restarts come, but after a restart one whose run the file
  misses (`FiredOnceUnlessRaced`; `NeverFiredTwice`, without the exception, is
  not kept by the code: known races); and no exchange is given two runs of jobs (`OneJobAtATime`), which sets aside that somebody comes
  between a job's dispatch and its delivery, that its mark is forgotten meanwhile, or
  that a late answer of a run cut off before takes it.
  `JobsNeverMerge` is the latter without the exception (see findings).
- `JobsAreServed`: an inline job that waits is sent, dropped or failed in the end, as
  long as no run of the current session ended without the scheduler hearing of it
  (`lost`: a terminal that leaves in its run, an agent taken over in its own).

A crash between the log entry and the prompt loses that run, which is then not sent
again; the code decides so (the entry is written at dispatch) and no property
forbids it.

## FolderConflict

`FolderConflict.tla` models the viewers' handlers in `index.ts` that decide who may
write in a working folder two sessions share: `session_load`, `session_new`,
`session_leave`, `folder_conflict_continue`, the close and the retirement of a
socket, `/session/delete` and `/session/destroy`, and the conflict broadcast; with
what `client.ts` keeps of the verdict on the screen.

| Variable | Code |
|---|---|
| `resident`, `clients` | the pool's entries and the viewers each counts (`TrackedSession.clients`) |
| `exists`, `gone`, `usable` | session files on disk, those deleted (a new session never takes the name of one); folders that exist and are not being restored |
| `client` | the `WSClient` of a viewer: `at` is `sessionId`, `painted` is `paintedSessionFile`, `pending` is `pendingFolder`, `missing` is the folder it found missing, then `readOnly`, `observer` and `continued` |
| `open` | sockets that have not closed |
| `screen` | the client's store: the file on screen, the one asked for (`want`), composer lock, banner, whether the banner was dismissed |
| `ops` | handlers at an await: `meta` (transcript read), `build` (agent), `create` |
| `owed` | a throttled `sessions_updated`, with its verdicts, is still to be sent |
| `ghost`, `silent`, `overtaken` | history only |

`Join`, `Switch`, `New`, `Leave` and `Continue` are the synchronous halves of the
handlers with what the client does before it sends; `Paint`, `Attach`, `BuildFails`
and `Created` what follows their awaits; `Evict`, `Remove`, `Close` and
`FolderChanges` come from elsewhere. Agents and terminals are left to `SessionPool`,
and a frame reaches the screen at once (`ClientSession` has the frames on their
way).

- `ScreenIsTrue`: the lock of an observer has a second viewer as its reason, the
  banner is the state of the folder, and the composer is locked exactly when the
  server would refuse the message, once the throttled broadcast has gone out.
- `VerdictStands`: a click on "Continue anyway" counts wherever it lands (before the
  paint, during the build, after the attach), and never lifts a read-only rule or a
  missing folder's lock.
- `NoPhantomUnlessGhost`: whoever an entry counts is connected and attached to it.
- `NeverDraggedBack`: however slow a build was, its late attach never takes the
  socket away from what was painted since.

Stated in the module, and not kept by the code: `OpensAsObserver`,
`LeavingDetaches`, `NeverASecondViewer` (see known races).

## ClientSession

`ClientSession.tla` models one viewer's `client.ts` over sockets that fail, with the
server's end of the socket as `handleWSMessage` has it.

| Variable | Code |
|---|---|
| `c` | the client: socket, reconnect and liveness timers, the store's session fields (`shown`, `building`, `loading`, `resyncing`, `creating`), the request that is awaited (`pending`), queued without a socket (`queued`), or abandoned, and the load and create watchdogs |
| `view`, `timers`, `saved` | the user's bubbles, `confirmTimers`, the unconfirmed messages in `localStorage` |
| `live`, `up`, `down` | whether the path of the socket still carries frames, and the frames on it |
| `srv`, `log` | `WSClient`, requests at an await and builds; what each session accepted |
| `home`, `want`, `dropped`, `mark` | history: where a message was written, what was asked for last, what the user discarded, which known races happened |

`User` is what a person does (`Joins`, `Switches`, `Creates`, `Leaves`, `Submits`,
`Resends`, `Discards`); `Failure` what happens to the connection and the page
(`Closes`, `GoesSilent`, `BecomesVisible`, `HandshakeStalls`, `Suspends`,
`ReloadsPage`); `Network` the frames at both ends (`Opens`, `Reads`, `ServerReads`,
`ServerFinishes`, `ServerBuilds`); `Timer` the client's timers (`RetryFires`,
`Ticks`, `ProbeExpires`, `LoadExpires`, `CreateExpires`, `ConfirmExpires`). A socket
that is half-open is neither closed nor alive: what is written to it is lost and
nobody is told. A request that awaits at the server may be answered after a later
one.

- `NothingIsStuck`: a spinner that blocks the user, a message being sent and a client
  without a socket each have a timer behind them, through requests that are queued,
  replayed, superseded or cancelled.
- `MessagesAreKeptUnlessRaced`: what the client took and the server did not get is
  offered again, in the session it was written in, through reconnects and page
  reloads; and a bubble without a mark was accepted.
- `LatestTapWinsUnlessRaced`: whatever replies are still on their way, over whichever
  socket, what comes on screen is what the user asked for last.
- `QuietAgreesUnlessRaced`: once nothing is on its way, the server is attached to the
  session on screen.

Abstracted: a session's file and its id are one name; the content of messages
(deltas, tool cards), queued and steering messages, search and settings are left
out; reconnect delays are a timer that may fire at any time.

## CliBridge

`CliBridge.tla` models the extension in the terminal's pi (`extension/src/index.ts`,
`bridge-requests.ts`, `conversation-mode-hint.ts`), the `cli_*` handlers of
`index.ts` with `cli-requests.ts`, and the bridge half of `session-pool.ts`.

| Variable | Code |
|---|---|
| `file`, `sock`, `opened`, `pendingIsNew` | the session the terminal shows, its socket, and the claim its next register carries |
| `pending`, `resolved` | bridge requests awaiting an answer, and the continuations of answered refreshes |
| `info`, `generation` | the cached `assistant_info` and the pushes seen |
| `armed`, `prompts`, `turn`, `fresh` | the hint latch, prompts given to pi, pi's turn, sessions without messages |
| `conns`, `entry`, `zone`, `answers`, `created` | the server: its bridge sockets, the pool's entry of each file, its own `assistant_info`, answers computed and not sent, calls of the session-created callback |
| `up`, `down` | the frames on each socket, and those on their way to the terminal |
| `starts`, `misapplied`, `overlap`, `lost` | history only |

The server handles the frames of a socket without waiting for the handler of the
frame before, so a registration that reads the session's header is overtaken by the
frames behind it (`Register`, `RegisterEnds`). Sockets drop with a tail of what was
sent, the server restarts with another configuration, the terminal changes its
session, requests time out, viewers relay messages (`Relays`) and people type
(`Types`). pi is external.

- `EndsAgreeUnlessMisapplied`: once nothing is on its way, the terminal's cached
  `assistant_info` is what the server would answer (or "unsupported", after a
  timeout), and the server believes pi busy exactly when it is.
- `CreatedOncePerStart`: the session-created callback, which moves the assistant's
  pointer, fires at most once per start of an empty session, however often the
  bridge reconnects.
- `SpokenAsAskedUnlessOverlap`: a turn is spoken exactly when the message that
  started it asked for it.

Stated, and not kept: `AckedIsTaken`.

## RestoreJobs

`RestoreJobs.tla` models one missing working folder and everything keyed by its
path: `restore-jobs.ts`, the handlers that use it (`restore_start`,
`restore_cancel`, `session_new`, `session_load`, `session_leave`), the listing's
existence cache, and what `client.ts` shows.

| Variable | Code |
|---|---|
| `jobs`, `current`, `nextId` | every job as the closures of its child see it, the one registered at the path, the ids |
| `relay`, `listing` | `restoreObservers` and `folderExistenceObservers` hold the path |
| `srv`, `waits` | each connection (`pend`, `lock`, `attached`, the stat of a load under way), and `session_new` handlers that have not answered |
| `disk` | the folder: is it there, and does it hold part of a clone, a whole tree, something of others |
| `scan`, `cache` | a stat of the listing in flight, and the cached existence |
| `ui`, `up`, `down` | the viewers and their frames |
| `restored`, `late`, `cut`, `raced` | history only |

A job's own steps are `Tick` (a folder is made on the next tick), `GitWrites`,
`GitExits`, `Close`, `SpawnErrors`, `Progress` and `Reap`. git is external: it may
fail, tidies up unless it is killed outright, and refuses a folder that is not
empty.

- `OneObservedGit`: at most one git is alive in the folder, and it belongs to the job
  that is registered and runs, whatever was cancelled, retried or forgotten
  (`OneGitAtATime`); both observers are there exactly while such a job runs
  (`ObservedWhileRunning`).
- `NothingSpinsUnlessCut`: a connected viewer never waits for a job whose end it will
  not be told.
- `RestoredIsNotMarked`: a folder just restored is not listed as missing.
- `AgentHasFolderUnlessRaced`: no agent is handed out in a folder that is missing,
  being cloned or half cloned.

Stated, and not kept: `NothingSpins`. Abstracted: the text of progress and failures,
the remote's probe (it may or may not find one), `dispose`. The sessions of the
folder are cold: a warm one keeps its agent whatever becomes of the folder.

## TelegramChannel

`TelegramChannel.tla` models `telegram-channel.ts` with `telegram-pairing.ts`, and
extends `TelegramReplies.tla`, which models `telegram-replies.ts`. The Bot API is
external: it keeps the updates it was not asked to forget, shows one draft below the
chat, and may fail a call before or after it took effect.

| Variable | Code |
|---|---|
| `sent`, `confirmed` | the updates the Bot API holds; those below `confirmed` are forgotten |
| `life`, `loop` | `started`/`abort`/`ctx`, and the poll loop: where it is, the update it is at, `offset` |
| `owner`, `code`, `disk` | the pairing in force, its one-time code; the pairing file and the offset file |
| `group` | `groups`: one album, since a part of another album flushes it first |
| `inbound`, `asking` | the chain of `serial`, and how far its head has got (files, assistant, command) |
| `speech`, `streams`, `listed` | the assistant's message under way, the `Stream` of each, and which one is in the map |
| `chain`, `doing` | the chain of `enqueue`, and the call under way with what comes after it |
| `support`, `chat`, `draft` | `draftSupport`; what the user sees |
| `forwarded`, `taken`, `answered`, `risked`, `said`, `seen`, `cut` | history only |

Inbound: `Poll`, `TokenRejected`, `HandleOther`, `HandlePair`, `PairingAnswered`,
`HandlePart`, `HandleMessage`, `WriteOffset` (`run`, `handle`), `GroupTimer`
(`gather`), `ConverseStarts`, `FilesFetched`, `Dispatched` (`converse`), `Repair`,
`Stop`, `LoopEnds`, `Restart`. Replies: `MessageUpdate`, `MessageEnd`, `ToolStarts`,
`TurnEnds`, `FileAttached` (`handle` of the pool's events), `ThrottleEnds`, `Starts`
(an operation of the chain up to its call), `Answered` and `Fails` (after it).

- `NothingLostUnlessRisked`: a message of the paired user is with the assistant, or
  answered, or in memory, or Telegram will send it again, whatever crashes, stops,
  re-pairings and failing writes come. Set aside (`risked`) is what the code keeps in
  memory only (known races).
- `HeardInOrder`: the assistant gets messages and albums in the order they were sent,
  although an album waits for its last part; and it hears a message again only if a
  crash, or a write of the offset that failed, let Telegram repeat it. What comes again
  may come out of order: it was heard before, or it was answered, or passed over while
  its sender was not paired (`passed`, history), and a crash brings it back after its
  sender has been.
- `SaidOnceUnlessCut`: what the assistant writes is in the chat once, whole and in
  order, no draft is left standing, and an aborted message keeps what the user saw of
  it: through drafts that are refused in the middle, edits, tools that close a draft,
  throttled previews and messages split at the limit.

Abstracted: a text is an interval of pieces (a limit of `Limit` pieces stands for
Telegram's length), a file or a tool's line is one message; the wording, the download
of a file (it is there, refused, or fails), notifications and reports of dropped
messages (each one message outside the chain's order), and a user id set in the
configuration, which makes `repair` and the pairing void.

## Runs

| Run | Instance | Shows |
|---|---|---|
| `SessionPool` | 1 file, 1 viewer, 2 sockets, 3 agents, `MaxBusy` 1, `MaxWaiters` 2, `MaxReads` 1 | one driver, ownership of agents, reloads, and that entries tell the truth about terminals, viewers and timers |
| `ReplyRouting` | 4 sends, both assumptions on pi | attribution and why it holds |
| `Upload` | 3 bytes in chunks of 1 or 2, 2 chunks in flight, 2 sockets, 1 crash, 1 failing file operation, one day's pause | the promise, wholeness with and without the collector, progress, one file, the upload ends |
| `AssistantScheduler` | 4 jobs (a recurring inline one with two instants, perhaps disabled at first, an inline, an isolated and a refused one), 2 sessions, no grace, 1 event from outside, 1 run of the one-shot that the log file misses | decided once, one job at a time, every job served |
| `FolderConflict` | 2 old files and a fresh one in 2 folders (one under a read-only rule), 2 viewers, 4 events | locks, banners and counted viewers agree |
| `client_session` | 2 old and 2 fresh sessions, 2 messages of different texts, 4 events | the latest tap, watchdogs, messages, agreement |
| `CliBridge` | 2 sessions, 2 values of the info, 2 sockets, 4 events | info, busy flag, callback and latch agree |
| `restore_jobs` | 2 viewers, 2 jobs, 3 events, any number of viewers already in front of the missing folder | one git, observers, spinners, the listing, whole folders |
| `telegram` | 3 updates of texts, commands, pairings and 2 albums by 2 users, or 1 and 4 events of the assistant; 2 messages of up to 3 pieces, 2 to a Telegram message; 1 failing call, 1 failing write, 2 starts, 2 codes | what either side says reaches the other, once and in order |
| `SessionPoolNeverTwoDrivers`, `AssistantSchedulerMerges`, `client_session_repeat` (violations) | 2 viewers and 2 agents; 2 inline jobs and no event; 2 messages of one text | the findings |

### Bounds

*SessionPool.* Every race of the pool is between at most one build, one reload, two
sockets and the viewers of one file: the second socket is the reconnect of the
first terminal, the second agent is the one that replaces the first. Agents are
not reused, so an instance ends after `Agent` builds; two suffice for a build over
a build (through a handback), and the third is for a build beside a rebuild that
began before its file was closed. One load reads the metadata at a time (`MaxReads`)
while an earlier one may be building: every read multiplies the states, and two reads
at once concern the viewer, not the pool. Files share state only through a viewer that
moves between them, and `FolderConflict` has overlapping loads of two viewers over three
files for that. `MaxBusy` bounds the sends in flight on an entry, `MaxWaiters` the callers of
one build; the code bounds neither. Two waiters are a viewer's load and a handback
on one build. *ReplyRouting.* Four sends are a prompt, a queued one, one in flight
and a deferred one at once.

*Upload.* Three bytes give windows of one and two chunks in every split, a mismatch
with an answer still in flight, and a resume in the middle. Two sockets are a first
connection and the one after it was lost or the server crashed, both alive for a
while; the eviction of a connection ends the one before, so no third is ever alive
with them. `UploadEnds` and the refinement need no more than one crash: a second
finds the same files. One day's pause lets the collector run once over a partial, a
sidecar or both; a day passes only while nothing of the upload is under way. Since a
collected upload is unknown by design, `KeepsPromise` allows the file to be given up
then (`Forget` of `AtomicUpload`).

*AssistantScheduler.* One event from outside (`MaxEvents`: a message, a terminal that
comes or goes, a reset, an edit, a crash) at any point of the way of three inline
occurrences; two instants with no grace make a late tick skip one. `MaxUnwritten` is per
job how many runs the file misses (an isolated job's two entries are written in one step
and may both be missed). The one-shot inline job's may be, so that a crash, which is the
one event, makes it due again; the recurring job differs only in the base that `planJob`
takes, and the theorems hold for misses of any job and number.

*Telegram.* Three updates are an album of two parts with a text behind it, two albums,
or a pairing that a message follows; the second user is a stranger, or the next owner
after a re-pairing. Four events write a message that is previewed, closed by a tool,
continued and ended. The two halves share the life of the channel and its owner, and
each is explored while the other is small (`OneAnswered` in `MCTelegramChannel`): once
the assistant answers, the only update is one text and the disk does not fail. The
proof of `NothingLostUnlessRisked` is about the module without that restriction.

*Events.* In the four other modules `MaxEvents` (`MaxClientEvents`) bounds what comes from outside:
taps, failures, changes by others. What the code does by itself (handlers, timers,
answers) is not bounded by it. Four events are a load, a second load or a create that
overlaps it, a click or a message, and a failure in the middle; two viewers, each of
whom opens a session, one leaves and one clicks; a session start, a reconnect, a
relayed message and a timeout. Three in `restore_jobs` are a start, a cancel and the
retry, or a clone, a drop and a load from the other viewer; each tap takes several
steps until it is answered. Two jobs are a job and the one that replaces it while the
first is still to be forgotten. Two sockets of the bridge are a connection and its
reconnect, whose frames meet at the server. `MaxMessages` 2 is one message the
history has and one it has not.

Viewers, sessions, sockets and agents are interchangeable, so symmetry is used where
they are (the checked action properties do not name one of them). The `VIEW` of
`restore_jobs` drops how a job began once it has settled and its child is gone, which
no step and no property reads.

### Fairness

`JobsAreServed` assumes one condition: while the server's own steps are enabled
(start, tick, the controller's answer, a send, a run that ends and settles, a minute
that passes) one of them is taken; the timer, the promises and pi provide it. Nothing
is assumed of people, terminals and the clock. `UploadEnds` assumes that the server
handles the frames of a live socket and its file operations end (`StagingStep`), the
page handles an answer (`Receive`), a read of the picked file ends (`ReadDone`), a
socket the server no longer has is noticed by the page's liveness watchdog
(`LoseSocket`), and a page that waits gives up when its waiting clock of ten minutes
runs out (`GiveUp`, unless it reconnects first). Nothing is assumed of reconnecting,
of the collector or of the network: a chunk may be lost with every socket.

The other modules state no liveness. What must not wait for ever is said there as an
invariant: whoever waits has a timer behind it (`NothingIsStuck`), or a frame or a
running job on its way (`NothingSpinsUnlessCut`). A timer of the event loop fires, so
these are the same promise without a fairness condition.

## Findings

Each is what a violation run shows; its entry in `PROJECT.json` quotes what the
repository says instead.

1. `loadSession` sets its finished entry without looking at what the map holds by
   then (`SessionPoolNeverTwoDrivers`): a terminal that registered during the build
   loses its entry and both drive the file.
2. A tick while a job's send loads the session makes the scheduler forget that send
   (`AssistantSchedulerMerges`): the next job goes into the same exchange.
3. The history of a resync confirms messages by their text
   (`client_session_repeat`): when two messages read the same and one was lost, both
   count as delivered.

## Known races

Cases the modules set aside by a history variable or an assumption. Each is what the
code does; replacing the property in the component's configuration by the one named
shows it.

*Pool* (`raced`). A registration that awaits the header read replaces a server entry
that appeared meanwhile (`TakeoverShutsDown`). A socket that closes during that read
still gets an entry (`BridgeEntriesAreOpen`). The late close of a previous socket
drops the entry of the next one (`CloseDropsOwnEntry`, `session-pool.ts:3187`). The
viewers of a departed terminal are handed to the rebuilt entry although they may have
left (`NoPhantomViewers`). A warm load counts a viewer whose socket closed during its
read (`ghosts`, `index.ts:3844`), as does a `session_new`, which `FolderConflict` has;
the cold path looks (`index.ts:3905`). The close handler has run by then, so the entry
counts the viewer until it is destroyed, although `index.ts:3079` says of a closed
socket that its session is "released, not left dangling" (`GoneIsReleased`).

*Replies* (the two constants). `queued()` keeps the order of the sends, not the order
in which pi queued them; `trimQueue` drops a deferred entry whose preflight is still
to come. `Attributed` with either constant `FALSE` shows it.

*Uploads.* A chunk that is written short is acknowledged whole (`missed`,
`upload-staging.ts:284-288` answers without a look at `bytesWritten`). When it was the
last one, the finish of a page that follows the protocol is refused as incomplete, which
`upload-staging.ts:298` calls a client bug, and the upload fails (`FinishFindsAll`). The
collector removes files by the age it read before its awaits
(`GcSparesFresh`): an upload resumed since loses its partial. `finish` takes whatever
lies at the recorded path for the moved file: after a copy across filesystems that a
crash or an error cut short, and with the partial just collected, half a file is
recorded as done (`DoneIsWhole`; `WholeAndOnce` sets the two together aside).

*Scheduler* (`raced`). A run that could not be appended to the log is remembered in
memory only and the failure is passed over (`assistant-schedule.ts:228-235`, whose line
204 says that an append goes to both): after a restart the occurrence fires again,
although `CONTEXT.md:168` says that a one-shot with any entry is done
(`NeverFiredTwice`). A job removed while the drain awaits the controller is sent all
the same, and the drain removes whichever job is the head by then
(`assistant-scheduler.ts:439` and `457`). A send whose run was cut off with its agent may
answer late, and the mark it then deletes is that of the next job
(`assistant-scheduler.ts:463-477`): a third job goes into the second one's exchange.
This takes two terminals or departures and a late answer, more than the run's one event;
the module sets it aside (`Overtaken`).

*Folders.* A warm load and a `session_new` attach a viewer whose socket has closed,
who is then counted (`ghost`, `index.ts:3844`; `NeverASecondViewer`).
`/session/destroy` removes a viewed session and tells no other viewer (`silent`). A
first load attaches after a second one of the same file found the folder gone
(`overtaken`). A warm load does not look for a conflict, so two writers may meet in a
folder unasked (`OpensAsObserver`). A tap on "back" before the paint sends nothing, so
the load attaches a viewer who is in the list (`LeavingDetaches`).

*Client* (`mark`). `doubled`: a late reply names the same session as a newer request.
`disarmed`: a stale frame ends the watchdog or the spinner of a newer request.
`early`: a message is written before the history of its session was reconciled.
`moved`: an unconfirmed message is on screen when another session is painted or its
history is reconciled. `misread`: an error of an earlier load is taken
for the answer to the load of the session on screen (`client.ts:2036`).
`mistaken`: an acknowledgement is matched to another message by its text.
`overtaken`: the server answers two requests of one socket out of order. `failed`: a
request fails, and what was on screen stays. `late`: a create is given up and then
answered.

*Bridge.* `misapplied`: an agent event meets no entry of its own socket, because a
registration is reading the header or two sockets overlap. `overlap`: two prompts are
on their way to pi at once, or a flagged one steers a running turn. A plain message
relayed while the server does not know that pi runs is refused although it was
acknowledged (`AckedIsTaken`, `index.ts:4304`). The claim of a new session is used up
by a register that is lost with its socket, so the callback may not fire at all. A
refresh that times out caches "unsupported" until the next push or reconnect.

*Restore.* `cut`: a viewer who watches the clone of a new session and loses the
socket keeps the overlay (`NothingSpins`; `client.ts:740`, and `+page.svelte:423`
"It ends by itself"); a clone that fails inside the request reports its end before
its start; an answer to an earlier request is taken for the one to a new creation
(`client.ts:2107`), and `folder_missing` is not held against the sessions the user
left. `bare`: a `session_new` without a remote ignores a restore that runs.
`vanished`: the folder goes between a load's stat and its verdict (`index.ts:3779`).
`leftover`: git killed outright leaves part of a clone, which the next load takes for
the folder. `late`: a stat of the listing in flight while a job settles marks the
restored folder missing (`session-pool.ts:551`). A cancelled job removes the folder it
asked for with whatever others put there since (`restore-jobs.ts:778`).

*Telegram* (`cut`, `risked`). Text that streams in while `closeOpenDraft` awaits its
`sendMessage` counts as delivered without having been sent
(`stream.delivered = stream.pending`, `telegram-replies.ts:350`), and the end of the
message leaves it out. A failing call that sends the text itself ends the operation,
and that text is lost. The parts of an album are behind the offset on disk while they
are gathered or wait, so a stop or a crash loses them, and a text that comes up while
the channel stops is refused by the dispatcher but its offset is written, although
`telegram-channel.ts:69-72` says that a restart neither loses nor repeats a message.

## Proofs

A theorem holds for every value of the constants; the runs check the same formulas
on the instances above. In each component the invariant that is inductive was first
checked by TLC, as an invariant of the component's run, and then proved: `Init`
gives it, each action keeps it (one lemma or step per action, one step per conjunct
that the action can disturb), and the properties follow from it.

| Module | Theorems |
|---|---|
| `SessionPoolProofs` | `TypeOK`, `ShutDownOnce`, `EntryIsUsable`, `OneDriverUnlessRaced`, `NoLeakUnlessRaced`, `EntryIsTrueUnlessRaced` |
| `RestoreJobsProofs` | `TypeOK`, `OneObservedGit`, `RestoredIsNotMarked`, `AgentHasFolderUnlessRaced`, `NothingSpinsUnlessCut` |
| `TelegramChannelProofs` | `TypeOK`, `NothingLostUnlessRisked`, `HeardInOrder`, `SaidOnceUnlessCut` |
| `UploadProofs` | `TypeOK`, `WholeAndOnce`, `PageAndStagingAgree`, the refinement `KeepsPromise` |
| `ViewerProofs` (`FolderConflict`) | `TypeOK`, `NoPhantomUnlessGhost`, `ScreenIsTrue`, `VerdictStands`, `NeverDraggedBack` |
| `ViewerProofs` (`ClientSession`) | `ClientTypeOK`, `NothingIsStuck`, `MessagesAreKeptUnlessRaced` |
| `ReplyRoutingProofs` | `TypeOK`, `Attributed`, `MirrorsPi` |
| `AssistantSchedulerProofs` | `TypeOK`, `RunsOnceAndAlone` |
| `CliBridgeProofs` | `TypeOK`, `CreatedOncePerStart`, `SpokenAsAskedUnlessOverlap`, `EndsAgreeUnlessMisapplied` |

`SessionPoolProofs.tla` proves `Spec => []TypeOK`, `[]ShutDownOnce` and
`[]EntryIsUsable` (`ReloadIsExclusive` and `EntryHasAgent`). The assumptions are the
module's own: `DistinctNames` (`None` is no file, viewer, agent or socket, and agents are not
sockets) and `Bounds` (the two bounds are naturals).

Neither of the last two is inductive. `EntryHasAgent` needs that a reload that
finishes meets the entry it began on still reloading, which needs that entry
identities are not reused, and so on. The invariant that closes is
`IInv == TypeOK /\ Ownership`, where `Ownership` has four named parts:
`EntryShape` (what an entry of each kind refers to, and that an entry mid-reload
has its record in `reloads`), `ReloadShape` (a reload that finds its entry finds it
reloading), `AgentShape` (only live agents have turns, none was torn down twice)
and `ConnShape`. The proof has one lemma per shared sub-operation (`Attach`,
`Release`, `Shutdown`, `Destroy`) and one step per action.

The second half of the module proves the three properties that hold up to a race,
`OneDriverUnlessRaced`, `NoLeakUnlessRaced` and `EntryIsTrueUnlessRaced`, from the same
assumptions. Its invariant is `IInv /\ Standing`, and `Standing` falls into three parts,
each kept by the steps on its own grounds:

- *Driving*: `BridgeShape` (a bridge entry names a socket that registered its file, and
  so does the driver), `DriverHasEntry` (the terminal that registered last has the entry
  while its socket is open), `BridgeEntryIsOpen...` and `NoLeak...`. A build or a header
  read that ends without racing found no entry, hence no live agent and no driver; a
  close that drops an entry without racing drops its own.
- *Viewing*: no phantom viewer, however long ago a load looked at the socket.
- *Timing*: the timers of a file are those of its entry, which is there and unviewed
  (`TimedIsResident` is what a build that finds no entry needs).

`OneDriver` itself is not part of the invariant: it follows, since every live agent of
the file is the entry's, and a driving terminal has the entry.

`RestoreJobsProofs.tla` proves every property of `RestoreJobs` that holds:
`Spec => []TypeOK`, `[]OneObservedGit`, `[]RestoredIsNotMarked`,
`[]NothingSpinsUnlessCut`, and the action property `AgentHasFolderUnlessRaced`, for any
number of viewers and of jobs, from `RestoreAssumption` (the bounds are naturals, at
least one job). The invariant, at the end of `RestoreJobs.tla`, is

    IInv == TypeOK /\ JobShape /\ ObservedWhileRunning /\ WritesInPlace
            /\ PartIsBeingWritten /\ RestoredIsThere

`JobShape` says that only the registered job runs and that git, with its close event,
comes before its job settles: a cancel therefore cannot free the path for a second
git while the first one lives, which is what `OneGitAtATime` needs.
`WritesInPlace` and `PartIsBeingWritten` say that part of a clone lies in the folder
only while its job runs (or because git was killed), so a folder without a running
clone is whole, which is what `AgentHasFolderUnlessRaced` needs. `RestoredIsThere`
carries `RestoredIsNotMarked` through a stat in flight. The proof goes in two
passes, each with one lemma per action: first the types, the registry and the
observers (`...Core`), then what depends on the folder and the listing (`...Kept`);
`GivenStep` then takes the action property from the invariant.

`NothingSpinsUnlessCut` looks one frame away: a spinner is there because of what was
sent before. Its invariant, `SInv`, says of each viewer that is not `cut` what holds
between its screen, its frames both ways and its connection (`Follows`):

    Follows == MovesFirst /\ CreatesAlone /\ AskedIsAnswered /\ PanelIsWatched
               /\ ToldTruly /\ ProgressRuns          (Silent, on a closed socket)

`ToldTruly` is the heart: the job shown once everything on its way has been received,
if it is said to run, is the one that runs, and the connection is among those that
will be told of its end. It needs that a panel is only on screens whose connection
has the folder (`PanelIsWatched`), that a request to restore is still to be taken or
answered (`AskedIsAnswered`), and that a viewer who moves on leaves no answer behind
(`MovesFirst`, `CreatesAlone`). These are formulas over values, so the proof first has
one lemma per thing that can happen to one viewer (a frame heard, taken, received or
sent), without the state; then one per action, for all viewers, of which most are told
nothing or what everyone is. A job that ends reaches all who watch (`FinishShows`),
because the relay is held exactly while it runs (`ObservedWhileRunning`).

`TelegramChannelProofs.tla` proves `Spec => []NothingLostUnlessRisked`,
`[]HeardInOrder`, `[]SaidOnceUnlessCut` and `[]TypeOK`, for any users, albums, numbers of updates, starts,
failing writes and calls, from `ChannelAssumption` (`None` is no user and no album, the
bounds are naturals) and `RepliesAssumption` (a message has at least one piece, and a
Telegram message holds at least one). The invariant of the first, at the end of
`TelegramChannel.tla`, is

    IInv == InTypes /\ LoopShape /\ OnlyPartsWait /\ PastIsKept /\ NoPairing

`PastIsKept` says that an update the loop is past is settled or in memory, and that any
other is still Telegram's. It survives a crash for two reasons: `LoopShape` (the disk is
never ahead of the loop, and the update being handled is the first that Telegram would
send) and `OnlyPartsWait` (what is in memory only are parts of albums, but for the one
message the loop waits for, which is the last of its chain). The second is why
`HandleMessage` has to wait: with a message that is not waited for, the offset passes
it. The lemmas at the head of the module say what a queue of messages holds after an
append, a concatenation and a tail; then there is one lemma per action, and one
(`DoneKeeps`) for what the three actions of `converse` share.

`HeardInOrder` needs more about order and repetition:

    HInv == IInv /\ passed \subseteq Ids /\ QueueInOrder /\ BehindIsHeard
            /\ BeforeHeardIsHeard /\ OutOfOrderOnlyAgain /\ RepeatsArePaidFor

`QueueInOrder` says that the gathered album and the queue are rising and behind the
frontier, the first update the loop has not handled. What lies between the offset a
restart would read and the frontier may come again: it was heard, or is still in the
queue, or the channel is stopping and nothing after it will be heard (`BehindIsHeard`);
therefore whatever may yet be heard before something heard was heard itself
(`BeforeHeardIsHeard`), and out of order comes only what comes again.
`RepeatsArePaidFor` is a balance: the repetitions so far and those that may still come
are at most the starts and the failed writes, with one for an update in hand and less
the updates between the two offsets. The proof counts with the library's theorems on
finite sets; a failed write or an end of the process widens one side by as much as it
pays on the other.

`TypeOK` of the two halves needs two facts on the replies: the operation under way is
the head of the chain, and what a close, a flush or a finish has still to send is not
empty (`HeadIsDoing`).

`SaidOnceUnlessCut` speaks of finished messages only, and says nothing of how the chat
comes to be right. Its invariant, at the end of `TelegramReplies.tla`, follows each
message from its first preview to its finish:

    SaidInv   == SayTypes /\ ChainFits /\ \A m : MessageFits(m)
    ChainFits == InTurn /\ FinishLast /\ TodoOfHead /\ ListedIsWritten
                 /\ \A m : StreamFits(m)

`ChainFits` is about the operations: the chain and the chat are in the order of the
messages and no stream is touched before its turn (`InTurn`, which gives
`ChatInOrder`), the finish of a message is its last operation and brings all that was
written (`FinishLast`), and what the head has under way is of its kind and message.
`MessageFits` is about one message that is not `cut`. Between two operations it
`Stands`: the entries of the chat say exactly what counts as delivered, in order; the
preview, if there is one, comes last and says the beginning of what follows; and all
that was ever shown in a draft is delivered, or still in the draft, in the preview or
in the call under way (`SeenIsKept`), which is why a refused draft, or a finish
that was aborted, leaves nothing unsaid. While a close or a finish sends its parts, the
chat and what is left to send say it between them (`CloseFits`, `FinishFits`). The
proof has one lemma per event of the assistant (`QuietEvent`, `WritesSaid`, `EndsSaid`:
what joins the chain disturbs no message before it), one per operation that starts and
one per call that is answered or fails; `HeadStepOthers` sets aside, once, the messages
the head is not about. Where the text goes (`PartsSay`, on the division of a text into
parts) is the one piece of arithmetic.

`UploadProofs.tla` proves `Spec => []TypeOK`, `[]WholeAndOnce`, `[]PageAndStagingAgree`
and `KeepsPromise`, the refinement of `AtomicUpload`, for any size of the file, of a chunk and of the window,
and any number of sockets, crashes, failing operations and days. The assumptions say
that these are naturals (`Sizes`, `Bounds`). The invariant, at the end of `Upload.tla`,
is

    IInv == SystemTypes /\ BytesInOrder /\ BusyIsOpen /\ CollectedIsOld
            /\ NothingHalfCopied /\ ReportedIsKept /\ QueuesInOrder
            /\ BegunFirst /\ NamedOnce

Wholeness is a chain of three: the partial is a prefix of the source and the whole of
it once `finish` moves it (`BytesInOrder`); without a fault nothing stays half copied
(`NothingHalfCopied`), which needs that the collector comes only to what was left
alone (`CollectedIsOld`); and a file that was reported is not the one being moved
again (`ReportedIsKept`, which `BusyIsOpen` supports: nothing works on an upload that
is done). That one upload makes one file is about what may still come: a second name
would take a begin and a finish after the first was given, and the order of the frames
on the two sockets (`QueuesInOrder`, `BegunFirst`) leaves no such pair (`NamedOnce`).
The lemmas at the head say what the sequences of bytes and of frames hold after an
append and a tail. For the refinement, the step that writes `done` into the sidecar is
`Arrive`; the page's steps out of its pending phases are `ReportDone`, `ReportFailed`
and `ReportAborted`; the first day that passes is `Abandon`, the collector's removal of
the record is `Forget`, and every other step is a stutter.

`PageAndStagingAgree` needs a second invariant on top of that one:

    AInv == IInv /\ FramesFit /\ WindowKept /\ missed \in 0..MaxChunk
            /\ StagedInOrder /\ ClaimsStand /\ JoinedIsKnown /\ FullWhenSaid
            /\ GoesOn /\ (days = 0 => NeverConfused)

That the page counts nothing the staging does not hold, but what a short write left
out, is `ClaimsStand`, which has to say the same of the offsets still on their way to
the page; a partial only shrinks by
going to its place, but for the one that `abort` removes. That `finish` finds nothing
amiss is the hard half. `WindowKept` says that what is on the page's socket, there and
back, is the window: so many of its chunks answered, the rest still to be taken up.
The page sends `finish` only once it was told of the whole file (`FullWhenSaid`, which
stands while nothing was written short), of an upload that is known and whose partial no one takes but a finish (`JoinedIsKnown`).
What could still go wrong is the finish of an earlier socket, which the server may
handle after the page began anew on the next one: it takes the partial away under the
page. `GoesOn` says that the page is then in step with the partial (`InStep`: every
answer on its way matches its chunk, and the chunks still to come run from the end of
the partial to where the page is, so that none is left once the partial is whole), or
that the partial lags behind it (`Lagging`: a chunk was refused or written short, every
chunk still to come begins beyond the end of the partial, and every further answer with
an offset gives that end), so that the earlier finish will find the partial short. `NetKeeps` proves the two parts about frames, and then each
action has one lemma (`BeginAgrees`, `WriteAgrees`, `FinishAgrees`, ...) over shapes
that say what the action does to the page, the frames and the staging
(`WriteShape`, `FinishShape`, `EndsShape`, `MovesShape`).

`ViewerProofs.tla` proves every property of `FolderConflict`, for any viewers,
files, folders and rules, from `Shape` (the names are of different kinds, each file has
a folder, the bound is a natural). The invariant goes viewer by viewer:

    IInv == TypeOK /\ OpsAreLoads
            /\ (\A v \in Viewer : Placed(v)) /\ (\A v \in open : InOrder(v))

`Placed` is `NoPhantomUnlessGhost` as it is. `InOrder` has `HardStands` and
`ClickStands`, which give `VerdictStands`; `AskedAnew`, that a load still to be painted
is of a file not painted yet, without which a paint could meet its own viewer as the
other one; and three clauses that hold once no broadcast is owed: lock, banner and
composer follow the folder (`LockFollows`, `BannerFollows`, `ComposerFollows`), unless
the viewer's own load is still to attach. Most steps act for one viewer and move one
file's viewers. For the others the argument is one lemma (`OtherKeeps`): whoever the
step does not act for keeps its part of the invariant, since either the folder's
viewers are the same to it or the step owes a broadcast. The broadcast itself
establishes the three clauses for everybody (`Broadcast`). `NeverDraggedBack` then
needs one look at each action: only `Attach`, `Created` and a warm load attach, and
each does so to what it has just painted or found painted still.

The second half of `ViewerProofs.tla` is about `ClientSession`, for any sessions,
messages, texts and number of events, from `SessionShape`. The invariant is built in
four layers, each proved on top of the ones before:

    BaseInv   ClientFormed, WireFormed (types), SocketInv (what a client without an
              open socket cannot have), ClientKnown, WireKnown (nobody names a session
              that does not exist)
    WatchInv  the timers: SendingIsTimed, NeverParked, and Watched unless a stale frame
              disarmed one
    MsgInv    WireTruth (a message on its way is for its own session; an acknowledgement
              or a history on its way says what the log has), ScreenTruth (a bubble or
              a saved message is of its own session), ConfirmedIsDelivered
    KeptInv   outside the races Kept, Together and Complete

`NothingIsStuck` needs of a create and of a resync on an open socket what it needs of
the spinner of a load: `Watched` has one clause for each. `NeverSilentlyLost` is far
from inductive: it allows a message to be on its way, and a frame on its way may be lost
in the next step. What closes is `Kept`, that a message nobody has (`Unheard`: taken,
neither accepted nor discarded) is always in `localStorage`, even while it is under way.
`persistPending` writes from the screen, so this needs `Together`, that a screen with one
unconfirmed bubble of a session has every unheard message of that session, and
`Complete`, that a reconciled screen has every one of the session it shows. That the history on its
way is true (`TrueDown`) makes `message_history` drop only what was accepted; here the
proof assumes `DistinctTexts`, that no two messages have one text, which is what the
client's match by text takes for granted (`client_session_repeat` shows what happens
otherwise). The actions that leave the messages alone are treated at once (`Quietly`),
the others by `SubmitsKept`, `MarkedKept`, `AckKept`, `HistoryKept` and `CreatedKept`.

The proof corrected two properties. A bubble carried to another session can be resent
there and confirmed there, so `ConfirmedIsDelivered` and `NeverSilentlyLostUnlessRaced`
now name `moved`; and an error of a rejoin that arrives when the same session has been
asked for again is read as the answer to the newer request (`misread`), which is then
forgotten, so that its reply passes for that of a create asked for next:
`LatestTapWinsUnlessRaced`. Both take more
events than the run allows.

`CliBridgeProofs.tla` proves every property of `CliBridge`, for any sessions, values
of the info, sockets and events, from `BridgeAssumption` (`None`, the server's mark
and the answers that are no info are different from each other and from the names, one
socket at least). The invariant is

    IInv == TypeOK /\ Unopened /\ (\A s \in Sockets : RegistersFirst(s)) /\ Current
            /\ EntriesRegistered /\ OneRefresh
            /\ ClaimsCounted /\ SpeechInOrder /\ BusyFollows /\ InfoFollows

The first six parts say what may be on the wire: a socket registers once and first, its
close is its last frame, the socket of the moment is for the session of the moment, an
entry is that of a socket that registered for it, and one refresh at most is under way
at a time. Each property has a part of its own on that ground.

- `CreatedOncePerStart`: `ClaimsCounted`. The callbacks made for a session and the
  claims that could still make one (in the extension, in a register on its way, in one
  that reads the header) are together no more than its starts. A register moves a
  claim, a lost socket drops one, and only a start makes one.
- `SpokenAsAskedUnlessOverlap`: `SpeechInOrder`. Without overlap one prompt at most is
  on its way, and the latch is its flag.
- `BusyAgreesUnlessMisapplied`: `BusyFollows`. The last frame on the socket that says
  whether pi runs is right, and once there is none the entry is. `misapplied` covers
  the frames that meet no entry of their socket.
- `InfoIsCurrent`: `InfoFollows`. The last push on its way brings the info of now; with
  none on its way the cache holds it, or "unsupported", or a refresh that no push has
  outdated will bring it, and so do the answers on their way (`AnswersAreCurrent`).
  `BeforeRegistering` is what a fresh socket needs: nothing of the previous one is left.

`ReplyRoutingProofs.tla` proves every property of `ReplyRouting`, for any set of sends:
`TypeOK` without a condition, `Attributed` and `MirrorsPi` where `QueuesInOrder` and
`DeferredInTime` are true. The two are what the pool relies on pi for; each is used
once (in `PreflightQueuedStep` and `SettleStep`), and without it TLC finds a reply that
goes to the wrong place. `MirrorsPi` speaks of whole sequences, so the invariant says
the same of every send and every pair of sends:

    IInv == TypeOK /\ Attributed /\ OneEntry /\ Mirrored /\ StartedFirst /\ InFlightWaits

`Mirrored` is that a send is in a queue of pi exactly when its entry is in that queue's
state, and ahead of another exactly when its entry is. A delivery then takes the entry
of the message delivered, because the head of pi's first queue that is not empty is
first among the known entries (`NextIsStarting`, `NextIsSteering`, `NextIsFollowing`;
`StartedFirst` for the first of them). `InFlightWaits` is what lets pi queue a send: its
entry is behind those queued already and ahead of those pi has not answered. The first
part of the module is about sequences: what is in one and what comes before what, after
an append, a concatenation, a tail or a selection, and that a sequence without
repetition is determined by the two (`SameView`). The second part states what each
operation of `reply-routing.ts` does in those terms (`RecordedView`, `PromotedView`,
`TrimmedView`, ...), and the third has one lemma per action.

`AssistantSchedulerProofs.tla` proves `Spec => []TypeOK` and `[]RunsOnceAndAlone`, for
any jobs, instants, sessions, grace and bounds; the assumptions say that these are of
their types and that a job without a cron expression has one instant (`Jobs`,
`Bounds`). The invariant, at the end of `AssistantScheduler.tla`, is

    IInv == TypeOK /\ TakenIsJob /\ RunIsResident /\ OnceInv /\ AloneInv

`OnceInv` holds as long as no drain was raced. A job is in flight once (`InFlightOnce`),
for an occurrence no known entry of the log decided (`InFlightUndecided`), and no two
known ones decide one (`DecidedOnce`): a restart only takes entries away
(`LogForgotten`). What the drain took before its await is still the head of what waits
(`TakenIsHead`), so that the entry `fired` is of the job that leaves the queue. That a tick puts nothing decided in flight is `Open`, which lies after every
known entry, and `isInFlight`.

`AloneInv` holds as long as no send was overtaken. One send at most has left the drain
and is not delivered (`OneOnItsWay`); the session it goes to is the current one, is
marked and was told of nothing (`WayIsMarked`); what was told of a job is resident and
marked until it settles (`ToldIsMarked`). A drain that finds the session idle therefore
finds nothing on its way to it (`IdleIsFree`), which needs that the controller works
through its calls in turn (`Answers`) and that no terminal is slow to start
(`NoTerminalIsSlow`, part of what `raced` sets aside).

The lemmas at the head are about the queue: what is drawn from a sequence (`Drawn`: a
selection, a tail, a suffix) stays sound if the sequence was, and what an entry of the
log changes. Each action is then a drain (`Drains`: `InlineDrains`, `LoopDrains`,
`ReturnsDrains`), a step in one session (`SessionKeeps`) or one of its own.

Model-checked only: `QuietAgreesUnlessRaced` and `LatestTapWinsUnlessRaced` of
`ClientSession`. Liveness (`UploadEnds`, `JobsAreServed`) is out of the prover's reach.

## Not modelled

The map covers about a seventh of the implementation's lines. Most of the rest is
not a matter of states: two thirds of the repository's source are Svelte components,
stores over the client library, start-up and installation, static files, and the
parsing and formatting of transcripts. What has state and is left out:

- *Telegram*: notifications and the reports of dropped messages, each one message
  that waits for nothing; the token's lookup; retries of a poll that fails.
- *The assistant's controller*: sessions it adopts or replaces, a pointer whose file
  is gone, the records of dropped messages, the folder lock. `AssistantScheduler` has
  what the scheduler needs of it.
- *Session pool*: `forkSession`, the listing's join of a scan in flight, sudo
  prompts, `disposeAll`, changes of model.
- *Client*: the content of a conversation (deltas, tool cards, queued and steering
  messages), search, settings. *Heartbeat*: the server's count of missed pongs; the
  close it leads to may come at any time.
- *Frame chunks, delta coalescing*: a few lines each over one ordered socket, with
  unit tests that cover their states.
- *Web push, drafts, stars, the on-device cache*: small files, last writer wins.
- *Speech*: the queue depends on the browser's speech engine.
- *Bridge extension*: bash and sudo commands. A bash child that closes after the
  terminal changed its session records its result into the wrong one
  (`extension/src/index.ts:891`); the hazard is listed without a property.

- *Within the modelled parts*: a removal of a cancelled clone that fails (it is logged,
  and the partial folder stays, as after `leftover`) and a spawn of `git init` that
  throws outright, which nothing catches, in `RestoreJobs`; the microtasks between the
  settle of a run and the `.then` of the send that waits for it, one step in
  `AssistantScheduler` (`Settles`); a message whose agent is disposed before its
  `message_end`, in the Telegram modules.

`PROJECT.json` gives the status and the reason for each component.

## What is left

1. The assistant's controller, composed with `AssistantScheduler` and
   `TelegramChannel`.
2. An abstract specification of the pool (a file has no driver, the server, or one
   terminal), refined by `SessionPool` outside the races; `FolderConflict` over the
   same abstraction.
3. Proofs: the client's `LatestTapWinsUnlessRaced` and `QuietAgreesUnlessRaced`.
4. `Upload` with several uploads over one socket and the legacy frame; cron
   expressions as a pure operator.
