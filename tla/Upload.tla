------------------------------- MODULE Upload -------------------------------
(***************************************************************************)
(* One resumable upload, from the page to the file: the chunked half of    *)
(* client/src/client.ts, the upload handlers of server/src/index.ts, and   *)
(* the staging of server/src/upload-staging.ts with its disk.              *)
(*                                                                         *)
(* The page may lose its socket at any time and goes on with another, while *)
(* the server may still be handling what the lost one carried; the server  *)
(* may crash between two file operations.  Operations on the upload's id   *)
(* run one at a time (`op`); the garbage collector does not wait for them. *)
(* The bytes of the file are numbered, so a byte in the wrong place shows. *)
(***************************************************************************)
EXTENDS Naturals, Sequences

CONSTANTS
    Size,         \* bytes of the file
    MaxChunk,     \* UPLOAD_CHUNK_MAX: the longest chunk
    MaxInFlight,  \* bound: chunks in the window
    MaxSockets,   \* bound: connections the page opens
    MaxCrashes,   \* bound: crashes of the server
    MaxErrors,    \* bound: file operations that fail
    MaxDays       \* bound: times the upload lies untouched for 24 hours

ASSUME Sizes == Size \in Nat /\ MaxChunk \in Nat \ {0} /\ MaxInFlight \in Nat \ {0}
ASSUME Bounds ==
    MaxSockets \in Nat /\ MaxCrashes \in Nat /\ MaxErrors \in Nat /\ MaxDays \in Nat

VARIABLES
    \* The page.
    page,     \* the PendingUpload
    sock,     \* the page's latest socket, 0 before the first
    \* The network.
    alive,    \* sockets the server still has
    up,       \* per socket the frames on their way to the server
    down,     \* answers on their way to the page, on its latest socket
    \* The server.
    op,       \* the operation under way on the upload's id
    partial,  \* the partial file, or NoFile
    side,     \* the sidecar, or NoSide
    saved,    \* the files in the upload folder, by name
    fresh,    \* the staged files were touched within 24 hours
    gc,       \* the collector's pass: what it is about to remove
    crashes, errors, days, \* what happened so far, for the bounds
    missed    \* history: the most bytes a short write left out

netVars == <<alive, up, down>>
diskVars == <<partial, side, saved, fresh>>
countVars == <<crashes, errors, days, missed>>
vars == <<page, sock, netVars, op, diskVars, gc, countVars>>

Socket == 1..MaxSockets

\* A file is the sequence of the bytes it holds; the source holds 1, 2, 3, ...
NoFile == <<0>>
Source == [i \in 1..Size |-> i]
Written(f, off, n) == [i \in 1..(Len(f) + n) |-> IF i <= Len(f) THEN f[i] ELSE off + i - Len(f)]

\* The sidecar: the name recorded for the file (0 for none), and `done`.
NoSide == [exists |-> FALSE, name |-> 0, done |-> FALSE]
Side(n, d) == [exists |-> TRUE, name |-> n, done |-> d]
\* The operation under way: for which socket, under which name, and the bytes a
\* copy has read.
Op(k, s, n) == [kind |-> k, from |-> s, name |-> n, bytes |-> <<>>]
NoOp == Op("none", 0, 0)

Frame(k) == [kind |-> k, off |-> 0, len |-> 0]
Chunk(o, n) == [kind |-> "chunk", off |-> o, len |-> n]
Offset(o) == [kind |-> "offset", off |-> o]
Answer(k) == [kind |-> k, off |-> 0]
\* What the staging answers to an operation no conforming page asks for.
Confusions == {"unknown", "missing", "overrun", "incomplete"}
Refusals == {"refused", "disk"} \cup Confusions

OnWire == {"beginning", "sending", "finishing"}
Settled == {"done", "failed", "aborted"}

Init ==
    /\ page = [phase |-> "waiting", acked |-> 0, next |-> 0, inFlight |-> <<>>,
               realigning |-> FALSE, reading |-> "no"]
    /\ sock = 0
    /\ alive = {} /\ up = [s \in Socket |-> <<>>] /\ down = <<>>
    /\ op = NoOp
    /\ partial = NoFile /\ side = NoSide /\ saved = <<>> /\ fresh = TRUE
    /\ gc = [st |-> "idle", files |-> {}]
    /\ crashes = 0 /\ errors = 0 /\ days = 0 /\ missed = 0

-----------------------------------------------------------------------------
(* The page.                                                               *)

\* A frame handed to the page's socket; one the server no longer has loses it.
Sent(frame) == IF sock \in alive THEN [up EXCEPT ![sock] = Append(@, frame)] ELSE up

\* Whatever read is under way is for a position that no longer holds.
Stale(reading) == IF reading = "no" THEN "no" ELSE "stale"

\* pumpUpload of p, at the end of a handler that sent no finish itself: finish
\* once every byte is acked, else read on if the window has room.  The window
\* follows the measured throughput, but an empty one always has room.  A socket
\* that is closing refuses the finish.
Blocked(p) == p.phase # "sending" \/ p.reading # "no" \/ p.realigning
AllSent(p) == p.next = Size
AllAcked(p) == p.acked = Size /\ p.inFlight = <<>>
Pump(p, frames) ==
    \/ /\ Blocked(p)
       /\ page' = p /\ up' = frames
    \/ /\ ~Blocked(p) /\ AllAcked(p)
       /\ page' = [p EXCEPT !.phase = "finishing"]
       /\ up' = Sent(Frame("finish"))
    \/ /\ ~Blocked(p) /\ ~AllAcked(p)
       /\ p.next < Size /\ Len(p.inFlight) < MaxInFlight
       /\ page' = [p EXCEPT !.reading = "yes"] /\ up' = frames
    \/ /\ ~Blocked(p) /\ ~AllAcked(p)
       /\ p.next >= Size \/ p.inFlight # <<>>
       /\ page' = p /\ up' = frames
    \/ /\ ~Blocked(p) /\ AllAcked(p) /\ sock \notin alive
       /\ page' = p /\ up' = frames

\* A socket opens and the session is rejoined: the upload is begun again on it.
\* The server evicts the page's previous socket, which may deliver what it carries
\* for a moment more (sendThenTerminate), but not until the next one after.
Connect ==
    /\ page.phase = "waiting"
    /\ sock < MaxSockets
    /\ sock' = sock + 1
    /\ alive' = (alive \cap {sock}) \cup {sock'}
    /\ up' = [s \in Socket |-> CASE s = sock' -> <<Frame("begin")>>
                                [] s = sock  -> up[s]
                                [] OTHER     -> <<>>]
    /\ page' = [page EXCEPT !.phase = "beginning", !.reading = Stale(@)]
    /\ UNCHANGED <<down, op, diskVars, gc, countVars>>

\* uploadsLostSocket: what was in flight is forgotten.
LoseSocket ==
    /\ page.phase \in OnWire
    /\ page' = [page EXCEPT !.phase = "waiting", !.inFlight = <<>>, !.realigning = FALSE,
                            !.reading = Stale(@)]
    /\ down' = <<>>
    /\ UNCHANGED <<sock, alive, up, op, diskVars, gc, countVars>>

\* The source is read: the bytes go out as a chunk, unless they are for a socket
\* or a position of before, or the socket is closing and refuses them.
Void(p) == p.reading = "stale" \/ p.phase # "sending"
Read(p) == [p EXCEPT !.reading = "no"]
ReadChunk(p, n) == [p EXCEPT !.reading = "no", !.next = @ + n,
                             !.inFlight = Append(@, [off |-> p.next, len |-> n])]
ReadDone ==
    /\ page.reading # "no"
    /\ \/ Void(page) /\ Pump(Read(page), up)
       \/ /\ ~Void(page)
          /\ \E n \in 1..MaxChunk :
               /\ page.next + n <= Size
               /\ Pump(ReadChunk(page, n), Sent(Chunk(page.next, n)))
       \/ ~Void(page) /\ sock \notin alive /\ page' = Read(page) /\ UNCHANGED up
    /\ UNCHANGED <<sock, alive, down, op, diskVars, gc, countVars>>

\* The source cannot be read, or the page leaves the session: the upload fails,
\* and the server does not hear of it.
Fail ==
    /\ page.phase \notin Settled
    /\ page' = [page EXCEPT !.phase = "failed"]
    /\ down' = <<>>
    /\ UNCHANGED <<sock, alive, up, op, diskVars, gc, countVars>>

\* handleUploadOffset of an answer to a begin.
BegunPast(p, off) == [p EXCEPT !.phase = "sending", !.next = off + 1, !.acked = off]
Begun(p, off) == [p EXCEPT !.phase = "sending", !.next = off, !.acked = off]

\* handleUploadOffset of an answer to the oldest chunk in flight.  The first one
\* that does not match makes the page wait for the answers to all the others, and
\* go on from where the last one says the server is.
ChunkAnsweredNoRealign(p, off) == [p EXCEPT !.inFlight = Tail(@), !.acked = off]
ChunkAnswered(p, off) ==
    LET c == Head(p.inFlight)
        rest == Tail(p.inFlight)
        matches == ~p.realigning /\ off = c.off + c.len
    IN  [p EXCEPT !.inFlight = rest, !.acked = off,
                  !.realigning = ~matches /\ rest # <<>>,
                  !.next = IF ~matches /\ rest = <<>> THEN off ELSE @,
                  !.reading = IF ~matches THEN Stale(@) ELSE @]

Receive ==
    /\ down # <<>>
    /\ down' = Tail(down)
    /\ LET m == Head(down) IN
       \/ page.phase \in Settled /\ UNCHANGED <<page, up>>
       \/ /\ page.phase \notin Settled /\ m.kind = "done"
          /\ page' = [page EXCEPT !.phase = "done", !.acked = Size]
          /\ UNCHANGED up
       \/ /\ page.phase \notin Settled /\ m.kind \in Refusals
          /\ page' = [page EXCEPT !.phase = "failed"]
          /\ UNCHANGED up
       \/ /\ m.kind = "offset"
          /\ page.phase \notin Settled
          /\ \/ page.phase = "beginning" /\ Pump(Begun(page, m.off), up)
             \/ page.phase = "sending" /\ page.inFlight # <<>> /\ Pump(ChunkAnswered(page, m.off), up)
             \/ page.phase # "beginning" /\ page.inFlight = <<>> /\ UNCHANGED <<page, up>>
    /\ UNCHANGED <<sock, alive, op, diskVars, gc, countVars>>

\* The upload is cancelled: the server hears of it if there is a socket.
Cancel ==
    /\ page.phase \notin Settled
    /\ page' = [page EXCEPT !.phase = "aborted"]
    /\ up' = IF page.phase \in OnWire THEN Sent(Frame("abort")) ELSE up
    /\ down' = <<>>
    /\ UNCHANGED <<sock, alive, op, diskVars, gc, countVars>>

\* The waiting clock runs out, or the session changed before the upload could go.
GiveUp ==
    /\ page.phase = "waiting"
    /\ page' = [page EXCEPT !.phase = "failed"]
    /\ UNCHANGED <<sock, netVars, op, diskVars, gc, countVars>>

-----------------------------------------------------------------------------
(* The staging: operations on the upload's id, one at a time.              *)

\* The server takes up the next frame of socket s.
Takes(s, kind) ==
    /\ op = NoOp
    /\ up[s] # <<>>
    /\ Head(up[s]).kind = kind
    /\ up' = [up EXCEPT ![s] = Tail(@)]
    /\ UNCHANGED <<page, sock, alive, crashes, days>>

\* The answer goes to the socket it was asked on; a lost one carries it nowhere.
Reply(s, answer) ==
    down' = IF s = sock /\ page.phase \in OnWire THEN Append(down, answer) ELSE down
Ends(s, answer) == Reply(s, answer) /\ op' = NoOp
Touch(P, S) == partial' = P /\ side' = S /\ fresh' = TRUE
KeepDisk == UNCHANGED <<partial, side, fresh>>

\* Any operation on a known upload may be refused by the write gate, or fail in a
\* file operation.
Refused(s) == Ends(s, Answer("refused")) /\ KeepDisk /\ UNCHANGED <<saved, errors>>
Fails(s) == errors < MaxErrors /\ errors' = errors + 1 /\ Ends(s, Answer("disk"))

\* begin of a known id: where the server is, or that it is all done.
IsNamed(d) == d.name # 0
IsDone(d) == d.done
BeginKnown(s) ==
    /\ Takes(s, "begin")
    /\ side.exists
    /\ \/ Refused(s)
       \/ IsDone(side) /\ Ends(s, Answer("done")) /\ KeepDisk /\ UNCHANGED <<saved, errors>>
       \/ /\ ~IsDone(side) /\ partial # NoFile
          /\ Ends(s, Offset(Len(partial))) /\ KeepDisk /\ UNCHANGED <<saved, errors>>
       \/ /\ ~IsDone(side) /\ partial = NoFile
          /\ Ends(s, Offset(0)) /\ Touch(<<>>, side) /\ UNCHANGED <<saved, errors>>
    /\ UNCHANGED <<gc, missed>>

\* begin of a new id: an empty partial first, then its sidecar.
BeginNew(s) ==
    /\ Takes(s, "begin")
    /\ ~side.exists
    /\ \/ Refused(s)
       \/ /\ Touch(<<>>, side)
          /\ op' = Op("begin", s, 0)
          /\ UNCHANGED <<down, saved, errors>>
    /\ UNCHANGED <<gc, missed>>
BeginNewEnds ==
    /\ op.kind = "begin"
    /\ Touch(partial, Side(0, FALSE))
    /\ Ends(op.from, Offset(0))
    /\ UNCHANGED <<page, sock, alive, up, saved, gc, countVars>>

\* writeChunk: accepted only where the partial ends, else the answer says where
\* that is.  A write that fails may leave some of the bytes; one that comes back
\* short left some out, and is answered as if it had not (the bytes written are
\* not looked at).
FitsAnywhere(c) == TRUE
Fits(c) == c.off = Len(partial)
Longest(m, n) == IF m < n THEN n ELSE m
Short(c) == 1..(c.len - 1)
WriteChunk(s) ==
    LET c == Head(up[s]) IN
    /\ Takes(s, "chunk")
    /\ \/ ~side.exists /\ Ends(s, Answer("unknown")) /\ KeepDisk /\ UNCHANGED <<errors, missed>>
       \/ side.exists /\ Ends(s, Answer("refused")) /\ KeepDisk /\ UNCHANGED <<errors, missed>>
       \/ side.exists /\ side.done /\ Ends(s, Answer("done")) /\ KeepDisk /\ UNCHANGED <<errors, missed>>
       \/ /\ side.exists /\ ~side.done /\ partial = NoFile
          /\ Ends(s, Answer("missing")) /\ KeepDisk /\ UNCHANGED <<errors, missed>>
       \/ /\ side.exists /\ ~side.done /\ partial # NoFile
          /\ \/ ~Fits(c) /\ Ends(s, Offset(Len(partial))) /\ KeepDisk /\ UNCHANGED <<errors, missed>>
             \/ /\ Fits(c) /\ Len(partial) + c.len > Size
                /\ Ends(s, Answer("overrun")) /\ KeepDisk /\ UNCHANGED <<errors, missed>>
             \/ /\ Fits(c) /\ Len(partial) + c.len <= Size
                /\ Touch(Written(partial, c.off, c.len), side)
                /\ Ends(s, Offset(Len(partial) + c.len)) /\ UNCHANGED <<errors, missed>>
             \/ /\ Fits(c) /\ Len(partial) + c.len <= Size
                /\ \E n \in Short(c) : /\ Touch(Written(partial, c.off, n), side)
                                       /\ missed' = Longest(missed, c.len - n)
                /\ Ends(s, Offset(Len(partial) + c.len)) /\ UNCHANGED errors
             \/ /\ Fits(c) /\ Len(partial) + c.len <= Size
                /\ \E n \in 0..(c.len - 1) : Touch(Written(partial, c.off, n), side)
                /\ Fails(s) /\ UNCHANGED missed
    /\ UNCHANGED <<saved, gc>>

\* finish, up to the name: recorded in the sidecar before the file is moved, so
\* that whoever comes after a crash moves it to the same place.
FinishStartUnnamed(s) ==
    /\ Takes(s, "finish")
    /\ side.exists /\ ~side.done /\ partial # NoFile /\ Len(partial) = Size
    /\ op' = Op("move", s, Len(saved) + 1)
    /\ saved' = Append(saved, NoFile)
    /\ UNCHANGED <<down, partial, side, fresh, gc, errors, missed>>
FinishStart(s) ==
    /\ Takes(s, "finish")
    /\ \/ ~side.exists /\ Ends(s, Answer("unknown")) /\ KeepDisk /\ UNCHANGED saved
       \/ side.exists /\ Ends(s, Answer("refused")) /\ KeepDisk /\ UNCHANGED saved
       \/ side.exists /\ side.done /\ Ends(s, Answer("done")) /\ KeepDisk /\ UNCHANGED saved
       \/ /\ side.exists /\ ~side.done /\ partial = NoFile
          /\ IF side.name # 0 /\ saved[side.name] # NoFile
             THEN Touch(partial, Side(side.name, TRUE)) /\ Ends(s, Answer("done"))
             ELSE KeepDisk /\ Ends(s, Answer("missing"))
          /\ UNCHANGED saved
       \/ /\ side.exists /\ ~side.done /\ partial # NoFile /\ Len(partial) # Size
          /\ Ends(s, Answer("incomplete")) /\ KeepDisk /\ UNCHANGED saved
       \/ /\ side.exists /\ ~side.done /\ partial # NoFile /\ Len(partial) = Size
          /\ IF side.name # 0
             THEN KeepDisk /\ op' = Op("move", s, side.name) /\ UNCHANGED saved
             ELSE /\ Touch(partial, Side(Len(saved) + 1, FALSE))
                  /\ op' = Op("move", s, Len(saved) + 1)
                  /\ saved' = Append(saved, NoFile)
          /\ UNCHANGED down
    /\ UNCHANGED <<gc, errors, missed>>

\* move: a rename, or across filesystems a copy and then an unlink.
InFinish(step) ==
    /\ op.kind = step
    /\ UNCHANGED <<page, sock, alive, up, side, gc, crashes, days, missed>>
Put(f) == saved' = [saved EXCEPT ![op.name] = f]
Rename ==
    /\ InFinish("move")
    /\ partial # NoFile
    /\ Put(partial)
    /\ partial' = NoFile
    /\ op' = [op EXCEPT !.kind = "record"]
    /\ UNCHANGED <<down, fresh, errors>>
CopyStarts ==
    /\ InFinish("move")
    /\ partial # NoFile
    /\ Put(<<>>)
    /\ op' = [op EXCEPT !.kind = "copy", !.bytes = partial]
    /\ UNCHANGED <<down, partial, fresh, errors>>
CopyEnds ==
    /\ InFinish("copy")
    /\ Put(op.bytes)
    /\ op' = [op EXCEPT !.kind = "unlink", !.bytes = <<>>]
    /\ UNCHANGED <<down, partial, fresh, errors>>
Unlink ==
    /\ InFinish("unlink")
    /\ partial # NoFile
    /\ partial' = NoFile
    /\ op' = [op EXCEPT !.kind = "record"]
    /\ UNCHANGED <<down, saved, fresh, errors>>
\* The collector took the partial away under the move.
MoveFindsNothing ==
    /\ op.kind \in {"move", "unlink"}
    /\ partial = NoFile
    /\ Ends(op.from, Answer("disk"))
    /\ UNCHANGED <<page, sock, alive, up, diskVars, gc, countVars>>
FinishEnds ==
    /\ op.kind = "record"
    /\ Touch(partial, Side(op.name, TRUE))
    /\ Ends(op.from, Answer("done"))
    /\ UNCHANGED <<page, sock, alive, up, saved, gc, countVars>>

\* abort: the partial goes first, then the sidecar; a finished upload is kept.
AbortStart(s) ==
    /\ Takes(s, "abort")
    /\ \/ ~side.exists /\ partial' = NoFile /\ op' = NoOp
       \/ side.exists /\ side.done /\ UNCHANGED partial /\ op' = NoOp
       \/ side.exists /\ ~side.done /\ partial' = NoFile /\ op' = Op("abort", s, 0)
    /\ UNCHANGED <<down, side, saved, fresh, gc, errors, missed>>
AbortEnds ==
    /\ op.kind = "abort"
    /\ side' = NoSide
    /\ op' = NoOp
    /\ UNCHANGED <<page, sock, netVars, partial, saved, fresh, gc, countVars>>

\* A later file operation of a begin or a finish fails; a file half copied stays.
OperationFails ==
    /\ op.kind \in {"begin", "move", "copy", "unlink", "record"}
    /\ Fails(op.from)
    /\ UNCHANGED <<page, sock, alive, up, diskVars, gc, crashes, days, missed>>

-----------------------------------------------------------------------------
(* The collector, crashes and the network.                                 *)

\* The upload lies untouched for a day: nothing of it is under way anywhere.
DayPasses ==
    /\ days < MaxDays
    /\ op = NoOp /\ gc.st = "idle"
    /\ down = <<>> /\ \A s \in Socket : up[s] = <<>>
    /\ days' = days + 1
    /\ fresh' = FALSE
    /\ UNCHANGED <<page, sock, netVars, op, partial, side, saved, gc, crashes, errors, missed>>

Staged == {x \in {"partial", "side"} : IF x = "partial" THEN partial # NoFile ELSE side.exists}

\* gc reads the age of the staged files, ...
GcScan ==
    /\ gc.st = "idle" /\ ~fresh /\ Staged # {}
    /\ gc' = [st |-> "scanned", files |-> Staged]
    /\ UNCHANGED <<page, sock, netVars, op, diskVars, countVars>>
\* ... spares an id with an operation under way, ...
GcCheck ==
    /\ gc.st = "scanned"
    /\ gc' = IF op = NoOp THEN [gc EXCEPT !.st = "removing"] ELSE [st |-> "idle", files |-> {}]
    /\ UNCHANGED <<page, sock, netVars, op, diskVars, countVars>>
\* ... and removes the files it read the age of, one after the other.
GcRemove(x) ==
    /\ gc.st = "removing" /\ x \in gc.files
    /\ partial' = IF x = "partial" THEN NoFile ELSE partial
    /\ side' = IF x = "side" THEN NoSide ELSE side
    /\ gc' = [st |-> IF gc.files = {x} THEN "idle" ELSE "removing", files |-> gc.files \ {x}]
    /\ UNCHANGED <<page, sock, netVars, op, saved, fresh, countVars>>

\* The server crashes and restarts: only its files are left.
Crash ==
    /\ crashes < MaxCrashes
    /\ crashes' = crashes + 1
    /\ alive' = {} /\ up' = [s \in Socket |-> <<>>]
    /\ op' = NoOp
    /\ gc' = [st |-> "idle", files |-> {}]
    /\ UNCHANGED <<page, sock, down, diskVars, errors, days, missed>>

\* A socket dies on the server's side, with what it still carried.
SocketDies(s) ==
    /\ s \in alive
    /\ alive' = alive \ {s} /\ up' = [up EXCEPT ![s] = <<>>]
    /\ UNCHANGED <<page, sock, down, op, diskVars, gc, countVars>>

-----------------------------------------------------------------------------
PageStep == Connect \/ LoseSocket \/ ReadDone \/ Fail \/ Receive \/ Cancel \/ GiveUp
StagingStep ==
    \/ \E s \in Socket : \/ BeginKnown(s) \/ BeginNew(s) \/ WriteChunk(s)
                         \/ FinishStart(s) \/ AbortStart(s)
    \/ BeginNewEnds \/ AbortEnds \/ OperationFails
    \/ Rename \/ CopyStarts \/ CopyEnds \/ Unlink \/ MoveFindsNothing \/ FinishEnds
GcStep == DayPasses \/ GcScan \/ GcCheck \/ \E x \in gc.files : GcRemove(x)
Fault == Crash \/ \E s \in Socket : SocketDies(s)

Next == PageStep \/ StagingStep \/ GcStep \/ Fault

Spec == Init /\ [][Next]_vars

\* What the code's scheduling provides: a socket that still carries frames is
\* read, an operation that runs ends, an answer is handled, a read of the source
\* ends, a socket the server lost is noticed (the liveness watchdog), and a page
\* that waits connects or gives up in the end (the reconnect and waiting timers).
Fairness ==
    /\ WF_vars(StagingStep) /\ WF_vars(Receive) /\ WF_vars(ReadDone)
    /\ WF_vars(sock \notin alive /\ LoseSocket) /\ WF_vars(GiveUp)
FairSpec == Spec /\ Fairness

-----------------------------------------------------------------------------
(* Properties.                                                             *)

Prefix(f) == f # NoFile => Len(f) <= Size /\ \A i \in 1..Len(f) : f[i] = i

\* Every variable holds a value of its type, and the history too.
SystemTypes ==
    /\ page \in [phase : {"waiting"} \cup OnWire \cup Settled, acked : 0..Size, next : 0..Size,
                 inFlight : Seq([off : 0..Size, len : 1..MaxChunk]),
                 realigning : BOOLEAN, reading : {"no", "yes", "stale"}]
    /\ sock \in 0..MaxSockets /\ alive \subseteq Socket
    /\ up \in [Socket -> Seq([kind : {"begin", "chunk", "finish", "abort"},
                              off : 0..Size, len : 0..MaxChunk])]
    /\ down \in Seq([kind : {"offset", "done"} \cup Refusals, off : 0..Size])
    /\ op \in [kind : {"none", "begin", "move", "copy", "unlink", "record", "abort"},
               from : Nat, name : Nat, bytes : Seq(Nat)]
    /\ partial \in Seq(Nat) /\ saved \in Seq(Seq(Nat))
    /\ side \in [exists : BOOLEAN, name : 0..Len(saved), done : BOOLEAN]
    /\ fresh \in BOOLEAN
    /\ gc \in [st : {"idle", "scanned", "removing"}, files : SUBSET {"partial", "side"}]
    /\ crashes \in Nat /\ errors \in Nat /\ days \in Nat
TypeOK == SystemTypes /\ missed \in 0..MaxChunk

\* Whatever sockets, crashes and retries the bytes went through, an upload that
\* the sidecar or the page calls done is, byte for byte, the file that was picked.
Whole(n) == n \in DOMAIN saved /\ saved[n] = Source
DoneIsWhole ==
    /\ side.done => Whole(side.name)
    /\ page.phase = "done" => \E n \in DOMAIN saved : Whole(n)

\* Progress is never claimed for bytes the server does not have, but for those that
\* one short write left out.
Staging == IF partial = NoFile THEN 0 ELSE Len(partial)
AckedIsStaged ==
    page.phase \in OnWire => page.acked <= Staging + missed \/ \E n \in DOMAIN saved : Whole(n)

\* One upload makes one file, although its finish may be sent and handled again
\* after a lost answer or a crash.
SavedOnce == Len(saved) <= 1

\* The staging never answers the page that it asked for something no conforming
\* page would ask for (upload-staging.ts, the decision at finish), but that after a
\* short write the finish may find bytes missing.
NeverConfused ==
    \A i \in DOMAIN down :
        down[i].kind \in Confusions => down[i].kind = "incomplete" /\ missed > 0

\* What the comment at finish says (upload-staging.ts:298): "A conforming client only
\* finishes after its last ack reached `size`, so this is a client bug".  A chunk
\* written short is acknowledged whole, and then the finish of a page that follows
\* the protocol finds bytes missing and the upload fails.
FinishFindsAll == days = 0 => \A i \in DOMAIN down : down[i].kind # "incomplete"

\* The page and the staging agree on how far the upload is, until an upload left
\* alone for a day is collected.
PageAndStagingAgree == days = 0 => AckedIsStaged /\ NeverConfused

\* One picked file, one whole file in the target folder; an upload whose record was
\* collected before the page heard of its end may be made again, whole again.
WholeAndOnce ==
    /\ days = 0 \/ crashes + errors = 0 => DoneIsWhole
    /\ days = 0 => SavedOnce

\* An upload ends, one way or another: no lost chunk, stale read or missed answer
\* leaves the page waiting with nothing under way.
UploadEnds == <>(page.phase \in Settled)

\* What is collected has not been touched for 24 hours (index.ts:1217).
GcSparesFresh ==
    [][\A x \in gc.files : (gc.st = "removing" /\ x \notin gc'.files /\ gc.files # {}
         /\ crashes' = crashes) => ~fresh]_vars

\* The upload as its page sees it.
Promise == INSTANCE AtomicUpload WITH
    outcome <- IF page.phase \in Settled THEN page.phase ELSE "pending",
    arrived <- side.done,
    abandoned <- days > 0
KeepsPromise == Promise!Spec

-----------------------------------------------------------------------------
(* The inductive invariant behind DoneIsWhole, SavedOnce and KeepsPromise.  *)

Moving == {"move", "copy", "unlink"}
Finishing == Moving \cup {"record"}
Holds(s, kind) == \E i \in DOMAIN up[s] : up[s][i].kind = kind
Intact == days = 0 \/ crashes + errors = 0

\* The partial holds the first bytes of the source, all of them once it is moved,
\* and a finish under way works on a name that was given out.
BytesInOrder ==
    /\ Prefix(partial)
    /\ op.kind \in Moving => partial \in {NoFile, Source}
    /\ op.kind = "copy" => op.bytes = Source
    /\ op.kind \in Finishing => op.name \in DOMAIN saved
    /\ op.kind \in {"unlink", "record"} => saved[op.name] = Source

\* Nothing works on an upload that is done, and until the collector may come the
\* sidecar carries the name that a finish works on.
BusyIsOpen ==
    /\ op.kind # "none" => ~side.done
    /\ ~side.exists => side = NoSide
    /\ days = 0 /\ op.kind \in Finishing => side.exists /\ side.name = op.name
    /\ days = 0 /\ op.kind = "begin" => partial # NoFile /\ ~side.exists

\* The collector only comes to an upload that was left alone for a day.
CollectedIsOld == (gc.st # "idle" \/ gc.files # {} \/ ~fresh) => days > 0

\* Without a fault no file stays half copied; a partial that is gone from an open
\* upload is in its place, or the page cancelled and nothing of it is left to come.
Quiet == op.kind = "none" /\ page.phase = "aborted" /\ \A s \in Socket : up[s] = <<>>
NothingHalfCopied ==
    /\ crashes + errors = 0 =>
         \A n \in DOMAIN saved :
            saved[n] \in {NoFile, Source} \/ (op.kind = "copy" /\ op.name = n)
    /\ (days = 0 /\ side.exists /\ ~side.done /\ partial = NoFile) =>
         op.kind = "abort" \/ Whole(side.name) \/ Quiet

\* A file that was reported done is never the one being moved again.
Kept(n) == /\ Whole(n)
           /\ side.name = n => side.done
           /\ op.kind \in Moving => op.name # n
DoneIsComing(q) == \E i \in DOMAIN q : q[i].kind = "done"
Reported == page.phase = "done" \/ DoneIsComing(down)
ReportedIsKept ==
    /\ Intact /\ side.done => Whole(side.name)
    /\ Intact /\ Reported => \E n \in DOMAIN saved : Kept(n)
    /\ days = 0 /\ Reported => side.done

\* What a socket carries: a begin alone or what followed its answer, and an abort
\* last of all.  An operation that runs came on a socket the page has opened.
AbortLast(q) == \A i \in DOMAIN q : q[i].kind = "abort" => i = Len(q)
QueuesInOrder ==
    /\ \A s \in Socket : up[s] # <<>> => s \in {sock, sock - 1}
    /\ \A s \in Socket : ~(Holds(s, "begin") /\ Holds(s, "finish"))
    /\ \A s \in Socket : AbortLast(up[s])
    /\ \A s \in Socket : Holds(s, "abort") => page.phase = "aborted" /\ s = sock
    /\ op.kind # "none" => op.from \in 1..sock
    /\ op.kind = "abort" => page.phase = "aborted" /\ up[sock] = <<>>
    /\ op.kind = "begin" => ~Holds(op.from, "finish")

\* Until its begin is answered the page sends nothing else, nor is it told anything.
BegunFirst ==
    /\ page.phase \in OnWire => sock \in Socket
    /\ page.phase \in {"waiting", "aborted"} => down = <<>>
    /\ page.phase \in {"sending", "finishing"} =>
         ~Holds(sock, "begin") /\ ~(op.kind = "begin" /\ op.from = sock)
    /\ page.phase = "beginning" => ~Holds(sock, "finish")
    /\ page.phase = "beginning" /\ Holds(sock, "begin") =>
         down = <<>> /\ Len(up[sock]) = 1 /\ ~(op.kind # "none" /\ op.from = sock)
    /\ page.phase = "beginning" /\ op.kind = "begin" /\ op.from = sock => down = <<>>

\* Once a file has its name no other is given out: the sidecar holds it, or the
\* page cancelled and what is left to come cannot begin and finish again.
NamedOnce ==
    days = 0 =>
      /\ SavedOnce
      /\ Len(saved) = 1 /\ side.name = 0 =>
           /\ page.phase = "aborted"
           /\ \/ ~side.exists /\ op.kind # "begin" /\ \A s \in Socket : ~Holds(s, "begin")
              \/ \A s \in Socket : ~Holds(s, "finish")

IInv ==
    /\ SystemTypes /\ BytesInOrder /\ BusyIsOpen /\ CollectedIsOld /\ NothingHalfCopied
    /\ ReportedIsKept /\ QueuesInOrder /\ BegunFirst /\ NamedOnce

-----------------------------------------------------------------------------
(* The inductive invariant behind PageAndStagingAgree, on top of the other. *)

\* What the page was told is in the staging, or the file has arrived.
Stands(off) == off <= Staging + missed \/ \E n \in DOMAIN saved : Whole(n)
ClaimsStand ==
    days = 0 /\ page.phase \notin Settled =>
      /\ Stands(page.acked)
      /\ \A i \in DOMAIN down : down[i].kind = "offset" => Stands(down[i].off)
StagedInOrder ==
    days = 0 =>
      /\ ~side.exists => partial \in {NoFile, <<>>}
      /\ op.kind = "abort" => partial = NoFile

\* A socket that is lost carries nothing, a chunk is within the file, and nothing
\* but an abort follows a finish.
EndOf(c) == c.off + c.len
ChunksFit(q) == \A i \in DOMAIN q : q[i].kind = "chunk" => q[i].len > 0 /\ EndOf(q[i]) <= Size
AllAborts(q) == \A i \in DOMAIN q : q[i].kind = "abort"
FinishAlone(q) ==
    \A i \in DOMAIN q : q[i].kind = "finish" =>
        i = 1 /\ \A k \in DOMAIN q : k # i => q[k].kind = "abort"
FramesFit ==
    /\ \A s \in Socket : up[s] # <<>> => s \in alive
    /\ \A s \in Socket : ChunksFit(up[s]) /\ FinishAlone(up[s])
    /\ op.kind \in Finishing => AllAborts(up[op.from])

\* The window: what the page's socket carries there and back is what it waits for,
\* n of its chunks answered and the ones in q still to be taken up.
ServedFor(s) == op.kind # "none" /\ op.from = s
InWindow(q, n, w) ==
    /\ n + Len(q) <= Len(w)
    /\ \A i \in DOMAIN q : q[i] = Chunk(w[n + i].off, w[n + i].len)
OneAt(kind, kinds) ==
    /\ page.inFlight = <<>> /\ Len(up[sock]) + Len(down) <= 1
    /\ \A i \in DOMAIN up[sock] : up[sock][i].kind = kind
    /\ ServedFor(sock) => op.kind \in kinds /\ up[sock] = <<>> /\ down = <<>>
WindowKept ==
    /\ page.realigning => page.inFlight # <<>>
    /\ page.phase = "waiting" => page.inFlight = <<>>
    /\ page.phase = "beginning" => OneAt("begin", {"begin"})
    /\ page.phase = "finishing" => OneAt("finish", Finishing)
    /\ page.phase = "sending" =>
         /\ ~ServedFor(sock)
         /\ InWindow(up[sock], Len(down), page.inFlight)
         /\ sock \in alive => Len(down) + Len(up[sock]) = Len(page.inFlight)

\* Once the page knows where to go on, the upload is known; what works on it came on
\* its socket or on the one before; and while that one has a begin to come the partial
\* stays, unless the page's own finish took it.
Told == \E i \in DOMAIN down : down[i].kind = "offset"
Joined == \/ page.phase \in {"sending", "finishing"}
          \/ page.phase = "beginning" /\ Told
BeginElsewhere == \E s \in Socket \ {sock} : Holds(s, "begin")
JoinedIsKnown ==
    Joined =>
      /\ days = 0 => side.exists
      /\ op.kind # "none" => op.from \in {sock, sock - 1}
      /\ days = 0 /\ ~side.done /\ (page.phase = "finishing" => Holds(sock, "finish"))
         /\ BeginElsewhere => partial # NoFile

\* The page finishes only what is all there or on its way to its place.
ToldAll == \E i \in DOMAIN down : down[i].kind = "offset" /\ down[i].off = Size
SaysFull == \/ page.phase = "sending" /\ page.acked = Size
            \/ page.phase = "finishing" /\ Holds(sock, "finish")
            \/ page.phase \in {"beginning", "sending"} /\ ToldAll
FullWhenSaid ==
    days = 0 /\ missed = 0 /\ SaysFull => side.done \/ partial = NoFile \/ Len(partial) = Size

\* A finish that came on the socket before finds the page in step, so that no chunk is
\* left to come once the partial is gone; or lagging behind the page, which hears of a
\* chunk refused, or after a short write again and again of where the partial ends.
FinishElsewhere ==
    \E s \in Socket \ {sock} : Holds(s, "finish") \/ (op.kind \in Finishing /\ op.from = s)
Matched(d, w, n) == \A k \in 1..n : d[k].kind = "offset" /\ d[k].off = EndOf(w[k])
Runs(q, from, to) ==
    /\ q = <<>> => from = to
    /\ q # <<>> => q[1].off = from /\ EndOf(q[Len(q)]) = to
    /\ \A i \in DOMAIN q : EndOf(q[i]) <= to
    /\ \A i \in DOMAIN q : \A k \in DOMAIN q :
         (i < k => EndOf(q[i]) <= q[k].off) /\ (k = i + 1 => EndOf(q[i]) = q[k].off)
InStep ==
    /\ Matched(down, page.inFlight, Len(down))
    /\ partial = NoFile => up[sock] = <<>> /\ page.next = Size
    /\ partial # NoFile => Runs(up[sock], Len(partial), page.next)
Lags(d, w, n, len) ==
    /\ Matched(d, w, n)
    /\ \A i \in (n + 1)..Len(d) : d[i].kind = "offset" => d[i].off = len
Lagging ==
    /\ partial # NoFile /\ Len(partial) < Size /\ Len(partial) < page.next
    /\ \A i \in DOMAIN up[sock] : Len(partial) < up[sock][i].off
    /\ \E n \in 0..Len(down) : /\ page.realigning => n = 0
                               /\ Lags(down, page.inFlight, n, Len(partial))
Contested ==
    days = 0 /\ sock \in alive /\ ~side.done /\ (FinishElsewhere \/ partial = NoFile)
GoesOn ==
    Contested =>
      /\ page.phase = "beginning" =>
           \A i \in DOMAIN down : down[i].kind = "offset" =>
               down[i].off = IF partial = NoFile THEN Size ELSE Len(partial)
      /\ page.phase = "sending" => (~page.realigning /\ InStep) \/ Lagging

AInv ==
    /\ IInv /\ FramesFit /\ WindowKept /\ missed \in 0..MaxChunk
    /\ StagedInOrder /\ ClaimsStand /\ JoinedIsKnown /\ FullWhenSaid /\ GoesOn
    /\ days = 0 => NeverConfused
=============================================================================
