---------------------------- MODULE UploadProofs ----------------------------
(* Proofs about one resumable upload, for any file, any window and any     *)
(* number of sockets, crashes, errors and days.                            *)
EXTENDS Upload, TLAPS

PageType == [phase : {"waiting"} \cup OnWire \cup Settled, acked : 0..Size, next : 0..Size,
             inFlight : Seq([off : 0..Size, len : 1..MaxChunk]),
             realigning : BOOLEAN, reading : {"no", "yes", "stale"}]
FrameType == [kind : {"begin", "chunk", "finish", "abort"}, off : 0..Size, len : 0..MaxChunk]
AnswerType == [kind : {"offset", "done"} \cup Refusals, off : 0..Size]
OpType == [kind : {"none", "begin", "move", "copy", "unlink", "record", "abort"},
           from : Nat, name : Nat, bytes : Seq(Nat)]

--------------------
(* The bytes. *)

LEMMA SourceFacts ==
    /\ Source \in Seq(Nat) /\ Len(Source) = Size /\ Source # NoFile /\ Prefix(Source)
    /\ NoFile \in Seq(Nat) /\ Prefix(NoFile)
    /\ <<>> \in Seq(Nat) /\ <<>> # NoFile /\ Prefix(<<>>) /\ Len(<<>>) = 0
<1>1. Source \in Seq(Nat) /\ Len(Source) = Size /\ \A i \in 1..Size : Source[i] = i
  BY Sizes DEF Source
<1>2. NoFile \in Seq(Nat) /\ Len(NoFile) = 1 /\ NoFile[1] = 0 BY DEF NoFile
<1>3. Source # NoFile
  <2>1. SUFFICES ASSUME Source = NoFile PROVE FALSE OBVIOUS
  <2>2. Size = 1 BY <2>1, <1>1, <1>2
  <2>3. Source[1] = 1 BY <1>1, <2>2
  <2> QED BY <2>1, <2>3, <1>2
<1>4. Prefix(Source) BY <1>1, Sizes DEF Prefix
<1>5. <<>> \in Seq(Nat) /\ <<>> # NoFile /\ Len(<<>>) = 0 BY <1>2, SMTT(30)
<1>6. Prefix(<<>>) BY <1>5, Sizes DEF Prefix
<1> QED BY <1>1, <1>2, <1>3, <1>4, <1>5, <1>6 DEF Prefix

\* A file of as many bytes as the source, each at its place, is the source.
LEMMA WholePrefix ==
    ASSUME NEW f \in Seq(Nat), f # NoFile, Prefix(f), Len(f) = Size
    PROVE  f = Source
<1>1. \A i \in 1..Size : f[i] = i BY DEF Prefix
<1>2. f = [i \in 1..Size |-> f[i]] BY Sizes
<1> QED BY <1>1, <1>2, SourceFacts, Sizes DEF Source

\* Bytes written where the partial ends leave every byte at its place.
LEMMA WrittenIsPrefix ==
    ASSUME NEW f \in Seq(Nat), f # NoFile, Prefix(f), NEW n \in Nat, Len(f) + n <= Size
    PROVE  /\ Written(f, Len(f), n) \in Seq(Nat) /\ Written(f, Len(f), n) # NoFile
           /\ Prefix(Written(f, Len(f), n)) /\ Len(Written(f, Len(f), n)) = Len(f) + n
<1> DEFINE w == Written(f, Len(f), n)
<1>1. Len(f) \in Nat /\ \A i \in 1..Len(f) : f[i] = i BY DEF Prefix
<1>2. w = [i \in 1..(Len(f) + n) |-> i]
  <2>1. \A i \in 1..(Len(f) + n) :
          (IF i <= Len(f) THEN f[i] ELSE Len(f) + i - Len(f)) = i
    BY <1>1
  <2> QED BY <2>1 DEF Written
<1> HIDE DEF w
<1>3. w \in Seq(Nat) /\ Len(w) = Len(f) + n /\ \A i \in 1..(Len(f) + n) : w[i] = i BY <1>1, <1>2
<1>4. Prefix(w) BY <1>3 DEF Prefix
<1>5. w # NoFile
  <2>1. SUFFICES ASSUME w = NoFile PROVE FALSE OBVIOUS
  <2>2. Len(w) = 1 /\ w[1] = 0 BY <2>1 DEF NoFile
  <2>3. 1 \in 1..(Len(f) + n) BY <2>2, <1>3, <1>1
  <2> QED BY <2>2, <2>3, <1>3
<1> QED BY <1>3, <1>4, <1>5 DEF w

--------------------
(* The queues. *)

\* What is appended to a queue, and what is taken from it.
LEMMA QueueAppend ==
    ASSUME NEW T, NEW q \in Seq(T), NEW e \in T, NEW r, r = Append(q, e)
    PROVE  /\ r \in Seq(T) /\ r # <<>> /\ Len(r) = Len(q) + 1
           /\ \A i \in DOMAIN r : (i \in DOMAIN q /\ r[i] = q[i]) \/ (i = Len(r) /\ r[i] = e)
<1>1. r \in Seq(T) /\ Len(r) = Len(q) + 1 /\ Len(q) \in Nat OBVIOUS
<1>2. \A i \in 1..(Len(q) + 1) : r[i] = IF i <= Len(q) THEN q[i] ELSE e OBVIOUS
<1>3. DOMAIN r = 1..(Len(q) + 1) /\ DOMAIN q = 1..Len(q) BY <1>1
<1> QED BY <1>1, <1>2, <1>3

LEMMA QueueTail ==
    ASSUME NEW T, NEW q \in Seq(T), q # <<>>, NEW r, r = Tail(q)
    PROVE  /\ r \in Seq(T) /\ Len(r) = Len(q) - 1 /\ Len(q) \in Nat \ {0}
           /\ Head(q) \in T /\ 1 \in DOMAIN q /\ Head(q) = q[1]
           /\ \A i \in DOMAIN r : i + 1 \in DOMAIN q /\ r[i] = q[i + 1] /\ i \in 1..Len(r)
<1>1. r \in Seq(T) /\ Len(r) = Len(q) - 1 /\ Len(q) \in Nat \ {0} OBVIOUS
<1>2. DOMAIN r = 1..(Len(q) - 1) /\ DOMAIN q = 1..Len(q) BY <1>1
<1>3. \A i \in 1..(Len(q) - 1) : r[i] = q[i + 1] BY <1>1
<1> QED BY <1>1, <1>2, <1>3

\* An answer appended or taken away.
LEMMA DoneAppended ==
    ASSUME NEW q \in Seq(AnswerType), NEW a \in AnswerType, DoneIsComing(Append(q, a))
    PROVE  DoneIsComing(q) \/ a.kind = "done"
<1> DEFINE r == Append(q, a)
<1>1. \A i \in DOMAIN r : (i \in DOMAIN q /\ r[i] = q[i]) \/ (i = Len(r) /\ r[i] = a) BY QueueAppend
<1>2. PICK i \in DOMAIN r : r[i].kind = "done" BY DEF DoneIsComing
<1> QED BY <1>1, <1>2 DEF DoneIsComing

LEMMA DoneTaken ==
    ASSUME NEW q \in Seq(AnswerType), q # <<>>
    PROVE  /\ Tail(q) \in Seq(AnswerType) /\ Head(q) \in AnswerType
           /\ DoneIsComing(Tail(q)) => DoneIsComing(q)
           /\ Head(q).kind = "done" => DoneIsComing(q)
<1> DEFINE r == Tail(q)
<1>1. /\ r \in Seq(AnswerType) /\ Head(q) \in AnswerType /\ 1 \in DOMAIN q /\ Head(q) = q[1]
      /\ \A i \in DOMAIN r : i + 1 \in DOMAIN q /\ r[i] = q[i + 1]
  BY QueueTail
<1>2. ASSUME DoneIsComing(r) PROVE DoneIsComing(q)
  <2>1. PICK i \in DOMAIN r : r[i].kind = "done" BY <1>2 DEF DoneIsComing
  <2> QED BY <1>1, <2>1 DEF DoneIsComing
<1>3. ASSUME Head(q).kind = "done" PROVE DoneIsComing(q) BY <1>1, <1>3 DEF DoneIsComing
<1> QED BY <1>1, <1>2, <1>3

--------------------
(* The sockets. *)

Kinds == {"begin", "chunk", "finish", "abort"}
UpType == [Socket -> Seq(FrameType)]

\* A step that brings nothing new on its way to the server.
Fewer ==
    /\ up' \in UpType
    /\ \A s \in Socket :
         /\ up'[s] # <<>> => up[s] # <<>>
         /\ AbortLast(up[s]) => AbortLast(up'[s])
         /\ Len(up'[s]) <= Len(up[s])
         /\ \A k \in Kinds : Holds(s, k)' => Holds(s, k)

LEMMA FewerWhenSame == ASSUME up \in UpType, up' = up PROVE Fewer
<1>1. \A s \in Socket : up[s] \in Seq(FrameType) BY DEF UpType
<1>2. \A s \in Socket : Len(up[s]) \in Nat BY <1>1
<1> QED BY <1>2 DEF Fewer, Holds

LEMMA FewerWhenCleared ==
    ASSUME up \in UpType, up' \in UpType,
           \A s \in Socket : up'[s] = up[s] \/ up'[s] = <<>>
    PROVE  Fewer
<1> SUFFICES ASSUME NEW s \in Socket
             PROVE  /\ up'[s] # <<>> => up[s] # <<>>
                    /\ AbortLast(up[s]) => AbortLast(up'[s])
                    /\ Len(up'[s]) <= Len(up[s])
                    /\ \A k \in Kinds : Holds(s, k)' => Holds(s, k)
  BY DEF Fewer
<1>1. up[s] \in Seq(FrameType) /\ Len(up[s]) \in Nat BY DEF UpType
<1>2. CASE up'[s] = up[s] BY <1>1, <1>2 DEF Holds
<1>3. CASE up'[s] = <<>> BY <1>1, <1>3 DEF Holds, AbortLast
<1> QED BY <1>2, <1>3

\* A frame taken from the head of a queue.
LEMMA TakesFacts ==
    ASSUME up \in UpType, NEW s \in Socket, NEW k \in Kinds, Takes(s, k)
    PROVE  /\ Fewer /\ op = NoOp /\ Holds(s, k) /\ up[s] # <<>>
           /\ up'[s] = Tail(up[s]) /\ Len(up'[s]) = Len(up[s]) - 1 /\ Len(up[s]) \in Nat \ {0}
           /\ AbortLast(up[s]) /\ k = "abort" => up'[s] = <<>>
           /\ Head(up[s]) \in FrameType /\ Head(up[s]).kind = k
<1>1. op = NoOp /\ up[s] # <<>> /\ Head(up[s]).kind = k /\ up' = [up EXCEPT ![s] = Tail(up[s])]
  BY DEF Takes
<1>2. \A t \in Socket : up[t] \in Seq(FrameType) /\ Len(up[t]) \in Nat BY DEF UpType
<1>3. up'[s] = Tail(up[s]) /\ \A t \in Socket \ {s} : up'[t] = up[t] BY <1>1 DEF UpType
<1> DEFINE q == up[s]
<1> DEFINE r == up'[s]
<1>4. q \in Seq(FrameType) /\ q # <<>> /\ r = Tail(q) BY <1>1, <1>2, <1>3
<1>5. /\ r \in Seq(FrameType) /\ Len(r) = Len(q) - 1 /\ Len(q) \in Nat \ {0}
      /\ Head(q) \in FrameType /\ 1 \in DOMAIN q /\ Head(q) = q[1]
      /\ \A i \in DOMAIN r : i + 1 \in DOMAIN q /\ r[i] = q[i + 1] /\ i \in 1..Len(r)
      <2> HIDE DEF q, r
      <2> QED BY <1>4, QueueTail
<1>6. up' \in UpType BY <1>1, <1>5 DEF UpType
<1>7. AbortLast(q) => AbortLast(r) BY <1>5 DEF AbortLast
<1>8. \A j \in Kinds : Holds(s, j)' => Holds(s, j) BY <1>5 DEF Holds
<1>9. Fewer
  <2> SUFFICES ASSUME NEW t \in Socket
               PROVE  /\ up'[t] # <<>> => up[t] # <<>>
                      /\ AbortLast(up[t]) => AbortLast(up'[t])
                      /\ Len(up'[t]) <= Len(up[t])
                      /\ \A j \in Kinds : Holds(t, j)' => Holds(t, j)
    BY <1>6 DEF Fewer
  <2>1. CASE t = s
    <3>1. up'[t] # <<>> => up[t] # <<>> BY <1>1, <2>1
    <3>2. Len(up'[t]) <= Len(up[t]) BY <1>5, <2>1
    <3> QED BY <3>1, <3>2, <1>7, <1>8, <2>1
  <2>2. CASE t # s
    <3>1. up'[t] = up[t] BY <1>3, <2>2
    <3> QED BY <3>1, <1>2 DEF Holds
  <2> QED BY <2>1, <2>2
<1>10. Holds(s, k) BY <1>1, <1>5 DEF Holds
<1>11. ASSUME AbortLast(q), k = "abort" PROVE r = <<>>
  <2>1. Len(q) = 1 BY <1>1, <1>5, <1>11 DEF AbortLast
  <2> HIDE DEF q, r
  <2> QED BY <2>1, <1>5
<1> QED BY <1>1, <1>4, <1>5, <1>9, <1>10, <1>11

\* A frame handed to the page's socket.
LEMMA SentFacts ==
    ASSUME up \in UpType, sock \in Socket, NEW f \in FrameType, up' = Sent(f)
    PROVE  /\ up' \in UpType
           /\ \A t \in Socket \ {sock} : up'[t] = up[t]
           /\ up'[sock] = up[sock] \/ up'[sock] = Append(up[sock], f)
           /\ \A t \in Socket, j \in Kinds :
                Holds(t, j)' => Holds(t, j) \/ (t = sock /\ j = f.kind)
           /\ ~Holds(sock, "abort") => AbortLast(up'[sock])
<1>1. \A t \in Socket : up[t] \in Seq(FrameType) /\ Len(up[t]) \in Nat BY DEF UpType
<1>2. CASE sock \in alive
  <2>1. up' = [up EXCEPT ![sock] = Append(up[sock], f)] BY <1>2 DEF Sent
  <2>2. up'[sock] = Append(up[sock], f) /\ \A t \in Socket \ {sock} : up'[t] = up[t]
    BY <2>1 DEF UpType
  <2> DEFINE q == up[sock]
  <2> DEFINE r == up'[sock]
  <2>3. q \in Seq(FrameType) /\ r = Append(q, f) BY <1>1, <2>2
  <2>4. /\ r \in Seq(FrameType) /\ Len(r) = Len(q) + 1
        /\ \A i \in DOMAIN r : (i \in DOMAIN q /\ r[i] = q[i]) \/ (i = Len(r) /\ r[i] = f)
    <3> HIDE DEF q, r
    <3> QED BY <2>3, QueueAppend
  <2>5. up' \in UpType BY <2>1, <2>4, <2>2 DEF UpType
  <2>6. \A t \in Socket, j \in Kinds : Holds(t, j)' => Holds(t, j) \/ (t = sock /\ j = f.kind)
    <3> TAKE t \in Socket, j \in Kinds
    <3>1. CASE t = sock BY <2>4, <3>1 DEF Holds
    <3>2. CASE t # sock BY <2>2, <3>2 DEF Holds
    <3> QED BY <3>1, <3>2
  <2>7. ~Holds(sock, "abort") => AbortLast(r) BY <2>4 DEF Holds, AbortLast
  <2> QED BY <2>2, <2>5, <2>6, <2>7
<1>3. CASE sock \notin alive
  <2>1. up' = up BY <1>3 DEF Sent
  <2> QED BY <2>1 DEF Holds, AbortLast
<1> QED BY <1>2, <1>3

LEMMA TypesOf ==
    ASSUME SystemTypes
    PROVE  /\ page \in PageType /\ up \in UpType /\ down \in Seq(AnswerType) /\ op \in OpType
           /\ sock \in 0..MaxSockets /\ partial \in Seq(Nat) /\ saved \in Seq(Seq(Nat))
           /\ side \in [exists : BOOLEAN, name : 0..Len(saved), done : BOOLEAN]
           /\ Len(saved) \in Nat /\ DOMAIN saved = 1..Len(saved)
           /\ \A s \in Socket : up[s] \in Seq(FrameType)
<1>1. page \in PageType BY DEF SystemTypes, PageType
<1>2. up \in UpType BY DEF SystemTypes, UpType, FrameType
<1>3. down \in Seq(AnswerType) /\ op \in OpType BY DEF SystemTypes, AnswerType, OpType
<1>4. \A s \in Socket : up[s] \in Seq(FrameType) BY <1>2 DEF UpType
<1>5. /\ sock \in 0..MaxSockets /\ partial \in Seq(Nat) /\ saved \in Seq(Seq(Nat))
      /\ side \in [exists : BOOLEAN, name : 0..Len(saved), done : BOOLEAN]
  BY DEF SystemTypes
<1>6. Len(saved) \in Nat /\ DOMAIN saved = 1..Len(saved) BY <1>5
<1> QED BY <1>1, <1>2, <1>3, <1>4, <1>5, <1>6

\* What may happen to the answers while the server works.
DownOK ==
    \/ down' = down
    \/ /\ page.phase \in OnWire /\ op' = NoOp
       /\ page.phase = "beginning" => ~Holds(sock, "begin")'
OpOK ==
    \/ op' = op \/ op' = NoOp
    \/ /\ op.kind \in Finishing /\ op'.kind \in Finishing /\ op'.from = op.from

\* The order in the queues survives a step of the server that starts nothing.
LEMMA ServerNet ==
    ASSUME SystemTypes, QueuesInOrder, BegunFirst, Fewer, page' = page, sock' = sock, DownOK, OpOK
    PROVE  QueuesInOrder' /\ BegunFirst'
<1>1. /\ up' \in UpType
      /\ \A s \in Socket : up'[s] # <<>> => up[s] # <<>>
      /\ \A s \in Socket : AbortLast(up[s]) => AbortLast(up'[s])
      /\ \A s \in Socket : Len(up'[s]) <= Len(up[s])
      /\ \A s \in Socket, k \in Kinds : Holds(s, k)' => Holds(s, k)
  BY DEF Fewer
<1>2. /\ {"begin", "finish", "abort"} \subseteq Kinds
      /\ \A s \in Socket : up[s] \in Seq(FrameType) /\ up'[s] \in Seq(FrameType)
  BY <1>1, TypesOf DEF Kinds, UpType
<1>3. \A s \in Socket, k \in Kinds : Holds(s, k)' => Len(up'[s]) >= 1 BY <1>2 DEF Holds
<1>4. op'.kind \in {"none", op.kind} \/ (op.kind \in Finishing /\ op'.kind \in Finishing)
  BY DEF OpOK, NoOp, Op
<1>5. op'.kind # "none" => op'.from = op.from /\ op.kind # "none"
  BY DEF OpOK, NoOp, Op, Finishing, Moving
<1>6. op'.kind \in {"begin", "abort"} => op' = op BY DEF OpOK, NoOp, Op, Finishing, Moving
<1>7. op.kind # "none" => op.from \in 1..sock /\ op.from \in Socket /\ sock \in Socket
  BY TypesOf, Bounds DEF QueuesInOrder, Socket
<1>8. QueuesInOrder'
  <2>1. \A s \in Socket : up'[s] # <<>> => s \in {sock, sock - 1} BY <1>1 DEF QueuesInOrder
  <2>2. \A s \in Socket : ~(Holds(s, "begin")' /\ Holds(s, "finish")')
    BY <1>1, <1>2 DEF QueuesInOrder
  <2>3. \A s \in Socket : AbortLast(up'[s]) BY <1>1 DEF QueuesInOrder
  <2>4. \A s \in Socket : Holds(s, "abort")' => page.phase = "aborted" /\ s = sock
    BY <1>1, <1>2 DEF QueuesInOrder
  <2>5. op'.kind # "none" => op'.from \in 1..sock BY <1>5, <1>7
  <2>6. op'.kind = "abort" => page.phase = "aborted" /\ up'[sock] = <<>>
    BY <1>1, <1>6, <1>7 DEF QueuesInOrder
  <2>7. op'.kind = "begin" => ~Holds(op.from, "finish")'
    <3> SUFFICES ASSUME op'.kind = "begin" PROVE ~Holds(op.from, "finish")' OBVIOUS
    <3>1. op' = op /\ op.kind = "begin" /\ op.from \in Socket BY <1>6, <1>7
    <3>2. ~Holds(op.from, "finish") BY <3>1 DEF QueuesInOrder
    <3>3. \A s \in Socket : Holds(s, "finish")' => Holds(s, "finish") BY <1>1, <1>2
    <3>4. \A s \in Socket : s = op.from => ~Holds(s, "finish")' BY <3>2, <3>3
    <3> QED BY <3>1, <3>4
  <2> QED BY <2>1, <2>2, <2>3, <2>4, <2>5, <2>6, <2>7 DEF QueuesInOrder, AbortLast
<1>9. BegunFirst'
  <2>1. page.phase \in OnWire => sock \in Socket BY DEF BegunFirst
  <2>2. page.phase \in {"waiting", "aborted"} => down' = <<>> BY DEF BegunFirst, DownOK, OnWire
  <2>3. page.phase \in {"sending", "finishing"} =>
          ~Holds(sock, "begin")' /\ ~(op'.kind = "begin" /\ op'.from = sock)
    BY <1>1, <1>2, <1>6, <2>1 DEF BegunFirst, OnWire
  <2>4. page.phase = "beginning" => ~Holds(sock, "finish")'
    BY <1>1, <1>2, <2>1 DEF BegunFirst, OnWire
  <2>5. page.phase = "beginning" /\ Holds(sock, "begin")' =>
          down' = <<>> /\ Len(up'[sock]) = 1 /\ ~(op'.kind # "none" /\ op'.from = sock)
    <3> SUFFICES ASSUME page.phase = "beginning", Holds(sock, "begin")'
                 PROVE  down' = <<>> /\ Len(up'[sock]) = 1 /\ ~(op'.kind # "none" /\ op'.from = sock)
      OBVIOUS
    <3>1. sock \in Socket /\ Holds(sock, "begin") BY <1>1, <1>2, <2>1 DEF OnWire
    <3>2. down = <<>> /\ Len(up[sock]) = 1 /\ ~(op.kind # "none" /\ op.from = sock)
      BY <3>1 DEF BegunFirst
    <3>3. Len(up'[sock]) = 1
      <4> DEFINE n == Len(up'[sock])
      <4>1. n <= 1 BY <1>1, <3>1, <3>2
      <4>2. up'[sock] \in Seq(FrameType) BY <1>2, <3>1
      <4>3. n \in Nat /\ n # 0 BY <4>2 DEF Holds
      <4> HIDE DEF n
      <4>4. n = 1 BY <4>1, <4>3
      <4> QED BY <4>4 DEF n
    <3>4. down' = <<>> BY <3>2 DEF DownOK
    <3>5. ~(op'.kind # "none" /\ op'.from = sock) BY <3>2, <1>5
    <3> QED BY <3>3, <3>4, <3>5
  <2>6. page.phase = "beginning" /\ op'.kind = "begin" /\ op'.from = sock => down' = <<>>
    BY <1>6 DEF BegunFirst, DownOK, NoOp, Op
  <2> QED BY <2>1, <2>2, <2>3, <2>4, <2>5, <2>6 DEF BegunFirst
<1> QED BY <1>8, <1>9

--------------------
(* The page. *)

LEMMA FrameTypes ==
    /\ \A k \in {"begin", "finish", "abort"} : Frame(k) \in FrameType /\ Frame(k).kind = k
    /\ \A o \in 0..Size, n \in 1..MaxChunk : Chunk(o, n) \in FrameType /\ Chunk(o, n).kind = "chunk"
    /\ \A o \in 0..Size : Offset(o) \in AnswerType /\ Offset(o).kind = "offset"
    /\ \A k \in {"done"} \cup Refusals : Answer(k) \in AnswerType /\ Answer(k).kind = k
BY Sizes DEF Frame, Chunk, Offset, Answer, FrameType, AnswerType

\* pumpUpload only sends the finish, and only of an upload that was sending.
LEMMA PumpFacts ==
    ASSUME NEW p \in PageType, NEW frames, Pump(p, frames)
    PROVE  /\ page' \in PageType
           /\ \/ page'.phase = p.phase /\ up' = frames
              \/ /\ p.phase = "sending" /\ page'.phase = "finishing"
                 /\ up' = Sent(Frame("finish"))
<1>1. /\ [p EXCEPT !.phase = "finishing"] \in PageType
      /\ [p EXCEPT !.phase = "finishing"].phase = "finishing"
  BY DEF PageType, OnWire
<1>2. [p EXCEPT !.reading = "yes"] \in PageType /\ [p EXCEPT !.reading = "yes"].phase = p.phase
  BY DEF PageType
<1>3. CASE page' = p /\ up' = frames BY <1>3
<1>4. CASE ~Blocked(p) /\ page' = [p EXCEPT !.phase = "finishing"] /\ up' = Sent(Frame("finish"))
  BY <1>1, <1>4 DEF Blocked
<1>5. CASE page' = [p EXCEPT !.reading = "yes"] /\ up' = frames BY <1>2, <1>5
<1> QED BY <1>3, <1>4, <1>5 DEF Pump

\* The order in the queues survives what the page does on the socket it has.
LEMMA PageNet ==
    ASSUME SystemTypes, QueuesInOrder, BegunFirst, sock' = sock, op' = op,
           NEW f \in FrameType,
           up' = up \/ (page.phase \in OnWire /\ up' = Sent(f)),
           page.phase = "aborted" => page'.phase = "aborted" /\ up' = up,
           up' = up \/ (f.kind = "chunk" /\ page'.phase = "sending")
                    \/ (f.kind = "finish" /\ page'.phase = "finishing")
                    \/ (f.kind = "abort" /\ page'.phase = "aborted"),
           page'.phase \in OnWire => page.phase \in OnWire,
           page'.phase \in {"waiting", "aborted"} => down' = <<>>,
           page'.phase = "beginning" => page.phase = "beginning" /\ up' = up /\ down' = down,
           page'.phase \in {"sending", "finishing"} =>
             page.phase \in {"sending", "finishing"} \/ (page.phase = "beginning" /\ down # <<>>)
    PROVE  QueuesInOrder' /\ BegunFirst'
<1>1. CASE up' = up
  <2>1. \A s, k : Holds(s, k)' <=> Holds(s, k) BY <1>1 DEF Holds
  <2>2. QueuesInOrder' BY <1>1, <2>1 DEF QueuesInOrder
  <2>3. BegunFirst' BY <1>1, <2>1 DEF BegunFirst
  <2> QED BY <2>2, <2>3
<1>2. CASE up' # up
  <2>1. page.phase \in OnWire /\ up' = Sent(f) /\ sock \in Socket /\ up \in UpType
    BY <1>2, TypesOf DEF BegunFirst
  <2>2. /\ up' \in UpType
        /\ \A t \in Socket \ {sock} : up'[t] = up[t]
        /\ \A t \in Socket, j \in Kinds :
             Holds(t, j)' => Holds(t, j) \/ (t = sock /\ j = f.kind)
        /\ ~Holds(sock, "abort") => AbortLast(up'[sock])
    BY <2>1, SentFacts
  <2>3. {"begin", "finish", "abort"} \subseteq Kinds BY DEF Kinds
  <2>4. page.phase # "aborted" /\ ~Holds(sock, "abort") /\ op.kind # "abort"
    BY <2>1 DEF QueuesInOrder, OnWire
  <2>5. page'.phase \in {"sending", "finishing"} =>
          ~Holds(sock, "begin") /\ ~(op.kind = "begin" /\ op.from = sock)
    BY DEF BegunFirst
  <2>6. QueuesInOrder'
    <3>1. \A s \in Socket : up'[s] # <<>> => s \in {sock, sock - 1} BY <2>2 DEF QueuesInOrder
    <3>2. \A s \in Socket : ~(Holds(s, "begin")' /\ Holds(s, "finish")')
      BY <1>2, <2>2, <2>3, <2>5 DEF QueuesInOrder
    <3>3. \A s \in Socket : AbortLast(up'[s]) BY <2>2, <2>4 DEF QueuesInOrder
    <3>4. \A s \in Socket : Holds(s, "abort")' => page'.phase = "aborted" /\ s = sock
      BY <1>2, <2>2, <2>3, <2>4 DEF QueuesInOrder
    <3>5. op.kind = "begin" => ~Holds(op.from, "finish")'
      <4> SUFFICES ASSUME op.kind = "begin" PROVE ~Holds(op.from, "finish")' OBVIOUS
      <4>1. op.from \in Socket /\ ~Holds(op.from, "finish")
        BY TypesOf, Bounds DEF QueuesInOrder, Socket
      <4>2. f.kind = "finish" => op.from # sock BY <1>2, <2>5
      <4>3. \A s \in Socket : s = op.from => ~Holds(s, "finish")' BY <2>2, <2>3, <4>1, <4>2
      <4> QED BY <4>1, <4>3
    <3> QED BY <3>1, <3>2, <3>3, <3>4, <3>5, <2>4 DEF QueuesInOrder
  <2>7. BegunFirst'
    <3>1. page'.phase \in {"sending", "finishing"} =>
            ~Holds(sock, "begin")' /\ ~(op.kind = "begin" /\ op.from = sock)
      BY <1>2, <2>1, <2>2, <2>3, <2>5
    <3>2. page'.phase # "beginning" BY <1>2
    <3> QED BY <3>1, <3>2, <2>1 DEF BegunFirst
  <2> QED BY <2>6, <2>7
<1> QED BY <1>1, <1>2

DiskInv ==
    /\ BytesInOrder /\ BusyIsOpen /\ CollectedIsOld /\ NothingHalfCopied
    /\ ReportedIsKept /\ NamedOnce

\* What the page does on its own leaves the files and the operation alone.
LEMMA PageDisk ==
    ASSUME IInv, UNCHANGED <<op, diskVars, gc, countVars>>,
           page.phase = "aborted" => page'.phase = "aborted" /\ up' = up,
           Reported' => Reported
    PROVE  DiskInv'
<1>1. UNCHANGED <<op, partial, side, saved, fresh, gc, crashes, errors, days>>
  BY DEF diskVars, countVars
<1>2. BytesInOrder' /\ BusyIsOpen' /\ CollectedIsOld'
  BY <1>1 DEF IInv, BytesInOrder, BusyIsOpen, CollectedIsOld, Prefix
<1>3. Quiet => Quiet' BY <1>1 DEF Quiet
<1>4. NothingHalfCopied' BY <1>1, <1>3 DEF IInv, NothingHalfCopied, Whole
<1>5. ReportedIsKept'
  <2>1. \A n : Kept(n)' <=> Kept(n) BY <1>1 DEF Kept, Whole
  <2> QED BY <1>1, <2>1 DEF IInv, ReportedIsKept, Intact, Whole
<1>6. NamedOnce'
  <2>1. page.phase = "aborted" => \A s, k : Holds(s, k)' <=> Holds(s, k) BY DEF Holds
  <2> QED BY <1>1, <2>1 DEF IInv, NamedOnce, SavedOnce
<1> QED BY <1>2, <1>4, <1>5, <1>6 DEF DiskInv

LEMMA PageTypes ==
    ASSUME SystemTypes, UNCHANGED <<op, diskVars, gc, countVars>>,
           page' \in PageType, up' \in UpType, down' \in Seq(AnswerType),
           sock' \in 0..MaxSockets, alive' \subseteq Socket
    PROVE  SystemTypes'
<1>1. UNCHANGED <<op, partial, side, saved, fresh, gc, crashes, errors, days>>
  BY DEF diskVars, countVars
<1>2. /\ page' \in [phase : {"waiting"} \cup OnWire \cup Settled, acked : 0..Size, next : 0..Size,
                    inFlight : Seq([off : 0..Size, len : 1..MaxChunk]),
                    realigning : BOOLEAN, reading : {"no", "yes", "stale"}]
      /\ sock' \in 0..MaxSockets /\ alive' \subseteq Socket
  BY DEF PageType
<1>3. /\ up' \in [Socket -> Seq([kind : {"begin", "chunk", "finish", "abort"},
                                 off : 0..Size, len : 0..MaxChunk])]
      /\ down' \in Seq([kind : {"offset", "done"} \cup Refusals, off : 0..Size])
  BY DEF UpType, FrameType, AnswerType
<1> QED BY <1>1, <1>2, <1>3 DEF SystemTypes

\* The parts together.
LEMMA Together ==
    ASSUME SystemTypes', DiskInv', QueuesInOrder', BegunFirst'
    PROVE  IInv'
BY DEF IInv, DiskInv

LEMMA ConnectKeeps == ASSUME IInv, Connect PROVE IInv'
<1> USE DEF Connect
<1>1. page \in PageType /\ up \in UpType /\ down \in Seq(AnswerType) /\ op \in OpType
  BY TypesOf DEF IInv
<1>2. /\ page.phase = "waiting" /\ page'.phase = "beginning" /\ page' \in PageType
      /\ down' = down /\ UNCHANGED <<op, diskVars, gc, countVars>>
  <2> DEFINE r == Stale(page.reading)
  <2>1. r \in {"no", "yes", "stale"} BY <1>1 DEF Stale, PageType
  <2> HIDE DEF r
  <2>2. page' = [page EXCEPT !.phase = "beginning", !.reading = r] BY DEF r
  <2>3. "beginning" \in OnWire BY DEF OnWire
  <2> QED BY <1>1, <2>1, <2>2, <2>3 DEF PageType
<1>3. sock' = sock + 1 /\ sock \in Nat /\ sock' \in Socket /\ sock' \in 0..MaxSockets /\ sock' # sock
  BY Bounds, TypesOf DEF IInv, Socket
<1>4. down = <<>> BY <1>2 DEF IInv, BegunFirst
<1>5. /\ up'[sock'] = <<Frame("begin")>>
      /\ \A s \in Socket \ {sock'} : up'[s] = up[s] \/ up'[s] = <<>>
      /\ \A s \in Socket : up'[s] # <<>> => s \in {sock', sock}
  BY <1>3
<1>6. up' \in UpType
  <2>1. <<Frame("begin")>> \in Seq(FrameType) BY FrameTypes
  <2>2. \A s \in Socket : up[s] \in Seq(FrameType) BY <1>1 DEF UpType
  <2>3. \A s \in Socket : up'[s] \in Seq(FrameType) BY <2>1, <2>2, <1>5
  <2> QED BY <2>3 DEF UpType
<1>7. alive' \subseteq Socket BY <1>3 DEF IInv, SystemTypes
<1>8. SystemTypes' BY <1>1, <1>2, <1>3, <1>6, <1>7, PageTypes DEF IInv
<1>9. /\ \A i \in DOMAIN up'[sock'] : up'[sock'][i].kind = "begin"
      /\ Len(up'[sock']) = 1
  <2>1. Frame("begin").kind = "begin" BY FrameTypes
  <2> DEFINE f == Frame("begin")
  <2> HIDE DEF f
  <2>2. DOMAIN <<f>> = {1} /\ <<f>>[1] = f /\ Len(<<f>>) = 1 OBVIOUS
  <2>3. up'[sock'] = <<f>> BY <1>5 DEF f
  <2>4. f.kind = "begin" BY <2>1 DEF f
  <2> HIDE <1>5
  <2> QED BY <2>2, <2>3, <2>4
<1>10. /\ \A s \in Socket : ~(Holds(s, "begin")' /\ Holds(s, "finish")')
       /\ \A s \in Socket : AbortLast(up'[s])
       /\ \A s \in Socket : ~Holds(s, "abort")'
  <2> SUFFICES ASSUME NEW s \in Socket
               PROVE  /\ ~(Holds(s, "begin")' /\ Holds(s, "finish")')
                      /\ AbortLast(up'[s]) /\ ~Holds(s, "abort")'
    OBVIOUS
  <2>1. CASE s = sock' BY <1>9, <2>1 DEF Holds, AbortLast
  <2>2. CASE s # sock' /\ up'[s] = up[s]
    <3>1. \A k : Holds(s, k)' <=> Holds(s, k) BY <2>2 DEF Holds
    <3>2. ~(Holds(s, "begin") /\ Holds(s, "finish")) /\ AbortLast(up[s]) /\ ~Holds(s, "abort")
      BY <1>2 DEF IInv, QueuesInOrder
    <3> QED BY <2>2, <3>1, <3>2
  <2>3. CASE up'[s] = <<>> BY <2>3 DEF Holds, AbortLast
  <2> QED BY <2>1, <2>2, <2>3, <1>5
<1>11. op.kind # "none" => op.from \in 1..sock /\ op.from \in Socket /\ op.from # sock'
  BY <1>3, Bounds DEF IInv, QueuesInOrder, Socket
<1>12. op.kind # "abort" BY <1>2 DEF IInv, QueuesInOrder
<1>13. op.kind = "begin" => ~Holds(op.from, "finish")'
  BY <1>2, <1>5, <1>11 DEF IInv, QueuesInOrder, Holds
<1>14. QueuesInOrder'
  <2>1. \A s \in Socket : up'[s] # <<>> => s \in {sock', sock' - 1} BY <1>3, <1>5
  <2>2. op.kind # "none" => op.from \in 1..sock' BY <1>3, <1>11
  <2> QED BY <2>1, <2>2, <1>2, <1>10, <1>12, <1>13 DEF QueuesInOrder
<1>15. BegunFirst'
  <2>1. ~Holds(sock, "finish")' BY <1>9 DEF Holds
  <2> QED BY <2>1, <1>2, <1>3, <1>4, <1>9, <1>11 DEF BegunFirst
<1>16. DiskInv' BY <1>2, PageDisk DEF Reported
<1> QED BY <1>8, <1>14, <1>15, <1>16, Together

LEMMA PhaseFacts ==
    /\ \A f \in OnWire : f \notin Settled /\ f \notin {"waiting", "aborted", "failed", "done"}
    /\ OnWire = {"beginning", "sending", "finishing"} /\ Settled = {"done", "failed", "aborted"}
BY DEF OnWire, Settled

LEMMA PhaseSet ==
    ASSUME NEW p \in PageType, NEW f \in {"waiting"} \cup OnWire \cup Settled
    PROVE  [p EXCEPT !.phase = f] \in PageType /\ [p EXCEPT !.phase = f].phase = f
BY DEF PageType

LEMMA NoAnswers == <<>> \in Seq(AnswerType) /\ ~DoneIsComing(<<>>)
BY DEF DoneIsComing

LEMMA LoseSocketKeeps == ASSUME IInv, LoseSocket PROVE IInv'
<1> USE DEF LoseSocket
<1>1. page \in PageType /\ up \in UpType /\ sock \in 0..MaxSockets BY TypesOf DEF IInv
<1>2. /\ page.phase \in OnWire /\ down' = <<>> /\ up' = up /\ sock' = sock /\ alive' = alive
      /\ UNCHANGED <<op, diskVars, gc, countVars>>
  OBVIOUS
<1>3. page'.phase = "waiting" /\ page' \in PageType
  <2> DEFINE r == Stale(page.reading)
  <2>1. r \in {"no", "yes", "stale"} BY <1>1 DEF Stale, PageType
  <2> HIDE DEF r
  <2>2. page' = [page EXCEPT !.phase = "waiting", !.inFlight = <<>>, !.realigning = FALSE,
                             !.reading = r]
    BY DEF r
  <2> DEFINE w == <<>>
  <2>3. w \in Seq([off : 0..Size, len : 1..MaxChunk]) OBVIOUS
  <2> HIDE DEF w
  <2>4. page' = [page EXCEPT !.phase = "waiting", !.inFlight = w, !.realigning = FALSE,
                             !.reading = r]
    BY <2>2 DEF w
  <2> HIDE DEF LoseSocket
  <2> QED BY <1>1, <2>1, <2>3, <2>4 DEF PageType
<1>4. SystemTypes' BY <1>1, <1>2, <1>3, PageTypes, NoAnswers DEF IInv, SystemTypes
<1>5. QueuesInOrder' /\ BegunFirst'
  <2>1. Frame("begin") \in FrameType BY FrameTypes
  <2> QED BY <1>2, <1>3, <2>1, PhaseFacts, PageNet DEF IInv
<1>6. DiskInv'
  <2>1. ~Reported' BY <1>2, <1>3, NoAnswers DEF Reported
  <2> QED BY <1>2, <2>1, PhaseFacts, PageDisk
<1> QED BY <1>4, <1>5, <1>6, Together

LEMMA FailKeeps == ASSUME IInv, Fail \/ GiveUp PROVE IInv'
<1> USE DEF Fail, GiveUp, netVars
<1>1. page \in PageType /\ up \in UpType /\ sock \in 0..MaxSockets /\ down \in Seq(AnswerType)
  BY TypesOf DEF IInv
<1>2. /\ page.phase \notin Settled /\ up' = up /\ sock' = sock /\ alive' = alive
      /\ down' = <<>> \/ down' = down
      /\ UNCHANGED <<op, diskVars, gc, countVars>>
  BY PhaseFacts
<1>3. page'.phase = "failed" /\ page' \in PageType BY <1>1, PhaseFacts, PhaseSet, ZenonT(40)
<1>4. SystemTypes' BY <1>1, <1>2, <1>3, PageTypes, NoAnswers DEF IInv, SystemTypes
<1>5. QueuesInOrder' /\ BegunFirst'
  <2>1. Frame("begin") \in FrameType BY FrameTypes
  <2> QED BY <1>2, <1>3, <2>1, PhaseFacts, PageNet DEF IInv
<1>6. DiskInv'
  <2>1. Reported' => Reported BY <1>2, <1>3, NoAnswers DEF Reported
  <2> QED BY <1>2, <2>1, PhaseFacts, PageDisk
<1> QED BY <1>4, <1>5, <1>6, Together

LEMMA CancelKeeps == ASSUME IInv, Cancel PROVE IInv'
<1> USE DEF Cancel
<1>1. page \in PageType /\ up \in UpType /\ sock \in 0..MaxSockets /\ down \in Seq(AnswerType)
  BY TypesOf DEF IInv
<1>2. /\ page.phase \notin Settled /\ down' = <<>> /\ sock' = sock /\ alive' = alive
      /\ UNCHANGED <<op, diskVars, gc, countVars>>
  OBVIOUS
<1>3. page'.phase = "aborted" /\ page' \in PageType BY <1>1, PhaseFacts, PhaseSet
<1>4. /\ up' = up \/ (page.phase \in OnWire /\ up' = Sent(Frame("abort")))
      /\ Frame("abort") \in FrameType /\ Frame("abort").kind = "abort"
  BY FrameTypes
<1>5. up' \in UpType BY <1>1, <1>4, SentFacts DEF IInv, BegunFirst
<1>6. SystemTypes' BY <1>1, <1>2, <1>3, <1>5, PageTypes, NoAnswers DEF IInv, SystemTypes
<1>7. QueuesInOrder' /\ BegunFirst' BY <1>2, <1>3, <1>4, PhaseFacts, PageNet DEF IInv
<1>8. DiskInv'
  <2>1. ~Reported' BY <1>2, <1>3, NoAnswers DEF Reported
  <2> QED BY <1>2, <2>1, PhaseFacts, PageDisk
<1> QED BY <1>6, <1>7, <1>8, Together

\* What the end of a read may do to the page and its socket.
LEMMA ReadDonePhases ==
    ASSUME IInv, ReadDone
    PROVE  \E f \in FrameType :
             /\ page' \in PageType
             /\ \/ page'.phase = page.phase /\ up' = up
                \/ /\ page.phase = "sending" /\ page'.phase = "sending"
                   /\ f.kind = "chunk" /\ up' = Sent(f)
                \/ /\ page.phase = "sending" /\ page'.phase = "finishing"
                   /\ f.kind = "finish" /\ up' = Sent(f)
<1>10. page \in PageType BY TypesOf DEF IInv
<1> DEFINE p == Read(page)
<1>11. p \in PageType /\ p.phase = page.phase BY <1>10 DEF PageType, Read
<1>1. CASE Pump(p, up)
  <2>1. Frame("finish") \in FrameType /\ Frame("finish").kind = "finish" BY FrameTypes
  <2> HIDE DEF p
  <2>2. /\ page' \in PageType
        /\ \/ page'.phase = p.phase /\ up' = up
           \/ /\ p.phase = "sending" /\ page'.phase = "finishing"
              /\ up' = Sent(Frame("finish"))
    BY <1>11, <1>1, PumpFacts
  <2> QED BY <1>11, <2>1, <2>2
<1>2. ASSUME ~Void(page), NEW n \in 1..MaxChunk, page.next + n <= Size,
             Pump(ReadChunk(page, n), Sent(Chunk(page.next, n)))
      PROVE  \E f \in FrameType :
               page' \in PageType /\ page.phase = "sending" /\ page'.phase = "sending"
               /\ f.kind = "chunk" /\ up' = Sent(f)
  <2> DEFINE c == [off |-> page.next, len |-> n]
  <2> DEFINE w == Append(page.inFlight, c)
  <2> DEFINE m == page.next + n
  <2> DEFINE g == ReadChunk(page, n)
  <2>2. page.next \in 0..Size /\ page.inFlight \in Seq([off : 0..Size, len : 1..MaxChunk])
    BY <1>10 DEF PageType
  <2>3. c \in [off : 0..Size, len : 1..MaxChunk] BY <2>2
  <2>4. w \in Seq([off : 0..Size, len : 1..MaxChunk]) /\ w # <<>>
    <3> DEFINE T == [off : 0..Size, len : 1..MaxChunk]
    <3> DEFINE q == page.inFlight
    <3>1. q \in Seq(T) /\ c \in T /\ w = Append(q, c) BY <2>2, <2>3
    <3> HIDE DEF c, w, T, q
    <3>2. w \in Seq(T) /\ w # <<>> BY <3>1, QueueAppend
    <3> QED BY <3>2 DEF T
  <2>5. m \in 0..Size BY <1>2, <2>2, Sizes
  <2>6. g = [page EXCEPT !.reading = "no", !.next = m, !.inFlight = w] BY DEF ReadChunk
  <2> HIDE DEF m, w, g
  <2>7. g \in PageType /\ g.phase = page.phase /\ g.inFlight = w
    BY <1>10, <2>4, <2>5, <2>6 DEF PageType
  <2>8. ~AllAcked(g) BY <2>4, <2>7 DEF AllAcked
  <2>9. Pump(g, Sent(Chunk(page.next, n))) BY <1>2 DEF g
  <2>10. up' = Sent(Chunk(page.next, n)) /\ page' \in PageType /\ page'.phase = g.phase
    <3>1. CASE page' = g /\ up' = Sent(Chunk(page.next, n)) BY <3>1, <2>7
    <3>2. CASE page' = [g EXCEPT !.reading = "yes"] /\ up' = Sent(Chunk(page.next, n))
      BY <3>2, <2>7 DEF PageType
    <3> QED BY <2>8, <2>9, <3>1, <3>2 DEF Pump
  <2>11. Chunk(page.next, n) \in FrameType /\ Chunk(page.next, n).kind = "chunk" BY <2>2, FrameTypes
  <2>12. page.phase = "sending" BY <1>2 DEF Void
  <2> QED BY <2>7, <2>10, <2>11, <2>12
<1>3. CASE page' = p /\ up' = up
  <2>1. Frame("finish") \in FrameType BY FrameTypes
  <2> QED BY <1>11, <1>3, <2>1
<1>4. \/ Pump(p, up) \/ (page' = p /\ up' = up)
      \/ \E n \in 1..MaxChunk : /\ ~Void(page) /\ page.next + n <= Size
                               /\ Pump(ReadChunk(page, n), Sent(Chunk(page.next, n)))
  BY DEF ReadDone
<1> QED BY <1>1, <1>2, <1>3, <1>4

LEMMA ReadDoneKeeps == ASSUME IInv, ReadDone PROVE IInv'
<1>1. page \in PageType /\ up \in UpType /\ sock \in 0..MaxSockets /\ down \in Seq(AnswerType)
  BY TypesOf DEF IInv
<1>2. /\ sock' = sock /\ alive' = alive /\ down' = down
      /\ UNCHANGED <<op, diskVars, gc, countVars>>
  BY DEF ReadDone
<1>4. PICK f \in FrameType :
        /\ page' \in PageType
        /\ \/ page'.phase = page.phase /\ up' = up
           \/ /\ page.phase = "sending" /\ page'.phase = "sending"
              /\ f.kind = "chunk" /\ up' = Sent(f)
           \/ /\ page.phase = "sending" /\ page'.phase = "finishing"
              /\ f.kind = "finish" /\ up' = Sent(f)
  BY ReadDonePhases
<1>5. up' = up \/ (page.phase \in OnWire /\ up' = Sent(f)) BY <1>4, PhaseFacts
<1>6. up' \in UpType BY <1>1, <1>5, SentFacts DEF IInv, BegunFirst
<1>7. SystemTypes' BY <1>1, <1>2, <1>4, <1>6, PageTypes, NoAnswers DEF IInv, SystemTypes
<1>8. QueuesInOrder' /\ BegunFirst'
  <2>1. page'.phase \in {"waiting", "aborted"} => down' = <<>> BY <1>2, <1>4 DEF IInv, BegunFirst
  <2> QED BY <1>2, <1>4, <1>5, <2>1, PhaseFacts, PageNet DEF IInv
<1>9. DiskInv'
  <2>1. Reported' => Reported BY <1>2, <1>4 DEF Reported
  <2> QED BY <1>2, <1>4, <2>1, PhaseFacts, PageDisk
<1> QED BY <1>7, <1>8, <1>9, Together

LEMMA AnsweredTypes ==
    ASSUME NEW p \in PageType, NEW o \in 0..Size
    PROVE  /\ Begun(p, o) \in PageType /\ Begun(p, o).phase = "sending"
           /\ p.inFlight # <<>> =>
                ChunkAnswered(p, o) \in PageType /\ ChunkAnswered(p, o).phase = p.phase
<1>1. Begun(p, o) \in PageType /\ Begun(p, o).phase = "sending"
  <2>1. "sending" \in {"waiting"} \cup OnWire \cup Settled BY DEF OnWire
  <2> QED BY <2>1 DEF PageType, Begun
<1>2. ASSUME p.inFlight # <<>>
      PROVE  ChunkAnswered(p, o) \in PageType /\ ChunkAnswered(p, o).phase = p.phase
  <2> DEFINE T == [off : 0..Size, len : 1..MaxChunk]
  <2> DEFINE q == p.inFlight
  <2> DEFINE rest == Tail(p.inFlight)
  <2> DEFINE matches == ~p.realigning /\ o = Head(q).off + Head(q).len
  <2> DEFINE realign == ~matches /\ rest # <<>>
  <2> DEFINE n == IF ~matches /\ rest = <<>> THEN o ELSE p.next
  <2> DEFINE r == IF ~matches THEN Stale(p.reading) ELSE p.reading
  <2>1. rest \in Seq(T)
    <3>1. q \in Seq(T) /\ q # <<>> /\ rest = Tail(q) BY <1>2 DEF PageType
    <3> HIDE DEF q, T, rest
    <3> QED BY <3>1, QueueTail
  <2>2. realign \in BOOLEAN OBVIOUS
  <2>3. n \in 0..Size /\ r \in {"no", "yes", "stale"} BY DEF PageType, Stale
  <2>4. ChunkAnswered(p, o) = [p EXCEPT !.inFlight = rest, !.acked = o, !.realigning = realign,
                                        !.next = n, !.reading = r]
    BY DEF ChunkAnswered
  <2> HIDE DEF rest, realign, n, r, matches, q
  <2> QED BY <2>1, <2>2, <2>3, <2>4 DEF PageType
<1> QED BY <1>1, <1>2

\* What an answer may do to the page and its socket.
LEMMA ReceivePhases ==
    ASSUME IInv, Receive
    PROVE  /\ page' \in PageType
           /\ \/ page' = page /\ up' = up
              \/ /\ page.phase \notin Settled /\ page'.phase = "done" /\ up' = up /\ Head(down).kind = "done"
              \/ /\ page.phase \notin Settled /\ page'.phase = "failed" /\ up' = up
              \/ /\ page.phase \in {"beginning", "sending"} /\ page'.phase = "sending" /\ up' = up
              \/ /\ page.phase \in {"beginning", "sending"} /\ page'.phase = "finishing" /\ up' = Sent(Frame("finish"))
<1> DEFINE m == Head(down)
<1> DEFINE f == Frame("finish")
<1>10. page \in PageType /\ down \in Seq(AnswerType) /\ down # <<>> BY TypesOf DEF IInv, Receive
<1>11. m \in AnswerType BY <1>10, DoneTaken
<1>12. m.off \in 0..Size BY <1>11 DEF AnswerType
<1> HIDE DEF f, m
<1>1. CASE page' = page /\ up' = up BY <1>10, <1>1
<1>2. CASE /\ page.phase \notin Settled /\ m.kind = "done" /\ up' = up
           /\ page' = [page EXCEPT !.phase = "done", !.acked = Size]
  <2>1. Size \in 0..Size /\ "done" \in {"waiting"} \cup OnWire \cup Settled BY Sizes DEF Settled
  <2> QED BY <1>10, <1>2, <2>1 DEF PageType, m
<1>3. CASE /\ page.phase \notin Settled /\ up' = up
           /\ page' = [page EXCEPT !.phase = "failed"]
  BY <1>10, <1>3, PhaseFacts, PhaseSet
<1>4. CASE page.phase = "beginning" /\ Pump(Begun(page, m.off), up)
  <2> DEFINE p == Begun(page, m.off)
  <2>1. p \in PageType /\ p.phase = "sending" BY <1>10, <1>12, AnsweredTypes
  <2> HIDE DEF p
  <2>2. Pump(p, up) BY <1>4 DEF p
  <2> QED BY <1>4, <2>1, <2>2, PumpFacts DEF f
<1>5. CASE /\ page.phase = "sending" /\ page.inFlight # <<>>
           /\ Pump(ChunkAnswered(page, m.off), up)
  <2> DEFINE p == ChunkAnswered(page, m.off)
  <2>1. p \in PageType /\ p.phase = "sending" BY <1>10, <1>12, <1>5, AnsweredTypes
  <2> HIDE DEF p
  <2>2. Pump(p, up) BY <1>5 DEF p
  <2> QED BY <1>5, <2>1, <2>2, PumpFacts DEF f
<1> QED BY <1>1, <1>2, <1>3, <1>4, <1>5 DEF Receive, m, f

LEMMA ReceiveKeeps == ASSUME IInv, Receive PROVE IInv'
<1> DEFINE m == Head(down)
<1>1. page \in PageType /\ up \in UpType /\ sock \in 0..MaxSockets /\ down \in Seq(AnswerType)
  BY TypesOf DEF IInv
<1>2. /\ sock' = sock /\ alive' = alive /\ down # <<>> /\ down' = Tail(down)
      /\ UNCHANGED <<op, diskVars, gc, countVars>>
  BY DEF Receive
<1>3. /\ down' \in Seq(AnswerType) /\ m \in AnswerType
      /\ DoneIsComing(down') => DoneIsComing(down)
      /\ m.kind = "done" => DoneIsComing(down)
  BY <1>1, <1>2, DoneTaken
<1>4. m.off \in 0..Size BY <1>3 DEF AnswerType
<1> DEFINE f == Frame("finish")
<1>5. f \in FrameType /\ f.kind = "finish" BY FrameTypes
<1> HIDE DEF f, m
<1>6. /\ page' \in PageType
      /\ \/ page' = page /\ up' = up
         \/ /\ page.phase \notin Settled /\ page'.phase = "done" /\ up' = up /\ m.kind = "done"
         \/ /\ page.phase \notin Settled /\ page'.phase = "failed" /\ up' = up
         \/ /\ page.phase \in {"beginning", "sending"} /\ page'.phase = "sending" /\ up' = up
         \/ /\ page.phase \in {"beginning", "sending"} /\ page'.phase = "finishing" /\ up' = Sent(f)
  BY ReceivePhases DEF m, f
<1>7. up' = up \/ (page.phase \in OnWire /\ up' = Sent(f)) BY <1>6, PhaseFacts
<1>8. up' \in UpType BY <1>1, <1>5, <1>7, SentFacts DEF IInv, BegunFirst
<1>9. SystemTypes' BY <1>1, <1>2, <1>3, <1>6, <1>8, PageTypes DEF IInv, SystemTypes
<1>10. page.phase \notin {"waiting", "aborted"} BY <1>2 DEF IInv, BegunFirst
<1>11. QueuesInOrder' /\ BegunFirst'
  <2>1. page'.phase = "beginning" => FALSE
    <3>1. page.phase = "beginning" => page' # page
      <4>1. SUFFICES ASSUME page.phase = "beginning", page' = page PROVE FALSE OBVIOUS
      <4>2. page.phase \notin Settled BY <4>1, PhaseFacts
      <4>3. \A k \in {"done", "failed"} : [page EXCEPT !.phase = k].phase = k BY <1>1 DEF PageType
      <4>4. Begun(page, m.off).phase = "sending" BY <1>1, <1>4, AnsweredTypes
      <4>5. page'.phase = "beginning" BY <4>1
      <4>6. ~Pump(Begun(page, m.off), up)
        <5> DEFINE p == Begun(page, m.off)
        <5>1. p \in PageType /\ p.phase = "sending" BY <1>1, <1>4, AnsweredTypes
        <5> HIDE DEF p
        <5>2. ASSUME Pump(p, up) PROVE FALSE BY <5>1, <5>2, <4>5, PumpFacts
        <5> QED BY <5>2 DEF p
      <4>7. [page EXCEPT !.phase = "done", !.acked = Size].phase = "done" BY <1>1 DEF PageType
      <4> QED BY <4>1, <4>2, <4>3, <4>5, <4>6, <4>7 DEF Receive, m
    <3> QED BY <1>6, <3>1
  <2> QED BY <1>2, <1>5, <1>6, <1>7, <1>10, <2>1, PhaseFacts, PageNet DEF IInv
<1>12. DiskInv'
  <2>1. Reported' => Reported BY <1>3, <1>6 DEF Reported
  <2> QED BY <1>2, <1>6, <1>10, <2>1, PhaseFacts, PageDisk
<1> QED BY <1>9, <1>11, <1>12, Together

--------------------
(* The server. *)

LEMMA ServerTypes ==
    ASSUME SystemTypes, page' = page, sock' = sock, alive' = alive, gc' = gc,
           up' \in UpType, down' \in Seq(AnswerType), op' \in OpType,
           partial' \in Seq(Nat), saved' \in Seq(Seq(Nat)),
           side' \in [exists : BOOLEAN, name : 0..Len(saved'), done : BOOLEAN],
           fresh' \in BOOLEAN, crashes' \in Nat, errors' \in Nat, days' \in Nat
    PROVE  SystemTypes'
<1>1. /\ up' \in [Socket -> Seq([kind : {"begin", "chunk", "finish", "abort"},
                                 off : 0..Size, len : 0..MaxChunk])]
      /\ down' \in Seq([kind : {"offset", "done"} \cup Refusals, off : 0..Size])
  BY DEF UpType, FrameType, AnswerType
<1>2. op' \in [kind : {"none", "begin", "move", "copy", "unlink", "record", "abort"},
               from : Nat, name : Nat, bytes : Seq(Nat)]
  BY DEF OpType
<1> QED BY <1>1, <1>2 DEF SystemTypes

LEMMA ReplyFacts ==
    ASSUME SystemTypes, NEW s, NEW a \in AnswerType, Reply(s, a), page' = page
    PROVE  /\ down' \in Seq(AnswerType)
           /\ down' = down \/ (s = sock /\ page.phase \in OnWire)
           /\ Reported' => Reported \/ a.kind = "done"
<1>1. down \in Seq(AnswerType) BY TypesOf
<1>2. CASE down' = down BY <1>1, <1>2 DEF Reported
<1>3. CASE s = sock /\ page.phase \in OnWire /\ down' = Append(down, a)
  BY <1>1, <1>3, DoneAppended DEF Reported
<1> QED BY <1>2, <1>3 DEF Reply

\* A frame that is answered at once, or needs no answer.
LEMMA TakesNet ==
    ASSUME IInv, NEW s \in Socket, NEW k \in Kinds, Takes(s, k), op' = NoOp,
           down' = down \/ (s = sock /\ page.phase \in OnWire)
    PROVE  QueuesInOrder' /\ BegunFirst' /\ Fewer
<1>1. /\ Fewer /\ op = NoOp /\ Len(up'[s]) = Len(up[s]) - 1 /\ Len(up[s]) \in Nat \ {0}
      /\ up'[s] \in Seq(FrameType)
  <2>1. up \in UpType BY TypesOf DEF IInv
  <2>2. Fewer BY <2>1, TakesFacts
  <2>3. up'[s] \in Seq(FrameType) BY <2>2 DEF Fewer, UpType
  <2> QED BY <2>1, <2>2, <2>3, TakesFacts
<1>2. page' = page /\ sock' = sock BY DEF Takes
<1>3. s = sock /\ page.phase = "beginning" => ~Holds(sock, "begin")'
  <2>1. SUFFICES ASSUME s = sock, page.phase = "beginning", Holds(sock, "begin")' PROVE FALSE
    OBVIOUS
  <2>2. Holds(sock, "begin") BY <1>1, <1>2, <2>1 DEF Fewer, Kinds
  <2>3. Len(up[s]) = 1 BY <2>1, <2>2 DEF IInv, BegunFirst
  <2>4. up'[s] = <<>> BY <1>1, <2>3
  <2> QED BY <1>2, <2>1, <2>4 DEF Holds
<1>4. DownOK /\ OpOK BY <1>1, <1>3 DEF DownOK, OpOK
<1> QED BY <1>1, <1>2, <1>4, ServerNet DEF IInv

\* An operation that ends with its answer.
LEMMA EndsNet ==
    ASSUME IInv, op.kind # "none", page' = page, sock' = sock, up' = up, op' = NoOp,
           down' = down \/ (op.from = sock /\ page.phase \in OnWire)
    PROVE  QueuesInOrder' /\ BegunFirst'
<1>1. Fewer BY FewerWhenSame, TypesOf DEF IInv
<1>2. op.from = sock /\ page.phase = "beginning" => ~Holds(sock, "begin")'
  BY DEF IInv, BegunFirst, Holds
<1>3. DownOK /\ OpOK BY <1>2 DEF DownOK, OpOK
<1> QED BY <1>1, <1>3, ServerNet DEF IInv

LEMMA ReportedKept ==
    ASSUME IInv, Intact' => Intact, days' = days, Reported' => Reported \/ side'.done,
           \A n : Intact /\ Kept(n) => Kept(n)',
           Intact' /\ side'.done => (side.done /\ side'.name = side.name) \/ Whole(side.name)',
           days = 0 /\ side.done => side'.done,
           side'.done => op'.kind = "none"
    PROVE  ReportedIsKept'
<1>1. Intact /\ side.done => Kept(side.name) BY DEF IInv, ReportedIsKept, BusyIsOpen, Kept, Moving
<1>2. Intact' /\ side'.done => Whole(side.name)' BY <1>1 DEF Kept, Whole
<1>3. Intact' /\ side'.done => Kept(side.name)' BY <1>2 DEF Kept, Moving
<1>4. Intact' /\ Reported => \E n : Kept(n)' BY DEF IInv, ReportedIsKept
<1>5. Intact' /\ Reported' => \E n : Kept(n)' BY <1>3, <1>4
<1>6. \A n : Kept(n)' => n \in DOMAIN saved' BY DEF Kept, Whole
<1>7. days' = 0 /\ Reported' => side'.done BY DEF IInv, ReportedIsKept
<1> QED BY <1>2, <1>5, <1>6, <1>7 DEF ReportedIsKept

LEMMA NamedKept ==
    ASSUME IInv, Fewer, page' = page, days' = days, Len(saved') = Len(saved),
           days = 0 => side'.name = side.name /\ (side'.exists => side.exists),
           op'.kind = "begin" => op.kind = "begin"
    PROVE  NamedOnce'
<1>1. \A s \in Socket : Holds(s, "begin")' => Holds(s, "begin") BY DEF Fewer, Kinds
<1>2. \A s \in Socket : Holds(s, "finish")' => Holds(s, "finish") BY DEF Fewer, Kinds
<1> QED BY <1>1, <1>2 DEF IInv, NamedOnce, SavedOnce

\* A frame that leaves the files as they are.
LEMMA AnswerKeeps ==
    ASSUME IInv, NEW s \in Socket, NEW k \in Kinds, Takes(s, k), op' = NoOp,
           NEW a \in AnswerType, down' = down \/ Reply(s, a), a.kind = "done" => side.done,
           UNCHANGED <<partial, side, saved, errors, gc>>, fresh' = fresh \/ fresh' = TRUE
    PROVE  IInv'
<1>1. page' = page /\ sock' = sock /\ alive' = alive /\ crashes' = crashes /\ days' = days
  BY DEF Takes
<1>2. /\ down' \in Seq(AnswerType)
      /\ down' = down \/ (s = sock /\ page.phase \in OnWire)
      /\ Reported' => Reported \/ side.done
  BY <1>1, ReplyFacts, TypesOf DEF IInv, Reported
<1>3. QueuesInOrder' /\ BegunFirst' /\ Fewer BY <1>2, TakesNet
<1>4. op = NoOp /\ op.kind = "none" /\ op'.kind = "none" /\ ~Quiet
  BY TakesFacts, TypesOf DEF IInv, NoOp, Op, Quiet
<1>5. SystemTypes'
  <2>1. op' \in OpType /\ up' \in UpType BY <1>3, <1>4, TypesOf DEF IInv, Fewer
  <2>2. fresh' \in BOOLEAN /\ crashes' \in Nat /\ errors' \in Nat /\ days' \in Nat
    BY <1>1 DEF IInv, SystemTypes
  <2>3. /\ partial' \in Seq(Nat) /\ saved' \in Seq(Seq(Nat))
        /\ side' \in [exists : BOOLEAN, name : 0..Len(saved'), done : BOOLEAN]
    BY TypesOf DEF IInv
  <2>4. SystemTypes BY DEF IInv
  <2>5. gc' = gc OBVIOUS
  <2>6. down' \in Seq(AnswerType) BY <1>2
  <2> QED BY <1>1, <2>1, <2>2, <2>3, <2>4, <2>5, <2>6, ServerTypes
<1>6. BytesInOrder' /\ BusyIsOpen' /\ CollectedIsOld'
  BY <1>1, <1>4 DEF IInv, BytesInOrder, BusyIsOpen, CollectedIsOld, Prefix, Moving, Finishing,
                    SystemTypes
<1>7. NothingHalfCopied' BY <1>1, <1>4 DEF IInv, NothingHalfCopied, Whole
<1>8. ReportedIsKept' BY <1>1, <1>2, <1>4, ReportedKept DEF Kept, Whole, Intact
<1>9. NamedOnce' BY <1>1, <1>3, <1>4, NamedKept
<1> QED BY <1>3, <1>5, <1>6, <1>7, <1>8, <1>9, Together DEF DiskInv

\* A frame that starts an operation.
LEMMA StartsNet ==
    ASSUME IInv, NEW s \in Socket, NEW k \in Kinds, Takes(s, k), op' \in OpType,
           op'.from = s, down' = down, op'.kind # "none",
           op'.kind = "begin" => k = "begin", op'.kind = "abort" => k = "abort"
    PROVE  QueuesInOrder' /\ BegunFirst' /\ Fewer
<1>1. page' = page /\ sock' = sock BY DEF Takes
<1>2. /\ Fewer /\ op = NoOp /\ Len(up'[s]) = Len(up[s]) - 1 /\ Len(up[s]) \in Nat \ {0}
      /\ AbortLast(up[s]) /\ k = "abort" => up'[s] = <<>>
      /\ Holds(s, k) /\ up[s] # <<>>
  BY TakesFacts, TypesOf DEF IInv
<1>3. /\ \A t \in Socket : up'[t] # <<>> => up[t] # <<>>
      /\ \A t \in Socket : AbortLast(up[t]) => AbortLast(up'[t])
      /\ \A t \in Socket, j \in Kinds : Holds(t, j)' => Holds(t, j)
      /\ up'[s] \in Seq(FrameType) /\ {"begin", "finish", "abort"} \subseteq Kinds
  BY <1>2 DEF Fewer, UpType, Kinds
<1>4. s \in 1..sock
  <2>1. s \in {sock, sock - 1} BY <1>2 DEF IInv, QueuesInOrder
  <2> QED BY <2>1, TypesOf, Bounds DEF IInv, Socket
<1>5. k = "abort" => page.phase = "aborted" /\ s = sock /\ up'[sock] = <<>>
  BY <1>2 DEF IInv, QueuesInOrder
<1>6. k = "begin" => ~Holds(s, "finish")' BY <1>2, <1>3 DEF IInv, QueuesInOrder
<1>7. QueuesInOrder'
  <2>1. \A t \in Socket : up'[t] # <<>> => t \in {sock, sock - 1} BY <1>3 DEF IInv, QueuesInOrder
  <2>2. \A t \in Socket : ~(Holds(t, "begin")' /\ Holds(t, "finish")')
    BY <1>3 DEF IInv, QueuesInOrder
  <2>3. \A t \in Socket : AbortLast(up'[t]) BY <1>3 DEF IInv, QueuesInOrder
  <2>4. \A t \in Socket : Holds(t, "abort")' => page.phase = "aborted" /\ t = sock
    BY <1>3 DEF IInv, QueuesInOrder
  <2>5. \A t \in Socket : t = op'.from /\ op'.kind = "begin" => ~Holds(t, "finish")' BY <1>6
  <2> QED BY <1>1, <1>4, <1>5, <2>1, <2>2, <2>3, <2>4, <2>5 DEF QueuesInOrder, Holds
<1>8. BegunFirst'
  <2>1. page.phase \in OnWire => sock \in Socket BY DEF IInv, BegunFirst
  <2>2. page.phase \in {"sending", "finishing"} =>
          ~Holds(sock, "begin")' /\ ~(op'.kind = "begin" /\ op'.from = sock)
    BY <1>1, <1>2, <1>3, <2>1 DEF IInv, BegunFirst, OnWire
  <2>3. page.phase = "beginning" => ~Holds(sock, "finish")'
    BY <1>1, <1>3, <2>1 DEF IInv, BegunFirst, OnWire
  <2>4. ASSUME page.phase = "beginning", Holds(sock, "begin")'
        PROVE  down' = <<>> /\ Len(up'[sock]) = 1 /\ ~(op'.kind # "none" /\ op'.from = sock)
    <3>1. Holds(sock, "begin") /\ sock \in Socket BY <1>1, <1>3, <2>1, <2>4 DEF OnWire
    <3>2. down = <<>> /\ Len(up[sock]) = 1 BY <2>4, <3>1 DEF IInv, BegunFirst
    <3>3. up'[sock] # <<>> BY <1>1, <2>4 DEF Holds
    <3>4. s # sock
      <4>1. SUFFICES ASSUME s = sock PROVE FALSE OBVIOUS
      <4>2. Len(up'[s]) = 0 BY <1>2, <3>2, <4>1
      <4> QED BY <1>3, <3>3, <4>1, <4>2
    <3>5. up'[sock] = up[sock] BY <3>1, <3>4, TypesOf DEF Takes, UpType, IInv
    <3> QED BY <3>2, <3>4, <3>5
  <2>5. page.phase = "beginning" /\ op'.kind = "begin" /\ op'.from = sock => down = <<>>
    BY <1>2 DEF IInv, BegunFirst
  <2>6. page.phase \in {"waiting", "aborted"} => down = <<>> BY DEF IInv, BegunFirst
  <2> QED BY <1>1, <2>1, <2>2, <2>3, <2>4, <2>5, <2>6 DEF BegunFirst
<1> QED BY <1>2, <1>7, <1>8

LEMMA OpTypes ==
    /\ NoOp \in OpType /\ NoOp.kind = "none" /\ NoOp.from = 0
    /\ \A k \in {"begin", "move", "abort"}, s \in Nat, n \in Nat :
         /\ Op(k, s, n) \in OpType /\ Op(k, s, n).kind = k
         /\ Op(k, s, n).from = s /\ Op(k, s, n).name = n
BY DEF NoOp, Op, OpType

LEMMA SideTypes ==
    ASSUME NEW m \in Nat
    PROVE  /\ NoSide \in [exists : BOOLEAN, name : 0..m, done : BOOLEAN]
           /\ NoSide.exists = FALSE /\ NoSide.name = 0 /\ NoSide.done = FALSE
           /\ \A n \in 0..m, d \in BOOLEAN :
                /\ Side(n, d) \in [exists : BOOLEAN, name : 0..m, done : BOOLEAN]
                /\ Side(n, d).exists = TRUE /\ Side(n, d).name = n /\ Side(n, d).done = d
BY DEF NoSide, Side

\* A begin of a known upload whose partial is gone starts the file anew.
LEMMA BeginAnewKeeps ==
    ASSUME IInv, NEW s \in Socket, Takes(s, "begin"), side.exists, ~side.done, partial = NoFile,
           Ends(s, Offset(0)), Touch(<<>>, side), UNCHANGED <<saved, errors, gc>>
    PROVE  IInv'
<1>1. /\ page' = page /\ sock' = sock /\ alive' = alive /\ crashes' = crashes /\ days' = days
      /\ partial' = <<>> /\ side' = side /\ fresh' = TRUE /\ op' = NoOp /\ Reply(s, Offset(0))
  BY DEF Takes, Ends, Touch
<1>2. Offset(0) \in AnswerType /\ Offset(0).kind # "done" /\ "begin" \in Kinds
  BY FrameTypes, Sizes DEF Kinds
<1>3. down' \in Seq(AnswerType) BY <1>1, <1>2, ReplyFacts DEF IInv
<1>4. down' = down \/ (s = sock /\ page.phase \in OnWire) BY <1>1, <1>2, ReplyFacts DEF IInv
<1>5. Reported' => Reported BY <1>1, <1>2, ReplyFacts DEF IInv
<1>6. QueuesInOrder' /\ BegunFirst' /\ Fewer BY <1>1, <1>2, <1>4, TakesNet
<1>7. op = NoOp /\ op.kind = "none" /\ op'.kind = "none"
  BY <1>1, <1>2, TakesFacts, TypesOf, OpTypes DEF IInv
<1>8. <<>> \in Seq(Nat) /\ <<>> # NoFile /\ Prefix(<<>>) BY SourceFacts
<1>9. SystemTypes'
  <2>1. op' \in OpType /\ up' \in UpType /\ partial' \in Seq(Nat)
    BY <1>1, <1>6, <1>8, OpTypes DEF Fewer
  <2>2. fresh' \in BOOLEAN /\ crashes' \in Nat /\ errors' \in Nat /\ days' \in Nat
    BY <1>1 DEF IInv, SystemTypes
  <2>3. /\ saved' \in Seq(Seq(Nat)) /\ side' \in [exists : BOOLEAN, name : 0..Len(saved'), done : BOOLEAN]
    BY <1>1, TypesOf DEF IInv
  <2> QED BY <1>1, <1>3, <2>1, <2>2, <2>3, ServerTypes DEF IInv
<1>10. BytesInOrder' /\ BusyIsOpen' /\ CollectedIsOld'
  BY <1>1, <1>7, <1>8
     DEF IInv, BytesInOrder, BusyIsOpen, CollectedIsOld, Prefix, Moving, Finishing
<1>11. NothingHalfCopied' BY <1>1, <1>7, <1>8 DEF IInv, NothingHalfCopied, Whole
<1>12. ReportedIsKept' BY <1>1, <1>5, <1>7, ReportedKept DEF Kept, Whole, Intact
<1>13. NamedOnce' BY <1>1, <1>6, <1>7, NamedKept
<1> QED BY <1>6, <1>9, <1>10, <1>11, <1>12, <1>13, Together DEF DiskInv

LEMMA BeginNewStartKeeps ==
    ASSUME IInv, NEW s \in Socket, Takes(s, "begin"), ~side.exists, Touch(<<>>, side),
           op' = Op("begin", s, 0), UNCHANGED <<down, saved, errors, gc>>
    PROVE  IInv'
<1>1. /\ page' = page /\ sock' = sock /\ alive' = alive /\ crashes' = crashes /\ days' = days
      /\ partial' = <<>> /\ side' = side /\ fresh' = TRUE /\ down' = down
  BY DEF Takes, Touch
<1>2. /\ op' \in OpType /\ op'.kind = "begin" /\ op'.from = s /\ "begin" \in Kinds
  BY OpTypes, Bounds DEF Kinds, Socket
<1>3. QueuesInOrder' /\ BegunFirst' /\ Fewer BY <1>1, <1>2, StartsNet
<1>4. op = NoOp /\ op.kind = "none" BY <1>1, <1>2, TakesFacts, TypesOf, OpTypes DEF IInv
<1>5. <<>> \in Seq(Nat) /\ <<>> # NoFile /\ Prefix(<<>>) BY SourceFacts
<1>6. side = NoSide /\ side.name = 0 /\ ~side.done BY SideTypes DEF IInv, BusyIsOpen
<1>7. SystemTypes'
  <2>1. up' \in UpType /\ partial' \in Seq(Nat) /\ down' \in Seq(AnswerType)
    BY <1>1, <1>3, <1>5, TypesOf DEF Fewer, IInv
  <2>2. fresh' \in BOOLEAN /\ crashes' \in Nat /\ errors' \in Nat /\ days' \in Nat
    BY <1>1 DEF IInv, SystemTypes
  <2>3. /\ saved' \in Seq(Seq(Nat)) /\ side' \in [exists : BOOLEAN, name : 0..Len(saved'), done : BOOLEAN]
    BY <1>1, TypesOf DEF IInv
  <2> QED BY <1>1, <1>2, <2>1, <2>2, <2>3, ServerTypes DEF IInv
<1>8. BytesInOrder' /\ BusyIsOpen' /\ CollectedIsOld'
  BY <1>1, <1>2, <1>5, <1>6
     DEF IInv, BytesInOrder, BusyIsOpen, CollectedIsOld, Prefix, Moving, Finishing
<1>9. NothingHalfCopied' BY <1>1, <1>4, <1>5 DEF IInv, NothingHalfCopied, Whole
<1>10. ReportedIsKept'
  <2>1. Reported' => Reported BY <1>1 DEF Reported
  <2> QED BY <1>1, <1>2, <1>6, <2>1, ReportedKept DEF Kept, Whole, Intact, Moving
<1>11. NamedOnce'
  <2>1. Holds(s, "begin") /\ \A t \in Socket : Holds(t, "finish")' => Holds(t, "finish")
    BY <1>2, <1>3, TakesFacts, TypesOf DEF Fewer, Kinds, IInv
  <2> QED BY <1>1, <1>6, <2>1 DEF IInv, NamedOnce, SavedOnce
<1> QED BY <1>3, <1>7, <1>8, <1>9, <1>10, <1>11, Together DEF DiskInv

LEMMA BeginNewEndsKeeps == ASSUME IInv, BeginNewEnds PROVE IInv'
<1>1. /\ page' = page /\ sock' = sock /\ alive' = alive /\ up' = up /\ saved' = saved /\ gc' = gc
      /\ UNCHANGED <<crashes, errors, days>>
      /\ op.kind = "begin" /\ op' = NoOp /\ Reply(op.from, Offset(0))
      /\ partial' = partial /\ side' = Side(0, FALSE) /\ fresh' = TRUE
  BY DEF BeginNewEnds, Touch, Ends, countVars
<1>2. Offset(0) \in AnswerType /\ Offset(0).kind # "done" BY FrameTypes, Sizes
<1>3. down' \in Seq(AnswerType) BY <1>1, <1>2, ReplyFacts DEF IInv
<1>4. down' = down \/ (op.from = sock /\ page.phase \in OnWire) BY <1>1, <1>2, ReplyFacts DEF IInv
<1>5. Reported' => Reported BY <1>1, <1>2, ReplyFacts DEF IInv
<1>6. QueuesInOrder' /\ BegunFirst' BY <1>1, <1>4, EndsNet
<1>7. /\ Len(saved) \in Nat /\ side'.exists /\ side'.name = 0 /\ ~side'.done
      /\ side' \in [exists : BOOLEAN, name : 0..Len(saved), done : BOOLEAN]
  BY <1>1, TypesOf, SideTypes DEF IInv
<1>8. op'.kind = "none" /\ op' \in OpType BY <1>1, OpTypes
<1>9. ~side.done /\ (days = 0 => partial # NoFile /\ ~side.exists /\ side = NoSide /\ side.name = 0)
  BY <1>1, SideTypes DEF IInv, BusyIsOpen
<1>10. SystemTypes'
  <2>1. up' \in UpType /\ partial' \in Seq(Nat) /\ saved' \in Seq(Seq(Nat))
    BY <1>1, TypesOf DEF IInv
  <2>2. fresh' \in BOOLEAN /\ crashes' \in Nat /\ errors' \in Nat /\ days' \in Nat
    BY <1>1 DEF IInv, SystemTypes
  <2> QED BY <1>1, <1>3, <1>7, <1>8, <2>1, <2>2, ServerTypes DEF IInv
<1>11. BytesInOrder' /\ BusyIsOpen' /\ CollectedIsOld'
  BY <1>1, <1>7, <1>8
     DEF IInv, BytesInOrder, BusyIsOpen, CollectedIsOld, Prefix, Moving, Finishing
<1>12. NothingHalfCopied' BY <1>1, <1>8, <1>9 DEF IInv, NothingHalfCopied, Whole
<1>13. ReportedIsKept'
  <2>1. \A n \in DOMAIN saved : n # 0 BY TypesOf DEF IInv
  <2>2. \A n : Kept(n) => Kept(n)' BY <1>1, <1>7, <1>8, <2>1 DEF Kept, Whole, Moving
  <2> QED BY <1>1, <1>5, <1>7, <1>8, <1>9, <2>2, ReportedKept DEF Intact
<1>14. NamedOnce' BY <1>1, <1>7, <1>8, <1>9 DEF IInv, NamedOnce, SavedOnce, Holds
<1> QED BY <1>6, <1>10, <1>11, <1>12, <1>13, <1>14, Together DEF DiskInv

LEMMA CountUp ==
    ASSUME NEW c \in Nat, NEW e \in Nat, NEW f, f = e \/ f = e + 1
    PROVE  f \in Nat /\ (c + f = 0 => c + e = 0) /\ (f = e + 1 => c + f # 0)
OBVIOUS

\* Bytes written where the partial ends, all of a chunk or some of it.
LEMMA WriteKeeps ==
    ASSUME IInv, NEW s \in Socket, Takes(s, "chunk"), side.exists, ~side.done, partial # NoFile,
           NEW n \in Nat, Len(partial) + n <= Size,
           Touch(Written(partial, Len(partial), n), side),
           NEW a \in AnswerType, a.kind # "done", Ends(s, a),
           errors' = errors \/ errors' = errors + 1, UNCHANGED <<saved, gc>>
    PROVE  IInv'
<1> DEFINE w == Written(partial, Len(partial), n)
<1>1. w \in Seq(Nat) /\ w # NoFile /\ Prefix(w) BY WrittenIsPrefix, TypesOf DEF IInv, BytesInOrder
<1>2. /\ page' = page /\ sock' = sock /\ alive' = alive /\ crashes' = crashes /\ days' = days
      /\ partial' = w /\ side' = side /\ fresh' = TRUE /\ op' = NoOp /\ Reply(s, a)
      /\ saved' = saved /\ gc' = gc
  BY DEF Takes, Ends, Touch
<1> HIDE DEF w
<1>3. "chunk" \in Kinds BY DEF Kinds
<1>4. down' \in Seq(AnswerType) BY <1>2, ReplyFacts DEF IInv
<1>5. down' = down \/ (s = sock /\ page.phase \in OnWire) BY <1>2, ReplyFacts DEF IInv
<1>6. Reported' => Reported BY <1>2, ReplyFacts DEF IInv
<1>7. QueuesInOrder' /\ BegunFirst' /\ Fewer BY <1>2, <1>3, <1>5, TakesNet
<1>8. op = NoOp /\ op.kind = "none" /\ op'.kind = "none"
  BY <1>2, <1>3, TakesFacts, TypesOf, OpTypes DEF IInv
<1>9. crashes \in Nat /\ errors \in Nat /\ days \in Nat BY DEF IInv, SystemTypes
<1>10. SystemTypes'
  <2>1. op' \in OpType /\ up' \in UpType /\ partial' \in Seq(Nat)
    BY <1>1, <1>2, <1>7, OpTypes DEF Fewer
  <2>2. fresh' \in BOOLEAN /\ crashes' \in Nat /\ errors' \in Nat /\ days' \in Nat
    BY <1>2, <1>9, CountUp
  <2>3. /\ saved' \in Seq(Seq(Nat)) /\ side' \in [exists : BOOLEAN, name : 0..Len(saved'), done : BOOLEAN]
    BY <1>2, TypesOf DEF IInv
  <2> QED BY <1>2, <1>4, <2>1, <2>2, <2>3, ServerTypes DEF IInv
<1>11. BytesInOrder' /\ BusyIsOpen' /\ CollectedIsOld'
  BY <1>1, <1>2, <1>8
     DEF IInv, BytesInOrder, BusyIsOpen, CollectedIsOld, Prefix, Moving, Finishing
<1>12. crashes' + errors' = 0 => crashes + errors = 0 BY <1>2, <1>9, CountUp
<1>13. NothingHalfCopied' BY <1>1, <1>2, <1>8, <1>12 DEF IInv, NothingHalfCopied, Whole
<1>14. ReportedIsKept'
  <2>1. Intact' => Intact BY <1>2, <1>12 DEF Intact
  <2> QED BY <1>2, <1>6, <1>8, <2>1, ReportedKept DEF Kept, Whole
<1>15. NamedOnce' BY <1>2, <1>7, <1>8, NamedKept
<1> QED BY <1>7, <1>10, <1>11, <1>13, <1>14, <1>15, Together DEF DiskInv

\* The operations that start: what the staging answers at once, and what it begins.
LEMMA BeginKeeps ==
    ASSUME IInv, NEW s \in Socket, BeginKnown(s) \/ BeginNew(s)
    PROVE  IInv'
<1>1. Takes(s, "begin") /\ gc' = gc /\ "begin" \in Kinds BY DEF BeginKnown, BeginNew, Kinds
<1>2. /\ Answer("refused") \in AnswerType /\ Answer("refused").kind # "done"
      /\ Answer("done") \in AnswerType
  BY FrameTypes DEF Refusals
<1>3. Len(partial) \in 0..Size \/ partial = NoFile BY TypesOf DEF IInv, BytesInOrder, Prefix
<1>4. CASE Refused(s) BY <1>1, <1>2, <1>4, AnswerKeeps DEF Refused, Ends, KeepDisk
<1>5. CASE side.done /\ Ends(s, Answer("done")) /\ KeepDisk /\ UNCHANGED <<saved, errors>>
  BY <1>1, <1>2, <1>5, AnswerKeeps DEF Ends, KeepDisk
<1>6. CASE partial # NoFile /\ Ends(s, Offset(Len(partial))) /\ KeepDisk /\ UNCHANGED <<saved, errors>>
  <2>1. Offset(Len(partial)) \in AnswerType /\ Offset(Len(partial)).kind # "done"
    BY <1>3, <1>6, FrameTypes
  <2> QED BY <1>1, <1>6, <2>1, AnswerKeeps DEF Ends, KeepDisk
<1>7. CASE /\ side.exists /\ ~side.done /\ partial = NoFile
           /\ Ends(s, Offset(0)) /\ Touch(<<>>, side) /\ UNCHANGED <<saved, errors>>
  BY <1>1, <1>7, BeginAnewKeeps
<1>8. CASE /\ ~side.exists /\ Touch(<<>>, side) /\ op' = Op("begin", s, 0)
           /\ UNCHANGED <<down, saved, errors>>
  BY <1>1, <1>8, BeginNewStartKeeps
<1> QED BY <1>4, <1>5, <1>6, <1>7, <1>8 DEF BeginKnown, BeginNew, IsDone

LEMMA WriteChunkKeeps ==
    ASSUME IInv, NEW s \in Socket, WriteChunk(s)
    PROVE  IInv'
<1> DEFINE c == Head(up[s])
<1>1. Takes(s, "chunk") /\ gc' = gc /\ saved' = saved /\ "chunk" \in Kinds BY DEF WriteChunk, Kinds
<1>2. c \in FrameType BY <1>1, TakesFacts, TypesOf DEF IInv
<1>3. \A k \in {"unknown", "refused", "missing", "overrun", "disk"} :
        Answer(k) \in AnswerType /\ Answer(k).kind # "done"
  BY FrameTypes DEF Refusals, Confusions
<1>4. Answer("done") \in AnswerType BY FrameTypes
<1>5. /\ partial # NoFile => Len(partial) \in 0..Size
      /\ Len(partial) \in Nat /\ c.len \in Nat
  BY <1>2, Sizes, TypesOf DEF IInv, BytesInOrder, Prefix, FrameType
<1>6. ASSUME NEW k \in {"unknown", "refused", "missing", "overrun"},
             Ends(s, Answer(k)), KeepDisk, errors' = errors
      PROVE  IInv'
  BY <1>1, <1>3, <1>6, AnswerKeeps DEF Ends, KeepDisk
<1>7. CASE side.done /\ Ends(s, Answer("done")) /\ KeepDisk /\ UNCHANGED errors
  BY <1>1, <1>4, <1>7, AnswerKeeps DEF Ends, KeepDisk
<1>8. CASE partial # NoFile /\ Ends(s, Offset(Len(partial))) /\ KeepDisk /\ UNCHANGED errors
  <2>1. Offset(Len(partial)) \in AnswerType /\ Offset(Len(partial)).kind # "done"
    BY <1>5, <1>8, FrameTypes
  <2> QED BY <1>1, <1>8, <2>1, AnswerKeeps DEF Ends, KeepDisk
<1>9. CASE /\ side.exists /\ ~side.done /\ partial # NoFile
           /\ c.off = Len(partial) /\ Len(partial) + c.len <= Size
           /\ Touch(Written(partial, c.off, c.len), side)
           /\ Ends(s, Offset(Len(partial) + c.len)) /\ UNCHANGED errors
  <2> DEFINE o == Offset(Len(partial) + c.len)
  <2>1. o \in AnswerType /\ o.kind # "done"
    <3>1. Len(partial) + c.len \in 0..Size BY <1>5, <1>9, Sizes
    <3> QED BY <3>1, FrameTypes
  <2> HIDE DEF c
  <2>2. Touch(Written(partial, Len(partial), c.len), side) /\ Ends(s, o) /\ errors' = errors BY <1>9
  <2> HIDE DEF o
  <2> QED BY <1>1, <1>5, <1>9, <2>1, <2>2, WriteKeeps
<1>10. ASSUME side.exists, ~side.done, partial # NoFile,
              c.off = Len(partial), Len(partial) + c.len <= Size,
              NEW n \in 0..(c.len - 1), Touch(Written(partial, c.off, n), side), Fails(s)
       PROVE  IInv'
  <2>1. n \in Nat /\ Len(partial) + n <= Size
    <3> DEFINE l == Len(partial)
    <3> DEFINE m == c.len
    <3>1. l \in Nat /\ m \in Nat /\ l + m <= Size /\ n \in 0..(m - 1) BY <1>5, <1>10
    <3> HIDE DEF l, m
    <3>2. n \in Nat /\ l + n <= Size BY <3>1, Sizes
    <3> QED BY <3>2 DEF l
  <2>2. Answer("disk") \in AnswerType /\ Answer("disk").kind # "done" BY <1>3
  <2>3. Ends(s, Answer("disk")) /\ errors' = errors + 1 BY <1>10 DEF Fails
  <2> DEFINE a == Answer("disk")
  <2>4. a \in AnswerType /\ a.kind # "done" /\ Ends(s, a) BY <2>2, <2>3
  <2>5. Touch(Written(partial, Len(partial), n), side) BY <1>10
  <2> HIDE DEF a, c
  <2> QED BY <1>1, <1>10, <2>1, <2>3, <2>4, <2>5, WriteKeeps
<1>12. ASSUME side.exists, ~side.done, partial # NoFile,
              c.off = Len(partial), Len(partial) + c.len <= Size,
              NEW n \in Short(c), Touch(Written(partial, c.off, n), side),
              Ends(s, Offset(Len(partial) + c.len)), errors' = errors
       PROVE  IInv'
  <2>1. PICK l, m \in Nat : l = Len(partial) /\ m = c.len BY <1>5
  <2>2. n \in Nat /\ l + n <= Size /\ l + m \in 0..Size BY <1>12, <2>1, Sizes DEF Short
  <2> DEFINE o == Offset(l + m)
  <2>3. o \in AnswerType /\ o.kind # "done" BY <2>2, FrameTypes
  <2>4. Touch(Written(partial, Len(partial), n), side) /\ Ends(s, o) BY <1>12, <2>1
  <2> HIDE DEF o, c
  <2> QED BY <1>1, <1>12, <2>1, <2>2, <2>3, <2>4, WriteKeeps
<1> HIDE DEF c
<1>11. \/ \E k \in {"unknown", "refused", "missing", "overrun"} :
            Ends(s, Answer(k)) /\ KeepDisk /\ errors' = errors
       \/ side.done /\ Ends(s, Answer("done")) /\ KeepDisk /\ UNCHANGED errors
       \/ partial # NoFile /\ Ends(s, Offset(Len(partial))) /\ KeepDisk /\ UNCHANGED errors
       \/ /\ side.exists /\ ~side.done /\ partial # NoFile
          /\ c.off = Len(partial) /\ Len(partial) + c.len <= Size
          /\ Touch(Written(partial, c.off, c.len), side)
          /\ Ends(s, Offset(Len(partial) + c.len)) /\ UNCHANGED errors
       \/ /\ side.exists /\ ~side.done /\ partial # NoFile
          /\ c.off = Len(partial) /\ Len(partial) + c.len <= Size
          /\ \/ (\E n \in 0..(c.len - 1) : Touch(Written(partial, c.off, n), side)) /\ Fails(s)
             \/ /\ \E n \in Short(c) : Touch(Written(partial, c.off, n), side)
                /\ Ends(s, Offset(Len(partial) + c.len)) /\ errors' = errors
  BY DEF WriteChunk, Fits, c
<1> QED BY <1>6, <1>7, <1>8, <1>9, <1>10, <1>11, <1>12

\* A finish that finds the file in its place already.
LEMMA FinishFoundKeeps ==
    ASSUME IInv, NEW s \in Socket, Takes(s, "finish"), side.exists, ~side.done, partial = NoFile,
           side.name # 0, saved[side.name] # NoFile, Touch(partial, Side(side.name, TRUE)),
           Ends(s, Answer("done")), UNCHANGED <<saved, gc, errors>>
    PROVE  IInv'
<1>1. /\ page' = page /\ sock' = sock /\ alive' = alive /\ crashes' = crashes /\ days' = days
      /\ partial' = partial /\ side' = Side(side.name, TRUE) /\ fresh' = TRUE
      /\ op' = NoOp /\ Reply(s, Answer("done"))
  BY DEF Takes, Ends, Touch
<1>2. Answer("done") \in AnswerType /\ "finish" \in Kinds BY FrameTypes DEF Kinds
<1>3. down' \in Seq(AnswerType) BY <1>1, <1>2, ReplyFacts DEF IInv
<1>4. down' = down \/ (s = sock /\ page.phase \in OnWire) BY <1>1, <1>2, ReplyFacts DEF IInv
<1>5. QueuesInOrder' /\ BegunFirst' /\ Fewer BY <1>1, <1>2, <1>4, TakesNet
<1>6. op = NoOp /\ op.kind = "none" /\ op'.kind = "none" /\ ~Quiet
  BY <1>1, <1>2, TakesFacts, TypesOf, OpTypes, ZenonT(40) DEF IInv, Quiet
<1>7. /\ side.name \in 0..Len(saved) /\ side.name \in DOMAIN saved
      /\ side'.exists /\ side'.name = side.name /\ side'.done
      /\ side' \in [exists : BOOLEAN, name : 0..Len(saved), done : BOOLEAN]
  <2>1. side.name \in 0..Len(saved) /\ DOMAIN saved = 1..Len(saved) /\ Len(saved) \in Nat
    BY TypesOf DEF IInv
  <2>2. side.name \in DOMAIN saved BY <2>1
  <2>3. /\ side' \in [exists : BOOLEAN, name : 0..Len(saved), done : BOOLEAN]
        /\ side'.exists /\ side'.name = side.name /\ side'.done = TRUE
    <3>1. side' = Side(side.name, TRUE) BY <1>1
    <3> HIDE <1>1
    <3> QED BY <2>1, <3>1 DEF Side
  <2> QED BY <2>1, <2>2, <2>3
<1>8. Intact => Whole(side.name)
  <2>1. CASE days = 0 BY <1>6, <2>1 DEF IInv, NothingHalfCopied
  <2>2. CASE crashes + errors = 0 BY <1>6, <1>7, <2>2 DEF IInv, NothingHalfCopied, Whole
  <2> QED BY <2>1, <2>2 DEF Intact
<1>9. SystemTypes'
  <2>1. op' \in OpType /\ up' \in UpType /\ partial' \in Seq(Nat) /\ saved' \in Seq(Seq(Nat))
    BY <1>1, <1>5, OpTypes, TypesOf DEF Fewer, IInv
  <2>2. fresh' \in BOOLEAN /\ crashes' \in Nat /\ errors' \in Nat /\ days' \in Nat
    BY <1>1 DEF IInv, SystemTypes
  <2> QED BY <1>1, <1>3, <1>7, <2>1, <2>2, ServerTypes DEF IInv
<1>10. BytesInOrder' /\ BusyIsOpen' /\ CollectedIsOld'
  BY <1>1, <1>6, <1>7
     DEF IInv, BytesInOrder, BusyIsOpen, CollectedIsOld, Prefix, Moving, Finishing
<1>11. NothingHalfCopied' BY <1>1, <1>6, <1>7 DEF IInv, NothingHalfCopied
<1>12. ReportedIsKept'
  <2>1. \A n : Kept(n) => Kept(n)' BY <1>1, <1>6, <1>7 DEF Kept, Whole, Moving
  <2>2. Intact' => Intact /\ Whole(side.name)' BY <1>1, <1>7, <1>8 DEF Intact, Whole
  <2> QED BY <1>1, <1>6, <1>7, <2>1, <2>2, ReportedKept
<1>13. NamedOnce' BY <1>1, <1>5, <1>6, <1>7, NamedKept
<1> QED BY <1>5, <1>9, <1>10, <1>11, <1>12, <1>13, Together DEF DiskInv

LEMMA NameGiven ==
    ASSUME NEW q \in Seq(Seq(Nat)), NEW f \in Seq(Nat), NEW r, r = Append(q, f)
    PROVE  /\ r \in Seq(Seq(Nat)) /\ Len(r) = Len(q) + 1 /\ Len(q) \in Nat
           /\ DOMAIN q = 1..Len(q) /\ DOMAIN r = 1..(Len(q) + 1)
           /\ \A n \in DOMAIN q : n \in DOMAIN r /\ r[n] = q[n]
           /\ \A n \in DOMAIN r : n \in DOMAIN q \/ (n = Len(q) + 1 /\ r[n] = f)
<1>1. r \in Seq(Seq(Nat)) /\ Len(r) = Len(q) + 1 /\ Len(q) \in Nat OBVIOUS
<1>2. \A n \in 1..(Len(q) + 1) : r[n] = IF n <= Len(q) THEN q[n] ELSE f OBVIOUS
<1>3. DOMAIN q = 1..Len(q) /\ DOMAIN r = 1..(Len(q) + 1) BY <1>1
<1> QED BY <1>1, <1>2, <1>3

\* A finish that starts to move the file, to the name on record or to a new one.
LEMMA FinishMovesKeeps ==
    ASSUME IInv, NEW s \in Socket, Takes(s, "finish"), side.exists, ~side.done,
           partial # NoFile, Len(partial) = Size, UNCHANGED <<partial, down, gc, errors>>,
           fresh' = fresh \/ fresh' = TRUE,
           NEW STATE k, op' = Op("move", s, k),
           \/ side.name # 0 /\ k = side.name /\ side' = side /\ saved' = saved
           \/ /\ side.name = 0 /\ k = Len(saved) + 1 /\ side' = Side(k, FALSE)
              /\ saved' = Append(saved, NoFile)
    PROVE  IInv'
<1>1. /\ page' = page /\ sock' = sock /\ alive' = alive /\ crashes' = crashes /\ days' = days
  BY DEF Takes
<1>2. "finish" \in Kinds /\ s \in Nat BY Bounds DEF Kinds, Socket
<1>3. /\ Len(saved) \in Nat /\ side.name \in 0..Len(saved) /\ DOMAIN saved = 1..Len(saved)
      /\ saved \in Seq(Seq(Nat)) /\ NoFile \in Seq(Nat)
  BY TypesOf, SourceFacts DEF IInv
<1> DEFINE Chosen ==
       /\ saved' \in Seq(Seq(Nat)) /\ Len(saved') \in Nat
       /\ \A n \in DOMAIN saved : n \in DOMAIN saved' /\ saved'[n] = saved[n]
       /\ \A n \in DOMAIN saved' : n \in DOMAIN saved \/ saved'[n] = NoFile
       /\ k \in DOMAIN saved' /\ k \in Nat /\ k \in 0..Len(saved')
       /\ side.name = 0 => Len(saved') = Len(saved) + 1 /\ k = Len(saved) + 1
       /\ side.name # 0 => saved' = saved /\ k = side.name
       /\ side'.exists /\ side'.name = k /\ ~side'.done
       /\ side' \in [exists : BOOLEAN, name : 0..Len(saved'), done : BOOLEAN]
<1>4. Chosen
  <2>1. CASE side.name # 0 /\ k = side.name /\ side' = side /\ saved' = saved
    <3>1. side \in [exists : BOOLEAN, name : 0..Len(saved), done : BOOLEAN] BY TypesOf DEF IInv
    <3>2. k = side.name /\ side.name # 0 /\ side' = side /\ saved' = saved BY ONLY <2>1
    <3>3. k \in DOMAIN saved /\ k \in Nat /\ k \in 0..Len(saved) BY ONLY <1>3, <3>2
    <3>4. side.exists /\ ~side.done OBVIOUS
    <3> DEFINE m == Len(saved)
    <3>5. side' \in [exists : BOOLEAN, name : 0..m, done : BOOLEAN] /\ Len(saved') = m
      BY ONLY <3>1, <3>2
    <3>6. side' \in [exists : BOOLEAN, name : 0..Len(saved'), done : BOOLEAN]
      <4> HIDE DEF m
      <4> QED BY ONLY <3>5
    <3>7. side'.exists /\ side'.name = k /\ ~side'.done BY ONLY <3>2, <3>4
    <3>8. saved' \in Seq(Seq(Nat)) /\ Len(saved') \in Nat /\ k \in DOMAIN saved' /\ k \in 0..Len(saved')
      BY ONLY <1>3, <3>2, <3>3
    <3>9. \A n \in DOMAIN saved : n \in DOMAIN saved' /\ saved'[n] = saved[n] BY ONLY <3>2
    <3>10. \A n \in DOMAIN saved' : n \in DOMAIN saved \/ saved'[n] = NoFile BY ONLY <3>2
    <3> QED BY ONLY <3>2, <3>3, <3>6, <3>7, <3>8, <3>9, <3>10
  <2>2. CASE /\ side.name = 0 /\ k = Len(saved) + 1 /\ side' = Side(k, FALSE)
             /\ saved' = Append(saved, NoFile)
    <3> DEFINE r == saved'
    <3>1. r = Append(saved, NoFile) BY <2>2
    <3> HIDE DEF r
    <3>2. /\ r \in Seq(Seq(Nat)) /\ Len(r) = Len(saved) + 1
          /\ DOMAIN r = 1..(Len(saved) + 1)
          /\ \A n \in DOMAIN saved : n \in DOMAIN r /\ r[n] = saved[n]
          /\ \A n \in DOMAIN r : n \in DOMAIN saved \/ (n = Len(saved) + 1 /\ r[n] = NoFile)
      BY <1>3, <3>1, NameGiven
    <3>3. Len(r) \in Nat /\ k \in Nat /\ k \in 0..Len(r) /\ k \in DOMAIN r BY <1>3, <2>2, <3>2
    <3>4. /\ side'.exists /\ side'.name = k /\ side'.done = FALSE
          /\ side' \in [exists : BOOLEAN, name : 0..Len(r), done : BOOLEAN]
      BY <2>2, <3>3 DEF Side
    <3>5. side.name = 0 /\ k = Len(saved) + 1 BY ONLY <2>2
    <3> DEFINE m == Len(r)
    <3>6. side' \in [exists : BOOLEAN, name : 0..m, done : BOOLEAN] /\ Len(saved') = m
      BY ONLY <3>4 DEF r
    <3>7. side' \in [exists : BOOLEAN, name : 0..Len(saved'), done : BOOLEAN]
      <4> HIDE DEF m
      <4> QED BY ONLY <3>6
    <3>8. saved' \in Seq(Seq(Nat)) /\ Len(saved') \in Nat /\ k \in DOMAIN saved' /\ k \in 0..Len(saved')
      BY ONLY <3>2, <3>3 DEF r
    <3>9. \A n \in DOMAIN saved : n \in DOMAIN saved' /\ saved'[n] = saved[n] BY ONLY <3>2 DEF r
    <3>10. \A n \in DOMAIN saved' : n \in DOMAIN saved \/ saved'[n] = NoFile BY ONLY <3>2 DEF r
    <3>11. Len(saved') = Len(saved) + 1 BY ONLY <3>2 DEF r
    <3>12. side'.exists /\ side'.name = k /\ ~side'.done BY ONLY <3>4
    <3>13. /\ side.name = 0 => Len(saved') = Len(saved) + 1 /\ k = Len(saved) + 1
           /\ side.name # 0 => saved' = saved /\ k = side.name
      BY ONLY <3>5, <3>11
    <3>14. k \in Nat BY ONLY <3>3
    <3> QED BY ONLY <3>7, <3>8, <3>9, <3>10, <3>12, <3>13, <3>14
  <2> HIDE DEF Chosen
  <2> QED BY <2>1, <2>2
<1>5. /\ op' \in OpType /\ op'.kind = "move" /\ op'.from = s /\ op'.name = k BY <1>2, <1>4, OpTypes
<1>6. QueuesInOrder' /\ BegunFirst' /\ Fewer BY <1>1, <1>2, <1>5, StartsNet
<1>7. op = NoOp /\ op.kind = "none" BY <1>2, TakesFacts, TypesOf, OpTypes DEF IInv
<1>8. partial = Source BY WholePrefix, TypesOf DEF IInv, BytesInOrder
<1>9. SystemTypes'
  <2>1. up' \in UpType /\ partial' \in Seq(Nat) /\ down' \in Seq(AnswerType)
    BY <1>6, TypesOf DEF Fewer, IInv
  <2>2. fresh' \in BOOLEAN /\ crashes' \in Nat /\ errors' \in Nat /\ days' \in Nat
    BY <1>1 DEF IInv, SystemTypes
  <2>3. SystemTypes /\ gc' = gc BY DEF IInv
  <2> QED BY <1>1, <1>4, <1>5, <2>1, <2>2, <2>3, ServerTypes
<1>10. BytesInOrder' /\ BusyIsOpen' /\ CollectedIsOld'
  <2>1. BytesInOrder' BY <1>4, <1>5, <1>8, SourceFacts DEF BytesInOrder, Moving, Finishing
  <2>2. BusyIsOpen' BY <1>4, <1>5 DEF BusyIsOpen, Moving, Finishing
  <2>3. CollectedIsOld' BY <1>1 DEF IInv, CollectedIsOld
  <2> QED BY <2>1, <2>2, <2>3
<1>11. NothingHalfCopied' BY <1>1, <1>4, <1>5, <1>7, <1>8, SourceFacts DEF IInv, NothingHalfCopied
<1>12. ReportedIsKept'
  <2>1. \A n : Kept(n) => n # k BY <1>3, <1>4 DEF Kept, Whole
  <2>2. \A n : Kept(n) => Kept(n)' BY <1>4, <1>5, <2>1 DEF Kept, Whole
  <2> QED BY <1>1, <1>4, <2>2, ReportedKept DEF Intact, Reported
<1>13. NamedOnce'
  <2>1. CASE side.name # 0 BY <1>1, <1>4, <1>5, <1>6, <2>1, NamedKept
  <2>2. CASE side.name = 0
    <3>1. Holds(s, "finish") BY <1>2, TakesFacts, TypesOf DEF IInv
    <3>2. days = 0 => Len(saved) = 0 BY <1>3, <2>2, <3>1 DEF IInv, NamedOnce, SavedOnce
    <3>3. days = 0 => Len(saved') = 1 /\ side'.name = 1 BY <1>3, <1>4, <2>2, <3>2
    <3> QED BY <1>1, <3>3, SMTT(30) DEF NamedOnce, SavedOnce
  <2> QED BY <2>1, <2>2
<1> QED BY <1>6, <1>9, <1>10, <1>11, <1>12, <1>13, Together DEF DiskInv

LEMMA FinishStartKeeps ==
    ASSUME IInv, NEW s \in Socket, FinishStart(s)
    PROVE  IInv'
<1>1. Takes(s, "finish") /\ gc' = gc /\ errors' = errors /\ "finish" \in Kinds
  BY DEF FinishStart, Kinds
<1>2. \A k \in {"unknown", "refused", "missing", "incomplete"} :
        Answer(k) \in AnswerType /\ Answer(k).kind # "done"
  BY FrameTypes DEF Refusals, Confusions
<1>3. Answer("done") \in AnswerType BY FrameTypes
<1>4. ASSUME NEW k \in {"unknown", "refused", "missing", "incomplete"},
             Ends(s, Answer(k)), KeepDisk, saved' = saved
      PROVE  IInv'
  BY <1>1, <1>2, <1>4, AnswerKeeps DEF Ends, KeepDisk
<1>5. CASE side.done /\ Ends(s, Answer("done")) /\ KeepDisk /\ UNCHANGED saved
  BY <1>1, <1>3, <1>5, AnswerKeeps DEF Ends, KeepDisk
<1>6. CASE /\ side.exists /\ ~side.done /\ partial = NoFile
           /\ side.name # 0 /\ saved[side.name] # NoFile
           /\ Touch(partial, Side(side.name, TRUE)) /\ Ends(s, Answer("done")) /\ UNCHANGED saved
  BY <1>1, <1>6, FinishFoundKeeps
<1>7. CASE /\ side.exists /\ ~side.done /\ partial # NoFile /\ Len(partial) = Size
           /\ side.name # 0 /\ KeepDisk /\ op' = Op("move", s, side.name)
           /\ UNCHANGED <<saved, down>>
  <2> DEFINE k == side.name
  <2>1. k = side.name /\ op' = Op("move", s, k) BY <1>7
  <2> HIDE DEF k
  <2> QED BY <1>1, <1>7, <2>1, FinishMovesKeeps DEF KeepDisk
<1>8. CASE /\ side.exists /\ ~side.done /\ partial # NoFile /\ Len(partial) = Size
           /\ side.name = 0 /\ Touch(partial, Side(Len(saved) + 1, FALSE))
           /\ op' = Op("move", s, Len(saved) + 1) /\ saved' = Append(saved, NoFile)
           /\ UNCHANGED down
  <2> DEFINE k == Len(saved) + 1
  <2>1. k = Len(saved) + 1 /\ op' = Op("move", s, k) /\ side' = Side(k, FALSE) BY <1>8 DEF Touch
  <2> HIDE DEF k
  <2> QED BY <1>1, <1>8, <2>1, FinishMovesKeeps DEF Touch
<1> QED BY <1>4, <1>5, <1>6, <1>7, <1>8 DEF FinishStart

\* A step of the move: what is at the given name is the whole file, or a copy that
\* has begun while the partial still holds all of it.
LEMMA MoveStepKeeps ==
    ASSUME IInv, op.kind \in Moving, op' \in OpType, op'.kind \in {"copy", "unlink", "record"},
           op'.from = op.from, op'.name = op.name,
           NEW f, saved' = [saved EXCEPT ![op.name] = f],
           f = Source \/ (f = <<>> /\ op'.kind = "copy" /\ partial' # NoFile),
           op'.kind = "copy" => op'.bytes = Source,
           op'.kind # "copy" => f = Source,
           partial' = partial \/ partial' = NoFile,
           UNCHANGED <<page, sock, alive, up, down, side, fresh, gc, crashes, errors, days>>
    PROVE  IInv'
<1>1. /\ op.name \in DOMAIN saved /\ ~side.done /\ op.kind \in Finishing /\ op'.kind \in Finishing
      /\ op.kind \notin {"none", "begin", "abort", "record"}
  BY DEF IInv, BytesInOrder, BusyIsOpen, Moving, Finishing
<1>2. /\ saved \in Seq(Seq(Nat)) /\ DOMAIN saved = 1..Len(saved) /\ Len(saved) \in Nat
      /\ f \in Seq(Nat)
  BY TypesOf, SourceFacts DEF IInv
<1>3. /\ saved' \in Seq(Seq(Nat)) /\ Len(saved') = Len(saved) /\ DOMAIN saved' = DOMAIN saved
      /\ saved'[op.name] = f /\ \A n \in DOMAIN saved : n # op.name => saved'[n] = saved[n]
  BY <1>1, <1>2
<1>4. QueuesInOrder' /\ BegunFirst'
  <2>1. Fewer BY FewerWhenSame, TypesOf DEF IInv
  <2>2. DownOK /\ OpOK BY <1>1 DEF DownOK, OpOK
  <2> QED BY <2>1, <2>2, ServerNet DEF IInv
<1>5. SystemTypes'
  <2>1. up' \in UpType /\ down' \in Seq(AnswerType) /\ partial' \in Seq(Nat)
    BY TypesOf, SourceFacts DEF IInv
  <2>2. /\ fresh' \in BOOLEAN /\ crashes' \in Nat /\ errors' \in Nat /\ days' \in Nat
    BY DEF IInv, SystemTypes
  <2>3. side' \in [exists : BOOLEAN, name : 0..Len(saved'), done : BOOLEAN]
    BY <1>3, TypesOf DEF IInv
  <2>4. SystemTypes /\ gc' = gc /\ page' = page /\ sock' = sock /\ alive' = alive BY DEF IInv
  <2> QED BY <1>3, <2>1, <2>2, <2>3, <2>4, ServerTypes
<1>6. /\ partial' \in {NoFile, Source} /\ Prefix(partial')
  BY <1>1, SourceFacts DEF IInv, BytesInOrder
<1>7. BytesInOrder' BY <1>1, <1>3, <1>6 DEF BytesInOrder, Prefix
<1>8. BusyIsOpen' /\ CollectedIsOld' BY <1>1 DEF IInv, BusyIsOpen, CollectedIsOld
<1>9. NothingHalfCopied'
  <2>1. ASSUME crashes + errors = 0, NEW n \in DOMAIN saved
        PROVE  saved'[n] \in {NoFile, Source} \/ (op'.kind = "copy" /\ op'.name = n)
    <3>1. CASE n = op.name BY <1>3, <3>1
    <3>2. CASE n # op.name BY <1>3, <2>1, <3>2 DEF IInv, NothingHalfCopied
    <3> QED BY <3>1, <3>2
  <2>2. ASSUME days = 0, partial' = NoFile
        PROVE  Whole(side.name)'
    <3>1. side.name = op.name /\ f = Source BY <1>1, <2>2 DEF IInv, BusyIsOpen
    <3> QED BY <1>1, <1>3, <3>1 DEF Whole
  <2> QED BY <1>3, <2>1, <2>2 DEF NothingHalfCopied
<1>10. ReportedIsKept'
  <2>1. \A n : Kept(n) => Kept(n)' BY <1>1, <1>3 DEF Kept, Whole
  <2>2. ~side'.done /\ ~side.done BY <1>1
  <2>3. Intact' => Intact BY DEF Intact
  <2>4. Reported' => Reported BY DEF Reported
  <2>5. days' = days OBVIOUS
  <2> QED BY <2>1, <2>2, <2>3, <2>4, <2>5, ReportedKept DEF IInv
<1>11. NamedOnce' BY <1>1, <1>3, FewerWhenSame, TypesOf, NamedKept DEF IInv, Finishing, Moving
<1> QED BY <1>4, <1>5, <1>7, <1>8, <1>9, <1>10, <1>11, Together DEF DiskInv

\* The next stage of a move is an operation of the same file.
NextStage(k) == /\ op' \in OpType /\ op'.kind = k /\ op'.from = op.from /\ op'.name = op.name

LEMMA OpStep ==
    ASSUME op \in OpType, NEW k \in {"copy", "unlink", "record"}, op' = [op EXCEPT !.kind = k]
    PROVE  NextStage(k)
BY DEF OpType, NextStage

LEMMA MoveKeeps == ASSUME IInv, Rename \/ CopyStarts \/ CopyEnds \/ Unlink PROVE IInv'
<1>1. op \in OpType /\ op.kind \in Moving
  BY TypesOf DEF IInv, Rename, CopyStarts, CopyEnds, Unlink, InFinish, Moving
<1>2. UNCHANGED <<page, sock, alive, up, down, side, fresh, gc, crashes, errors, days>>
  BY DEF Rename, CopyStarts, CopyEnds, Unlink, InFinish
<1>3. /\ partial # NoFile => partial = Source
      /\ op.kind = "copy" => op.bytes = Source
      /\ op.kind = "unlink" => saved[op.name] = Source
      /\ op.name \in DOMAIN saved /\ saved \in Seq(Seq(Nat))
  BY <1>1, TypesOf DEF IInv, BytesInOrder, Moving, Finishing
<1>4. Source \in Seq(Nat) /\ <<>> \in Seq(Nat) /\ <<>> # NoFile /\ Source # NoFile BY SourceFacts
<1>5. CASE Rename
  <2>1. /\ partial' = NoFile /\ saved' = [saved EXCEPT ![op.name] = Source]
        /\ op' = [op EXCEPT !.kind = "record"]
    BY <1>3, <1>5 DEF Rename, Put
  <2>2. /\ op' \in OpType /\ op'.kind = "record" /\ op'.from = op.from /\ op'.name = op.name
    BY <1>1, <1>4, <2>1, OpStep DEF NextStage
  <2> QED BY <1>1, <1>2, <1>4, <2>1, <2>2, MoveStepKeeps
<1>6. CASE CopyStarts
  <2>1. /\ partial' = partial /\ saved' = [saved EXCEPT ![op.name] = <<>>] /\ partial # NoFile
        /\ op' = [op EXCEPT !.kind = "copy", !.bytes = Source]
    BY <1>3, <1>6 DEF CopyStarts, Put
  <2>2. /\ op' \in OpType /\ op'.kind = "copy" /\ op'.from = op.from /\ op'.name = op.name
        /\ op'.bytes = Source
    BY <1>1, <1>4, <2>1, SourceFacts DEF OpType
  <2> DEFINE f == <<>>
  <2>3. saved' = [saved EXCEPT ![op.name] = f] /\ f = <<>> BY <2>1
  <2> HIDE DEF f
  <2> QED BY <1>1, <1>2, <1>4, <2>1, <2>2, <2>3, MoveStepKeeps
<1>7. CASE CopyEnds
  <2>1. /\ partial' = partial /\ saved' = [saved EXCEPT ![op.name] = Source]
        /\ op' = [op EXCEPT !.kind = "unlink", !.bytes = <<>>]
    BY <1>3, <1>7 DEF CopyEnds, Put, InFinish
  <2>2. /\ op' \in OpType /\ op'.kind = "unlink" /\ op'.from = op.from /\ op'.name = op.name
    BY <1>1, <1>4, <2>1, SourceFacts DEF OpType
  <2> QED BY <1>1, <1>2, <1>4, <2>1, <2>2, MoveStepKeeps
<1>8. CASE Unlink
  <2>1. partial' = NoFile /\ saved' = saved /\ op' = [op EXCEPT !.kind = "record"]
    BY <1>8 DEF Unlink
  <2>2. /\ op' \in OpType /\ op'.kind = "record" /\ op'.from = op.from /\ op'.name = op.name
    BY <1>1, <1>4, <2>1, OpStep DEF NextStage
  <2>3. saved' = [saved EXCEPT ![op.name] = Source] BY <1>3, <1>8, <2>1 DEF Unlink, InFinish
  <2> QED BY <1>1, <1>2, <1>4, <2>1, <2>2, <2>3, MoveStepKeeps
<1> QED BY <1>5, <1>6, <1>7, <1>8

\* A move or a begin that comes to nothing leaves the files where they are.
LEMMA EndsEmpty ==
    ASSUME IInv, op.kind \in {"begin", "move", "copy", "unlink", "record"},
           UNCHANGED <<page, sock, alive, up, partial, side, saved, fresh, gc, crashes, days>>,
           Ends(op.from, Answer("disk")), errors' = errors \/ errors' = errors + 1,
           op.kind = "copy" => errors' = errors + 1
    PROVE  IInv'
<1>1. op' = NoOp /\ Reply(op.from, Answer("disk")) /\ op'.kind = "none" /\ op' \in OpType
  BY OpTypes DEF Ends
<1>2. Answer("disk") \in AnswerType /\ Answer("disk").kind # "done" BY FrameTypes DEF Refusals
<1>3. /\ down' \in Seq(AnswerType)
      /\ down' = down \/ (op.from = sock /\ page.phase \in OnWire)
      /\ Reported' => Reported
  BY <1>1, <1>2, ReplyFacts DEF IInv
<1>4. QueuesInOrder' /\ BegunFirst' BY <1>1, <1>3, EndsNet
<1>5. crashes \in Nat /\ errors \in Nat /\ days \in Nat BY DEF IInv, SystemTypes
<1>6. errors' \in Nat /\ (crashes + errors' = 0 => crashes + errors = 0 /\ op.kind # "copy")
  <2> DEFINE f == errors'
  <2>1. f = errors \/ f = errors + 1 OBVIOUS
  <2>2. op.kind = "copy" => f = errors + 1 OBVIOUS
  <2> HIDE DEF f
  <2>3. f \in Nat /\ (crashes + f = 0 => crashes + errors = 0) /\ (f = errors + 1 => crashes + f # 0)
    BY <1>5, <2>1, CountUp
  <2> QED BY <2>2, <2>3 DEF f
<1>7. SystemTypes'
  <2>1. /\ up' \in UpType /\ partial' \in Seq(Nat) /\ saved' \in Seq(Seq(Nat))
        /\ side' \in [exists : BOOLEAN, name : 0..Len(saved'), done : BOOLEAN]
    BY TypesOf DEF IInv
  <2>2. fresh' \in BOOLEAN /\ crashes' \in Nat /\ errors' \in Nat /\ days' \in Nat
    BY <1>5, <1>6 DEF IInv, SystemTypes
  <2> QED BY <1>1, <1>3, <2>1, <2>2, ServerTypes DEF IInv
<1>8. BytesInOrder' /\ BusyIsOpen' /\ CollectedIsOld'
  BY <1>1 DEF IInv, BytesInOrder, BusyIsOpen, CollectedIsOld, Prefix, Moving, Finishing
<1>9. NothingHalfCopied' BY <1>1, <1>6 DEF IInv, NothingHalfCopied, Whole, Quiet
<1>10. ReportedIsKept'
  <2>1. Intact' => Intact BY <1>6 DEF Intact
  <2>2. \A n : Kept(n) => Kept(n)' BY <1>1 DEF Kept, Whole, Moving
  <2>3. ~side.done /\ ~side'.done BY DEF IInv, BusyIsOpen
  <2> QED BY <1>3, <2>1, <2>2, <2>3, ReportedKept
<1>11. NamedOnce'
  <2>1. Fewer BY FewerWhenSame, TypesOf DEF IInv
  <2> QED BY <1>1, <2>1, NamedKept
<1> QED BY <1>4, <1>7, <1>8, <1>9, <1>10, <1>11, Together DEF DiskInv

LEMMA FindsNothingKeeps == ASSUME IInv, MoveFindsNothing \/ OperationFails PROVE IInv'
<1>1. /\ op.kind \in {"begin", "move", "copy", "unlink", "record"}
      /\ UNCHANGED <<page, sock, alive, up, partial, side, saved, fresh, gc, crashes, days>>
      /\ Ends(op.from, Answer("disk")) /\ (errors' = errors \/ errors' = errors + 1)
      /\ op.kind = "copy" => errors' = errors + 1
  BY DEF MoveFindsNothing, OperationFails, Fails, diskVars, countVars
<1> QED BY <1>1, EndsEmpty

LEMMA FinishEndsKeeps == ASSUME IInv, FinishEnds PROVE IInv'
<1>1. /\ page' = page /\ sock' = sock /\ alive' = alive /\ up' = up /\ saved' = saved /\ gc' = gc
      /\ UNCHANGED <<crashes, errors, days>>
      /\ op.kind = "record" /\ op' = NoOp /\ Reply(op.from, Answer("done"))
      /\ partial' = partial /\ side' = Side(op.name, TRUE) /\ fresh' = TRUE
  BY DEF FinishEnds, Touch, Ends, countVars
<1>2. Answer("done") \in AnswerType BY FrameTypes
<1>3. down' \in Seq(AnswerType) /\ (down' = down \/ (op.from = sock /\ page.phase \in OnWire))
  BY <1>1, <1>2, ReplyFacts DEF IInv
<1>4. QueuesInOrder' /\ BegunFirst' BY <1>1, <1>3, EndsNet
<1>5. op'.kind = "none" /\ op' \in OpType BY <1>1, OpTypes
<1>6. /\ op.name \in DOMAIN saved /\ saved[op.name] = Source /\ ~side.done
      /\ days = 0 => side.exists /\ side.name = op.name
  BY <1>1 DEF IInv, BytesInOrder, BusyIsOpen, Finishing
<1>7. /\ side'.exists /\ side'.name = op.name /\ side'.done
      /\ side' \in [exists : BOOLEAN, name : 0..Len(saved), done : BOOLEAN]
  <2>1. op.name \in 0..Len(saved) BY <1>6, TypesOf DEF IInv
  <2>2. side' = Side(op.name, TRUE) BY <1>1
  <2> HIDE <1>1
  <2> QED BY <2>1, <2>2 DEF Side
<1>8. SystemTypes'
  <2>1. up' \in UpType /\ partial' \in Seq(Nat) /\ saved' \in Seq(Seq(Nat))
    BY <1>1, TypesOf DEF IInv
  <2>2. fresh' \in BOOLEAN /\ crashes' \in Nat /\ errors' \in Nat /\ days' \in Nat
    BY <1>1 DEF IInv, SystemTypes
  <2> QED BY <1>1, <1>3, <1>5, <1>7, <2>1, <2>2, ServerTypes DEF IInv
<1>9. BytesInOrder' /\ BusyIsOpen' /\ CollectedIsOld'
  BY <1>1, <1>5, <1>7
     DEF IInv, BytesInOrder, BusyIsOpen, CollectedIsOld, Prefix, Moving, Finishing
<1>10. NothingHalfCopied' BY <1>1, <1>5, <1>7 DEF IInv, NothingHalfCopied
<1>11. ReportedIsKept'
  <2>1. \A n : Kept(n) => Kept(n)' BY <1>1, <1>5, <1>7 DEF Kept, Whole, Moving
  <2>2. Whole(side.name)' BY <1>1, <1>6, <1>7 DEF Whole
  <2> QED BY <1>1, <1>5, <1>6, <1>7, <2>1, <2>2, ReportedKept DEF Intact
<1>12. NamedOnce'
  <2>1. Fewer BY <1>1, FewerWhenSame, TypesOf DEF IInv
  <2> QED BY <1>1, <1>5, <1>6, <1>7, <2>1, NamedKept
<1> QED BY <1>4, <1>8, <1>9, <1>10, <1>11, <1>12, Together DEF DiskInv

LEMMA AbortStartKeeps ==
    ASSUME IInv, NEW s \in Socket, AbortStart(s)
    PROVE  IInv'
<1>1. /\ page' = page /\ sock' = sock /\ alive' = alive /\ crashes' = crashes /\ days' = days
      /\ UNCHANGED <<down, side, saved, fresh, gc, errors>>
      /\ Takes(s, "abort") /\ "abort" \in Kinds /\ s \in Nat
  BY Bounds DEF AbortStart, Takes, Kinds, Socket
<1>2. op = NoOp /\ op.kind = "none" BY <1>1, TakesFacts, TypesOf, OpTypes DEF IInv
<1>3. /\ op' \in OpType /\ op'.kind \in {"none", "abort"}
      /\ op'.kind = "abort" => op'.from = s /\ side.exists /\ ~side.done
      /\ op' = NoOp \/ op'.kind = "abort"
      /\ side.done => op' = NoOp
  BY <1>1, OpTypes DEF AbortStart
<1>4. /\ partial' = NoFile \/ partial' = partial
      /\ op'.kind = "none" /\ side.exists => side.done
  <2>1. Op("abort", s, 0).kind = "abort" BY <1>1, OpTypes
  <2>2. op' = Op("abort", s, 0) => op'.kind # "none" BY <2>1
  <2>3. partial' = NoFile \/ partial' = partial BY DEF AbortStart
  <2>4. op'.kind = "none" /\ side.exists => side.done BY <2>2 DEF AbortStart
  <2> QED BY <2>3, <2>4
<1>5. QueuesInOrder' /\ BegunFirst' /\ Fewer
  <2>1. CASE op' = NoOp BY <1>1, <2>1, TakesNet
  <2>2. CASE op'.kind = "abort" BY <1>1, <1>3, <2>2, StartsNet
  <2> QED BY <1>3, <2>1, <2>2
<1>6. SystemTypes'
  <2>1. up' \in UpType /\ partial' \in Seq(Nat) /\ down' \in Seq(AnswerType)
    BY <1>1, <1>4, <1>5, TypesOf, SourceFacts DEF Fewer, IInv
  <2>2. fresh' \in BOOLEAN /\ crashes' \in Nat /\ errors' \in Nat /\ days' \in Nat
    BY <1>1 DEF IInv, SystemTypes
  <2>3. /\ saved' \in Seq(Seq(Nat)) /\ side' \in [exists : BOOLEAN, name : 0..Len(saved'), done : BOOLEAN]
    BY <1>1, TypesOf DEF IInv
  <2> QED BY <1>1, <1>3, <2>1, <2>2, <2>3, ServerTypes DEF IInv
<1>7. BytesInOrder' /\ BusyIsOpen' /\ CollectedIsOld'
  <2>1. Prefix(partial') BY <1>4, SourceFacts DEF IInv, BytesInOrder
  <2>2. BytesInOrder' BY <1>3, <2>1 DEF BytesInOrder, Prefix, Moving, Finishing
  <2> QED BY <1>1, <1>3, <2>2 DEF IInv, BusyIsOpen, CollectedIsOld, Moving, Finishing
<1>8. NothingHalfCopied' BY <1>1, <1>2, <1>3, <1>4 DEF IInv, NothingHalfCopied, Whole
<1>9. ReportedIsKept'
  <2>1. Reported' => Reported BY <1>1 DEF Reported
  <2>2. \A n : Kept(n) => Kept(n)' BY <1>1, <1>3 DEF Kept, Whole, Moving
  <2>3. side'.done => op'.kind = "none" BY <1>1, <1>3
  <2> QED BY <1>1, <2>1, <2>2, <2>3, ReportedKept DEF Intact
<1>10. NamedOnce' BY <1>1, <1>3, <1>5, NamedKept
<1> QED BY <1>5, <1>6, <1>7, <1>8, <1>9, <1>10, Together DEF DiskInv

LEMMA AbortEndsKeeps == ASSUME IInv, AbortEnds PROVE IInv'
<1>1. /\ UNCHANGED <<page, sock, alive, up, down, partial, saved, fresh, gc, crashes, errors, days>>
      /\ op.kind = "abort" /\ op' = NoOp /\ side' = NoSide
  BY DEF AbortEnds, netVars, countVars
<1>2. op'.kind = "none" /\ op' \in OpType BY <1>1, OpTypes
<1>3. QueuesInOrder' /\ BegunFirst' BY <1>1, EndsNet
<1>4. /\ ~side'.exists /\ side'.name = 0 /\ ~side'.done
      /\ side' \in [exists : BOOLEAN, name : 0..Len(saved), done : BOOLEAN]
  BY <1>1, SideTypes, TypesOf DEF IInv
<1>5. ~side.done /\ page.phase = "aborted" /\ up[sock] = <<>>
  BY <1>1 DEF IInv, BusyIsOpen, QueuesInOrder
<1>6. SystemTypes'
  <2>1. up' \in UpType /\ partial' \in Seq(Nat) /\ down' \in Seq(AnswerType) /\ saved' \in Seq(Seq(Nat))
    BY <1>1, TypesOf DEF IInv
  <2>2. fresh' \in BOOLEAN /\ crashes' \in Nat /\ errors' \in Nat /\ days' \in Nat
    BY <1>1 DEF IInv, SystemTypes
  <2> QED BY <1>1, <1>2, <1>4, <2>1, <2>2, ServerTypes DEF IInv
<1>7. BytesInOrder' /\ BusyIsOpen' /\ CollectedIsOld'
  BY <1>1, <1>2, <1>4
     DEF IInv, BytesInOrder, BusyIsOpen, CollectedIsOld, Prefix, Moving, Finishing
<1>8. NothingHalfCopied' BY <1>1, <1>2, <1>4 DEF IInv, NothingHalfCopied
<1>9. ReportedIsKept'
  <2>1. \A n \in DOMAIN saved : n # 0 BY TypesOf DEF IInv
  <2>2. \A n : Kept(n) => Kept(n)' BY <1>1, <1>2, <1>4, <2>1 DEF Kept, Whole, Moving
  <2>3. Reported' => Reported BY <1>1 DEF Reported
  <2> QED BY <1>1, <1>2, <1>4, <1>5, <2>2, <2>3, ReportedKept DEF Intact
<1>10. NamedOnce'
  <2>1. \/ \A s \in Socket : ~Holds(s, "begin")
        \/ \A s \in Socket : ~Holds(s, "finish")
    <3>1. \A s \in Socket : up[s] # <<>> => s = sock - 1 BY <1>5 DEF IInv, QueuesInOrder
    <3>2. \A s \in Socket : \A k : Holds(s, k) => s = sock - 1 BY <3>1 DEF Holds
    <3>3. \A s \in Socket : ~(Holds(s, "begin") /\ Holds(s, "finish")) BY DEF IInv, QueuesInOrder
    <3> QED BY <3>2, <3>3
  <2>2. \A s : \A k : Holds(s, k)' <=> Holds(s, k) BY <1>1 DEF Holds
  <2> QED BY <1>1, <1>2, <1>4, <1>5, <2>1, <2>2 DEF IInv, NamedOnce, SavedOnce
<1> QED BY <1>3, <1>6, <1>7, <1>8, <1>9, <1>10, Together DEF DiskInv

--------------------
(* The collector, crashes and the network. *)

LEMMA WorldTypes ==
    ASSUME page' \in PageType, sock' \in 0..MaxSockets, alive' \subseteq Socket,
           gc' \in [st : {"idle", "scanned", "removing"}, files : SUBSET {"partial", "side"}],
           up' \in UpType, down' \in Seq(AnswerType), op' \in OpType,
           partial' \in Seq(Nat), saved' \in Seq(Seq(Nat)),
           side' \in [exists : BOOLEAN, name : 0..Len(saved'), done : BOOLEAN],
           fresh' \in BOOLEAN, crashes' \in Nat, errors' \in Nat, days' \in Nat
    PROVE  SystemTypes'
<1>1. /\ up' \in [Socket -> Seq([kind : {"begin", "chunk", "finish", "abort"},
                                 off : 0..Size, len : 0..MaxChunk])]
      /\ down' \in Seq([kind : {"offset", "done"} \cup Refusals, off : 0..Size])
  BY DEF UpType, FrameType, AnswerType
<1>2. op' \in [kind : {"none", "begin", "move", "copy", "unlink", "record", "abort"},
               from : Nat, name : Nat, bytes : Seq(Nat)]
  BY DEF OpType
<1>3. page' \in [phase : {"waiting"} \cup OnWire \cup Settled, acked : 0..Size, next : 0..Size,
                 inFlight : Seq([off : 0..Size, len : 1..MaxChunk]),
                 realigning : BOOLEAN, reading : {"no", "yes", "stale"}]
  BY DEF PageType
<1> QED BY <1>1, <1>2, <1>3 DEF SystemTypes

LEMMA WorldOf ==
    ASSUME SystemTypes
    PROVE  /\ alive \subseteq Socket /\ fresh \in BOOLEAN /\ crashes \in Nat /\ errors \in Nat /\ days \in Nat
           /\ gc \in [st : {"idle", "scanned", "removing"}, files : SUBSET {"partial", "side"}]
BY DEF SystemTypes

\* The collector and the days that pass leave the network and the operation alone.
LEMMA StillNet ==
    ASSUME IInv, UNCHANGED <<page, sock, up, down, op>>
    PROVE  QueuesInOrder' /\ BegunFirst' /\ Fewer
<1>1. Fewer BY FewerWhenSame, TypesOf DEF IInv
<1> QED BY <1>1, ServerNet DEF IInv, DownOK, OpOK

LEMMA DayPassesKeeps == ASSUME IInv, DayPasses PROVE IInv'
<1>1. /\ UNCHANGED <<page, sock, alive, up, down, op, partial, side, saved, gc, crashes, errors>>
      /\ op.kind = "none" /\ fresh' = FALSE /\ days' = days + 1
  BY OpTypes DEF DayPasses, netVars
<1>2. days' \in Nat /\ days' > 0 /\ days' # 0 BY <1>1, WorldOf DEF IInv
<1>3. SystemTypes' BY <1>1, <1>2, TypesOf, WorldOf, WorldTypes DEF IInv
<1>4. QueuesInOrder' /\ BegunFirst' BY <1>1, StillNet
<1>5. BytesInOrder' /\ BusyIsOpen' /\ CollectedIsOld' /\ NothingHalfCopied' /\ NamedOnce'
  BY <1>1, <1>2 DEF IInv, BytesInOrder, BusyIsOpen, CollectedIsOld, NothingHalfCopied, NamedOnce,
                    Prefix, Moving, Finishing
<1>6. ReportedIsKept'
  <2>1. Intact' => Intact BY <1>1, <1>2 DEF Intact
  <2>2. \A n : Kept(n) <=> Kept(n)' BY <1>1 DEF Kept, Whole
  <2>3. Reported' <=> Reported BY <1>1 DEF Reported
  <2>4. Whole(side.name) <=> Whole(side.name)' BY <1>1 DEF Whole
  <2> QED BY <1>1, <1>2, <2>1, <2>2, <2>3, <2>4 DEF IInv, ReportedIsKept
<1> QED BY <1>3, <1>4, <1>5, <1>6, Together DEF DiskInv

\* What the collector reads, checks and removes is of an upload a day old.
LEMMA GcKeeps ==
    ASSUME IInv, gc' \in [st : {"idle", "scanned", "removing"}, files : SUBSET {"partial", "side"}],
           days > 0,
           partial' = partial \/ partial' = NoFile, side' = side \/ side' = NoSide,
           UNCHANGED <<page, sock, alive, up, down, op, saved, fresh, crashes, errors, days>>
    PROVE  IInv'
<1>1. /\ days # 0 /\ days' # 0 /\ days' > 0 /\ DOMAIN saved = 1..Len(saved) /\ Len(saved) \in Nat
      /\ side \in [exists : BOOLEAN, name : 0..Len(saved), done : BOOLEAN]
  BY TypesOf, WorldOf DEF IInv
<1>2. /\ ~NoSide.exists /\ NoSide.name = 0 /\ ~NoSide.done
      /\ NoSide \in [exists : BOOLEAN, name : 0..Len(saved), done : BOOLEAN]
  BY <1>1, SideTypes
<1>3. SystemTypes'
  <2>1. side' \in [exists : BOOLEAN, name : 0..Len(saved'), done : BOOLEAN] BY <1>1, <1>2
  <2>2. partial' \in Seq(Nat) BY TypesOf, SourceFacts DEF IInv
  <2> QED BY <2>1, <2>2, TypesOf, WorldOf, WorldTypes DEF IInv
<1>4. QueuesInOrder' /\ BegunFirst' BY StillNet
<1>5. BytesInOrder'
  <2>1. Prefix(partial') BY SourceFacts DEF IInv, BytesInOrder
  <2> QED BY <2>1 DEF IInv, BytesInOrder, Prefix
<1>6. BusyIsOpen' /\ CollectedIsOld' /\ NothingHalfCopied' /\ NamedOnce'
  BY <1>1, <1>2 DEF IInv, BusyIsOpen, CollectedIsOld, NothingHalfCopied, NamedOnce
<1>7. ReportedIsKept'
  <2>1. \A n : Kept(n) => Kept(n)' BY <1>1, <1>2 DEF Kept, Whole
  <2>2. Reported' <=> Reported BY DEF Reported
  <2>3. Intact' <=> Intact BY DEF Intact
  <2>4. side'.done => side' = side BY <1>2
  <2>5. side'.done => op'.kind = "none" BY <2>4 DEF IInv, BusyIsOpen
  <2> QED BY <1>1, <2>1, <2>2, <2>3, <2>4, <2>5, ReportedKept
<1> QED BY <1>3, <1>4, <1>5, <1>6, <1>7, Together DEF DiskInv

LEMMA CollectorKeeps ==
    ASSUME IInv, GcScan \/ GcCheck \/ (\E x \in gc.files : GcRemove(x))
    PROVE  IInv'
<1>1. gc \in [st : {"idle", "scanned", "removing"}, files : SUBSET {"partial", "side"}]
  BY WorldOf DEF IInv
<1>2. CASE GcScan
  <2>1. Staged \subseteq {"partial", "side"} BY DEF Staged
  <2>2. ~fresh /\ gc' = [st |-> "scanned", files |-> Staged] BY <1>2 DEF GcScan
  <2>3. gc' \in [st : {"idle", "scanned", "removing"}, files : SUBSET {"partial", "side"}]
    BY <2>1, <2>2
  <2>4. days > 0 BY <2>2 DEF IInv, CollectedIsOld
  <2>5. UNCHANGED <<page, sock, alive, up, down, op, partial, side, saved, fresh, crashes, errors, days>>
    BY <1>2 DEF GcScan, netVars, diskVars, countVars
  <2> QED BY <2>3, <2>4, <2>5, GcKeeps
<1>3. CASE GcCheck
  <2>1. gc' \in [st : {"idle", "scanned", "removing"}, files : SUBSET {"partial", "side"}]
    BY <1>1, <1>3 DEF GcCheck
  <2>2. days > 0 BY <1>3 DEF GcCheck, IInv, CollectedIsOld
  <2>3. UNCHANGED <<page, sock, alive, up, down, op, partial, side, saved, fresh, crashes, errors, days>>
    BY <1>3 DEF GcCheck, netVars, diskVars, countVars
  <2> QED BY <2>1, <2>2, <2>3, GcKeeps
<1>4. CASE \E x \in gc.files : GcRemove(x)
  <2>1. PICK x \in gc.files : GcRemove(x) BY <1>4
  <2>2. gc' \in [st : {"idle", "scanned", "removing"}, files : SUBSET {"partial", "side"}]
    BY <1>1, <2>1 DEF GcRemove
  <2>3. days > 0 BY <2>1 DEF GcRemove, IInv, CollectedIsOld
  <2>4. /\ partial' = partial \/ partial' = NoFile
        /\ side' = side \/ side' = NoSide
    BY <2>1 DEF GcRemove
  <2>5. UNCHANGED <<page, sock, alive, up, down, op, saved, fresh, crashes, errors, days>>
    BY <2>1 DEF GcRemove, netVars, countVars
  <2> QED BY <2>2, <2>3, <2>4, <2>5, GcKeeps
<1> QED BY <1>2, <1>3, <1>4

\* A crash, or a socket lost: of what was on its way some is gone.
LEMMA FaultKeeps == ASSUME IInv, Fault PROVE IInv'
<1>1. /\ UNCHANGED <<page, sock, down, partial, side, saved, fresh, errors, days>>
      /\ alive' \subseteq alive
      /\ op' = op \/ (op' = NoOp /\ crashes' = crashes + 1 /\ \A s \in Socket : up'[s] = <<>>)
      /\ crashes' = crashes \/ crashes' = crashes + 1
      /\ gc' = gc \/ gc' = [st |-> "idle", files |-> {}]
      /\ up' \in UpType /\ \A s \in Socket : up'[s] = up[s] \/ up'[s] = <<>>
  <2>1. up \in UpType /\ <<>> \in Seq(FrameType) BY TypesOf DEF IInv
  <2>2. CASE Crash BY <2>1, <2>2 DEF Crash, diskVars, UpType
  <2>3. CASE \E s \in Socket : SocketDies(s)
    BY <2>1, <2>3 DEF SocketDies, diskVars, countVars, UpType
  <2> QED BY <2>2, <2>3 DEF Fault
<1>2. Fewer BY <1>1, FewerWhenCleared, TypesOf DEF IInv
<1>3. QueuesInOrder' /\ BegunFirst' BY <1>1, <1>2, ServerNet DEF IInv, DownOK, OpOK
<1>4. crashes' \in Nat /\ (crashes' + errors = 0 => crashes + errors = 0 /\ op' = op)
  <2> DEFINE f == crashes'
  <2>1. (f = crashes \/ f = crashes + 1) /\ (op' = op \/ f = crashes + 1) BY <1>1
  <2> HIDE DEF f
  <2>2. crashes \in Nat /\ errors \in Nat BY WorldOf DEF IInv
  <2>3. f \in Nat /\ (f + errors = 0 => crashes + errors = 0) /\ (f = crashes + 1 => f + errors # 0)
    BY ONLY <2>1, <2>2
  <2> QED BY <2>1, <2>3 DEF f
<1>5. op' \in OpType /\ (op' = op \/ op'.kind = "none") BY <1>1, OpTypes, TypesOf DEF IInv
<1>6. SystemTypes' BY <1>1, <1>4, <1>5, TypesOf, WorldOf, WorldTypes DEF IInv
<1>7. BytesInOrder' /\ BusyIsOpen' /\ CollectedIsOld'
  BY <1>1, <1>5 DEF IInv, BytesInOrder, BusyIsOpen, CollectedIsOld, Prefix, Moving, Finishing
<1>8. NothingHalfCopied'
  <2>1. ASSUME days = 0, side.exists, ~side.done, partial = NoFile
        PROVE  op'.kind = "abort" \/ Whole(side.name) \/ Quiet'
    <3>1. CASE op' = op BY <1>1, <2>1, <3>1 DEF IInv, NothingHalfCopied, Quiet
    <3>2. CASE op' = NoOp /\ \A s \in Socket : up'[s] = <<>>
      <4>1. op'.kind = "none" BY <3>2, OpTypes
      <4> QED BY <1>1, <2>1, <3>2, <4>1 DEF IInv, NothingHalfCopied, Quiet, QueuesInOrder
    <3> QED BY <1>1, <3>1, <3>2
  <2> QED BY <1>1, <1>4, <2>1 DEF IInv, NothingHalfCopied, Whole
<1>9. ReportedIsKept'
  <2>1. Intact' => Intact BY <1>1, <1>4 DEF Intact
  <2>2. Reported' => Reported BY <1>1 DEF Reported
  <2>3. \A n : Kept(n) => Kept(n)' BY <1>1, <1>5 DEF Kept, Whole, Moving
  <2>4. side'.done => op'.kind = "none" BY <1>1, <1>5 DEF IInv, BusyIsOpen
  <2> QED BY <1>1, <2>1, <2>2, <2>3, <2>4, ReportedKept
<1>10. NamedOnce' BY <1>1, <1>2, <1>5, NamedKept
<1> QED BY <1>3, <1>6, <1>7, <1>8, <1>9, <1>10, Together DEF DiskInv

--------------------
(* The invariant. *)

LEMMA InitKeeps == ASSUME Init PROVE IInv
<1>1. /\ page.phase = "waiting" /\ sock = 0 /\ alive = {} /\ down = <<>> /\ op = NoOp
      /\ partial = NoFile /\ side = NoSide /\ saved = <<>> /\ fresh = TRUE
      /\ gc = [st |-> "idle", files |-> {}] /\ crashes = 0 /\ errors = 0 /\ days = 0
      /\ up = [s \in Socket |-> <<>>]
  BY DEF Init
<1>2. page \in PageType
  <2> DEFINE w == <<>>
  <2>1. w \in Seq([off : 0..Size, len : 1..MaxChunk]) OBVIOUS
  <2> HIDE DEF w
  <2>2. page = [phase |-> "waiting", acked |-> 0, next |-> 0, inFlight |-> w,
                realigning |-> FALSE, reading |-> "no"]
    BY DEF Init, w
  <2> QED BY <2>1, <2>2, Sizes DEF PageType
<1>3. /\ \A s \in Socket : up[s] = <<>>
      /\ up \in UpType /\ down \in Seq(AnswerType) /\ sock \in 0..MaxSockets
  BY <1>1, Bounds DEF UpType
<1>4. /\ op \in OpType /\ op.kind = "none" /\ op.from = 0
      /\ ~side.exists /\ side.name = 0 /\ ~side.done
  BY <1>1, OpTypes, SideTypes
<1>5. saved \in Seq(Seq(Nat)) /\ Len(saved) = 0 /\ DOMAIN saved = {} BY <1>1
<1>6. side \in [exists : BOOLEAN, name : 0..Len(saved), done : BOOLEAN]
  <2> DEFINE m == Len(saved)
  <2>1. m \in Nat BY <1>5
  <2> HIDE DEF m
  <2>2. side \in [exists : BOOLEAN, name : 0..m, done : BOOLEAN] BY <1>1, <2>1, SideTypes
  <2> QED BY <2>2 DEF m
<1>7. SystemTypes
  <2>1. page \in [phase : {"waiting"} \cup OnWire \cup Settled, acked : 0..Size, next : 0..Size,
                  inFlight : Seq([off : 0..Size, len : 1..MaxChunk]),
                  realigning : BOOLEAN, reading : {"no", "yes", "stale"}]
    BY <1>2 DEF PageType
  <2>2. up \in [Socket -> Seq([kind : {"begin", "chunk", "finish", "abort"},
                               off : 0..Size, len : 0..MaxChunk])]
    BY <1>3 DEF UpType, FrameType
  <2>3. down \in Seq([kind : {"offset", "done"} \cup Refusals, off : 0..Size])
    BY <1>3 DEF AnswerType
  <2>4. op \in [kind : {"none", "begin", "move", "copy", "unlink", "record", "abort"},
                from : Nat, name : Nat, bytes : Seq(Nat)]
    BY <1>4 DEF OpType
  <2>5. partial \in Seq(Nat) BY <1>1, SourceFacts
  <2>6. /\ gc \in [st : {"idle", "scanned", "removing"}, files : SUBSET {"partial", "side"}]
        /\ sock \in 0..MaxSockets /\ alive \subseteq Socket
        /\ fresh \in BOOLEAN /\ crashes \in Nat /\ errors \in Nat /\ days \in Nat
    BY <1>1, <1>3
  <2> QED BY <1>5, <1>6, <2>1, <2>2, <2>3, <2>4, <2>5, <2>6 DEF SystemTypes
<1>8. \A s \in Socket : \A k : ~Holds(s, k) BY <1>3 DEF Holds
<1>9. BytesInOrder /\ BusyIsOpen /\ CollectedIsOld
  BY <1>1, <1>4, SourceFacts DEF BytesInOrder, BusyIsOpen, CollectedIsOld, Moving, Finishing
<1>10. NothingHalfCopied /\ NamedOnce BY <1>4, <1>5 DEF NothingHalfCopied, NamedOnce, SavedOnce
<1>11. ReportedIsKept BY <1>1, <1>4, NoAnswers DEF ReportedIsKept, Reported
<1>12. QueuesInOrder /\ BegunFirst
  BY <1>1, <1>3, <1>4, <1>8, PhaseFacts DEF QueuesInOrder, BegunFirst, AbortLast
<1> QED BY <1>7, <1>9, <1>10, <1>11, <1>12 DEF IInv

LEMMA NextKeeps == ASSUME IInv, [Next]_vars PROVE IInv'
<1>1. CASE PageStep
  BY <1>1, ConnectKeeps, LoseSocketKeeps, ReadDoneKeeps, FailKeeps, ReceiveKeeps, CancelKeeps
     DEF PageStep
<1>2. CASE StagingStep
  <2>1. CASE \E s \in Socket : \/ BeginKnown(s) \/ BeginNew(s) \/ WriteChunk(s)
                               \/ FinishStart(s) \/ AbortStart(s)
    BY <2>1, BeginKeeps, WriteChunkKeeps, FinishStartKeeps, AbortStartKeeps
  <2>2. CASE BeginNewEnds \/ AbortEnds \/ OperationFails
    BY <2>2, BeginNewEndsKeeps, AbortEndsKeeps, FindsNothingKeeps
  <2>3. CASE Rename \/ CopyStarts \/ CopyEnds \/ Unlink \/ MoveFindsNothing \/ FinishEnds
    BY <2>3, MoveKeeps, FindsNothingKeeps, FinishEndsKeeps
  <2> QED BY <1>2, <2>1, <2>2, <2>3 DEF StagingStep
<1>3. CASE GcStep BY <1>3, DayPassesKeeps, CollectorKeeps DEF GcStep
<1>4. CASE Fault BY <1>4, FaultKeeps
<1>5. CASE UNCHANGED vars
  <2>1. /\ UNCHANGED <<page, sock, alive, up, down, op, partial, side, saved, fresh, gc>>
        /\ UNCHANGED <<crashes, errors, days>>
    BY <1>5 DEF vars, netVars, diskVars, countVars
  <2>2. SystemTypes' BY <2>1, TypesOf, WorldOf, WorldTypes DEF IInv
  <2>3. QueuesInOrder' /\ BegunFirst' /\ Fewer BY <2>1, StillNet
  <2>4. BytesInOrder' /\ BusyIsOpen' /\ CollectedIsOld'
    BY <2>1 DEF IInv, BytesInOrder, BusyIsOpen, CollectedIsOld, Prefix
  <2>5. NothingHalfCopied' BY <2>1 DEF IInv, NothingHalfCopied, Whole, Quiet
  <2>6. NamedOnce' BY <2>1, <2>3, NamedKept
  <2>7. ReportedIsKept' BY <2>1 DEF IInv, ReportedIsKept, Kept, Whole, Intact, Reported
  <2> QED BY <2>2, <2>3, <2>4, <2>5, <2>6, <2>7, Together DEF DiskInv
<1> QED BY <1>1, <1>2, <1>3, <1>4, <1>5 DEF Next

\* The inductive invariant holds throughout.
THEOREM InvariantHolds == Spec => []IInv
BY InitKeeps, NextKeeps, PTL DEF Spec

\* One picked file makes one file in the folder, and what the sidecar or the page calls
\* done is that file byte for byte, through lost sockets, answers given twice, crashes
\* between two file operations and failed ones (upload-staging.ts finish and writeChunk).
THEOREM OneWholeFile == Spec => []WholeAndOnce
<1>1. ASSUME IInv PROVE WholeAndOnce
  <2>1. days = 0 => SavedOnce BY <1>1 DEF IInv, NamedOnce
  <2>2. Intact => DoneIsWhole BY <1>1 DEF IInv, ReportedIsKept, Reported, DoneIsWhole, Kept
  <2> QED BY <2>1, <2>2 DEF WholeAndOnce, Intact
<1> QED BY <1>1, InvariantHolds, PTL

--------------------
(* The promise. *)

Outcome == IF page.phase \in Settled THEN page.phase ELSE "pending"

LEMMA PagePromise ==
    ASSUME IInv, PageStep
    PROVE  [Promise!Next]_<<Outcome, side.done, days > 0>>
<1>1. side' = side /\ days' = days /\ days \in Nat
  BY WorldOf DEF PageStep, Connect, LoseSocket, ReadDone, Fail, Receive, Cancel, GiveUp,
                 diskVars, countVars, IInv
<1>2. page \in PageType BY TypesOf DEF IInv
<1>3. \/ Outcome' = Outcome
      \/ Outcome = "pending" /\ Outcome' \in {"failed", "aborted"}
      \/ Outcome = "pending" /\ Outcome' = "done" /\ (side.done \/ days > 0)
  <2>1. CASE Connect
    <3>1. page.phase = "waiting" /\ page'.phase = "beginning" BY <1>2, <2>1 DEF Connect, PageType
    <3> QED BY <3>1, PhaseFacts DEF Outcome
  <2>2. CASE LoseSocket
    <3>1. page.phase \in OnWire /\ page'.phase = "waiting" BY <1>2, <2>2 DEF LoseSocket, PageType
    <3> QED BY <3>1, PhaseFacts DEF Outcome
  <2>3. CASE ReadDone
    <3>1. page'.phase = page.phase \/ (page.phase = "sending" /\ page'.phase = "finishing")
      BY <2>3, ReadDonePhases
    <3> QED BY <3>1, PhaseFacts DEF Outcome
  <2>4. CASE Fail \/ GiveUp
    <3>1. page.phase \notin Settled /\ page'.phase = "failed"
      BY <1>2, <2>4, PhaseSet, PhaseFacts DEF Fail, GiveUp
    <3> QED BY <3>1, PhaseFacts DEF Outcome
  <2>5. CASE Cancel
    <3>1. page.phase \notin Settled /\ page'.phase = "aborted"
      BY <1>2, <2>5, PhaseSet, PhaseFacts DEF Cancel
    <3> QED BY <3>1, PhaseFacts DEF Outcome
  <2>6. CASE Receive
    <3>1. Head(down).kind = "done" => side.done \/ days > 0
      <4>1. Head(down).kind = "done" => Reported
        BY <2>6, DoneTaken, TypesOf DEF Receive, Reported, IInv
      <4> QED BY <1>1, <4>1 DEF IInv, ReportedIsKept
    <3>2. \/ page' = page
          \/ page.phase \notin Settled /\ page'.phase = "done" /\ Head(down).kind = "done"
          \/ page.phase \notin Settled /\ page'.phase = "failed"
          \/ page.phase \in {"beginning", "sending"} /\ page'.phase \in {"sending", "finishing"}
      BY <2>6, ReceivePhases
    <3> QED BY <3>1, <3>2, PhaseFacts DEF Outcome
  <2> QED BY <2>1, <2>2, <2>3, <2>4, <2>5, <2>6 DEF PageStep
<1> QED BY <1>1, <1>3
        DEF Promise!Next, Promise!ReportDone, Promise!ReportFailed, Promise!ReportAborted, Outcome

LEMMA OtherPromise ==
    ASSUME IInv, StagingStep \/ GcStep \/ Fault
    PROVE  [Promise!Next]_<<Outcome, side.done, days > 0>>
<1>1. page' = page /\ Outcome' = Outcome
  <2>1. page' = page
    BY DEF StagingStep, GcStep, Fault, BeginKnown, BeginNew, WriteChunk, FinishStart, AbortStart,
           Takes, BeginNewEnds, AbortEnds, OperationFails, Rename, CopyStarts, CopyEnds, Unlink,
           InFinish, MoveFindsNothing, FinishEnds, DayPasses, GcScan, GcCheck, GcRemove, Crash,
           SocketDies
  <2> QED BY <2>1 DEF Outcome
<1>2. days \in Nat /\ side.done \in BOOLEAN /\ side'.done \in BOOLEAN
  <2>1. IInv' BY NextKeeps DEF Next
  <2>2. /\ side \in [exists : BOOLEAN, name : 0..Len(saved), done : BOOLEAN]
        /\ days \in Nat
    BY TypesOf, WorldOf DEF IInv
  <2>3. side' \in [exists : BOOLEAN, name : 0..Len(saved'), done : BOOLEAN]
    BY <2>1 DEF IInv, SystemTypes
  <2> QED BY <2>2, <2>3
<1>3. \/ days' = days /\ (side.done => side'.done \/ days > 0)
      \/ days' = days + 1 /\ side' = side
  <2>1. CASE StagingStep
    <3>1. days' = days
      BY <2>1 DEF StagingStep, BeginKnown, BeginNew, WriteChunk, FinishStart, AbortStart,
           Takes, BeginNewEnds, AbortEnds, OperationFails, Rename, CopyStarts, CopyEnds, Unlink,
           InFinish, MoveFindsNothing, FinishEnds, countVars
    <3>2. side.done => op.kind = "none" BY DEF IInv, BusyIsOpen
    <3>3. ASSUME side.done PROVE side'.done
      <4>1. CASE \E s \in Socket : BeginKnown(s) \/ BeginNew(s) \/ WriteChunk(s)
        BY <3>3, <4>1 DEF BeginKnown, BeginNew, WriteChunk, Refused, Touch, KeepDisk
      <4>2. CASE \E s \in Socket : FinishStart(s) \/ AbortStart(s)
        BY <3>3, <4>2 DEF FinishStart, AbortStart, Touch, KeepDisk
      <4>3. CASE ~\E s \in Socket : \/ BeginKnown(s) \/ BeginNew(s) \/ WriteChunk(s)
                                    \/ FinishStart(s) \/ AbortStart(s)
        BY <2>1, <3>2, <3>3, <4>3
           DEF StagingStep, BeginNewEnds, AbortEnds, OperationFails, Rename, CopyStarts, CopyEnds,
               Unlink, InFinish, MoveFindsNothing, FinishEnds
      <4> QED BY <4>1, <4>2, <4>3
    <3> QED BY <3>1, <3>3
  <2>2. CASE GcStep
    <3>1. CASE DayPasses BY <3>1 DEF DayPasses
    <3>2. CASE GcScan \/ GcCheck BY <3>2 DEF GcScan, GcCheck, diskVars, countVars
    <3>3. CASE \E x \in gc.files : GcRemove(x) BY <3>3 DEF GcRemove, countVars, IInv, CollectedIsOld
    <3> QED BY <2>2, <3>1, <3>2, <3>3 DEF GcStep
  <2>3. CASE Fault BY <2>3 DEF Fault, Crash, SocketDies, diskVars, countVars
  <2> QED BY <2>1, <2>2, <2>3
<1>4. CASE days' = days /\ (side.done => side'.done \/ days > 0)
  BY <1>1, <1>2, <1>4 DEF Promise!Next, Promise!Arrive, Promise!Forget
<1>5. CASE days' = days + 1 /\ side' = side
  <2>1. days' > 0 BY <1>2, <1>5
  <2> QED BY <1>1, <1>5, <2>1 DEF Promise!Next, Promise!Abandon
<1> QED BY <1>3, <1>4, <1>5

\* The upload keeps its promise: the page is told "done" only of a file that has arrived
\* at its recorded place, and the record of the arrival is only lost to the collector
\* (upload-staging.ts finish and gc, client.ts handleUploadDone).
THEOREM PromiseIsKept == Spec => KeepsPromise
<1>1. Init => Promise!Init
  <2> SUFFICES ASSUME Init PROVE Promise!Init OBVIOUS
  <2>1. page.phase = "waiting" /\ side = NoSide /\ days = 0 BY DEF Init
  <2>2. page.phase \notin Settled BY <2>1 DEF Settled
  <2>3. side.done = FALSE /\ (days > 0) = FALSE BY <2>1 DEF NoSide
  <2> QED BY <2>2, <2>3 DEF Promise!Init
<1>2. ASSUME IInv, [Next]_vars PROVE [Promise!Next]_<<Outcome, side.done, days > 0>>
  <2>1. CASE UNCHANGED vars BY <2>1 DEF vars, diskVars, countVars, Outcome
  <2> QED BY <1>2, <2>1, PagePromise, OtherPromise DEF Next
<1> QED BY <1>1, <1>2, InvariantHolds, PTL DEF Spec, KeepsPromise, Promise!Spec, Outcome

--------------------
(* What PageAndStagingAgree takes: queues, windows and runs of chunks. *)

FlightType == [off : 0..Size, len : 1..MaxChunk]

LEMMA EmptyOf == ASSUME NEW T, NEW q \in Seq(T) PROVE q = <<>> <=> Len(q) = 0
OBVIOUS

\* A queue is a function on 1..Len, and taking or appending moves it by one.
LEMMA TailOf ==
    ASSUME NEW T, NEW q \in Seq(T), q # <<>>, NEW r, r = Tail(q)
    PROVE  /\ Len(q) \in Nat \ {0} /\ Len(r) = Len(q) - 1 /\ r \in Seq(T)
           /\ DOMAIN q = 1..Len(q) /\ DOMAIN r = 1..(Len(q) - 1)
           /\ \A i \in 1..(Len(q) - 1) : r[i] = q[i + 1]
           /\ r = <<>> <=> Len(q) = 1
<1>1. Len(q) \in Nat \ {0} /\ Len(r) = Len(q) - 1 /\ r \in Seq(T) /\ DOMAIN q = 1..Len(q) OBVIOUS
<1>2. DOMAIN r = 1..(Len(q) - 1) BY <1>1
<1>3. \A i \in 1..(Len(q) - 1) : r[i] = q[i + 1] OBVIOUS
<1>4. r = <<>> <=> Len(r) = 0 BY <1>1, EmptyOf
<1> QED BY <1>1, <1>2, <1>3, <1>4

LEMMA AppendOf ==
    ASSUME NEW T, NEW q \in Seq(T), NEW e \in T, NEW r, r = Append(q, e)
    PROVE  /\ Len(q) \in Nat /\ Len(r) = Len(q) + 1 /\ r \in Seq(T) /\ r # <<>>
           /\ DOMAIN q = 1..Len(q) /\ DOMAIN r = 1..(Len(q) + 1)
           /\ \A i \in 1..Len(q) : r[i] = q[i]
           /\ r[Len(q) + 1] = e
           /\ q = <<>> <=> Len(q) = 0
<1>1. Len(q) \in Nat /\ Len(r) = Len(q) + 1 /\ r \in Seq(T) /\ DOMAIN q = 1..Len(q) OBVIOUS
<1>2. DOMAIN r = 1..(Len(q) + 1) BY <1>1
<1>3. \A i \in 1..Len(q) : r[i] = q[i] OBVIOUS
<1>4. r[Len(q) + 1] = e OBVIOUS
<1>5. (q = <<>> <=> Len(q) = 0) /\ r # <<>> BY <1>1
<1> QED BY <1>1, <1>2, <1>3, <1>4, <1>5

\* Frames within the file, and a finish alone, as the queue is read and written.
LEMMA FitTail ==
    ASSUME NEW q \in Seq(FrameType), q # <<>>
    PROVE  /\ ChunksFit(q) => ChunksFit(Tail(q))
           /\ FinishAlone(q) => FinishAlone(Tail(q))
           /\ AllAborts(q) => AllAborts(Tail(q))
           /\ FinishAlone(q) /\ Head(q).kind = "finish" => AllAborts(Tail(q))
<1> DEFINE r == Tail(q)
<1>1. /\ Len(q) \in Nat \ {0} /\ DOMAIN q = 1..Len(q) /\ DOMAIN r = 1..(Len(q) - 1)
      /\ \A i \in 1..(Len(q) - 1) : r[i] = q[i + 1]
  BY TailOf
<1>2. Head(q) = q[1] OBVIOUS
<1> HIDE DEF r
<1>3. \A i \in DOMAIN r : i \in Nat /\ i + 1 \in DOMAIN q /\ i + 1 # 1 /\ r[i] = q[i + 1] BY <1>1
<1>4. 1 \in DOMAIN q BY <1>1
<1>5. ChunksFit(q) => ChunksFit(r) BY <1>3 DEF ChunksFit
<1>6. FinishAlone(q) => \A i \in DOMAIN r : r[i].kind # "finish" BY <1>3 DEF FinishAlone
<1>7. AllAborts(q) => AllAborts(r) BY <1>3 DEF AllAborts
<1>8. FinishAlone(q) /\ q[1].kind = "finish" => AllAborts(r)
  BY <1>3, <1>4 DEF FinishAlone, AllAborts
<1> QED BY <1>2, <1>5, <1>6, <1>7, <1>8 DEF FinishAlone, r

LEMMA FitAppend ==
    ASSUME NEW q \in Seq(FrameType), NEW c \in FrameType,
           ChunksFit(q), FinishAlone(q),
           c.kind = "chunk" => c.len > 0 /\ EndOf(c) <= Size,
           c.kind \in {"chunk", "begin"} => \A i \in DOMAIN q : q[i].kind # "finish",
           c.kind = "finish" => q = <<>>
    PROVE  ChunksFit(Append(q, c)) /\ FinishAlone(Append(q, c))
<1> DEFINE r == Append(q, c)
<1>1. /\ Len(q) \in Nat /\ DOMAIN q = 1..Len(q) /\ DOMAIN r = 1..(Len(q) + 1)
      /\ \A i \in 1..Len(q) : r[i] = q[i]
      /\ r[Len(q) + 1] = c
      /\ q = <<>> <=> Len(q) = 0
  BY AppendOf
<1> HIDE DEF r
<1>2. ChunksFit(r) BY <1>1 DEF ChunksFit
<1>3. FinishAlone(r)
  <2>1. SUFFICES ASSUME NEW i \in DOMAIN r, r[i].kind = "finish", NEW k \in DOMAIN r
                 PROVE  i = 1 /\ (k # i => r[k].kind = "abort")
    BY DEF FinishAlone
  <2>2. CASE i = Len(q) + 1
    <3>1. q = <<>> BY <1>1, <2>1, <2>2
    <3> QED BY <1>1, <2>1, <2>2, <3>1
  <2>3. CASE i \in DOMAIN q
    <3>1. q[i].kind = "finish" /\ i = 1 BY <1>1, <2>1, <2>3 DEF FinishAlone
    <3>2. c.kind = "abort" BY <2>3, <3>1 DEF FrameType
    <3>3. \A j \in DOMAIN q : j # i => q[j].kind = "abort" BY <2>3, <3>1 DEF FinishAlone
    <3> QED BY <1>1, <3>1, <3>2, <3>3
  <2> QED BY <1>1, <2>2, <2>3
<1> QED BY <1>2, <1>3 DEF r

\* The window, as a chunk is taken up, answered and sent.
LEMMA WindowTake ==
    ASSUME NEW q \in Seq(FrameType), q # <<>>, NEW n \in Nat, NEW w \in Seq(FlightType),
           InWindow(q, n, w)
    PROVE  /\ InWindow(Tail(q), n + 1, w)
           /\ n + 1 \in DOMAIN w /\ n < Len(w)
           /\ Head(q) = Chunk(w[n + 1].off, w[n + 1].len)
           /\ n + 1 + Len(Tail(q)) = n + Len(q)
<1> DEFINE r == Tail(q)
<1>1. /\ Len(q) \in Nat \ {0} /\ Len(r) = Len(q) - 1
      /\ DOMAIN q = 1..Len(q) /\ DOMAIN r = 1..(Len(q) - 1)
      /\ \A i \in 1..(Len(q) - 1) : r[i] = q[i + 1]
  BY TailOf
<1>2. Head(q) = q[1] /\ Len(w) \in Nat /\ DOMAIN w = 1..Len(w) OBVIOUS
<1> HIDE DEF r
<1>3. /\ n + Len(q) <= Len(w)
      /\ \A i \in 1..Len(q) : q[i] = Chunk(w[n + i].off, w[n + i].len)
  BY <1>1 DEF InWindow
<1>4. n + 1 \in DOMAIN w /\ n < Len(w) /\ n + 1 + Len(r) = n + Len(q) BY <1>1, <1>2, <1>3
<1>5. q[1] = Chunk(w[n + 1].off, w[n + 1].len) BY <1>1, <1>3
<1>6. ASSUME NEW i \in DOMAIN r PROVE r[i] = Chunk(w[n + 1 + i].off, w[n + 1 + i].len)
  <2>1. i + 1 \in 1..Len(q) /\ i \in Nat /\ r[i] = q[i + 1] BY <1>1
  <2>3. n + (i + 1) = n + 1 + i BY <2>1
  <2>2. q[i + 1] = Chunk(w[n + (i + 1)].off, w[n + (i + 1)].len) BY <2>1, <1>3
  <2> QED BY <2>1, <2>2, <2>3
<1>7. n + 1 + Len(r) <= Len(w) BY <1>1, <1>2, <1>3
<1> QED BY <1>2, <1>4, <1>5, <1>6, <1>7 DEF InWindow, r

LEMMA WindowDrop ==
    ASSUME NEW q \in Seq(FrameType), NEW n \in Nat \ {0}, NEW w \in Seq(FlightType),
           InWindow(q, n, w)
    PROVE  /\ w # <<>> /\ Tail(w) \in Seq(FlightType) /\ Len(Tail(w)) = Len(w) - 1
           /\ InWindow(q, n - 1, Tail(w))
<1>1. Len(q) \in Nat /\ DOMAIN q = 1..Len(q) /\ Len(w) \in Nat OBVIOUS
<1>2. /\ n + Len(q) <= Len(w)
      /\ \A i \in 1..Len(q) : q[i] = Chunk(w[n + i].off, w[n + i].len)
  BY <1>1 DEF InWindow
<1>3. Len(w) # 0 BY <1>1, <1>2
<1>4. w # <<>> BY <1>3, EmptyOf
<1> DEFINE v == Tail(w)
<1>5. /\ Len(v) = Len(w) - 1 /\ v \in Seq(FlightType)
      /\ \A i \in 1..(Len(w) - 1) : v[i] = w[i + 1]
  BY <1>4, TailOf
<1> HIDE DEF v
<1>6. ASSUME NEW i \in DOMAIN q PROVE q[i] = Chunk(v[n - 1 + i].off, v[n - 1 + i].len)
  <2>1. n - 1 + i \in 1..(Len(w) - 1) /\ (n - 1 + i) + 1 = n + i BY <1>1, <1>2
  <2>2. v[n - 1 + i] = w[n + i] BY <2>1, <1>5
  <2> QED BY <2>2, <1>1, <1>2
<1>7. n - 1 + Len(q) <= Len(v) BY <1>1, <1>2, <1>5
<1> QED BY <1>4, <1>5, <1>6, <1>7 DEF InWindow, v

LEMMA OneMore == \A n, l, m \in Nat : n + l = m => n + (l + 1) = m + 1
OBVIOUS

LEMMA WindowSend ==
    ASSUME NEW q \in Seq(FrameType), NEW n \in Nat, NEW w \in Seq(FlightType),
           NEW c \in FlightType, InWindow(q, n, w)
    PROVE  /\ InWindow(q, n, Append(w, c))
           /\ n + Len(q) = Len(w) =>
                /\ InWindow(Append(q, Chunk(c.off, c.len)), n, Append(w, c))
                /\ n + Len(Append(q, Chunk(c.off, c.len))) = Len(Append(w, c))
<1> DEFINE f == Chunk(c.off, c.len)
<1> DEFINE r == Append(q, f)
<1> DEFINE v == Append(w, c)
<1>1. f \in FrameType BY FrameTypes DEF FlightType
<1> HIDE DEF f
<1>2. /\ Len(q) \in Nat /\ Len(r) = Len(q) + 1
      /\ DOMAIN q = 1..Len(q) /\ DOMAIN r = 1..(Len(q) + 1)
      /\ \A i \in 1..Len(q) : r[i] = q[i]
      /\ r[Len(q) + 1] = f
  BY <1>1, AppendOf
<1>3. /\ Len(w) \in Nat /\ Len(v) = Len(w) + 1
      /\ \A i \in 1..Len(w) : v[i] = w[i]
      /\ v[Len(w) + 1] = c
  BY AppendOf
<1> HIDE DEF r, v
<1>4. /\ n + Len(q) <= Len(w)
      /\ \A i \in 1..Len(q) : q[i] = Chunk(w[n + i].off, w[n + i].len)
  BY <1>2 DEF InWindow
<1>5. \A i \in 1..Len(q) : q[i] = Chunk(v[n + i].off, v[n + i].len)
  <2> SUFFICES ASSUME NEW i \in 1..Len(q) PROVE q[i] = Chunk(v[n + i].off, v[n + i].len) OBVIOUS
  <2>1. n + i \in 1..Len(w) BY <1>2, <1>3, <1>4
  <2> QED BY <2>1, <1>3, <1>4
<1>6. InWindow(q, n, v) BY <1>2, <1>3, <1>4, <1>5 DEF InWindow
<1>7. ASSUME n + Len(q) = Len(w) PROVE InWindow(r, n, v) /\ n + Len(r) = Len(v)
  <2>3. Len(q) \in Nat /\ Len(w) \in Nat BY <1>2, <1>3
  <2>4. n + (Len(q) + 1) = Len(w) + 1 BY <1>7, <2>3, OneMore
  <2>1. ASSUME NEW i \in DOMAIN r PROVE r[i] = Chunk(v[n + i].off, v[n + i].len)
    <3>1. CASE i \in 1..Len(q) BY <3>1, <1>2, <1>5
    <3>2. CASE i = Len(q) + 1
      <4>1. n + i = Len(w) + 1 BY <3>2, <2>4
      <4>2. v[n + i] = c /\ r[i] = f BY <4>1, <3>2, <1>2, <1>3
      <4> QED BY <4>2 DEF f
    <3> QED BY <3>1, <3>2, <2>1, <1>2
  <2>2. n + Len(r) = Len(v) BY <1>2, <1>3, <2>4
  <2> QED BY <2>1, <2>2, <1>2, <1>3 DEF InWindow
<1> QED BY <1>6, <1>7 DEF r, v, f

LEMMA WindowEmpty ==
    ASSUME NEW q \in Seq(FrameType), NEW n \in Nat, NEW w \in Seq(FlightType), InWindow(q, n, w)
    PROVE  InWindow(<<>>, n, w) /\ InWindow(<<>>, 0, <<>>) /\ n <= Len(w)
<1>1. n + Len(q) <= Len(w) /\ Len(q) \in Nat /\ Len(w) \in Nat BY DEF InWindow
<1> DEFINE e == <<>>
<1>2. Len(e) = 0 /\ DOMAIN e = {} OBVIOUS
<1> HIDE DEF e
<1>3. InWindow(e, n, w) /\ InWindow(e, 0, e) /\ n <= Len(w) BY <1>1, <1>2 DEF InWindow
<1> QED BY <1>3 DEF e

\* Answers that match the window, as one more comes, a chunk is sent or one is received.
LEMMA MatchedAnswer ==
    ASSUME NEW d \in Seq(AnswerType), NEW a \in AnswerType, NEW w, NEW n \in 0..Len(d),
           Matched(d, w, n)
    PROVE  /\ Matched(Append(d, a), w, n)
           /\ n = Len(d) /\ a.kind = "offset" /\ a.off = EndOf(w[Len(d) + 1]) =>
                Matched(Append(d, a), w, Len(d) + 1)
<1> DEFINE r == Append(d, a)
<1>1. Len(d) \in Nat /\ (\A i \in 1..Len(d) : r[i] = d[i]) /\ r[Len(d) + 1] = a BY AppendOf
<1> HIDE DEF r
<1>2. \A k \in 1..n : k \in 1..Len(d) BY <1>1
<1>3. Matched(r, w, n) BY <1>1, <1>2 DEF Matched
<1>4. ASSUME n = Len(d), a.kind = "offset", a.off = EndOf(w[Len(d) + 1])
      PROVE  Matched(r, w, Len(d) + 1)
  <2>1. \A k \in 1..(Len(d) + 1) : k \in 1..n \/ k = Len(d) + 1 BY <1>1, <1>4
  <2> QED BY <2>1, <1>1, <1>3, <1>4 DEF Matched
<1> QED BY <1>3, <1>4 DEF r

LEMMA MatchedSend ==
    ASSUME NEW d, NEW w \in Seq(FlightType), NEW c \in FlightType, NEW n \in 0..Len(w),
           Matched(d, w, n)
    PROVE  Matched(d, Append(w, c), n)
<1> DEFINE v == Append(w, c)
<1>1. Len(w) \in Nat /\ \A i \in 1..Len(w) : v[i] = w[i] BY AppendOf
<1> HIDE DEF v
<1>2. \A k \in 1..n : k \in 1..Len(w) BY <1>1
<1>3. Matched(d, v, n) BY <1>1, <1>2 DEF Matched
<1> QED BY <1>3 DEF v

LEMMA MatchedReceive ==
    ASSUME NEW d \in Seq(AnswerType), d # <<>>, NEW w \in Seq(FlightType), w # <<>>,
           NEW n \in 1..Len(d), n <= Len(w), Matched(d, w, n)
    PROVE  /\ Matched(Tail(d), Tail(w), n - 1)
           /\ Head(d).kind = "offset" /\ Head(d).off = EndOf(Head(w))
<1> DEFINE e == Tail(d)
<1> DEFINE v == Tail(w)
<1>1. Len(d) \in Nat \ {0} /\ \A i \in 1..(Len(d) - 1) : e[i] = d[i + 1] BY TailOf
<1>2. Len(w) \in Nat \ {0} /\ \A i \in 1..(Len(w) - 1) : v[i] = w[i + 1] BY TailOf
<1>3. Head(d) = d[1] /\ Head(w) = w[1] OBVIOUS
<1> HIDE DEF e, v
<1>4. ASSUME NEW k \in 1..(n - 1) PROVE e[k].kind = "offset" /\ e[k].off = EndOf(v[k])
  <2>1. k \in 1..(Len(d) - 1) /\ k \in 1..(Len(w) - 1) /\ k + 1 \in 1..n BY <1>1, <1>2
  <2> QED BY <2>1, <1>1, <1>2 DEF Matched
<1>5. 1 \in 1..n BY <1>1
<1>6. Matched(e, v, n - 1) BY <1>4 DEF Matched
<1> QED BY <1>3, <1>5, <1>6 DEF Matched, e, v

\* What lags goes on lagging as answers come and go and chunks are sent.
LEMMA LagsAnswer ==
    ASSUME NEW d \in Seq(AnswerType), NEW a \in AnswerType, NEW w, NEW l, NEW n \in 0..Len(d),
           Lags(d, w, n, l), a.kind = "offset" => a.off = l
    PROVE  Lags(Append(d, a), w, n, l)
<1> DEFINE r == Append(d, a)
<1>1. /\ Len(d) \in Nat /\ Len(r) = Len(d) + 1
      /\ (\A i \in 1..Len(d) : r[i] = d[i]) /\ r[Len(d) + 1] = a
  BY AppendOf
<1>2. Matched(r, w, n) BY MatchedAnswer DEF Lags
<1> HIDE DEF r
<1>3. ASSUME NEW i \in (n + 1)..Len(r), r[i].kind = "offset" PROVE r[i].off = l
  <2>1. i \in (n + 1)..Len(d) \/ i = Len(d) + 1 BY <1>1
  <2>2. i \in (n + 1)..Len(d) => i \in 1..Len(d) OBVIOUS
  <2> QED BY <1>1, <1>3, <2>1, <2>2 DEF Lags
<1>4. Lags(r, w, n, l) BY <1>2, <1>3 DEF Lags
<1> QED BY <1>4 DEF r

LEMMA LagsReceive ==
    ASSUME NEW d \in Seq(AnswerType), d # <<>>, NEW w \in Seq(FlightType), w # <<>>, NEW l,
           NEW n \in 0..Len(d), n <= Len(w), Lags(d, w, n, l)
    PROVE  \E m \in 0..Len(Tail(d)) :
              m = (IF n = 0 THEN 0 ELSE n - 1) /\ Lags(Tail(d), Tail(w), m, l)
<1> DEFINE e == Tail(d)
<1>1. /\ Len(d) \in Nat \ {0} /\ Len(e) = Len(d) - 1
      /\ \A i \in 1..(Len(d) - 1) : e[i] = d[i + 1]
  BY TailOf
<1>2. PICK m \in Nat : m = IF n = 0 THEN 0 ELSE n - 1 OBVIOUS
<1>3. m \in 0..Len(e) BY <1>1, <1>2
<1>4. Matched(e, Tail(w), m)
  <2>1. CASE n = 0 BY <1>2, <2>1 DEF Matched
  <2>2. CASE n # 0
    <3>1. n \in 1..Len(d) /\ m = n - 1 BY <1>2, <2>2
    <3> QED BY <3>1, MatchedReceive DEF Lags
  <2> QED BY <2>1, <2>2
<1> HIDE DEF e
<1>5. ASSUME NEW i \in (m + 1)..Len(e), e[i].kind = "offset" PROVE e[i].off = l
  <2>1. i \in 1..(Len(d) - 1) /\ i + 1 \in (n + 1)..Len(d) BY <1>1, <1>2
  <2> QED BY <1>1, <1>5, <2>1 DEF Lags
<1>6. Lags(e, Tail(w), m, l) BY <1>4, <1>5 DEF Lags
<1> QED BY <1>2, <1>3, <1>6 DEF e

\* Chunks one after the other, as one is taken up or sent.
LEMMA RunsTake ==
    ASSUME NEW q \in Seq(FrameType), q # <<>>, NEW from \in Nat, NEW to \in Nat,
           Runs(q, from, to), \A i \in DOMAIN q : q[i].len > 0
    PROVE  /\ Head(q).off = from /\ from < EndOf(Head(q)) /\ EndOf(Head(q)) <= to
           /\ Runs(Tail(q), EndOf(Head(q)), to)
           /\ \A i \in DOMAIN Tail(q) : EndOf(Head(q)) <= Tail(q)[i].off
<1> DEFINE r == Tail(q)
<1> DEFINE e == EndOf(q[1])
<1>1. /\ Len(q) \in Nat \ {0} /\ Len(r) = Len(q) - 1 /\ r \in Seq(FrameType)
      /\ DOMAIN q = 1..Len(q) /\ DOMAIN r = 1..(Len(q) - 1)
      /\ \A i \in 1..(Len(q) - 1) : r[i] = q[i + 1]
      /\ r = <<>> <=> Len(q) = 1
  BY TailOf
<1>2. Head(q) = q[1] /\ \A i \in DOMAIN q : q[i] \in FrameType OBVIOUS
<1> HIDE DEF r
<1>3. 1 \in DOMAIN q BY <1>1
<1>4. q[1].off = from /\ q[1].len > 0 /\ q[1].off \in Nat /\ q[1].len \in Nat
  BY <1>2, <1>3, Sizes DEF Runs, FrameType
<1>5. from < e /\ e <= to /\ e \in Nat BY <1>3, <1>4 DEF Runs, EndOf
<1>6. \A i \in DOMAIN r : i \in Nat /\ i + 1 \in DOMAIN q /\ 1 < i + 1 /\ r[i] = q[i + 1] BY <1>1
<1>7. \A i \in DOMAIN r : e <= r[i].off BY <1>3, <1>6 DEF Runs
<1>8. Runs(r, e, to)
  <2>1. ASSUME r = <<>> PROVE e = to
    <3>1. Len(q) = 1 BY <1>1, <2>1
    <3> QED BY <3>1 DEF Runs
  <2>2. ASSUME r # <<>> PROVE r[1].off = e /\ EndOf(r[Len(r)]) = to
    <3>1. Len(q) # 1 /\ 1 \in DOMAIN r /\ Len(r) \in DOMAIN r /\ Len(r) + 1 = Len(q) BY <1>1, <2>2
    <3>2. r[1] = q[2] /\ 2 \in DOMAIN q /\ r[Len(r)] = q[Len(q)] BY <1>6, <3>1
    <3>3. q[2].off = e BY <1>3, <3>2 DEF Runs
    <3>4. EndOf(q[Len(q)]) = to BY DEF Runs
    <3> QED BY <3>2, <3>3, <3>4
  <2>3. \A i \in DOMAIN r : EndOf(r[i]) <= to BY <1>6 DEF Runs
  <2>4. ASSUME NEW i \in DOMAIN r, NEW k \in DOMAIN r
        PROVE  (i < k => EndOf(r[i]) <= r[k].off) /\ (k = i + 1 => EndOf(r[i]) = r[k].off)
    <3>1. /\ i + 1 \in DOMAIN q /\ k + 1 \in DOMAIN q /\ r[i] = q[i + 1] /\ r[k] = q[k + 1]
          /\ i < k => i + 1 < k + 1
          /\ k = i + 1 => k + 1 = (i + 1) + 1
      BY <1>6
    <3> QED BY <3>1 DEF Runs
  <2> QED BY <2>1, <2>2, <2>3, <2>4 DEF Runs
<1> QED BY <1>2, <1>4, <1>5, <1>7, <1>8 DEF r

LEMMA RunsSend ==
    ASSUME NEW q \in Seq(FrameType), NEW from \in Nat, NEW to \in Nat, Runs(q, from, to),
           NEW c \in FrameType, c.off = to
    PROVE  Runs(Append(q, c), from, to + c.len)
<1> DEFINE r == Append(q, c)
<1> DEFINE e == EndOf(c)
<1>1. /\ Len(q) \in Nat /\ Len(r) = Len(q) + 1 /\ r # <<>>
      /\ DOMAIN q = 1..Len(q) /\ DOMAIN r = 1..(Len(q) + 1)
      /\ \A i \in 1..Len(q) : r[i] = q[i]
      /\ r[Len(q) + 1] = c
      /\ q = <<>> <=> Len(q) = 0
  BY AppendOf
<1> HIDE DEF r
<1>2. e = to + c.len /\ e \in Nat /\ to <= e /\ c.len \in Nat BY Sizes DEF FrameType, EndOf
<1>3. \A i \in DOMAIN q : EndOf(q[i]) \in Nat
  <2>1. \A i \in DOMAIN q : q[i] \in FrameType OBVIOUS
  <2> QED BY <2>1, Sizes DEF EndOf, FrameType
<1>4. \A i \in DOMAIN r : i \in DOMAIN q \/ (i = Len(q) + 1 /\ r[i] = c) BY <1>1
<1>5. r[1].off = from
  <2>1. CASE q = <<>> BY <1>1, <2>1 DEF Runs
  <2>2. CASE q # <<>> BY <1>1, <2>2 DEF Runs
  <2> QED BY <2>1, <2>2
<1>6. EndOf(r[Len(r)]) = e BY <1>1
<1>7. \A i \in DOMAIN r : EndOf(r[i]) <= e
  <2> SUFFICES ASSUME NEW i \in DOMAIN r PROVE EndOf(r[i]) <= e OBVIOUS
  <2>1. CASE i \in DOMAIN q
    <3>1. r[i] = q[i] /\ EndOf(q[i]) <= to BY <1>1, <2>1 DEF Runs
    <3> QED BY <1>2, <1>3, <2>1, <3>1
  <2>2. CASE r[i] = c BY <1>2, <2>2
  <2> QED BY <1>4, <2>1, <2>2
<1>8. ASSUME NEW i \in DOMAIN r, NEW k \in DOMAIN r
      PROVE  (i < k => EndOf(r[i]) <= r[k].off) /\ (k = i + 1 => EndOf(r[i]) = r[k].off)
  <2>1. CASE i \in DOMAIN q /\ k \in DOMAIN q BY <1>1, <2>1 DEF Runs
  <2>2. CASE i \in DOMAIN q /\ k = Len(q) + 1
    <3>1. r[i] = q[i] /\ r[k] = c /\ EndOf(q[i]) <= to BY <1>1, <2>2 DEF Runs
    <3>2. k = i + 1 => i = Len(q) BY <1>1, <2>2
    <3>3. k = i + 1 => EndOf(q[i]) = to BY <1>1, <2>2, <3>2 DEF Runs
    <3> QED BY <3>1, <3>3
  <2>3. CASE i = Len(q) + 1 BY <1>1, <1>8, <2>3
  <2> QED BY <1>4, <1>8, <2>1, <2>2, <2>3
<1>9. Runs(r, from, e) BY <1>1, <1>5, <1>6, <1>7, <1>8 DEF Runs
<1> QED BY <1>2, <1>9 DEF r

--------------------
(* The window, as the server works. *)

LEMMA TakesQueue ==
    ASSUME SystemTypes, NEW s \in Socket, NEW k \in Kinds, Takes(s, k)
    PROVE  /\ up[s] \in Seq(FrameType) /\ up[s] # <<>>
           /\ Head(up[s]) \in FrameType /\ Head(up[s]).kind = k
           /\ 1 \in DOMAIN up[s] /\ up[s][1] = Head(up[s])
           /\ up'[s] = Tail(up[s]) /\ \A t \in Socket \ {s} : up'[t] = up[t]
           /\ page' = page /\ sock' = sock /\ alive' = alive /\ days' = days
           /\ op.kind = "none"
<1>1. up \in UpType /\ up[s] \in Seq(FrameType) BY TypesOf
<1>2. /\ up[s] # <<>> /\ Head(up[s]).kind = k /\ up' = [up EXCEPT ![s] = Tail(up[s])]
      /\ page' = page /\ sock' = sock /\ alive' = alive /\ days' = days /\ op = NoOp
  BY DEF Takes
<1>3. up'[s] = Tail(up[s]) /\ \A t \in Socket \ {s} : up'[t] = up[t] BY <1>1, <1>2 DEF UpType
<1>4. op.kind = "none" BY <1>2, OpTypes
<1> DEFINE q == up[s]
<1>5. q \in Seq(FrameType) /\ q # <<>> BY <1>1, <1>2
<1>6. Head(q) \in FrameType /\ 1 \in DOMAIN q /\ q[1] = Head(q)
  <2> HIDE DEF q
  <2> QED BY <1>5
<1> QED BY <1>1, <1>2, <1>3, <1>4, <1>6

LEMMA TakesFit ==
    ASSUME SystemTypes, FramesFit, NEW s \in Socket, NEW k \in Kinds, Takes(s, k),
           op'.kind \in Finishing => k = "finish" /\ op'.from = s
    PROVE  FramesFit'
<1>1. /\ up[s] \in Seq(FrameType) /\ up[s] # <<>> /\ Head(up[s]).kind = k
      /\ up'[s] = Tail(up[s]) /\ \A t \in Socket \ {s} : up'[t] = up[t]
      /\ alive' = alive
  BY TakesQueue
<1>2. ChunksFit(up[s]) /\ FinishAlone(up[s]) /\ s \in alive BY <1>1 DEF FramesFit
<1> DEFINE q == up[s]
<1>3. q \in Seq(FrameType) /\ q # <<>> /\ ChunksFit(q) /\ FinishAlone(q) /\ Head(q).kind = k
  BY <1>1, <1>2
<1>4. /\ ChunksFit(Tail(q)) /\ FinishAlone(Tail(q))
      /\ k = "finish" => AllAborts(Tail(q))
  <2> HIDE DEF q
  <2> QED BY <1>3, FitTail
<1>5. ChunksFit(up'[s]) /\ FinishAlone(up'[s]) /\ (k = "finish" => AllAborts(up'[s])) BY <1>1, <1>4
<1>6. \A t \in Socket : ChunksFit(up'[t]) /\ FinishAlone(up'[t]) /\ (up'[t] # <<>> => t \in alive)
  BY <1>1, <1>2, <1>5 DEF FramesFit
<1>7. op'.kind \in Finishing => AllAborts(up'[op'.from]) BY <1>5
<1> QED BY <1>1, <1>6, <1>7 DEF FramesFit

\* The page's socket, and the queues on it.
LEMMA WireTypes ==
    ASSUME IInv, page.phase \in OnWire
    PROVE  /\ sock \in Socket /\ up[sock] \in Seq(FrameType) /\ down \in Seq(AnswerType)
           /\ page \in PageType /\ page.inFlight \in Seq(FlightType)
           /\ Len(up[sock]) \in Nat /\ Len(down) \in Nat /\ Len(page.inFlight) \in Nat
           /\ DOMAIN up[sock] = 1..Len(up[sock]) /\ DOMAIN down = 1..Len(down)
           /\ page.next \in 0..Size /\ page.acked \in 0..Size
           /\ up[sock] = <<>> <=> Len(up[sock]) = 0
           /\ down = <<>> <=> Len(down) = 0
<1>1. sock \in Socket BY DEF IInv, BegunFirst
<1>2. up[sock] \in Seq(FrameType) /\ down \in Seq(AnswerType) /\ page \in PageType
  BY <1>1, TypesOf DEF IInv
<1>3. page.inFlight \in Seq(FlightType) /\ page.next \in 0..Size /\ page.acked \in 0..Size
  BY <1>2 DEF PageType, FlightType
<1>4. Len(up[sock]) \in Nat /\ Len(down) \in Nat /\ Len(page.inFlight) \in Nat BY <1>2, <1>3
<1>5. DOMAIN up[sock] = 1..Len(up[sock]) /\ DOMAIN down = 1..Len(down) BY <1>2
<1> QED BY <1>1, <1>2, <1>3, <1>4, <1>5, EmptyOf

LEMMA OneLeft == \A m \in Nat \ {0}, n \in Nat : m + n <= 1 => m = 1 /\ n = 0 /\ m - 1 + (n + 1) <= 1
OBVIOUS

LEMMA AnsweredWindow ==
    ASSUME IInv, FramesFit, WindowKept, NEW s \in Socket, NEW k \in Kinds, Takes(s, k),
           op' = NoOp, NEW a \in AnswerType, Reply(s, a)
    PROVE  FramesFit' /\ WindowKept'
<1>1. /\ up[s] \in Seq(FrameType) /\ up[s] # <<>> /\ Head(up[s]) \in FrameType
      /\ up'[s] = Tail(up[s]) /\ \A t \in Socket \ {s} : up'[t] = up[t]
      /\ page' = page /\ sock' = sock /\ alive' = alive
  BY TakesQueue DEF IInv
<1>2. op'.kind = "none" /\ ~ServedFor(s)' /\ ~ServedFor(sock)' BY <1>1, OpTypes DEF ServedFor
<1>3. FramesFit' BY <1>2, TakesFit DEF IInv, Finishing, Moving
<1>4. WindowKept'
  <2>1. CASE page.phase \notin OnWire BY <1>1, <2>1 DEF WindowKept, OnWire
  <2>2. CASE page.phase \in OnWire /\ s # sock
    <3>1. down' = down /\ up'[sock] = up[sock] BY <1>1, <2>2, WireTypes DEF Reply
    <3> QED BY <1>1, <1>2, <3>1 DEF WindowKept, OneAt
  <2>3. CASE page.phase \in OnWire /\ s = sock
    <3> DEFINE q == up[sock]
    <3> DEFINE n == Len(down)
    <3> DEFINE w == page.inFlight
    <3>1. /\ q \in Seq(FrameType) /\ q # <<>> /\ n \in Nat /\ w \in Seq(FlightType)
          /\ down \in Seq(AnswerType) /\ down' = Append(down, a) /\ up'[sock] = Tail(q)
      BY <1>1, <2>3, WireTypes DEF Reply
    <3>2. /\ Len(q) \in Nat \ {0} /\ Len(Tail(q)) = Len(q) - 1
          /\ DOMAIN Tail(q) = 1..(Len(q) - 1) /\ DOMAIN q = 1..Len(q)
          /\ \A i \in 1..(Len(q) - 1) : Tail(q)[i] = q[i + 1]
      <4> HIDE DEF q
      <4> QED BY <3>1, TailOf
    <3>3. Len(down') = n + 1 BY <3>1, AppendOf
    <3>4. ASSUME NEW kind, NEW kinds, OneAt(kind, kinds)
          PROVE  OneAt(kind, kinds)'
      <4>1. Len(q) + n <= 1 /\ page.inFlight = <<>> BY <3>4 DEF OneAt
      <4>4. Len(q) = 1 /\ Len(q) - 1 + (n + 1) <= 1 BY <3>1, <3>2, <4>1, OneLeft
      <4>2. Len(Tail(q)) + Len(down') <= 1 /\ Len(q) = 1 BY <3>2, <3>3, <4>4
      <4>3. DOMAIN Tail(q) = {} BY <3>2, <4>2
      <4> QED BY <1>1, <1>2, <3>1, <4>1, <4>2, <4>3 DEF OneAt
    <3>5. ASSUME page.phase = "sending"
          PROVE  /\ InWindow(up'[sock], Len(down'), w)
                 /\ sock \in alive' => Len(down') + Len(up'[sock]) = Len(w)
      <4>1. InWindow(q, n, w) /\ (sock \in alive => n + Len(q) = Len(w)) BY <3>5 DEF WindowKept
      <4>2. InWindow(Tail(q), n + 1, w) /\ n + 1 + Len(Tail(q)) = n + Len(q)
        <5> HIDE DEF q, n, w
        <5> QED BY <3>1, <4>1, WindowTake
      <4> QED BY <1>1, <3>1, <3>3, <4>1, <4>2
    <3> QED BY <1>1, <1>2, <3>4, <3>5 DEF WindowKept
  <2> QED BY <2>1, <2>2, <2>3
<1> QED BY <1>3, <1>4

LEMMA StartedWindow ==
    ASSUME IInv, FramesFit, WindowKept, NEW s \in Socket, NEW k \in Kinds, Takes(s, k),
           op'.from = s, down' = down,
           \/ k = "begin" /\ op'.kind = "begin"
           \/ k = "finish" /\ op'.kind \in Finishing
           \/ k = "abort" /\ op'.kind = "abort"
    PROVE  FramesFit' /\ WindowKept'
<1>1. /\ up[s] \in Seq(FrameType) /\ up[s] # <<>> /\ Head(up[s]) \in FrameType /\ Head(up[s]).kind = k
      /\ 1 \in DOMAIN up[s] /\ up[s][1] = Head(up[s])
      /\ up'[s] = Tail(up[s]) /\ \A t \in Socket \ {s} : up'[t] = up[t]
      /\ page' = page /\ sock' = sock /\ alive' = alive
  BY TakesQueue DEF IInv
<1>2. FramesFit' BY TakesFit DEF IInv, Finishing, Moving
<1>3. WindowKept'
  <2>1. CASE page.phase \notin OnWire BY <1>1, <2>1 DEF WindowKept, OnWire
  <2>2. CASE page.phase \in OnWire /\ s # sock
    <3>1. up'[sock] = up[sock] /\ ~ServedFor(sock)' BY <1>1, <2>2, WireTypes DEF ServedFor
    <3> QED BY <1>1, <3>1 DEF WindowKept, OneAt
  <2>3. CASE page.phase \in OnWire /\ s = sock
    <3>1. page.phase # "sending"
      <4> SUFFICES ASSUME page.phase = "sending" PROVE FALSE OBVIOUS
      <4>1. InWindow(up[sock], Len(down), page.inFlight) BY DEF WindowKept
      <4>2. up[sock][1] = Chunk(page.inFlight[Len(down) + 1].off, page.inFlight[Len(down) + 1].len)
        BY <1>1, <2>3, <4>1 DEF InWindow
      <4> QED BY <1>1, <2>3, <4>2 DEF Chunk
    <3> DEFINE q == up[sock]
    <3>2. /\ Len(q) \in Nat \ {0} /\ (Tail(q) = <<>> <=> Len(q) = 1)
          /\ q[1].kind = k /\ 1 \in DOMAIN q /\ Len(down) \in Nat /\ (down = <<>> <=> Len(down) = 0)
          /\ up'[sock] = Tail(q)
      <4>1. q \in Seq(FrameType) /\ q # <<>> /\ q[1].kind = k /\ 1 \in DOMAIN q /\ up'[sock] = Tail(q)
        BY <1>1, <2>3
      <4>2. Len(down) \in Nat /\ (down = <<>> <=> Len(down) = 0) BY <2>3, WireTypes
      <4>3. Len(q) \in Nat \ {0} /\ (Tail(q) = <<>> <=> Len(q) = 1)
        <5> HIDE DEF q
        <5> QED BY <4>1, TailOf
      <4> QED BY <4>1, <4>2, <4>3
    <3>3. ASSUME NEW kind, NEW kinds, OneAt(kind, kinds), op'.kind \in kinds
          PROVE  OneAt(kind, kinds)'
      <4>1. Len(q) + Len(down) <= 1 /\ page.inFlight = <<>> BY <3>3 DEF OneAt
      <4>2. Tail(q) = <<>> /\ down = <<>> BY <3>2, <4>1, OneLeft
      <4> QED BY <1>1, <3>2, <3>3, <4>1, <4>2 DEF OneAt
    <3>4. ASSUME NEW kind, NEW kinds, OneAt(kind, kinds)
          PROVE  k = kind
      BY <3>2, <3>4 DEF OneAt
    <3>5. page.phase = "beginning" => OneAt("begin", {"begin"})' BY <3>3, <3>4 DEF WindowKept
    <3>6. page.phase = "finishing" => OneAt("finish", Finishing)' BY <3>3, <3>4 DEF WindowKept
    <3> QED BY <1>1, <3>1, <3>5, <3>6 DEF WindowKept
  <2> QED BY <2>1, <2>2, <2>3
<1> QED BY <1>2, <1>3

LEMMA EndedWindow ==
    ASSUME IInv, FramesFit, WindowKept, op.kind # "none", UNCHANGED <<page, sock, alive, up>>,
           op' = NoOp, NEW a \in AnswerType, Reply(op.from, a)
    PROVE  FramesFit' /\ WindowKept'
<1>1. /\ page' = page /\ sock' = sock /\ alive' = alive /\ up' = up OBVIOUS
<1>2. op'.kind = "none" /\ ~ServedFor(sock)' BY OpTypes DEF ServedFor
<1>3. FramesFit' BY <1>1, <1>2 DEF FramesFit, Finishing, Moving
<1>4. WindowKept'
  <2>1. CASE page.phase \notin OnWire BY <1>1, <2>1 DEF WindowKept, OnWire
  <2>2. CASE page.phase \in OnWire /\ op.from # sock
    <3>1. down' = down BY <2>2 DEF Reply
    <3> QED BY <1>1, <1>2, <3>1 DEF WindowKept, OneAt
  <2>3. CASE page.phase \in OnWire /\ op.from = sock
    <3>1. ServedFor(sock) BY <2>3 DEF ServedFor
    <3>2. page.phase # "sending" BY <3>1 DEF WindowKept
    <3>3. ASSUME NEW kind, NEW kinds, OneAt(kind, kinds) PROVE OneAt(kind, kinds)'
      <4>1. up[sock] = <<>> /\ down = <<>> /\ page.inFlight = <<>> BY <3>1, <3>3 DEF OneAt
      <4>2. Len(up[sock]) = 0 /\ Len(down) = 0 /\ DOMAIN up[sock] = 1..0 /\ down \in Seq(AnswerType)
        BY <2>3, <4>1, WireTypes
      <4>3. down' = Append(down, a) BY <2>3 DEF Reply
      <4>4. Len(down') = Len(down) + 1 BY <4>2, <4>3, AppendOf
      <4>5. Len(up'[sock]) + Len(down') <= 1 BY <1>1, <4>2, <4>4
      <4> QED BY <1>1, <1>2, <4>1, <4>2, <4>5 DEF OneAt
    <3> QED BY <1>1, <3>2, <3>3 DEF WindowKept
  <2> QED BY <2>1, <2>2, <2>3
<1> QED BY <1>3, <1>4

LEMMA MovedWindow ==
    ASSUME FramesFit, WindowKept, UNCHANGED <<page, sock, alive, up, down>>,
           op.kind \in Finishing, op'.kind \in Finishing, op'.from = op.from
    PROVE  FramesFit' /\ WindowKept'
<1>1. \A s : ServedFor(s)' <=> ServedFor(s) BY DEF ServedFor, Finishing, Moving
<1>2. FramesFit' BY DEF FramesFit
<1>3. {"begin"} \cap Finishing = {} BY DEF Finishing, Moving
<1>4. WindowKept' BY <1>1, <1>3 DEF WindowKept, OneAt
<1> QED BY <1>2, <1>4

\* Sockets that die with what they carried, and whatever else leaves the network alone.
LEMMA LostWindow ==
    ASSUME IInv, FramesFit, WindowKept, UNCHANGED <<page, sock, down>>,
           op' = op \/ op' = NoOp, alive' \subseteq alive,
           \A s \in Socket : up'[s] = <<>> \/ (up'[s] = up[s] /\ s \in alive'),
           \A s \in alive' : up'[s] = up[s]
    PROVE  FramesFit' /\ WindowKept'
<1> DEFINE e == <<>>
<1>1. DOMAIN e = {} /\ Len(e) = 0 OBVIOUS
<1>2. ChunksFit(e) /\ FinishAlone(e) /\ AllAborts(e) BY <1>1 DEF ChunksFit, FinishAlone, AllAborts
<1>3. \A s \in Socket : up'[s] = e \/ (up'[s] = up[s] /\ s \in alive') OBVIOUS
<1> HIDE DEF e
<1>4. \A s : ServedFor(s)' => ServedFor(s) /\ op' = op BY OpTypes DEF ServedFor
<1>5. FramesFit'
  <2>1. \A s \in Socket : up'[s] # e => s \in alive' BY <1>3
  <2>2. \A s \in Socket : ChunksFit(up'[s]) /\ FinishAlone(up'[s]) BY <1>2, <1>3 DEF FramesFit
  <2>3. op'.kind \in Finishing => AllAborts(up'[op'.from])
    <3>1. op'.kind \in Finishing => op' = op /\ op.kind # "none" BY OpTypes DEF Finishing, Moving
    <3>2. op.kind # "none" => op.from \in Socket BY TypesOf, Bounds DEF IInv, QueuesInOrder, Socket
    <3> QED BY <3>1, <3>2, <1>2, <1>3 DEF FramesFit
  <2> QED BY <2>1, <2>2, <2>3 DEF FramesFit, e
<1>6. WindowKept'
  <2>1. CASE page.phase \notin OnWire BY <2>1 DEF WindowKept, OnWire
  <2>2. CASE page.phase \in OnWire
    <3>1. /\ sock \in Socket /\ up[sock] \in Seq(FrameType) /\ Len(up[sock]) \in Nat
          /\ Len(down) \in Nat /\ page.inFlight \in Seq(FlightType)
      BY <2>2, WireTypes
    <3>2. CASE up'[sock] = up[sock] BY <1>4, <3>1, <3>2 DEF WindowKept, OneAt
    <3>3. CASE up'[sock] = e /\ sock \notin alive'
      <4>1. ASSUME NEW kind, NEW kinds, OneAt(kind, kinds) PROVE OneAt(kind, kinds)'
        <5>1. Len(up[sock]) + Len(down) <= 1 => Len(e) + Len(down) <= 1 BY <1>1, <3>1
        <5> QED BY <4>1, <5>1, <1>1, <1>4, <3>3 DEF OneAt, e
      <4>2. ASSUME InWindow(up[sock], Len(down), page.inFlight)
            PROVE  InWindow(e, Len(down), page.inFlight)
        <5> DEFINE q == up[sock]
        <5> DEFINE n == Len(down)
        <5> DEFINE w == page.inFlight
        <5>1. q \in Seq(FrameType) /\ n \in Nat /\ w \in Seq(FlightType) /\ InWindow(q, n, w)
          BY <3>1, <4>2
        <5> HIDE DEF q, n, w
        <5>2. InWindow(e, n, w) BY <5>1, WindowEmpty DEF e
        <5> QED BY <5>2 DEF n, w
      <4> QED BY <4>1, <4>2, <1>4, <3>3 DEF WindowKept
    <3> QED BY <1>3, <3>1, <3>2, <3>3
  <2> QED BY <2>1, <2>2
<1> QED BY <1>5, <1>6

LEMMA SameWindow ==
    ASSUME FramesFit, WindowKept, UNCHANGED <<page, sock, alive, up, down, op>>
    PROVE  FramesFit' /\ WindowKept'
<1>1. FramesFit' BY DEF FramesFit
<1>2. WindowKept' BY DEF WindowKept, OneAt, ServedFor
<1> QED BY <1>1, <1>2

--------------------
(* The window, as the page works. *)

\* What pumpUpload leaves of p, and when it finishes.
DataOf(p) == /\ page'.acked = p.acked /\ page'.next = p.next
             /\ page'.inFlight = p.inFlight /\ page'.realigning = p.realigning
Finishes(p) == /\ p.phase = "sending" /\ p.acked = Size /\ p.inFlight = <<>> /\ ~p.realigning
               /\ page'.phase = "finishing" /\ up' = Sent(Frame("finish"))
LEMMA PumpShape ==
    ASSUME NEW p \in PageType, NEW frames, Pump(p, frames)
    PROVE  /\ page' \in PageType /\ DataOf(p)
           /\ (page'.phase = p.phase /\ up' = frames) \/ Finishes(p)
<1>1. CASE page' = p /\ up' = frames BY <1>1 DEF DataOf
<1>2. CASE /\ ~Blocked(p) /\ AllAcked(p)
           /\ page' = [p EXCEPT !.phase = "finishing"] /\ up' = Sent(Frame("finish"))
  <2>1. PICK g : g = [p EXCEPT !.phase = "finishing"] OBVIOUS
  <2>2. /\ g \in PageType /\ g.phase = "finishing" /\ g.acked = p.acked /\ g.next = p.next
        /\ g.inFlight = p.inFlight /\ g.realigning = p.realigning
    BY <2>1 DEF PageType, OnWire
  <2>3. page' = g BY <1>2, <2>1
  <2>4. p.phase = "sending" /\ ~p.realigning /\ p.acked = Size /\ p.inFlight = <<>>
    BY <1>2 DEF Blocked, AllAcked
  <2>5. up' = Sent(Frame("finish")) BY <1>2
  <2> QED BY <2>2, <2>3, <2>4, <2>5 DEF DataOf, Finishes
<1>3. CASE page' = [p EXCEPT !.reading = "yes"] /\ up' = frames
  <2>1. PICK g : g = [p EXCEPT !.reading = "yes"] OBVIOUS
  <2>2. /\ g \in PageType /\ g.phase = p.phase /\ g.acked = p.acked /\ g.next = p.next
        /\ g.inFlight = p.inFlight /\ g.realigning = p.realigning
    BY <2>1 DEF PageType
  <2>3. page' = g /\ up' = frames BY <1>3, <2>1
  <2> QED BY <2>2, <2>3 DEF DataOf
<1> QED BY <1>1, <1>2, <1>3 DEF Pump

\* The end of a read: nothing but the read itself, a chunk, or the finish.
ReadsOn == page'.phase = page.phase /\ up' = up /\ DataOf(page)
SendsChunk(n) ==
    /\ page.phase = "sending" /\ page'.phase = "sending" /\ page.next + n <= Size
    /\ page'.next = page.next + n /\ page'.acked = page.acked
    /\ page'.realigning = page.realigning
    /\ page'.inFlight = Append(page.inFlight, [off |-> page.next, len |-> n])
    /\ up' = Sent(Chunk(page.next, n))
LEMMA ReadDoneShape ==
    ASSUME IInv, ReadDone
    PROVE  /\ page' \in PageType
           /\ ReadsOn \/ (DataOf(page) /\ Finishes(page)) \/ \E n \in 1..MaxChunk : SendsChunk(n)
<1>1. page \in PageType BY TypesOf DEF IInv
<1>2. PICK p : p = Read(page) OBVIOUS
<1>3. /\ p \in PageType /\ p.phase = page.phase /\ p.acked = page.acked /\ p.next = page.next
      /\ p.inFlight = page.inFlight /\ p.realigning = page.realigning
  BY <1>1, <1>2 DEF PageType, Read
<1>4. CASE Pump(p, up)
  <2>1. /\ page' \in PageType /\ DataOf(p)
        /\ (page'.phase = p.phase /\ up' = up) \/ Finishes(p)
    BY <1>3, <1>4, PumpShape
  <2> QED BY <2>1, <1>3 DEF DataOf, Finishes, ReadsOn
<1>5. CASE page' = p /\ up' = up BY <1>3, <1>5 DEF ReadsOn, DataOf
<1>6. ASSUME ~Void(page), NEW n \in 1..MaxChunk, page.next + n <= Size,
             Pump(ReadChunk(page, n), Sent(Chunk(page.next, n)))
      PROVE  page' \in PageType /\ SendsChunk(n)
  <2> DEFINE T == [off : 0..Size, len : 1..MaxChunk]
  <2>1. PICK c : c = [off |-> page.next, len |-> n] OBVIOUS
  <2>2. page.next \in 0..Size /\ page.inFlight \in Seq(T) BY <1>1 DEF PageType
  <2>3. c \in T BY <2>1, <2>2
  <2>4. PICK w : w = Append(page.inFlight, c) OBVIOUS
  <2> HIDE DEF T
  <2>5. w \in Seq(T) /\ w # <<>> BY <2>2, <2>3, <2>4, AppendOf
  <2>6. PICK m : m = page.next + n OBVIOUS
  <2>7. m \in 0..Size BY <1>6, <2>2, <2>6, Sizes
  <2>8. PICK g : g = [page EXCEPT !.reading = "no", !.next = m, !.inFlight = w] OBVIOUS
  <2>9. g = ReadChunk(page, n) BY <2>1, <2>4, <2>6, <2>8 DEF ReadChunk
  <2>10. /\ g \in PageType /\ g.phase = page.phase /\ g.inFlight = w /\ g.next = m
         /\ g.acked = page.acked /\ g.realigning = page.realigning
    BY <1>1, <2>5, <2>7, <2>8 DEF PageType, T
  <2>11. /\ page' \in PageType /\ DataOf(g)
         /\ (page'.phase = g.phase /\ up' = Sent(Chunk(page.next, n))) \/ Finishes(g)
    BY <1>6, <2>9, <2>10, PumpShape
  <2>12. ~Finishes(g) BY <2>5, <2>10 DEF Finishes
  <2>13. page.phase = "sending" BY <1>6 DEF Void
  <2> QED BY <1>6, <2>1, <2>4, <2>6, <2>10, <2>11, <2>12, <2>13 DEF DataOf, SendsChunk
<1>7. \/ Pump(p, up) \/ (page' = p /\ up' = up)
      \/ \E n \in 1..MaxChunk : /\ ~Void(page) /\ page.next + n <= Size
                               /\ Pump(ReadChunk(page, n), Sent(Chunk(page.next, n)))
  BY <1>2 DEF ReadDone
<1> QED BY <1>4, <1>5, <1>6, <1>7

\* An answer to a begin tells the page where to go on; one to a chunk that it expected
\* moves the window, any other makes it wait and go on from there.
GoesFrom(p, o) ==
    /\ p.phase = "sending" /\ p.acked = o /\ p.next = o
    /\ p.inFlight = page.inFlight /\ p.realigning = page.realigning
Expected(o) == ~page.realigning /\ o = EndOf(Head(page.inFlight))
MovesOn(p, o) ==
    /\ p.phase = page.phase /\ p.acked = o /\ p.inFlight = Tail(page.inFlight)
    /\ Expected(o) => p.next = page.next /\ ~p.realigning
    /\ ~Expected(o) => p.next = (IF p.inFlight = <<>> THEN o ELSE page.next)
                       /\ (p.inFlight = <<>> => ~p.realigning)
    /\ p.realigning => p.inFlight # <<>>
    /\ p.next \in {page.next, o}
LEMMA AnsweredShape ==
    ASSUME NEW p \in PageType, p = page, NEW o \in 0..Size
    PROVE  /\ Begun(p, o) \in PageType /\ GoesFrom(Begun(p, o), o)
           /\ p.inFlight # <<>> =>
                ChunkAnswered(p, o) \in PageType /\ MovesOn(ChunkAnswered(p, o), o)
<1>1. Begun(p, o) \in PageType /\ GoesFrom(Begun(p, o), o)
  <2>1. PICK g : g = [p EXCEPT !.phase = "sending", !.next = o, !.acked = o] OBVIOUS
  <2>2. /\ g \in PageType /\ g.phase = "sending" /\ g.acked = o /\ g.next = o
        /\ g.inFlight = p.inFlight /\ g.realigning = p.realigning
    BY <2>1 DEF PageType, OnWire
  <2>3. Begun(p, o) = g BY <2>1 DEF Begun
  <2> QED BY <2>2, <2>3 DEF GoesFrom
<1>2. ASSUME p.inFlight # <<>>
      PROVE  ChunkAnswered(p, o) \in PageType /\ MovesOn(ChunkAnswered(p, o), o)
  <2>1. ChunkAnswered(p, o) \in PageType BY <1>2, AnsweredTypes
  <2>2. PICK rest : rest = Tail(p.inFlight) OBVIOUS
  <2>3. PICK matches \in BOOLEAN : matches <=> ~p.realigning /\ o = EndOf(Head(p.inFlight)) OBVIOUS
  <2>4. PICK realign \in BOOLEAN : realign <=> ~matches /\ rest # <<>> OBVIOUS
  <2>5. PICK n : n = IF ~matches /\ rest = <<>> THEN o ELSE p.next OBVIOUS
  <2>6. PICK r : r = IF ~matches THEN Stale(p.reading) ELSE p.reading OBVIOUS
  <2>7. PICK g : g = [p EXCEPT !.inFlight = rest, !.acked = o, !.realigning = realign,
                               !.next = n, !.reading = r]
    OBVIOUS
  <2>8. /\ g.phase = p.phase /\ g.acked = o /\ g.inFlight = rest /\ g.realigning = realign
        /\ g.next = n
    BY <2>7 DEF PageType
  <2>9. ChunkAnswered(p, o) = g
    <3>1. realign = (~matches /\ rest # <<>>) BY <2>4
    <3>2. matches = (~p.realigning /\ o = Head(p.inFlight).off + Head(p.inFlight).len)
      BY <2>3 DEF EndOf
    <3> QED BY <2>2, <2>5, <2>6, <2>7, <3>1, <3>2 DEF ChunkAnswered
  <2>10. MovesOn(g, o)
    <3>1. Expected(o) <=> matches BY <2>3 DEF Expected
    <3>2. n \in {p.next, o} /\ (matches => n = p.next) /\ (~matches => n = IF rest = <<>> THEN o ELSE p.next)
      BY <2>5
    <3> QED BY <2>2, <2>4, <2>8, <3>1, <3>2 DEF MovesOn
  <2> QED BY <2>1, <2>9, <2>10
<1> QED BY <1>1, <1>2

Stays == page.phase \in {"finishing"} \cup Settled /\ page'.phase = page.phase /\ up' = up /\ DataOf(page)
EndsPage == /\ page.phase \notin Settled /\ page'.phase \in Settled /\ up' = up
            /\ page'.inFlight = page.inFlight /\ page'.realigning = page.realigning
PumpsOn(p) == p.phase = "sending" /\ DataOf(p)
              /\ ((page'.phase = "sending" /\ up' = up) \/ Finishes(p))
LEMMA ReceiveShape ==
    ASSUME IInv, WindowKept, Receive
    PROVE  /\ page' \in PageType /\ down # <<>> /\ down' = Tail(down) /\ Head(down) \in AnswerType
           /\ \/ Stays
              \/ EndsPage
              \/ /\ page.phase = "beginning" /\ Head(down).kind = "offset"
                 /\ \E p \in PageType : GoesFrom(p, Head(down).off) /\ PumpsOn(p)
              \/ /\ page.phase = "sending" /\ Head(down).kind = "offset" /\ page.inFlight # <<>>
                 /\ \E p \in PageType : MovesOn(p, Head(down).off) /\ PumpsOn(p)
<1>1. page \in PageType /\ down \in Seq(AnswerType) /\ down # <<>> /\ down' = Tail(down)
  BY TypesOf DEF IInv, Receive
<1>2. PICK m \in AnswerType : m = Head(down) BY <1>1, DoneTaken
<1>3. PICK o \in 0..Size : o = m.off BY <1>2 DEF AnswerType
<1>4. page' \in PageType BY ReceivePhases
<1>5. CASE page.phase \in Settled /\ page' = page /\ up' = up
  BY <1>1, <1>2, <1>4, <1>5 DEF Stays, DataOf
<1>6. CASE /\ page.phase \notin Settled /\ up' = up
           /\ page' = [page EXCEPT !.phase = "done", !.acked = Size]
  <2>1. PICK g : g = [page EXCEPT !.phase = "done", !.acked = Size] OBVIOUS
  <2>2. g.phase = "done" /\ g.inFlight = page.inFlight /\ g.realigning = page.realigning
    BY <1>1, <2>1 DEF PageType
  <2> QED BY <1>1, <1>2, <1>4, <1>6, <2>1, <2>2 DEF EndsPage, Settled
<1>7. CASE /\ page.phase \notin Settled /\ up' = up /\ page' = [page EXCEPT !.phase = "failed"]
  <2>1. PICK g : g = [page EXCEPT !.phase = "failed"] OBVIOUS
  <2>2. g.phase = "failed" /\ g.inFlight = page.inFlight /\ g.realigning = page.realigning
    BY <1>1, <2>1 DEF PageType
  <2> QED BY <1>1, <1>2, <1>4, <1>7, <2>1, <2>2 DEF EndsPage, Settled
<1>8. ASSUME page.phase = "beginning", Pump(Begun(page, o), up)
      PROVE  \E p \in PageType : GoesFrom(p, o) /\ PumpsOn(p)
  <2>1. PICK p : p = Begun(page, o) OBVIOUS
  <2>2. p \in PageType /\ GoesFrom(p, o) BY <1>1, <2>1, AnsweredShape
  <2>3. DataOf(p) /\ ((page'.phase = p.phase /\ up' = up) \/ Finishes(p))
    BY <1>8, <2>1, <2>2, PumpShape
  <2> QED BY <2>2, <2>3 DEF PumpsOn, GoesFrom
<1>9. ASSUME page.phase = "sending", page.inFlight # <<>>, Pump(ChunkAnswered(page, o), up)
      PROVE  \E p \in PageType : MovesOn(p, o) /\ PumpsOn(p)
  <2>1. PICK p : p = ChunkAnswered(page, o) OBVIOUS
  <2>2. p \in PageType /\ MovesOn(p, o) BY <1>1, <1>9, <2>1, AnsweredShape
  <2>3. DataOf(p) /\ ((page'.phase = p.phase /\ up' = up) \/ Finishes(p))
    BY <1>9, <2>1, <2>2, PumpShape
  <2> QED BY <1>9, <2>2, <2>3 DEF PumpsOn, MovesOn
<1>10. CASE /\ page.phase \notin Settled /\ page.phase # "beginning" /\ page.inFlight = <<>>
            /\ page' = page /\ up' = up
  <2>1. page.phase # "waiting" BY <1>1 DEF IInv, BegunFirst
  <2>2. page.phase # "sending"
    <3> SUFFICES ASSUME page.phase = "sending" PROVE FALSE OBVIOUS
    <3>1. Len(down) + Len(up[sock]) <= Len(page.inFlight) BY DEF WindowKept, InWindow
    <3>2. Len(down) \in Nat \ {0} /\ Len(up[sock]) \in Nat BY <1>1, WireTypes DEF OnWire
    <3>3. Len(page.inFlight) = 0 BY <1>10
    <3> QED BY <3>1, <3>2, <3>3
  <2>3. page.phase \in {"finishing"} \cup Settled BY <1>1, <1>10, <2>1, <2>2 DEF PageType, OnWire
  <2> QED BY <1>1, <1>2, <1>4, <1>10, <2>3 DEF Stays, DataOf
<1>11. \/ page.phase \in Settled /\ page' = page /\ up' = up
       \/ /\ page.phase \notin Settled /\ up' = up
          /\ page' = [page EXCEPT !.phase = "done", !.acked = Size]
       \/ /\ page.phase \notin Settled /\ up' = up /\ page' = [page EXCEPT !.phase = "failed"]
       \/ m.kind = "offset" /\ page.phase = "beginning" /\ Pump(Begun(page, o), up)
       \/ /\ m.kind = "offset" /\ page.phase = "sending" /\ page.inFlight # <<>>
          /\ Pump(ChunkAnswered(page, o), up)
       \/ /\ page.phase \notin Settled /\ page.phase # "beginning" /\ page.inFlight = <<>>
          /\ page' = page /\ up' = up
  <2> HIDE <1>1
  <2> QED BY <1>2, <1>3 DEF Receive
<1> QED BY <1>1, <1>2, <1>3, <1>4, <1>5, <1>6, <1>7, <1>8, <1>9, <1>10, <1>11

LEMMA SentQueue ==
    ASSUME SystemTypes, sock \in Socket, NEW f \in FrameType, up' = Sent(f)
    PROVE  /\ up[sock] \in Seq(FrameType)
           /\ \A t \in Socket \ {sock} : up'[t] = up[t]
           /\ sock \in alive => up'[sock] = Append(up[sock], f)
           /\ sock \notin alive => up'[sock] = up[sock]
<1>1. up \in UpType /\ up[sock] \in Seq(FrameType) BY TypesOf
<1>2. CASE sock \in alive
  <2>1. up' = [up EXCEPT ![sock] = Append(up[sock], f)] BY <1>2 DEF Sent
  <2> QED BY <1>1, <1>2, <2>1 DEF UpType
<1>3. CASE sock \notin alive BY <1>1, <1>3 DEF Sent
<1> QED BY <1>2, <1>3

LEMMA SentFit ==
    ASSUME IInv, FramesFit, page.phase \in OnWire, alive' = alive, op' = op,
           NEW f \in FrameType, up' = Sent(f),
           f.kind # "begin",
           f.kind = "chunk" => f.len > 0 /\ EndOf(f) <= Size,
           f.kind # "abort" => ~ServedFor(sock) /\ \A i \in DOMAIN up[sock] : up[sock][i].kind # "finish",
           f.kind = "finish" => up[sock] = <<>>
    PROVE  FramesFit'
<1>1. sock \in Socket BY WireTypes
<1>2. /\ up[sock] \in Seq(FrameType)
      /\ \A t \in Socket \ {sock} : up'[t] = up[t]
      /\ sock \in alive => up'[sock] = Append(up[sock], f)
      /\ sock \notin alive => up'[sock] = up[sock]
  BY <1>1, SentQueue DEF IInv
<1>3. CASE sock \notin alive
  <2>1. \A t \in Socket : up'[t] = up[t] BY <1>2, <1>3
  <2>2. op.kind \in Finishing => op.from \in Socket
    BY TypesOf, Bounds DEF IInv, QueuesInOrder, Socket, Finishing, Moving
  <2> QED BY <2>1, <2>2 DEF FramesFit
<1>4. CASE sock \in alive
  <2>1. PICK q \in Seq(FrameType) : q = up[sock] BY <1>2
  <2>2. up'[sock] = Append(q, f) BY <1>2, <1>4, <2>1
  <2>3. ChunksFit(q) /\ FinishAlone(q) BY <1>1, <2>1 DEF FramesFit
  <2>4. f.kind \in {"chunk", "begin"} => \A i \in DOMAIN q : q[i].kind # "finish" BY <2>1
  <2>5. ChunksFit(Append(q, f)) /\ FinishAlone(Append(q, f)) BY <2>1, <2>3, <2>4, FitAppend
  <2>6. AllAborts(q) /\ f.kind = "abort" => AllAborts(Append(q, f))
    <3>1. \A i \in DOMAIN Append(q, f) : (i \in DOMAIN q /\ Append(q, f)[i] = q[i])
                                         \/ (i = Len(Append(q, f)) /\ Append(q, f)[i] = f)
      BY QueueAppend
    <3> QED BY <3>1 DEF AllAborts
  <2>7. op.kind \in Finishing => AllAborts(up'[op.from])
    <3> SUFFICES ASSUME op.kind \in Finishing PROVE AllAborts(up'[op.from]) OBVIOUS
    <3>1. AllAborts(up[op.from]) /\ op.kind # "none" /\ op.from \in Socket
      BY TypesOf, Bounds DEF FramesFit, IInv, QueuesInOrder, Socket, Finishing, Moving
    <3>2. CASE op.from = sock
      <4>1. f.kind = "abort" BY <3>1, <3>2 DEF ServedFor
      <4> QED BY <2>1, <2>2, <2>6, <3>1, <3>2, <4>1
    <3>3. CASE op.from # sock BY <1>2, <3>1, <3>3
    <3> QED BY <3>2, <3>3
  <2>8. \A s \in Socket : up'[s] # <<>> => s \in alive BY <1>2, <1>4 DEF FramesFit
  <2>9. \A s \in Socket : ChunksFit(up'[s]) /\ FinishAlone(up'[s]) BY <1>2, <2>2, <2>5 DEF FramesFit
  <2> QED BY <2>7, <2>8, <2>9 DEF FramesFit
<1> QED BY <1>3, <1>4

LEMMA ConnectWindow ==
    ASSUME IInv, FramesFit, WindowKept, Connect
    PROVE  FramesFit' /\ WindowKept'
<1>1. /\ sock' = sock + 1 /\ sock \in Nat /\ sock' \in Socket /\ sock' # sock
      /\ alive' = (alive \cap {sock}) \cup {sock'}
      /\ op' = op /\ down' = down
  BY Bounds, TypesOf DEF IInv, Connect, Socket
<1>2. PICK b : b = <<Frame("begin")>> OBVIOUS
<1>3. PICK e : e = <<>> OBVIOUS
<1>4. /\ up'[sock'] = b
      /\ \A s \in Socket \ {sock'} : up'[s] = e \/ (s = sock /\ up'[s] = up[s])
  BY <1>1, <1>2, <1>3 DEF Connect
<1>5. Len(b) = 1 /\ DOMAIN b = {1} /\ b[1].kind = "begin" /\ Len(e) = 0 /\ DOMAIN e = {}
  BY <1>2, <1>3 DEF Frame
<1>6. /\ ChunksFit(b) /\ FinishAlone(b)
      /\ ChunksFit(e) /\ FinishAlone(e) /\ AllAborts(e)
  BY <1>5 DEF ChunksFit, FinishAlone, AllAborts
<1>7. page' \in PageType /\ page'.phase = "beginning" /\ page'.inFlight = <<>> /\ ~page'.realigning
  <2>1. page \in PageType /\ page.phase = "waiting" BY TypesOf DEF IInv, Connect
  <2>2. PICK r : r = Stale(page.reading) OBVIOUS
  <2>3. r \in {"no", "yes", "stale"} BY <2>1, <2>2 DEF Stale, PageType
  <2>4. PICK g : g = [page EXCEPT !.phase = "beginning", !.reading = r] OBVIOUS
  <2>5. /\ g \in PageType /\ g.phase = "beginning" /\ g.inFlight = page.inFlight
        /\ g.realigning = page.realigning
    BY <2>1, <2>3, <2>4 DEF PageType, OnWire
  <2>6. page' = g BY <2>2, <2>4 DEF Connect
  <2> QED BY <2>1, <2>5, <2>6 DEF WindowKept, PageType
<1>8. down = <<>> BY DEF IInv, BegunFirst, Connect
<1>9. op.kind # "none" => op.from \in Socket \ {sock'}
  BY <1>1, TypesOf, Bounds DEF IInv, QueuesInOrder, Socket
<1>10. FramesFit'
  <2>1. \A s \in Socket : up'[s] # <<>> => s \in alive' BY <1>1, <1>3, <1>4 DEF FramesFit
  <2>2. \A s \in Socket : ChunksFit(up'[s]) /\ FinishAlone(up'[s]) BY <1>4, <1>6 DEF FramesFit
  <2>3. op.kind \in Finishing => AllAborts(up'[op.from])
    BY <1>4, <1>6, <1>9 DEF FramesFit, Finishing, Moving
  <2> QED BY <1>1, <2>1, <2>2, <2>3 DEF FramesFit
<1>11. WindowKept'
  <2>1. ~ServedFor(sock)' BY <1>1, <1>9 DEF ServedFor
  <2>2. OneAt("begin", {"begin"})'
    <3>1. Len(up'[sock']) = 1 /\ Len(down') = 0 BY <1>1, <1>3, <1>4, <1>5, <1>8
    <3>2. \A i \in DOMAIN up'[sock'] : up'[sock'][i].kind = "begin" BY <1>4, <1>5
    <3> QED BY <1>7, <2>1, <3>1, <3>2 DEF OneAt
  <2> QED BY <1>7, <2>2 DEF WindowKept
<1> QED BY <1>10, <1>11

\* The page goes off the wire, or is told the end.
LEMMA LeaveWindow ==
    ASSUME IInv, FramesFit, WindowKept, LoseSocket \/ Fail \/ GiveUp
    PROVE  /\ FramesFit' /\ WindowKept' /\ page'.phase \notin OnWire /\ up' = up
           /\ page'.phase \notin Settled => page'.acked = page.acked
<1>1. page \in PageType /\ UNCHANGED <<up, alive, op, sock>>
  BY TypesOf DEF IInv, LoseSocket, Fail, GiveUp, netVars
<1>2. FramesFit' BY <1>1 DEF FramesFit
<1>3. CASE LoseSocket
  <2>1. PICK r : r = Stale(page.reading) OBVIOUS
  <2>2. PICK g : g = [page EXCEPT !.phase = "waiting", !.inFlight = <<>>, !.realigning = FALSE,
                                  !.reading = r]
    OBVIOUS
  <2>3. g.phase = "waiting" /\ g.inFlight = <<>> /\ ~g.realigning /\ g.acked = page.acked
    BY <1>1, <2>2 DEF PageType
  <2>4. page' = g BY <1>3, <2>1, <2>2 DEF LoseSocket
  <2>5. page'.phase \notin OnWire BY <2>3, <2>4 DEF OnWire
  <2> QED BY <1>1, <1>2, <2>3, <2>4, <2>5 DEF WindowKept, OnWire
<1>4. CASE Fail \/ GiveUp
  <2>1. PICK g : g = [page EXCEPT !.phase = "failed"] OBVIOUS
  <2>2. g.phase = "failed" /\ g.inFlight = page.inFlight /\ g.realigning = page.realigning
    BY <1>1, <2>1 DEF PageType
  <2>3. page' = g BY <1>4, <2>1 DEF Fail, GiveUp
  <2>4. page'.phase \notin OnWire /\ page'.phase \in Settled BY <2>2, <2>3 DEF OnWire, Settled
  <2> QED BY <1>1, <1>2, <2>2, <2>3, <2>4 DEF WindowKept, OnWire
<1> QED BY <1>3, <1>4

LEMMA CancelWindow ==
    ASSUME IInv, FramesFit, WindowKept, Cancel
    PROVE  FramesFit' /\ WindowKept' /\ page'.phase = "aborted"
<1>1. page \in PageType /\ UNCHANGED <<alive, op, sock>> BY TypesOf DEF IInv, Cancel
<1>2. PICK g : g = [page EXCEPT !.phase = "aborted"] OBVIOUS
<1>3. g.phase = "aborted" /\ g.inFlight = page.inFlight /\ g.realigning = page.realigning
  BY <1>1, <1>2 DEF PageType
<1>4. page' = g BY <1>2 DEF Cancel
<1>5. WindowKept' BY <1>3, <1>4 DEF WindowKept
<1>6. PICK f \in FrameType : f = Frame("abort") BY FrameTypes
<1>7. f.kind = "abort" BY <1>6, FrameTypes
<1>8. ASSUME up' = up PROVE FramesFit' BY <1>1, <1>8 DEF FramesFit
<1>9. ASSUME page.phase \in OnWire, up' = Sent(f) PROVE FramesFit' BY <1>1, <1>7, <1>9, SentFit
<1> QED BY <1>3, <1>4, <1>5, <1>6, <1>8, <1>9 DEF Cancel

LEMMA Counted ==
    /\ \A m \in Nat, n \in Nat : m + n <= 1 /\ n # 0 => m = 0 /\ n = 1
    /\ \A l \in Nat \ {0}, m \in Nat, n \in Nat : l + m = n => l - 1 + m = n - 1
    /\ \A l \in Nat \ {0}, m \in Nat : l - 1 + m <= 0 => l = 1 /\ m = 0
    /\ \A m \in Nat, n \in Nat : m + n <= 0 => m = 0 /\ n = 0
    /\ \A m \in {0, 1}, n \in {0} : m + n <= 1
OBVIOUS

LEMMA FinishWindow ==
    ASSUME IInv, FramesFit, page.phase \in OnWire, ~ServedFor(sock), up[sock] = <<>>, down' = <<>>,
           page'.phase = "finishing", page'.inFlight = <<>>, ~page'.realigning,
           sock' = sock, alive' = alive, op' = op, up' = Sent(Frame("finish"))
    PROVE  FramesFit' /\ WindowKept'
<1>1. PICK f \in FrameType : f = Frame("finish") BY FrameTypes
<1>2. f.kind = "finish" /\ sock \in Socket BY <1>1, FrameTypes, WireTypes
<1>3. PICK e : e = <<>> OBVIOUS
<1>4. Len(e) = 0 /\ DOMAIN e = {} /\ e \in Seq(FrameType) BY <1>3
<1>5. FramesFit' BY <1>1, <1>2, <1>3, <1>4, SentFit
<1>6. up'[sock] = e \/ up'[sock] = Append(e, f) BY <1>1, <1>2, <1>3, SentQueue DEF IInv
<1>7. /\ Len(up'[sock]) \in {0, 1}
      /\ \A i \in DOMAIN up'[sock] : up'[sock][i].kind = "finish"
  <2>1. CASE up'[sock] = e BY <1>4, <2>1
  <2>2. CASE up'[sock] = Append(e, f)
    <3>1. PICK r : r = Append(e, f) OBVIOUS
    <3>2. Len(r) = Len(e) + 1 /\ DOMAIN r = 1..(Len(e) + 1) /\ r[Len(e) + 1] = f
      BY <1>4, <3>1, AppendOf
    <3>3. Len(r) = 1 /\ DOMAIN r = 1..1 /\ r[1] = f BY <1>4, <3>2
    <3>4. \A i \in DOMAIN r : r[i].kind = "finish" BY <1>2, <3>3
    <3> QED BY <2>2, <3>1, <3>3, <3>4
  <2> QED BY <1>6, <2>1, <2>2
<1>8. OneAt("finish", Finishing)'
  <2>1. Len(down') = 0 BY <1>3, <1>4
  <2>3. Len(up'[sock]) + Len(down') <= 1 BY <2>1, <1>7, Counted
  <2>4. ~ServedFor(sock)' BY DEF ServedFor
  <2> QED BY <2>3, <2>4, <1>7 DEF OneAt
<1> QED BY <1>5, <1>8 DEF WindowKept

\* An empty window carries nothing either way.
LEMMA NothingOnTheWay ==
    ASSUME IInv, WindowKept, page.phase = "sending", page.inFlight = <<>>
    PROVE  up[sock] = <<>> /\ down = <<>> /\ ~ServedFor(sock)
<1>1. Len(down) + Len(up[sock]) <= Len(page.inFlight) /\ ~ServedFor(sock)
  BY DEF WindowKept, InWindow
<1>2. Len(page.inFlight) = 0 OBVIOUS
<1>3. /\ Len(down) \in Nat /\ Len(up[sock]) \in Nat
      /\ up[sock] = <<>> <=> Len(up[sock]) = 0
      /\ down = <<>> <=> Len(down) = 0
  BY WireTypes DEF OnWire
<1> QED BY <1>1, <1>2, <1>3

LEMMA ReadDoneWindow ==
    ASSUME IInv, FramesFit, WindowKept, ReadDone
    PROVE  FramesFit' /\ WindowKept'
<1>1. sock' = sock /\ alive' = alive /\ down' = down /\ op' = op BY DEF ReadDone
<1>2. ReadsOn \/ (DataOf(page) /\ Finishes(page)) \/ \E n \in 1..MaxChunk : SendsChunk(n)
  BY ReadDoneShape
<1>3. CASE ReadsOn BY <1>1, <1>3 DEF ReadsOn, DataOf, FramesFit, WindowKept, OneAt, ServedFor
<1>4. CASE DataOf(page) /\ Finishes(page)
  <2>1. page.phase = "sending" /\ page.inFlight = <<>> /\ page.phase \in OnWire
    BY <1>4 DEF Finishes, OnWire
  <2>2. up[sock] = <<>> /\ down = <<>> /\ ~ServedFor(sock) BY <2>1, NothingOnTheWay
  <2>3. /\ page'.phase = "finishing" /\ page'.inFlight = <<>> /\ ~page'.realigning
        /\ up' = Sent(Frame("finish"))
    BY <1>4 DEF Finishes, DataOf
  <2> QED BY <1>1, <2>1, <2>2, <2>3, FinishWindow
<1>5. ASSUME NEW n \in 1..MaxChunk, SendsChunk(n) PROVE FramesFit' /\ WindowKept'
  <2>1. page.phase = "sending" /\ page.phase \in OnWire BY <1>5 DEF SendsChunk, OnWire
  <2>2. /\ sock \in Socket /\ up[sock] \in Seq(FrameType) /\ page.inFlight \in Seq(FlightType)
        /\ page.next \in 0..Size /\ Len(down) \in Nat
    BY <2>1, WireTypes
  <2>3. PICK c : c = [off |-> page.next, len |-> n] OBVIOUS
  <2>4. PICK f : f = Chunk(c.off, c.len) OBVIOUS
  <2>5. c \in FlightType /\ c.off = page.next /\ c.len = n BY <2>2, <2>3 DEF FlightType
  <2>6. f \in FrameType /\ f.kind = "chunk" /\ f.off = page.next /\ f.len = n
    BY <2>4, <2>5, FrameTypes DEF FlightType, Chunk
  <2>7. f.len > 0 /\ EndOf(f) <= Size /\ up' = Sent(f)
    BY <1>5, <2>4, <2>5, <2>6 DEF SendsChunk, EndOf
  <2>8. PICK q \in Seq(FrameType) : q = up[sock] BY <2>2
  <2>9. PICK w \in Seq(FlightType) : w = page.inFlight BY <2>2
  <2>10. PICK l \in Nat : l = Len(down) BY <2>2
  <2>11. InWindow(q, l, w) /\ (sock \in alive => l + Len(q) = Len(w)) /\ ~ServedFor(sock)
    BY <2>1, <2>8, <2>9, <2>10 DEF WindowKept
  <2>12. \A i \in DOMAIN q : q[i].kind # "finish" BY <2>11 DEF InWindow, Chunk
  <2>13. FramesFit' BY <1>1, <2>1, <2>6, <2>7, <2>8, <2>11, <2>12, SentFit
  <2>14. /\ sock \in alive => up'[sock] = Append(q, f)
         /\ sock \notin alive => up'[sock] = q
    BY <2>2, <2>6, <2>7, <2>8, SentQueue DEF IInv
  <2>15. /\ InWindow(q, l, Append(w, c))
         /\ l + Len(q) = Len(w) =>
              InWindow(Append(q, f), l, Append(w, c)) /\ l + Len(Append(q, f)) = Len(Append(w, c))
    BY <2>4, <2>5, <2>11, WindowSend
  <2>20. /\ page'.inFlight = Append(page.inFlight, [off |-> page.next, len |-> n])
         /\ page'.phase = "sending"
    BY <1>5 DEF SendsChunk
  <2>16. page'.inFlight = Append(w, c) /\ page'.phase = "sending" /\ ~ServedFor(sock)'
    <3>1. ~ServedFor(sock)' BY <1>1, <2>11 DEF ServedFor
    <3> QED BY <2>3, <2>9, <2>20, <3>1
  <2>17. Append(w, c) # <<>>
    <3>1. c \in FlightType BY <2>5
    <3> HIDE <2>1, <2>2, <2>3, <2>4, <2>5
    <3> QED BY <3>1, AppendOf
  <2>18. /\ InWindow(up'[sock], l, Append(w, c))
         /\ sock \in alive => l + Len(up'[sock]) = Len(Append(w, c))
    BY <2>11, <2>14, <2>15
  <2>19. WindowKept' BY <1>1, <2>10, <2>16, <2>17, <2>18 DEF WindowKept
  <2> QED BY <2>13, <2>19
<1> QED BY <1>2, <1>3, <1>4, <1>5

\* What the page has when it is told where to go on.
LEMMA BeginningToldAlone ==
    ASSUME IInv, WindowKept, page.phase = "beginning", down # <<>>
    PROVE  /\ page.inFlight = <<>> /\ ~page.realigning /\ up[sock] = <<>> /\ Tail(down) = <<>>
           /\ Len(down) = 1 /\ ~ServedFor(sock)
<1>1. page.inFlight = <<>> /\ Len(up[sock]) + Len(down) <= 1 /\ ~ServedFor(sock)
  BY DEF WindowKept, OneAt
<1>2. /\ Len(down) \in Nat /\ Len(up[sock]) \in Nat /\ down \in Seq(AnswerType)
      /\ up[sock] = <<>> <=> Len(up[sock]) = 0
      /\ down = <<>> <=> Len(down) = 0
  BY WireTypes DEF OnWire
<1>3. Len(down) = 1 /\ up[sock] = <<>> BY <1>1, <1>2, Counted
<1>4. Tail(down) = <<>> BY <1>2, <1>3, TailOf
<1>5. ~page.realigning BY <1>1, WireTypes DEF WindowKept, OnWire, PageType
<1> QED BY <1>1, <1>3, <1>4, <1>5

LEMMA ReceiveWindow ==
    ASSUME IInv, FramesFit, WindowKept, Receive
    PROVE  FramesFit' /\ WindowKept'
<1>1. sock' = sock /\ alive' = alive /\ op' = op BY DEF Receive
<1>2. /\ page' \in PageType /\ down # <<>> /\ down' = Tail(down) /\ Head(down) \in AnswerType
      /\ \/ Stays
         \/ EndsPage
         \/ /\ page.phase = "beginning" /\ Head(down).kind = "offset"
            /\ \E p \in PageType : GoesFrom(p, Head(down).off) /\ PumpsOn(p)
         \/ /\ page.phase = "sending" /\ Head(down).kind = "offset" /\ page.inFlight # <<>>
            /\ \E p \in PageType : MovesOn(p, Head(down).off) /\ PumpsOn(p)
  BY ReceiveShape
<1>3. down \in Seq(AnswerType) BY TypesOf DEF IInv
<1>4. Len(down) \in Nat \ {0} /\ Len(down') = Len(down) - 1 /\ (down' = <<>> <=> Len(down) = 1)
  BY <1>2, <1>3, TailOf
<1>5. CASE Stays
  <2>1. FramesFit' BY <1>1, <1>5 DEF Stays, FramesFit
  <2>2. CASE page.phase = "finishing"
    <3>1. OneAt("finish", Finishing) /\ Len(up[sock]) \in Nat
      BY <2>2, WireTypes DEF WindowKept, OnWire
    <3>2. Len(up[sock]) + Len(down') <= 1 /\ ~ServedFor(sock) BY <1>2, <1>4, <3>1 DEF OneAt
    <3>3. OneAt("finish", Finishing)' BY <1>1, <1>5, <3>1, <3>2 DEF OneAt, Stays, DataOf, ServedFor
    <3> QED BY <1>5, <2>1, <2>2, <3>3 DEF WindowKept, Stays, DataOf
  <2>3. CASE page.phase \in Settled BY <1>5, <2>1, <2>3 DEF WindowKept, Stays, DataOf, Settled
  <2> QED BY <1>5, <2>2, <2>3 DEF Stays
<1>6. CASE EndsPage BY <1>1, <1>6 DEF EndsPage, FramesFit, WindowKept, Settled
<1>7. ASSUME page.phase = "beginning", NEW p \in PageType, GoesFrom(p, Head(down).off), PumpsOn(p)
      PROVE  FramesFit' /\ WindowKept'
  <2>1. /\ page.inFlight = <<>> /\ ~page.realigning /\ up[sock] = <<>> /\ down' = <<>> /\ ~ServedFor(sock)
        /\ page.phase \in OnWire
    BY <1>2, <1>7, BeginningToldAlone DEF OnWire
  <2>2. page'.inFlight = <<>> /\ ~page'.realigning BY <1>7, <2>1 DEF GoesFrom, PumpsOn, DataOf
  <2>3. CASE Finishes(p) BY <1>1, <2>1, <2>2, <2>3, FinishWindow DEF Finishes
  <2>4. CASE page'.phase = "sending" /\ up' = up
    <3>1. PICK e : e = <<>> OBVIOUS
    <3>2. Len(e) = 0 /\ DOMAIN e = {} BY <3>1
    <3>3. InWindow(e, 0, e) BY <3>2 DEF InWindow
    <3>4. InWindow(up'[sock'], Len(down'), page'.inFlight) /\ Len(down') + Len(up'[sock']) = Len(page'.inFlight)
      BY <1>1, <2>1, <2>2, <2>4, <3>1, <3>2, <3>3
    <3>5. ~ServedFor(sock)' BY <1>1, <2>1 DEF ServedFor
    <3> QED BY <1>1, <2>2, <2>4, <3>4, <3>5 DEF FramesFit, WindowKept
  <2> QED BY <1>7, <2>3, <2>4 DEF PumpsOn
<1>8. ASSUME page.phase = "sending", page.inFlight # <<>>,
             NEW p \in PageType, MovesOn(p, Head(down).off), PumpsOn(p)
      PROVE  FramesFit' /\ WindowKept'
  <2>1. /\ up[sock] \in Seq(FrameType) /\ page.inFlight \in Seq(FlightType) /\ page.phase \in OnWire
    BY <1>8, WireTypes DEF OnWire
  <2>2. PICK q \in Seq(FrameType) : q = up[sock] BY <2>1
  <2>3. PICK w \in Seq(FlightType) : w = page.inFlight BY <2>1
  <2>4. PICK l \in Nat \ {0} : l = Len(down) BY <1>4
  <2>5. InWindow(q, l, w) /\ (sock \in alive => l + Len(q) = Len(w)) /\ ~ServedFor(sock)
    BY <1>8, <2>2, <2>3, <2>4 DEF WindowKept
  <2>6. /\ Tail(w) \in Seq(FlightType) /\ Len(Tail(w)) = Len(w) - 1 /\ InWindow(q, l - 1, Tail(w))
    BY <2>5, WindowDrop
  <2>7. page'.inFlight = Tail(w) /\ (page'.realigning => Tail(w) # <<>>)
    BY <1>8, <2>3 DEF MovesOn, PumpsOn, DataOf
  <2>8. CASE page'.phase = "sending" /\ up' = up
    <3>1. ASSUME l + Len(q) = Len(w) PROVE l - 1 + Len(q) = Len(Tail(w))
      <4>1. Len(q) \in Nat /\ Len(w) \in Nat OBVIOUS
      <4>2. l - 1 + Len(q) = Len(w) - 1 BY <3>1, <4>1, Counted
      <4> QED BY <4>2, <2>6
    <3>2. ~ServedFor(sock)' BY <1>1, <2>5 DEF ServedFor
    <3>3. FramesFit' BY <1>1, <2>8 DEF FramesFit
    <3>4. Len(down') = l - 1 /\ up'[sock'] = q BY <1>1, <1>4, <2>2, <2>4, <2>8
    <3> QED BY <1>1, <2>5, <2>6, <2>7, <2>8, <3>1, <3>2, <3>3, <3>4 DEF WindowKept
  <2>9. CASE Finishes(p)
    <3>1. Tail(w) = <<>> /\ ~page'.realigning BY <1>8, <2>3, <2>7, <2>9 DEF MovesOn, Finishes
    <3>2. Len(Tail(w)) = 0 BY <3>1, <2>6, EmptyOf
    <3>6. l - 1 + Len(q) <= Len(Tail(w)) BY <2>6 DEF InWindow
    <3>7. Len(q) \in Nat OBVIOUS
    <3>3. l - 1 + Len(q) <= 0 /\ Len(q) \in Nat BY <3>2, <3>6, <3>7
    <3>4. l = 1 /\ Len(q) = 0 BY <3>3, Counted
    <3>5. q = <<>> /\ down' = <<>> BY <1>4, <2>4, <3>4, EmptyOf
    <3> QED BY <1>1, <2>1, <2>2, <2>5, <2>7, <2>9, <3>1, <3>5, FinishWindow DEF Finishes
  <2> QED BY <1>8, <2>8, <2>9 DEF PumpsOn
<1> QED BY <1>2, <1>5, <1>6, <1>7, <1>8

--------------------
(* What the server may do with a frame it takes up. *)

SameDisk == partial' = partial /\ side' = side /\ saved' = saved
Opened == side.exists /\ ~side.done
Says(s, a, k) == op' = NoOp /\ Reply(s, a) /\ a.kind = k

BeginTold(s, a) ==
    \/ Says(s, a, "refused") /\ SameDisk
    \/ side.done /\ Says(s, a, "done") /\ SameDisk
    \/ Opened /\ partial # NoFile /\ Says(s, a, "offset") /\ a.off = Len(partial) /\ SameDisk
BeginAnew(s, a) ==
    /\ Opened /\ partial = NoFile /\ Says(s, a, "offset") /\ a.off = 0
    /\ partial' = <<>> /\ side' = side /\ saved' = saved
BeginStarts(s) ==
    /\ ~side.exists /\ op'.kind = "begin" /\ op'.from = s /\ down' = down
    /\ partial' = <<>> /\ side' = side /\ saved' = saved
LEMMA BeginShape ==
    ASSUME IInv, NEW s \in Socket, BeginKnown(s) \/ BeginNew(s)
    PROVE  /\ Takes(s, "begin")
           /\ BeginStarts(s) \/ \E a \in AnswerType : BeginTold(s, a) \/ BeginAnew(s, a)
<1>1. Takes(s, "begin") BY DEF BeginKnown, BeginNew
<1>2. CASE Refused(s)
  <2>1. Answer("refused") \in AnswerType /\ Answer("refused").kind = "refused"
    BY FrameTypes DEF Refusals
  <2>2. BeginTold(s, Answer("refused"))
    BY <1>2, <2>1 DEF Refused, Ends, KeepDisk, BeginTold, Says, SameDisk
  <2> QED BY <1>1, <2>1, <2>2
<1>3. CASE side.done /\ Ends(s, Answer("done")) /\ KeepDisk /\ UNCHANGED <<saved, errors>>
  <2>1. Answer("done") \in AnswerType /\ Answer("done").kind = "done" BY FrameTypes
  <2>2. BeginTold(s, Answer("done")) BY <1>3, <2>1 DEF Ends, KeepDisk, BeginTold, Says, SameDisk
  <2> QED BY <1>1, <2>1, <2>2
<1>4. CASE /\ Opened /\ partial # NoFile
           /\ Ends(s, Offset(Len(partial))) /\ KeepDisk /\ UNCHANGED <<saved, errors>>
  <2>1. PICK o : o = Len(partial) OBVIOUS
  <2>2. o \in 0..Size BY <1>4, <2>1, TypesOf DEF IInv, BytesInOrder, Prefix
  <2>3. Offset(o) \in AnswerType /\ Offset(o).kind = "offset" /\ Offset(o).off = o
    BY <2>2, FrameTypes DEF Offset
  <2>4. BeginTold(s, Offset(o)) BY <1>4, <2>1, <2>3 DEF Ends, KeepDisk, BeginTold, Says, SameDisk
  <2> QED BY <1>1, <2>3, <2>4
<1>5. CASE /\ Opened /\ partial = NoFile
           /\ Ends(s, Offset(0)) /\ Touch(<<>>, side) /\ UNCHANGED <<saved, errors>>
  <2>1. Offset(0) \in AnswerType /\ Offset(0).kind = "offset" /\ Offset(0).off = 0
    BY FrameTypes, Sizes DEF Offset
  <2>2. BeginAnew(s, Offset(0)) BY <1>5, <2>1 DEF Ends, Touch, BeginAnew, Says
  <2> QED BY <1>1, <2>1, <2>2
<1>6. CASE /\ ~side.exists /\ Touch(<<>>, side) /\ op' = Op("begin", s, 0)
           /\ UNCHANGED <<down, saved, errors>>
  <2>1. op'.kind = "begin" /\ op'.from = s BY <1>6, OpTypes, Bounds DEF Socket
  <2> QED BY <1>1, <1>6, <2>1 DEF Touch, BeginStarts
<1> QED BY <1>1, <1>2, <1>3, <1>4, <1>5, <1>6 DEF BeginKnown, BeginNew, IsDone, Opened

WriteTold(s, a, c) ==
    /\ partial' = partial
    /\ \/ ~side.exists /\ a.kind = "unknown"
       \/ a.kind = "refused"
       \/ side.done /\ a.kind = "done"
       \/ Opened /\ partial = NoFile /\ a.kind = "missing"
       \/ /\ Opened /\ partial # NoFile /\ c.off # Len(partial)
          /\ a.kind = "offset" /\ a.off = Len(partial)
       \/ /\ Opened /\ partial # NoFile /\ c.off = Len(partial) /\ EndOf(c) > Size
          /\ a.kind = "overrun"
Writes(s, a, c) ==
    /\ Opened /\ partial # NoFile /\ c.off = Len(partial) /\ EndOf(c) <= Size
    /\ partial' # NoFile
    /\ \/ Len(partial') = EndOf(c) /\ a.kind = "offset" /\ a.off = EndOf(c)
       \/ Len(partial') \in Len(partial)..(EndOf(c) - 1) /\ a.kind = "disk"
       \/ /\ Len(partial') \in Len(partial)..(EndOf(c) - 1) /\ a.kind = "offset" /\ a.off = EndOf(c)
          /\ missed' > 0 /\ EndOf(c) <= Len(partial') + missed'
LEMMA WriteShape ==
    ASSUME IInv, missed \in Nat, NEW s \in Socket, WriteChunk(s)
    PROVE  /\ Takes(s, "chunk") /\ side' = side /\ saved' = saved
           /\ \E a \in AnswerType :
                /\ op' = NoOp /\ Reply(s, a)
                /\ WriteTold(s, a, Head(up[s])) \/ Writes(s, a, Head(up[s]))
<1>1. Takes(s, "chunk") /\ saved' = saved BY DEF WriteChunk
<1>2. PICK c \in FrameType : c = Head(up[s]) BY <1>1, TakesQueue DEF IInv, Kinds
<1>3. /\ Len(partial) \in Nat /\ c.off \in 0..Size /\ c.len \in Nat /\ partial \in Seq(Nat)
      /\ partial # NoFile => Len(partial) <= Size /\ Prefix(partial)
  BY <1>2, Sizes, TypesOf DEF FrameType, IInv, BytesInOrder, Prefix
<1>4. \A k \in {"unknown", "refused", "done", "missing", "overrun", "disk"} :
        Answer(k) \in AnswerType /\ Answer(k).kind = k
  <2>1. \A k \in {"done"} \cup Refusals : Answer(k) \in AnswerType /\ Answer(k).kind = k
    BY FrameTypes
  <2> QED BY <2>1 DEF Refusals, Confusions
<1>5. \A o \in 0..Size : Offset(o) \in AnswerType /\ Offset(o).kind = "offset" /\ Offset(o).off = o
  BY FrameTypes DEF Offset
<1>6. EndOf(c) = c.off + c.len BY DEF EndOf
<1>7. ASSUME NEW n \in Nat, Opened, partial # NoFile, c.off = Len(partial), EndOf(c) <= Size, n <= c.len,
             Touch(Written(partial, c.off, n), side)
      PROVE  partial' # NoFile /\ Len(partial') = Len(partial) + n /\ side' = side
  <2>1. Len(partial) + n <= Size BY <1>3, <1>6, <1>7, Sizes
  <2>2. Written(partial, Len(partial), n) # NoFile /\ Len(Written(partial, Len(partial), n)) = Len(partial) + n
    BY <1>3, <1>7, <2>1, WrittenIsPrefix
  <2> QED BY <1>7, <2>2 DEF Touch
<1>8. \/ \E a \in AnswerType : op' = NoOp /\ Reply(s, a) /\ side' = side /\ WriteTold(s, a, c)
      \/ /\ Opened /\ partial # NoFile /\ c.off = Len(partial) /\ Len(partial) + c.len <= Size
         /\ Touch(Written(partial, c.off, c.len), side) /\ Ends(s, Offset(Len(partial) + c.len))
      \/ /\ Opened /\ partial # NoFile /\ c.off = Len(partial) /\ Len(partial) + c.len <= Size
         /\ \E n \in 0..(c.len - 1) : Touch(Written(partial, c.off, n), side)
         /\ Ends(s, Answer("disk"))
      \/ /\ Opened /\ partial # NoFile /\ c.off = Len(partial) /\ Len(partial) + c.len <= Size
         /\ \E n \in Short(c) : Touch(Written(partial, c.off, n), side) /\ missed' = Longest(missed, c.len - n)
         /\ Ends(s, Offset(Len(partial) + c.len))
  <2>1. CASE ~side.exists /\ Ends(s, Answer("unknown")) /\ KeepDisk
    BY <1>4, <2>1 DEF Ends, KeepDisk, WriteTold
  <2>2. CASE Ends(s, Answer("refused")) /\ KeepDisk BY <1>4, <2>2 DEF Ends, KeepDisk, WriteTold
  <2>3. CASE side.done /\ Ends(s, Answer("done")) /\ KeepDisk
    BY <1>4, <2>3 DEF Ends, KeepDisk, WriteTold
  <2>4. CASE Opened /\ partial = NoFile /\ Ends(s, Answer("missing")) /\ KeepDisk
    BY <1>4, <2>4 DEF Ends, KeepDisk, WriteTold
  <2>5. CASE Opened /\ partial # NoFile /\ c.off # Len(partial) /\ Ends(s, Offset(Len(partial))) /\ KeepDisk
    <3>1. PICK o \in 0..Size : o = Len(partial) BY <1>3, <2>5
    <3>2. Offset(o) \in AnswerType /\ Offset(o).kind = "offset" /\ Offset(o).off = o BY <1>5
    <3>3. WriteTold(s, Offset(o), c) BY <2>5, <3>1, <3>2 DEF KeepDisk, WriteTold
    <3> QED BY <2>5, <3>1, <3>2, <3>3 DEF Ends, KeepDisk
  <2>6. CASE /\ Opened /\ partial # NoFile /\ c.off = Len(partial) /\ Len(partial) + c.len > Size
             /\ Ends(s, Answer("overrun")) /\ KeepDisk
    BY <1>4, <1>6, <2>6 DEF Ends, KeepDisk, WriteTold
  <2> QED BY <1>2, <2>1, <2>2, <2>3, <2>4, <2>5, <2>6 DEF WriteChunk, Fits, Fails, Opened
<1>9. CASE /\ Opened /\ partial # NoFile /\ c.off = Len(partial) /\ Len(partial) + c.len <= Size
           /\ Touch(Written(partial, c.off, c.len), side) /\ Ends(s, Offset(Len(partial) + c.len))
  <2>1. PICK o : o = EndOf(c) OBVIOUS
  <2>2. o = Len(partial) + c.len /\ o \in 0..Size BY <1>3, <1>6, <1>9, <2>1, Sizes
  <2>3. Offset(o) \in AnswerType /\ Offset(o).kind = "offset" /\ Offset(o).off = o BY <1>5, <2>2
  <2>4. partial' # NoFile /\ Len(partial') = o /\ side' = side
    <3>1. EndOf(c) <= Size /\ c.len \in Nat /\ c.len <= c.len BY <1>3, <2>1, <2>2
    <3> QED BY <1>7, <1>9, <2>2, <3>1
  <2>5. Writes(s, Offset(o), c) BY <1>9, <2>1, <2>2, <2>3, <2>4 DEF Writes
  <2> QED BY <1>1, <1>2, <1>9, <2>2, <2>3, <2>4, <2>5 DEF Ends
<1>10. ASSUME Opened, partial # NoFile, c.off = Len(partial), Len(partial) + c.len <= Size,
              NEW n \in 0..(c.len - 1), Touch(Written(partial, c.off, n), side)
       PROVE  /\ side' = side /\ partial' # NoFile /\ EndOf(c) <= Size
              /\ Len(partial') = Len(partial) + n /\ EndOf(c) = Len(partial) + c.len
              /\ Len(partial') \in Len(partial)..(EndOf(c) - 1)
  <2>1. n \in Nat /\ n <= c.len /\ EndOf(c) <= Size /\ n <= c.len - 1 BY <1>3, <1>6, <1>10
  <2>2. partial' # NoFile /\ Len(partial') = Len(partial) + n /\ side' = side BY <1>7, <1>10, <2>1
  <2>3. EndOf(c) = Len(partial) + c.len BY <1>6, <1>10
  <2>4. \A l, k \in Nat : n <= k - 1 => l + n \in l..(l + k - 1) BY <2>1
  <2>5. Len(partial) + n \in Len(partial)..(EndOf(c) - 1) BY <1>3, <2>1, <2>3, <2>4
  <2> QED BY <2>1, <2>2, <2>3, <2>5
<1>11. ASSUME Opened, partial # NoFile, c.off = Len(partial), Len(partial) + c.len <= Size,
              NEW n \in 0..(c.len - 1), Touch(Written(partial, c.off, n), side),
              Ends(s, Answer("disk"))
       PROVE  side' = side /\ Writes(s, Answer("disk"), c)
  BY <1>4, <1>10, <1>11 DEF Writes
<1>12. ASSUME Opened, partial # NoFile, c.off = Len(partial), Len(partial) + c.len <= Size,
              NEW n \in Short(c), Touch(Written(partial, c.off, n), side),
              missed' = Longest(missed, c.len - n), Ends(s, Offset(Len(partial) + c.len))
       PROVE  \E a \in AnswerType : op' = NoOp /\ Reply(s, a) /\ side' = side /\ Writes(s, a, c)
  <2>1. n \in 0..(c.len - 1) /\ n \in Nat /\ n < c.len BY <1>3, <1>12 DEF Short
  <2>2. /\ side' = side /\ partial' # NoFile /\ EndOf(c) <= Size
        /\ Len(partial') = Len(partial) + n /\ EndOf(c) = Len(partial) + c.len
        /\ Len(partial') \in Len(partial)..(EndOf(c) - 1)
    BY <1>10, <1>12, <2>1
  <2>3. missed' \in Nat /\ c.len - n <= missed' /\ missed' > 0 BY <1>3, <1>12, <2>1 DEF Longest
  <2>4. EndOf(c) <= Len(partial') + missed' BY <1>3, <2>1, <2>2, <2>3
  <2>5. PICK o \in 0..Size : o = EndOf(c) BY <1>3, <2>2, Sizes
  <2>6. Offset(o) \in AnswerType /\ Offset(o).kind = "offset" /\ Offset(o).off = EndOf(c)
    BY <1>5, <2>5
  <2>7. Writes(s, Offset(o), c) BY <1>12, <2>2, <2>3, <2>4, <2>6 DEF Writes
  <2> QED BY <1>12, <2>2, <2>5, <2>6, <2>7 DEF Ends
<1> QED BY <1>1, <1>2, <1>4, <1>8, <1>9, <1>11, <1>12 DEF Ends

\* A finish is told how it stands, finds the file in its place, or starts to move it.
FinishTold(s, a) ==
    /\ Says(s, a, a.kind) /\ SameDisk
    /\ \/ ~side.exists /\ a.kind = "unknown"
       \/ a.kind = "refused"
       \/ side.done /\ a.kind = "done"
       \/ /\ Opened /\ partial = NoFile /\ ~(side.name # 0 /\ saved[side.name] # NoFile)
          /\ a.kind = "missing"
       \/ Opened /\ partial # NoFile /\ Len(partial) # Size /\ a.kind = "incomplete"
FinishFinds(s, a) ==
    /\ Says(s, a, "done")
    /\ partial' = partial /\ saved' = saved /\ side'.exists /\ side'.done
FinishStarts(s) ==
    /\ op'.kind = "move" /\ op'.from = s /\ down' = down
    /\ Opened /\ partial' = partial /\ side'.exists /\ ~side'.done
    /\ saved' = saved \/ saved' = Append(saved, NoFile)
LEMMA FinishShape ==
    ASSUME IInv, NEW s \in Socket, FinishStart(s) \/ FinishStartUnnamed(s)
    PROVE  /\ Takes(s, "finish")
           /\ FinishStarts(s) \/ \E a \in AnswerType : FinishTold(s, a) \/ FinishFinds(s, a)
<1>1. Takes(s, "finish") BY DEF FinishStart, FinishStartUnnamed
<1>2. \A k \in {"unknown", "refused", "done", "missing", "incomplete"} :
        Answer(k) \in AnswerType /\ Answer(k).kind = k
  <2>1. \A k \in {"done"} \cup Refusals : Answer(k) \in AnswerType /\ Answer(k).kind = k
    BY FrameTypes
  <2> QED BY <2>1 DEF Refusals, Confusions
<1>3. /\ side \in [exists : BOOLEAN, name : 0..Len(saved), done : BOOLEAN] /\ Len(saved) \in Nat
  BY TypesOf DEF IInv
<1>4. \A n, d : Side(n, d).exists /\ Side(n, d).done = d BY DEF Side
<1>5. \A n : Op("move", s, n).kind = "move" /\ Op("move", s, n).from = s BY DEF Op
<1>6. ASSUME NEW k \in {"unknown", "refused", "done", "missing", "incomplete"},
             Ends(s, Answer(k)), KeepDisk, saved' = saved
      PROVE  Answer(k) \in AnswerType /\ Says(s, Answer(k), Answer(k).kind) /\ SameDisk
                /\ Answer(k).kind = k
  BY <1>2, <1>6 DEF Ends, KeepDisk, Says, SameDisk
<1>7. CASE FinishStartUnnamed(s) BY <1>1, <1>5, <1>7 DEF FinishStartUnnamed, FinishStarts, Opened
<1>8. CASE FinishStart(s)
  <2>1. CASE ~side.exists /\ Ends(s, Answer("unknown")) /\ KeepDisk /\ UNCHANGED saved
    BY <1>1, <1>6, <2>1 DEF FinishTold
  <2>2. CASE Ends(s, Answer("refused")) /\ KeepDisk /\ UNCHANGED saved
    BY <1>1, <1>6, <2>2 DEF FinishTold
  <2>3. CASE side.done /\ Ends(s, Answer("done")) /\ KeepDisk /\ UNCHANGED saved
    BY <1>1, <1>6, <2>3 DEF FinishTold
  <2>4. CASE Touch(partial, Side(side.name, TRUE)) /\ Ends(s, Answer("done")) /\ UNCHANGED saved
    BY <1>1, <1>2, <1>4, <2>4 DEF FinishFinds, Touch, Ends, Says
  <2>5. CASE /\ Opened /\ partial = NoFile /\ ~(side.name # 0 /\ saved[side.name] # NoFile)
             /\ Ends(s, Answer("missing")) /\ KeepDisk /\ UNCHANGED saved
    BY <1>1, <1>6, <2>5 DEF FinishTold
  <2>6. CASE /\ Opened /\ partial # NoFile /\ Len(partial) # Size
             /\ Ends(s, Answer("incomplete")) /\ KeepDisk /\ UNCHANGED saved
    BY <1>1, <1>6, <2>6 DEF FinishTold
  <2>7. CASE /\ Opened /\ KeepDisk /\ op' = Op("move", s, side.name) /\ UNCHANGED <<saved, down>>
    BY <1>1, <1>5, <2>7 DEF FinishStarts, KeepDisk, Opened
  <2>8. CASE /\ Opened /\ Touch(partial, Side(Len(saved) + 1, FALSE)) /\ down' = down
             /\ op' = Op("move", s, Len(saved) + 1) /\ saved' = Append(saved, NoFile)
    BY <1>1, <1>4, <1>5, <2>8 DEF FinishStarts, Touch
  <2> QED BY <1>8, <2>1, <2>2, <2>3, <2>4, <2>5, <2>6, <2>7, <2>8 DEF FinishStart, Opened
<1> QED BY <1>7, <1>8

\* An abort only comes of a page that cancelled.
LEMMA AbortShape ==
    ASSUME IInv, NEW s \in Socket, AbortStart(s)
    PROVE  /\ Takes(s, "abort") /\ page.phase = "aborted" /\ down' = down
           /\ side' = side /\ saved' = saved
           /\ partial' \in {partial, NoFile}
           /\ op' = NoOp \/ (op'.kind = "abort" /\ op'.from = s /\ partial' = NoFile)
           /\ ~side.exists => partial' = NoFile
<1>1. Takes(s, "abort") BY DEF AbortStart
<1>2. Holds(s, "abort") /\ "abort" \in Kinds BY <1>1, TakesQueue DEF IInv, Kinds, Holds
<1>3. page.phase = "aborted" BY <1>2 DEF IInv, QueuesInOrder
<1>4. Op("abort", s, 0).kind = "abort" /\ Op("abort", s, 0).from = s BY DEF Op
<1> QED BY <1>1, <1>3, <1>4 DEF AbortStart

\* The steps of an operation that runs: it ends with an answer, or moves the file on.
OpEnds(a) ==
    /\ op.kind \notin {"none", "abort"} /\ op' = NoOp /\ Reply(op.from, a)
    /\ UNCHANGED <<page, sock, alive, up, days>>
    /\ partial' = partial /\ saved' = saved
    /\ \/ a.kind = "disk" /\ side' = side
       \/ op.kind = "begin" /\ a.kind = "offset" /\ a.off = 0 /\ side'.exists /\ ~side'.done
       \/ op.kind = "record" /\ a.kind = "done" /\ side'.exists /\ side'.done
OpMoves ==
    /\ op.kind \in Moving /\ op'.kind \in Finishing /\ op'.from = op.from
    /\ UNCHANGED <<page, sock, alive, up, days, down, side>>
    /\ \/ partial' = partial /\ (partial = Source \/ (Whole(op.name)' /\ op.kind = "copy"))
       \/ partial = Source /\ partial' = NoFile /\ Whole(op.name)'
LEMMA EndsShape ==
    ASSUME IInv, BeginNewEnds \/ OperationFails \/ MoveFindsNothing \/ FinishEnds
    PROVE  \E a \in AnswerType : OpEnds(a)
<1>1. /\ Answer("disk") \in AnswerType /\ Answer("disk").kind = "disk"
      /\ Answer("done") \in AnswerType /\ Answer("done").kind = "done"
  <2>1. \A k \in {"done"} \cup Refusals : Answer(k) \in AnswerType /\ Answer(k).kind = k
    BY FrameTypes
  <2> QED BY <2>1 DEF Refusals
<1>2. Offset(0) \in AnswerType /\ Offset(0).kind = "offset" /\ Offset(0).off = 0
  BY FrameTypes, Sizes DEF Offset
<1>3. \A n, d : Side(n, d).exists /\ Side(n, d).done = d BY DEF Side
<1>4. CASE BeginNewEnds BY <1>2, <1>3, <1>4 DEF BeginNewEnds, Touch, Ends, OpEnds, countVars
<1>5. CASE OperationFails BY <1>1, <1>5 DEF OperationFails, Fails, Ends, OpEnds, diskVars
<1>6. CASE MoveFindsNothing BY <1>1, <1>6 DEF MoveFindsNothing, Ends, OpEnds, diskVars, countVars
<1>7. CASE FinishEnds BY <1>1, <1>3, <1>7 DEF FinishEnds, Touch, Ends, OpEnds, countVars
<1> QED BY <1>4, <1>5, <1>6, <1>7

LEMMA MovesShape ==
    ASSUME IInv, Rename \/ CopyStarts \/ CopyEnds \/ Unlink
    PROVE  OpMoves
<1>1. op \in OpType /\ op.name \in DOMAIN saved /\ DOMAIN saved = 1..Len(saved)
  BY TypesOf DEF IInv, BytesInOrder, Finishing, Moving, Rename, CopyStarts, CopyEnds, Unlink, InFinish
<1>2. /\ op.kind \in Moving /\ op'.kind \in Finishing /\ op'.from = op.from /\ op'.name = op.name
  BY <1>1, OpStep DEF Rename, CopyStarts, CopyEnds, Unlink, InFinish, Moving, Finishing, OpType
<1>3. UNCHANGED <<page, sock, alive, up, days, down, side>>
  BY DEF Rename, CopyStarts, CopyEnds, Unlink, InFinish
<1>4. ASSUME NEW f, Put(f) PROVE DOMAIN saved' = DOMAIN saved /\ saved'[op.name] = f
  BY <1>1, <1>4 DEF Put
<1>5. CASE Rename
  <2>1. partial = Source /\ partial' = NoFile /\ Put(partial)
    BY <1>5 DEF Rename, InFinish, IInv, BytesInOrder, Moving
  <2> QED BY <1>1, <1>2, <1>3, <1>4, <2>1 DEF OpMoves, Whole
<1>6. CASE CopyStarts
  <2>1. partial = Source /\ partial' = partial
    BY <1>6 DEF CopyStarts, InFinish, IInv, BytesInOrder, Moving
  <2> QED BY <1>2, <1>3, <2>1 DEF OpMoves
<1>7. CASE CopyEnds
  <2>1. op.bytes = Source /\ partial' = partial /\ Put(op.bytes) /\ op.kind = "copy"
    BY <1>7 DEF CopyEnds, InFinish, IInv, BytesInOrder
  <2> QED BY <1>1, <1>2, <1>3, <1>4, <2>1 DEF OpMoves, Whole
<1>8. CASE Unlink
  <2>1. partial = Source /\ partial' = NoFile /\ saved' = saved /\ saved[op.name] = Source
    BY <1>8 DEF Unlink, InFinish, IInv, BytesInOrder, Moving
  <2> QED BY <1>1, <1>2, <1>3, <2>1 DEF OpMoves, Whole
<1> QED BY <1>5, <1>6, <1>7, <1>8

\* The window and the queues hold their order in every step.
LEMMA FaultWindow ==
    ASSUME IInv, FramesFit, WindowKept, Fault
    PROVE  /\ FramesFit' /\ WindowKept'
           /\ UNCHANGED <<page, sock, down, partial, side, saved, days, missed>>
           /\ op' = op \/ op' = NoOp
           /\ alive' \subseteq alive
           /\ \A s \in Socket : up'[s] = <<>> \/ (up'[s] = up[s] /\ s \in alive')
           /\ \A s \in alive' : up'[s] = up[s]
           /\ \A s \in alive' : s \in Socket
<1>1. up \in UpType /\ alive \subseteq Socket BY TypesOf DEF IInv, SystemTypes
<1>2. \A s \in Socket : up[s] = <<>> \/ s \in alive BY DEF FramesFit
<1>3. /\ UNCHANGED <<page, sock, down, partial, side, saved, days, missed>>
      /\ op' = op \/ op' = NoOp
      /\ alive' \subseteq alive
      /\ \A s \in Socket : up'[s] = <<>> \/ (up'[s] = up[s] /\ s \in alive')
      /\ \A s \in alive' : up'[s] = up[s]
  <2>1. CASE Crash BY <2>1 DEF Crash, diskVars
  <2>2. ASSUME NEW d \in Socket, SocketDies(d)
        PROVE  /\ UNCHANGED <<page, sock, down, partial, side, saved, days, missed>>
               /\ op' = op /\ alive' = alive \ {d}
               /\ \A s \in Socket : up'[s] = IF s = d THEN <<>> ELSE up[s]
    BY <1>1, <2>2 DEF SocketDies, diskVars, countVars, UpType
  <2>3. CASE \E d \in Socket : SocketDies(d)
    <3>1. PICK d \in Socket : SocketDies(d) BY <2>3
    <3> QED BY <1>1, <1>2, <2>2, <3>1
  <2> QED BY <2>1, <2>3 DEF Fault
<1>4. FramesFit' /\ WindowKept' BY <1>3, LostWindow
<1> QED BY <1>1, <1>3, <1>4

LEMMA ServerWindow ==
    ASSUME IInv, FramesFit, WindowKept, missed \in Nat, StagingStep
    PROVE  FramesFit' /\ WindowKept'
<1>1. {"begin", "chunk", "finish", "abort"} \subseteq Kinds BY DEF Kinds
<1>2. ASSUME NEW s \in Socket, BeginKnown(s) \/ BeginNew(s) PROVE FramesFit' /\ WindowKept'
  <2>1. /\ Takes(s, "begin")
        /\ BeginStarts(s) \/ \E a \in AnswerType : BeginTold(s, a) \/ BeginAnew(s, a)
    BY <1>2, BeginShape
  <2>2. CASE BeginStarts(s) BY <1>1, <2>1, <2>2, StartedWindow DEF BeginStarts
  <2>3. ASSUME NEW a \in AnswerType, BeginTold(s, a) \/ BeginAnew(s, a) PROVE FramesFit' /\ WindowKept'
    <3>1. op' = NoOp /\ Reply(s, a) BY <2>3 DEF BeginTold, BeginAnew, Says
    <3> QED BY <1>1, <2>1, <3>1, AnsweredWindow
  <2> QED BY <2>1, <2>2, <2>3
<1>3. ASSUME NEW s \in Socket, WriteChunk(s) PROVE FramesFit' /\ WindowKept'
  <2>1. Takes(s, "chunk") /\ \E a \in AnswerType : op' = NoOp /\ Reply(s, a) BY <1>3, WriteShape
  <2> QED BY <1>1, <2>1, AnsweredWindow
<1>4. ASSUME NEW s \in Socket, FinishStart(s) PROVE FramesFit' /\ WindowKept'
  <2>1. /\ Takes(s, "finish")
        /\ FinishStarts(s) \/ \E a \in AnswerType : FinishTold(s, a) \/ FinishFinds(s, a)
    BY <1>4, FinishShape
  <2>2. CASE FinishStarts(s) BY <1>1, <2>1, <2>2, StartedWindow DEF FinishStarts, Finishing, Moving
  <2>3. ASSUME NEW a \in AnswerType, FinishTold(s, a) \/ FinishFinds(s, a) PROVE FramesFit' /\ WindowKept'
    <3>1. op' = NoOp /\ Reply(s, a) BY <2>3 DEF FinishTold, FinishFinds, Says
    <3> QED BY <1>1, <2>1, <3>1, AnsweredWindow
  <2> QED BY <2>1, <2>2, <2>3
<1>5. ASSUME NEW s \in Socket, AbortStart(s) PROVE FramesFit' /\ WindowKept'
  <2>1. /\ Takes(s, "abort") /\ page.phase = "aborted" /\ down' = down
        /\ op' = NoOp \/ (op'.kind = "abort" /\ op'.from = s)
    BY <1>5, AbortShape
  <2>2. CASE op' = NoOp
    <3>1. Answer("done") \in AnswerType BY FrameTypes
    <3>2. Reply(s, Answer("done")) BY <2>1 DEF Reply, OnWire
    <3> QED BY <1>1, <2>1, <2>2, <3>1, <3>2, AnsweredWindow
  <2>3. CASE op'.kind = "abort" /\ op'.from = s BY <1>1, <2>1, <2>3, StartedWindow
  <2> QED BY <2>1, <2>2, <2>3
<1>6. CASE BeginNewEnds \/ OperationFails \/ MoveFindsNothing \/ FinishEnds
  <2>1. \E a \in AnswerType : OpEnds(a) BY <1>6, EndsShape
  <2> QED BY <2>1, EndedWindow DEF OpEnds
<1>7. CASE Rename \/ CopyStarts \/ CopyEnds \/ Unlink
  <2>1. OpMoves BY <1>7, MovesShape
  <2> QED BY <2>1, MovedWindow DEF OpMoves, Finishing
<1>8. CASE AbortEnds
  <2>1. page.phase = "aborted" /\ down' = down /\ op.kind # "none" /\ op' = NoOp
        /\ UNCHANGED <<page, sock, alive, up>>
    BY <1>8 DEF AbortEnds, IInv, QueuesInOrder, netVars
  <2>2. Answer("done") \in AnswerType BY FrameTypes
  <2>3. Reply(op.from, Answer("done")) BY <2>1 DEF Reply, OnWire
  <2> QED BY <2>1, <2>2, <2>3, EndedWindow
<1> QED BY <1>2, <1>3, <1>4, <1>5, <1>6, <1>7, <1>8 DEF StagingStep

LEMMA NetKeeps ==
    ASSUME IInv, FramesFit, WindowKept, missed \in Nat, [Next]_vars
    PROVE  FramesFit' /\ WindowKept'
<1>1. CASE PageStep
  BY <1>1, ConnectWindow, LeaveWindow, ReadDoneWindow, ReceiveWindow, CancelWindow DEF PageStep
<1>2. CASE GcStep \/ UNCHANGED vars
  <2>1. UNCHANGED <<page, sock, alive, up, down, op>>
    BY <1>2 DEF GcStep, DayPasses, GcScan, GcCheck, GcRemove, vars, netVars
  <2> QED BY <2>1, SameWindow
<1> QED BY <1>1, <1>2, ServerWindow, FaultWindow DEF Next

--------------------
(* What the page and the staging say of each other, as the page works. *)

Agreed ==
    /\ StagedInOrder /\ ClaimsStand /\ JoinedIsKnown /\ FullWhenSaid /\ GoesOn
    /\ days = 0 => NeverConfused

\* Nothing new is on its way to the page.
Drops == \A j \in DOMAIN down' : \E i \in DOMAIN down : down'[j] = down[i]
LEMMA DownDrops ==
    ASSUME SystemTypes, down' = down \/ down' = <<>> \/ (down # <<>> /\ down' = Tail(down))
    PROVE  Drops
<1>1. down \in Seq(AnswerType) BY TypesOf
<1>2. CASE down' = down BY <1>2 DEF Drops
<1>3. CASE down' = <<>> BY <1>3 DEF Drops
<1>4. CASE down # <<>> /\ down' = Tail(down)
  <2>1. /\ Len(down) \in Nat \ {0} /\ DOMAIN down = 1..Len(down) /\ DOMAIN down' = 1..(Len(down) - 1)
        /\ \A i \in 1..(Len(down) - 1) : down'[i] = down[i + 1]
    BY <1>1, <1>4, TailOf
  <2>2. \A j \in DOMAIN down' : j + 1 \in DOMAIN down /\ down'[j] = down[j + 1] BY <2>1
  <2> QED BY <2>2 DEF Drops
<1> QED BY <1>2, <1>3, <1>4

SameStaging == UNCHANGED <<op, partial, side, saved, days, missed>>
\* What the page knows it knew, or was told.
Hears ==
    page'.phase \notin Settled =>
      /\ page.phase \notin Settled
      /\ \/ page'.acked = page.acked
         \/ \E i \in DOMAIN down : down[i].kind = "offset" /\ down[i].off = page'.acked

LEMMA StaysTrue ==
    ASSUME StagedInOrder, ClaimsStand, days = 0 => NeverConfused, SameStaging, Drops, Hears
    PROVE  StagedInOrder' /\ ClaimsStand' /\ (days' = 0 => NeverConfused')
<1>1. StagedInOrder' BY DEF StagedInOrder, SameStaging
<1>2. \A o : Stands(o) => Stands(o)' BY DEF Stands, Staging, Whole, SameStaging
<1>3. ClaimsStand' BY <1>2 DEF ClaimsStand, SameStaging, Drops, Hears
<1>4. days' = 0 => NeverConfused' BY DEF NeverConfused, SameStaging, Drops
<1> QED BY <1>1, <1>3, <1>4

LEMMA OffPage ==
    ASSUME StagedInOrder, ClaimsStand, days = 0 => NeverConfused, SameStaging, Drops, Hears,
           page'.phase \notin OnWire
    PROVE  Agreed'
<1>1. StagedInOrder' /\ ClaimsStand' /\ (days' = 0 => NeverConfused') BY StaysTrue
<1>2. ~Joined' /\ ~SaysFull' /\ GoesOn' BY DEF Joined, SaysFull, GoesOn, OnWire
<1> QED BY <1>1, <1>2 DEF Agreed, JoinedIsKnown, FullWhenSaid

LEMMA OnPage ==
    ASSUME Agreed, SameStaging, Drops, Hears, sock' = sock,
           \A s \in Socket \ {sock} : up'[s] = up[s],
           Joined' => Joined, SaysFull' => SaysFull, GoesOn',
           page.phase = "finishing" => \/ page'.phase = "finishing" /\ up' = up
                                       \/ page'.phase \notin OnWire
    PROVE  Agreed'
<1>1. StagedInOrder' /\ ClaimsStand' /\ (days' = 0 => NeverConfused') BY StaysTrue DEF Agreed
<1>2. FullWhenSaid' BY DEF FullWhenSaid, Agreed, SameStaging
<1>3. BeginElsewhere' => BeginElsewhere BY DEF BeginElsewhere, Holds
<1>4. JoinedIsKnown'
  <2> SUFFICES ASSUME Joined'
               PROVE  /\ days' = 0 => side'.exists
                      /\ op'.kind # "none" => op'.from \in {sock', sock' - 1}
                      /\ days' = 0 /\ ~side'.done /\ (page'.phase = "finishing" => Holds(sock, "finish")')
                         /\ BeginElsewhere' => partial' # NoFile
    BY DEF JoinedIsKnown
  <2>1. page'.phase \in OnWire BY DEF Joined, OnWire
  <2>2. (page'.phase = "finishing" => Holds(sock, "finish")')
        => (page.phase = "finishing" => Holds(sock, "finish"))
    BY <2>1 DEF Holds
  <2> QED BY <1>3, <2>2 DEF JoinedIsKnown, Agreed, SameStaging
<1> QED BY <1>1, <1>2, <1>4 DEF Agreed

LEMMA LeaveAgrees == ASSUME IInv, FramesFit, WindowKept, Agreed, LoseSocket \/ Fail \/ GiveUp PROVE Agreed'
<1>1. /\ page'.phase \notin OnWire /\ SameStaging /\ (down' = down \/ down' = <<>>)
      /\ page.phase \notin Settled
  BY LeaveWindow DEF LoseSocket, Fail, GiveUp, SameStaging, diskVars, countVars, netVars, OnWire, Settled
<1>2. Hears BY <1>1, LeaveWindow DEF Hears
<1>3. Drops BY <1>1, DownDrops DEF IInv
<1> QED BY <1>1, <1>2, <1>3, OffPage DEF Agreed

LEMMA CancelAgrees == ASSUME IInv, FramesFit, WindowKept, Agreed, Cancel PROVE Agreed'
<1>1. page'.phase = "aborted" /\ SameStaging /\ down' = <<>>
  BY CancelWindow DEF Cancel, SameStaging, diskVars, countVars
<1>2. Drops BY <1>1, DownDrops DEF IInv
<1> QED BY <1>1, <1>2, OffPage DEF Agreed, Hears, Settled, OnWire

LEMMA ConnectAgrees == ASSUME IInv, Agreed, Connect PROVE Agreed'
<1>1. page \in PageType BY TypesOf DEF IInv
<1>2. PICK r : r = Stale(page.reading) OBVIOUS
<1>3. PICK g : g = [page EXCEPT !.phase = "beginning", !.reading = r] OBVIOUS
<1>4. g.phase = "beginning" /\ g.acked = page.acked BY <1>1, <1>3 DEF PageType
<1>5. page'.phase = "beginning" /\ page'.acked = page.acked /\ page.phase = "waiting"
  BY <1>2, <1>3, <1>4 DEF Connect
<1>6. SameStaging /\ down = <<>> /\ down' = down
  BY <1>5 DEF Connect, SameStaging, diskVars, countVars, IInv, BegunFirst
<1>7. Drops /\ Hears BY <1>5, <1>6, DownDrops DEF IInv, Hears, Settled
<1>8. StagedInOrder' /\ ClaimsStand' /\ (days' = 0 => NeverConfused')
  BY <1>6, <1>7, StaysTrue DEF Agreed
<1>9. DOMAIN down' = {} BY <1>6
<1>10. ~Told' /\ ~ToldAll' /\ GoesOn' BY <1>5, <1>9 DEF Told, ToldAll, GoesOn
<1>11. ~Joined' /\ ~SaysFull' BY <1>5, <1>10 DEF Joined, SaysFull
<1> QED BY <1>8, <1>10, <1>11 DEF Agreed, JoinedIsKnown, FullWhenSaid

LEMMA RunsEmpty == ASSUME NEW a, NEW b PROVE Runs(<<>>, a, b) <=> a = b
<1> DEFINE e == <<>>
<1>1. DOMAIN e = {} OBVIOUS
<1>2. e = <<>> OBVIOUS
<1> HIDE DEF e
<1>3. Runs(e, a, b) <=> a = b BY <1>1, <1>2 DEF Runs
<1> QED BY <1>3 DEF e

LEMMA StillContested ==
    ASSUME SameStaging, sock' = sock, alive' = alive, \A s \in Socket \ {sock} : up'[s] = up[s],
           Contested'
    PROVE  Contested
BY DEF SameStaging, Contested, FinishElsewhere, Holds

LEMMA SendGoesOn ==
    ASSUME IInv, FramesFit, WindowKept, GoesOn, SameStaging, sock' = sock, alive' = alive, down' = down,
           NEW n \in 1..MaxChunk, SendsChunk(n)
    PROVE  GoesOn'
<1>1. page.phase = "sending" /\ page.phase \in OnWire /\ page'.phase = "sending"
  BY DEF SendsChunk, OnWire
<1>2. /\ sock \in Socket /\ up[sock] \in Seq(FrameType) /\ page.inFlight \in Seq(FlightType)
      /\ page.next \in 0..Size /\ Len(down) \in Nat /\ down \in Seq(AnswerType)
  BY <1>1, WireTypes
<1>3. PICK c : c = [off |-> page.next, len |-> n] OBVIOUS
<1>4. PICK f : f = Chunk(c.off, c.len) OBVIOUS
<1>5. c \in FlightType /\ c.off = page.next /\ c.len = n BY <1>2, <1>3 DEF FlightType
<1>6. f \in FrameType /\ f.kind = "chunk" /\ f.off = page.next /\ f.len = n
  BY <1>4, <1>5, FrameTypes DEF FlightType, Chunk
<1>7. up' = Sent(f) BY <1>4, <1>5 DEF SendsChunk
<1>8. \A s \in Socket \ {sock} : up'[s] = up[s] BY <1>2, <1>6, <1>7, SentQueue DEF IInv
<1> SUFFICES ASSUME Contested' PROVE (~page'.realigning /\ InStep') \/ Lagging' BY <1>1 DEF GoesOn
<1>9. Contested /\ sock \in alive BY <1>8, StillContested DEF Contested
<1>10. (~page.realigning /\ InStep) \/ Lagging BY <1>1, <1>9 DEF GoesOn
<1>11. PICK q \in Seq(FrameType) : q = up[sock] BY <1>2
<1>12. PICK w \in Seq(FlightType) : w = page.inFlight BY <1>2
<1>13. PICK l \in Nat : l = Len(down) BY <1>2
<1>14. up'[sock] = Append(q, f) BY <1>2, <1>6, <1>7, <1>9, <1>11, SentQueue DEF IInv
<1>15. page'.inFlight = Append(w, c) /\ page'.next = page.next + n /\ page'.realigning = page.realigning
      /\ page.next + n <= Size
  BY <1>3, <1>12 DEF SendsChunk
<1>16. l + Len(q) = Len(w) /\ Len(q) \in Nat /\ Len(w) \in Nat
  BY <1>1, <1>9, <1>11, <1>12, <1>13 DEF WindowKept
<1>17. l \in 0..Len(w) BY <1>16
<1>18. Len(partial) \in Nat BY TypesOf DEF IInv
<1>19. CASE ~page.realigning /\ InStep
  <2>1. Matched(down, w, l) BY <1>12, <1>13, <1>19 DEF InStep
  <2>2. Matched(down', page'.inFlight, Len(down')) BY <1>5, <1>13, <1>15, <1>17, <2>1, MatchedSend
  <2>3. partial # NoFile
    <3>1. page.next < Size BY <1>2, <1>15, Sizes
    <3> QED BY <1>2, <1>19, <3>1, Sizes DEF InStep
  <2>4. Runs(q, Len(partial), page.next) BY <1>11, <1>19, <2>3 DEF InStep
  <2>5. Runs(Append(q, f), Len(partial), page.next + n)
    <3>1. page.next \in Nat BY <1>2, Sizes
    <3> QED BY <1>6, <1>18, <2>4, <3>1, RunsSend
  <2>6. InStep' BY <1>14, <1>15, <2>2, <2>3, <2>5 DEF InStep, SameStaging
  <2> QED BY <1>15, <1>19, <2>6
<1>20. CASE Lagging
  <2>1. /\ partial # NoFile /\ Len(partial) < Size /\ Len(partial) < page.next
        /\ \A i \in DOMAIN q : Len(partial) < q[i].off
    BY <1>11, <1>20 DEF Lagging
  <2>2. PICK k \in 0..l : (page.realigning => k = 0) /\ Lags(down, w, k, Len(partial))
    BY <1>12, <1>13, <1>20 DEF Lagging
  <2>3. k \in 0..Len(w) BY <1>16, <1>17
  <2>4. Lags(down, Append(w, c), k, Len(partial)) BY <1>5, <2>2, <2>3, MatchedSend DEF Lags
  <2>5. \A j \in DOMAIN Append(q, f) : Len(partial) < Append(q, f)[j].off
    <3>1. \A j \in DOMAIN Append(q, f) : (j \in DOMAIN q /\ Append(q, f)[j] = q[j])
                                         \/ (j = Len(Append(q, f)) /\ Append(q, f)[j] = f)
      BY <1>6, QueueAppend
    <3> QED BY <1>6, <2>1, <3>1
  <2>6. Len(partial) < page.next + n BY <1>2, <1>18, <2>1, Sizes
  <2> QED BY <1>13, <1>14, <1>15, <2>1, <2>2, <2>4, <2>5, <2>6 DEF Lagging, SameStaging
<1> QED BY <1>10, <1>19, <1>20

LEMMA ReadDoneAgrees == ASSUME IInv, FramesFit, WindowKept, Agreed, ReadDone PROVE Agreed'
<1>1. SameStaging /\ sock' = sock /\ alive' = alive /\ down' = down
  BY DEF ReadDone, SameStaging, diskVars, countVars
<1>2. Drops BY <1>1, DownDrops DEF IInv
<1>3. ReadsOn \/ (DataOf(page) /\ Finishes(page)) \/ \E n \in 1..MaxChunk : SendsChunk(n)
  BY ReadDoneShape
<1>4. CASE ReadsOn
  <2>1. Hears /\ page'.phase = page.phase /\ up' = up /\ (Joined' => Joined) /\ (SaysFull' => SaysFull)
    BY <1>1, <1>4 DEF ReadsOn, DataOf, Hears, Joined, Told, SaysFull, ToldAll, Holds
  <2>2. GoesOn'
    <3>1. Contested' => Contested BY <1>1, <2>1, StillContested
    <3>2. (InStep => InStep') /\ (Lagging => Lagging')
      BY <1>1, <1>4 DEF InStep, Lagging, ReadsOn, DataOf, SameStaging
    <3> QED BY <1>1, <1>4, <2>1, <3>1, <3>2 DEF GoesOn, ReadsOn, DataOf, Agreed, SameStaging
  <2> QED BY <1>1, <1>2, <2>1, <2>2, OnPage
<1>5. CASE DataOf(page) /\ Finishes(page)
  <2>1. PICK f \in FrameType : f = Frame("finish") BY FrameTypes
  <2>2. page.phase = "sending" /\ page'.phase = "finishing" /\ up' = Sent(f) /\ page.acked = Size
    BY <1>5, <2>1 DEF Finishes
  <2>3. \A s \in Socket \ {sock} : up'[s] = up[s]
    <3>1. sock \in Socket BY <2>2, WireTypes DEF OnWire
    <3> QED BY <2>2, <3>1, SentQueue DEF IInv
  <2>4. GoesOn' /\ Joined /\ SaysFull /\ Hears
    BY <1>5, <2>2 DEF GoesOn, Joined, SaysFull, Hears, DataOf, Settled
  <2> QED BY <1>1, <1>2, <2>2, <2>3, <2>4, OnPage
<1>6. ASSUME NEW n \in 1..MaxChunk, SendsChunk(n) PROVE Agreed'
  <2>1. page.phase = "sending" /\ page'.phase = "sending" /\ page'.acked = page.acked
    BY <1>6 DEF SendsChunk
  <2>2. \A s \in Socket \ {sock} : up'[s] = up[s]
    <3>1. sock \in Socket /\ page.next \in 0..Size BY <2>1, WireTypes DEF OnWire
    <3>2. PICK f \in FrameType : f = Chunk(page.next, n) BY <3>1, FrameTypes
    <3> QED BY <1>6, <3>1, <3>2, SentQueue DEF IInv, SendsChunk
  <2>3. GoesOn' BY <1>1, <1>6, SendGoesOn DEF Agreed
  <2>4. Hears /\ Joined /\ (SaysFull' => SaysFull)
    BY <1>1, <2>1 DEF Hears, Joined, SaysFull, ToldAll, Settled
  <2> QED BY <1>1, <1>2, <2>1, <2>2, <2>3, <2>4, OnPage
<1> QED BY <1>3, <1>4, <1>5, <1>6

\* The page goes on from where it was told, or moves its window.
LEMMA BegunGoesOn ==
    ASSUME IInv, WindowKept, GoesOn, SameStaging, sock' = sock, alive' = alive,
           page.phase = "beginning", down # <<>>, down' = Tail(down), Head(down).kind = "offset",
           NEW p, GoesFrom(p, Head(down).off), PumpsOn(p)
    PROVE  GoesOn'
<1>1. /\ page.inFlight = <<>> /\ ~page.realigning /\ up[sock] = <<>> /\ down' = <<>>
      /\ down \in Seq(AnswerType)
  BY BeginningToldAlone, TypesOf DEF IInv
<1>2. CASE Finishes(p) BY <1>2 DEF Finishes, GoesOn
<1>3. CASE page'.phase = "sending" /\ up' = up
  <2> SUFFICES ASSUME Contested' PROVE ~page'.realigning /\ InStep' BY <1>3 DEF GoesOn
  <2>1. Contested BY <1>3, StillContested
  <2>2. PICK o : o = Head(down).off OBVIOUS
  <2>3. 1 \in DOMAIN down /\ down[1] = Head(down) BY <1>1
  <2>4. o = IF partial = NoFile THEN Size ELSE Len(partial) BY <2>1, <2>2, <2>3 DEF GoesOn
  <2>5. page'.next = o /\ page'.inFlight = <<>> /\ ~page'.realigning
    BY <1>1, <2>2 DEF GoesFrom, PumpsOn, DataOf
  <2>6. PICK e : e = <<>> OBVIOUS
  <2>7. Matched(e, e, Len(e))
    <3>1. Len(e) = 0 BY <2>6
    <3> QED BY <3>1 DEF Matched
  <2>8. Matched(down', page'.inFlight, Len(down')) BY <1>1, <2>5, <2>6, <2>7
  <2>9. up'[sock] = <<>> BY <1>1, <1>3
  <2>10. partial # NoFile => Runs(up'[sock], Len(partial), page'.next)
    BY <2>4, <2>5, <2>9, RunsEmpty
  <2> QED BY <2>4, <2>5, <2>8, <2>9, <2>10 DEF InStep, SameStaging
<1> QED BY <1>2, <1>3 DEF PumpsOn

LEMMA MovedGoesOn ==
    ASSUME IInv, WindowKept, GoesOn, SameStaging, sock' = sock, alive' = alive,
           page.phase = "sending", down # <<>>, down' = Tail(down), Head(down).kind = "offset",
           page.inFlight # <<>>, NEW p, MovesOn(p, Head(down).off), PumpsOn(p)
    PROVE  GoesOn'
<1>1. CASE Finishes(p) BY <1>1 DEF Finishes, GoesOn
<1>2. CASE page'.phase = "sending" /\ up' = up
  <2> SUFFICES ASSUME Contested' PROVE (~page'.realigning /\ InStep') \/ Lagging' BY <1>2 DEF GoesOn
  <2>1. Contested BY <1>2, StillContested
  <2>2. (~page.realigning /\ InStep) \/ Lagging BY <2>1 DEF GoesOn
  <2>3. /\ down \in Seq(AnswerType) /\ up[sock] \in Seq(FrameType)
        /\ page.inFlight \in Seq(FlightType) /\ Len(down) \in Nat /\ Len(up[sock]) \in Nat
    BY WireTypes DEF OnWire
  <2>4. PICK w \in Seq(FlightType) : w = page.inFlight BY <2>3
  <2>5. PICK d \in Seq(AnswerType) : d = down BY <2>3
  <2>6. w # <<>> /\ d # <<>> /\ Len(d) <= Len(w) /\ Len(d) \in Nat \ {0} /\ Len(w) \in Nat
    <3>1. Len(down) + Len(up[sock]) <= Len(w) BY <2>4 DEF WindowKept, InWindow
    <3>2. Len(d) \in Nat \ {0} /\ Len(w) \in Nat BY <2>5
    <3> QED BY <2>3, <2>4, <2>5, <3>1, <3>2
  <2>7. \A n \in 1..Len(d) : Matched(d, w, n) =>
           /\ Matched(Tail(d), Tail(w), n - 1)
           /\ Head(d).off = EndOf(Head(w))
    <3> SUFFICES ASSUME NEW n \in 1..Len(d), Matched(d, w, n)
                 PROVE  Matched(Tail(d), Tail(w), n - 1) /\ Head(d).off = EndOf(Head(w))
      OBVIOUS
    <3>1. n <= Len(w) BY <2>6
    <3> QED BY <2>6, <3>1, MatchedReceive
  <2>8. ~page.realigning /\ Head(d).off = EndOf(Head(w)) =>
          page'.next = page.next /\ ~page'.realigning /\ page'.inFlight = Tail(w)
    BY <2>4, <2>5 DEF MovesOn, Expected, PumpsOn, DataOf
  <2>9. /\ Len(Tail(d)) = Len(d) - 1 /\ DOMAIN Tail(d) = 1..(Len(d) - 1)
        /\ \A i \in 1..(Len(d) - 1) : Tail(d)[i] = d[i + 1]
    BY <2>6, TailOf
  <2>10. CASE ~page.realigning /\ InStep
    <3>1. Matched(d, w, Len(d)) /\ Len(d) \in 1..Len(d) BY <2>4, <2>5, <2>6, <2>10 DEF InStep
    <3>2. Matched(Tail(d), Tail(w), Len(Tail(d))) /\ Head(d).off = EndOf(Head(w))
      BY <2>7, <2>9, <3>1
    <3> QED BY <1>2, <2>5, <2>8, <2>10, <3>2 DEF InStep, SameStaging
  <2>11. CASE Lagging
    <3>1. PICK k \in 0..Len(d) : (page.realigning => k = 0) /\ Lags(d, w, k, Len(partial))
      BY <2>4, <2>5, <2>11 DEF Lagging
    <3>2. PICK m \in 0..Len(Tail(d)) :
            m = (IF k = 0 THEN 0 ELSE k - 1) /\ Lags(Tail(d), Tail(w), m, Len(partial))
      <4>1. k <= Len(w) BY <2>6
      <4> QED BY <2>6, <3>1, <4>1, LagsReceive
    <3>3. page'.inFlight = Tail(w) BY <2>4 DEF MovesOn, PumpsOn, DataOf
    <3>4. ASSUME page'.next = page.next, page'.realigning => m = 0 PROVE Lagging'
      BY <1>2, <2>5, <2>11, <3>2, <3>3, <3>4 DEF Lagging, SameStaging
    <3>5. CASE k # 0
      <4>1. k \in 1..Len(d) /\ Matched(d, w, k) BY <3>1, <3>5 DEF Lags
      <4> QED BY <2>7, <2>8, <3>1, <3>4, <3>5, <4>1
    <3>6. CASE k = 0 /\ page'.next = page.next BY <3>2, <3>4, <3>6
    <3>7. CASE k = 0 /\ page'.next # page.next
      <4>1. Head(d).off = Len(partial)
        <5>1. 1 \in (k + 1)..Len(d) /\ Head(d) = d[1] BY <2>6, <3>7
        <5> QED BY <2>5, <3>1, <5>1 DEF Lags
      <4>2. Tail(w) = <<>> /\ page'.next = Len(partial) /\ ~page'.realigning
        BY <2>4, <2>5, <3>3, <3>7, <4>1 DEF MovesOn, PumpsOn, DataOf
      <4>3. Len(w) = 1 BY <2>6, <4>2, TailOf
      <4>4. Len(d) + Len(up[sock]) <= Len(w) BY <2>4, <2>5 DEF WindowKept, InWindow
      <4>5. Len(up[sock]) = 0 /\ Len(Tail(d)) = 0 BY <2>3, <2>6, <2>9, <4>3, <4>4
      <4>6. up'[sock] = <<>> BY <1>2, <2>3, <4>5, EmptyOf
      <4>7. Matched(Tail(d), Tail(w), Len(Tail(d))) BY <4>5 DEF Matched
      <4>8. partial' # NoFile /\ Runs(up'[sock], Len(partial), page'.next)
        BY <2>11, <4>2, <4>6, RunsEmpty DEF Lagging, SameStaging
      <4> QED BY <2>5, <3>3, <4>2, <4>7, <4>8 DEF InStep, SameStaging
    <3> QED BY <3>5, <3>6, <3>7
  <2> QED BY <2>2, <2>10, <2>11
<1> QED BY <1>1, <1>2 DEF PumpsOn

LEMMA ReceiveAgrees == ASSUME IInv, FramesFit, WindowKept, Agreed, Receive PROVE Agreed'
<1>1. SameStaging /\ sock' = sock /\ alive' = alive BY DEF Receive, SameStaging, diskVars, countVars
<1>2. /\ page' \in PageType /\ down # <<>> /\ down' = Tail(down) /\ Head(down) \in AnswerType
      /\ \/ Stays
         \/ EndsPage
         \/ /\ page.phase = "beginning" /\ Head(down).kind = "offset"
            /\ \E p \in PageType : GoesFrom(p, Head(down).off) /\ PumpsOn(p)
         \/ /\ page.phase = "sending" /\ Head(down).kind = "offset" /\ page.inFlight # <<>>
            /\ \E p \in PageType : MovesOn(p, Head(down).off) /\ PumpsOn(p)
  BY ReceiveShape DEF Agreed
<1>3. Drops BY <1>2, DownDrops DEF IInv
<1>4. 1 \in DOMAIN down /\ down[1] = Head(down) BY <1>2, TypesOf DEF IInv
<1>5. /\ Told' => Told
      /\ ToldAll' => ToldAll
  BY <1>3 DEF Told, ToldAll, Drops
<1>6. CASE Stays
  <2>1. Hears /\ (Joined' => Joined) /\ (SaysFull' => SaysFull) /\ GoesOn'
    BY <1>1, <1>6 DEF Stays, DataOf, Hears, Joined, SaysFull, GoesOn, Settled, Holds
  <2>2. up' = up /\ page'.phase = page.phase BY <1>6 DEF Stays
  <2> QED BY <1>1, <1>3, <2>1, <2>2, OnPage
<1>7. CASE EndsPage BY <1>1, <1>3, <1>7, OffPage DEF EndsPage, Hears, Settled, OnWire, Agreed
<1>8. ASSUME page.phase \in {"beginning", "sending"}, Head(down).kind = "offset",
             NEW p \in PageType, PumpsOn(p), p.acked = Head(down).off, Joined, GoesOn'
      PROVE  Agreed'
  <2>1. page'.acked = Head(down).off /\ page'.phase \in {"sending", "finishing"}
    BY <1>8 DEF PumpsOn, DataOf, Finishes
  <2>2. Hears BY <1>4, <1>8, <2>1 DEF Hears, Settled
  <2>3. SaysFull' => SaysFull
    <3>1. page'.acked = Size => ToldAll BY <1>4, <1>8, <2>1 DEF ToldAll
    <3>2. page'.phase = "finishing" => page'.acked = Size BY <1>8 DEF PumpsOn, Finishes, DataOf
    <3> QED BY <1>5, <1>8, <2>1, <3>1, <3>2 DEF SaysFull
  <2>4. \A s \in Socket \ {sock} : up'[s] = up[s]
    <3>1. CASE up' = up BY <3>1
    <3>2. CASE up' = Sent(Frame("finish"))
      <4>1. sock \in Socket BY <1>8, WireTypes DEF OnWire
      <4>2. PICK f \in FrameType : f = Frame("finish") BY FrameTypes
      <4> QED BY <3>2, <4>1, <4>2, SentQueue DEF IInv
    <3> QED BY <1>8, <3>1, <3>2 DEF PumpsOn, Finishes
  <2> QED BY <1>1, <1>3, <1>8, <2>2, <2>3, <2>4, OnPage
<1>9. ASSUME page.phase = "beginning", Head(down).kind = "offset",
             NEW p \in PageType, GoesFrom(p, Head(down).off), PumpsOn(p)
      PROVE  Agreed'
  <2>1. GoesOn' BY <1>1, <1>2, <1>9, BegunGoesOn DEF Agreed
  <2>2. Joined BY <1>4, <1>9 DEF Joined, Told
  <2>3. p.acked = Head(down).off BY <1>9 DEF GoesFrom
  <2> QED BY <1>8, <1>9, <2>1, <2>2, <2>3
<1>10. ASSUME page.phase = "sending", Head(down).kind = "offset", page.inFlight # <<>>,
              NEW p \in PageType, MovesOn(p, Head(down).off), PumpsOn(p)
       PROVE  Agreed'
  <2>1. GoesOn' BY <1>1, <1>2, <1>10, MovedGoesOn DEF Agreed
  <2>2. Joined BY <1>10 DEF Joined
  <2>3. p.acked = Head(down).off BY <1>10 DEF MovesOn
  <2> QED BY <1>8, <1>10, <2>1, <2>2, <2>3
<1> QED BY <1>2, <1>6, <1>7, <1>9, <1>10

LEMMA PageAgrees == ASSUME IInv, FramesFit, WindowKept, Agreed, PageStep PROVE Agreed'
BY LeaveAgrees, CancelAgrees, ConnectAgrees, ReadDoneAgrees, ReceiveAgrees DEF PageStep

\* The world: faults, days and the collector.
LEMMA FaultAgrees == ASSUME IInv, FramesFit, WindowKept, Agreed, Fault PROVE Agreed'
<1>1. /\ UNCHANGED <<page, sock, down, partial, side, saved, days, missed>>
      /\ op' = op \/ op' = NoOp
      /\ alive' \subseteq alive
      /\ \A s \in Socket : up'[s] = <<>> \/ (up'[s] = up[s] /\ s \in alive')
      /\ \A s \in alive' : up'[s] = up[s] /\ s \in Socket
  BY FaultWindow
<1>2. op' = op \/ op'.kind = "none" BY <1>1, OpTypes
<1>3. StagedInOrder' /\ ClaimsStand' /\ (days' = 0 => NeverConfused')
  BY <1>1, <1>2 DEF Agreed, StagedInOrder, ClaimsStand, Stands, Staging, Whole, NeverConfused
<1>4. \A s \in Socket : \A k \in Kinds : Holds(s, k)' => Holds(s, k)
  <2>1. PICK e : e = <<>> OBVIOUS
  <2>2. DOMAIN e = {} BY <2>1
  <2> QED BY <1>1, <2>1, <2>2 DEF Holds
<1>5. page.phase \in OnWire => sock \in Socket BY DEF IInv, BegunFirst
<1>6. JoinedIsKnown'
  <2>1. Joined' => Joined /\ sock \in Socket BY <1>1, <1>5 DEF Joined, Told, OnWire
  <2>2. BeginElsewhere' => BeginElsewhere BY <1>1, <1>4 DEF BeginElsewhere, Kinds
  <2>3. sock \in Socket => (Holds(sock, "finish")' => Holds(sock, "finish"))
    BY <1>1, <1>4 DEF Holds, Kinds
  <2> QED BY <1>1, <1>2, <2>1, <2>2, <2>3 DEF Agreed, JoinedIsKnown, Holds
<1>7. FullWhenSaid'
  <2>1. SaysFull' => SaysFull BY <1>1, <1>4, <1>5 DEF SaysFull, ToldAll, OnWire, Holds, Kinds
  <2> QED BY <1>1, <2>1 DEF Agreed, FullWhenSaid
<1>8. GoesOn'
  <2> SUFFICES ASSUME Contested' PROVE GoesOn' BY DEF GoesOn
  <2>1. sock \in alive /\ sock \in Socket /\ up'[sock] = up[sock] BY <1>1 DEF Contested
  <2>2. FinishElsewhere' => FinishElsewhere
    BY <1>1, <1>2, <1>4 DEF FinishElsewhere, Finishing, Moving, Kinds
  <2>3. Contested BY <1>1, <2>1, <2>2 DEF Contested
  <2>4. (InStep => InStep') /\ (Lagging => Lagging') BY <1>1, <2>1 DEF InStep, Lagging
  <2> QED BY <1>1, <2>3, <2>4 DEF Agreed, GoesOn
<1> QED BY <1>3, <1>6, <1>7, <1>8 DEF Agreed

LEMMA DaysAgree == ASSUME IInv, Agreed, GcStep \/ UNCHANGED vars PROVE Agreed'
<1>1. UNCHANGED <<page, sock, alive, up, down, op, saved>>
  BY DEF GcStep, DayPasses, GcScan, GcCheck, GcRemove, vars, netVars, diskVars
<1>2. CASE days' > 0
  <2>1. days' # 0 BY <1>2
  <2>2. StagedInOrder' /\ ClaimsStand' /\ FullWhenSaid' /\ GoesOn'
    BY <2>1 DEF StagedInOrder, ClaimsStand, FullWhenSaid, GoesOn, Contested
  <2>3. JoinedIsKnown' BY <1>1, <2>1 DEF Agreed, JoinedIsKnown, Joined, Told
  <2> QED BY <2>1, <2>2, <2>3 DEF Agreed
<1>3. CASE SameStaging
  <2>1. StagedInOrder' /\ ClaimsStand' /\ (days' = 0 => NeverConfused')
    BY <1>1, <1>3, StaysTrue DEF Agreed, Drops, Hears
  <2>2. JoinedIsKnown' /\ FullWhenSaid'
    BY <1>1, <1>3 DEF Agreed, JoinedIsKnown, FullWhenSaid, Joined, Told, SaysFull, ToldAll,
                      BeginElsewhere, Holds, SameStaging
  <2>3. GoesOn'
    BY <1>1, <1>3 DEF Agreed, GoesOn, Contested, FinishElsewhere, InStep, Lagging, Holds, SameStaging
  <2> QED BY <2>1, <2>2, <2>3 DEF Agreed
<1>4. days' > 0 \/ SameStaging
  <2>1. days \in Nat BY WorldOf DEF IInv
  <2>2. CASE DayPasses
    <3>1. days' = days + 1 BY <2>2 DEF DayPasses
    <3> QED BY <2>1, <3>1
  <2>3. CASE GcScan \/ GcCheck \/ UNCHANGED vars
    BY <2>3 DEF GcScan, GcCheck, vars, diskVars, countVars, SameStaging
  <2>4. ASSUME NEW x, GcRemove(x) PROVE days' > 0
    <3>1. gc.st = "removing" /\ days' = days BY <2>4 DEF GcRemove, countVars
    <3> QED BY <3>1 DEF IInv, CollectedIsOld
  <2> QED BY <2>2, <2>3, <2>4 DEF GcStep
<1> QED BY <1>2, <1>3, <1>4

--------------------
(* What the page and the staging say of each other, as the server works. *)

\* What a step of the server leaves alone, and what it may not take away.
Grows == missed \in Nat /\ missed' \in Nat /\ missed <= missed'
Serves ==
    /\ page' = page /\ sock' = sock /\ alive' = alive /\ days' = days /\ Grows
    /\ \A t \in Socket : \A k \in Kinds : Holds(t, k)' => Holds(t, k)
    /\ op'.kind # "none" => (op.kind # "none" /\ op'.from = op.from) \/ op'.from \in {sock, sock - 1}
    /\ side.exists => side'.exists
    /\ side.done => side'.done
StandsOn == days = 0 /\ page.phase \notin Settled => \A o \in 0..Size : Stands(o) => Stands(o)'
StillFull == days = 0 /\ missed' = 0 /\ SaysFull => side'.done \/ partial' = NoFile \/ Len(partial') = Size
StillThere ==
    days = 0 /\ partial # NoFile /\ partial' = NoFile =>
        ~(Joined /\ BeginElsewhere /\ (page.phase = "finishing" => Holds(sock, "finish")))
\* An answer says what is so.
Honest(a) ==
    /\ a.kind \in Confusions => a.kind = "incomplete" /\ missed' > 0
    /\ a.kind = "offset" =>
         /\ Stands(a.off)' /\ partial' # NoFile /\ side'.exists
         /\ a.off = Size /\ missed' = 0 => Len(partial') = Size
Answers ==
    \/ down' = down
    \/ \E a \in AnswerType : /\ page.phase \in OnWire /\ op'.kind = "none" /\ down' = Append(down, a)
                             /\ days = 0 => Honest(a)

LEMMA ServerAgrees ==
    ASSUME IInv, Agreed, Serves, StandsOn, StillFull, StillThere, Answers, StagedInOrder', GoesOn'
    PROVE  Agreed'
<1>1. down \in Seq(AnswerType) /\ page.acked \in 0..Size /\ \A i \in DOMAIN down : down[i].off \in 0..Size
  <2>1. down \in Seq(AnswerType) /\ page \in PageType BY TypesOf DEF IInv
  <2>2. \A i \in DOMAIN down : down[i] \in AnswerType BY <2>1
  <2>3. \A a \in AnswerType : a.off \in 0..Size BY DEF AnswerType
  <2>4. page.acked \in 0..Size BY <2>1 DEF PageType
  <2> QED BY <2>1, <2>2, <2>3, <2>4
<1>2. \/ down' = down
      \/ \E a \in AnswerType :
           /\ page.phase \in OnWire /\ op'.kind = "none" /\ (days = 0 => Honest(a))
           /\ \A i \in DOMAIN down' : (\E j \in DOMAIN down : down'[i] = down[j]) \/ down'[i] = a
  <2> SUFFICES ASSUME NEW a \in AnswerType, page.phase \in OnWire, op'.kind = "none",
                      down' = Append(down, a), days = 0 => Honest(a)
               PROVE  \A i \in DOMAIN down' : (\E j \in DOMAIN down : down'[i] = down[j]) \/ down'[i] = a
    BY DEF Answers
  <2>1. \A i \in DOMAIN down' : (i \in DOMAIN down /\ down'[i] = down[i]) \/ (i = Len(down') /\ down'[i] = a)
    BY <1>1, QueueAppend
  <2> QED BY <2>1
<1>3. ClaimsStand'
  <2> SUFFICES ASSUME days = 0, page.phase \notin Settled
               PROVE  /\ \A o \in 0..Size : o = page.acked => Stands(o)'
                      /\ \A i \in DOMAIN down' : \A o \in 0..Size :
                           down'[i].kind = "offset" /\ o = down'[i].off => Stands(o)'
    <3>1. /\ page'.acked \in 0..Size /\ page'.acked = page.acked BY <1>1 DEF Serves
    <3>2. \A i \in DOMAIN down' : down'[i].off \in 0..Size
      <4>1. \A a \in AnswerType : a.off \in 0..Size BY DEF AnswerType
      <4> QED BY <1>1, <1>2, <4>1
    <3> QED BY <3>1, <3>2 DEF ClaimsStand, Serves, Stands
  <2>1. /\ Stands(page.acked)
        /\ \A i \in DOMAIN down : down[i].kind = "offset" => Stands(down[i].off)
    BY DEF Agreed, ClaimsStand
  <2>2. page.acked \in 0..Size /\ \A i \in DOMAIN down : down[i].off \in 0..Size BY <1>1
  <2>3. \A o \in 0..Size : Stands(o) => Stands(o)' BY DEF StandsOn
  <2>4. \A o \in 0..Size : o = page.acked => Stands(o)' BY <2>1, <2>3
  <2>5. ASSUME NEW i \in DOMAIN down', NEW o \in 0..Size, down'[i].kind = "offset", o = down'[i].off
        PROVE  Stands(o)'
    <3>1. ASSUME NEW j \in DOMAIN down, down'[i] = down[j] PROVE Stands(o)'
      BY <2>1, <2>3, <2>5, <3>1
    <3>2. ASSUME NEW a \in AnswerType, Honest(a), down'[i] = a PROVE Stands(o)'
      BY <2>5, <3>2 DEF Honest, Stands
    <3> QED BY <1>2, <3>1, <3>2
  <2> QED BY <2>4, <2>5
<1>4. Joined' => Joined \/ (op'.kind = "none" /\ (days = 0 => side'.exists /\ partial' # NoFile))
  BY <1>2 DEF Joined, Told, Serves, Honest
<1>5. SaysFull' => SaysFull \/ (days = 0 /\ missed' = 0 => Len(partial') = Size)
  <2>1. page.phase \in OnWire => sock \in Socket BY DEF IInv, BegunFirst
  <2>2. ToldAll' => ToldAll \/ (days = 0 /\ missed' = 0 => Len(partial') = Size)
    BY <1>2 DEF ToldAll, Honest
  <2>3. page.phase = "finishing" /\ Holds(sock, "finish")' => Holds(sock, "finish")
    BY <2>1 DEF Serves, Kinds, OnWire
  <2> QED BY <2>2, <2>3 DEF SaysFull, Serves, Holds
<1>6. FullWhenSaid' BY <1>5 DEF FullWhenSaid, StillFull, Serves
<1>7. JoinedIsKnown'
  <2> SUFFICES ASSUME Joined, Joined'
               PROVE  /\ days' = 0 => side'.exists
                      /\ op'.kind # "none" => op'.from \in {sock', sock' - 1}
                      /\ days' = 0 /\ ~side'.done /\ (page'.phase = "finishing" => Holds(sock, "finish")')
                         /\ BeginElsewhere' => partial' # NoFile
    BY <1>4 DEF JoinedIsKnown, Serves
  <2>1. sock \in Socket BY DEF Joined, IInv, BegunFirst, OnWire
  <2>2. BeginElsewhere' => BeginElsewhere BY DEF BeginElsewhere, Serves, Kinds
  <2>3. Holds(sock, "finish")' => Holds(sock, "finish") BY <2>1 DEF Serves, Kinds, Holds
  <2>4. /\ days = 0 => side.exists
        /\ op.kind # "none" => op.from \in {sock, sock - 1}
        /\ days = 0 /\ ~side.done /\ (page.phase = "finishing" => Holds(sock, "finish"))
           /\ BeginElsewhere => partial # NoFile
    BY DEF Agreed, JoinedIsKnown
  <2>5. days' = 0 /\ ~side'.done /\ (page'.phase = "finishing" => Holds(sock, "finish")')
           /\ BeginElsewhere' => partial' # NoFile
    BY <2>2, <2>3, <2>4 DEF StillThere, Serves
  <2> QED BY <2>4, <2>5 DEF Serves
<1>8. days' = 0 => NeverConfused'
  <2>1. missed > 0 => missed' > 0 BY DEF Serves, Grows
  <2> QED BY <1>2, <2>1 DEF Agreed, NeverConfused, Honest, Serves
<1> QED BY <1>3, <1>6, <1>7, <1>8 DEF Agreed

\* A frame taken up, and what it tells of the page it came from.
LEMMA TakesServes ==
    ASSUME IInv, Grows, NEW s \in Socket, NEW k \in Kinds, Takes(s, k),
           op'.kind # "none" => op'.from = s, side.exists => side'.exists, side.done => side'.done
    PROVE  /\ Serves /\ Holds(s, k) /\ s \in {sock, sock - 1}
           /\ (op'.kind \in Finishing => k = "finish") => (FinishElsewhere' => FinishElsewhere)
<1>1. /\ Fewer /\ Holds(s, k) /\ up[s] # <<>> BY TakesFacts, TypesOf DEF IInv
<1>2. /\ page' = page /\ sock' = sock /\ alive' = alive /\ days' = days BY TakesQueue DEF IInv
<1>3. s \in {sock, sock - 1} BY <1>1 DEF IInv, QueuesInOrder
<1>4. \A t \in Socket : \A i \in Kinds : Holds(t, i)' => Holds(t, i) BY <1>1 DEF Fewer
<1>5. Serves BY <1>2, <1>3, <1>4 DEF Serves
<1>6. ASSUME op'.kind \in Finishing => k = "finish", FinishElsewhere' PROVE FinishElsewhere
  <2>1. PICK t \in Socket \ {sock} : Holds(t, "finish")' \/ (op'.kind \in Finishing /\ op'.from = t)
    BY <1>2, <1>6 DEF FinishElsewhere
  <2>2. CASE Holds(t, "finish")' BY <1>4, <2>1, <2>2 DEF FinishElsewhere, Kinds
  <2>3. CASE op'.kind \in Finishing /\ op'.from = t
    <3>1. t = s /\ k = "finish" BY <1>6, <2>3 DEF Finishing, Moving
    <3> QED BY <1>1, <2>1, <3>1 DEF FinishElsewhere
  <2> QED BY <2>1, <2>2, <2>3
<1> QED BY <1>1, <1>3, <1>5, <1>6

LEMMA HeadSays ==
    ASSUME IInv, WindowKept, NEW s \in Socket, NEW k \in Kinds, Takes(s, k), s = sock
    PROVE  /\ page.phase = "beginning" => k = "begin"
           /\ page.phase = "finishing" => k = "finish"
           /\ page.phase = "sending" =>
                /\ k = "chunk" /\ Len(down) + 1 \in DOMAIN page.inFlight
                /\ up[sock][1] = Chunk(page.inFlight[Len(down) + 1].off, page.inFlight[Len(down) + 1].len)
<1>1. up[s] \in Seq(FrameType) /\ up[s] # <<>> /\ 1 \in DOMAIN up[s] /\ up[s][1].kind = k
      /\ Head(up[s]) = up[s][1]
  BY TakesQueue DEF IInv
<1>2. page.phase = "beginning" => k = "begin" BY <1>1 DEF WindowKept, OneAt
<1>3. page.phase = "finishing" => k = "finish" BY <1>1 DEF WindowKept, OneAt
<1>4. ASSUME page.phase = "sending"
      PROVE  /\ k = "chunk" /\ Len(down) + 1 \in DOMAIN page.inFlight
             /\ up[sock][1] = Chunk(page.inFlight[Len(down) + 1].off, page.inFlight[Len(down) + 1].len)
  <2>1. PICK q \in Seq(FrameType) : q = up[sock] BY <1>1
  <2>2. PICK w \in Seq(FlightType) : w = page.inFlight BY <1>4, WireTypes DEF OnWire
  <2>3. PICK n \in Nat : n = Len(down) BY <1>4, WireTypes DEF OnWire
  <2>4. InWindow(q, n, w) /\ q # <<>> BY <1>1, <1>4, <2>1, <2>2, <2>3 DEF WindowKept
  <2>5. n + 1 \in DOMAIN w /\ Head(q) = Chunk(w[n + 1].off, w[n + 1].len) BY <2>4, WindowTake
  <2>6. Chunk(w[n + 1].off, w[n + 1].len).kind = "chunk" BY DEF Chunk
  <2> QED BY <1>1, <2>1, <2>2, <2>3, <2>5, <2>6
<1> QED BY <1>2, <1>3, <1>4

\* The partial is only begun anew when the page has nothing to go on from.
LEMMA AnewNotJoined ==
    ASSUME IInv, WindowKept, JoinedIsKnown, days = 0, NEW s \in Socket, Takes(s, "begin"),
           ~side.exists \/ (Opened /\ partial = NoFile)
    PROVE  ~SaysFull /\ (page.phase \in {"beginning", "sending"} => ~Joined)
<1>1. SaysFull => Joined /\ (page.phase = "finishing" => Holds(sock, "finish"))
  BY DEF SaysFull, Joined, Told, ToldAll
<1>2. SUFFICES ASSUME Joined, page.phase = "finishing" => Holds(sock, "finish") PROVE FALSE BY <1>1
<1>3. Opened /\ partial = NoFile /\ ~BeginElsewhere BY <1>2 DEF JoinedIsKnown, Opened
<1>4. "begin" \in Kinds BY DEF Kinds
<1>5. Holds(s, "begin") /\ up[s] # <<>> BY <1>4, TakesFacts, TypesOf DEF IInv
<1>6. s = sock BY <1>3, <1>5 DEF BeginElsewhere
<1>7. page.phase = "beginning" BY <1>2, <1>5, <1>6 DEF Joined, IInv, BegunFirst
<1>8. down # <<>>
  <2>1. PICK e : e = <<>> OBVIOUS
  <2>2. DOMAIN e = {} BY <2>1
  <2> QED BY <1>2, <1>7, <2>1, <2>2 DEF Joined, Told
<1> QED BY <1>5, <1>6, <1>7, <1>8, BeginningToldAlone

\* A step that leaves the partial leaves what is said of it.
LEMMA KeepGoesOn ==
    ASSUME IInv, GoesOn, Serves, partial' = partial, FinishElsewhere' => FinishElsewhere,
           page.phase = "sending" => up'[sock] = up[sock] /\ down' = down,
           page.phase = "beginning" =>
             \/ down' = down
             \/ \E a \in AnswerType :
                  /\ down' = Append(down, a)
                  /\ days = 0 /\ a.kind = "offset" => partial # NoFile /\ a.off = Len(partial)
    PROVE  GoesOn'
<1> SUFFICES ASSUME Contested' PROVE GoesOn' BY DEF GoesOn
<1>1. Contested /\ days = 0 BY DEF Contested, Serves
<1>2. ASSUME page.phase = "sending" PROVE (~page'.realigning /\ InStep') \/ Lagging'
  <2>1. (~page.realigning /\ InStep) \/ Lagging BY <1>1, <1>2 DEF GoesOn
  <2>2. up'[sock'] = up[sock] /\ down' = down /\ page' = page /\ partial' = partial
    BY <1>2 DEF Serves
  <2>3. (InStep => InStep') /\ (Lagging => Lagging') BY <2>2 DEF InStep, Lagging
  <2> QED BY <2>1, <2>2, <2>3
<1>3. ASSUME page.phase = "beginning", NEW i \in DOMAIN down', down'[i].kind = "offset"
      PROVE  down'[i].off = IF partial = NoFile THEN Size ELSE Len(partial)
  <2>1. \A j \in DOMAIN down : down[j].kind = "offset" =>
            down[j].off = IF partial = NoFile THEN Size ELSE Len(partial)
    BY <1>1, <1>3 DEF GoesOn
  <2>2. CASE down' = down BY <1>3, <2>1, <2>2
  <2>3. ASSUME NEW a \in AnswerType, down' = Append(down, a),
               a.kind = "offset" => partial # NoFile /\ a.off = Len(partial)
        PROVE  down'[i].off = IF partial = NoFile THEN Size ELSE Len(partial)
    <3>1. down \in Seq(AnswerType) BY TypesOf DEF IInv
    <3>2. (i \in DOMAIN down /\ down'[i] = down[i]) \/ down'[i] = a BY <1>3, <2>3, <3>1, QueueAppend
    <3> QED BY <1>3, <2>1, <2>3, <3>2
  <2> QED BY <1>1, <1>3, <2>2, <2>3
<1> QED BY <1>2, <1>3 DEF GoesOn, Serves

LEMMA KeepAgrees ==
    ASSUME IInv, Agreed, Serves, StandsOn, Answers, partial' = partial, op'.kind # "abort", GoesOn'
    PROVE  Agreed'
<1>1. StagedInOrder' BY DEF Agreed, StagedInOrder, Serves
<1>2. missed' = 0 => missed = 0 BY DEF Serves, Grows
<1>3. StillFull /\ StillThere BY <1>2 DEF StillFull, StillThere, Agreed, FullWhenSaid, Serves
<1> QED BY <1>1, <1>3, ServerAgrees

LEMMA StandsStill ==
    ASSUME Grows, NEW o \in 0..Size, Stands(o), Staging \in Nat, Staging' \in Nat, Staging <= Staging',
           \A n : Whole(n) => Whole(n)'
    PROVE  Stands(o)'
<1>1. CASE o <= Staging + missed
  <2>1. \A a, b, m, n \in Nat : o <= a + m /\ a <= b /\ m <= n => o <= b + n BY Sizes
  <2> QED BY <1>1, <2>1 DEF Stands, Grows
<1>2. ASSUME NEW n \in DOMAIN saved, Whole(n) PROVE Stands(o)'
  <2>1. Whole(n)' /\ n \in DOMAIN saved' BY <1>2 DEF Whole
  <2> QED BY <2>1 DEF Stands
<1> QED BY <1>1, <1>2 DEF Stands

LEMMA StagingType == ASSUME IInv PROVE Staging \in Nat
BY TypesOf DEF Staging, IInv

LEMMA SameStands == ASSUME IInv, Serves, partial' = partial, saved' = saved PROVE StandsOn
<1>1. Staging \in Nat /\ Staging' = Staging /\ Staging <= Staging BY StagingType DEF Staging
<1> QED BY <1>1, StandsStill DEF StandsOn, Whole, Serves

LEMMA BeginAgrees ==
    ASSUME IInv, FramesFit, WindowKept, Agreed, Grows, NEW s \in Socket, BeginKnown(s) \/ BeginNew(s)
    PROVE  Agreed'
<1>1. /\ Takes(s, "begin")
      /\ BeginStarts(s) \/ \E a \in AnswerType : BeginTold(s, a) \/ BeginAnew(s, a)
  BY BeginShape
<1>2. "begin" \in Kinds BY DEF Kinds
<1>3. Len(partial) \in Nat BY TypesOf DEF IInv
<1>4. ASSUME NEW a \in AnswerType, BeginTold(s, a) PROVE Agreed'
  <2>1. /\ op' = NoOp /\ op'.kind = "none" /\ Reply(s, a) /\ SameDisk
        /\ a.kind \in {"refused", "done", "offset"}
        /\ a.kind = "offset" => side.exists /\ partial # NoFile /\ a.off = Len(partial)
    BY <1>4, OpTypes DEF BeginTold, Says, Opened
  <2>2. partial' = partial /\ side' = side /\ saved' = saved BY <2>1 DEF SameDisk
  <2>3. Serves /\ (FinishElsewhere' => FinishElsewhere)
    BY <1>1, <1>2, <2>1, <2>2, TakesServes DEF Finishing, Moving
  <2>4. Honest(a) BY <1>3, <2>1, <2>2 DEF Honest, Confusions, Stands, Staging, Grows
  <2>5. Answers BY <2>1, <2>4 DEF Answers, Reply
  <2>6. GoesOn'
    <3>1. page.phase = "sending" => up'[sock] = up[sock] /\ down' = down
      <4>1. page.phase = "sending" => s # sock /\ sock \in Socket
        BY <1>1, <1>2, HeadSays DEF IInv, BegunFirst, OnWire
      <4> QED BY <1>1, <1>2, <2>1, <4>1, TakesQueue DEF IInv, Reply
    <3> QED BY <2>1, <2>2, <2>3, <3>1, KeepGoesOn DEF Agreed, Reply
  <2> QED BY <2>1, <2>2, <2>3, <2>5, <2>6, SameStands, KeepAgrees
<1>5. ASSUME partial' = <<>>, side' = side, saved' = saved, op'.kind \in {"none", "begin"},
             op'.kind # "none" => op'.from = s,
             ~side.exists \/ (Opened /\ partial = NoFile),
             \/ ~side.exists /\ down' = down
             \/ \E a \in AnswerType : side.exists /\ op'.kind = "none" /\ Reply(s, a) /\ a.kind = "offset" /\ a.off = 0
      PROVE  Agreed'
  <2>1. /\ Len(partial') = 0 /\ partial' # NoFile BY <1>5, SourceFacts
  <2>2. Serves BY <1>1, <1>2, <1>5, TakesServes
  <2>3. days = 0 => Staging = 0
    <3>1. days = 0 => partial \in {NoFile, <<>>} BY <1>5 DEF Agreed, StagedInOrder, Opened
    <3>2. Len(<<>>) = 0 OBVIOUS
    <3> QED BY <3>1, <3>2 DEF Staging
  <2>4. StandsOn
    <3>1. Staging' = 0 BY <2>1 DEF Staging
    <3>2. \A n : Whole(n) => Whole(n)' BY <1>5 DEF Whole
    <3> QED BY <2>3, <3>1, <3>2, StandsStill DEF StandsOn
  <2>5. days = 0 => ~SaysFull /\ (page.phase \in {"beginning", "sending"} => ~Joined)
    BY <1>1, <1>5, AnewNotJoined DEF Agreed
  <2>6. StillFull /\ StillThere /\ StagedInOrder'
    BY <1>5, <2>1, <2>5 DEF StillFull, StillThere, StagedInOrder
  <2>7. \A a \in AnswerType : side.exists /\ a.kind = "offset" /\ a.off = 0 => Honest(a)
    <3>1. Staging' = 0 /\ missed' \in Nat BY <2>1 DEF Staging, Grows
    <3>2. \A m \in Nat : 0 <= 0 + m OBVIOUS
    <3>3. \A o : o = 0 => Stands(o)'
      <4> SUFFICES ASSUME NEW o, o = 0 PROVE o <= Staging' + missed' BY DEF Stands
      <4> QED BY <3>1, <3>2
    <3> QED BY <1>5, <2>1, <3>3 DEF Honest, Confusions
  <2>8. Answers BY <1>5, <2>7 DEF Answers, Reply
  <2>9. GoesOn'
    <3> SUFFICES ASSUME Contested', page.phase \in {"beginning", "sending"}
                 PROVE  GoesOn'
      BY <2>2 DEF GoesOn, Serves
    <3>1. days = 0 BY <2>2 DEF Contested, Serves
    <3>2. page.phase = "beginning" /\ ~Told BY <2>5, <3>1 DEF Joined
    <3>3. ASSUME NEW i \in DOMAIN down', down'[i].kind = "offset" PROVE down'[i].off = 0
      <4>1. CASE down' = down BY <3>2, <3>3, <4>1 DEF Told
      <4>2. ASSUME NEW a \in AnswerType, down' = Append(down, a), a.off = 0
            PROVE  down'[i].off = 0
        <5>1. down \in Seq(AnswerType) BY TypesOf DEF IInv
        <5>2. (i \in DOMAIN down /\ down'[i] = down[i]) \/ down'[i] = a
          BY <3>3, <4>2, <5>1, QueueAppend
        <5> QED BY <3>2, <3>3, <4>2, <5>2 DEF Told
      <4> QED BY <1>5, <4>1, <4>2 DEF Reply
    <3> QED BY <2>1, <2>2, <3>2, <3>3 DEF GoesOn, Serves
  <2> QED BY <2>2, <2>4, <2>6, <2>8, <2>9, ServerAgrees
<1>6. CASE BeginStarts(s) BY <1>5, <1>6 DEF BeginStarts
<1>7. ASSUME NEW a \in AnswerType, BeginAnew(s, a) PROVE Agreed'
  <2>1. op'.kind = "none" BY <1>7, OpTypes DEF BeginAnew, Says
  <2> QED BY <1>5, <1>7, <2>1 DEF BeginAnew, Says, Opened
<1> QED BY <1>1, <1>4, <1>6, <1>7

\* The chunk at the head of a queue is within the file.
LEMMA HeadFits ==
    ASSUME IInv, FramesFit, NEW s \in Socket, Takes(s, "chunk"), NEW c, c = Head(up[s])
    PROVE  /\ c \in FrameType /\ c.kind = "chunk" /\ c = up[s][1] /\ s \in alive
           /\ c.len > 0 /\ c.len \in Nat /\ c.off \in Nat /\ EndOf(c) = c.off + c.len /\ EndOf(c) <= Size
           /\ \A i \in DOMAIN up[s] : up[s][i].kind = "chunk" => up[s][i].len > 0
<1>1. /\ up[s] \in Seq(FrameType) /\ up[s] # <<>> /\ c \in FrameType /\ c.kind = "chunk"
      /\ 1 \in DOMAIN up[s] /\ up[s][1] = c
  BY TakesQueue DEF IInv, Kinds
<1>2. ChunksFit(up[s]) /\ FinishAlone(up[s]) /\ s \in alive BY <1>1 DEF FramesFit
<1>3. c.len > 0 /\ EndOf(c) <= Size BY <1>1, <1>2 DEF ChunksFit
<1>4. c.len \in Nat /\ c.off \in Nat BY <1>1, Sizes DEF FrameType
<1>5. \A i \in DOMAIN up[s] : up[s][i].kind = "chunk" => up[s][i].len > 0 BY <1>2 DEF ChunksFit
<1>6. EndOf(c) = c.off + c.len BY DEF EndOf
<1> QED BY <1>1, <1>2, <1>3, <1>4, <1>5, <1>6

\* As the page's own chunks are taken up, the page stays in step, or a refusal is on its way.
LEMMA WriteGoesOn ==
    ASSUME IInv, FramesFit, WindowKept, GoesOn, JoinedIsKnown, Serves, side' = side,
           FinishElsewhere' => FinishElsewhere, sock \in Socket, Takes(sock, "chunk"),
           page.phase = "sending", NEW a \in AnswerType, down' = Append(down, a),
           NEW c, c = Head(up[sock]), WriteTold(sock, a, c) \/ Writes(sock, a, c)
    PROVE  GoesOn'
<1> SUFFICES ASSUME Contested' PROVE (~page'.realigning /\ InStep') \/ Lagging'
  BY DEF GoesOn, Serves
<1>1. c \in FrameType /\ c.kind = "chunk" /\ c = up[sock][1]
      /\ c.len > 0 /\ c.len \in Nat /\ c.off \in Nat /\ EndOf(c) = c.off + c.len /\ EndOf(c) <= Size
      /\ \A i \in DOMAIN up[sock] : up[sock][i].kind = "chunk" => up[sock][i].len > 0
  BY HeadFits
<1>2. PICK q \in Seq(FrameType) : q = up[sock] BY WireTypes DEF OnWire
<1>3. PICK w \in Seq(FlightType) : w = page.inFlight BY WireTypes DEF OnWire
<1>4. PICK n \in Nat : n = Len(down) BY WireTypes DEF OnWire
<1>5. PICK d \in Seq(AnswerType) : d = down BY WireTypes DEF OnWire
<1>6. q # <<>> /\ c = Head(q) /\ up'[sock'] = Tail(q) /\ page' = page
  BY <1>2, TakesQueue DEF IInv, Kinds
<1>7. PICK m \in Nat : m = page.next BY WireTypes, Sizes DEF OnWire
<1>8. PICK l \in Nat : l = Len(partial) BY TypesOf DEF IInv
<1>9. InWindow(q, n, w) BY <1>2, <1>3, <1>4 DEF WindowKept
<1>10. c = Chunk(w[n + 1].off, w[n + 1].len) BY <1>6, <1>9, WindowTake
<1>11. EndOf(c) = EndOf(w[n + 1]) BY <1>10 DEF Chunk, EndOf
<1>12. partial' = NoFile => partial = NoFile BY DEF WriteTold, Writes
<1>13. Contested /\ days = 0 /\ ~side.done BY <1>12 DEF Contested, Serves
<1>14. (~page.realigning /\ InStep) \/ Lagging BY <1>13 DEF GoesOn
<1>15. partial # NoFile BY <1>2, <1>6, <1>14 DEF InStep, Lagging
<1>16. side.exists BY <1>13 DEF JoinedIsKnown, Joined
<1>17. PICK dd \in Seq(AnswerType) : dd = down'
  <2>1. Append(d, a) \in Seq(AnswerType) BY <1>5
  <2> QED BY <1>5, <2>1
<1>18. /\ Len(dd) = n + 1 /\ DOMAIN dd = 1..(n + 1) /\ DOMAIN d = 1..n
       /\ \A i \in 1..n : dd[i] = d[i]
       /\ dd[n + 1] = a /\ dd = Append(d, a)
  BY <1>4, <1>5, <1>17, AppendOf
<1>19. CASE Lagging
  <2>1. /\ l < Size /\ l < m /\ (\A i \in DOMAIN q : l < q[i].off)
    BY <1>2, <1>7, <1>8, <1>19 DEF Lagging
  <2>2. PICK i \in 0..Len(d) : (page.realigning => i = 0) /\ Lags(d, w, i, l)
    BY <1>3, <1>5, <1>8, <1>19 DEF Lagging
  <2>5. \A j \in DOMAIN Tail(q) : l < Tail(q)[j].off
    <3>1. /\ Len(q) \in Nat \ {0} /\ DOMAIN q = 1..Len(q) /\ DOMAIN Tail(q) = 1..(Len(q) - 1)
          /\ \A j \in 1..(Len(q) - 1) : Tail(q)[j] = q[j + 1]
      BY <1>6, TailOf
    <3>2. \A j \in DOMAIN Tail(q) : j + 1 \in DOMAIN q /\ Tail(q)[j] = q[j + 1] BY <3>1
    <3> QED BY <2>1, <3>2
  <2>6. l < c.off
    <3>1. 1 \in DOMAIN q BY <1>6
    <3> QED BY <1>1, <1>2, <2>1, <3>1
  <2>7. partial' = partial BY <1>1, <1>8, <2>6 DEF WriteTold, Writes
  <2>3. a.kind = "offset" => a.off = l BY <1>1, <1>8, <2>6 DEF WriteTold, Writes
  <2>4. Lags(dd, w, i, l) BY <1>18, <2>2, <2>3, LagsAnswer
  <2>8. i \in 0..Len(dd) BY <1>4, <1>5, <1>18
  <2> QED BY <1>3, <1>6, <1>7, <1>8, <1>15, <1>17, <2>1, <2>2, <2>4, <2>5, <2>7, <2>8 DEF Lagging
<1>20. CASE ~page.realigning /\ InStep
  <2>1. Matched(d, w, n) /\ Runs(q, l, m)
    BY <1>2, <1>3, <1>4, <1>5, <1>7, <1>8, <1>15, <1>20 DEF InStep
  <2>2. \A i \in DOMAIN q : q[i].len > 0
    <3>1. \A i \in DOMAIN q : q[i].kind = "chunk" BY <1>9 DEF InWindow, Chunk
    <3> QED BY <1>1, <1>2, <3>1
  <2>3. /\ c.off = l /\ l < EndOf(c) /\ EndOf(c) <= m
        /\ Runs(Tail(q), EndOf(c), m)
        /\ \A i \in DOMAIN Tail(q) : EndOf(c) <= Tail(q)[i].off
    BY <1>6, <2>1, <2>2, RunsTake
  <2>4. Tail(q) \in Seq(FrameType) /\ EndOf(c) \in Nat BY <1>1, <1>6
  <2>5. \A i \in DOMAIN Tail(q) : Tail(q)[i].off \in Nat
    <3>1. \A i \in DOMAIN Tail(q) : Tail(q)[i] \in FrameType BY <2>4
    <3>2. \A f \in FrameType : f.off \in Nat BY Sizes DEF FrameType
    <3> QED BY <3>1, <3>2
  <2>6. n \in 0..Len(d) /\ n = Len(d) BY <1>4, <1>5
  <2>7. Matched(dd, w, n) BY <1>18, <2>1, <2>6, MatchedAnswer
  <2>8. ASSUME partial' # NoFile, NEW k \in Nat, k = Len(partial'), k < EndOf(c),
               NEW j \in n..(n + 1), Matched(dd, w, j), a.kind = "offset" => j = n + 1
        PROVE  Lagging'
    <3>1. k < Size /\ k < m BY <1>1, <2>3, <2>4, <2>8, Sizes
    <3>2. \A i \in DOMAIN Tail(q) : k < Tail(q)[i].off BY <2>3, <2>4, <2>5, <2>8
    <3>3. j \in 0..Len(dd) /\ \A i \in (j + 1)..Len(dd) : i = n + 1 /\ j = n BY <1>18, <2>8
    <3>4. Lags(dd, w, j, k)
      <4>1. \A i \in (j + 1)..Len(dd) : dd[i].kind = "offset" => FALSE
        <5>1. \A i \in (j + 1)..Len(dd) : dd[i] = a /\ j # n + 1 BY <1>18, <3>3
        <5> QED BY <2>8, <5>1
      <4> QED BY <2>8, <4>1 DEF Lags
    <3> QED BY <1>3, <1>6, <1>7, <1>17, <1>20, <2>8, <3>1, <3>2, <3>3, <3>4 DEF Lagging
  <2>9. CASE WriteTold(sock, a, c)
    <3>1. a.kind = "refused" /\ partial' = partial
      BY <1>1, <1>8, <1>13, <1>15, <1>16, <2>3, <2>4, <2>9, Sizes DEF WriteTold
    <3>2. n \in n..(n + 1) OBVIOUS
    <3> QED BY <1>8, <1>15, <2>3, <2>7, <2>8, <3>1, <3>2
  <2>10. CASE Writes(sock, a, c) /\ a.kind = "offset" /\ a.off = EndOf(c)
    <3>1. Matched(dd, w, n + 1) BY <1>11, <1>18, <2>1, <2>6, <2>10, MatchedAnswer
    <3>2. CASE Len(partial') = EndOf(c)
      <4>1. Matched(down', page'.inFlight, Len(down')) BY <1>3, <1>6, <1>17, <1>18, <3>1
      <4>2. partial' # NoFile /\ Runs(up'[sock'], Len(partial'), page'.next)
        BY <1>6, <1>7, <2>3, <2>10, <3>2 DEF Writes
      <4> QED BY <1>6, <1>20, <4>1, <4>2 DEF InStep
    <3>3. CASE Len(partial') \in Len(partial)..(EndOf(c) - 1)
      <4>1. PICK k \in Nat : k = Len(partial') /\ k < EndOf(c) BY <1>8, <2>4, <3>3
      <4>2. n + 1 \in n..(n + 1) OBVIOUS
      <4> QED BY <2>8, <2>10, <3>1, <4>1, <4>2 DEF Writes
    <3> QED BY <2>10, <3>2, <3>3 DEF Writes
  <2>11. CASE Writes(sock, a, c) /\ Len(partial') \in Len(partial)..(EndOf(c) - 1) /\ a.kind = "disk"
    <3>1. PICK k \in Nat : k = Len(partial') /\ k < EndOf(c) BY <1>8, <2>4, <2>11
    <3>2. n \in n..(n + 1) OBVIOUS
    <3> QED BY <2>7, <2>8, <2>11, <3>1, <3>2 DEF Writes
  <2> QED BY <2>9, <2>10, <2>11 DEF Writes
<1> QED BY <1>14, <1>19, <1>20

\* On the page's own socket a chunk is told what a conforming page may hear.
LEMMA WriteToldPage ==
    ASSUME IInv, FramesFit, WindowKept, Agreed, days = 0, sock \in Socket, Takes(sock, "chunk"),
           page.phase \in OnWire, NEW a, NEW c, c = Head(up[sock]), WriteTold(sock, a, c)
    PROVE  /\ a.kind \in {"refused", "done", "offset"}
           /\ a.kind = "offset" => side.exists /\ partial # NoFile /\ a.off = Len(partial)
<1>1. "chunk" \in Kinds BY DEF Kinds
<1>2. page.phase = "sending" /\ up[sock] # <<>> BY <1>1, HeadSays, TakesQueue DEF OnWire, IInv
<1>3. side.exists BY <1>2 DEF Agreed, JoinedIsKnown, Joined
<1>4. sock \in alive /\ EndOf(c) <= Size /\ EndOf(c) \in Nat BY HeadFits
<1>5. ~(Opened /\ partial = NoFile)
  <2>1. SUFFICES ASSUME Opened, partial = NoFile PROVE FALSE OBVIOUS
  <2>2. Contested BY <1>4, <2>1 DEF Contested, Opened
  <2> QED BY <1>2, <2>1, <2>2 DEF Agreed, GoesOn, InStep, Lagging
<1>6. ~(EndOf(c) > Size) BY <1>4, Sizes
<1> QED BY <1>3, <1>5, <1>6 DEF WriteTold, Opened

LEMMA WriteAgrees ==
    ASSUME IInv, FramesFit, WindowKept, Agreed, Grows, NEW s \in Socket, WriteChunk(s)
    PROVE  Agreed'
<1>1. /\ Takes(s, "chunk") /\ side' = side /\ saved' = saved
      /\ \E a \in AnswerType :
           /\ op' = NoOp /\ Reply(s, a)
           /\ WriteTold(s, a, Head(up[s])) \/ Writes(s, a, Head(up[s]))
  BY WriteShape DEF Grows
<1>2. PICK a \in AnswerType : /\ op' = NoOp /\ Reply(s, a)
                              /\ WriteTold(s, a, Head(up[s])) \/ Writes(s, a, Head(up[s]))
  BY <1>1
<1>3. PICK c : c = Head(up[s]) OBVIOUS
<1>4. c.kind = "chunk" /\ c.len > 0 /\ c.len \in Nat /\ c.off \in Nat /\ EndOf(c) = c.off + c.len
      /\ EndOf(c) <= Size /\ c = up[s][1] /\ up[s] # <<>> /\ "chunk" \in Kinds
  BY <1>1, <1>3, HeadFits, TakesQueue DEF IInv, Kinds
<1>5. Serves /\ (FinishElsewhere' => FinishElsewhere) /\ op'.kind = "none" /\ s \in {sock, sock - 1}
  BY <1>1, <1>2, <1>4, TakesServes, OpTypes DEF Finishing, Moving
<1>6. Len(partial) \in Nat BY TypesOf DEF IInv
<1>7. sock \in Socket /\ s # sock => up'[sock] = up[sock] /\ down' = down
  BY <1>1, <1>2, <1>4, TakesQueue DEF IInv, Reply
<1>8. page.phase \in {"beginning", "sending"} => sock \in Socket BY DEF IInv, BegunFirst, OnWire
<1>9. s = sock /\ page.phase \in OnWire => page.phase = "sending" /\ down' = Append(down, a)
  BY <1>1, <1>2, <1>4, HeadSays DEF Reply, OnWire
<1>10. s = sock /\ page.phase = "sending" => GoesOn'
  <2> SUFFICES ASSUME s = sock, page.phase = "sending" PROVE GoesOn' OBVIOUS
  <2>1. down' = Append(down, a) BY <1>9 DEF OnWire
  <2>2. WriteTold(sock, a, c) \/ Writes(sock, a, c) BY <1>2, <1>3
  <2> QED BY <1>1, <1>3, <1>5, <2>1, <2>2, WriteGoesOn DEF Agreed
<1>11. CASE WriteTold(s, a, c)
  <2>1. partial' = partial BY <1>11 DEF WriteTold
  <2>2. Answers
    <3>1. CASE s = sock /\ page.phase \in OnWire
      <4>1. days = 0 => Honest(a)
        <5> SUFFICES ASSUME days = 0 PROVE Honest(a) OBVIOUS
        <5>1. /\ a.kind \in {"refused", "done", "offset"}
              /\ a.kind = "offset" => side.exists /\ partial # NoFile /\ a.off = Len(partial)
          BY <1>1, <1>3, <1>11, <3>1, WriteToldPage
        <5> QED BY <1>1, <1>6, <2>1, <5>1 DEF Honest, Confusions, Stands, Staging, Grows
      <4> QED BY <1>5, <1>9, <3>1, <4>1 DEF Answers
    <3>2. CASE ~(s = sock /\ page.phase \in OnWire) BY <1>2, <3>2 DEF Answers, Reply
    <3> QED BY <3>1, <3>2
  <2>3. GoesOn'
    <3>1. CASE s = sock /\ page.phase = "sending" BY <1>10, <3>1
    <3>2. CASE ~(s = sock /\ page.phase = "sending")
      <4>1. page.phase \in {"beginning", "sending"} => up'[sock] = up[sock] /\ down' = down
        BY <1>7, <1>8, <1>9, <3>2 DEF OnWire
      <4> QED BY <1>5, <2>1, <4>1, KeepGoesOn DEF Agreed
    <3> QED BY <3>1, <3>2
  <2> QED BY <1>1, <1>5, <2>1, <2>2, <2>3, SameStands, KeepAgrees
<1>12. CASE Writes(s, a, c)
  <2>1. PICK k \in Nat : k = Len(partial') /\ Len(partial) <= k /\ k <= EndOf(c) /\ k <= Size
    <3>1. PICK l, e \in Nat : l = Len(partial) /\ e = EndOf(c) /\ l <= e /\ e <= Size
      BY <1>4, <1>6, <1>12 DEF Writes
    <3>2. Len(partial') = e \/ Len(partial') \in l..(e - 1) BY <1>12, <3>1 DEF Writes
    <3> QED BY <3>1, <3>2, Sizes
  <2>2. /\ partial # NoFile /\ partial' # NoFile /\ side.exists /\ ~side.done
        /\ \/ a.kind = "disk"
           \/ a.kind = "offset" /\ a.off = k
           \/ a.kind = "offset" /\ missed' > 0 /\ a.off <= k + missed'
    BY <1>12, <2>1 DEF Writes, Opened
  <2>3. StandsOn
    <3>1. Staging \in Nat /\ Staging' \in Nat /\ Staging <= Staging' BY <1>6, <2>1, <2>2 DEF Staging
    <3>2. \A n : Whole(n) => Whole(n)' BY <1>1 DEF Whole
    <3> QED BY <3>1, <3>2, StandsStill DEF StandsOn
  <2>4. StillFull /\ StillThere /\ StagedInOrder'
    <3>1. Len(partial) = Size => Len(partial') = Size BY <2>1, Sizes
    <3>2. missed' = 0 => missed = 0 BY DEF Grows
    <3> QED
      BY <1>1, <1>5, <2>2, <3>1, <3>2 DEF StillFull, StillThere, StagedInOrder, Agreed, FullWhenSaid
  <2>5. Honest(a) BY <1>1, <2>1, <2>2 DEF Honest, Confusions, Stands, Staging, Grows
  <2>6. Answers BY <1>2, <1>5, <2>5 DEF Answers, Reply
  <2>7. GoesOn'
    <3>1. CASE s = sock BY <1>5, <1>9, <1>10, <3>1 DEF GoesOn, Serves, OnWire
    <3>2. CASE s # sock
      <4> SUFFICES ASSUME Contested' PROVE FALSE BY DEF GoesOn
      <4>1. PICK t \in Socket \ {sock} : Holds(t, "finish")'
        BY <1>5, <2>2 DEF Contested, FinishElsewhere, Serves, Finishing, Moving
      <4>2. Holds(t, "finish") BY <1>5, <4>1 DEF Serves, Kinds
      <4>3. PICK i \in DOMAIN up[t] : up[t][i].kind = "finish" BY <4>2 DEF Holds
      <4>4. up[t] # <<>> BY <4>3, TypesOf DEF IInv
      <4>5. t = s BY <1>5, <3>2, <4>1, <4>4 DEF IInv, QueuesInOrder
      <4>6. i = 1 BY <4>3, <4>5 DEF FramesFit, FinishAlone
      <4> QED BY <1>4, <4>3, <4>5, <4>6
    <3> QED BY <3>1, <3>2
  <2> QED BY <1>5, <2>3, <2>4, <2>6, <2>7, ServerAgrees
<1> QED BY <1>2, <1>3, <1>11, <1>12

\* On the page's own socket a finish is told what a conforming page may hear.
LEMMA FinishToldPage ==
    ASSUME IInv, FramesFit, WindowKept, Agreed, days = 0, sock \in Socket, Takes(sock, "finish"),
           page.phase \in OnWire, NEW a, FinishTold(sock, a)
    PROVE  a.kind \in {"refused", "done"} \/ (a.kind = "incomplete" /\ missed # 0)
<1>1. "finish" \in Kinds BY DEF Kinds
<1>2. page.phase = "finishing" /\ Holds(sock, "finish")
  BY <1>1, HeadSays, TakesFacts, TypesOf DEF OnWire, IInv
<1>3. side.exists BY <1>2 DEF Agreed, JoinedIsKnown, Joined
<1>4. Opened /\ partial # NoFile /\ missed = 0 => Len(partial) = Size
  BY <1>2 DEF Agreed, FullWhenSaid, SaysFull, Opened
<1>5. Opened /\ partial = NoFile => side.name # 0 /\ saved[side.name] # NoFile
  <2> SUFFICES ASSUME Opened, partial = NoFile PROVE side.name # 0 /\ saved[side.name] # NoFile
    OBVIOUS
  <2>1. op.kind = "none" BY <1>1, TakesQueue DEF IInv
  <2>2. Whole(side.name) BY <1>2, <2>1 DEF IInv, NothingHalfCopied, Quiet, Opened
  <2>3. DOMAIN saved = 1..Len(saved) /\ Len(saved) \in Nat BY TypesOf DEF IInv
  <2> QED BY <2>2, <2>3, SourceFacts DEF Whole
<1> QED BY <1>3, <1>4, <1>5 DEF FinishTold

LEMMA FinishAgrees ==
    ASSUME IInv, FramesFit, WindowKept, Agreed, Grows, NEW s \in Socket, FinishStart(s)
    PROVE  Agreed'
<1>1. /\ Takes(s, "finish") /\ "finish" \in Kinds
      /\ FinishStarts(s) \/ \E a \in AnswerType : FinishTold(s, a) \/ FinishFinds(s, a)
  BY FinishShape DEF Kinds
<1>2. page.phase \in {"beginning", "sending"} => s # sock /\ sock \in Socket
  BY <1>1, HeadSays DEF IInv, BegunFirst, OnWire
<1>3. page.phase \in {"beginning", "sending"} => up'[sock] = up[sock]
  BY <1>1, <1>2, TakesQueue DEF IInv
<1>4. ASSUME NEW a \in AnswerType, FinishTold(s, a) \/ FinishFinds(s, a) PROVE Agreed'
  <2>1. /\ op'.kind = "none" /\ Reply(s, a) /\ partial' = partial /\ saved' = saved
        /\ side.exists => side'.exists
        /\ side.done => side'.done
    BY <1>4, OpTypes DEF FinishTold, FinishFinds, Says, SameDisk
  <2>2. Serves /\ (FinishElsewhere' => FinishElsewhere) BY <1>1, <2>1, TakesServes
  <2>3. ASSUME s = sock, page.phase \in OnWire, days = 0 PROVE Honest(a)
    <3>1. CASE FinishTold(s, a)
      <4>1. a.kind \in {"refused", "done"} \/ (a.kind = "incomplete" /\ missed # 0)
        BY <1>1, <2>3, <3>1, FinishToldPage
      <4>2. missed # 0 => missed' > 0 BY DEF Grows
      <4> QED BY <4>1, <4>2 DEF Honest, Confusions
    <3>2. CASE FinishFinds(s, a) BY <3>2 DEF FinishFinds, Says, Honest, Confusions
    <3> QED BY <1>4, <3>1, <3>2
  <2>4. Answers BY <2>1, <2>3 DEF Answers, Reply
  <2>5. page.phase \in {"beginning", "sending"} => down' = down BY <1>2, <2>1 DEF Reply
  <2>6. GoesOn' BY <1>3, <2>1, <2>2, <2>5, KeepGoesOn DEF Agreed
  <2> QED BY <2>1, <2>2, <2>4, <2>6, SameStands, KeepAgrees
<1>5. CASE FinishStarts(s)
  <2>1. /\ op'.kind = "move" /\ op'.from = s /\ down' = down /\ partial' = partial
        /\ side.exists => side'.exists
        /\ side.done => side'.done
        /\ saved' = saved \/ saved' = Append(saved, NoFile)
    BY <1>5 DEF FinishStarts, Opened
  <2>2. Serves /\ (FinishElsewhere' => FinishElsewhere) BY <1>1, <2>1, TakesServes
  <2>3. \A n : Whole(n) => Whole(n)'
    <3>1. saved \in Seq(Seq(Nat)) BY TypesOf DEF IInv
    <3>2. CASE saved' = saved BY <3>2 DEF Whole
    <3>3. CASE saved' = Append(saved, NoFile)
      <4>1. /\ Len(saved) \in Nat /\ DOMAIN saved = 1..Len(saved) /\ DOMAIN saved' = 1..(Len(saved) + 1)
            /\ \A i \in 1..Len(saved) : saved'[i] = saved[i]
        BY <3>1, <3>3, SourceFacts, AppendOf
      <4>2. \A i \in DOMAIN saved : i \in DOMAIN saved' /\ saved'[i] = saved[i] BY <4>1
      <4> QED BY <4>2 DEF Whole
    <3> QED BY <2>1, <3>2, <3>3
  <2>4. StandsOn
    <3>1. Staging \in Nat /\ Staging' = Staging /\ Staging <= Staging
      BY <2>1, StagingType DEF Staging
    <3> QED BY <2>3, <3>1, StandsStill DEF StandsOn
  <2>5. GoesOn' BY <1>3, <2>1, <2>2, KeepGoesOn DEF Agreed
  <2> QED BY <2>1, <2>2, <2>4, <2>5, KeepAgrees DEF Answers
<1> QED BY <1>1, <1>4, <1>5

LEMMA EndsAgrees ==
    ASSUME IInv, FramesFit, WindowKept, Agreed, Grows, BeginNewEnds \/ OperationFails \/ MoveFindsNothing \/ FinishEnds
    PROVE  Agreed'
<1>1. PICK a \in AnswerType : OpEnds(a) BY EndsShape
<1>2. /\ op.kind # "none" /\ op'.kind = "none" /\ Reply(op.from, a)
      /\ page' = page /\ sock' = sock /\ alive' = alive /\ up' = up /\ days' = days
      /\ partial' = partial /\ saved' = saved
  BY <1>1, OpTypes DEF OpEnds
<1>3. /\ side.exists => side'.exists
      /\ side.done => side'.done
      /\ a.kind \in {"disk", "offset", "done"}
      /\ a.kind = "offset" => op.kind = "begin" /\ a.off = 0 /\ side'.exists
  BY <1>1 DEF OpEnds, IInv, BusyIsOpen
<1>4. Serves /\ (FinishElsewhere' => FinishElsewhere)
  BY <1>2, <1>3 DEF Serves, FinishElsewhere, Holds, Finishing, Moving
<1>5. days = 0 /\ a.kind = "offset" => partial # NoFile /\ Len(partial) = 0
  <2> SUFFICES ASSUME days = 0, a.kind = "offset" PROVE partial # NoFile /\ Len(partial) = 0 OBVIOUS
  <2>1. partial # NoFile /\ ~side.exists BY <1>3 DEF IInv, BusyIsOpen
  <2>2. partial = <<>> BY <2>1 DEF Agreed, StagedInOrder
  <2> QED BY <2>1, <2>2, SourceFacts
<1>6. days = 0 => Honest(a) BY <1>2, <1>3, <1>5 DEF Honest, Confusions, Stands, Staging, Grows
<1>7. Answers BY <1>2, <1>6 DEF Answers, Reply
<1>8. page.phase = "sending" => op.from # sock BY <1>2 DEF WindowKept, ServedFor
<1>9. GoesOn' BY <1>2, <1>3, <1>4, <1>5, <1>8, KeepGoesOn DEF Agreed, Reply
<1> QED BY <1>2, <1>4, <1>7, <1>9, SameStands, KeepAgrees

LEMMA MovesAgrees ==
    ASSUME IInv, FramesFit, WindowKept, Agreed, Grows, Rename \/ CopyStarts \/ CopyEnds \/ Unlink
    PROVE  Agreed'
<1>1. /\ op.kind \in Finishing /\ op.kind \notin {"none", "begin"}
      /\ op'.kind \in Finishing /\ op'.kind \notin {"none", "abort"} /\ op'.from = op.from
      /\ page' = page /\ sock' = sock /\ alive' = alive /\ up' = up /\ days' = days
      /\ down' = down /\ side' = side
      /\ \/ partial' = partial /\ (partial = Source \/ Whole(op.name)')
         \/ partial = Source /\ partial' = NoFile /\ Whole(op.name)'
  BY MovesShape DEF OpMoves, Finishing, Moving
<1>2. Serves /\ (FinishElsewhere' => FinishElsewhere) /\ Answers
  BY <1>1 DEF Serves, FinishElsewhere, Holds, Answers
<1>3. Len(Source) = Size /\ Source # NoFile BY SourceFacts
<1>4. StandsOn
  <2>1. CASE partial' = partial /\ partial = Source
    BY <1>3, <2>1, Sizes DEF StandsOn, Stands, Staging, Grows
  <2>2. CASE Whole(op.name)'
    <3>1. PICK n \in DOMAIN saved' : Whole(n)' BY <2>2 DEF Whole
    <3> QED BY <3>1 DEF StandsOn, Stands
  <2> QED BY <1>1, <2>1, <2>2
<1>5. page.phase \in {"beginning", "sending"} => op.from # sock
  BY <1>1 DEF WindowKept, OneAt, ServedFor
<1>6. op.from \in Socket BY <1>1, TypesOf, Bounds DEF IInv, QueuesInOrder, Socket
<1>7. CASE partial' = partial
  <2>1. GoesOn' BY <1>1, <1>2, <1>7, KeepGoesOn DEF Agreed
  <2> QED BY <1>1, <1>2, <1>4, <1>7, <2>1, KeepAgrees
<1>8. CASE partial = Source /\ partial' = NoFile
  <2>1. StagedInOrder' /\ StillFull BY <1>1, <1>8 DEF StagedInOrder, StillFull
  <2>2. StillThere
    <3> SUFFICES ASSUME days = 0, Joined, BeginElsewhere, page.phase = "finishing" => Holds(sock, "finish")
                 PROVE  FALSE
      BY DEF StillThere
    <3>1. op.from \in {sock, sock - 1} BY <1>1 DEF Agreed, JoinedIsKnown
    <3>2. PICK t \in Socket \ {sock} : Holds(t, "begin") BY DEF BeginElsewhere
    <3>3. PICK i \in DOMAIN up[t] : up[t][i].kind = "begin" BY <3>2 DEF Holds
    <3>4. up[t] # <<>> BY <3>3, TypesOf DEF IInv
    <3>5. t = sock - 1 BY <3>2, <3>4 DEF IInv, QueuesInOrder
    <3>6. AllAborts(up[op.from]) BY <1>1 DEF FramesFit
    <3>7. op.from = sock BY <3>1, <3>3, <3>5, <3>6 DEF AllAborts
    <3>8. page.phase = "finishing" BY <1>5, <3>7 DEF Joined
    <3>9. up[sock] = <<>> BY <1>1, <3>7, <3>8 DEF WindowKept, OneAt, ServedFor
    <3>10. PICK e : e = <<>> OBVIOUS
    <3>11. DOMAIN e = {} BY <3>10
    <3> QED BY <3>8, <3>9, <3>10, <3>11 DEF Holds
  <2>3. GoesOn'
    <3> SUFFICES ASSUME Contested', page.phase \in {"beginning", "sending"} PROVE GoesOn'
      BY <1>1 DEF GoesOn
    <3>1. Contested BY <1>1, <1>5, <1>6 DEF Contested, FinishElsewhere
    <3>2. CASE page.phase = "beginning" BY <1>1, <1>3, <1>8, <3>1, <3>2 DEF GoesOn, Agreed
    <3>3. CASE page.phase = "sending"
      <4>1. (~page.realigning /\ InStep) \/ Lagging BY <3>1, <3>3 DEF GoesOn, Agreed
      <4>2. ~Lagging BY <1>3, <1>8, Sizes DEF Lagging
      <4>3. Matched(down, page.inFlight, Len(down)) /\ Runs(up[sock], Size, page.next)
        BY <1>3, <1>8, <4>1, <4>2 DEF InStep
      <4>4. up[sock] = <<>>
        <5> SUFFICES ASSUME up[sock] # <<>> PROVE FALSE OBVIOUS
        <5>1. PICK q \in Seq(FrameType) : q = up[sock] BY <3>3, WireTypes DEF OnWire
        <5>2. 1 \in DOMAIN q /\ q[1] \in FrameType
          <6>1. q # <<>> BY <5>1
          <6>2. Len(q) \in Nat \ {0} /\ DOMAIN q = 1..Len(q) BY <6>1, TailOf
          <6> QED BY <5>1, <6>2
        <5>3. q[1].kind = "chunk"
          <6>1. PICK n, w : n = Len(down) /\ w = page.inFlight OBVIOUS
          <6>2. q[1] = Chunk(w[n + 1].off, w[n + 1].len)
            BY <1>1, <3>3, <5>1, <5>2, <6>1 DEF WindowKept, InWindow
          <6> QED BY <6>2 DEF Chunk
        <5>4. q[1].len > 0 /\ EndOf(q[1]) <= Size
          <6>1. ChunksFit(q) BY <3>3, <5>1, WireTypes DEF FramesFit, OnWire
          <6> QED BY <5>2, <5>3, <6>1 DEF ChunksFit
        <5>5. q[1].off = Size BY <4>3, <5>1 DEF Runs
        <5>6. q[1].len \in Nat /\ EndOf(q[1]) = q[1].off + q[1].len
          BY <5>2, Sizes DEF FrameType, EndOf
        <5> QED BY <5>4, <5>5, <5>6, Sizes
      <4>5. page.next = Size BY <4>3, <4>4, RunsEmpty
      <4>6. InStep' BY <1>1, <1>8, <4>3, <4>4, <4>5 DEF InStep
      <4> QED BY <1>1, <3>3, <4>1, <4>2, <4>6 DEF GoesOn
    <3> QED BY <3>2, <3>3
  <2> QED BY <1>2, <1>4, <2>1, <2>2, <2>3, ServerAgrees
<1> QED BY <1>1, <1>7, <1>8

\* A page that cancelled claims nothing any more.
LEMMA AbortAgrees ==
    ASSUME IInv, Agreed, Grows, (\E s \in Socket : AbortStart(s)) \/ AbortEnds
    PROVE  Agreed'
<1>1. /\ page.phase = "aborted" /\ page' = page /\ down' = down /\ days' = days
      /\ days = 0 => StagedInOrder'
  <2>1. ASSUME NEW s \in Socket, AbortStart(s)
        PROVE  /\ page.phase = "aborted" /\ page' = page /\ down' = down /\ days' = days
               /\ StagedInOrder'
    <3>1. /\ Takes(s, "abort") /\ page.phase = "aborted" /\ down' = down
          /\ side' = side /\ partial' \in {partial, NoFile}
          /\ op'.kind = "none" \/ (op'.kind = "abort" /\ partial' = NoFile)
          /\ ~side.exists => partial' = NoFile
      BY <2>1, AbortShape, OpTypes
    <3> QED BY <3>1 DEF Takes, StagedInOrder
  <2>2. CASE AbortEnds
    <3>1. /\ page.phase = "aborted" /\ page' = page /\ down' = down /\ days' = days
          /\ partial' = partial /\ op'.kind = "none" /\ op.kind = "abort"
      BY <2>2, OpTypes DEF AbortEnds, IInv, QueuesInOrder, netVars, countVars
    <3> QED BY <3>1 DEF Agreed, StagedInOrder
  <2> QED BY <2>1, <2>2
<1>2. StagedInOrder' BY <1>1 DEF StagedInOrder
<1>3. ClaimsStand' /\ (days' = 0 => NeverConfused') /\ ~Joined' /\ ~SaysFull' /\ GoesOn'
  BY <1>1 DEF ClaimsStand, Agreed, NeverConfused, Joined, SaysFull, GoesOn, Settled, Grows
<1> QED BY <1>2, <1>3 DEF Agreed, JoinedIsKnown, FullWhenSaid

--------------------
(* Together. *)

\* Only a short write counts anything, and never less than was counted.
LEMMA MissedGrows ==
    ASSUME IInv, missed \in 0..MaxChunk, [Next]_vars PROVE missed' \in 0..MaxChunk /\ Grows
<1>1. CASE missed' = missed BY <1>1, Sizes DEF Grows
<1>2. ASSUME NEW s \in Socket, WriteChunk(s) PROVE missed' \in 0..MaxChunk /\ Grows
  <2> DEFINE c == Head(up[s])
  <2>1. c.len \in 0..MaxChunk BY <1>2, TakesQueue DEF WriteChunk, IInv, Kinds, FrameType
  <2>2. missed' = missed \/ \E n \in Short(c) : missed' = Longest(missed, c.len - n)
    BY <1>2 DEF WriteChunk
  <2> HIDE DEF c
  <2> QED BY <1>1, <2>1, <2>2, Sizes DEF Short, Longest, Grows
<1>3. CASE PageStep \/ GcStep \/ Fault \/ UNCHANGED vars
  <2>1. missed' = missed
    BY <1>3 DEF PageStep, Connect, LoseSocket, Fail, GiveUp, ReadDone, Receive, Cancel, GcStep, DayPasses,
       GcScan, GcCheck, GcRemove, Fault, Crash, SocketDies, vars, countVars, diskVars
  <2> QED BY <1>1, <2>1
<1>4. CASE StagingStep
  <2>1. missed' = missed \/ \E s \in Socket : WriteChunk(s)
    BY <1>4 DEF StagingStep, BeginKnown, BeginNew, BeginNewEnds, FinishStart, Rename, CopyStarts, CopyEnds,
       Unlink, MoveFindsNothing, OperationFails, FinishEnds, AbortStart, AbortEnds, InFinish, countVars
  <2> QED BY <1>1, <1>2, <2>1
<1> QED BY <1>3, <1>4 DEF Next

LEMMA AgreementKept == ASSUME AInv, [Next]_vars PROVE AInv'
<1>1. IInv /\ FramesFit /\ WindowKept /\ Agreed BY DEF AInv, Agreed
<1>2. IInv' /\ missed' \in 0..MaxChunk /\ Grows BY <1>1, NextKeeps, MissedGrows DEF AInv
<1>3. FramesFit' /\ WindowKept' BY <1>1, <1>2, NetKeeps DEF Grows
<1>4. Agreed'
  <2>1. CASE PageStep BY <1>1, <2>1, PageAgrees
  <2>2. CASE StagingStep
    <3>1. ASSUME NEW s \in Socket,
                 BeginKnown(s) \/ BeginNew(s) \/ WriteChunk(s) \/ FinishStart(s)
          PROVE  Agreed'
      BY <1>1, <1>2, <3>1, BeginAgrees, WriteAgrees, FinishAgrees
    <3>2. CASE (\E s \in Socket : AbortStart(s)) \/ AbortEnds BY <1>1, <1>2, <3>2, AbortAgrees
    <3>3. CASE BeginNewEnds \/ OperationFails \/ MoveFindsNothing \/ FinishEnds
      BY <1>1, <1>2, <3>3, EndsAgrees
    <3>4. CASE Rename \/ CopyStarts \/ CopyEnds \/ Unlink BY <1>1, <1>2, <3>4, MovesAgrees
    <3> QED BY <2>2, <3>1, <3>2, <3>3, <3>4 DEF StagingStep
  <2>3. CASE GcStep \/ UNCHANGED vars BY <1>1, <2>3, DaysAgree
  <2>4. CASE Fault BY <1>1, <2>4, FaultAgrees
  <2> QED BY <2>1, <2>2, <2>3, <2>4 DEF Next
<1> QED BY <1>2, <1>3, <1>4 DEF AInv, Agreed

LEMMA AgreementBegins == ASSUME Init PROVE AInv
<1>1. /\ page.phase = "waiting" /\ page.acked = 0 /\ page.inFlight = <<>> /\ ~page.realigning
      /\ sock = 0 /\ alive = {} /\ op = NoOp /\ partial = NoFile /\ side = NoSide
      /\ \A s \in Socket : up[s] = <<>>
  BY DEF Init
<1>2. PICK e : e = <<>> OBVIOUS
<1>3. down = e /\ DOMAIN e = {} BY <1>2 DEF Init
<1>4. IInv BY InitKeeps
<1>5. op.kind = "none" /\ ~side.exists BY <1>1, OpTypes DEF NoOp, NoSide
<1>6. FramesFit
  <2>1. ChunksFit(e) /\ FinishAlone(e) BY <1>3 DEF ChunksFit, FinishAlone
  <2>2. ASSUME NEW s \in Socket PROVE up[s] = e BY <1>1, <1>2
  <2>3. \A s \in Socket : up[s] = <<>> /\ ChunksFit(up[s]) /\ FinishAlone(up[s]) BY <1>2, <2>1, <2>2
  <2>4. op.kind \notin Finishing BY <1>5 DEF Finishing, Moving
  <2> QED BY <2>3, <2>4 DEF FramesFit
<1>7. WindowKept BY <1>1 DEF WindowKept
<1>8. StagedInOrder BY <1>1, <1>5 DEF StagedInOrder
<1>9. ClaimsStand /\ (days = 0 => NeverConfused)
  BY <1>1, <1>3 DEF ClaimsStand, Stands, Staging, NeverConfused, Init
<1>10. JoinedIsKnown /\ FullWhenSaid /\ GoesOn
  BY <1>1, <1>3 DEF JoinedIsKnown, Joined, FullWhenSaid, SaysFull, GoesOn, ToldAll
<1>11. missed \in 0..MaxChunk BY Sizes DEF Init
<1> QED BY <1>4, <1>6, <1>7, <1>8, <1>9, <1>10, <1>11 DEF AInv

\* Every variable of an upload has its type, whatever the sockets, the collector and
\* the faults do (client.ts pumpUpload and handleUploadOffset, upload-staging.ts).
THEOREM TypesHold == Spec => []TypeOK
<1> DEFINE Counts == missed \in 0..MaxChunk
<1>1. Init => Counts BY Sizes DEF Init
<1>2. IInv /\ Counts /\ [Next]_vars => Counts' BY MissedGrows
<1>3. IInv /\ Counts => TypeOK BY DEF IInv, TypeOK
<1> QED BY <1>1, <1>2, <1>3, InvariantHolds, PTL DEF Spec

\* What the page and the staging know of each other, with the frames and the answers
\* on their way between them, is kept by every step of both, of the collector and of
\* the faults (client.ts pumpUpload and handleUploadOffset, upload-staging.ts).
THEOREM AgreementInvariance == Spec => []AInv
BY AgreementBegins, AgreementKept, PTL DEF Spec

\* The page never counts as acknowledged a byte the staging does not have, and a page
\* that follows the protocol is never told that it asked for something no conforming
\* page asks for, through lost sockets, refused chunks and answers it discards
\* (client.ts handleUploadOffset, upload-staging.ts begin, writeChunk and finish).
THEOREM AgreementHolds == Spec => []PageAndStagingAgree
<1>1. AInv => PageAndStagingAgree
  BY DEF AInv, ClaimsStand, Stands, PageAndStagingAgree, AckedIsStaged, OnWire, Settled
<1> QED BY <1>1, AgreementInvariance, PTL

========================================
