--------------------------- MODULE TelegramReplies ---------------------------
(***************************************************************************)
(* The reply half of the Telegram channel (telegram-replies.ts).           *)
(*                                                                         *)
(* What the assistant writes is shown as a draft while it grows and sent   *)
(* as a message when it ends; where the Bot API refuses drafts, a message  *)
(* is sent early and edited.  Every call to the Bot API goes through one   *)
(* chain, so calls never overlap, but the assistant goes on writing while  *)
(* a call is answered, and any call may fail, also after it took effect.   *)
(*                                                                         *)
(* A text is the interval of the pieces it consists of; Limit pieces fit   *)
(* in a message of Telegram.  The assistant's messages are numbered; one   *)
(* session file, so one stream is open at a time.  Whether there is a chat *)
(* to write to is TelegramChannel's to say: the actions here take it as    *)
(* an argument.                                                            *)
(***************************************************************************)
EXTENDS Naturals, Sequences, FiniteSets

CONSTANTS
    MaxMessages,   \* bound: messages the assistant writes
    MaxText,       \* bound: pieces of one message
    Limit,         \* TELEGRAM_TEXT_LIMIT, in pieces
    MaxErrors      \* bound: calls that fail

ASSUME RepliesAssumption ==
    /\ MaxMessages \in Nat /\ MaxErrors \in Nat
    /\ MaxText \in Nat \ {0} /\ Limit \in Nat \ {0}

Messages == 1..MaxMessages
Text == SUBSET (1..MaxText)

VARIABLES
    speech,     \* the message the assistant writes or wrote last, and how much of it
    streams,    \* what the channel holds of each message: a Stream
    listed,     \* the message whose stream is in the map, 0 if none
    support,    \* draftSupport
    chain,      \* operations waiting for their turn, the head may be running
    doing,      \* how far the head has got: the call under way and what comes after it
    chat,       \* the chat with the paired user, oldest first
    draft,      \* the draft shown below it
    errors,     \* calls that failed
    \* history, for the properties
    said,       \* what of each finished message is meant to be read: all, unless aborted
    seen,       \* what of each message was shown in a draft
    cut         \* the messages some of which is known to be lost or doubled

sayVars == <<speech, streams, listed, support, chain, doing, chat, draft, errors, said, seen, cut>>

NoStream == [mode |-> "none", drafted |-> FALSE, posted |-> FALSE, pending |-> 0,
             last |-> {}, flushed |-> FALSE, timer |-> FALSE, delivered |-> 0]
NewStream == [NoStream EXCEPT !.mode = IF support = "unsupported" THEN "message" ELSE "draft"]
NoDraft == [msg |-> 0, text |-> {}]
Idle == [at |-> "idle", text |-> {}, todo |-> <<>>]

Ops == [kind : {"flush", "close", "finish", "line", "file"}, msg : 0..MaxMessages,
        full : 0..MaxText, why : {"none", "done", "error", "aborted"}]
Items == [kind : {"edit", "text", "mark", "error", "line", "file", "note"},
          msg : 0..MaxMessages, text : Text]

SayInit ==
    /\ speech = [msg |-> 0, open |-> FALSE, len |-> 0]
    /\ streams = [m \in Messages |-> NoStream]
    /\ listed = 0
    /\ support = "unknown"
    /\ chain = <<>> /\ doing = Idle
    /\ chat = <<>> /\ draft = NoDraft
    /\ errors = 0
    /\ said = [m \in Messages |-> {}]
    /\ seen = [m \in Messages |-> {}]
    /\ cut = {}

Op(kind, m) == [kind |-> kind, msg |-> m, full |-> 0, why |-> "none"]
Item(kind, m, text) == [kind |-> kind, msg |-> m, text |-> text]

\* afterDelivered: what of the first n pieces no boundary has sent yet.
AfterDelivered(s, n) == (s.delivered + 1)..n
\* truncate: the beginning that fits in a message.
Truncate(s, n) == {k \in AfterDelivered(s, n) : k <= s.delivered + Limit}
\* splitTelegramText: the texts of the messages a text is sent in.
SplitText(first, n) ==
    [i \in 1..((n + Limit - first) \div Limit) |->
        {k \in first..n : (k - first) \div Limit = i - 1}]
Parts(kind, m, first, n) ==
    LET texts == SplitText(first, n) IN [i \in DOMAIN texts |-> Item(kind, m, texts[i])]

-----------------------------------------------------------------------------
(* handle: what the assistant does, in the order the pool tells it.        *)

\* message_update: the first preview of a message at once, later ones after
\* throttleMs.
Previewed(s, m) ==
    IF s.timer THEN streams' = [streams EXCEPT ![m] = s] /\ UNCHANGED chain
    ELSE IF s.flushed THEN streams' = [streams EXCEPT ![m] = [s EXCEPT !.timer = TRUE]] /\ UNCHANGED chain
    ELSE /\ streams' = [streams EXCEPT ![m] = [s EXCEPT !.flushed = TRUE]]
         /\ chain' = Append(chain, Op("flush", m))

Writes(m, n) ==
    LET s == IF listed = m THEN streams[m] ELSE NewStream IN
    /\ speech' = [msg |-> m, open |-> TRUE, len |-> n]
    /\ listed' = m
    /\ Previewed([s EXCEPT !.pending = n], m)
    /\ UNCHANGED <<support, doing, chat, draft, errors, said, seen, cut>>

MessageUpdate ==
    \/ ~speech.open /\ speech.msg < MaxMessages /\ Writes(speech.msg + 1, 1)
    \/ speech.open /\ speech.len < MaxText /\ Writes(speech.msg, speech.len + 1)

\* message_end: its text may hold more than the last update did; a message
\* without updates has no stream.  The cut of what was sent is left to the chain.
Ends(m, n, why) ==
    /\ speech' = [msg |-> m, open |-> FALSE, len |-> n]
    /\ streams' = IF listed = m THEN [streams EXCEPT ![m].timer = FALSE] ELSE streams
    /\ listed' = 0
    /\ chain' = Append(chain, [kind |-> "finish", msg |-> m, full |-> n, why |-> why])
    /\ said' = [said EXCEPT ![m] = IF why = "aborted" THEN {} ELSE 1..n]
    /\ UNCHANGED <<support, doing, chat, draft, errors, seen, cut>>

MessageEnd(why) ==
    \/ ~speech.open /\ speech.msg < MaxMessages /\ Ends(speech.msg + 1, 1, why)
    \/ /\ speech.open
       /\ \E n \in {speech.len, speech.len + 1} : n <= MaxText /\ Ends(speech.msg, n, why)

\* closeOpenDraft, on a tool's start or the end of a turn.
ClosesDraft == listed # 0 /\ streams[listed].mode = "draft"
CloseOpenDraft(then) ==
    IF ClosesDraft
    THEN /\ streams' = [streams EXCEPT ![listed].timer = FALSE]
         /\ chain' = Append(chain, Op("close", listed)) \o then
    ELSE streams' = streams /\ chain' = chain \o then

\* tool_execution_start: with a line for the tool where they are asked for.
ToolStarts ==
    /\ CloseOpenDraft(<<Op("line", speech.msg)>>)
    /\ UNCHANGED <<speech, listed, support, doing, chat, draft, errors, said, seen, cut>>

TurnEnds ==
    /\ CloseOpenDraft(<<>>)
    /\ chain' # chain
    /\ UNCHANGED <<speech, listed, support, doing, chat, draft, errors, said, seen, cut>>

\* A successful attach_file.
FileAttached ==
    /\ chain' = Append(chain, Op("file", speech.msg))
    /\ UNCHANGED <<speech, streams, listed, support, doing, chat, draft, errors, said, seen, cut>>

ThrottleEnds(m) ==
    /\ streams[m].timer
    /\ streams' = [streams EXCEPT ![m].timer = FALSE]
    /\ chain' = Append(chain, Op("flush", m))
    /\ UNCHANGED <<speech, listed, support, doing, chat, draft, errors, said, seen, cut>>

-----------------------------------------------------------------------------
(* The chain: an operation runs up to its call, ...                        *)

Over == chain' = Tail(chain) /\ doing' = Idle
Calls(at, text, todo) == doing' = [at |-> at, text |-> text, todo |-> todo] /\ UNCHANGED chain
Loses(m) == cut' = cut \cup {m}

\* What closing a draft leaves: the text that is pending by now counts as sent.
\* (ClosedUnsaid, a mutant, forgets to say so.)
ClosedUnsaid(s) == [s EXCEPT !.drafted = FALSE, !.last = {}, !.flushed = FALSE]
Closed(s) == [s EXCEPT !.delivered = s.pending, !.drafted = FALSE, !.last = {}, !.flushed = FALSE]

StartFlush(m) ==
    LET s == streams[m]
        text == Truncate(s, s.pending) IN
    \/ (text = {} \/ text = s.last) /\ Over /\ UNCHANGED streams
    \/ /\ text \notin {{}, s.last}
       /\ IF s.mode = "draft" /\ support # "unsupported"
          THEN streams' = [streams EXCEPT ![m].drafted = TRUE] /\ Calls("draft", text, <<>>)
          ELSE /\ streams' = [streams EXCEPT ![m].mode = "message"]
               /\ Calls(IF s.posted THEN "edit" ELSE "preview", text, <<>>)

StartClose(m) ==
    LET s == streams[m]
        parts == Parts("text", m, s.delivered + 1, s.pending) IN
    IF ~s.drafted \/ s.last = {} THEN Over /\ UNCHANGED streams
    ELSE IF parts = <<>> THEN Over /\ streams' = [streams EXCEPT ![m] = Closed(s)]
    ELSE Calls("close", {}, parts) /\ UNCHANGED streams

\* finish: an aborted message keeps what the user saw, any other is sent whole,
\* the fallback preview becoming its first part.
Marked(s, o) == IF s.mode = "draft" /\ s.drafted /\ s.last # {}
                THEN Parts("mark", o.msg, s.delivered + 1, o.full) ELSE <<>>
Final(s, o) ==
    LET parts == Parts("text", o.msg, s.delivered + 1, o.full) IN
    IF parts = <<>> \/ s.mode # "message" \/ ~s.posted THEN parts
    ELSE IF parts[1].text = s.last THEN Tail(parts)
    ELSE <<Item("edit", o.msg, parts[1].text)>> \o Tail(parts)
StartFinish(o) ==
    LET s == streams[o.msg]
        todo == IF o.why = "aborted" THEN Marked(s, o)
                ELSE Final(s, o) \o IF o.why = "error" THEN <<Item("error", o.msg, {})>> ELSE <<>> IN
    /\ IF todo = <<>> THEN Over ELSE Calls("send", {}, todo)
    /\ UNCHANGED streams

\* sendAttachment: a missing or large file is a note, a photo is a document when
\* Telegram refuses it as a photo, and a note when it refuses that.
StartFile(m) ==
    /\ \/ Calls("send", {}, <<Item("note", m, {})>>)
       \/ Calls("photo", {}, <<Item("file", m, {})>>)
       \/ Calls("document", {}, <<Item("file", m, {})>>)
    /\ UNCHANGED streams

Starts(reachable) ==
    /\ doing.at = "idle" /\ chain # <<>>
    /\ LET o == Head(chain) IN
       IF ~reachable THEN /\ Over
                          /\ IF o.kind = "finish" THEN Loses(o.msg) ELSE UNCHANGED cut
                          /\ UNCHANGED streams
       ELSE /\ CASE o.kind = "flush" -> StartFlush(o.msg)
                 [] o.kind = "close" -> StartClose(o.msg)
                 [] o.kind = "finish" -> StartFinish(o)
                 [] o.kind = "line" -> Calls("send", {}, <<Item("line", o.msg, {})>>) /\ UNCHANGED streams
                 [] o.kind = "file" -> StartFile(o.msg)
            /\ UNCHANGED cut
    /\ UNCHANGED <<speech, listed, support, chat, draft, errors, said, seen>>

-----------------------------------------------------------------------------
(* ... and goes on when it is answered.  The Bot API (external) shows one  *)
(* draft, which a message of the bot replaces.                             *)

HeadMsg == Head(chain).msg
Posted(item) == chat' = Append(chat, item) /\ draft' = NoDraft
Edited(m, text) ==
    /\ chat' = [i \in DOMAIN chat |->
                  IF chat[i].msg = m /\ chat[i].kind = "preview" THEN [chat[i] EXCEPT !.text = text] ELSE chat[i]]
    /\ UNCHANGED draft
Drafted ==
    /\ draft' = [msg |-> HeadMsg, text |-> doing.text]
    /\ seen' = [seen EXCEPT ![HeadMsg] = @ \cup doing.text]
    /\ UNCHANGED chat

\* The call's effect on the chat.
TakesEffect ==
    CASE doing.at = "draft" -> Drafted
      [] doing.at = "preview" -> Posted(Item("preview", HeadMsg, doing.text)) /\ UNCHANGED seen
      [] doing.at = "edit" -> Edited(HeadMsg, doing.text) /\ UNCHANGED seen
      [] OTHER -> /\ IF Head(doing.todo).kind = "edit"
                     THEN Edited(HeadMsg, Head(doing.todo).text) ELSE Posted(Head(doing.todo))
                  /\ UNCHANGED seen

\* flush, after its call.
Flushed(s) == [s EXCEPT !.last = doing.text, !.posted = s.posted \/ doing.at = "preview"]
Answered ==
    /\ doing.at # "idle"
    /\ TakesEffect
    /\ support' = IF doing.at = "draft" THEN "supported" ELSE support
    /\ CASE doing.at \in {"draft", "preview", "edit"} ->
                /\ Over
                /\ streams' = [streams EXCEPT ![HeadMsg] = Flushed(@)]
                /\ UNCHANGED cut
         [] doing.at \notin {"draft", "preview", "edit"} /\ Len(doing.todo) > 1 ->
                /\ doing' = [doing EXCEPT !.todo = Tail(@)]
                /\ UNCHANGED <<chain, streams, cut>>
         [] doing.at = "close" /\ Len(doing.todo) = 1 ->
                /\ Over
                /\ streams' = [streams EXCEPT ![HeadMsg] = Closed(@)]
                /\ IF streams[HeadMsg].pending \in Head(doing.todo).text THEN UNCHANGED cut ELSE Loses(HeadMsg)
         [] doing.at \in {"send", "photo", "document"} /\ Len(doing.todo) = 1 ->
                Over /\ UNCHANGED <<streams, cut>>
    /\ UNCHANGED <<speech, listed, errors, said>>

\* A refused draft falls back to a message, a refused upload to the next way of
\* sending the file; any other failure ends the operation.  It may have taken
\* effect all the same.
Fails ==
    /\ doing.at # "idle" /\ errors < MaxErrors
    /\ errors' = errors + 1
    /\ TakesEffect \/ UNCHANGED <<chat, draft, seen>>
    /\ support' = IF doing.at = "draft" THEN "unsupported" ELSE support
    /\ CASE doing.at = "draft" ->
                /\ Calls(IF streams[HeadMsg].posted THEN "edit" ELSE "preview", doing.text, <<>>)
                /\ streams' = [streams EXCEPT ![HeadMsg].mode = "message", ![HeadMsg].drafted = FALSE]
                /\ UNCHANGED cut
         [] doing.at = "photo" -> Calls("document", {}, doing.todo) /\ UNCHANGED <<streams, cut>>
         [] doing.at = "document" ->
                Calls("send", {}, <<Item("note", HeadMsg, {})>>) /\ UNCHANGED <<streams, cut>>
         [] doing.at = "edit" -> Over /\ UNCHANGED <<streams, cut>>
         [] doing.at = "preview" ->
                /\ Over /\ UNCHANGED streams
                /\ IF chat' = chat /\ seen[HeadMsg] \subseteq 1..streams[HeadMsg].delivered
                   THEN UNCHANGED cut ELSE Loses(HeadMsg)
         [] doing.at \in {"close", "send"} -> Over /\ UNCHANGED streams /\ Loses(HeadMsg)
    /\ UNCHANGED <<speech, listed, said>>

\* stop: no stream keeps its preview; what is in the chain finds no chat.
StopReplies ==
    /\ streams' = [m \in Messages |-> [streams[m] EXCEPT !.timer = FALSE]]
    /\ listed' = 0
    /\ speech' = [speech EXCEPT !.open = FALSE]
    /\ cut' = cut \cup IF speech.open THEN {speech.msg} ELSE {}
    /\ UNCHANGED <<support, chain, doing, chat, draft, errors, said, seen>>

\* The process ends and another begins: the chat stays.
ForgetReplies ==
    /\ speech' = [speech EXCEPT !.open = FALSE]
    /\ streams' = [m \in Messages |-> NoStream]
    /\ listed' = 0
    /\ support' = "unknown"
    /\ chain' = <<>> /\ doing' = Idle
    /\ cut' = cut \cup {chain[i].msg : i \in DOMAIN chain} \cup {speech.msg}
    /\ UNCHANGED <<chat, draft, errors, said, seen>>

-----------------------------------------------------------------------------
(* Properties                                                              *)

Streams == [mode : {"none", "draft", "message"}, drafted : BOOLEAN, posted : BOOLEAN,
            pending : 0..MaxText, last : Text, flushed : BOOLEAN, timer : BOOLEAN,
            delivered : 0..MaxText]
Previews == [kind : {"preview"}, msg : Messages, text : Text]

\* What the head of the chain may be doing: a call of its kind, and while it sends
\* messages, what is left of them.
HeadIsDoing ==
    /\ doing.at # "idle" => chain # <<>>
    /\ doing.at \in {"draft", "preview", "edit"} => Head(chain).kind = "flush"
    /\ doing.at = "close" => Head(chain).kind = "close"
    /\ doing.at \in {"close", "send", "photo", "document"} => doing.todo # <<>>

SayTypes ==
    /\ speech \in [msg : 0..MaxMessages, open : BOOLEAN, len : 0..MaxText]
    /\ speech.open => speech.msg # 0
    /\ streams \in [Messages -> Streams]
    /\ listed \in 0..MaxMessages
    /\ support \in {"unknown", "supported", "unsupported"}
    /\ chain \in Seq(Ops)
    /\ \A i \in DOMAIN chain : chain[i].kind \in {"flush", "close", "finish"} => chain[i].msg # 0
    /\ doing \in [at : {"idle", "draft", "preview", "edit", "close", "send", "photo", "document"},
                  text : Text, todo : Seq(Items)]
    /\ HeadIsDoing
    /\ chat \in Seq(Items \cup Previews)
    /\ draft \in [msg : 0..MaxMessages, text : Text]
    /\ errors \in 0..MaxErrors
    /\ said \in [Messages -> Text] /\ seen \in [Messages -> Text]
    /\ cut \subseteq 0..MaxMessages

Entries(m) == {i \in DOMAIN chat : chat[i].msg = m}
InChat(m) == UNION {chat[i].text : i \in Entries(m)}
Finished(m) ==
    /\ speech.msg > m \/ (speech.msg = m /\ ~speech.open)
    /\ \A i \in DOMAIN chain : chain[i].msg = m => chain[i].kind \in {"line", "file"}

\* What a message says is in the chat once, in order, and so is all that was
\* shown of a message that was aborted.
SaidOnce(m) ==
    /\ said[m] \cup seen[m] \subseteq InChat(m)
    /\ \A i, j \in Entries(m) : i < j =>
          \A a \in chat[i].text, b \in chat[j].text : a < b

\* "A visible draft is always ended by a real message."
DraftIsEnded(m) == draft.msg # m

\* "The messages arrive in the order the events did."
ChatInOrder == \A i, j \in DOMAIN chat : i < j => chat[i].msg <= chat[j].msg

\* So it is, whatever interleaving of updates, throttles, boundaries and calls,
\* and with drafts refused at any moment, unless a call that sends the text
\* fails, the channel stops under it, or text grows while its draft is closed.
SaidOnceUnlessCut ==
    /\ ChatInOrder
    /\ \A m \in Messages \ cut : Finished(m) => SaidOnce(m) /\ DraftIsEnded(m)

-----------------------------------------------------------------------------
(* The inductive invariant behind SaidOnceUnlessCut.                       *)

\* A message that is being written, or whose finish is to come.
Writing(m) == speech.open /\ speech.msg = m
FinishOf(m) == {i \in DOMAIN chain : chain[i].kind = "finish" /\ chain[i].msg = m}
Working(m) == Writing(m) \/ FinishOf(m) # {}
OfStream == {"flush", "close", "finish"}
OpsOf(m) == {i \in DOMAIN chain : chain[i].kind \in OfStream /\ chain[i].msg = m}

\* The chain and the chat follow the speech, and no stream is touched before its turn.
Touched(m) ==
    \/ streams[m].drafted \/ streams[m].posted
    \/ streams[m].last # {} \/ streams[m].delivered # 0 \/ seen[m] # {}
Past(m) == m <= speech.msg /\ \A i \in DOMAIN chain : m <= chain[i].msg
InTurn ==
    /\ \A i \in DOMAIN chain : chain[i].msg <= speech.msg
    /\ \A i, j \in DOMAIN chain : i < j => chain[i].msg <= chain[j].msg
    /\ ChatInOrder /\ (\A i \in DOMAIN chat : Past(chat[i].msg)) /\ Past(draft.msg)
    /\ \A m \in Messages : Touched(m) => Past(m)

\* A finish is the last of its message, and brings all that was written.
FinishLast ==
    \A m \in Messages : \A i \in FinishOf(m) :
        /\ ~Writing(m) /\ (\A j \in OpsOf(m) : j <= i)
        /\ streams[m].pending <= chain[i].full
        /\ said[m] = IF chain[i].why = "aborted" THEN {} ELSE 1..chain[i].full

\* What the head does is of its kind and message.
TodoOfHead ==
    doing.at # "idle" =>
      /\ \A k \in DOMAIN doing.todo : doing.todo[k].msg = HeadMsg
      /\ CASE Head(chain).kind = "flush" ->
                /\ doing.at \in {"draft", "preview", "edit"}
                /\ doing.at = "preview" => streams[HeadMsg].mode = "message"
           [] Head(chain).kind = "close" ->
                doing.at = "close" /\ \A k \in DOMAIN doing.todo : doing.todo[k].kind = "text"
           [] Head(chain).kind = "finish" ->
                doing.at = "send" /\ \A k \in DOMAIN doing.todo : k # 1 => doing.todo[k].kind # "edit"
           [] OTHER ->
                /\ doing.at \in {"send", "photo", "document"}
                /\ \A k \in DOMAIN doing.todo :
                     doing.todo[k].text = {} /\ doing.todo[k].kind \in {"line", "file", "note"}

StreamFits(m) ==
    LET s == streams[m] IN
    /\ s.drafted => s.mode = "draft" /\ (support = "unsupported" => ~Writing(m) /\ OpsOf(m) = {})
    /\ s.posted => s.mode = "message"
    /\ s.delivered <= s.pending
    /\ s.timer => Writing(m)
    /\ Writing(m) => s.pending <= speech.len
    /\ m > speech.msg => s = NoStream
ListedIsWritten == listed = IF speech.open THEN speech.msg ELSE 0

\* What is in the chat of a message, and what is to follow it.
Before(A, B) == \A a \in A, b \in B : a < b
ReadsOn(c, m, items) ==
    /\ \A i, j \in DOMAIN c : i < j /\ c[i].msg = m /\ c[j].msg = m => Before(c[i].text, c[j].text)
    /\ \A i \in DOMAIN c, k \in DOMAIN items : c[i].msg = m => Before(c[i].text, items[k].text)
    /\ \A k, l \in DOMAIN items : k < l => Before(items[k].text, items[l].text)
Covered(c, m, items, a) ==
    \/ \E i \in DOMAIN c : c[i].msg = m /\ a \in c[i].text
    \/ \E k \in DOMAIN items : a \in items[k].text
WithPreview(m, text) ==
    [i \in DOMAIN chat |->
        IF chat[i].msg = m /\ chat[i].kind = "preview" THEN [chat[i] EXCEPT !.text = text] ELSE chat[i]]

\* Between two operations the messages say what was delivered, and the preview, if
\* there is one, the beginning of what follows.
Beginning(m) == Truncate(streams[m], streams[m].pending)
Flushing(m) == doing.at \in {"draft", "preview", "edit"} /\ HeadMsg = m
DeliveredIsSaid(m) ==
    /\ \A i \in Entries(m) : chat[i].kind # "preview" => chat[i].text \subseteq 1..streams[m].delivered
    /\ \A a \in 1..streams[m].delivered : \E i \in Entries(m) : chat[i].kind # "preview" /\ a \in chat[i].text
    /\ \A i, j \in Entries(m) : i < j /\ chat[i].kind # "preview" /\ chat[j].kind # "preview" =>
          Before(chat[i].text, chat[j].text)
PreviewFits(m) ==
    /\ streams[m].posted <=> \E i \in Entries(m) : chat[i].kind = "preview"
    /\ \A i \in Entries(m) : chat[i].kind = "preview" =>
          /\ chat[i].text # {} /\ chat[i].text \subseteq Beginning(m) /\ streams[m].last \subseteq chat[i].text
          /\ \A j \in Entries(m) : i < j => chat[j].text = {}
          /\ Flushing(m) => chat[i].text \subseteq doing.text
FlushFits(m) ==
    Flushing(m) =>
      /\ doing.text # {} /\ doing.text \subseteq Beginning(m)
      /\ doing.at = "draft" => streams[m].drafted
      /\ doing.at = "preview" => streams[m].mode = "message" /\ ~streams[m].posted
      /\ doing.at = "edit" => streams[m].posted

\* What was shown of a message is delivered, in the draft or the preview, or about to be.
Drafting(m) == streams[m].mode = "draft" /\ streams[m].drafted /\ streams[m].last # {}
SeenIsKept(m) ==
    \A a \in seen[m] :
      \/ a <= streams[m].delivered
      \/ Flushing(m) /\ a \in doing.text /\ doing.at \in {"draft", "preview"}
           /\ (doing.at = "draft" => Drafting(m))
      \/ ~Flushing(m) /\ Drafting(m) /\ a \in Beginning(m)
      \/ \E i \in Entries(m) : chat[i].kind = "preview" /\ a \in chat[i].text
DraftIsKept(m) ==
    draft.msg = m =>
      /\ draft.text # {} /\ draft.text \subseteq seen[m] /\ Before(1..streams[m].delivered, draft.text)
      /\ Drafting(m) \/ (Flushing(m) /\ doing.at = "preview")
Stands(m) ==
    DeliveredIsSaid(m) /\ PreviewFits(m) /\ FlushFits(m) /\ SeenIsKept(m) /\ DraftIsKept(m)

\* While the text is sent, the chat and what is to follow say it.
Sending(m) == doing.at \in {"close", "send"} /\ Head(chain).kind \in OfStream /\ HeadMsg = m
CloseFits(m) ==
    \E n \in 0..streams[m].pending :
      /\ ReadsOn(chat, m, doing.todo)
      /\ \A a \in 1..n : Covered(chat, m, doing.todo, a)
      /\ \A i \in Entries(m) : chat[i].kind # "preview" /\ chat[i].text \subseteq 1..n
      /\ \A k \in DOMAIN doing.todo : doing.todo[k].text \subseteq 1..n
      /\ seen[m] \subseteq 1..n /\ ~streams[m].posted
FinishFits(m) ==
    LET edits == Head(doing.todo).kind = "edit"
        c == IF edits THEN WithPreview(m, Head(doing.todo).text) ELSE chat
        items == IF edits THEN Tail(doing.todo) ELSE doing.todo IN
    /\ ReadsOn(c, m, items)
    /\ \A a \in said[m] \cup seen[m] : Covered(c, m, items, a)
    /\ edits => draft.msg # m

MessageFits(m) ==
    m \notin cut /\ m <= speech.msg =>
      /\ ~Working(m) => SaidOnce(m) /\ DraftIsEnded(m) /\ OpsOf(m) = {}
      /\ Working(m) /\ ~Sending(m) => Stands(m)
      /\ Working(m) /\ Sending(m) =>
           IF Head(chain).kind = "close" THEN CloseFits(m) ELSE FinishFits(m)

\* (Of the whole, what is about the operations, and what is about each message.)
ChainFits ==
    /\ InTurn /\ FinishLast /\ TodoOfHead /\ ListedIsWritten
    /\ \A m \in Messages : StreamFits(m)
SaidInv == SayTypes /\ ChainFits /\ \A m \in Messages : MessageFits(m)
=============================================================================
