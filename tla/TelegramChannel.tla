--------------------------- MODULE TelegramChannel ---------------------------
(***************************************************************************)
(* The Telegram channel (telegram-channel.ts, telegram-pairing.ts): who    *)
(* may speak to the assistant through the bot, and what reaches it.  Its   *)
(* replies are TelegramReplies'.                                           *)
(*                                                                         *)
(* One loop polls the Bot API for updates, handles each and writes the     *)
(* offset of the next to disk.  A message that is not part of an album is  *)
(* waited for until the assistant has it; the parts of an album are only   *)
(* gathered, and given to the assistant a while after the last of them, or *)
(* when another message comes.  All that the assistant gets goes through   *)
(* one chain.  The server may stop, crash and start again; the paired user *)
(* and the offset are what it keeps.                                       *)
(*                                                                         *)
(* Telegram (external) numbers the updates in the order they were sent and *)
(* forgets those below an offset it was asked for.                         *)
(***************************************************************************)
EXTENDS TelegramReplies, Functions

CONSTANTS
    Users, Albums, None,
    FirstOwners,    \* who may be paired already at the start
    MaxSent,        \* bound: updates sent, and re-pairings
    MaxEvents,      \* bound: what the assistant says and does
    MaxStarts,      \* bound: starts of the server
    MaxCodes,       \* bound: pairing codes issued
    MaxDiskErrors   \* bound: writes that fail

ASSUME ChannelAssumption ==
    /\ None \notin Users \cup Albums
    /\ FirstOwners \subseteq Users \cup {None}
    /\ MaxSent \in Nat /\ MaxEvents \in Nat /\ MaxStarts \in Nat \ {0} /\ MaxCodes \in Nat \ {0} /\ MaxDiskErrors \in Nat

Codes == 1..MaxCodes
Ids == 1..MaxSent
\* What an update may be: words for the assistant, a command that the channel
\* answers itself (stop, /new), a part of an album, a pairing.
Update(kind, album, c) == [kind |-> kind, album |-> album, code |-> c]
Kinds == {Update("text", None, 0), Update("command", None, 0)}
         \cup {Update("part", a, 0) : a \in Albums}
         \cup {Update("pair", None, c) : c \in Codes}

VARIABLES
    sent,       \* every update, by its number: who sent it, and what
    confirmed,  \* Telegram has forgotten the updates below
    life,       \* "up", "stopping" (the loop runs out), "off" (the context is gone)
    loop,       \* the poll loop: where it is, the update it is at and the last it got, its offset
    owner,      \* the paired user (effectivePairing)
    code,       \* the one-time code, 0 while there is none
    disk,       \* the pairing and the offset on disk
    group,      \* the album being gathered (groups: a new album flushes the others)
    inbound,    \* the messages for the assistant, each its updates; the head may be under way
    asking,     \* how far the head is: its files are fetched, the assistant asked
    \* counts, for the bounds
    sends, events, issued, starts, diskErrors,
    \* history, for the properties
    forwarded,  \* the updates found to be the paired user's
    taken,      \* what the assistant or a command got, in that order
    answered,   \* the updates whose sender was told that nothing came of them
    passed,     \* the updates passed over, their sender not being the paired user then
    risked      \* the updates that were only in memory when it was given up

countVars == <<sends, events, issued, starts, diskErrors>>
pastVars == <<forwarded, taken, answered, passed, risked>>
pairVars == <<owner, code, disk, issued, diskErrors>>
inVars == <<sent, confirmed, life, loop, owner, code, disk, group, inbound, asking, countVars, pastVars>>
vars == <<sayVars, inVars>>

NoGroup == [album |-> None, ids |-> <<>>]

Init ==
    /\ SayInit
    /\ sent = <<>> /\ confirmed = 1
    /\ life = "up"
    /\ loop = [at |-> "polling", upd |-> 0, last |-> 0, offset |-> 1]
    /\ owner \in FirstOwners
    /\ code = IF owner = None THEN 1 ELSE 0
    /\ disk = [owner |-> owner, offset |-> 1]
    /\ group = NoGroup /\ inbound = <<>> /\ asking = "no"
    /\ sends = 0 /\ events = 0 /\ issued = code /\ starts = 1 /\ diskErrors = 0
    /\ forwarded = {} /\ taken = <<>> /\ answered = {} /\ passed = {} /\ risked = {}

\* The updates that are in memory only.
IdsOf(jobs) == UNION {Range(jobs[k]) : k \in DOMAIN jobs}
Pending == Range(group.ids) \cup IdsOf(inbound)

Arrives == sends < MaxSent /\ sends' = sends + 1 /\ UNCHANGED events
Saves(ok) == IF ok THEN UNCHANGED diskErrors
              ELSE diskErrors < MaxDiskErrors /\ diskErrors' = diskErrors + 1
Unfinished == {chain[i].msg : i \in DOMAIN chain} \cup IF speech.open THEN {speech.msg} ELSE {}

\* Somebody writes to the bot; a code is one that the settings have shown.
Sends(u, what) ==
    /\ Arrives
    /\ what.code <= issued
    /\ sent' = Append(sent, [from |-> u, kind |-> what.kind, album |-> what.album, code |-> what.code])
    /\ UNCHANGED <<sayVars, confirmed, life, loop, pairVars, group, inbound, asking, starts,
                   forwarded, taken, answered, passed, risked>>

-----------------------------------------------------------------------------
(* The poll loop.                                                          *)

\* getUpdates: what is left from the offset on, Telegram forgetting the rest.
Poll ==
    /\ life = "up" /\ loop.at = "polling"
    /\ LET first == IF confirmed > loop.offset THEN confirmed ELSE loop.offset IN
       /\ first <= Len(sent) \/ first # confirmed
       /\ confirmed' = first
       /\ loop' = IF first > Len(sent) THEN loop
                  ELSE [loop EXCEPT !.at = "handling", !.upd = first, !.last = Len(sent)]
    /\ UNCHANGED <<sayVars, sent, life, pairVars, group, inbound, asking, sends, events, starts,
                   forwarded, taken, answered, passed, risked>>

\* The token is rejected: polling ends for good.
TokenRejected ==
    /\ life = "up" /\ loop.at = "polling"
    /\ loop' = [loop EXCEPT !.at = "ended"]
    /\ UNCHANGED <<sayVars, sent, confirmed, life, pairVars, group, inbound, asking, sends, events, starts,
                   forwarded, taken, answered, passed, risked>>

upd == loop.upd  \* the update being handled
Handling == life = "up" /\ loop.at = "handling"
Then(at) == loop' = [loop EXCEPT !.at = at]

\* decideInbound.
IsOwner == owner # None /\ sent[upd].from = owner
Forward == IsOwner /\ sent[upd].kind # "pair"
Pairs == owner = None /\ sent[upd].kind = "pair" /\ code # 0 /\ sent[upd].code = code

\* Ignored, or the paired user's pairing refused with a reply.
HandleOther ==
    /\ Handling /\ ~Forward /\ ~Pairs
    /\ Then(IF IsOwner THEN "replying" ELSE "handled")
    /\ passed' = passed \cup {upd}
    /\ risked' = IF upd \in forwarded THEN risked \cup {upd} ELSE risked
    /\ UNCHANGED <<sayVars, sent, confirmed, life, pairVars, group, inbound, asking, sends, events, starts,
                   forwarded, taken, answered>>

\* The pairing is written, then in force; a write that fails leaves all as it was.
HandlePair ==
    /\ Handling /\ Pairs
    /\ \/ /\ Then("replying")
          /\ disk' = [disk EXCEPT !.owner = sent[upd].from]
          /\ owner' = sent[upd].from /\ code' = 0
          /\ Saves(TRUE)
       \/ Then("handled") /\ Saves(FALSE) /\ UNCHANGED <<disk, owner, code>>
    /\ UNCHANGED <<sayVars, sent, confirmed, life, group, inbound, asking, sends, events, issued, starts,
                   forwarded, taken, answered, passed, risked>>

\* The reply to a pairing is sent, or fails unheard.
PairingAnswered ==
    /\ loop.at = "replying"
    /\ Then("handled")
    /\ UNCHANGED <<sayVars, sent, confirmed, life, pairVars, group, inbound, asking, sends, events, starts,
                   forwarded, taken, answered, passed, risked>>

\* flushGroup and gather.
FlushedGroup == IF group = NoGroup THEN <<>> ELSE <<group.ids>>

\* A part of an album: another album before it goes first.
HandlePart ==
    /\ Handling /\ Forward /\ sent[upd].kind = "part"
    /\ IF group.album = sent[upd].album
       THEN group' = [group EXCEPT !.ids = Append(@, upd)] /\ UNCHANGED inbound
       ELSE group' = [album |-> sent[upd].album, ids |-> <<upd>>] /\ inbound' = inbound \o FlushedGroup
    /\ forwarded' = forwarded \cup {upd}
    /\ Then("handled")
    /\ UNCHANGED <<sayVars, sent, confirmed, life, pairVars, asking, sends, events, starts, taken, answered, passed, risked>>

\* A message that overtakes the albums, and one that is not waited for.
HandleMessageFirst ==
    /\ Handling /\ Forward /\ sent[upd].kind # "part"
    /\ inbound' = inbound \o <<<<upd>>>>
    /\ forwarded' = forwarded \cup {upd}
    /\ Then("waiting")
    /\ UNCHANGED <<sayVars, sent, confirmed, life, pairVars, group, asking, sends, events, starts, taken, answered, passed, risked>>
HandleMessageUnwaited ==
    /\ Handling /\ Forward /\ sent[upd].kind # "part"
    /\ inbound' = inbound \o FlushedGroup \o <<<<upd>>>>
    /\ group' = NoGroup
    /\ forwarded' = forwarded \cup {upd}
    /\ Then("handled")
    /\ UNCHANGED <<sayVars, sent, confirmed, life, pairVars, asking, sends, events, starts, taken, answered, passed, risked>>

\* Any other message: behind every album, and waited for.
HandleMessage ==
    /\ Handling /\ Forward /\ sent[upd].kind # "part"
    /\ inbound' = inbound \o FlushedGroup \o <<<<upd>>>>
    /\ group' = NoGroup
    /\ forwarded' = forwarded \cup {upd}
    /\ Then("waiting")
    /\ UNCHANGED <<sayVars, sent, confirmed, life, pairVars, asking, sends, events, starts, taken, answered, passed, risked>>

\* The offset is advanced and written after each handled update.
WriteOffset ==
    /\ loop.at = "handled"
    /\ loop' = [loop EXCEPT !.at = IF upd = loop.last THEN "polling" ELSE "handling",
                             !.upd = upd + 1, !.offset = upd + 1]
    /\ \/ Saves(TRUE) /\ disk' = [disk EXCEPT !.offset = upd + 1]
       \/ Saves(FALSE) /\ UNCHANGED disk
    /\ UNCHANGED <<sayVars, sent, confirmed, life, owner, code, group, inbound, asking, sends, events, issued, starts,
                   forwarded, taken, answered, passed, risked>>

\* mediaGroupDelayMs after the last part of an album.
GroupTimer ==
    /\ group # NoGroup
    /\ inbound' = inbound \o FlushedGroup
    /\ group' = NoGroup
    /\ UNCHANGED <<sayVars, sent, confirmed, life, loop, pairVars, asking, sends, events, starts,
                   forwarded, taken, answered, passed, risked>>

-----------------------------------------------------------------------------
(* converse: one message, or an album, after the other.                    *)

What == sent[Head(inbound)[1]]
Asks(step) == asking' = step /\ UNCHANGED <<inbound, loop, taken, answered, risked>>
\* The head is done with: the loop goes on if it waited for it.  (DoneStillAsking, a
\* mutant, goes on asking.)
DoneStillAsking ==
    /\ inbound' = Tail(inbound) /\ asking' = asking
    /\ loop' = IF loop.at = "waiting" /\ upd \in Range(Head(inbound))
               THEN [loop EXCEPT !.at = "handled"] ELSE loop
Done ==
    /\ inbound' = Tail(inbound) /\ asking' = "no"
    /\ loop' = IF loop.at = "waiting" /\ upd \in Range(Head(inbound))
               THEN [loop EXCEPT !.at = "handled"] ELSE loop
Takes == taken' = taken \o Head(inbound) /\ UNCHANGED <<answered, risked>>
Answers == answered' = answered \cup Range(Head(inbound)) /\ UNCHANGED <<taken, risked>>
Drops == risked' = risked \cup Range(Head(inbound)) /\ UNCHANGED <<taken, answered>>

\* The dispatcher takes nothing for a channel once it stops, and answers
\* commands with an error; nothing is done without a context.
ConverseStarts ==
    /\ inbound # <<>> /\ asking = "no"
    /\ \/ life = "off" /\ Done /\ Drops
       \/ life # "off" /\ What.kind = "part" /\ Asks("files")
       \/ life = "up" /\ What.kind = "text" /\ Asks("assistant")
       \/ life = "up" /\ What.kind = "command" /\ Asks("command")
       \/ life = "stopping" /\ What.kind = "text" /\ Done /\ Drops
       \/ life = "stopping" /\ What.kind = "command" /\ Done /\ Answers
    /\ UNCHANGED <<sayVars, sent, confirmed, life, pairVars, group, sends, events, starts, forwarded, passed>>

\* The files are there, or a note says why not; a channel that has stopped by
\* then is refused.
FilesFetched ==
    /\ asking = "files"
    /\ \/ life = "up" /\ Asks("assistant")
       \/ life # "up" /\ Done /\ Drops
       \/ Done /\ Answers
    /\ UNCHANGED <<sayVars, sent, confirmed, life, pairVars, group, sends, events, starts, forwarded, passed>>

\* Dispatched to the assistant's session, or a reply says why not.
Dispatched ==
    /\ asking \in {"assistant", "command"}
    /\ Done
    /\ Takes \/ Answers
    /\ UNCHANGED <<sayVars, sent, confirmed, life, pairVars, group, sends, events, starts, forwarded, passed>>

-----------------------------------------------------------------------------
(* Re-pairing, the end of the server and its next start.                   *)

\* repair: the stored pairing is forgotten, a new code issued.
Repair ==
    /\ life = "up" /\ issued < MaxCodes
    /\ Arrives
    /\ owner' = None
    /\ issued' = issued + 1 /\ code' = issued + 1
    /\ \/ Saves(TRUE) /\ disk' = [disk EXCEPT !.owner = None]
       \/ Saves(FALSE) /\ UNCHANGED disk
    /\ cut' = cut \cup Unfinished
    /\ UNCHANGED <<speech, streams, listed, support, chain, doing, chat, draft, errors, said, seen,
                   sent, confirmed, life, loop, group, inbound, asking, starts,
                   forwarded, taken, answered, passed, risked>>

\* stop: what is gathered is let go; the loop ends before its next update.
Stop ==
    /\ life = "up" /\ starts < MaxStarts
    /\ life' = "stopping"
    /\ StopReplies
    /\ group' = NoGroup
    /\ risked' = risked \cup Range(group.ids)
    /\ UNCHANGED <<sent, confirmed, loop, pairVars, inbound, asking, sends, events, starts,
                   forwarded, taken, answered, passed>>
LoopEnds ==
    /\ life = "stopping" /\ loop.at \in {"polling", "handling", "ended"}
    /\ life' = "off"
    /\ Then("ended")
    /\ UNCHANGED <<sayVars, sent, confirmed, pairVars, group, inbound, asking, sends, events, starts,
                   forwarded, taken, answered, passed, risked>>

\* The process ends, stopped or not, and the next one starts from the disk.
Restart ==
    /\ starts < MaxStarts /\ starts' = starts + 1
    /\ ForgetReplies
    /\ life' = "up"
    /\ owner' = disk.owner
    /\ IF disk.owner = None
       THEN issued < MaxCodes /\ issued' = issued + 1 /\ code' = issued + 1
       ELSE code' = 0 /\ UNCHANGED issued
    /\ loop' = [at |-> "polling", upd |-> 0, last |-> 0, offset |-> disk.offset]
    /\ group' = NoGroup /\ inbound' = <<>> /\ asking' = "no"
    /\ risked' = risked \cup {i \in Pending : sent[i].kind = "part"}
    /\ UNCHANGED <<sent, confirmed, disk, sends, events, diskErrors, forwarded, taken, answered, passed>>

-----------------------------------------------------------------------------
Inbound ==
    \/ \E v \in Users, what \in Kinds : Sends(v, what)
    \/ Poll \/ TokenRejected
    \/ HandleOther \/ HandlePair \/ PairingAnswered \/ HandlePart \/ HandleMessage
    \/ GroupTimer \/ ConverseStarts \/ FilesFetched \/ Dispatched
    \/ Repair \/ Stop \/ LoopEnds

\* The assistant answers what it was told through the channel.
Assistant ==
    /\ life = "up" /\ taken # <<>>
    /\ events < MaxEvents /\ events' = events + 1
    /\ \/ MessageUpdate \/ ToolStarts \/ TurnEnds \/ FileAttached
       \/ \E why \in {"done", "error", "aborted"} : MessageEnd(why)
    /\ UNCHANGED <<sent, confirmed, life, loop, pairVars, group, inbound, asking, sends, starts,
                   forwarded, taken, answered, passed, risked>>

Reachable == life = "up" /\ owner # None
Replies ==
    /\ Starts(Reachable) \/ Answered \/ Fails \/ \E m \in Messages : ThrottleEnds(m)
    /\ UNCHANGED inVars

\* Nothing but the end of the process comes between the end of an update's handling
\* and the write of its offset: there is no await.
Next ==
    \/ WriteOffset
    \/ Restart
    \/ loop.at # "handled" /\ (Inbound \/ Assistant \/ Replies)

Spec == Init /\ [][Next]_vars

-----------------------------------------------------------------------------
(* Properties                                                              *)

InTypes ==
    /\ sent \in Seq([from : Users, kind : {"text", "command", "part", "pair"},
                     album : Albums \cup {None}, code : {0} \cup Codes])
    /\ sends \in Nat /\ Len(sent) <= sends /\ sends <= MaxSent
    /\ confirmed \in Nat \ {0}
    /\ life \in {"up", "stopping", "off"}
    /\ loop \in [at : {"polling", "handling", "waiting", "replying", "handled", "ended"},
                 upd : Nat, last : Nat, offset : Nat \ {0}]
    /\ owner \in Users \cup {None} /\ code \in {0} \cup Codes /\ issued \in {0} \cup Codes
    /\ disk \in [owner : Users \cup {None}, offset : Nat \ {0}]
    /\ group \in [album : Albums \cup {None}, ids : Seq(Ids)]
    /\ inbound \in Seq(Seq(Ids)) /\ asking \in {"no", "files", "assistant", "command"}
    /\ asking # "no" => inbound # <<>>
    /\ forwarded \subseteq Ids /\ answered \subseteq Ids /\ risked \subseteq Ids
    /\ taken \in Seq(Ids)
TypeOK == InTypes /\ passed \subseteq Ids /\ SayTypes

\* The assistant hears the paired user in the order of sending: what it hears out of
\* it was heard before, or failed or was passed over before a crash, as its sender was
\* not paired yet; ...
HeardTooLate(i, j) == i < j /\ taken[i] > taken[j]
OutOfOrderOnlyAgain ==
    \A i, j \in DOMAIN taken : HeardTooLate(i, j) =>
        \/ \E k \in 1..(j - 1) : taken[k] = taken[j]
        \/ taken[j] \in answered \cup passed
\* ... and what it hears again is the one update that was being handled at a crash, or
\* one whose offset could not be written.
FewHeardAgain == Len(taken) - Cardinality(Range(taken)) <= starts - 1 + diskErrors
HeardInOrder == OutOfOrderOnlyAgain /\ FewHeardAgain

\* No message of the paired user gets lost: it is with the assistant, or answered,
\* or on its way, or Telegram will send it again; but what is gathered or comes
\* up while the channel stops, and parts of albums at a crash.
Kept(i) ==
    \/ i \in Range(taken) \cup answered \cup risked \cup Pending
    \/ i >= disk.offset /\ i >= confirmed
NothingLostUnlessRisked == \A i \in forwarded : Kept(i)

-----------------------------------------------------------------------------
(* The inductive invariant behind NothingLostUnlessRisked.                 *)

Settled == Range(taken) \cup answered \cup risked
IsPart(i) == i \in DOMAIN sent /\ sent[i].kind = "part"

\* While the loop is at an update, that is the next one Telegram would send, and
\* the disk is never ahead of it.
LoopShape ==
    /\ disk.offset <= loop.offset
    /\ loop.at \in {"handling", "waiting", "replying", "handled"} =>
          /\ upd \in DOMAIN sent /\ upd <= loop.last /\ loop.last <= Len(sent)
          /\ confirmed <= upd /\ loop.offset <= upd
          /\ upd \in {confirmed, loop.offset}

\* What is in memory only are parts of albums, but for the message that is waited for.
OnlyPartsWait ==
    /\ \A i \in Range(group.ids) : IsPart(i)
    /\ \A k \in DOMAIN inbound :
          \/ \A i \in Range(inbound[k]) : IsPart(i)
          \/ loop.at = "waiting" /\ k = Len(inbound) /\ inbound[k] = <<upd>>
    /\ loop.at = "waiting" => group = NoGroup /\ ~IsPart(upd)

\* An update the loop is past is settled or in memory; the others are Telegram's still.
Behind == IF loop.at \in {"replying", "handled"} THEN upd + 1 ELSE loop.offset
PastIsKept == \A i \in forwarded : i \in Settled \cup Pending \/ (i >= Behind /\ i >= confirmed)

\* A pairing is never taken for a message, so none of the paired user's is answered as one.
NoPairing == \A i \in forwarded : i \in DOMAIN sent /\ sent[i].kind # "pair"

IInv == InTypes /\ LoopShape /\ OnlyPartsWait /\ PastIsKept /\ NoPairing

-----------------------------------------------------------------------------
(* The inductive invariant behind HeardInOrder.                            *)

\* The first update that the loop has not handled, and the first that the next start
\* would get.
Larger(a, b) == IF a > b THEN a ELSE b
InHand == loop.at \in {"waiting", "replying", "handled"}
Frontier == IF InHand THEN upd + 1 ELSE Larger(loop.offset, confirmed)
Again == Larger(disk.offset, confirmed)

\* What is in memory is in the order of sending, and before the frontier, which is no
\* further than what was sent.
Rising(q) == \A i, j \in DOMAIN q : i < j => q[i] < q[j]
AllBefore(S, T) == \A i \in S, j \in T : i < j
InOrder(q) ==
    /\ \A k \in DOMAIN q : Rising(q[k])
    /\ \A k, l \in DOMAIN q : k < l => AllBefore(Range(q[k]), Range(q[l]))
QueueInOrder ==
    /\ Rising(group.ids) /\ InOrder(inbound) /\ AllBefore(IdsOf(inbound), Range(group.ids))
    /\ \A i \in Pending : i < Frontier
    /\ Frontier <= Len(sent) + 1
    /\ Pending \cup Range(taken) \subseteq forwarded

\* What would come again has been heard, or the channel stopped before it was: then
\* nothing after it is heard.
Heard == Range(taken) \cup answered \cup passed \cup {i \in DOMAIN sent : sent[i].kind = "pair"}
AtAssistant == asking \in {"assistant", "command"}
Unheard(x) == life # "up" /\ (AtAssistant => \A i \in Range(Head(inbound)) : i < x)
BehindIsHeard ==
    \A x \in DOMAIN sent : Again <= x /\ x < Frontier => x \in Pending \cup Heard \/ Unheard(x)
\* Before what has been heard, all that may yet be heard was heard before.
BeforeHeardIsHeard ==
    \A y \in Range(taken), x \in DOMAIN sent :
        x < y /\ (x \in Pending \/ x >= Again) => x \in Heard

\* What has been and may yet be heard again is paid for, by a start, a failed write,
\* or the end of the server that may come while an update is in hand.
MayRepeat == Range(taken) \cap (Pending \cup {i \in Ids : i >= Frontier})
Repeated == Len(taken) - Cardinality(Range(taken))
Credit == starts - 1 + diskErrors + (IF InHand THEN 1 ELSE 0) - (Frontier - Again)
RepeatsArePaidFor ==
    /\ starts \in Nat /\ diskErrors \in Nat
    /\ Repeated + Cardinality(MayRepeat) <= Credit

HInv == /\ IInv /\ passed \subseteq Ids /\ QueueInOrder /\ BehindIsHeard /\ BeforeHeardIsHeard
        /\ OutOfOrderOnlyAgain /\ RepeatsArePaidFor

=============================================================================
