---------------------------- MODULE ReplyRouting ----------------------------
(***************************************************************************)
(* Which origin a server session's output is sent back to: the routing     *)
(* queues of server/src/reply-routing.ts, fed by sendUserMessage and by    *)
(* the events of the session's agent (server/src/session-pool.ts).         *)
(*                                                                         *)
(* The agent (pi) is a library: its delivery order is modelled from what   *)
(* the pool relies on.  A send reaches it, is handled, starts a run or is  *)
(* queued; a started prompt is delivered first, then steers, then          *)
(* follow-ups; an abort leaves its queues populated.  A send stands for    *)
(* its origin: sends of one origin could only be confused harmlessly.      *)
(***************************************************************************)
EXTENDS Naturals, FiniteSets, SequencesExt

CONSTANTS
    Send,           \* the messages sent through the pool
    None,           \* no message
    QueuesInOrder,  \* pi queues the sends of one mode in the order they were made
    DeferredInTime  \* pi answers what it deferred at a settle before the next settle

Mode == {"promptOrSteer", "followUp"}

ASSUME NoneIsNoSend == None \notin Send \cup Mode
ASSUME Switches == QueuesInOrder \in BOOLEAN /\ DeferredInTime \in BOOLEAN

VARIABLES
    promptOrSteer, followUp,        \* the routing queues
    current,                        \* the destination of the session's output
    mode,                           \* per send the queue it was made for
    inFlight,                       \* sends whose preflight pi has not answered, in order
    starting, steering, following,  \* pi: undelivered prompts, its steers and follow-ups
    running, settling,              \* pi: a run in progress; agent_settled being emitted
    answering                       \* pi: the user message its output answers

routing == <<promptOrSteer, followUp, current>>
piVars == <<starting, steering, following, running, settling, answering>>
vars == <<routing, mode, inFlight, piVars>>

State == {"pending", "started", "queued", "deferred"}
Entry == [send : Send, state : State]

Init ==
    /\ promptOrSteer = <<>> /\ followUp = <<>> /\ current = None
    /\ mode = [s \in Send |-> None]
    /\ inFlight = <<>>
    /\ starting = <<>> /\ steering = <<>> /\ following = <<>>
    /\ running = FALSE /\ settling = FALSE
    /\ answering = None

-----------------------------------------------------------------------------
(* The routing queues.                                                     *)

Sends(q) == [i \in DOMAIN q |-> q[i].send]

\* What of q is in T, in its order.
Only(q, T) ==
    LET at == {i \in DOMAIN q : q[i] \in T}
        nth(k) == CHOOSE i \in at : Cardinality({j \in at : j <= i}) = k
    IN  [k \in 1..Cardinality(at) |-> q[nth(k)]]
InState(q, states) == Only(q, {e \in ToSet(q) : e.state \in states})

InPi == {"queued"}
Started == {"started"}
Known == {"started", "queued"}

\* record: the entry of a new send, at the end of the queue of its mode.
RecordedUntracked(q, s, state) == Append(q, [send |-> s, state |-> "untracked"])
Recorded(q, s, state) == Append(q, [send |-> s, state |-> state])

\* remove: the queue without the entry of s, if it has one.
Without(q, s) == Only(q, {e \in ToSet(q) : e.send # s})

\* setState: the entry of s, if there is one, is in the given state.
WithState(q, s, state) ==
    [i \in DOMAIN q |-> IF q[i].send = s THEN [q[i] EXCEPT !.state = state] ELSE q[i]]

\* started: the entry of s goes to the front, behind any other started one.
PromotedInPlace(q, s) == Append(q, [send |-> s, state |-> "started"])
Promoted(q, s) ==
    InState(q, Started) \o <<[send |-> s, state |-> "started"]>> \o InState(q, State \ Started)

Routed(s) == \E q \in {promptOrSteer, followUp} : s \in ToSet(Sends(q))

\* drop: the send produced no user message.
Drop(s) ==
    /\ promptOrSteer' = Without(promptOrSteer, s)
    /\ followUp' = Without(followUp, s)
    /\ UNCHANGED current

\* takeForUserMessage: an entry pi has, before one it does not have yet; of those,
\* prompt-or-steer before followUp, the oldest first.
NextEntry ==
    LET known == InState(promptOrSteer, Known) \o InState(followUp, Known)
    IN  Head(known \o promptOrSteer \o followUp)
Take ==
    IF promptOrSteer \o followUp = <<>>
    THEN current' = None /\ UNCHANGED <<promptOrSteer, followUp>>
    ELSE /\ current' = NextEntry.send
         /\ promptOrSteer' = Without(promptOrSteer, NextEntry.send)
         /\ followUp' = Without(followUp, NextEntry.send)

\* trimQueue: the sends still awaiting their preflight, and the newest n entries
\* of those pi had queued.
Newest(q, n) == IF Len(q) <= n THEN q ELSE SubSeq(q, Len(q) - n + 1, Len(q))
Trimmed(q, n) ==
    LET keep == ToSet(Newest(InState(q, InPi), n))
    IN  Only(q, {e \in ToSet(q) : e.state = "pending" \/ e \in keep})

\* clear: what pi had queued is gone, what it does not have yet still comes.
ClearedNothing(q) == q
Cleared(q) == InState(q, State \ InPi)

-----------------------------------------------------------------------------
(* sendUserMessage and pi's answer to it.                                  *)

\* The send is recorded, then handed to pi, which defers it while it is settling.
SendMessage(s, m) ==
    /\ mode[s] = None
    /\ mode' = [mode EXCEPT ![s] = m]
    /\ LET state == IF settling THEN "deferred" ELSE "pending" IN
       IF m = "followUp"
       THEN followUp' = Recorded(followUp, s, state) /\ UNCHANGED promptOrSteer
       ELSE promptOrSteer' = Recorded(promptOrSteer, s, state) /\ UNCHANGED followUp
    /\ inFlight' = Append(inFlight, s)
    /\ UNCHANGED <<current, piVars>>

IsDeferred(s) ==
    \E q \in {promptOrSteer, followUp} : \E i \in DOMAIN q : q[i] = [send |-> s, state |-> "deferred"]

\* s is before t in p.
Ahead(p, s, t) == \E i, j \in DOMAIN p : i < j /\ p[i] = s /\ p[j] = t
Before(s) == {t \in ToSet(inFlight) : Ahead(inFlight, t, s)}

\* pi answers the preflight of s now.
Answers(s) ==
    /\ ~settling
    /\ s \in ToSet(inFlight)
    /\ inFlight' = Only(inFlight, ToSet(inFlight) \ {s})
    /\ UNCHANGED <<mode, settling, answering>>

\* preflightResult('started'): pi starts a run with it.
PreflightStarted(s) ==
    /\ Answers(s)
    /\ ~running \/ starting # <<>>
    /\ IF Routed(s)
       THEN /\ promptOrSteer' = Promoted(Without(promptOrSteer, s), s)
            /\ followUp' = Without(followUp, s)
       ELSE UNCHANGED <<promptOrSteer, followUp>>
    /\ starting' = Append(starting, s)
    /\ running' = TRUE
    /\ UNCHANGED <<current, steering, following>>

\* preflightResult('queued'): pi is running and queues it.
PreflightQueued(s) ==
    /\ Answers(s)
    /\ running
    /\ QueuesInOrder => \A t \in Before(s) : mode[t] # mode[s]
    /\ promptOrSteer' = WithState(promptOrSteer, s, "queued")
    /\ followUp' = WithState(followUp, s, "queued")
    /\ IF mode[s] = "followUp"
       THEN following' = Append(following, s) /\ UNCHANGED steering
       ELSE steering' = Append(steering, s) /\ UNCHANGED following
    /\ UNCHANGED <<current, starting, running>>

\* preflightResult('handled'), or prompt() threw.
PreflightDropped(s) ==
    /\ Answers(s)
    /\ Drop(s)
    /\ UNCHANGED <<starting, steering, following, running>>

\* What pi deferred throws inside pi: the pool never hears of it.
DeferredLost(s) ==
    /\ Answers(s)
    /\ IsDeferred(s)
    /\ UNCHANGED <<routing, starting, steering, following, running>>

\* A started prompt throws before its message: prompt() rejects.
RunThrows(s) ==
    /\ s \in ToSet(starting)
    /\ Drop(s)
    /\ starting' = Only(starting, ToSet(starting) \ {s})
    /\ UNCHANGED <<mode, inFlight, steering, following, running, settling, answering>>

-----------------------------------------------------------------------------
(* Events of the agent.                                                    *)

\* A user message_end: pi delivers the next message, and the routing takes one.
Deliver(s) ==
    /\ running
    /\ answering' = s
    /\ Take
    /\ UNCHANGED <<mode, inFlight, running, settling>>
UserMessage ==
    \/ /\ starting # <<>>
       /\ Deliver(Head(starting))
       /\ starting' = Tail(starting)
       /\ UNCHANGED <<steering, following>>
    \/ /\ starting = <<>> /\ steering # <<>>
       /\ Deliver(Head(steering))
       /\ steering' = Tail(steering)
       /\ UNCHANGED <<starting, following>>
    \/ /\ starting = <<>> /\ steering = <<>> /\ following # <<>>
       /\ Deliver(Head(following))
       /\ following' = Tail(following)
       /\ UNCHANGED <<starting, steering>>

\* agent_settled, after a run or an abort: the queues are trimmed to pi's before
\* anyone hears of it.
Settle ==
    /\ running
    /\ DeferredInTime => \A s \in ToSet(inFlight) : ~IsDeferred(s)
    /\ running' = FALSE
    /\ settling' = TRUE
    /\ starting' = <<>>
    /\ promptOrSteer' = Trimmed(promptOrSteer, Len(steering))
    /\ followUp' = Trimmed(followUp, Len(following))
    /\ UNCHANGED <<current, mode, inFlight, steering, following, answering>>

\* Everyone has heard of it.
Settled ==
    /\ settling
    /\ settling' = FALSE
    /\ UNCHANGED <<routing, mode, inFlight, starting, steering, following, running, answering>>

\* cancelSteerQueue, clearQueuedMessages.
ClearQueues ==
    /\ steering' = <<>> /\ following' = <<>>
    /\ promptOrSteer' = Cleared(promptOrSteer)
    /\ followUp' = Cleared(followUp)
    /\ UNCHANGED <<current, mode, inFlight, starting, running, settling, answering>>

Next ==
    \/ \E s \in Send : \/ \E m \in Mode : SendMessage(s, m)
                       \/ PreflightStarted(s)
                       \/ PreflightQueued(s)
                       \/ PreflightDropped(s)
                       \/ DeferredLost(s)
                       \/ RunThrows(s)
    \/ UserMessage
    \/ Settle
    \/ Settled
    \/ ClearQueues

Spec == Init /\ [][Next]_vars

-----------------------------------------------------------------------------
(* Properties.                                                             *)

\* Every variable holds a value of its type.
TypeOK ==
    /\ promptOrSteer \in Seq(Entry) /\ followUp \in Seq(Entry)
    /\ current \in Send \cup {None} /\ answering \in Send \cup {None}
    /\ mode \in [Send -> Mode \cup {None}]
    /\ \A q \in {inFlight, starting, steering, following} : q \in Seq(Send)
    /\ running \in BOOLEAN /\ settling \in BOOLEAN

\* Everything the agent says is sent back where the message it answers came from
\* (ADR 0014), whatever was aborted, cancelled, deferred or handled in between:
\* one entry too many or too few and every later reply goes to the wrong place.
Attributed == current = answering

\* The entries pi is known to have are pi's queues, in pi's order.
Aligned ==
    /\ Sends(InState(promptOrSteer, Started)) = starting
    /\ Sends(InState(promptOrSteer, InPi)) = steering
    /\ Sends(InState(followUp, InPi)) = following

\* A send that pi has not answered keeps its entry, in the queue of its mode:
\* neither a settle nor a cancelled queue takes it away.
InFlightKeepsEntry ==
    \A s \in ToSet(inFlight) :
        s \in ToSet(Sends(IF mode[s] = "followUp" THEN followUp ELSE promptOrSteer))

\* Entries do not pile up: one whose send pi will never deliver can only be a
\* deferred one, and the next settle removes it.
StaleIsDeferred ==
    \A q \in {promptOrSteer, followUp} : \A i \in DOMAIN q :
        \/ q[i].send \in ToSet(inFlight \o starting \o steering \o following)
        \/ q[i].state = "deferred"

\* The two queues mirror what pi holds: nothing missing, nothing left over but what
\* the next settle removes, nothing out of order.
MirrorsPi == Aligned /\ InFlightKeepsEntry /\ StaleIsDeferred

-----------------------------------------------------------------------------
(* The inductive invariant behind them: what MirrorsPi says of whole queues *)
(* holds of every send, and so does what makes the next step keep it.       *)

Holds(q, s, state) == [send |-> s, state |-> state] \in ToSet(q)
Sent(q) == ToSet(Sends(q))
Order(q, s, t) == Ahead(Sends(q), s, t)

\* A send has one entry, in the queue of its mode unless it started a run.
OneEntry ==
    \A s \in Send :
        /\ ~Order(promptOrSteer, s, s) /\ ~Order(followUp, s, s)
        /\ s \in Sent(followUp) => mode[s] = "followUp" /\ ~Holds(followUp, s, "started")
        /\ s \in Sent(promptOrSteer) =>
              /\ mode[s] # None /\ s \notin Sent(followUp)
              /\ Holds(promptOrSteer, s, "started") \/ mode[s] = "promptOrSteer"

\* A queue of pi is what the entries in one state are, in their order.
Mirrors(p, q, state) ==
    \A s, t \in Send :
        /\ s \in ToSet(p) <=> Holds(q, s, state)
        /\ Ahead(p, s, t) <=> Holds(q, s, state) /\ Holds(q, t, state) /\ Order(q, s, t)
Mirrored ==
    /\ Mirrors(starting, promptOrSteer, "started")
    /\ Mirrors(steering, promptOrSteer, "queued")
    /\ Mirrors(following, followUp, "queued")

\* What has started comes first.
StartedFirst ==
    \A s, t \in Send :
        /\ Holds(promptOrSteer, s, "started") /\ t \in Sent(promptOrSteer)
        /\ ~Holds(promptOrSteer, t, "started")
        => Order(promptOrSteer, s, t)

\* A send without an answer waits behind what pi has, in the order of sending.
Awaits(q, s) == Holds(q, s, "pending") \/ Holds(q, s, "deferred")
Waiting(q, p) ==
    \A s, t \in Send :
        /\ Holds(q, s, "pending") => s \in ToSet(p)
        /\ Holds(q, s, "queued") /\ t \in ToSet(p) /\ t \in Sent(q) => Order(q, s, t)
        /\ Ahead(p, s, t) /\ s \in Sent(q) /\ t \in Sent(q) => Order(q, s, t)
InFlightWaits ==
    /\ \A s \in Send :
          /\ ~Ahead(inFlight, s, s)
          /\ s \in ToSet(inFlight) =>
                \/ mode[s] = "followUp" /\ Awaits(followUp, s)
                \/ mode[s] = "promptOrSteer" /\ Awaits(promptOrSteer, s)
    /\ Waiting(promptOrSteer, inFlight) /\ Waiting(followUp, inFlight)

IInv == TypeOK /\ Attributed /\ OneEntry /\ Mirrored /\ StartedFirst /\ InFlightWaits
=============================================================================
