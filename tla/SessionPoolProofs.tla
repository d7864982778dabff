------------------------- MODULE SessionPoolProofs -------------------------
(* Proofs about SessionPool, for any files, viewers, sockets and agents. *)
EXTENDS SessionPool, SequenceTheorems, FiniteSetTheorems, TLAPS

\* The inductive invariant: types, and who owns which agent.
IInv == TypeOK /\ Ownership

--------------------
(* Entries and timers stay well-typed. *)

LEMMA EntryTypes ==
    /\ NoEntry \in Entry
    /\ \A a \in Agent : ServerEntry(a) \in Entry
    /\ \A c \in Conn, V \in SUBSET Viewer, s \in BOOLEAN : CliEntry(c, V, s) \in Entry
    /\ \A e \in Entry, V \in SUBSET Viewer : [e EXCEPT !.clients = V] \in Entry
    /\ \A e \in Entry, b \in BOOLEAN : [e EXCEPT !.idle = b] \in Entry
    /\ \A e \in Entry, n \in Nat : [e EXCEPT !.busy = n] \in Entry
BY DEF Entry, EntryId, NoEntry, ServerEntry, CliEntry

LEMMA TimerTypes ==
    ASSUME NEW f \in File, NEW e \in Entry, NEW T \in SUBSET (File \X EntryId)
    PROVE  /\ Cancelled(f, e, T) \in SUBSET (File \X EntryId)
           /\ Rearmed(f, e, T) \in SUBSET (File \X EntryId)
BY DEF Cancelled, Rearmed, Entry

\* A load names a viewer and a file.
LEMMA ReadsType == TypeOK => \A r \in reads : r.who \in Viewer /\ r.file \in File
BY DEF TypeOK, Read

LEMMA AttachType ==
    ASSUME TypeOK, NEW v \in Viewer, NEW f \in File, Attach(v, f)
    PROVE  /\ sessions' \in [File -> Entry]
           /\ timers' \subseteq File \X EntryId
           /\ at' \in [Viewer -> File \cup {None}]
<1> DEFINE after(g) == CASE g = f /\ Resident(f) -> [sessions[g] EXCEPT !.clients = @ \cup {v}]
                         [] Leaves(v, f) /\ g = at[v] -> [sessions[g] EXCEPT !.clients = @ \ {v}]
                         [] OTHER -> sessions[g]
<1>1. \A g \in File : after(g) \in Entry
  <2> SUFFICES ASSUME NEW g \in File PROVE after(g) \in Entry OBVIOUS
  <2>1. sessions[g] \in Entry /\ sessions[g].clients \in SUBSET Viewer BY DEF TypeOK, Entry
  <2>2. [sessions[g] EXCEPT !.clients = @ \cup {v}] \in Entry BY <2>1 DEF Entry
  <2>3. [sessions[g] EXCEPT !.clients = @ \ {v}] \in Entry BY <2>1 DEF Entry
  <2> QED BY <2>1, <2>2, <2>3
<1>2. sessions' = [g \in File |-> after(g)] BY DEF Attach
<1>3. Cancelled(f, sessions[f], timers) \in SUBSET (File \X EntryId) BY TimerTypes DEF TypeOK
<1>4. CASE Leaves(v, f)
  <2>1. at[v] \in File BY <1>4 DEF Leaves, TypeOK
  <2>2. timers' = Rearmed(at[v], after(at[v]), Cancelled(f, sessions[f], timers)) BY <1>4 DEF Attach
  <2>3. sessions' \in [File -> Entry] BY <1>1, <1>2
  <2>4. at' \in [Viewer -> File \cup {None}] BY DEF Attach, TypeOK
  <2>5. timers' \subseteq File \X EntryId
    <3>1. after(at[v]) \in Entry BY <1>1, <2>1
    <3> HIDE DEF after
    <3> QED BY <1>3, <2>1, <2>2, <3>1, TimerTypes
  <2> QED BY <2>3, <2>4, <2>5
<1>5. CASE ~Leaves(v, f) BY <1>1, <1>2, <1>3, <1>5 DEF Attach, TypeOK
<1> QED BY <1>4, <1>5

LEMMA ReleaseType ==
    ASSUME TypeOK, NEW v \in Viewer, Release(v)
    PROVE  /\ sessions' \in [File -> Entry]
           /\ timers' \subseteq File \X EntryId
<1>1. CASE at[v] = None BY <1>1 DEF Release, TypeOK
<1>2. CASE at[v] # None
  <2>1. at[v] \in File BY <1>2 DEF TypeOK
  <2>2. sessions[at[v]] \in Entry /\ sessions[at[v]].clients \ {v} \in SUBSET Viewer
    BY <2>1 DEF TypeOK, Entry
  <2>3. [sessions[at[v]] EXCEPT !.clients = @ \ {v}] \in Entry BY <2>2, EntryTypes
  <2> QED BY <1>2, <2>1, <2>3, TimerTypes DEF Release, TypeOK
<1> QED BY <1>1, <1>2

LEMMA ShutdownType ==
    ASSUME TypeOK, NEW a \in Agent, Shutdown(a)
    PROVE  /\ agents' \in [Agent -> [file : File \cup {None}, st : {"fresh", "live", "dead"}]]
           /\ turning' \subseteq Agent
           /\ tornTwice' \subseteq Agent
<1>1. agents[a] \in [file : File \cup {None}, st : {"fresh", "live", "dead"}] BY DEF TypeOK
<1>2. [agents[a] EXCEPT !.st = "dead"] \in [file : File \cup {None}, st : {"fresh", "live", "dead"}]
  BY <1>1
<1>3. agents' = [agents EXCEPT ![a] = [agents[a] EXCEPT !.st = "dead"]] BY DEF Shutdown
<1> QED BY <1>2, <1>3 DEF TypeOK, Shutdown

LEMMA DestroyType ==
    ASSUME IInv, NEW f \in File, Destroy(f)
    PROVE  /\ sessions' \in [File -> Entry]
           /\ agents' \in [Agent -> [file : File \cup {None}, st : {"fresh", "live", "dead"}]]
           /\ turning' \subseteq Agent
           /\ tornTwice' \subseteq Agent
           /\ conns' \in [Conn -> [st : {"new", "reading", "orphaned", "open", "closing", "closed"},
                                  file : File \cup {None}]]
<1>1. sessions' \in [File -> Entry] BY EntryTypes DEF IInv, TypeOK, Destroy
<1>2. CASE OwnsAgent(sessions[f])
  <2>1. sessions[f].agent \in Agent BY <1>2 DEF IInv, Ownership, EntryShape, OwnsAgent
  <2>2. Shutdown(sessions[f].agent) BY <1>2 DEF Destroy
  <2>3. conns' = conns BY <1>2 DEF Destroy, OwnsAgent
  <2> QED BY <1>1, <2>1, <2>2, <2>3, ShutdownType DEF IInv, TypeOK
<1>3. CASE ~OwnsAgent(sessions[f])
  <2>1. sessions[f].kind = "cli" => sessions[f].id \in Conn BY DEF IInv, Ownership, EntryShape
  <2>2. conns' \in [Conn -> [st : {"new", "reading", "orphaned", "open", "closing", "closed"},
                             file : File \cup {None}]]
    BY <2>1, ZenonT(40) DEF IInv, TypeOK, Destroy
  <2> QED BY <1>1, <1>3, <2>2 DEF IInv, TypeOK, Destroy, KeepAgents
<1> QED BY <1>2, <1>3

\* Every step keeps the types: one step per action.
LEMMA TypeStep ==
    ASSUME IInv, [Next]_vars
    PROVE  TypeOK'
<1> USE DEF IInv, poolVars, viewVars, historyVars
<1>conn. \A c \in Conn : conns[c].st # "new" => conns[c].file \in File BY DEF Ownership, ConnShape
<1>read. \A r \in reads : r.who \in Viewer /\ r.file \in File BY ReadsType DEF IInv
<1>1. ASSUME NEW r \in reads, OpenWarm(r) PROVE TypeOK'
  <2>1. Attach(r.who, r.file) /\ reads' \subseteq reads BY <1>1 DEF OpenWarm, ReadEnds
  <2> QED BY <1>1, <1>read, <2>1, AttachType DEF OpenWarm, Paint, TypeOK
<1>2. ASSUME NEW r \in reads, OpenCold(r) PROVE TypeOK'
  <2> DEFINE k == [file |-> r.file, kind |-> "view", who |-> {r.who}]
             w == [kind |-> "view", who |-> {r.who}]
  <2>1. k \in Continuation /\ w \in Waiter /\ builds[r.file] \in Seq(Waiter)
    BY <1>read DEF Continuation, Waiter, TypeOK
  <2>2. resumed' \in Seq(Continuation) /\ builds' \in [File -> Seq(Waiter)]
    <3>1. CASE Resident(r.file)
      <4>1. <<k>> \in Seq(Continuation) BY <2>1
      <4>2. resumed' = <<k>> /\ builds' = builds BY <1>2, <3>1 DEF OpenCold
      <4> QED BY <4>1, <4>2 DEF TypeOK
    <3>2. CASE ~Resident(r.file)
      <4>1. Append(builds[r.file], w) \in Seq(Waiter) BY <2>1
      <4> QED BY <1>2, <3>2, <4>1 DEF OpenCold, Wait, TypeOK
    <3> QED BY <3>1, <3>2
  <2>3. reads' \subseteq reads /\ painted' \in [Viewer -> File \cup {None}]
    BY <1>2, <1>read DEF OpenCold, ReadEnds, Paint, TypeOK
  <2> QED BY <1>2, <2>2, <2>3 DEF OpenCold, TypeOK
<1>a. ASSUME NEW r \in reads, OpenLocked(r) PROVE TypeOK'
  <2>1. Release(r.who) /\ reads' \subseteq reads BY <1>a DEF OpenLocked, ReadEnds, Detach
  <2> QED BY <1>a, <1>read, <2>1, ReleaseType DEF OpenLocked, Paint, Detach, TypeOK
<1>b. ASSUME (\E v \in Viewer, f \in File : LoadStart(v, f)) \/ \E r \in reads : ReadFails(r)
       PROVE  TypeOK'
  <2>1. ASSUME NEW v \in Viewer, NEW f \in File, LoadStart(v, f) PROVE TypeOK'
    <3>1. reads' \subseteq Read
      <4>1. PICK n \in 1..MaxReads :
              reads' = reads \cup {[n |-> n, who |-> v, file |-> f, warm |-> Resident(f)]}
        BY <2>1 DEF LoadStart
      <4>2. Resident(f) \in BOOLEAN BY DEF Resident
      <4> QED BY <4>1, <4>2 DEF Read, TypeOK
    <3>2. painted' \in [Viewer -> File \cup {None}] BY <2>1 DEF LoadStart, TypeOK
    <3> QED BY <2>1, <3>1, <3>2 DEF LoadStart, TypeOK
  <2>2. ASSUME NEW r \in reads, ReadFails(r) PROVE TypeOK' BY <2>2 DEF ReadFails, ReadEnds, TypeOK
  <2> QED BY <1>b, <2>1, <2>2
<1>3. ASSUME NEW v \in Viewer, Leave(v) PROVE TypeOK' BY <1>3, ReleaseType DEF Leave, Detach, TypeOK
<1>4. ASSUME NEW v \in Viewer, ViewerGone(v) PROVE TypeOK'
  BY <1>4, ReleaseType DEF ViewerGone, TypeOK
<1>5. ASSUME NEW f \in File, LoadUnviewed(f) PROVE TypeOK'
  <2> DEFINE w == [kind |-> "bare", who |-> {}]
  <2>a. w \in Waiter /\ builds[f] \in Seq(Waiter) BY DEF Waiter, TypeOK
  <2>b. Append(builds[f], w) \in Seq(Waiter) BY <2>a
  <2>1. builds' \in [File -> Seq(Waiter)] BY <1>5, <2>b DEF LoadUnviewed, Wait, TypeOK
  <2>2. UNCHANGED <<sessions, timers, agents, turning, resumed, reloads, pinned, conns,
                    at, painted, gone, reads, ghosts, bridge, raced, tornTwice>>
    BY <1>5 DEF LoadUnviewed
  <2> QED BY <2>1, <2>2 DEF TypeOK
<1>6. ASSUME NEW f \in File, NEW a \in Agent, BuildDone(f, a) PROVE TypeOK'
  <2>1. resumed' \in Seq(Continuation)
    <3>1. builds[f] \in Seq(Waiter) BY DEF TypeOK
    <3>2. Len(builds[f]) \in Nat /\ \A i \in 1..Len(builds[f]) : builds[f][i] \in Waiter BY <3>1
    <3>3. \A i \in 1..Len(builds[f]) :
             [file |-> f, kind |-> builds[f][i].kind, who |-> builds[f][i].who] \in Continuation
      BY <3>2 DEF Waiter, Continuation
    <3> DEFINE k(i) == [file |-> f, kind |-> builds[f][i].kind, who |-> builds[f][i].who]
    <3> HIDE DEF k
    <3>4. resumed' = [i \in 1..Len(builds[f]) |-> k(i)] BY <1>6 DEF BuildDone, k
    <3>5. \A i \in 1..Len(builds[f]) : k(i) \in Continuation BY <3>3 DEF k
    <3> QED BY <3>2, <3>4, <3>5, IsASeq
  <2>2. sessions' \in [File -> Entry] /\ builds' \in [File -> Seq(Waiter)]
    BY <1>6, EntryTypes DEF BuildDone, TypeOK
  <2>3. agents' \in [Agent -> [file : File \cup {None}, st : {"fresh", "live", "dead"}]]
    BY <1>6 DEF BuildDone, TypeOK
  <2> QED BY <1>6, <2>1, <2>2, <2>3 DEF BuildDone, TypeOK
<1>7. ASSUME NEW f \in File, BuildFailed(f) PROVE TypeOK' BY <1>7 DEF BuildFailed, TypeOK
<1>8. CASE Resume
  <2> DEFINE k == Head(resumed)
  <2>1. resumed \in Seq(Continuation) /\ resumed # <<>> BY <1>8 DEF Resume, Settled, TypeOK
  <2>2. k \in Continuation /\ Tail(resumed) \in Seq(Continuation) BY <2>1
  <2>3. k.file \in File /\ k.who \subseteq Viewer BY <2>2 DEF Continuation
  <2> HIDE DEF k
  <2>4. /\ sessions' \in [File -> Entry]
        /\ timers' \subseteq File \X EntryId
        /\ at' \in [Viewer -> File \cup {None}]
        /\ raced' \subseteq File
    <3>1. ASSUME NEW v \in k.who, ResumeView(v, k.file), UNCHANGED raced
          PROVE  /\ sessions' \in [File -> Entry]
                 /\ timers' \subseteq File \X EntryId
                 /\ at' \in [Viewer -> File \cup {None}]
                 /\ raced' \subseteq File
      <4>1. v \in Viewer BY <2>3
      <4>2. Rearmed(k.file, sessions[k.file], timers) \subseteq File \X EntryId
        BY <2>3, TimerTypes DEF TypeOK
      <4>3. CASE Attach(v, k.file) BY <3>1, <4>1, <4>3, <2>3, AttachType DEF TypeOK
      <4>4. CASE UNCHANGED <<sessions, at>> /\ timers' = Rearmed(k.file, sessions[k.file], timers)
        BY <3>1, <4>2, <4>4 DEF TypeOK
      <4> QED BY <3>1, <4>3, <4>4 DEF ResumeView
    <3>2. CASE ResumeHandback(k.file, k.who) BY <3>2, <2>3, EntryTypes DEF ResumeHandback, TypeOK
    <3>3. CASE UNCHANGED <<sessions, timers, at, raced>> BY <3>3 DEF TypeOK
    <3> QED BY <1>8, <3>1, <3>2, <3>3 DEF Resume, k
  <2> QED BY <1>8, <2>2, <2>4 DEF Resume, TypeOK
<1>9. ASSUME NEW c \in Conn, NEW f \in File, RegisterCold(c, f) PROVE TypeOK'
  <2>1. conns' \in [Conn -> [st : {"new", "reading", "orphaned", "open", "closing", "closed"},
                             file : File \cup {None}]]
    BY <1>9 DEF RegisterCold, TypeOK
  <2> QED BY <1>9, <2>1 DEF RegisterCold, TypeOK
<1>10. ASSUME NEW c \in Conn, NEW f \in File, NEW s \in BOOLEAN, RegisterResident(c, f, s)
       PROVE  TypeOK'
  <2>1. sessions[f] \in Entry /\ sessions[f].clients \in SUBSET Viewer BY DEF TypeOK, Entry
  <2>2. sessions' \in [File -> Entry] /\ timers' \subseteq File \X EntryId
    BY <1>10, <2>1, EntryTypes, TimerTypes DEF RegisterResident, TypeOK
  <2>3. /\ conns' \in [Conn -> [st : {"new", "reading", "orphaned", "open", "closing", "closed"},
                                file : File \cup {None}]]
        /\ bridge' \in [File -> Conn \cup {None}]
    BY <1>10 DEF RegisterResident, TypeOK
  <2>4. /\ agents' \in [Agent -> [file : File \cup {None}, st : {"fresh", "live", "dead"}]]
        /\ turning' \subseteq Agent
        /\ tornTwice' \subseteq Agent
    <3>1. CASE OwnsAgent(sessions[f])
      <4>1. sessions[f].agent \in Agent BY <3>1 DEF Ownership, EntryShape, OwnsAgent
      <4>2. Shutdown(sessions[f].agent) BY <1>10, <3>1 DEF RegisterResident
      <4> QED BY <4>1, <4>2, ShutdownType
    <3>2. CASE ~OwnsAgent(sessions[f]) BY <1>10, <3>2 DEF RegisterResident, KeepAgents, TypeOK
    <3> QED BY <3>1, <3>2
  <2>5. UNCHANGED <<builds, resumed, reloads, pinned, at, painted, gone, reads, ghosts, raced>>
    BY <1>10 DEF RegisterResident
  <2> QED BY <2>2, <2>3, <2>4, <2>5 DEF TypeOK
<1>11. ASSUME NEW c \in Conn, NEW s \in BOOLEAN, HeaderRead(c, s) PROVE TypeOK'
  <2>1. conns[c].file \in File BY <1>11, <1>conn DEF HeaderRead
  <2>2. sessions[conns[c].file] \in Entry BY <2>1 DEF TypeOK
  <2>3. sessions' \in [File -> Entry] BY <1>11, <2>1, EntryTypes DEF HeaderRead, TypeOK
  <2>4. timers' \subseteq File \X EntryId
    <3>1. Cancelled(conns[c].file, sessions[conns[c].file], timers) \subseteq File \X EntryId
      BY DEF Cancelled, TypeOK
    <3> QED BY <1>11, <3>1 DEF HeaderRead, TypeOK
  <2>5. /\ conns' \in [Conn -> [st : {"new", "reading", "orphaned", "open", "closing", "closed"},
                                file : File \cup {None}]]
        /\ bridge' \in [File -> Conn \cup {None}]
        /\ raced' \subseteq File
    BY <1>11, <2>1, ZenonT(40) DEF HeaderRead, TypeOK
  <2>6. UNCHANGED <<agents, turning, builds, resumed, reloads, pinned, at, painted, gone, reads, ghosts, tornTwice>>
    BY <1>11 DEF HeaderRead
  <2> QED BY <2>3, <2>4, <2>5, <2>6 DEF TypeOK
<1>12. ASSUME NEW c \in Conn, RegisterRefused(c) PROVE TypeOK'
  <2>1. conns' \in [Conn -> [st : {"new", "reading", "orphaned", "open", "closing", "closed"},
                             file : File \cup {None}]]
    <3> DEFINE st == IF conns[c].st = "reading" THEN "open" ELSE "closed"
    <3>1. conns' = [conns EXCEPT ![c].st = st] BY <1>12 DEF RegisterRefused
    <3>2. st \in {"open", "closed"} OBVIOUS
    <3> HIDE DEF st
    <3> QED BY <3>1, <3>2 DEF TypeOK
  <2> QED BY <1>12, <2>1 DEF RegisterRefused, TypeOK
<1>13. ASSUME NEW c \in Conn, BridgeClosed(c) PROVE TypeOK'
  <2>1. conns[c].file \in File BY <1>13, <1>conn DEF BridgeClosed
  <2>2. sessions[conns[c].file] \in Entry /\ sessions[conns[c].file].clients \in SUBSET Viewer
    BY <2>1 DEF TypeOK, Entry
  <2>3. sessions' \in [File -> Entry] BY <1>13, <2>1, EntryTypes DEF BridgeClosed, TypeOK
  <2>4. timers' \subseteq File \X EntryId BY <1>13, <2>1, <2>2, TimerTypes DEF BridgeClosed, TypeOK
  <2>5. builds' \in [File -> Seq(Waiter)]
    <3>1. [kind |-> "handback", who |-> sessions[conns[c].file].clients] \in Waiter
      BY <2>2 DEF Waiter
    <3>2. builds[conns[c].file] \in Seq(Waiter) BY <2>1 DEF TypeOK
    <3>3. Append(builds[conns[c].file],
                 [kind |-> "handback", who |-> sessions[conns[c].file].clients]) \in Seq(Waiter)
      BY <3>1, <3>2
    <3> QED BY <1>13, <2>1, <3>3 DEF BridgeClosed, Wait, TypeOK
  <2>6. /\ conns' \in [Conn -> [st : {"new", "reading", "orphaned", "open", "closing", "closed"},
                                file : File \cup {None}]]
        /\ raced' \subseteq File
    BY <1>13, <2>1, ZenonT(40) DEF BridgeClosed, TypeOK
  <2>7. UNCHANGED <<agents, turning, resumed, reloads, pinned, at, painted, gone, reads, ghosts, bridge, tornTwice>>
    BY <1>13 DEF BridgeClosed
  <2> QED BY <2>3, <2>4, <2>5, <2>6, <2>7 DEF TypeOK
<1>14. ASSUME NEW c \in Conn, CliAgentStart(c) \/ CliAgentEnd(c) PROVE TypeOK'
  <2>1. conns[c].file \in File BY <1>14, <1>conn DEF CliAgentStart, CliAgentEnd
  <2>2. sessions[conns[c].file] \in Entry BY <2>1 DEF TypeOK
  <2>3. \A b \in BOOLEAN : [sessions[conns[c].file] EXCEPT !.idle = b] \in Entry BY <2>2, EntryTypes
  <2>4. sessions' \in [File -> Entry] BY <1>14, <2>1, <2>3 DEF CliAgentStart, CliAgentEnd, TypeOK
  <2>5. timers' \subseteq File \X EntryId
    <3>1. Rearmed(conns[c].file, [sessions[conns[c].file] EXCEPT !.idle = TRUE], timers)
             \subseteq File \X EntryId
      BY <2>1, <2>3, TimerTypes DEF TypeOK
    <3>2. Cancelled(conns[c].file, sessions[conns[c].file], timers) \subseteq File \X EntryId
      BY DEF Cancelled, TypeOK
    <3>3. CASE CliAgentStart(c) BY <3>2, <3>3 DEF CliAgentStart
    <3>4. CASE CliAgentEnd(c) BY <3>1, <3>4 DEF CliAgentEnd
    <3> QED BY <1>14, <3>3, <3>4
  <2>6. UNCHANGED <<agents, turning, builds, resumed, reloads, pinned, conns,
                    at, painted, gone, reads, ghosts, bridge, raced, tornTwice>>
    BY <1>14 DEF CliAgentStart, CliAgentEnd
  <2> QED BY <2>4, <2>5, <2>6 DEF TypeOK
<1>15. ASSUME NEW a \in Agent, AgentStart(a) \/ AgentEnd(a) PROVE TypeOK'
  <2>1. agents[a].file \in File BY <1>15 DEF AgentStart, AgentEnd, Ownership, AgentShape
  <2>2. sessions[agents[a].file] \in Entry BY <2>1 DEF TypeOK
  <2>3. \A b \in BOOLEAN : [sessions[agents[a].file] EXCEPT !.idle = b] \in Entry
    BY <2>2, EntryTypes
  <2>4. sessions' \in [File -> Entry] BY <1>15, <2>1, <2>3 DEF AgentStart, AgentEnd, TypeOK
  <2>5. timers' \subseteq File \X EntryId /\ turning' \subseteq Agent
    BY <1>15, <2>1, <2>2, <2>3, TimerTypes, ZenonT(40) DEF AgentStart, AgentEnd, TypeOK
  <2>6. UNCHANGED <<agents, builds, resumed, reloads, pinned, conns,
                    at, painted, gone, reads, ghosts, bridge, raced, tornTwice>>
    BY <1>15 DEF AgentStart, AgentEnd
  <2> QED BY <2>4, <2>5, <2>6 DEF TypeOK
<1>16. ASSUME NEW f \in File, Send(f) \/ SendReturns(f) PROVE TypeOK'
  <2>1. sessions[f] \in Entry /\ sessions[f].busy \in Nat BY DEF TypeOK, Entry
  <2>2. /\ [sessions[f] EXCEPT !.busy = @ + 1] \in Entry
        /\ sessions[f].busy > 0 => [sessions[f] EXCEPT !.busy = @ - 1] \in Entry
    BY <2>1 DEF Entry
  <2>3. sessions' \in [File -> Entry] BY <1>16, <2>2 DEF Send, SendReturns, TypeOK
  <2>4. timers' \subseteq File \X EntryId BY <1>16, <2>1, TimerTypes DEF Send, SendReturns, TypeOK
  <2>5. UNCHANGED <<agents, turning, builds, resumed, reloads, pinned, conns,
                    at, painted, gone, reads, ghosts, bridge, raced, tornTwice>>
    BY <1>16 DEF Send, SendReturns
  <2> QED BY <2>3, <2>4, <2>5 DEF TypeOK
<1>17. ASSUME NEW f \in File, ReloadStart(f) PROVE TypeOK'
  <2>1. sessions[f] \in Entry /\ sessions[f].id \in EntryId BY DEF TypeOK, Entry
  <2>2. sessions[f].agent \in Agent BY <1>17 DEF ReloadStart, Ownership, EntryShape
  <2>3. [sessions[f] EXCEPT !.reloading = TRUE] \in Entry BY <2>1 DEF Entry
  <2>4. sessions' \in [File -> Entry] /\ reloads' \subseteq [file : File, id : EntryId]
    BY <1>17, <2>1, <2>3 DEF ReloadStart, TypeOK
  <2>5. Shutdown(sessions[f].agent) BY <1>17 DEF ReloadStart
  <2>6. UNCHANGED <<timers, builds, resumed, pinned, conns, at, painted, gone, reads, ghosts, bridge, raced>>
    BY <1>17 DEF ReloadStart
  <2> QED BY <2>2, <2>4, <2>5, <2>6, ShutdownType DEF TypeOK
<1>18. ASSUME NEW r \in reloads, NEW a \in Agent, ReloadDone(r, a) PROVE TypeOK'
  <2> DEFINE e == sessions[r.file]
             fresh == [e EXCEPT !.agent = a, !.idle = TRUE, !.reloading = FALSE]
  <2>1. r.file \in File /\ e \in Entry BY DEF TypeOK
  <2>2. fresh \in Entry BY <2>1 DEF Entry
  <2>3. sessions' \in [File -> Entry] /\ timers' \subseteq File \X EntryId
    BY <1>18, <2>1, <2>2, TimerTypes DEF ReloadDone, TypeOK
  <2>4. agents' \in [Agent -> [file : File \cup {None}, st : {"fresh", "live", "dead"}]]
    BY <1>18, <2>1 DEF ReloadDone, Rebuilt, TypeOK
  <2>5. reloads' \subseteq reloads BY <1>18 DEF ReloadDone
  <2>6. UNCHANGED <<turning, builds, resumed, pinned, conns, at, painted, gone, reads, ghosts, bridge, raced, tornTwice>>
    BY <1>18 DEF ReloadDone
  <2> QED BY <2>3, <2>4, <2>5, <2>6 DEF TypeOK
<1>19. ASSUME NEW r \in reloads, ReloadFailed(r) PROVE TypeOK'
  <2>1. r.file \in File /\ sessions[r.file] \in Entry BY DEF TypeOK
  <2>2. sessions' \in [File -> Entry] /\ timers' \subseteq File \X EntryId
    BY <1>19, <2>1, EntryTypes, TimerTypes DEF ReloadFailed, TypeOK
  <2>3. reloads' \subseteq reloads BY <1>19 DEF ReloadFailed
  <2>4. UNCHANGED <<agents, turning, builds, resumed, pinned, conns, at, painted, gone, reads, ghosts,
                    bridge, raced, tornTwice>>
    BY <1>19 DEF ReloadFailed
  <2> QED BY <2>2, <2>3, <2>4 DEF TypeOK
<1>20. ASSUME NEW f \in File, NEW i \in EntryId, IdleTimeout(f, i) PROVE TypeOK'
  <2>1. timers' \subseteq timers BY <1>20 DEF IdleTimeout, Cancelled
  <2>2. Destroy(f) BY <1>20 DEF IdleTimeout
  <2>3. UNCHANGED <<builds, resumed, reloads, pinned, at, painted, gone, reads, ghosts, bridge, raced>>
    BY <1>20 DEF IdleTimeout
  <2> QED BY <2>1, <2>2, <2>3, DestroyType DEF TypeOK
<1>21. ASSUME NEW f \in File, DeleteSession(f) PROVE TypeOK'
  <2>1. timers' \subseteq timers BY <1>21 DEF DeleteSession, Cancelled
  <2>2. Destroy(f) /\ at' \in [Viewer -> File \cup {None}] BY <1>21 DEF DeleteSession, TypeOK
  <2>3. UNCHANGED <<builds, resumed, reloads, pinned, painted, gone, reads, ghosts, bridge, raced>>
    BY <1>21 DEF DeleteSession
  <2> QED BY <2>1, <2>2, <2>3, DestroyType DEF TypeOK
<1>22. ASSUME NEW f \in File, PinSession(f) \/ UnpinSession(f) PROVE TypeOK'
  <2>1. sessions[f].id \in EntryId BY DEF TypeOK, Entry
  <2>2. timers' \subseteq File \X EntryId /\ pinned' \subseteq File
    BY <1>22, <2>1 DEF PinSession, UnpinSession, Cancelled, TypeOK
  <2>3. UNCHANGED <<sessions, agents, turning, builds, resumed, reloads, conns,
                    at, painted, gone, reads, ghosts, bridge, raced, tornTwice>>
    BY <1>22 DEF PinSession, UnpinSession
  <2> QED BY <2>2, <2>3 DEF TypeOK
<1>23. CASE UNCHANGED vars BY <1>23 DEF vars, TypeOK
<1> QED BY <1>1, <1>2, <1>a, <1>b, <1>3, <1>4, <1>5, <1>6, <1>7, <1>8, <1>9, <1>10, <1>11, <1>12, <1>13,
           <1>14, <1>15, <1>16, <1>17, <1>18, <1>19, <1>20, <1>21, <1>22, <1>23
       DEF Next, ViewerStep, LoadStep, BuildStep, BridgeStep, TurnStep, ReloadStep, PoolStep

--------------------
(* Who owns which agent. *)

\* What Ownership says of an entry leaves out who views it and whether it is idle.
SameOwner(e, d) ==
    /\ d.kind = e.kind /\ d.id = e.id /\ d.agent = e.agent
    /\ d.reloading = e.reloading /\ d.busy = e.busy

LEMMA OwnershipFrame ==
    ASSUME IInv, ConnShape',
           UNCHANGED <<agents, turning, tornTwice, reloads>>,
           \A f \in File : SameOwner(sessions[f], sessions'[f])
    PROVE  Ownership'
<1>1. EntryShape' BY DEF IInv, Ownership, EntryShape, SameOwner
<1>2. ReloadShape' BY DEF IInv, TypeOK, Ownership, ReloadShape, SameOwner
<1>3. AgentShape' BY DEF IInv, Ownership, AgentShape
<1> QED BY <1>1, <1>2, <1>3 DEF Ownership

LEMMA AttachOwner ==
    ASSUME TypeOK, NEW v \in Viewer, NEW f \in File, Attach(v, f)
    PROVE  \A g \in File : SameOwner(sessions[g], sessions'[g])
<1> SUFFICES ASSUME NEW g \in File PROVE SameOwner(sessions[g], sessions'[g]) OBVIOUS
<1>1. sessions[g] \in Entry BY DEF TypeOK
<1>2. \A V : SameOwner(sessions[g], [sessions[g] EXCEPT !.clients = V]) BY <1>1 DEF Entry, SameOwner
<1>3. SameOwner(sessions[g], sessions[g]) BY DEF SameOwner
<1> QED BY <1>2, <1>3 DEF Attach

LEMMA ReleaseOwner ==
    ASSUME TypeOK, NEW v \in Viewer, Release(v)
    PROVE  \A g \in File : SameOwner(sessions[g], sessions'[g])
<1> SUFFICES ASSUME NEW g \in File PROVE SameOwner(sessions[g], sessions'[g]) OBVIOUS
<1>1. sessions[g] \in Entry BY DEF TypeOK
<1>2. \A V : SameOwner(sessions[g], [sessions[g] EXCEPT !.clients = V]) BY <1>1 DEF Entry, SameOwner
<1>3. SameOwner(sessions[g], sessions[g]) BY DEF SameOwner
<1> QED BY <1>2, <1>3 DEF Release, TypeOK

\* The owner of a live agent shuts it down: nothing is shut down twice, and no
\* other entry loses its agent.
LEMMA ShutdownOwned ==
    ASSUME IInv, NEW f \in File, OwnsAgent(sessions[f]), Shutdown(sessions[f].agent)
    PROVE  /\ AgentShape'
           /\ \A a \in Agent : agents'[a].file = agents[a].file
           /\ \A a \in Agent : agents'[a].st = IF a = sessions[f].agent THEN "dead" ELSE agents[a].st
           /\ sessions[f].agent \in Agent
           /\ \A g \in File : sessions[g].kind = "server" /\ g # f
                                => sessions[g].agent # sessions[f].agent
<1>1. /\ sessions[f].agent \in Agent
      /\ agents[sessions[f].agent].file = f
      /\ agents[sessions[f].agent].st = "live"
  BY DEF IInv, Ownership, EntryShape, OwnsAgent
<1>2. \A a \in Agent : agents[a] \in [file : File \cup {None}, st : {"fresh", "live", "dead"}]
  BY DEF IInv, TypeOK
<1>3. \A a \in Agent : /\ agents'[a].file = agents[a].file
                       /\ agents'[a].st = IF a = sessions[f].agent THEN "dead" ELSE agents[a].st
  BY <1>1, <1>2 DEF Shutdown, IInv, TypeOK
<1>4. tornTwice' = {} BY <1>1 DEF Shutdown, IInv, Ownership, AgentShape
<1>5. turning' \subseteq Agent BY <1>1, ShutdownType DEF IInv
<1>6. turning' = turning \ {sessions[f].agent} BY DEF Shutdown
<1>7. AgentShape' BY <1>3, <1>4, <1>5, <1>6 DEF IInv, Ownership, AgentShape
<1>8. \A g \in File : sessions[g].kind = "server" /\ g # f
                        => sessions[g].agent # sessions[f].agent
  BY <1>1 DEF IInv, Ownership, EntryShape
<1> QED BY <1>1, <1>3, <1>7, <1>8

\* An entry is dropped, or replaced by a bridge entry, and a live agent it owned
\* is shut down in the same step.
LEMMA ReplacedOwner ==
    ASSUME IInv, ConnShape', NEW f \in File, NEW d,
           sessions' = [sessions EXCEPT ![f] = d],
           (d.kind = "none" /\ d.id = None) \/ (d.kind = "cli" /\ d.id \in Conn),
           ~d.reloading /\ d.busy = 0,
           UNCHANGED reloads,
           (OwnsAgent(sessions[f]) /\ Shutdown(sessions[f].agent)) \/ KeepAgents
    PROVE  Ownership'
<1>1. sessions'[f] = d /\ \A g \in File : g # f => sessions'[g] = sessions[g] BY DEF IInv, TypeOK
<1>2. d.id \notin Agent BY DistinctNames
<1>3. CASE KeepAgents
  <2>1. EntryShape' BY <1>1, <1>3 DEF KeepAgents, IInv, Ownership, EntryShape
  <2>2. ReloadShape' BY <1>1, <1>2, <1>3 DEF KeepAgents, IInv, TypeOK, Ownership, ReloadShape
  <2>3. AgentShape' BY <1>3 DEF KeepAgents, IInv, Ownership, AgentShape
  <2> QED BY <2>1, <2>2, <2>3 DEF Ownership
<1>4. CASE OwnsAgent(sessions[f]) /\ Shutdown(sessions[f].agent)
  <2>1. /\ AgentShape'
        /\ \A a \in Agent : agents'[a].file = agents[a].file
        /\ \A a \in Agent : agents'[a].st = IF a = sessions[f].agent THEN "dead" ELSE agents[a].st
        /\ \A g \in File : sessions[g].kind = "server" /\ g # f
                             => sessions[g].agent # sessions[f].agent
    BY <1>4, ShutdownOwned
  <2>2. EntryShape' BY <1>1, <2>1 DEF IInv, Ownership, EntryShape
  <2>3. ReloadShape' BY <1>1, <1>2, <2>1 DEF IInv, TypeOK, Ownership, ReloadShape
  <2> QED BY <2>1, <2>2, <2>3 DEF Ownership
<1> QED BY <1>3, <1>4

\* Every step keeps Ownership: one step per action.
LEMMA OwnershipStep ==
    ASSUME IInv, [Next]_vars
    PROVE  Ownership'
<1> USE DEF poolVars, viewVars, historyVars
<1>conn. ConnShape BY DEF IInv, Ownership
<1>keep. UNCHANGED conns => ConnShape' BY <1>conn DEF ConnShape
<1>rec. \A g \in File : sessions[g] \in Entry /\ SameOwner(sessions[g], sessions[g])
  BY DEF IInv, TypeOK, SameOwner
<1>read. \A r \in reads : r.who \in Viewer /\ r.file \in File BY ReadsType DEF IInv
<1>1. ASSUME NEW r \in reads, OpenWarm(r) PROVE Ownership'
  BY <1>1, <1>read, <1>keep, AttachOwner, OwnershipFrame DEF OpenWarm, IInv
<1>2. ASSUME NEW r \in reads, OpenCold(r) PROVE Ownership'
  BY <1>2, <1>keep, <1>rec, OwnershipFrame DEF OpenCold
<1>a. ASSUME NEW r \in reads, OpenLocked(r) PROVE Ownership'
  BY <1>a, <1>read, <1>keep, ReleaseOwner, OwnershipFrame DEF OpenLocked, Detach, IInv
<1>b. ASSUME (\E v \in Viewer, f \in File : LoadStart(v, f)) \/ \E r \in reads : ReadFails(r)
       PROVE  Ownership'
  BY <1>b, <1>keep, <1>rec, OwnershipFrame DEF LoadStart, ReadFails
<1>3. ASSUME NEW v \in Viewer, Leave(v) PROVE Ownership'
  BY <1>3, <1>keep, ReleaseOwner, OwnershipFrame DEF Leave, Detach, IInv
<1>4. ASSUME NEW v \in Viewer, ViewerGone(v) PROVE Ownership'
  BY <1>4, <1>keep, ReleaseOwner, OwnershipFrame DEF ViewerGone, IInv
<1>5. ASSUME NEW f \in File, LoadUnviewed(f) PROVE Ownership'
  BY <1>5, <1>keep, <1>rec, OwnershipFrame DEF LoadUnviewed
<1>6. ASSUME NEW f \in File, NEW a \in Agent, BuildDone(f, a) PROVE Ownership'
  <2>1. /\ agents' = [agents EXCEPT ![a] = [file |-> f, st |-> "live"]]
        /\ sessions' = [sessions EXCEPT ![f] = ServerEntry(a)]
        /\ agents[a].st = "fresh"
        /\ UNCHANGED <<reloads, conns, turning, tornTwice>>
    BY <1>6 DEF BuildDone
  <2>2. EntryShape' BY <2>1 DEF IInv, TypeOK, Ownership, EntryShape, ServerEntry, NoEntry
  <2>3. ReloadShape' BY <2>1 DEF IInv, TypeOK, Ownership, ReloadShape, ServerEntry, NoEntry
  <2>4. AgentShape' BY <2>1 DEF IInv, TypeOK, Ownership, AgentShape
  <2> QED BY <2>1, <2>2, <2>3, <2>4, <1>keep DEF Ownership
<1>7. ASSUME NEW f \in File, BuildFailed(f) PROVE Ownership'
  BY <1>7, <1>keep, <1>rec, OwnershipFrame DEF BuildFailed
<1>8. CASE Resume
  <2> DEFINE k == Head(resumed)
  <2>1. resumed \in Seq(Continuation) /\ resumed # <<>> BY <1>8 DEF Resume, Settled, IInv, TypeOK
  <2>a. k \in Continuation BY <2>1
  <2>2. k.file \in File /\ k.who \subseteq Viewer BY <2>a DEF Continuation
  <2> HIDE DEF k
  <2>3. \A g \in File : SameOwner(sessions[g], sessions'[g])
    <3>1. ASSUME NEW v \in k.who, ResumeView(v, k.file)
          PROVE  \A g \in File : SameOwner(sessions[g], sessions'[g])
      BY <3>1, <2>2, <1>rec, AttachOwner DEF ResumeView, IInv
    <3>2. ASSUME ResumeHandback(k.file, k.who)
          PROVE  \A g \in File : SameOwner(sessions[g], sessions'[g])
      <4>1. SameOwner(sessions[k.file], [sessions[k.file] EXCEPT !.clients = k.who])
        BY <2>2, <1>rec DEF Entry, SameOwner
      <4> QED BY <3>2, <4>1, <2>2, <1>rec DEF ResumeHandback, IInv, TypeOK
    <3> QED BY <1>8, <3>1, <3>2, <1>rec DEF Resume, k
  <2> QED BY <1>8, <2>3, <1>keep, OwnershipFrame DEF Resume
<1>9. ASSUME NEW c \in Conn, NEW f \in File, RegisterCold(c, f) PROVE Ownership'
  <2>1. ConnShape' BY <1>9, <1>conn DEF RegisterCold, ConnShape, IInv, TypeOK
  <2> QED BY <1>9, <2>1, <1>rec, OwnershipFrame DEF RegisterCold
<1>10. ASSUME NEW c \in Conn, NEW f \in File, NEW s \in BOOLEAN, RegisterResident(c, f, s)
       PROVE  Ownership'
  <2> DEFINE d == CliEntry(c, sessions[f].clients, s)
  <2>1. ConnShape' BY <1>10, <1>conn DEF RegisterResident, ConnShape, IInv, TypeOK
  <2>2. d.kind = "cli" /\ d.id \in Conn /\ ~d.reloading /\ d.busy = 0 BY DEF CliEntry, NoEntry
  <2>3. sessions' = [sessions EXCEPT ![f] = d] /\ UNCHANGED reloads BY <1>10 DEF RegisterResident
  <2>4. (OwnsAgent(sessions[f]) /\ Shutdown(sessions[f].agent)) \/ KeepAgents
    BY <1>10 DEF RegisterResident
  <2> HIDE DEF d
  <2> QED BY <2>1, <2>2, <2>3, <2>4, ReplacedOwner
<1>11. ASSUME NEW c \in Conn, NEW s \in BOOLEAN, HeaderRead(c, s) PROVE Ownership'
  <2> DEFINE d == CliEntry(c, {}, s)
  <2>1. conns[c].file \in File /\ ConnShape'
    BY <1>11, <1>conn DEF HeaderRead, ConnShape, IInv, TypeOK
  <2>2. d.kind = "cli" /\ d.id \in Conn /\ ~d.reloading /\ d.busy = 0 BY DEF CliEntry, NoEntry
  <2>3. sessions' = [sessions EXCEPT ![conns[c].file] = d] /\ UNCHANGED reloads /\ KeepAgents
    BY <1>11 DEF HeaderRead, KeepAgents
  <2> HIDE DEF d
  <2> QED BY <2>1, <2>2, <2>3, ReplacedOwner
<1>12. ASSUME NEW c \in Conn, RegisterRefused(c) PROVE Ownership'
  <2>1. ConnShape' BY <1>12, <1>conn DEF RegisterRefused, ConnShape, IInv, TypeOK
  <2> QED BY <1>12, <2>1, <1>rec, OwnershipFrame DEF RegisterRefused
<1>13. ASSUME NEW c \in Conn, BridgeClosed(c) PROVE Ownership'
  <2>1. conns[c].file \in File /\ ConnShape'
    BY <1>13, <1>conn DEF BridgeClosed, ConnShape, IInv, TypeOK
  <2>2. UNCHANGED <<agents, turning, tornTwice, reloads>> BY <1>13 DEF BridgeClosed
  <2>3. CASE DropsBridge(sessions[conns[c].file])
    <3>1. sessions' = [sessions EXCEPT ![conns[c].file] = NoEntry] BY <1>13, <2>3 DEF BridgeClosed
    <3>2. NoEntry.kind = "none" /\ NoEntry.id = None /\ ~NoEntry.reloading /\ NoEntry.busy = 0
      BY DEF NoEntry
    <3> QED BY <2>1, <2>2, <3>1, <3>2, ReplacedOwner DEF KeepAgents
  <2>4. CASE ~DropsBridge(sessions[conns[c].file])
    <3>1. sessions' = sessions BY <1>13, <2>4 DEF BridgeClosed
    <3> QED BY <2>1, <2>2, <3>1, <1>rec, OwnershipFrame
  <2> QED BY <2>3, <2>4
<1>14. ASSUME NEW c \in Conn, CliAgentStart(c) \/ CliAgentEnd(c) PROVE Ownership'
  <2>1. conns[c].file \in File BY <1>14, <1>conn DEF CliAgentStart, CliAgentEnd, ConnShape
  <2>2. \A b \in BOOLEAN : SameOwner(sessions[conns[c].file],
                                     [sessions[conns[c].file] EXCEPT !.idle = b])
    BY <2>1, <1>rec DEF Entry, SameOwner
  <2>3. \A g \in File : SameOwner(sessions[g], sessions'[g])
    BY <1>14, <2>1, <2>2, <1>rec DEF CliAgentStart, CliAgentEnd, IInv, TypeOK
  <2> QED BY <1>14, <2>3, <1>keep, OwnershipFrame DEF CliAgentStart, CliAgentEnd
<1>15. ASSUME NEW a \in Agent, AgentStart(a) \/ AgentEnd(a) PROVE Ownership'
  <2>1. agents[a].st = "live" /\ agents[a].file \in File
    BY <1>15 DEF AgentStart, AgentEnd, IInv, Ownership, AgentShape
  <2>2. \A b \in BOOLEAN : SameOwner(sessions[agents[a].file],
                                     [sessions[agents[a].file] EXCEPT !.idle = b])
    BY <2>1, <1>rec DEF Entry, SameOwner
  <2>3. \A g \in File : SameOwner(sessions[g], sessions'[g])
    BY <1>15, <2>1, <2>2, <1>rec DEF AgentStart, AgentEnd, IInv, TypeOK
  <2>4. UNCHANGED <<agents, tornTwice, reloads, conns>> BY <1>15 DEF AgentStart, AgentEnd
  <2>5. EntryShape' /\ ReloadShape'
    <3>1. EntryShape' BY <2>3, <2>4 DEF IInv, Ownership, EntryShape, SameOwner
    <3>2. ReloadShape' BY <2>3, <2>4 DEF IInv, TypeOK, Ownership, ReloadShape, SameOwner
    <3> QED BY <3>1, <3>2
  <2>6. AgentShape' BY <1>15, <2>1, <2>4 DEF AgentStart, AgentEnd, IInv, Ownership, AgentShape
  <2> QED BY <2>4, <2>5, <2>6, <1>keep DEF Ownership
<1>16. ASSUME NEW f \in File, Send(f) \/ SendReturns(f) PROVE Ownership'
  <2>1. UNCHANGED <<agents, turning, tornTwice, reloads, conns>> BY <1>16 DEF Send, SendReturns
  <2>2. \A g \in File : g # f => sessions'[g] = sessions[g]
    BY <1>16 DEF Send, SendReturns, IInv, TypeOK
  <2>3. \/ sessions'[f] = sessions[f]
        \/ /\ sessions[f].kind = "server" /\ ~sessions[f].reloading
           /\ \E n : sessions'[f] = [sessions[f] EXCEPT !.busy = n]
    <3>1. CASE Send(f) BY <3>1 DEF Send, IInv, TypeOK
    <3>2. CASE SendReturns(f)
      <4>1. sessions[f].busy > 0 /\ sessions'[f] = [sessions[f] EXCEPT !.busy = @ - 1]
        BY <3>2 DEF SendReturns, IInv, TypeOK
      <4>2. sessions[f].busy # 0 BY <4>1
      <4>3. sessions[f].kind = "server" /\ ~sessions[f].reloading
        BY <4>2 DEF IInv, Ownership, EntryShape
      <4> QED BY <4>1, <4>3
    <3> QED BY <1>16, <3>1, <3>2
  <2>4. /\ sessions'[f].kind = sessions[f].kind /\ sessions'[f].id = sessions[f].id
        /\ sessions'[f].agent = sessions[f].agent
        /\ sessions'[f].reloading = sessions[f].reloading
        /\ \/ sessions'[f].busy = sessions[f].busy
           \/ sessions[f].kind = "server" /\ ~sessions[f].reloading
    BY <2>3, <1>rec DEF Entry
  <2>5. EntryShape' BY <2>1, <2>2, <2>4 DEF IInv, Ownership, EntryShape
  <2>6. ReloadShape' /\ AgentShape'
    BY <2>1, <2>2, <2>4, SMTT(30) DEF IInv, TypeOK, Ownership, ReloadShape, AgentShape
  <2> QED BY <2>1, <2>5, <2>6, <1>keep DEF Ownership
<1>17. ASSUME NEW f \in File, ReloadStart(f) PROVE Ownership'
  <2>1. /\ sessions[f].kind = "server" /\ ~sessions[f].reloading /\ sessions[f].busy = 0
        /\ sessions' = [sessions EXCEPT ![f].reloading = TRUE]
        /\ reloads' = reloads \cup {[file |-> f, id |-> sessions[f].id]}
        /\ UNCHANGED conns
    BY <1>17 DEF ReloadStart, Quiet
  <2>2. OwnsAgent(sessions[f]) /\ Shutdown(sessions[f].agent) BY <1>17 DEF ReloadStart, OwnsAgent
  <2>3. /\ AgentShape'
        /\ \A a \in Agent : agents'[a].file = agents[a].file
        /\ \A a \in Agent : agents'[a].st = IF a = sessions[f].agent THEN "dead" ELSE agents[a].st
        /\ \A g \in File : sessions[g].kind = "server" /\ g # f
                             => sessions[g].agent # sessions[f].agent
    BY <2>2, ShutdownOwned
  <2>4. /\ sessions'[f].kind = "server" /\ sessions'[f].id = sessions[f].id
        /\ sessions'[f].agent = sessions[f].agent /\ sessions'[f].busy = 0
        /\ sessions'[f].reloading
        /\ \A g \in File : g # f => sessions'[g] = sessions[g]
    BY <2>1, <1>rec DEF Entry, IInv, TypeOK
  <2>5. EntryShape' BY <2>1, <2>3, <2>4 DEF IInv, Ownership, EntryShape
  <2>6. ReloadShape'
    <3>1. sessions[f].id \in Agent /\ agents[sessions[f].id].st # "fresh"
      BY <2>1 DEF IInv, Ownership, EntryShape
    <3>2. \A a \in Agent : agents[a].st # "fresh" => agents'[a].st # "fresh" BY <2>3
    <3>3. \A r \in reloads : /\ r.file \in File /\ r.id \in Agent /\ agents[r.id].st # "fresh"
                             /\ sessions[r.file].id = r.id => sessions[r.file].reloading
      BY DEF IInv, TypeOK, Ownership, ReloadShape
    <3>4. \A r \in reloads' : r \in reloads \/ (r.file = f /\ r.id = sessions[f].id) BY <2>1
    <3> QED BY <2>4, <3>1, <3>2, <3>3, <3>4 DEF ReloadShape
  <2> QED BY <2>1, <2>3, <2>5, <2>6, <1>keep DEF Ownership
<1>18. ASSUME NEW r \in reloads, NEW a \in Agent, ReloadDone(r, a) PROVE Ownership'
  <2> DEFINE e == sessions[r.file]
             mine == e.id = r.id
  <2>1. r.file \in File /\ r \in [file : File, id : EntryId] BY DEF IInv, TypeOK
  <2>2. /\ agents[a].st = "fresh"
        /\ agents' = [agents EXCEPT ![a] = [file |-> r.file, st |-> Rebuilt(mine)]]
        /\ reloads' = reloads \ {r}
        /\ UNCHANGED <<turning, tornTwice, conns>>
    BY <1>18 DEF ReloadDone
  <2>3. /\ \A b \in Agent : b # a => agents'[b] = agents[b]
        /\ agents'[a].file = r.file /\ agents'[a].st = Rebuilt(mine)
        /\ agents'[a].st # "fresh"
    BY <2>2 DEF IInv, TypeOK, Rebuilt
  <2>4. \A g \in File : g # r.file => sessions'[g] = sessions[g]
    BY <1>18, <2>1 DEF ReloadDone, IInv, TypeOK
  <2>5. \A q \in reloads : q.file = r.file /\ q.id = r.id => q = r
    <3>1. \A q \in [file : File, id : EntryId] : q = [file |-> q.file, id |-> q.id] OBVIOUS
    <3>2. reloads \subseteq [file : File, id : EntryId] BY DEF IInv, TypeOK
    <3> QED BY <2>1, <3>1, <3>2
  <2>6. AgentShape' BY <2>1, <2>2, <2>3 DEF IInv, Ownership, AgentShape, TypeOK
  <2>7. CASE mine
    <3>1. /\ sessions'[r.file].kind = "server" /\ sessions'[r.file].id = r.id
          /\ sessions'[r.file].agent = a /\ ~sessions'[r.file].reloading
      <4>1. e.kind = "server"
        BY <2>1, <2>7, <1>rec, DistinctNames DEF IInv, Ownership, EntryShape, ReloadShape, Entry
      <4>2. sessions'[r.file] = [e EXCEPT !.agent = a, !.idle = TRUE, !.reloading = FALSE]
        BY <1>18, <2>1, <2>7 DEF ReloadDone, IInv, TypeOK
      <4>3. e \in Entry BY <2>1, <1>rec
      <4> QED BY <2>7, <4>1, <4>2, <4>3 DEF Entry
    <3>2. EntryShape'
      <4> SUFFICES ASSUME NEW g \in File
                   PROVE  LET d == sessions'[g] IN
                          /\ d.kind = "none" => d.id = None
                          /\ d.kind = "cli" => d.id \in Conn
                          /\ d.kind # "server" => ~d.reloading /\ d.busy = 0
                          /\ d.kind = "server" => /\ d.id \in Agent /\ agents'[d.id].st # "fresh"
                                                  /\ d.agent \in Agent /\ agents'[d.agent].file = g
                          /\ d.kind = "server" /\ ~d.reloading => agents'[d.agent].st = "live"
                          /\ d.reloading => /\ d.busy = 0
                                            /\ agents'[d.agent].st = "dead"
                                            /\ [file |-> g, id |-> d.id] \in reloads'
        BY DEF EntryShape
      <4>1. CASE g = r.file
        <5>1. r.id \in Agent /\ agents'[r.id].st # "fresh" BY <2>3 DEF IInv, Ownership, ReloadShape
        <5> QED BY <4>1, <5>1, <2>3, <2>7, <3>1 DEF Rebuilt
      <4>2. CASE g # r.file
        <5>1. [file |-> g, id |-> sessions[g].id] # r BY <4>2
        <5> QED BY <4>2, <5>1, <2>2, <2>3, <2>4 DEF IInv, Ownership, EntryShape
      <4> QED BY <4>1, <4>2
    <3>3. ReloadShape'
      BY <2>1, <2>2, <2>3, <2>4, <2>5, <3>1 DEF IInv, TypeOK, Ownership, ReloadShape
    <3> QED BY <2>2, <2>6, <3>2, <3>3, <1>keep DEF Ownership
  <2>8. CASE ~mine
    <3>1. sessions' = sessions BY <1>18, <2>8 DEF ReloadDone
    <3>2. \A g \in File : [file |-> g, id |-> sessions[g].id] # r BY <2>8
    <3>3. EntryShape' BY <2>2, <2>3, <3>1, <3>2 DEF IInv, Ownership, EntryShape
    <3>4. ReloadShape' BY <2>2, <2>3, <3>1 DEF IInv, TypeOK, Ownership, ReloadShape
    <3> QED BY <2>2, <2>6, <3>3, <3>4, <1>keep DEF Ownership
  <2> QED BY <2>7, <2>8
<1>19. ASSUME NEW r \in reloads, ReloadFailed(r) PROVE Ownership'
  <2>1. r.file \in File /\ r \in [file : File, id : EntryId] BY DEF IInv, TypeOK
  <2>2. reloads' = reloads \ {r} /\ UNCHANGED <<agents, turning, tornTwice, conns>>
    BY <1>19 DEF ReloadFailed
  <2>3. \A g \in File : g # r.file => sessions'[g] = sessions[g]
    BY <1>19, <2>1 DEF ReloadFailed, IInv, TypeOK
  <2>4. \/ sessions[r.file].id = r.id /\ sessions'[r.file] = NoEntry
        \/ sessions[r.file].id # r.id /\ sessions'[r.file] = sessions[r.file]
    BY <1>19, <2>1 DEF ReloadFailed, IInv, TypeOK
  <2>5. \A g \in File : sessions'[g] = sessions[g] =>
            g # r.file \/ sessions[g].id # r.id
    BY <2>1, <2>4, DistinctNames DEF NoEntry, IInv, Ownership, ReloadShape
  <2>6. EntryShape'
    <3>1. \A g \in File : \/ sessions'[g] = NoEntry
                           \/ /\ sessions'[g] = sessions[g]
                              /\ [file |-> g, id |-> sessions[g].id] # r
      <4> SUFFICES ASSUME NEW g \in File, sessions'[g] # NoEntry
                   PROVE  sessions'[g] = sessions[g] /\ [file |-> g, id |-> sessions[g].id] # r
        OBVIOUS
      <4>1. sessions'[g] = sessions[g] BY <2>3, <2>4
      <4>2. g # r.file \/ sessions[g].id # r.id BY <2>5, <4>1
      <4>3. [file |-> g, id |-> sessions[g].id].file = g OBVIOUS
      <4>4. [file |-> g, id |-> sessions[g].id].id = sessions[g].id OBVIOUS
      <4> QED BY <4>1, <4>2, <4>3, <4>4
    <3>2. \A g \in File : [file |-> g, id |-> sessions[g].id] \in reloads /\
                           [file |-> g, id |-> sessions[g].id] # r
                              => [file |-> g, id |-> sessions[g].id] \in reloads'
      BY <2>2
    <3> QED BY <2>2, <3>1, <3>2 DEF NoEntry, IInv, Ownership, EntryShape
  <2>7. ReloadShape' /\ AgentShape'
    <3>1. \A q \in reloads : /\ q.file \in File /\ q.id \in Agent /\ agents[q.id].st # "fresh"
                             /\ sessions[q.file].id = q.id => sessions[q.file].reloading
      BY DEF IInv, TypeOK, Ownership, ReloadShape
    <3>2. NoEntry.id \notin Agent BY DistinctNames DEF NoEntry
    <3>3. \A g \in File : sessions'[g] = NoEntry \/ sessions'[g] = sessions[g] BY <2>3, <2>4
    <3>4. ReloadShape' BY <2>2, <3>1, <3>2, <3>3 DEF ReloadShape
    <3> QED BY <2>2, <3>4 DEF IInv, Ownership, AgentShape
  <2> QED BY <2>2, <2>6, <2>7, <1>keep DEF Ownership
<1>20. ASSUME NEW f \in File, Destroy(f), UNCHANGED reloads PROVE Ownership'
  <2>1. ConnShape'
    <3>1. sessions[f].kind = "cli" => sessions[f].id \in Conn BY DEF IInv, Ownership, EntryShape
    <3> QED BY <1>20, <3>1, <1>conn DEF Destroy, ConnShape, IInv, TypeOK
  <2>2. sessions' = [sessions EXCEPT ![f] = NoEntry] BY <1>20 DEF Destroy
  <2>3. (OwnsAgent(sessions[f]) /\ Shutdown(sessions[f].agent)) \/ KeepAgents BY <1>20 DEF Destroy
  <2>4. NoEntry.kind = "none" /\ NoEntry.id = None /\ ~NoEntry.reloading /\ NoEntry.busy = 0
    BY DEF NoEntry
  <2> DEFINE d == NoEntry
  <2>5. d.kind = "none" /\ d.id = None /\ ~d.reloading /\ d.busy = 0 BY <2>4
  <2>6. sessions' = [sessions EXCEPT ![f] = d] /\ UNCHANGED reloads BY <1>20, <2>2
  <2> HIDE DEF d
  <2> QED BY <2>1, <2>3, <2>5, <2>6, ReplacedOwner
<1>21. ASSUME NEW f \in File, \/ \E i \in EntryId : IdleTimeout(f, i)
                              \/ DeleteSession(f)
       PROVE  Ownership'
  BY <1>20, <1>21 DEF IdleTimeout, DeleteSession
<1>22. ASSUME NEW f \in File, PinSession(f) \/ UnpinSession(f) PROVE Ownership'
  <2>1. UNCHANGED <<sessions, agents, turning, tornTwice, reloads, conns>>
    BY <1>22 DEF PinSession, UnpinSession
  <2> QED BY <2>1, <1>keep, <1>rec, OwnershipFrame
<1>23. CASE UNCHANGED vars BY <1>23, <1>keep, <1>rec, OwnershipFrame DEF vars
<1> QED BY <1>1, <1>2, <1>a, <1>b, <1>3, <1>4, <1>5, <1>6, <1>7, <1>8, <1>9, <1>10, <1>11, <1>12, <1>13,
           <1>14, <1>15, <1>16, <1>17, <1>18, <1>19, <1>21, <1>22, <1>23
       DEF Next, ViewerStep, LoadStep, BuildStep, BridgeStep, TurnStep, ReloadStep, PoolStep

--------------------
(* The theorems. *)

LEMMA InitIInv == Init => IInv
<1> SUFFICES ASSUME Init PROVE IInv OBVIOUS
<1>1. TypeOK
  <2>1. sessions \in [File -> Entry] BY EntryTypes DEF Init
  <2>2. builds \in [File -> Seq(Waiter)] /\ resumed \in Seq(Continuation) BY DEF Init
  <2>3. /\ agents \in [Agent -> [file : File \cup {None}, st : {"fresh", "live", "dead"}]]
        /\ conns \in [Conn -> [st : {"new", "reading", "orphaned", "open", "closing", "closed"},
                               file : File \cup {None}]]
    BY DEF Init
  <2> QED BY <2>1, <2>2, <2>3 DEF Init, TypeOK
<1>2. Ownership BY DEF Init, Ownership, EntryShape, ReloadShape, AgentShape, ConnShape, NoEntry
<1> QED BY <1>1, <1>2 DEF IInv

\* The inductive invariant holds in every reachable state.
THEOREM Invariance == Spec => []IInv
<1>1. IInv /\ [Next]_vars => IInv' BY TypeStep, OwnershipStep DEF IInv
<1> QED BY InitIInv, <1>1, PTL DEF Spec

\* Type correctness: whatever the handlers do and in whichever order, the pool,
\* its timers, agents, builds and reloads keep their types.
THEOREM TypeCorrect == Spec => []TypeOK
<1>1. IInv => TypeOK BY DEF IInv
<1> QED BY <1>1, Invariance, PTL

\* No agent is shut down twice (shutdownAndDisposeAgentSession), however deletes,
\* evictions, takeovers and reloads interleave.
THEOREM NeverShutDownTwice == Spec => []ShutDownOnce
<1>1. IInv => ShutDownOnce BY DEF IInv, Ownership, AgentShape, ShutDownOnce
<1> QED BY <1>1, Invariance, PTL

\* While reloadSession rebuilds an entry's agent, nothing is in flight on the
\* entry and its agent has no turn.
THEOREM ReloadExcludesUse == Spec => []ReloadIsExclusive
<1>1. IInv => ReloadIsExclusive BY DEF IInv, Ownership, EntryShape, AgentShape, ReloadIsExclusive
<1> QED BY <1>1, Invariance, PTL

\* A server entry outside a reload names a live agent of its own file.
THEOREM ServerEntryHasAgent == Spec => []EntryHasAgent
<1>1. IInv => EntryHasAgent BY DEF IInv, Ownership, EntryShape, EntryHasAgent, Live
<1> QED BY <1>1, Invariance, PTL

\* The two together: whoever finds an entry of the pool may use it.
THEOREM EntriesAreUsable == Spec => []EntryIsUsable
<1>1. ReloadIsExclusive /\ EntryHasAgent => EntryIsUsable BY DEF EntryIsUsable
<1> QED BY <1>1, ReloadExcludesUse, ServerEntryHasAgent, PTL

--------------------
(* What holds of a file until a named race hits it.  The inductive         *)
(* invariant is IInv with Standing.                                        *)

\* The three parts of Standing, each kept by the steps on its own grounds: who
\* drives a file, who is attached to it, and what is timed.
Driving == BridgeShape /\ DriverHasEntry /\ BridgeEntryIsOpenUnlessRaced /\ NoLeakUnlessRaced
Viewing == NoPhantomUnlessRaced
Timing == ViewedIsNotTimed /\ TimedIsResident

LEMMA StandingParts == Standing <=> Driving /\ Viewing /\ Timing
BY DEF Standing, Driving, Viewing, Timing, EntryIsTrueUnlessRaced

--------------------
(* Who drives a file. *)

\* What Driving says of an entry: who it stands for.
SameDriver(e, d) == d.kind = e.kind /\ d.id = e.id /\ d.agent = e.agent

LEMMA OwnerIsDriver == \A e, d : SameOwner(e, d) => SameDriver(e, d)
BY DEF SameOwner, SameDriver

LEMMA DrivingFrame ==
    ASSUME Driving, UNCHANGED <<agents, conns, bridge>>, raced \subseteq raced',
           \A f \in File : SameDriver(sessions[f], sessions'[f])
    PROVE  Driving'
<1>1. BridgeShape' BY DEF Driving, BridgeShape, SameDriver
<1>2. DriverHasEntry' BY DEF Driving, DriverHasEntry, TerminalDrives, SameDriver
<1>3. BridgeEntryIsOpenUnlessRaced'
  BY DEF Driving, BridgeEntryIsOpenUnlessRaced, BridgeEntryIsOpen, SameDriver
<1>4. NoLeakUnlessRaced' BY DEF Driving, NoLeakUnlessRaced, Live, SameDriver
<1> QED BY <1>1, <1>2, <1>3, <1>4 DEF Driving

\* A socket's state changes: its file and the other sockets stay.
LEMMA ConnMoved ==
    ASSUME TypeOK, NEW c \in Conn, NEW s, conns' = [conns EXCEPT ![c].st = s]
    PROVE  /\ conns'[c].st = s /\ conns'[c].file = conns[c].file
           /\ \A d \in Conn : d # c => conns'[d] = conns[d]
<1>1. /\ [conns[c] EXCEPT !.st = s].st = s
      /\ [conns[c] EXCEPT !.st = s].file = conns[c].file
  BY DEF TypeOK
<1>2. conns' = [conns EXCEPT ![c] = [conns[c] EXCEPT !.st = s]] OBVIOUS
<1> QED BY <1>1, <1>2 DEF TypeOK

\* The agent of an unraced file is its entry's: once the entry is replaced, with
\* its agent shut down or left to its reload (which did that), none is live.
LEMMA ReplacedLeaksNothing ==
    ASSUME IInv, NoLeakUnlessRaced, NEW f \in File, raced' = raced,
           \A g \in File : g # f => sessions'[g] = sessions[g],
           (OwnsAgent(sessions[f]) /\ Shutdown(sessions[f].agent))
              \/ (~OwnsAgent(sessions[f]) /\ KeepAgents)
    PROVE  NoLeakUnlessRaced'
<1>1. CASE OwnsAgent(sessions[f]) /\ Shutdown(sessions[f].agent)
  <2>1. /\ \A a \in Agent : agents'[a].file = agents[a].file
        /\ \A a \in Agent : agents'[a].st = IF a = sessions[f].agent THEN "dead" ELSE agents[a].st
    BY <1>1, ShutdownOwned
  <2> QED BY <2>1 DEF NoLeakUnlessRaced, Live
<1>2. CASE ~OwnsAgent(sessions[f]) /\ KeepAgents
  <2>1. f \notin raced => Live(f) = {}
    <3> SUFFICES ASSUME f \notin raced, NEW a \in Live(f) PROVE FALSE OBVIOUS
    <3>1. sessions[f].kind = "server" /\ sessions[f].agent = a BY DEF NoLeakUnlessRaced
    <3>2. sessions[f].reloading BY <1>2, <3>1 DEF OwnsAgent
    <3>3. agents[a].st = "dead" BY <3>1, <3>2 DEF IInv, Ownership, EntryShape
    <3> QED BY <3>3 DEF Live
  <2> QED BY <1>2, <2>1 DEF KeepAgents, NoLeakUnlessRaced, Live
<1> QED BY <1>1, <1>2

\* An entry is dropped with its socket told to close: no other file's entry or
\* driver is that socket.
LEMMA DestroyDriving ==
    ASSUME IInv, Driving, NEW f \in File, Destroy(f), UNCHANGED <<bridge, raced>>
    PROVE  Driving'
<1>1. /\ sessions'[f].kind = "none"
      /\ \A g \in File : g # f => sessions'[g] = sessions[g]
  BY DEF Destroy, NoEntry, IInv, TypeOK
<1>2. \A c \in Conn :
        /\ conns'[c].file = conns[c].file
        /\ conns'[c].st = IF sessions[f].kind = "cli" /\ c = sessions[f].id /\ conns[c].st = "open"
                          THEN "closing" ELSE conns[c].st
  <2>1. CASE sessions[f].kind = "cli" /\ conns[sessions[f].id].st = "open"
    <3>1. sessions[f].id \in Conn BY <2>1 DEF IInv, Ownership, EntryShape
    <3>2. conns' = [conns EXCEPT ![sessions[f].id].st = "closing"] BY <2>1 DEF Destroy
    <3>3. /\ conns'[sessions[f].id].st = "closing"
          /\ conns'[sessions[f].id].file = conns[sessions[f].id].file
          /\ \A d \in Conn : d # sessions[f].id => conns'[d] = conns[d]
      BY <3>1, <3>2, ConnMoved DEF IInv
    <3> QED BY <2>1, <3>1, <3>3
  <2>2. CASE ~(sessions[f].kind = "cli" /\ conns[sessions[f].id].st = "open") BY <2>2 DEF Destroy
  <2> QED BY <2>1, <2>2
<1>id. \A g \in File : /\ sessions[g].kind = "cli" => sessions[g].id \in Conn
                       /\ bridge[g] \in Conn \cup {None}
  BY DEF IInv, TypeOK, Ownership, EntryShape
<1>3. BridgeShape'
  <2> SUFFICES ASSUME NEW g \in File
               PROVE  /\ sessions'[g].kind = "cli" =>
                            /\ conns'[sessions'[g].id].file = g
                            /\ conns'[sessions'[g].id].st \in {"open", "closing", "closed"}
                      /\ bridge'[g] # None => conns'[bridge'[g]].st \in {"open", "closing", "closed"}
    BY DEF BridgeShape
  <2> QED BY <1>1, <1>2, <1>id DEF Driving, BridgeShape
<1>4. DriverHasEntry' BY <1>1, <1>2, <1>id DEF Driving, DriverHasEntry, TerminalDrives
<1>5. BridgeEntryIsOpenUnlessRaced'
  <2> SUFFICES ASSUME NEW g \in File, g \notin raced, sessions'[g].kind = "cli"
               PROVE  conns'[sessions'[g].id].st = "open"
    BY DEF BridgeEntryIsOpenUnlessRaced, BridgeEntryIsOpen
  <2>1. g # f /\ sessions[g].kind = "cli" /\ sessions'[g].id = sessions[g].id BY <1>1
  <2>2. conns[sessions[g].id].st = "open" /\ conns[sessions[g].id].file = g
    BY <2>1 DEF Driving, BridgeEntryIsOpenUnlessRaced, BridgeEntryIsOpen, BridgeShape
  <2>3. sessions[f].kind = "cli" => conns[sessions[f].id].file = f BY DEF Driving, BridgeShape
  <2> QED BY <1>2, <1>id, <2>1, <2>2, <2>3
<1>6. NoLeakUnlessRaced' BY <1>1, ReplacedLeaksNothing DEF Destroy, Driving
<1> QED BY <1>3, <1>4, <1>5, <1>6 DEF Driving

\* Every step keeps Driving: the steps that touch who drives a file, one by one.
LEMMA DrivingStep ==
    ASSUME IInv, Driving, TimedIsResident, [Next]_vars
    PROVE  Driving'
<1> USE DEF poolVars, viewVars, historyVars
<1>rec. \A g \in File : sessions[g] \in Entry /\ SameDriver(sessions[g], sessions[g])
  BY DEF IInv, TypeOK, SameDriver
<1>id. \A g \in File : /\ sessions[g].kind = "cli" => sessions[g].id \in Conn
                       /\ bridge[g] \in Conn \cup {None}
  BY DEF IInv, TypeOK, Ownership, EntryShape
<1>conn. \A c \in Conn : conns[c].st # "new" => conns[c].file \in File
  BY DEF IInv, Ownership, ConnShape
<1>shape. \A g \in File :
            /\ sessions[g].kind = "cli" =>
                  /\ conns[sessions[g].id].file = g
                  /\ conns[sessions[g].id].st \in {"open", "closing", "closed"}
            /\ bridge[g] # None => conns[bridge[g]].st \in {"open", "closing", "closed"}
  BY DEF Driving, BridgeShape
<1>read. \A r \in reads : r.who \in Viewer /\ r.file \in File BY ReadsType DEF IInv
<1>1. ASSUME NEW r \in reads, OpenWarm(r) PROVE Driving'
  BY <1>1, <1>read, AttachOwner, OwnerIsDriver, DrivingFrame DEF OpenWarm, IInv
<1>2. ASSUME NEW r \in reads, OpenCold(r) PROVE Driving' BY <1>2, <1>rec, DrivingFrame DEF OpenCold
<1>a. ASSUME NEW r \in reads, OpenLocked(r) PROVE Driving'
  BY <1>a, <1>read, ReleaseOwner, OwnerIsDriver, DrivingFrame DEF OpenLocked, Detach, IInv
<1>b. ASSUME (\E v \in Viewer, f \in File : LoadStart(v, f)) \/ \E r \in reads : ReadFails(r)
       PROVE  Driving'
  BY <1>b, <1>rec, DrivingFrame DEF LoadStart, ReadFails
<1>3. ASSUME NEW v \in Viewer, Leave(v) \/ ViewerGone(v) PROVE Driving'
  BY <1>3, ReleaseOwner, OwnerIsDriver, DrivingFrame DEF Leave, ViewerGone, Detach, IInv
<1>5. ASSUME NEW f \in File, LoadUnviewed(f) \/ BuildFailed(f) PROVE Driving'
  BY <1>5, <1>rec, DrivingFrame DEF LoadUnviewed, BuildFailed
<1>6. ASSUME NEW f \in File, NEW a \in Agent, BuildDone(f, a) PROVE Driving'
  <2>1. /\ agents[a].st = "fresh"
        /\ agents'[a].file = f /\ agents'[a].st = "live"
        /\ \A b \in Agent : b # a => agents'[b] = agents[b]
        /\ sessions'[f].kind = "server" /\ sessions'[f].agent = a
        /\ \A g \in File : g # f => sessions'[g] = sessions[g]
        /\ UNCHANGED <<conns, bridge>>
    BY <1>6 DEF BuildDone, ServerEntry, NoEntry, IInv, TypeOK
  <2>2. raced \subseteq raced' /\ (f \notin raced' => f \notin raced /\ sessions[f].kind = "none")
    BY <1>6 DEF BuildDone, Resident
  <2>3. BridgeShape' BY <2>1 DEF Driving, BridgeShape
  <2>4. DriverHasEntry' BY <2>1, <2>2 DEF Driving, DriverHasEntry, TerminalDrives
  <2>5. BridgeEntryIsOpenUnlessRaced'
    BY <2>1, <2>2 DEF Driving, BridgeEntryIsOpenUnlessRaced, BridgeEntryIsOpen
  <2>6. NoLeakUnlessRaced'
    <3> SUFFICES ASSUME NEW g \in File, g \notin raced', NEW b \in Agent,
                        agents'[b].st = "live", agents'[b].file = g
                 PROVE  sessions'[g].kind = "server" /\ sessions'[g].agent = b
      BY DEF NoLeakUnlessRaced, Live
    <3>1. CASE b = a BY <2>1, <3>1
    <3>2. CASE b # a
      <4>1. g \notin raced /\ agents[b].st = "live" /\ agents[b].file = g BY <2>1, <2>2, <3>2
      <4>2. sessions[g].kind = "server" /\ sessions[g].agent = b
        BY <4>1 DEF Driving, NoLeakUnlessRaced, Live
      <4> QED BY <2>1, <2>2, <4>2
    <3> QED BY <3>1, <3>2
  <2> QED BY <2>3, <2>4, <2>5, <2>6 DEF Driving
<1>8. CASE Resume
  <2> DEFINE k == Head(resumed)
  <2>1. resumed \in Seq(Continuation) /\ resumed # <<>> BY <1>8 DEF Resume, Settled, IInv, TypeOK
  <2>a. k \in Continuation BY <2>1
  <2>2. k.file \in File /\ k.who \subseteq Viewer BY <2>a DEF Continuation
  <2> HIDE DEF k
  <2>3. ASSUME NEW v \in k.who, ResumeView(v, k.file), UNCHANGED raced
        PROVE  raced \subseteq raced' /\ \A g \in File : SameDriver(sessions[g], sessions'[g])
    BY <2>3, <2>2, <1>rec, AttachOwner, OwnerIsDriver DEF ResumeView, IInv
  <2>4. ASSUME ResumeHandback(k.file, k.who)
        PROVE  raced \subseteq raced' /\ \A g \in File : SameDriver(sessions[g], sessions'[g])
    <3>1. SameDriver(sessions[k.file], [sessions[k.file] EXCEPT !.clients = k.who])
      BY <2>2, <1>rec DEF Entry, SameDriver
    <3> QED BY <2>4, <3>1, <2>2, <1>rec DEF ResumeHandback, IInv, TypeOK
  <2>5. raced \subseteq raced' /\ \A g \in File : SameDriver(sessions[g], sessions'[g])
    BY <1>8, <2>3, <2>4, <1>rec DEF Resume, k
  <2> QED BY <1>8, <2>5, DrivingFrame DEF Resume
<1>9. ASSUME NEW c \in Conn, NEW f \in File, RegisterCold(c, f) PROVE Driving'
  <2>1. /\ conns[c].st = "new" /\ conns'[c].st = "reading"
        /\ \A d \in Conn : d # c => conns'[d] = conns[d]
        /\ UNCHANGED <<sessions, agents, bridge, raced>>
    BY <1>9 DEF RegisterCold, IInv, TypeOK
  <2>2. \A g \in File : /\ sessions[g].kind = "cli" => sessions[g].id # c
                        /\ bridge[g] # c
    BY <2>1, <1>id, <1>shape, DistinctNames
  <2>3. BridgeShape' BY <2>1, <2>2, <1>id, <1>shape DEF BridgeShape
  <2>4. DriverHasEntry' BY <2>1, <2>2, <1>id DEF Driving, DriverHasEntry, TerminalDrives
  <2>5. BridgeEntryIsOpenUnlessRaced'
    BY <2>1, <2>2, <1>id DEF Driving, BridgeEntryIsOpenUnlessRaced, BridgeEntryIsOpen
  <2>6. NoLeakUnlessRaced' BY <2>1 DEF Driving, NoLeakUnlessRaced, Live
  <2> QED BY <2>3, <2>4, <2>5, <2>6 DEF Driving
<1>10. ASSUME NEW c \in Conn, NEW f \in File, NEW s \in BOOLEAN, RegisterResident(c, f, s)
       PROVE  Driving'
  <2>1. /\ conns[c].st = "new" /\ conns'[c].st = "open" /\ conns'[c].file = f
        /\ \A d \in Conn : d # c => conns'[d] = conns[d]
        /\ bridge'[f] = c /\ \A g \in File : g # f => bridge'[g] = bridge[g]
        /\ sessions'[f].kind = "cli" /\ sessions'[f].id = c
        /\ \A g \in File : g # f => sessions'[g] = sessions[g]
        /\ raced' = raced
    BY <1>10 DEF RegisterResident, CliEntry, NoEntry, IInv, TypeOK
  <2>2. \A g \in File : /\ sessions[g].kind = "cli" => sessions[g].id # c
                        /\ bridge[g] # c
    BY <2>1, <1>id, <1>shape, DistinctNames
  <2>3. BridgeShape'
    <3> SUFFICES ASSUME NEW g \in File
                 PROVE  /\ sessions'[g].kind = "cli" =>
                              /\ conns'[sessions'[g].id].file = g
                              /\ conns'[sessions'[g].id].st \in {"open", "closing", "closed"}
                        /\ bridge'[g] # None => conns'[bridge'[g]].st \in {"open", "closing", "closed"}
      BY DEF BridgeShape
    <3>1. CASE g = f BY <2>1, <3>1
    <3>2. CASE g # f BY <2>1, <2>2, <3>2, <1>id, <1>shape
    <3> QED BY <3>1, <3>2
  <2>4. DriverHasEntry' BY <2>1, <2>2, <1>id DEF Driving, DriverHasEntry, TerminalDrives
  <2>5. BridgeEntryIsOpenUnlessRaced'
    BY <2>1, <2>2, <1>id DEF Driving, BridgeEntryIsOpenUnlessRaced, BridgeEntryIsOpen
  <2>6. NoLeakUnlessRaced' BY <1>10, <2>1, ReplacedLeaksNothing DEF RegisterResident, Driving
  <2> QED BY <2>3, <2>4, <2>5, <2>6 DEF Driving
<1>11. ASSUME NEW c \in Conn, NEW s \in BOOLEAN, HeaderRead(c, s) PROVE Driving'
  <2> DEFINE f == conns[c].file
  <2>1. f \in File /\ conns[c].st \in {"reading", "orphaned"} BY <1>11, <1>conn DEF HeaderRead
  <2>2. /\ conns'[c].file = f
        /\ conns'[c].st = IF conns[c].st = "reading" THEN "open" ELSE "closed"
        /\ \A d \in Conn : d # c => conns'[d] = conns[d]
    BY <1>11, ConnMoved DEF HeaderRead, IInv
  <2>3. /\ bridge'[f] = c /\ \A g \in File : g # f => bridge'[g] = bridge[g]
        /\ sessions'[f].kind = "cli" /\ sessions'[f].id = c
        /\ \A g \in File : g # f => sessions'[g] = sessions[g]
        /\ raced \subseteq raced' /\ agents' = agents
        /\ f \notin raced' => f \notin raced /\ sessions[f].kind = "none" /\ conns[c].st = "reading"
    BY <1>11, <2>1 DEF HeaderRead, Resident, CliEntry, NoEntry, IInv, TypeOK
  <2>4. \A g \in File : /\ sessions[g].kind = "cli" => sessions[g].id # c
                        /\ bridge[g] # c
    BY <2>1, <1>id, <1>shape, DistinctNames
  <2> HIDE DEF f
  <2>5. BridgeShape'
    <3> SUFFICES ASSUME NEW g \in File
                 PROVE  /\ sessions'[g].kind = "cli" =>
                              /\ conns'[sessions'[g].id].file = g
                              /\ conns'[sessions'[g].id].st \in {"open", "closing", "closed"}
                        /\ bridge'[g] # None => conns'[bridge'[g]].st \in {"open", "closing", "closed"}
      BY DEF BridgeShape
    <3>1. CASE g = f BY <2>2, <2>3, <3>1
    <3>2. CASE g # f BY <2>2, <2>3, <2>4, <3>2, <1>id, <1>shape
    <3> QED BY <3>1, <3>2
  <2>6. DriverHasEntry' BY <2>2, <2>3, <2>4, <1>id DEF Driving, DriverHasEntry, TerminalDrives
  <2>7. BridgeEntryIsOpenUnlessRaced'
    BY <2>2, <2>3, <2>4, <1>id DEF Driving, BridgeEntryIsOpenUnlessRaced, BridgeEntryIsOpen
  <2>8. NoLeakUnlessRaced' BY <2>3 DEF Driving, NoLeakUnlessRaced, Live
  <2> QED BY <2>5, <2>6, <2>7, <2>8 DEF Driving
<1>12. ASSUME NEW c \in Conn, RegisterRefused(c) PROVE Driving'
  <2>1. conns[c].st \in {"reading", "orphaned"} /\ UNCHANGED <<sessions, agents, bridge, raced>>
    BY <1>12 DEF RegisterRefused
  <2>2. \A d \in Conn : d # c => conns'[d] = conns[d] BY <1>12 DEF RegisterRefused, IInv, TypeOK
  <2>3. \A g \in File : /\ sessions[g].kind = "cli" => sessions[g].id # c
                        /\ bridge[g] # c
    BY <2>1, <1>id, <1>shape, DistinctNames
  <2>4. BridgeShape' BY <2>1, <2>2, <2>3, <1>id, <1>shape DEF BridgeShape
  <2>5. DriverHasEntry' BY <2>1, <2>2, <2>3, <1>id DEF Driving, DriverHasEntry, TerminalDrives
  <2>6. BridgeEntryIsOpenUnlessRaced'
    BY <2>1, <2>2, <2>3, <1>id DEF Driving, BridgeEntryIsOpenUnlessRaced, BridgeEntryIsOpen
  <2>7. NoLeakUnlessRaced' BY <2>1 DEF Driving, NoLeakUnlessRaced, Live
  <2> QED BY <2>4, <2>5, <2>6, <2>7 DEF Driving
<1>13. ASSUME NEW c \in Conn, BridgeClosed(c) PROVE Driving'
  <2> DEFINE f == conns[c].file
  <2>1. f \in File /\ conns[c].st \in {"reading", "open", "closing"}
    BY <1>13, <1>conn DEF BridgeClosed
  <2>2. /\ conns'[c].file = f
        /\ conns'[c].st = IF conns[c].st = "reading" THEN "orphaned" ELSE "closed"
        /\ \A d \in Conn : d # c => conns'[d] = conns[d]
    BY <1>13, ConnMoved DEF BridgeClosed, IInv
  <2>3. /\ sessions'[f].kind # "cli"
        /\ sessions[f].kind # "cli" => sessions'[f] = sessions[f]
        /\ sessions[f].kind = "cli" => sessions'[f].kind = "none"
        /\ \A g \in File : g # f => sessions'[g] = sessions[g]
        /\ UNCHANGED <<bridge, agents>>
        /\ raced \subseteq raced'
        /\ sessions[f].kind = "cli" /\ f \notin raced' => sessions[f].id = c
    BY <1>13, <2>1 DEF BridgeClosed, DropsBridge, NoEntry, IInv, TypeOK
  <2> HIDE DEF f
  <2>4. \A g \in File : g # f /\ sessions[g].kind = "cli" => sessions[g].id # c BY <1>shape DEF f
  <2>5. BridgeShape'
    <3> SUFFICES ASSUME NEW g \in File
                 PROVE  /\ sessions'[g].kind = "cli" =>
                              /\ conns'[sessions'[g].id].file = g
                              /\ conns'[sessions'[g].id].st \in {"open", "closing", "closed"}
                        /\ bridge'[g] # None => conns'[bridge'[g]].st \in {"open", "closing", "closed"}
      BY DEF BridgeShape
    <3>1. sessions'[g].kind = "cli" =>
             /\ conns'[sessions'[g].id].file = g
             /\ conns'[sessions'[g].id].st \in {"open", "closing", "closed"}
      BY <2>2, <2>3, <2>4, <1>id, <1>shape
    <3>2. bridge[g] # None => conns'[bridge[g]].st \in {"open", "closing", "closed"}
      BY <2>1, <2>2, <1>id, <1>shape
    <3> QED BY <2>3, <3>1, <3>2
  <2>6. DriverHasEntry'
    <3> SUFFICES ASSUME NEW g \in File, g \notin raced', bridge[g] # None,
                        conns'[bridge[g]].st = "open"
                 PROVE  sessions'[g].kind = "cli" /\ sessions'[g].id = bridge[g]
      BY <2>3 DEF DriverHasEntry, TerminalDrives
    <3>1. bridge[g] \in Conn /\ bridge[g] # c BY <2>2, <1>id
    <3>2. conns[bridge[g]].st = "open" /\ g \notin raced BY <2>2, <2>3, <3>1
    <3>3. sessions[g].kind = "cli" /\ sessions[g].id = bridge[g]
      BY <3>2 DEF Driving, DriverHasEntry, TerminalDrives
    <3> QED BY <2>3, <3>1, <3>3
  <2>7. BridgeEntryIsOpenUnlessRaced'
    BY <2>2, <2>3, <2>4, <1>id DEF Driving, BridgeEntryIsOpenUnlessRaced, BridgeEntryIsOpen
  <2>8. NoLeakUnlessRaced' BY <2>3 DEF Driving, NoLeakUnlessRaced, Live
  <2> QED BY <2>5, <2>6, <2>7, <2>8 DEF Driving
<1>14. ASSUME NEW c \in Conn, CliAgentStart(c) \/ CliAgentEnd(c) PROVE Driving'
  <2>1. conns[c].file \in File BY <1>14, <1>conn DEF CliAgentStart, CliAgentEnd
  <2>2. \A b \in BOOLEAN : SameDriver(sessions[conns[c].file],
                                      [sessions[conns[c].file] EXCEPT !.idle = b])
    BY <2>1, <1>rec DEF Entry, SameDriver
  <2>3. \A g \in File : SameDriver(sessions[g], sessions'[g])
    BY <1>14, <2>1, <2>2, <1>rec DEF CliAgentStart, CliAgentEnd, IInv, TypeOK
  <2> QED BY <1>14, <2>3, DrivingFrame DEF CliAgentStart, CliAgentEnd
<1>15. ASSUME NEW a \in Agent, AgentStart(a) \/ AgentEnd(a) PROVE Driving'
  <2>1. agents[a].file \in File BY <1>15 DEF AgentStart, AgentEnd, IInv, Ownership, AgentShape
  <2>2. \A b \in BOOLEAN : SameDriver(sessions[agents[a].file],
                                      [sessions[agents[a].file] EXCEPT !.idle = b])
    BY <2>1, <1>rec DEF Entry, SameDriver
  <2>3. \A g \in File : SameDriver(sessions[g], sessions'[g])
    BY <1>15, <2>1, <2>2, <1>rec DEF AgentStart, AgentEnd, IInv, TypeOK
  <2> QED BY <1>15, <2>3, DrivingFrame DEF AgentStart, AgentEnd
<1>16. ASSUME NEW f \in File, Send(f) \/ SendReturns(f) PROVE Driving'
  <2>1. \A n : SameDriver(sessions[f], [sessions[f] EXCEPT !.busy = n])
    BY <1>rec DEF Entry, SameDriver
  <2>2. \A g \in File : SameDriver(sessions[g], sessions'[g])
    <3>1. \/ sessions' = sessions
          \/ \E n : sessions' = [sessions EXCEPT ![f] = [sessions[f] EXCEPT !.busy = n]]
      <4>1. CASE Send(f) BY <4>1 DEF Send
      <4>2. CASE SendReturns(f) BY <4>2 DEF SendReturns
      <4> QED BY <1>16, <4>1, <4>2
    <3>2. ASSUME NEW n, sessions' = [sessions EXCEPT ![f] = [sessions[f] EXCEPT !.busy = n]]
          PROVE  \A g \in File : SameDriver(sessions[g], sessions'[g])
      <4>1. /\ sessions'[f] = [sessions[f] EXCEPT !.busy = n]
            /\ \A g \in File : g # f => sessions'[g] = sessions[g]
        BY <3>2 DEF IInv, TypeOK
      <4> QED BY <2>1, <4>1, <1>rec
    <3> QED BY <3>1, <3>2, <1>rec
  <2> QED BY <1>16, <2>2, DrivingFrame DEF Send, SendReturns
<1>17. ASSUME NEW f \in File, ReloadStart(f) PROVE Driving'
  <2>1. OwnsAgent(sessions[f]) /\ Shutdown(sessions[f].agent) BY <1>17 DEF ReloadStart, OwnsAgent
  <2>2. /\ \A a \in Agent : agents'[a].file = agents[a].file
        /\ \A a \in Agent : agents'[a].st = "live" => agents[a].st = "live"
    BY <2>1, ShutdownOwned
  <2>3. SameDriver(sessions[f], [sessions[f] EXCEPT !.reloading = TRUE])
    BY <1>rec DEF Entry, SameDriver
  <2>4. \A g \in File : SameDriver(sessions[g], sessions'[g])
    BY <1>17, <2>3, <1>rec DEF ReloadStart, IInv, TypeOK
  <2>5. UNCHANGED <<conns, bridge, raced>> BY <1>17 DEF ReloadStart
  <2>6. BridgeShape' BY <2>4, <2>5, <1>shape DEF BridgeShape, SameDriver
  <2>7. DriverHasEntry' /\ BridgeEntryIsOpenUnlessRaced'
    BY <2>4, <2>5 DEF Driving, DriverHasEntry, TerminalDrives, SameDriver,
                      BridgeEntryIsOpenUnlessRaced, BridgeEntryIsOpen
  <2>8. NoLeakUnlessRaced' BY <2>2, <2>4, <2>5 DEF Driving, NoLeakUnlessRaced, Live, SameDriver
  <2> QED BY <2>6, <2>7, <2>8 DEF Driving
<1>18. ASSUME NEW r \in reloads, NEW a \in Agent, ReloadDone(r, a) PROVE Driving'
  <2> DEFINE e == sessions[r.file]
             mine == e.id = r.id
  <2>1. r.file \in File /\ e \in Entry BY <1>rec DEF IInv, TypeOK
  <2>2. /\ agents[a].st = "fresh"
        /\ agents'[a].file = r.file /\ agents'[a].st = Rebuilt(mine)
        /\ \A b \in Agent : b # a => agents'[b] = agents[b]
        /\ UNCHANGED <<conns, bridge, raced>>
    BY <1>18, <2>1 DEF ReloadDone, IInv, TypeOK
  <2>3. \A g \in File : g # r.file => sessions'[g] = sessions[g]
    BY <1>18, <2>1 DEF ReloadDone, IInv, TypeOK
  <2>4. CASE mine
    <3>1. e.kind = "server" /\ e.reloading
      BY <2>1, <2>4, <1>rec, DistinctNames DEF IInv, Ownership, EntryShape, ReloadShape
    <3>2. sessions'[r.file] = [e EXCEPT !.agent = a, !.idle = TRUE, !.reloading = FALSE]
      BY <1>18, <2>1, <2>4 DEF ReloadDone, IInv, TypeOK
    <3>3. sessions'[r.file].kind = "server" /\ sessions'[r.file].agent = a
      BY <2>1, <3>1, <3>2 DEF Entry
    <3>4. BridgeShape' BY <2>2, <2>3, <3>3, <1>shape DEF BridgeShape
    <3>5. DriverHasEntry' /\ BridgeEntryIsOpenUnlessRaced'
      BY <2>2, <2>3, <3>1, <3>3 DEF Driving, DriverHasEntry, TerminalDrives,
                                    BridgeEntryIsOpenUnlessRaced, BridgeEntryIsOpen
    <3>6. NoLeakUnlessRaced'
      <4> SUFFICES ASSUME NEW g \in File, g \notin raced, NEW b \in Agent,
                          agents'[b].st = "live", agents'[b].file = g
                   PROVE  sessions'[g].kind = "server" /\ sessions'[g].agent = b
        BY <2>2 DEF NoLeakUnlessRaced, Live
      <4>1. CASE b = a BY <2>2, <3>3, <4>1
      <4>2. CASE b # a
        <5>1. agents[b].st = "live" /\ agents[b].file = g BY <2>2, <4>2
        <5>2. sessions[g].kind = "server" /\ sessions[g].agent = b
          BY <5>1 DEF Driving, NoLeakUnlessRaced, Live
        <5>3. g # r.file BY <2>1, <3>1, <5>1, <5>2 DEF IInv, Ownership, EntryShape
        <5> QED BY <2>3, <5>2, <5>3
      <4> QED BY <4>1, <4>2
    <3> QED BY <3>4, <3>5, <3>6 DEF Driving
  <2>5. CASE ~mine
    <3>1. sessions' = sessions BY <1>18, <2>5 DEF ReloadDone
    <3>2. agents'[a].st = "dead" BY <2>2, <2>5 DEF Rebuilt
    <3>3. BridgeShape' BY <2>2, <3>1, <1>shape DEF BridgeShape
    <3>4. DriverHasEntry' /\ BridgeEntryIsOpenUnlessRaced'
      BY <2>2, <3>1 DEF Driving, DriverHasEntry, TerminalDrives,
                        BridgeEntryIsOpenUnlessRaced, BridgeEntryIsOpen
    <3>5. NoLeakUnlessRaced' BY <2>2, <3>1, <3>2 DEF Driving, NoLeakUnlessRaced, Live
    <3> QED BY <3>3, <3>4, <3>5 DEF Driving
  <2> QED BY <2>4, <2>5
<1>19. ASSUME NEW r \in reloads, ReloadFailed(r) PROVE Driving'
  <2>1. r.file \in File BY DEF IInv, TypeOK
  <2>2. UNCHANGED <<agents, conns, bridge, raced>> BY <1>19 DEF ReloadFailed
  <2>3. CASE sessions[r.file].id = r.id
    <3>1. sessions[r.file].kind = "server" /\ sessions[r.file].reloading
      BY <2>1, <2>3, <1>rec, DistinctNames DEF IInv, Ownership, EntryShape, ReloadShape
    <3>2. /\ sessions'[r.file].kind = "none"
          /\ \A g \in File : g # r.file => sessions'[g] = sessions[g]
      BY <1>19, <2>1, <2>3 DEF ReloadFailed, NoEntry, IInv, TypeOK
    <3>3. BridgeShape' BY <2>2, <3>2, <1>shape DEF BridgeShape
    <3>4. DriverHasEntry' /\ BridgeEntryIsOpenUnlessRaced'
      BY <2>2, <3>1, <3>2 DEF Driving, DriverHasEntry, TerminalDrives,
                              BridgeEntryIsOpenUnlessRaced, BridgeEntryIsOpen
    <3>5. NoLeakUnlessRaced'
      <4>1. ~OwnsAgent(sessions[r.file]) /\ KeepAgents
        BY <1>19, <3>1 DEF OwnsAgent, KeepAgents, ReloadFailed
      <4>2. raced' = raced BY <2>2
      <4> QED BY <2>1, <3>2, <4>1, <4>2, ReplacedLeaksNothing DEF Driving
    <3> QED BY <3>3, <3>4, <3>5 DEF Driving
  <2>4. CASE sessions[r.file].id # r.id BY <1>19, <2>2, <2>4, <1>rec, DrivingFrame DEF ReloadFailed
  <2> QED BY <2>3, <2>4
<1>21. ASSUME NEW f \in File, \/ \E i \in EntryId : IdleTimeout(f, i)
                              \/ DeleteSession(f)
       PROVE  Driving'
  BY <1>21, DestroyDriving DEF IdleTimeout, DeleteSession
<1>22. ASSUME NEW f \in File, PinSession(f) \/ UnpinSession(f) PROVE Driving'
  BY <1>22, <1>rec, DrivingFrame DEF PinSession, UnpinSession
<1>23. CASE UNCHANGED vars BY <1>23, <1>rec, DrivingFrame DEF vars
<1> QED BY <1>1, <1>2, <1>a, <1>b, <1>3, <1>5, <1>6, <1>8, <1>9, <1>10, <1>11, <1>12, <1>13,
           <1>14, <1>15, <1>16, <1>17, <1>18, <1>19, <1>21, <1>22, <1>23
       DEF Next, ViewerStep, LoadStep, BuildStep, BridgeStep, TurnStep, ReloadStep, PoolStep

--------------------
(* What is timed. *)

\* The timers T holds of file f are those of its entry e, which nobody views.
Timely(f, e, T) ==
    \A i \in EntryId : <<f, i>> \in T => e.id = i /\ e.clients = {} /\ e.kind # "none"

Untimed(f, T) == \A i \in EntryId : <<f, i>> \notin T

LEMMA TimingIsTimely == Timing <=> \A f \in File : f \notin raced => Timely(f, sessions[f], timers)
BY DEF Timing, ViewedIsNotTimed, TimedIsResident, Timely, Resident

\* Cancelling the timer of a file's entry leaves the file none, and arming one
\* again for the entry is in order; other files' timers stay.
LEMMA CancelAndArm ==
    ASSUME NEW f \in File, NEW e, NEW d, NEW T, NEW X, Timely(f, e, T), d.id = e.id
    PROVE  /\ Untimed(f, Cancelled(f, d, T))
           /\ Timely(f, d, Cancelled(f, d, T)
                             \cup IF MayExpire(f, d, X) THEN {<<f, d.id>>} ELSE {})
           /\ \A g \in File, i \in EntryId : g # f =>
                 /\ <<g, i>> \in Cancelled(f, d, T) => <<g, i>> \in T
                 /\ <<g, i>> \in Cancelled(f, d, T)
                                   \cup (IF MayExpire(f, d, X) THEN {<<f, d.id>>} ELSE {})
                       => <<g, i>> \in T
<1>1. Untimed(f, Cancelled(f, d, T)) BY DEF Untimed, Timely, Cancelled
<1>2. MayExpire(f, d, X) => d.clients = {} /\ d.kind # "none" BY DEF MayExpire
<1>3. Timely(f, d, Cancelled(f, d, T) \cup IF MayExpire(f, d, X) THEN {<<f, d.id>>} ELSE {})
  BY <1>1, <1>2 DEF Untimed, Timely
<1> QED BY <1>1, <1>3 DEF Cancelled

LEMMA RearmedIsTimely ==
    ASSUME NEW STATE T, NEW STATE e, NEW STATE d, NEW f \in File, Timely(f, e, T), d.id = e.id
    PROVE  /\ Timely(f, d, Rearmed(f, d, T))
           /\ \A g \in File, i \in EntryId : g # f /\ <<g, i>> \in Rearmed(f, d, T) => <<g, i>> \in T
BY CancelAndArm DEF Rearmed

\* A step about one file keeps Timing when it keeps it of that file.
LEMMA TimingOfOne ==
    ASSUME Timing, NEW f \in File, raced \subseteq raced',
           \A g \in File : g # f => /\ sessions'[g] = sessions[g]
                                    /\ \A i \in EntryId : <<g, i>> \in timers' => <<g, i>> \in timers,
           f \notin raced' => Timely(f, sessions'[f], timers')
    PROVE  Timing'
<1>1. \A g \in File : g \notin raced' => Timely(g, sessions'[g], timers')
  <2> SUFFICES ASSUME NEW g \in File, g \notin raced' PROVE Timely(g, sessions'[g], timers') OBVIOUS
  <2>1. CASE g # f
    <3>1. Timely(g, sessions[g], timers) BY TimingIsTimely
    <3> QED BY <2>1, <3>1 DEF Timely
  <2> QED BY <2>1
<1> QED BY <1>1 DEF Timing, ViewedIsNotTimed, TimedIsResident, Timely, Resident

\* An entry is changed and timed again.
LEMMA TimingOfRearmed ==
    ASSUME Timing, NEW f \in File, NEW STATE d, d.id = sessions[f].id, raced' = raced,
           sessions'[f] = d, timers' = Rearmed(f, d, timers),
           \A g \in File : g # f => sessions'[g] = sessions[g]
    PROVE  Timing'
<1>1. f \notin raced => Timely(f, sessions[f], timers) BY TimingIsTimely
<1>2. f \notin raced => Timely(f, sessions'[f], timers') BY <1>1, RearmedIsTimely
<1>3. \A g \in File, i \in EntryId : g # f /\ <<g, i>> \in timers' => <<g, i>> \in timers
  BY DEF Rearmed, Cancelled
<1> QED BY <1>2, <1>3, TimingOfOne

LEMMA UntimedIsTimely == \A f, e, T : Untimed(f, T) => Timely(f, e, T)
BY DEF Untimed, Timely

\* A viewer is attached: its file's timer is cancelled, and the file it leaves is
\* timed only when nobody is left.
LEMMA AttachTiming ==
    ASSUME TypeOK, Timing, NEW v \in Viewer, NEW f \in File, Attach(v, f), raced' = raced
    PROVE  Timing'
<1> DEFINE stopped == Cancelled(f, sessions[f], timers)
           rest == [sessions[at[v]] EXCEPT !.clients = @ \ {v}]
<1>1. \A g \in File : g \notin raced => Timely(g, sessions[g], timers) BY TimingIsTimely
<1>2. f \notin raced => Untimed(f, stopped) BY <1>1, CancelAndArm
<1>3. \A g \in File, i \in EntryId : <<g, i>> \in stopped => <<g, i>> \in timers BY DEF Cancelled
<1>4. CASE ~Leaves(v, f)
  <2>1. timers' = stopped /\ \A g \in File : g # f => sessions'[g] = sessions[g] BY <1>4 DEF Attach
  <2> HIDE DEF stopped
  <2> QED BY <1>2, <1>3, <2>1, UntimedIsTimely, TimingOfOne
<1>5. CASE Leaves(v, f)
  <2>1. at[v] \in File /\ at[v] # f BY <1>5 DEF Leaves, TypeOK
  <2>2. /\ sessions'[at[v]] = rest
        /\ \A g \in File : g # f /\ g # at[v] => sessions'[g] = sessions[g]
        /\ timers' = Rearmed(at[v], rest, stopped)
    BY <1>5, <2>1 DEF Attach
  <2>3. rest.id = sessions[at[v]].id
    <3>1. sessions[at[v]] \in Entry BY <2>1 DEF TypeOK
    <3> QED BY <3>1 DEF Entry
  <2>4. \A g \in File : g # f /\ g \notin raced => Timely(g, sessions[g], stopped)
    BY <1>1, <1>3 DEF Timely
  <2> HIDE DEF stopped, rest
  <2>5. \A g \in File, i \in EntryId : g # at[v] /\ <<g, i>> \in timers' => <<g, i>> \in stopped
    BY <2>2 DEF Rearmed, Cancelled
  <2>6. at[v] \notin raced => Timely(at[v], sessions'[at[v]], timers')
    BY <2>1, <2>2, <2>3, <2>4, RearmedIsTimely
  <2>7. f \notin raced => Timely(f, sessions'[f], timers') BY <1>2, <2>1, <2>5 DEF Untimed, Timely
  <2>8. \A g \in File : g # f /\ g # at[v] /\ g \notin raced => Timely(g, sessions'[g], timers')
    BY <2>2, <2>4, <2>5 DEF Timely
  <2>9. \A g \in File : g \notin raced' => Timely(g, sessions'[g], timers') BY <2>6, <2>7, <2>8
  <2> QED BY <2>9 DEF Timing, ViewedIsNotTimed, TimedIsResident, Timely, Resident
<1> QED BY <1>4, <1>5

LEMMA ReleaseTiming ==
    ASSUME TypeOK, Timing, NEW v \in Viewer, Release(v), raced' = raced
    PROVE  Timing'
<1> DEFINE rest == [sessions[at[v]] EXCEPT !.clients = @ \ {v}]
<1>1. CASE at[v] = None BY <1>1 DEF Release, Timing, ViewedIsNotTimed, TimedIsResident, Resident
<1>2. CASE at[v] # None
  <2>1. at[v] \in File BY <1>2 DEF TypeOK
  <2>2. /\ sessions'[at[v]] = rest
        /\ \A g \in File : g # at[v] => sessions'[g] = sessions[g]
        /\ timers' = Rearmed(at[v], rest, timers)
    BY <1>2, <2>1 DEF Release, TypeOK
  <2>3. rest.id = sessions[at[v]].id
    <3>1. sessions[at[v]] \in Entry BY <2>1 DEF TypeOK
    <3> QED BY <3>1 DEF Entry
  <2> HIDE DEF rest
  <2>4. at[v] \notin raced => Timely(at[v], sessions[at[v]], timers) BY <2>1, TimingIsTimely
  <2>5. at[v] \notin raced => Timely(at[v], sessions'[at[v]], timers')
    BY <2>1, <2>2, <2>3, <2>4, RearmedIsTimely
  <2>6. \A g \in File, i \in EntryId : g # at[v] /\ <<g, i>> \in timers' => <<g, i>> \in timers
    BY <2>2 DEF Rearmed, Cancelled
  <2> QED BY <2>1, <2>2, <2>5, <2>6, TimingOfOne
<1> QED BY <1>1, <1>2

\* Every step keeps Timing.
LEMMA TimingStep ==
    ASSUME IInv, Timing, [Next]_vars
    PROVE  Timing'
<1> USE DEF poolVars, viewVars, historyVars
<1>rec. \A g \in File : sessions[g] \in Entry BY DEF IInv, TypeOK
<1>conn. \A c \in Conn : conns[c].st # "new" => conns[c].file \in File
  BY DEF IInv, Ownership, ConnShape
<1>timely. \A g \in File : g \notin raced => Timely(g, sessions[g], timers) BY TimingIsTimely
<1>same. UNCHANGED <<sessions, timers>> /\ raced \subseteq raced' => Timing'
  BY DEF Timing, ViewedIsNotTimed, TimedIsResident, Resident
<1>idle. \A g \in File, b \in BOOLEAN : [sessions[g] EXCEPT !.idle = b].id = sessions[g].id
  BY <1>rec DEF Entry
<1>cancel. \A g, h \in File, i \in EntryId :
              /\ <<g, i>> \in Cancelled(h, sessions[h], timers) => <<g, i>> \in timers
              /\ g \notin raced => <<g, i>> \notin Cancelled(g, sessions[g], timers)
  BY <1>timely DEF Cancelled, Timely
<1>stop. ASSUME NEW f \in File, timers' = Cancelled(f, sessions[f], timers), raced \subseteq raced',
                \A g \in File : g # f => sessions'[g] = sessions[g]
         PROVE  Timing'
  <2>1. f \notin raced' => Timely(f, sessions'[f], timers') BY <1>stop, <1>cancel DEF Timely
  <2> QED BY <1>stop, <2>1, <1>cancel, TimingOfOne
<1>read. \A r \in reads : r.who \in Viewer /\ r.file \in File BY ReadsType DEF IInv
<1>1. ASSUME NEW r \in reads, OpenWarm(r) PROVE Timing'
  BY <1>1, <1>read, AttachTiming DEF OpenWarm, IInv
<1>2. ASSUME NEW r \in reads, OpenCold(r) PROVE Timing' BY <1>2, <1>same DEF OpenCold
<1>a. ASSUME NEW r \in reads, OpenLocked(r) PROVE Timing'
  BY <1>a, <1>read, ReleaseTiming DEF OpenLocked, Detach, IInv
<1>b. ASSUME (\E v \in Viewer, f \in File : LoadStart(v, f)) \/ \E r \in reads : ReadFails(r)
       PROVE  Timing'
  BY <1>b, <1>same DEF LoadStart, ReadFails
<1>3. ASSUME NEW v \in Viewer, Leave(v) \/ ViewerGone(v) PROVE Timing'
  BY <1>3, ReleaseTiming DEF Leave, ViewerGone, Detach, IInv
<1>5. ASSUME NEW f \in File, LoadUnviewed(f) \/ BuildFailed(f) PROVE Timing'
  BY <1>5, <1>same DEF LoadUnviewed, BuildFailed
<1>6. ASSUME NEW f \in File, NEW a \in Agent, BuildDone(f, a) PROVE Timing'
  <2>1. /\ timers' = timers /\ raced \subseteq raced'
        /\ \A g \in File : g # f => sessions'[g] = sessions[g]
        /\ f \notin raced' => f \notin raced /\ sessions[f].kind = "none"
    BY <1>6 DEF BuildDone, Resident, IInv, TypeOK
  <2>2. f \notin raced' => Timely(f, sessions'[f], timers') BY <2>1, <1>timely DEF Timely
  <2> QED BY <2>1, <2>2, TimingOfOne
<1>8. CASE Resume
  <2> DEFINE k == Head(resumed)
  <2>1. resumed \in Seq(Continuation) /\ resumed # <<>> BY <1>8 DEF Resume, Settled, IInv, TypeOK
  <2>a. k \in Continuation BY <2>1
  <2>2. k.file \in File /\ k.who \subseteq Viewer BY <2>a DEF Continuation
  <2> HIDE DEF k
  <2>3. ASSUME NEW v \in k.who, ResumeView(v, k.file), UNCHANGED raced PROVE Timing'
    <3>1. CASE Attach(v, k.file) BY <2>2, <2>3, <3>1, AttachTiming DEF IInv
    <3>2. CASE timers' = Rearmed(k.file, sessions[k.file], timers) /\ UNCHANGED <<sessions, at>>
      <4>1. /\ k.file \notin raced => Timely(k.file, sessions[k.file], timers')
            /\ \A g \in File, i \in EntryId : g # k.file /\ <<g, i>> \in timers' => <<g, i>> \in timers
        BY <2>2, <3>2, <1>timely, RearmedIsTimely DEF Rearmed, Cancelled
      <4> QED BY <2>2, <2>3, <3>2, <4>1, TimingOfOne
    <3> QED BY <2>3, <3>1, <3>2 DEF ResumeView
  <2>4. ASSUME ResumeHandback(k.file, k.who) PROVE Timing'
    <3>1. /\ timers' = timers /\ raced \subseteq raced'
          /\ \A g \in File : g # k.file => sessions'[g] = sessions[g]
          /\ k.file \notin raced' => k.file \notin raced /\ <<k.file, sessions[k.file].id>> \notin timers
      BY <2>4, <2>2 DEF ResumeHandback, IInv, TypeOK
    <3>2. k.file \notin raced' => Timely(k.file, sessions'[k.file], timers')
      BY <2>2, <3>1, <1>timely DEF Timely
    <3> QED BY <2>2, <3>1, <3>2, TimingOfOne
  <2>5. CASE UNCHANGED <<sessions, timers, at, raced>> BY <2>5, <1>same
  <2> QED BY <1>8, <2>3, <2>4, <2>5 DEF Resume, k
<1>9. ASSUME NEW c \in Conn, RegisterRefused(c) \/ \E f \in File : RegisterCold(c, f) PROVE Timing'
  BY <1>9, <1>same DEF RegisterCold, RegisterRefused
<1>10. ASSUME NEW c \in Conn, NEW f \in File, NEW s \in BOOLEAN, RegisterResident(c, f, s)
       PROVE  Timing'
  <2>1. /\ timers' = Cancelled(f, sessions[f], timers) /\ raced' = raced
        /\ \A g \in File : g # f => sessions'[g] = sessions[g]
    BY <1>10 DEF RegisterResident, IInv, TypeOK
  <2> QED BY <2>1, <1>stop
<1>11. ASSUME NEW c \in Conn, NEW s \in BOOLEAN, HeaderRead(c, s) PROVE Timing'
  <2>1. conns[c].file \in File BY <1>11, <1>conn DEF HeaderRead
  <2>2. /\ raced \subseteq raced'
        /\ \A g \in File : g # conns[c].file => sessions'[g] = sessions[g]
        /\ conns[c].file \notin raced' =>
              conns[c].file \notin raced /\ sessions[conns[c].file].kind = "none"
        /\ \A g \in File, i \in EntryId : <<g, i>> \in timers' => <<g, i>> \in timers
    BY <1>11, <2>1, <1>cancel DEF HeaderRead, Resident, IInv, TypeOK
  <2>3. conns[c].file \notin raced' => Timely(conns[c].file, sessions'[conns[c].file], timers')
    BY <2>1, <2>2, <1>timely DEF Timely
  <2> QED BY <2>1, <2>2, <2>3, TimingOfOne
<1>13. ASSUME NEW c \in Conn, BridgeClosed(c) PROVE Timing'
  <2>1. conns[c].file \in File BY <1>13, <1>conn DEF BridgeClosed
  <2>2. /\ raced \subseteq raced'
        /\ \A g \in File : g # conns[c].file => sessions'[g] = sessions[g]
        /\ \/ timers' = Cancelled(conns[c].file, sessions[conns[c].file], timers)
           \/ UNCHANGED <<sessions, timers>>
    BY <1>13, <2>1 DEF BridgeClosed, IInv, TypeOK
  <2> QED BY <2>1, <2>2, <1>stop, <1>same
<1>14. ASSUME NEW c \in Conn, CliAgentStart(c) \/ CliAgentEnd(c) PROVE Timing'
  <2>1. conns[c].file \in File BY <1>14, <1>conn DEF CliAgentStart, CliAgentEnd
  <2>2. CASE CliAgentStart(c)
    <3>1. /\ timers' = Cancelled(conns[c].file, sessions[conns[c].file], timers) /\ raced' = raced
          /\ \A g \in File : g # conns[c].file => sessions'[g] = sessions[g]
      BY <2>1, <2>2 DEF CliAgentStart, IInv, TypeOK
    <3> QED BY <2>1, <3>1, <1>stop
  <2>3. CASE CliAgentEnd(c)
    <3> DEFINE d == [sessions[conns[c].file] EXCEPT !.idle = TRUE]
    <3>1. /\ timers' = Rearmed(conns[c].file, d, timers) /\ raced' = raced
          /\ sessions'[conns[c].file] = d
          /\ \A g \in File : g # conns[c].file => sessions'[g] = sessions[g]
      BY <2>1, <2>3 DEF CliAgentEnd, IInv, TypeOK
    <3>2. d.id = sessions[conns[c].file].id BY <2>1, <1>idle
    <3> HIDE DEF d
    <3> QED BY <2>1, <3>1, <3>2, TimingOfRearmed
  <2> QED BY <1>14, <2>2, <2>3
<1>15. ASSUME NEW a \in Agent, AgentStart(a) \/ AgentEnd(a) PROVE Timing'
  <2> DEFINE f == agents[a].file
  <2>1. f \in File BY <1>15 DEF AgentStart, AgentEnd, IInv, Ownership, AgentShape
  <2>2. CASE AgentStart(a)
    <3>1. /\ timers' = Cancelled(f, sessions[f], timers) /\ raced' = raced
          /\ \A g \in File : g # f => sessions'[g] = sessions[g]
      BY <2>1, <2>2 DEF AgentStart, IInv, TypeOK
    <3> QED BY <2>1, <3>1, <1>stop
  <2>3. CASE AgentEnd(a)
    <3> DEFINE d == [sessions[f] EXCEPT !.idle = TRUE]
    <3>1. /\ timers' = Rearmed(f, d, timers) /\ raced' = raced
          /\ sessions' = IF Resident(f) THEN [sessions EXCEPT ![f] = d] ELSE sessions
      BY <2>3 DEF AgentEnd
    <3>2. d.id = sessions[f].id /\ d.kind = sessions[f].kind BY <2>1, <1>rec DEF Entry
    <3> HIDE DEF d, f
    <3>3. \A g \in File : g # f => sessions'[g] = sessions[g] BY <3>1 DEF IInv, TypeOK
    <3>4. f \notin raced => Timely(f, d, timers') BY <2>1, <3>1, <3>2, <1>timely, RearmedIsTimely
    <3>5. f \notin raced => Timely(f, sessions'[f], timers')
      <4>1. CASE Resident(f)
        <5>1. sessions'[f] = d BY <2>1, <3>1, <4>1 DEF IInv, TypeOK
        <5> QED BY <3>4, <5>1
      <4>2. CASE ~Resident(f) BY <3>2, <3>4, <4>2 DEF Timely, Resident
      <4> QED BY <4>1, <4>2
    <3>6. \A g \in File, i \in EntryId : g # f /\ <<g, i>> \in timers' => <<g, i>> \in timers
      BY <3>1 DEF Rearmed, Cancelled
    <3> QED BY <2>1, <3>1, <3>3, <3>5, <3>6, TimingOfOne
  <2> QED BY <1>15, <2>2, <2>3
<1>16. ASSUME NEW f \in File, Send(f) PROVE Timing'
  <2>1. /\ timers' = Cancelled(f, sessions[f], timers) /\ raced' = raced
        /\ \A g \in File : g # f => sessions'[g] = sessions[g]
    BY <1>16 DEF Send, IInv, TypeOK
  <2> QED BY <2>1, <1>stop
<1>17. ASSUME NEW f \in File, SendReturns(f) \/ ReloadStart(f) PROVE Timing'
  <2>1. /\ timers' = timers /\ raced' = raced
        /\ \A g \in File : g # f => sessions'[g] = sessions[g]
    BY <1>17 DEF SendReturns, ReloadStart, IInv, TypeOK
  <2>2. /\ sessions'[f].id = sessions[f].id /\ sessions'[f].clients = sessions[f].clients
        /\ sessions'[f].kind = sessions[f].kind
    <3>1. \A n : /\ [sessions[f] EXCEPT !.busy = n].id = sessions[f].id
                 /\ [sessions[f] EXCEPT !.busy = n].clients = sessions[f].clients
                 /\ [sessions[f] EXCEPT !.busy = n].kind = sessions[f].kind
      BY <1>rec DEF Entry
    <3>2. CASE SendReturns(f)
      <4>1. sessions'[f] = [sessions[f] EXCEPT !.busy = sessions[f].busy - 1]
        BY <3>2 DEF SendReturns, IInv, TypeOK
      <4> QED BY <3>1, <4>1
    <3>3. CASE ReloadStart(f)
      <4>1. sessions'[f] = [sessions[f] EXCEPT !.reloading = TRUE]
        BY <3>3 DEF ReloadStart, IInv, TypeOK
      <4> QED BY <4>1, <1>rec DEF Entry
    <3> QED BY <1>17, <3>2, <3>3
  <2>3. f \notin raced' => Timely(f, sessions'[f], timers') BY <2>1, <2>2, <1>timely DEF Timely
  <2> QED BY <2>1, <2>3, TimingOfOne
<1>18. ASSUME NEW r \in reloads, NEW a \in Agent, ReloadDone(r, a) PROVE Timing'
  <2> DEFINE e == sessions[r.file]
             d == [e EXCEPT !.agent = a, !.idle = TRUE, !.reloading = FALSE]
  <2>1. r.file \in File /\ e \in Entry BY <1>rec DEF IInv, TypeOK
  <2>2. CASE e.id = r.id
    <3>1. /\ timers' = Rearmed(r.file, d, timers) /\ raced' = raced
          /\ sessions'[r.file] = d
          /\ \A g \in File : g # r.file => sessions'[g] = sessions[g]
      BY <1>18, <2>1, <2>2 DEF ReloadDone, IInv, TypeOK
    <3>2. d.id = sessions[r.file].id BY <2>1 DEF Entry
    <3> HIDE DEF d, e
    <3> QED BY <2>1, <3>1, <3>2, TimingOfRearmed
  <2>3. CASE e.id # r.id BY <1>18, <2>3, <1>same DEF ReloadDone
  <2> QED BY <2>2, <2>3
<1>19. ASSUME NEW r \in reloads, ReloadFailed(r) PROVE Timing'
  <2>1. r.file \in File BY DEF IInv, TypeOK
  <2>2. /\ raced' = raced
        /\ \A g \in File : g # r.file => sessions'[g] = sessions[g]
        /\ \/ timers' = Cancelled(r.file, sessions[r.file], timers)
           \/ UNCHANGED <<sessions, timers>>
    BY <1>19, <2>1 DEF ReloadFailed, IInv, TypeOK
  <2> QED BY <2>1, <2>2, <1>stop, <1>same
<1>20. ASSUME NEW f \in File, NEW i \in EntryId, IdleTimeout(f, i) PROVE Timing'
  <2>1. /\ timers' \subseteq Cancelled(f, sessions[f], timers) /\ raced' = raced
        /\ \A g \in File : g # f => sessions'[g] = sessions[g]
    BY <1>20 DEF IdleTimeout, Destroy, IInv, TypeOK
  <2>2. f \notin raced' => Timely(f, sessions'[f], timers') BY <2>1, <1>cancel DEF Timely
  <2> QED BY <2>1, <2>2, <1>cancel, TimingOfOne
<1>21. ASSUME NEW f \in File, DeleteSession(f) PROVE Timing'
  <2>1. /\ timers' = Cancelled(f, sessions[f], timers) /\ raced' = raced
        /\ \A g \in File : g # f => sessions'[g] = sessions[g]
    BY <1>21 DEF DeleteSession, Destroy, IInv, TypeOK
  <2> QED BY <2>1, <1>stop
<1>22. ASSUME NEW f \in File, PinSession(f) PROVE Timing'
  <2>1. UNCHANGED <<sessions, raced>> BY <1>22 DEF PinSession
  <2>2. timers' = Cancelled(f, sessions[f], timers) \/ timers' = timers BY <1>22 DEF PinSession
  <2> QED BY <2>1, <2>2, <1>stop, <1>same
<1>23. ASSUME NEW f \in File, UnpinSession(f) PROVE Timing'
  <2>1. /\ UNCHANGED <<sessions, raced>>
        /\ timers' = Cancelled(f, sessions[f], timers)
                       \cup IF MayExpire(f, sessions[f], pinned') THEN {<<f, sessions[f].id>>} ELSE {}
    BY <1>23 DEF UnpinSession
  <2>2. f \notin raced' => Timely(f, sessions'[f], timers') BY <2>1, <1>timely, CancelAndArm
  <2>3. \A g \in File, i \in EntryId : g # f /\ <<g, i>> \in timers' => <<g, i>> \in timers
    BY <2>1 DEF Cancelled
  <2> QED BY <2>1, <2>2, <2>3, TimingOfOne
<1>24. CASE UNCHANGED vars BY <1>24, <1>same DEF vars
<1> QED BY <1>1, <1>2, <1>a, <1>b, <1>3, <1>5, <1>6, <1>8, <1>9, <1>10, <1>11, <1>13,
           <1>14, <1>15, <1>16, <1>17, <1>18, <1>19, <1>20, <1>21, <1>22, <1>23, <1>24
       DEF Next, ViewerStep, LoadStep, BuildStep, BridgeStep, TurnStep, ReloadStep, PoolStep

--------------------
(* Who is attached. *)

LEMMA ViewingFrame ==
    ASSUME Viewing, UNCHANGED <<at, gone>>, ghosts \subseteq ghosts', raced \subseteq raced',
           \A g \in File : sessions'[g].clients \subseteq sessions[g].clients
    PROVE  Viewing'
BY DEF Viewing, NoPhantomUnlessRaced, NoPhantomViewer

\* A viewer attached, whose socket is open or who is a ghost now, is attached to one
\* file, and leaves the one it was on.
LEMMA AttachViewing ==
    ASSUME TypeOK, Viewing, NEW v \in Viewer, NEW f \in File, Attach(v, f),
           v \in gone => v \in ghosts', ghosts \subseteq ghosts', UNCHANGED <<gone, raced>>
    PROVE  Viewing'
<1>1. at' = [at EXCEPT ![v] = f] BY DEF Attach
<1>2. \A g \in File : sessions'[g].clients \subseteq
          CASE g = f -> sessions[g].clients \cup {v}
            [] g # f /\ g = at[v] -> sessions[g].clients \ {v}
            [] OTHER -> sessions[g].clients
  <2> SUFFICES ASSUME NEW g \in File
               PROVE  sessions'[g].clients \subseteq
                        CASE g = f -> sessions[g].clients \cup {v}
                          [] g # f /\ g = at[v] -> sessions[g].clients \ {v}
                          [] OTHER -> sessions[g].clients
    OBVIOUS
  <2>1. \A V : [sessions[g] EXCEPT !.clients = V].clients = V BY DEF TypeOK, Entry
  <2>2. CASE g = f
    <3>1. ~(Leaves(v, f) /\ g = at[v]) BY <2>2 DEF Leaves
    <3> QED BY <2>1, <2>2, <3>1 DEF Attach
  <2>3. CASE g # f /\ g = at[v]
    <3>1. Leaves(v, f) BY <2>3, DistinctNames DEF Leaves
    <3> QED BY <2>1, <2>3, <3>1 DEF Attach
  <2>4. CASE g # f /\ g # at[v] BY <2>4 DEF Attach
  <2> QED BY <2>2, <2>3, <2>4
<1> SUFFICES ASSUME raced = {}, NEW g \in File, NEW w \in sessions'[g].clients
             PROVE  at'[w] = g /\ w \notin gone \ ghosts'
  BY DEF Viewing, NoPhantomUnlessRaced, NoPhantomViewer
<1>3. CASE w = v
  <2>1. g = f
    <3> SUFFICES ASSUME g # f PROVE FALSE OBVIOUS
    <3>1. w \in sessions[g].clients BY <1>2
    <3>2. g = at[v] BY <1>3, <3>1 DEF Viewing, NoPhantomUnlessRaced, NoPhantomViewer
    <3> QED BY <1>2, <1>3, <3>2
  <2> QED BY <1>1, <1>3, <2>1 DEF TypeOK
<1>4. CASE w # v
  <2>1. w \in sessions[g].clients BY <1>2, <1>4
  <2>2. at[w] = g /\ w \notin gone \ ghosts
    BY <2>1 DEF Viewing, NoPhantomUnlessRaced, NoPhantomViewer
  <2> QED BY <1>1, <1>4, <2>2
<1> QED BY <1>3, <1>4

\* removeClient: the viewer is counted by no entry.
LEMMA ReleaseViewing ==
    ASSUME TypeOK, NEW v \in Viewer, Release(v)
    PROVE  \A g \in File : /\ sessions'[g].clients \subseteq sessions[g].clients
                           /\ g = at[v] => v \notin sessions'[g].clients
<1>1. CASE at[v] = None BY <1>1, DistinctNames DEF Release
<1>2. CASE at[v] # None
  <2>1. at[v] \in File BY <1>2 DEF TypeOK
  <2>2. /\ sessions'[at[v]] = [sessions[at[v]] EXCEPT !.clients = @ \ {v}]
        /\ \A g \in File : g # at[v] => sessions'[g] = sessions[g]
    BY <1>2, <2>1 DEF Release, TypeOK
  <2>3. sessions'[at[v]].clients = sessions[at[v]].clients \ {v}
    <3>1. sessions[at[v]] \in Entry BY <2>1 DEF TypeOK
    <3> QED BY <2>2, <3>1 DEF Entry
  <2> QED BY <2>2, <2>3
<1> QED BY <1>1, <1>2

LEMMA DetachViewing ==
    ASSUME TypeOK, Viewing, NEW v \in Viewer, Detach(v), UNCHANGED <<gone, ghosts, raced>>
    PROVE  Viewing'
<1>1. Release(v) /\ at' = [at EXCEPT ![v] = None] BY DEF Detach
<1> SUFFICES ASSUME raced = {}, NEW g \in File, NEW w \in sessions'[g].clients
             PROVE  at'[w] = g /\ w \notin gone \ ghosts
  BY DEF Viewing, NoPhantomUnlessRaced, NoPhantomViewer
<1>2. at[w] = g /\ w \notin gone \ ghosts
  BY <1>1, ReleaseViewing DEF Viewing, NoPhantomUnlessRaced, NoPhantomViewer
<1>3. w # v BY <1>1, <1>2, ReleaseViewing
<1> QED BY <1>1, <1>2, <1>3

LEMMA GoneViewing ==
    ASSUME TypeOK, Viewing, NEW v \in Viewer, ViewerGone(v)
    PROVE  Viewing'
<1>1. Release(v) /\ gone' = gone \cup {v} /\ UNCHANGED <<at, ghosts, raced>>
  BY DEF ViewerGone, historyVars
<1> SUFFICES ASSUME raced = {}, NEW g \in File, NEW w \in sessions'[g].clients
             PROVE  at[w] = g /\ w \notin gone' \ ghosts
  BY <1>1 DEF Viewing, NoPhantomUnlessRaced, NoPhantomViewer
<1>2. at[w] = g /\ w \notin gone \ ghosts
  BY <1>1, ReleaseViewing DEF Viewing, NoPhantomUnlessRaced, NoPhantomViewer
<1>3. w # v BY <1>1, <1>2, ReleaseViewing
<1> QED BY <1>1, <1>2, <1>3

\* Every step keeps Viewing.
LEMMA ViewingStep ==
    ASSUME IInv, Viewing, [Next]_vars
    PROVE  Viewing'
<1> USE DEF poolVars, viewVars, historyVars
<1>rec. \A g \in File : sessions[g] \in Entry BY DEF IInv, TypeOK
<1>conn. \A c \in Conn : conns[c].st # "new" => conns[c].file \in File
  BY DEF IInv, Ownership, ConnShape
<1>same. UNCHANGED <<sessions, at, gone, ghosts, raced>> => Viewing' BY ViewingFrame
<1>one. ASSUME NEW f \in File, UNCHANGED <<at, gone, ghosts>>, raced \subseteq raced',
               sessions'[f].clients \subseteq sessions[f].clients,
               \A g \in File : g # f => sessions'[g] = sessions[g]
        PROVE  Viewing'
  <2>1. \A g \in File : sessions'[g].clients \subseteq sessions[g].clients BY <1>one
  <2> QED BY <1>one, <2>1, ViewingFrame
<1>read. \A r \in reads : r.who \in Viewer /\ r.file \in File BY ReadsType DEF IInv
<1>1. ASSUME NEW r \in reads, OpenWarm(r) PROVE Viewing'
  <2>1. r.who \in gone => r.who \in ghosts' BY <1>1 DEF OpenWarm
  <2>2. Attach(r.who, r.file) /\ ghosts \subseteq ghosts' /\ UNCHANGED <<gone, raced>>
    BY <1>1 DEF OpenWarm
  <2> QED BY <1>read, <2>1, <2>2, AttachViewing DEF IInv
<1>2. ASSUME NEW r \in reads, OpenCold(r) PROVE Viewing' BY <1>2, <1>same DEF OpenCold
<1>a. ASSUME NEW r \in reads, OpenLocked(r) PROVE Viewing'
  BY <1>a, <1>read, DetachViewing DEF OpenLocked, IInv
<1>b. ASSUME (\E v \in Viewer, f \in File : LoadStart(v, f)) \/ \E r \in reads : ReadFails(r)
       PROVE  Viewing'
  BY <1>b, <1>same DEF LoadStart, ReadFails
<1>3. ASSUME NEW v \in Viewer, Leave(v) \/ ViewerGone(v) PROVE Viewing'
  BY <1>3, DetachViewing, GoneViewing DEF Leave, ViewerGone, IInv
<1>5. ASSUME NEW f \in File, LoadUnviewed(f) \/ BuildFailed(f) PROVE Viewing'
  BY <1>5, <1>same DEF LoadUnviewed, BuildFailed
<1>6. ASSUME NEW f \in File, NEW a \in Agent, BuildDone(f, a) PROVE Viewing'
  <2>1. /\ UNCHANGED <<at, gone, ghosts>> /\ raced \subseteq raced'
        /\ sessions'[f].clients = {}
        /\ \A g \in File : g # f => sessions'[g] = sessions[g]
    BY <1>6 DEF BuildDone, ServerEntry, NoEntry, IInv, TypeOK
  <2> QED BY <2>1, <1>one
<1>8. CASE Resume
  <2> DEFINE k == Head(resumed)
  <2>1. resumed \in Seq(Continuation) /\ resumed # <<>> BY <1>8 DEF Resume, Settled, IInv, TypeOK
  <2>a. k \in Continuation BY <2>1
  <2>2. k.file \in File /\ k.who \subseteq Viewer BY <2>a DEF Continuation
  <2>g. gone' = gone /\ ghosts' = ghosts BY <1>8 DEF Resume
  <2> HIDE DEF k
  <2>3. ASSUME NEW v \in k.who, ResumeView(v, k.file), UNCHANGED raced PROVE Viewing'
    <3>1. CASE painted[v] = k.file /\ v \notin gone
      BY <2>2, <2>3, <2>g, <3>1, AttachViewing DEF ResumeView, IInv
    <3>2. CASE ~(painted[v] = k.file /\ v \notin gone) BY <2>3, <2>g, <3>2, <1>same DEF ResumeView
    <3> QED BY <3>1, <3>2
  <2>4. ASSUME ResumeHandback(k.file, k.who) PROVE Viewing'
    <3>1. /\ at' = at /\ raced \subseteq raced'
          /\ raced' = {} => \A v \in k.who : at[v] = k.file /\ v \notin gone \ ghosts
          /\ \A g \in File : g # k.file => sessions'[g] = sessions[g]
      BY <2>4, <2>2 DEF ResumeHandback, IInv, TypeOK
    <3>2. sessions'[k.file].clients = k.who
      <4>1. sessions'[k.file] = [sessions[k.file] EXCEPT !.clients = k.who]
        BY <2>4, <2>2 DEF ResumeHandback, IInv, TypeOK
      <4> QED BY <2>2, <4>1, <1>rec DEF Entry
    <3> SUFFICES ASSUME raced' = {}, NEW g \in File, NEW v \in sessions'[g].clients
                 PROVE  at'[v] = g /\ v \notin gone' \ ghosts'
      BY DEF Viewing, NoPhantomUnlessRaced, NoPhantomViewer
    <3>3. CASE g = k.file BY <2>g, <3>1, <3>2, <3>3
    <3>4. CASE g # k.file BY <2>g, <3>1, <3>4 DEF Viewing, NoPhantomUnlessRaced, NoPhantomViewer
    <3> QED BY <3>3, <3>4
  <2>5. CASE UNCHANGED <<sessions, timers, at, raced>> BY <2>5, <2>g, <1>same
  <2> QED BY <1>8, <2>3, <2>4, <2>5 DEF Resume, k
<1>9. ASSUME NEW c \in Conn, RegisterRefused(c) \/ \E f \in File : RegisterCold(c, f) PROVE Viewing'
  BY <1>9, <1>same DEF RegisterCold, RegisterRefused
<1>10. ASSUME NEW c \in Conn, NEW f \in File, NEW s \in BOOLEAN, RegisterResident(c, f, s)
       PROVE  Viewing'
  <2>1. /\ UNCHANGED <<at, gone, ghosts, raced>>
        /\ sessions'[f].clients = sessions[f].clients
        /\ \A g \in File : g # f => sessions'[g] = sessions[g]
    BY <1>10 DEF RegisterResident, CliEntry, NoEntry, IInv, TypeOK
  <2> QED BY <2>1, <1>one
<1>11. ASSUME NEW c \in Conn, NEW s \in BOOLEAN, HeaderRead(c, s) PROVE Viewing'
  <2>1. conns[c].file \in File BY <1>11, <1>conn DEF HeaderRead
  <2>2. /\ UNCHANGED <<at, gone, ghosts>> /\ raced \subseteq raced'
        /\ sessions'[conns[c].file].clients = {}
        /\ \A g \in File : g # conns[c].file => sessions'[g] = sessions[g]
    BY <1>11, <2>1 DEF HeaderRead, CliEntry, NoEntry, IInv, TypeOK
  <2> QED BY <2>1, <2>2, <1>one
<1>13. ASSUME NEW c \in Conn, BridgeClosed(c) PROVE Viewing'
  <2>1. conns[c].file \in File BY <1>13, <1>conn DEF BridgeClosed
  <2>2. /\ UNCHANGED <<at, gone, ghosts>> /\ raced \subseteq raced'
        /\ sessions'[conns[c].file].clients = {} \/ sessions' = sessions
        /\ \A g \in File : g # conns[c].file => sessions'[g] = sessions[g]
    BY <1>13, <2>1 DEF BridgeClosed, NoEntry, IInv, TypeOK
  <2> QED BY <2>1, <2>2, <1>one
<1>14. ASSUME NEW f \in File, UNCHANGED <<at, gone, ghosts, raced>>,
              \/ sessions' = sessions
              \/ \E b \in BOOLEAN : sessions' = [sessions EXCEPT ![f] = [sessions[f] EXCEPT !.idle = b]]
              \/ \E n : sessions' = [sessions EXCEPT ![f] = [sessions[f] EXCEPT !.busy = n]]
              \/ \E b \in BOOLEAN : sessions' = [sessions EXCEPT ![f] = [sessions[f] EXCEPT !.reloading = b]]
              \/ \E a : sessions' = [sessions EXCEPT ![f] = [sessions[f] EXCEPT !.agent = a,
                                                               !.idle = TRUE, !.reloading = FALSE]]
              \/ sessions' = [sessions EXCEPT ![f] = NoEntry]
       PROVE  Viewing'
  <2>1. \A g \in File : g # f => sessions'[g] = sessions[g] BY <1>14 DEF IInv, TypeOK
  <2>2. sessions'[f].clients \subseteq sessions[f].clients
    <3>1. /\ \A b : [sessions[f] EXCEPT !.idle = b].clients = sessions[f].clients
          /\ \A n : [sessions[f] EXCEPT !.busy = n].clients = sessions[f].clients
          /\ \A b : [sessions[f] EXCEPT !.reloading = b].clients = sessions[f].clients
          /\ \A a : [sessions[f] EXCEPT !.agent = a, !.idle = TRUE, !.reloading = FALSE].clients
                       = sessions[f].clients
          /\ NoEntry.clients = {}
      BY <1>rec DEF Entry, NoEntry
    <3>2. \A e : sessions' = [sessions EXCEPT ![f] = e] => sessions'[f] = e BY DEF IInv, TypeOK
    <3>3. CASE sessions' = sessions BY <3>3
    <3>4. CASE \E b \in BOOLEAN : sessions' = [sessions EXCEPT ![f] = [sessions[f] EXCEPT !.idle = b]]
      BY <3>1, <3>2, <3>4
    <3>5. CASE \E n : sessions' = [sessions EXCEPT ![f] = [sessions[f] EXCEPT !.busy = n]]
      BY <3>1, <3>2, <3>5
    <3>6. CASE \E b \in BOOLEAN : sessions' = [sessions EXCEPT ![f] = [sessions[f] EXCEPT !.reloading = b]]
      BY <3>1, <3>2, <3>6
    <3>7. CASE \E a : sessions' = [sessions EXCEPT ![f] = [sessions[f] EXCEPT !.agent = a,
                                                             !.idle = TRUE, !.reloading = FALSE]]
      BY <3>1, <3>2, <3>7
    <3>8. CASE sessions' = [sessions EXCEPT ![f] = NoEntry] BY <3>1, <3>2, <3>8
    <3> QED BY <1>14, <3>3, <3>4, <3>5, <3>6, <3>7, <3>8
  <2> QED BY <1>14, <2>1, <2>2, <1>one
<1>15. ASSUME NEW c \in Conn, CliAgentStart(c) \/ CliAgentEnd(c) PROVE Viewing'
  <2>1. conns[c].file \in File BY <1>15, <1>conn DEF CliAgentStart, CliAgentEnd
  <2> QED BY <1>15, <2>1, <1>14 DEF CliAgentStart, CliAgentEnd
<1>16. ASSUME NEW a \in Agent, AgentStart(a) \/ AgentEnd(a) PROVE Viewing'
  <2>1. agents[a].file \in File BY <1>16 DEF AgentStart, AgentEnd, IInv, Ownership, AgentShape
  <2> QED BY <1>16, <2>1, <1>14 DEF AgentStart, AgentEnd
<1>17. ASSUME NEW f \in File, Send(f) \/ SendReturns(f) \/ ReloadStart(f) PROVE Viewing'
  BY <1>17, <1>14 DEF Send, SendReturns, ReloadStart
<1>18. ASSUME NEW r \in reloads, NEW a \in Agent, ReloadDone(r, a) PROVE Viewing'
  <2>1. r.file \in File BY DEF IInv, TypeOK
  <2> QED BY <1>18, <2>1, <1>14 DEF ReloadDone
<1>19. ASSUME NEW r \in reloads, ReloadFailed(r) PROVE Viewing'
  <2>1. r.file \in File BY DEF IInv, TypeOK
  <2> QED BY <1>19, <2>1, <1>14 DEF ReloadFailed
<1>20. ASSUME NEW f \in File, NEW i \in EntryId, IdleTimeout(f, i) PROVE Viewing'
  BY <1>20, <1>14 DEF IdleTimeout, Destroy
<1>21. ASSUME NEW f \in File, DeleteSession(f) PROVE Viewing'
  <2>1. /\ sessions' = [sessions EXCEPT ![f] = NoEntry] /\ UNCHANGED <<gone, ghosts, raced>>
        /\ at' = [v \in Viewer |-> IF v \in sessions[f].clients \ gone THEN None ELSE at[v]]
    BY <1>21 DEF DeleteSession, Destroy
  <2>2. /\ sessions'[f].clients = {}
        /\ \A g \in File : g # f => sessions'[g] = sessions[g]
    BY <2>1 DEF NoEntry, IInv, TypeOK
  <2> SUFFICES ASSUME raced = {}, NEW g \in File, NEW v \in sessions'[g].clients
               PROVE  at'[v] = g /\ v \notin gone \ ghosts
    BY <2>1 DEF Viewing, NoPhantomUnlessRaced, NoPhantomViewer
  <2>3. g # f /\ v \in sessions[g].clients /\ v \in Viewer BY <2>2, <1>rec DEF Entry
  <2>4. at[v] = g /\ v \notin gone \ ghosts
    BY <2>3 DEF Viewing, NoPhantomUnlessRaced, NoPhantomViewer
  <2>5. v \notin sessions[f].clients
    BY <2>3, <2>4 DEF Viewing, NoPhantomUnlessRaced, NoPhantomViewer
  <2> QED BY <2>1, <2>3, <2>4, <2>5
<1>22. ASSUME NEW f \in File, PinSession(f) \/ UnpinSession(f) PROVE Viewing'
  BY <1>22, <1>same DEF PinSession, UnpinSession
<1>24. CASE UNCHANGED vars BY <1>24, <1>same DEF vars
<1> QED BY <1>1, <1>2, <1>a, <1>b, <1>3, <1>5, <1>6, <1>8, <1>9, <1>10, <1>11, <1>13,
           <1>15, <1>16, <1>17, <1>18, <1>19, <1>20, <1>21, <1>22, <1>24
       DEF Next, ViewerStep, LoadStep, BuildStep, BridgeStep, TurnStep, ReloadStep, PoolStep

--------------------
(* The theorems. *)

LEMMA InitStanding == Init => Standing
<1> SUFFICES ASSUME Init PROVE Driving /\ Viewing /\ Timing BY StandingParts
<1>1. \A f \in File : sessions[f].kind = "none" /\ sessions[f].clients = {} BY DEF Init, NoEntry
<1>2. Driving
  <2>1. NoLeakUnlessRaced BY DEF Init, NoLeakUnlessRaced, Live
  <2> QED BY <1>1, <2>1 DEF Init, Driving, BridgeShape, DriverHasEntry, TerminalDrives,
                            BridgeEntryIsOpenUnlessRaced, BridgeEntryIsOpen
<1>3. Viewing BY <1>1 DEF Init, Viewing, NoPhantomUnlessRaced, NoPhantomViewer
<1>4. Timing BY DEF Init, Timing, ViewedIsNotTimed, TimedIsResident
<1> QED BY <1>2, <1>3, <1>4

\* In every reachable state, whoever interleaves: a file no named race has hit has
\* its driver, viewers and timers in order.
THEOREM StandingInvariance == Spec => []Standing
<1>1. (IInv /\ Standing) /\ [Next]_vars => (IInv /\ Standing)'
  <2> SUFFICES ASSUME IInv, Standing, [Next]_vars PROVE (IInv /\ Standing)' OBVIOUS
  <2>1. Driving /\ Viewing /\ Timing BY StandingParts
  <2>2. Driving' /\ Viewing' /\ Timing' BY <2>1, DrivingStep, ViewingStep, TimingStep DEF Timing
  <2>3. Standing' BY <2>2 DEF Standing, Driving, Viewing, Timing, EntryIsTrueUnlessRaced
  <2>4. IInv' BY TypeStep, OwnershipStep DEF IInv
  <2> QED BY <2>3, <2>4
<1>2. Init => IInv /\ Standing BY InitIInv, InitStanding
<1> QED BY <1>1, <1>2, PTL DEF Spec

\* At most one live server agent per file, and none while a terminal drives it:
\* the live agents are the entry's one, and a driving terminal has the entry.
THEOREM OneDriverTheorem == Spec => []OneDriverUnlessRaced
<1>1. Standing => OneDriverUnlessRaced
  <2> SUFFICES ASSUME Standing, NEW f \in File, f \notin raced PROVE OneDriver(f)
    BY DEF OneDriverUnlessRaced
  <2>1. \A a \in Live(f) : sessions[f].kind = "server" /\ sessions[f].agent = a
    BY DEF Standing, NoLeakUnlessRaced
  <2>2. Cardinality(Live(f)) <= 1
    <3>1. Live(f) = {} \/ Live(f) = {sessions[f].agent} BY <2>1
    <3>2. Cardinality({}) = 0 /\ Cardinality({sessions[f].agent}) = 1 BY FS_EmptySet, FS_Singleton
    <3> QED BY <3>1, <3>2
  <2>3. TerminalDrives(f) => Live(f) = {} BY <2>1 DEF Standing, DriverHasEntry
  <2> QED BY <2>2, <2>3 DEF OneDriver
<1> QED BY <1>1, StandingInvariance, PTL

\* A live agent of an unraced file is the one its entry names.
THEOREM NoLeakTheorem == Spec => []NoLeakUnlessRaced
<1>1. Standing => NoLeakUnlessRaced BY DEF Standing
<1> QED BY <1>1, StandingInvariance, PTL

\* An entry of an unraced file stands for an open socket, counts only viewers
\* attached to it, and has a timer only for itself and while nobody views it.
THEOREM EntryIsTrueTheorem == Spec => []EntryIsTrueUnlessRaced
<1>1. Standing => EntryIsTrueUnlessRaced BY DEF Standing
<1> QED BY <1>1, StandingInvariance, PTL
========================================
