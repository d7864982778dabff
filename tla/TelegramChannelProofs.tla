----------------------- MODULE TelegramChannelProofs -----------------------
(* Proofs about what reaches the assistant through TelegramChannel, for    *)
(* any users, albums and bounds.                                           *)
EXTENDS TelegramChannel, FiniteSetTheorems, TLAPS

--------------------
(* What a queue of messages holds. *)

LEMMA RangeOfAppend ==
    ASSUME NEW S, NEW s \in Seq(S), NEW e \in S
    PROVE  Append(s, e) \in Seq(S) /\ Range(Append(s, e)) = Range(s) \cup {e}
<1>1. Append(s, e) \in Seq(S) /\ Len(Append(s, e)) = Len(s) + 1 OBVIOUS
<1>2. \A i \in 1..(Len(s) + 1) : Append(s, e)[i] = IF i <= Len(s) THEN s[i] ELSE e OBVIOUS
<1>3. DOMAIN s = 1..Len(s) /\ DOMAIN Append(s, e) = 1..(Len(s) + 1) /\ Len(s) \in Nat BY <1>1
<1>4. ASSUME NEW x \in Range(Append(s, e)) PROVE x \in Range(s) \cup {e}
  <2>1. PICK i \in 1..(Len(s) + 1) : x = Append(s, e)[i] BY <1>3, <1>4 DEF Range
  <2>2. CASE i <= Len(s) BY <2>1, <2>2, <1>2, <1>3 DEF Range
  <2>3. CASE ~(i <= Len(s)) BY <2>1, <2>3, <1>2
  <2> QED BY <2>2, <2>3
<1>5. ASSUME NEW x \in Range(s) PROVE x \in Range(Append(s, e))
  <2>1. PICK i \in 1..Len(s) : x = s[i] BY <1>3, <1>5 DEF Range
  <2>2. i \in 1..(Len(s) + 1) /\ Append(s, e)[i] = x BY <2>1, <1>2, <1>3
  <2> QED BY <2>2, <1>3 DEF Range
<1>6. e \in Range(Append(s, e))
  <2>1. Len(s) + 1 \in 1..(Len(s) + 1) /\ Append(s, e)[Len(s) + 1] = e BY <1>2, <1>3
  <2> QED BY <2>1, <1>3 DEF Range
<1> QED BY <1>1, <1>4, <1>5, <1>6

LEMMA RangeOfConcat ==
    ASSUME NEW S, NEW s \in Seq(S), NEW t \in Seq(S)
    PROVE  s \o t \in Seq(S) /\ Range(s \o t) = Range(s) \cup Range(t)
<1>1. s \o t \in Seq(S) /\ Len(s \o t) = Len(s) + Len(t) OBVIOUS
<1>2. \A i \in 1..(Len(s) + Len(t)) : (s \o t)[i] = IF i <= Len(s) THEN s[i] ELSE t[i - Len(s)]
  OBVIOUS
<1>3. /\ DOMAIN s = 1..Len(s) /\ DOMAIN t = 1..Len(t) /\ DOMAIN (s \o t) = 1..(Len(s) + Len(t))
      /\ Len(s) \in Nat /\ Len(t) \in Nat
  BY <1>1
<1>4. ASSUME NEW x \in Range(s \o t) PROVE x \in Range(s) \cup Range(t)
  <2>1. PICK i \in 1..(Len(s) + Len(t)) : x = (s \o t)[i] BY <1>3, <1>4 DEF Range
  <2>2. CASE i <= Len(s) BY <2>1, <2>2, <1>2, <1>3 DEF Range
  <2>3. CASE ~(i <= Len(s))
    <3>1. i - Len(s) \in 1..Len(t) /\ x = t[i - Len(s)] BY <2>1, <2>3, <1>2, <1>3
    <3> QED BY <3>1, <1>3 DEF Range
  <2> QED BY <2>2, <2>3
<1>5. ASSUME NEW x \in Range(s) PROVE x \in Range(s \o t)
  <2>1. PICK i \in 1..Len(s) : x = s[i] BY <1>3, <1>5 DEF Range
  <2>2. i \in 1..(Len(s) + Len(t)) /\ (s \o t)[i] = x BY <2>1, <1>2, <1>3
  <2> QED BY <2>2, <1>3 DEF Range
<1>6. ASSUME NEW x \in Range(t) PROVE x \in Range(s \o t)
  <2>1. PICK i \in 1..Len(t) : x = t[i] BY <1>3, <1>6 DEF Range
  <2>2. Len(s) + i \in 1..(Len(s) + Len(t)) /\ (s \o t)[Len(s) + i] = x BY <2>1, <1>2, <1>3
  <2> QED BY <2>2, <1>3 DEF Range
<1> QED BY <1>1, <1>4, <1>5, <1>6

LEMMA RangeOfTail ==
    ASSUME NEW S, NEW s \in Seq(S), s # <<>>
    PROVE  Head(s) \in S /\ Tail(s) \in Seq(S) /\ Range(s) = {Head(s)} \cup Range(Tail(s))
<1>1. /\ Head(s) = s[1] /\ Head(s) \in S /\ Tail(s) \in Seq(S)
      /\ Len(s) \in Nat \ {0} /\ Len(Tail(s)) = Len(s) - 1
  OBVIOUS
<1>2. \A i \in 1..(Len(s) - 1) : Tail(s)[i] = s[i + 1] OBVIOUS
<1>3. DOMAIN s = 1..Len(s) /\ DOMAIN Tail(s) = 1..(Len(s) - 1) BY <1>1
<1>4. ASSUME NEW x \in Range(s) PROVE x \in {Head(s)} \cup Range(Tail(s))
  <2>1. PICK i \in 1..Len(s) : x = s[i] BY <1>3, <1>4 DEF Range
  <2>2. CASE i = 1 BY <2>1, <2>2, <1>1
  <2>3. CASE i # 1
    <3>1. i - 1 \in 1..(Len(s) - 1) /\ Tail(s)[i - 1] = x BY <2>1, <2>3, <1>1, <1>2
    <3> QED BY <3>1, <1>3 DEF Range
  <2> QED BY <2>2, <2>3
<1>5. ASSUME NEW x \in Range(Tail(s)) PROVE x \in Range(s)
  <2>1. PICK i \in 1..(Len(s) - 1) : x = Tail(s)[i] BY <1>3, <1>5 DEF Range
  <2>2. i + 1 \in 1..Len(s) /\ s[i + 1] = x BY <2>1, <1>1, <1>2
  <2> QED BY <2>2, <1>3 DEF Range
<1>6. Head(s) \in Range(s) BY <1>1, <1>3 DEF Range
<1> QED BY <1>1, <1>4, <1>5, <1>6

LEMMA IdsAreRange ==
    ASSUME NEW q PROVE IdsOf(q) = UNION {Range(m) : m \in Range(q)}
BY DEF IdsOf, Range

LEMMA IdsOfConcat ==
    ASSUME NEW q \in Seq(Seq(Ids)), NEW r \in Seq(Seq(Ids))
    PROVE  q \o r \in Seq(Seq(Ids)) /\ IdsOf(q \o r) = IdsOf(q) \cup IdsOf(r)
<1>1. q \o r \in Seq(Seq(Ids)) /\ Range(q \o r) = Range(q) \cup Range(r) BY RangeOfConcat
<1>2. /\ IdsOf(q \o r) = UNION {Range(m) : m \in Range(q \o r)}
      /\ IdsOf(q) = UNION {Range(m) : m \in Range(q)}
      /\ IdsOf(r) = UNION {Range(m) : m \in Range(r)}
  BY IdsAreRange
<1> QED BY <1>1, <1>2

LEMMA IdsOfTail ==
    ASSUME NEW q \in Seq(Seq(Ids)), q # <<>>
    PROVE  /\ Head(q) \in Seq(Ids) /\ Tail(q) \in Seq(Seq(Ids))
           /\ IdsOf(q) = Range(Head(q)) \cup IdsOf(Tail(q))
<1>1. Head(q) \in Seq(Ids) /\ Tail(q) \in Seq(Seq(Ids)) /\ Range(q) = {Head(q)} \cup Range(Tail(q))
  BY RangeOfTail
<1>2. IdsOf(q) = UNION {Range(m) : m \in Range(q)} /\ IdsOf(Tail(q)) = UNION {Range(m) : m \in Range(Tail(q))}
  BY IdsAreRange
<1> QED BY <1>1, <1>2

LEMMA IdsOfOne ==
    ASSUME NEW m \in Seq(Ids)
    PROVE  <<m>> \in Seq(Seq(Ids)) /\ IdsOf(<<m>>) = Range(m) /\ IdsOf(<<>>) = {} /\ <<>> \in Seq(Seq(Ids))
<1>1. DOMAIN <<m>> = {1} /\ <<m>>[1] = m /\ <<m>> \in Seq(Seq(Ids)) OBVIOUS
<1>2. IdsOf(<<m>>) = Range(m) BY <1>1 DEF IdsOf
<1>3. DOMAIN <<>> = {} /\ <<>> \in Seq(Seq(Ids)) OBVIOUS
<1> QED BY <1>1, <1>2, <1>3 DEF IdsOf

LEMMA RangeInSet ==
    ASSUME NEW S, NEW s \in Seq(S) PROVE Range(s) \subseteq S
<1>1. DOMAIN s = 1..Len(s) /\ \A i \in 1..Len(s) : s[i] \in S OBVIOUS
<1> QED BY <1>1 DEF Range

LEMMA RangeOfSmall ==
    ASSUME NEW x PROVE Range(<<x>>) = {x} /\ Range(<<>>) = {}
<1>1. DOMAIN <<x>> = {1} /\ <<x>>[1] = x /\ DOMAIN <<>> = {} OBVIOUS
<1> QED BY <1>1 DEF Range

--------------------
(* What the invariant is about, and what leaves it alone. *)

core == <<sent, sends, confirmed, life, loop, owner, code, issued, disk, group, inbound, asking,
          forwarded, taken, answered, risked>>

LEMMA Frame ==
    ASSUME IInv, UNCHANGED core PROVE IInv'
<1> USE DEF core
<1>1. InTypes' BY DEF IInv, InTypes
<1>2. LoopShape' BY DEF IInv, LoopShape, upd
<1>3. OnlyPartsWait' BY DEF IInv, OnlyPartsWait, IsPart, upd
<1>4. PastIsKept' BY DEF IInv, PastIsKept, Settled, Pending, IdsOf, Behind, upd
<1>5. NoPairing' BY DEF IInv, NoPairing
<1> QED BY <1>1, <1>2, <1>3, <1>4, <1>5 DEF IInv

LEMMA PendingTypes ==
    ASSUME InTypes
    PROVE  /\ Range(group.ids) \subseteq Ids /\ IdsOf(inbound) \subseteq Ids /\ Range(taken) \subseteq Ids
           /\ Pending \subseteq Ids
<1>1. group.ids \in Seq(Ids) /\ inbound \in Seq(Seq(Ids)) /\ taken \in Seq(Ids) BY DEF InTypes
<1>2. Range(group.ids) \subseteq Ids /\ Range(taken) \subseteq Ids BY <1>1, RangeInSet
<1>3. \A k \in DOMAIN inbound : inbound[k] \in Seq(Ids) BY <1>1
<1>4. \A k \in DOMAIN inbound : Range(inbound[k]) \subseteq Ids BY <1>3, RangeInSet
<1>5. IdsOf(inbound) \subseteq Ids BY <1>4 DEF IdsOf
<1> QED BY <1>2, <1>5 DEF Pending

LEMMA SentTypes ==
    ASSUME InTypes, NEW i \in DOMAIN sent
    PROVE  sent[i].from \in Users /\ sent[i].album \in Albums \cup {None}
<1> DEFINE Records == [from : Users, kind : {"text", "command", "part", "pair"},
                       album : Albums \cup {None}, code : {0} \cup Codes]
<1>1. sent \in Seq(Records) BY DEF InTypes
<1>2. sent[i] \in Records
  <2> HIDE DEF Records
  <2> QED BY <1>1
<1> QED BY <1>2

LEMMA FlushedTypes ==
    ASSUME InTypes
    PROVE  FlushedGroup \in Seq(Seq(Ids)) /\ IdsOf(FlushedGroup) = Range(group.ids)
<1>1. group.ids \in Seq(Ids) BY DEF InTypes
<1>2. CASE group = NoGroup
  <2>1. group.ids = <<>> /\ FlushedGroup = <<>> BY <1>2 DEF NoGroup, FlushedGroup
  <2> QED BY <2>1, <1>1, IdsOfOne, RangeOfSmall
<1>3. CASE group # NoGroup
  <2>1. FlushedGroup = <<group.ids>> BY <1>3 DEF FlushedGroup
  <2> QED BY <2>1, <1>1, IdsOfOne
<1> QED BY <1>2, <1>3

\* Messages of parts may join the queue behind messages of parts.
LEMMA PartsJoin ==
    ASSUME InTypes, OnlyPartsWait, loop.at # "waiting"
    PROVE  \A k \in DOMAIN (inbound \o FlushedGroup) : \A i \in Range((inbound \o FlushedGroup)[k]) : IsPart(i)
<1>1. inbound \in Seq(Seq(Ids)) /\ FlushedGroup \in Seq(Seq(Ids)) BY FlushedTypes DEF InTypes
<1>2. \A k \in DOMAIN inbound : \A i \in Range(inbound[k]) : IsPart(i) BY DEF OnlyPartsWait
<1>3. IdsOf(inbound) \subseteq {i \in Ids : IsPart(i)} BY <1>2, PendingTypes DEF IdsOf
<1>4. IdsOf(FlushedGroup) \subseteq {i \in Ids : IsPart(i)}
  BY FlushedTypes, PendingTypes DEF OnlyPartsWait
<1>5. IdsOf(inbound \o FlushedGroup) \subseteq {i \in Ids : IsPart(i)}
  BY <1>1, <1>3, <1>4, IdsOfConcat
<1> QED BY <1>5 DEF IdsOf

--------------------
(* The initial states. *)

LEMMA InitHolds == Init => IInv
<1> SUFFICES ASSUME Init PROVE IInv OBVIOUS
<1>1. Range(<<>>) = {} /\ IdsOf(<<>>) = {}
  <2>1. DOMAIN <<>> = {} OBVIOUS
  <2> QED BY <2>1 DEF IdsOf, Range
<1>2. code \in {0} \cup Codes /\ issued \in {0} \cup Codes /\ owner \in Users \cup {None}
  BY ChannelAssumption DEF Init, Codes
<1>3. group \in [album : Albums \cup {None}, ids : Seq(Ids)] /\ group.ids = <<>>
  BY DEF Init, NoGroup
<1>4. InTypes BY <1>2, <1>3, ChannelAssumption DEF Init, InTypes
<1>5. LoopShape BY DEF Init, LoopShape
<1>6. OnlyPartsWait BY <1>1, <1>3 DEF Init, OnlyPartsWait
<1>7. PastIsKept BY DEF Init, PastIsKept
<1>8. NoPairing BY DEF Init, NoPairing
<1> QED BY <1>4, <1>5, <1>6, <1>7, <1>8 DEF IInv

--------------------
(* One lemma per action. *)

LEMMA SendsStep ==
    ASSUME IInv, NEW u \in Users, NEW what \in Kinds, Sends(u, what) PROVE IInv'
<1>1. UNCHANGED <<confirmed, life, loop, owner, code, issued, disk, group, inbound, asking,
                  forwarded, taken, answered, risked>>
  BY DEF Sends, pairVars
<1> DEFINE new == [from |-> u, kind |-> what.kind, album |-> what.album, code |-> what.code]
<1> DEFINE Update_ == [from : Users, kind : {"text", "command", "part", "pair"},
                       album : Albums \cup {None}, code : {0} \cup Codes]
<1>2. /\ what.kind \in {"text", "command", "part", "pair"}
      /\ what.album \in Albums \cup {None} /\ what.code \in {0} \cup Codes
  BY DEF Kinds, Update
<1>3. new \in Update_ /\ sent \in Seq(Update_) BY <1>2 DEF IInv, InTypes
<1>4. sent' = Append(sent, new) /\ sends' = sends + 1 /\ sends < MaxSent BY DEF Sends, Arrives
<1>5. /\ sent' \in Seq(Update_) /\ Len(sent') = Len(sent) + 1 /\ DOMAIN sent \subseteq DOMAIN sent'
      /\ \A i \in DOMAIN sent : sent'[i] = sent[i]
  <2> HIDE DEF new, Update_
  <2> QED BY <1>3, <1>4
<1>6. sends' \in Nat /\ Len(sent') <= sends' /\ sends' <= MaxSent
  BY <1>4, <1>5, ChannelAssumption DEF IInv, InTypes
<1>7. InTypes' BY <1>1, <1>5, <1>6 DEF IInv, InTypes
<1>8. LoopShape' BY <1>1, <1>5 DEF IInv, InTypes, LoopShape, upd
<1>9. \A i : IsPart(i) => IsPart(i)' BY <1>5 DEF IsPart
<1>10. loop.at = "waiting" => ~IsPart(upd)'
  BY <1>1, <1>5 DEF IInv, LoopShape, OnlyPartsWait, IsPart, upd
<1>11. OnlyPartsWait' BY <1>1, <1>9, <1>10 DEF IInv, OnlyPartsWait, upd
<1>12. PastIsKept' BY <1>1 DEF IInv, PastIsKept, Settled, Pending, IdsOf, Behind, upd
<1>13. NoPairing' BY <1>1, <1>5 DEF IInv, NoPairing
<1> QED BY <1>7, <1>8, <1>11, <1>12, <1>13 DEF IInv

LEMMA PollStep ==
    ASSUME IInv, Poll PROVE IInv'
<1> DEFINE first == IF confirmed > loop.offset THEN confirmed ELSE loop.offset
<1>1. UNCHANGED <<sent, sends, life, owner, code, issued, disk, group, inbound, asking,
                  forwarded, taken, answered, risked>>
  BY DEF Poll, pairVars
<1>2. /\ loop.at = "polling" /\ confirmed' = first
      /\ loop' = IF first > Len(sent) THEN loop
                 ELSE [loop EXCEPT !.at = "handling", !.upd = first, !.last = Len(sent)]
  BY DEF Poll
<1>3. /\ first \in Nat \ {0} /\ first >= confirmed /\ first >= loop.offset
      /\ first \in {confirmed, loop.offset} /\ Len(sent) \in Nat
      /\ DOMAIN sent = 1..Len(sent)
  BY DEF IInv, InTypes
<1> HIDE DEF first
<1>4. InTypes' /\ loop'.offset = loop.offset BY <1>1, <1>2, <1>3 DEF IInv, InTypes
<1>5. LoopShape'
  <2>1. CASE first > Len(sent) BY <1>1, <1>2, <2>1 DEF IInv, LoopShape
  <2>2. CASE ~(first > Len(sent))
    <3>1. loop'.at = "handling" /\ loop'.upd = first /\ loop'.last = Len(sent) /\ loop'.offset = loop.offset
      BY <1>2, <2>2 DEF IInv, InTypes
    <3>2. first \in DOMAIN sent /\ first <= Len(sent) BY <1>3, <2>2
    <3> QED BY <1>1, <1>2, <1>3, <3>1, <3>2 DEF IInv, LoopShape, upd
  <2> QED BY <2>1, <2>2
<1>6. loop'.at \in {"polling", "handling"} BY <1>2 DEF IInv, InTypes
<1>7. OnlyPartsWait' BY <1>1, <1>2, <1>6 DEF IInv, OnlyPartsWait, IsPart
<1>8. Behind = loop.offset /\ Behind' = loop.offset BY <1>2, <1>4, <1>6 DEF Behind
<1>9. PastIsKept'
  BY <1>1, <1>2, <1>3, <1>8 DEF IInv, InTypes, Ids, PastIsKept, Settled, Pending, IdsOf
<1>10. NoPairing' BY <1>1 DEF IInv, NoPairing
<1> QED BY <1>4, <1>5, <1>7, <1>9, <1>10 DEF IInv

LEMMA TokenRejectedStep ==
    ASSUME IInv, TokenRejected PROVE IInv'
<1>1. UNCHANGED <<sent, sends, confirmed, life, owner, code, issued, disk, group, inbound, asking,
                  forwarded, taken, answered, risked>>
  BY DEF TokenRejected, pairVars
<1>2. loop.at = "polling" /\ loop' = [loop EXCEPT !.at = "ended"] BY DEF TokenRejected
<1>3. InTypes' /\ loop'.at = "ended" /\ loop'.offset = loop.offset BY <1>1, <1>2 DEF IInv, InTypes
<1>4. LoopShape' BY <1>1, <1>3 DEF IInv, LoopShape
<1>5. OnlyPartsWait' BY <1>1, <1>2, <1>3 DEF IInv, OnlyPartsWait, IsPart
<1>6. Behind = loop.offset /\ Behind' = loop.offset BY <1>2, <1>3 DEF Behind
<1>7. PastIsKept' BY <1>1, <1>6 DEF IInv, PastIsKept, Settled, Pending, IdsOf
<1>8. NoPairing' BY <1>1 DEF IInv, NoPairing
<1> QED BY <1>3, <1>4, <1>5, <1>7, <1>8 DEF IInv

\* What is still Telegram's while an update is handled is that one or comes after it.
LEMMA AtUpdate ==
    ASSUME IInv, loop.at = "handling"
    PROVE  /\ upd \in Nat /\ upd \in Ids /\ upd \in DOMAIN sent /\ confirmed \in Nat
           /\ \A i \in forwarded : i \in Settled \cup Pending \/ i = upd \/ (i >= upd + 1 /\ i >= confirmed)
<1>1. upd \in DOMAIN sent /\ upd \in {confirmed, loop.offset} /\ upd \in Nat /\ confirmed \in Nat
  BY DEF IInv, InTypes, LoopShape, upd
<1>2. Behind = loop.offset BY DEF Behind
<1>3. upd \in Ids
  <2>1. Len(sent) \in Nat /\ DOMAIN sent = 1..Len(sent) /\ Len(sent) <= MaxSent /\ MaxSent \in Nat
    BY ChannelAssumption DEF IInv, InTypes
  <2> QED BY <1>1, <2>1 DEF Ids
<1>4. \A i \in forwarded : i \in Nat BY DEF IInv, InTypes, Ids
<1>5. \A i \in forwarded : i \in Settled \cup Pending \/ (i >= upd /\ i >= confirmed)
  BY <1>1, <1>2 DEF IInv, PastIsKept
<1> QED BY <1>1, <1>3, <1>4, <1>5

\* The handling of an update ends, or waits for a reply.
LEMMA HandledShape ==
    ASSUME IInv, loop.at \in {"handling", "replying"}, NEW at \in {"replying", "handled"}, Then(at),
           UNCHANGED <<sent, confirmed>>, disk'.offset = disk.offset
    PROVE  /\ loop' \in [at : {"polling", "handling", "waiting", "replying", "handled", "ended"},
                         upd : Nat, last : Nat, offset : Nat \ {0}]
           /\ loop'.at = at /\ upd' = upd /\ LoopShape' /\ Behind' = upd + 1
<1>1. loop' = [loop EXCEPT !.at = at] BY DEF Then
<1>2. loop'.at = at /\ loop'.upd = loop.upd /\ loop'.last = loop.last /\ loop'.offset = loop.offset
  BY <1>1 DEF IInv, InTypes
<1>3. /\ loop' \in [at : {"polling", "handling", "waiting", "replying", "handled", "ended"},
                    upd : Nat, last : Nat, offset : Nat \ {0}]
  BY <1>1 DEF IInv, InTypes
<1>4. LoopShape' BY <1>2 DEF IInv, LoopShape, upd
<1> QED BY <1>2, <1>3, <1>4 DEF upd, Behind

LEMMA HandleOtherStep ==
    ASSUME IInv, HandleOther PROVE IInv'
<1> DEFINE to == IF IsOwner THEN "replying" ELSE "handled"
<1>1. UNCHANGED <<sent, sends, confirmed, life, owner, code, issued, disk, group, inbound, asking,
                  forwarded, taken, answered>>
  BY DEF HandleOther, pairVars
<1>2. loop.at = "handling" /\ Then(to) /\ to \in {"replying", "handled"}
  BY DEF HandleOther, Handling
<1>3. risked' = IF upd \in forwarded THEN risked \cup {upd} ELSE risked BY DEF HandleOther
<1> HIDE DEF to
<1>4. /\ loop' \in [at : {"polling", "handling", "waiting", "replying", "handled", "ended"},
                    upd : Nat, last : Nat, offset : Nat \ {0}]
      /\ loop'.at = to /\ upd' = upd /\ LoopShape' /\ Behind' = upd + 1
  BY <1>1, <1>2, HandledShape
<1>5. risked' \subseteq Ids BY <1>2, <1>3, AtUpdate DEF IInv, InTypes
<1>6. InTypes' BY <1>1, <1>4, <1>5 DEF IInv, InTypes
<1>7. OnlyPartsWait' BY <1>1, <1>2, <1>4 DEF IInv, OnlyPartsWait, IsPart
<1>8. Pending' = Pending /\ Settled \subseteq Settled' /\ (upd \in forwarded => upd \in Settled')
  BY <1>1, <1>3 DEF Pending, IdsOf, Settled
<1>9. PastIsKept' BY <1>1, <1>2, <1>4, <1>8, AtUpdate DEF PastIsKept
<1>10. NoPairing' BY <1>1 DEF IInv, NoPairing
<1> QED BY <1>4, <1>6, <1>7, <1>9, <1>10 DEF IInv

LEMMA HandlePairStep ==
    ASSUME IInv, HandlePair PROVE IInv'
<1>1. UNCHANGED <<sent, sends, confirmed, life, issued, group, inbound, asking,
                  forwarded, taken, answered, risked>>
  BY DEF HandlePair
<1>2. loop.at = "handling" /\ upd \notin forwarded /\ sent[upd].from \in Users
  <2>1. loop.at = "handling" /\ sent[upd].kind = "pair" BY DEF HandlePair, Handling, Pairs
  <2>2. upd \in DOMAIN sent BY <2>1, AtUpdate
  <2> QED BY <2>1, <2>2, SentTypes DEF IInv, NoPairing
<1>3. PICK to \in {"replying", "handled"} : Then(to) BY DEF HandlePair
<1>4. /\ disk' \in [owner : Users \cup {None}, offset : Nat \ {0}] /\ disk'.offset = disk.offset
      /\ owner' \in Users \cup {None} /\ code' \in {0} \cup Codes
  BY <1>2 DEF HandlePair, IInv, InTypes
<1>5. /\ loop' \in [at : {"polling", "handling", "waiting", "replying", "handled", "ended"},
                    upd : Nat, last : Nat, offset : Nat \ {0}]
      /\ loop'.at = to /\ upd' = upd /\ LoopShape' /\ Behind' = upd + 1
  BY <1>1, <1>2, <1>3, <1>4, HandledShape
<1>6. InTypes' BY <1>1, <1>4, <1>5 DEF IInv, InTypes
<1>7. OnlyPartsWait' BY <1>1, <1>2, <1>5 DEF IInv, OnlyPartsWait, IsPart
<1>8. Pending' = Pending /\ Settled' = Settled BY <1>1 DEF Pending, IdsOf, Settled
<1>9. PastIsKept' BY <1>1, <1>2, <1>5, <1>8, AtUpdate DEF PastIsKept
<1>10. NoPairing' BY <1>1 DEF IInv, NoPairing
<1> QED BY <1>5, <1>6, <1>7, <1>9, <1>10 DEF IInv

LEMMA PairingAnsweredStep ==
    ASSUME IInv, PairingAnswered PROVE IInv'
<1>1. UNCHANGED <<sent, sends, confirmed, life, owner, code, issued, disk, group, inbound, asking,
                  forwarded, taken, answered, risked>>
  BY DEF PairingAnswered, pairVars
<1>2. loop.at = "replying" /\ Then("handled") BY DEF PairingAnswered
<1>3. /\ loop' \in [at : {"polling", "handling", "waiting", "replying", "handled", "ended"},
                    upd : Nat, last : Nat, offset : Nat \ {0}]
      /\ loop'.at = "handled" /\ upd' = upd /\ LoopShape' /\ Behind' = upd + 1
  BY <1>1, <1>2, HandledShape
<1>4. InTypes' BY <1>1, <1>3 DEF IInv, InTypes
<1>5. OnlyPartsWait' BY <1>1, <1>2, <1>3 DEF IInv, OnlyPartsWait, IsPart
<1>6. Pending' = Pending /\ Settled' = Settled /\ Behind = upd + 1
  BY <1>1, <1>2 DEF Pending, IdsOf, Settled, Behind
<1>7. PastIsKept' BY <1>1, <1>3, <1>6 DEF IInv, PastIsKept
<1>8. NoPairing' BY <1>1 DEF IInv, NoPairing
<1> QED BY <1>3, <1>4, <1>5, <1>7, <1>8 DEF IInv

LEMMA HandlePartStep ==
    ASSUME IInv, HandlePart PROVE IInv'
<1> DEFINE same == group.album = sent[upd].album
<1>1. UNCHANGED <<sent, sends, confirmed, life, owner, code, issued, disk, asking, taken, answered, risked>>
  BY DEF HandlePart, pairVars
<1>2. loop.at = "handling" /\ sent[upd].kind = "part" /\ Then("handled") /\ forwarded' = forwarded \cup {upd}
  BY DEF HandlePart, Handling
<1>3. /\ loop' \in [at : {"polling", "handling", "waiting", "replying", "handled", "ended"},
                    upd : Nat, last : Nat, offset : Nat \ {0}]
      /\ loop'.at = "handled" /\ upd' = upd /\ LoopShape' /\ Behind' = upd + 1
  BY <1>1, <1>2, HandledShape
<1>4. /\ upd \in Ids /\ IsPart(upd) /\ sent[upd].album \in Albums \cup {None}
      /\ group \in [album : Albums \cup {None}, ids : Seq(Ids)] /\ inbound \in Seq(Seq(Ids))
  <2>1. upd \in Ids /\ upd \in DOMAIN sent BY <1>2, AtUpdate
  <2> QED BY <1>2, <2>1, SentTypes DEF IsPart, IInv, InTypes
<1>5. /\ group' \in [album : Albums \cup {None}, ids : Seq(Ids)]
      /\ inbound' \in Seq(Seq(Ids)) /\ (inbound # <<>> => inbound' # <<>>)
      /\ Pending' = Pending \cup {upd} /\ \A i \in Range(group'.ids) : IsPart(i)
  <2>1. CASE same
    <3>1. group' = [group EXCEPT !.ids = Append(group.ids, upd)] /\ inbound' = inbound
      BY <2>1 DEF HandlePart
    <3>2. Append(group.ids, upd) \in Seq(Ids) /\ Range(Append(group.ids, upd)) = Range(group.ids) \cup {upd}
      BY <1>4, RangeOfAppend
    <3>3. group'.ids = Append(group.ids, upd) /\ group' \in [album : Albums \cup {None}, ids : Seq(Ids)]
      BY <1>4, <3>1, <3>2
    <3> QED BY <1>4, <3>1, <3>2, <3>3 DEF Pending, IdsOf, IInv, OnlyPartsWait
  <2>2. CASE ~same
    <3>1. group' = [album |-> sent[upd].album, ids |-> <<upd>>] /\ inbound' = inbound \o FlushedGroup
      BY <2>2 DEF HandlePart
    <3>2. <<upd>> \in Seq(Ids) /\ Range(<<upd>>) = {upd} BY <1>4, RangeOfSmall
    <3>3. FlushedGroup \in Seq(Seq(Ids)) /\ IdsOf(FlushedGroup) = Range(group.ids)
      BY FlushedTypes DEF IInv
    <3>4. inbound' \in Seq(Seq(Ids)) /\ IdsOf(inbound') = IdsOf(inbound) \cup Range(group.ids)
      BY <1>4, <3>1, <3>3, IdsOfConcat
    <3>5. inbound # <<>> => inbound' # <<>> BY <1>4, <3>1, <3>3
    <3>6. IdsOf(inbound)' = IdsOf(inbound') BY DEF IdsOf
    <3> QED BY <1>4, <3>1, <3>2, <3>4, <3>5, <3>6 DEF Pending
  <2> QED BY <2>1, <2>2
<1>6. InTypes' BY <1>1, <1>2, <1>3, <1>4, <1>5 DEF IInv, InTypes
<1>7. \A k \in DOMAIN inbound' : \A i \in Range(inbound'[k]) : IsPart(i)
  <2>1. CASE same BY <1>2, <2>1 DEF HandlePart, IInv, OnlyPartsWait
  <2>2. CASE ~same
    <3>1. inbound' = inbound \o FlushedGroup BY <2>2 DEF HandlePart
    <3> QED BY <1>2, <3>1, PartsJoin DEF IInv
  <2> QED BY <2>1, <2>2
<1>8. OnlyPartsWait' BY <1>1, <1>3, <1>5, <1>7 DEF OnlyPartsWait, IsPart
<1>9. Settled' = Settled BY <1>1 DEF Settled
<1>10. PastIsKept' BY <1>1, <1>2, <1>3, <1>5, <1>9, AtUpdate DEF PastIsKept
<1>11. NoPairing' BY <1>1, <1>2, AtUpdate DEF IInv, NoPairing
<1> QED BY <1>3, <1>6, <1>8, <1>10, <1>11 DEF IInv

LEMMA HandleMessageStep ==
    ASSUME IInv, HandleMessage PROVE IInv'
<1>1. UNCHANGED <<sent, sends, confirmed, life, owner, code, issued, disk, asking, taken, answered, risked>>
  BY DEF HandleMessage, pairVars
<1>2. /\ loop.at = "handling" /\ sent[upd].kind \notin {"part", "pair"}
      /\ loop' = [loop EXCEPT !.at = "waiting"] /\ forwarded' = forwarded \cup {upd}
  BY DEF HandleMessage, Handling, Forward, Then
<1>3. loop' \in [at : {"polling", "handling", "waiting", "replying", "handled", "ended"},
                 upd : Nat, last : Nat, offset : Nat \ {0}]
  BY <1>2 DEF IInv, InTypes
<1>4. /\ loop'.at = "waiting" /\ loop'.upd = loop.upd /\ loop'.last = loop.last
      /\ loop'.offset = loop.offset /\ upd' = upd
  BY <1>2 DEF IInv, InTypes, upd
<1>5. LoopShape' BY <1>1, <1>2, <1>4 DEF IInv, LoopShape, upd
<1> DEFINE before == inbound \o FlushedGroup
<1>6. /\ FlushedGroup \in Seq(Seq(Ids)) /\ IdsOf(FlushedGroup) = Range(group.ids)
      /\ inbound \in Seq(Seq(Ids)) /\ upd \in Ids /\ upd \in DOMAIN sent
  BY <1>2, FlushedTypes, AtUpdate DEF IInv, InTypes
<1>7. before \in Seq(Seq(Ids)) /\ IdsOf(before) = Pending BY <1>6, IdsOfConcat DEF Pending
<1>8. \A k \in DOMAIN before : \A i \in Range(before[k]) : IsPart(i) BY <1>2, PartsJoin DEF IInv
<1>9. inbound' = before \o <<<<upd>>>> /\ group' = NoGroup BY DEF HandleMessage
<1> HIDE DEF before
<1>10. <<upd>> \in Seq(Ids) /\ Range(<<upd>>) = {upd} /\ Range(<<>>) = {} BY <1>6, RangeOfSmall
<1>11. <<<<upd>>>> \in Seq(Seq(Ids)) /\ IdsOf(<<<<upd>>>>) = {upd} BY <1>10, IdsOfOne
<1>12. /\ inbound' \in Seq(Seq(Ids)) /\ Len(inbound') = Len(before) + 1 /\ Len(before) \in Nat
       /\ \A k \in 1..Len(before) : inbound'[k] = before[k]
       /\ inbound'[Len(before) + 1] = <<upd>>
  BY <1>7, <1>9, <1>11
<1>13. IdsOf(inbound') = Pending \cup {upd} BY <1>7, <1>9, <1>11, IdsOfConcat
<1>14. group'.ids = <<>> /\ group' \in [album : Albums \cup {None}, ids : Seq(Ids)]
  BY <1>9 DEF NoGroup
<1>15. Pending' = Pending \cup {upd} BY <1>10, <1>13, <1>14 DEF Pending, IdsOf
<1>16. inbound' # <<>> BY <1>12
<1>17. InTypes' BY <1>1, <1>2, <1>3, <1>6, <1>12, <1>14, <1>16 DEF IInv, InTypes
<1>18. \A k \in DOMAIN inbound' :
          \/ \A i \in Range(inbound'[k]) : IsPart(i)
          \/ k = Len(inbound') /\ inbound'[k] = <<upd>>
  <2>1. DOMAIN inbound' = 1..(Len(before) + 1) /\ DOMAIN before = 1..Len(before) BY <1>7, <1>12
  <2> QED BY <2>1, <1>8, <1>12
<1>19. ~IsPart(upd) BY <1>2 DEF IsPart
<1>20. OnlyPartsWait' BY <1>1, <1>4, <1>9, <1>10, <1>14, <1>18, <1>19 DEF OnlyPartsWait, IsPart
<1>21. Behind = loop.offset /\ Behind' = loop.offset /\ Settled' = Settled
  BY <1>1, <1>2, <1>4 DEF Behind, Settled
<1>22. PastIsKept' BY <1>1, <1>2, <1>15, <1>21 DEF IInv, PastIsKept
<1>23. NoPairing' BY <1>1, <1>2, <1>6 DEF IInv, NoPairing
<1> QED BY <1>5, <1>17, <1>20, <1>22, <1>23 DEF IInv

LEMMA WriteOffsetStep ==
    ASSUME IInv, WriteOffset PROVE IInv'
<1>1. UNCHANGED <<sent, sends, confirmed, life, owner, code, issued, group, inbound, asking,
                  forwarded, taken, answered, risked>>
  BY DEF WriteOffset
<1> DEFINE to == IF upd = loop.last THEN "polling" ELSE "handling"
<1>2. loop.at = "handled" /\ loop' = [loop EXCEPT !.at = to, !.upd = upd + 1, !.offset = upd + 1]
  BY DEF WriteOffset
<1>3. upd \in Nat \ {0} /\ upd \in DOMAIN sent /\ confirmed <= upd /\ loop.offset <= upd /\ upd <= loop.last
      /\ loop.last <= Len(sent)
  <2>1. DOMAIN sent = 1..Len(sent) /\ Len(sent) \in Nat BY DEF IInv, InTypes
  <2> QED BY <2>1, <1>2 DEF IInv, LoopShape
<1>4. /\ loop'.at = to /\ loop'.upd = upd + 1 /\ loop'.last = loop.last /\ loop'.offset = upd + 1
      /\ loop' \in [at : {"polling", "handling", "waiting", "replying", "handled", "ended"},
                    upd : Nat, last : Nat, offset : Nat \ {0}]
  <2>1. /\ to \in {"polling", "handling", "waiting", "replying", "handled", "ended"}
        /\ upd + 1 \in Nat /\ upd + 1 \in Nat \ {0}
    BY <1>3
  <2>2. loop \in [at : {"polling", "handling", "waiting", "replying", "handled", "ended"},
                  upd : Nat, last : Nat, offset : Nat \ {0}]
    BY DEF IInv, InTypes
  <2> DEFINE next == upd + 1
  <2>3. next \in Nat /\ next \in Nat \ {0} /\ loop' = [loop EXCEPT !.at = to, !.upd = next, !.offset = next]
    BY <2>1, <1>2
  <2> HIDE DEF to, next
  <2>4. /\ loop'.at = to /\ loop'.upd = next /\ loop'.last = loop.last /\ loop'.offset = next
        /\ loop' \in [at : {"polling", "handling", "waiting", "replying", "handled", "ended"},
                      upd : Nat, last : Nat, offset : Nat \ {0}]
    BY <2>1, <2>2, <2>3
  <2> QED BY <2>4 DEF next
<1>5. /\ disk' \in [owner : Users \cup {None}, offset : Nat \ {0}]
      /\ disk'.offset \in {upd + 1, disk.offset}
  <2>1. disk \in [owner : Users \cup {None}, offset : Nat \ {0}] BY DEF IInv, InTypes
  <2> DEFINE next == upd + 1
  <2>2. next \in Nat \ {0} /\ (disk' = disk \/ disk' = [disk EXCEPT !.offset = next])
    BY <1>3 DEF WriteOffset, Saves
  <2>3. \A d \in [owner : Users \cup {None}, offset : Nat \ {0}] : \A n \in Nat \ {0} :
            /\ [d EXCEPT !.offset = n] \in [owner : Users \cup {None}, offset : Nat \ {0}]
            /\ [d EXCEPT !.offset = n].offset = n
    OBVIOUS
  <2> HIDE DEF next
  <2>4. disk' \in [owner : Users \cup {None}, offset : Nat \ {0}] /\ disk'.offset \in {next, disk.offset}
    BY <2>1, <2>2, <2>3
  <2> QED BY <2>4 DEF next
<1>6. InTypes' BY <1>1, <1>4, <1>5 DEF IInv, InTypes
<1>7. LoopShape'
  <2>1. disk.offset <= loop.offset /\ disk.offset \in Nat /\ loop.offset \in Nat /\ loop.last \in Nat
        /\ Len(sent) \in Nat /\ confirmed \in Nat /\ DOMAIN sent = 1..Len(sent)
    BY DEF IInv, InTypes, LoopShape
  <2>2. disk'.offset <= loop'.offset BY <2>1, <1>3, <1>4, <1>5
  <2>3. CASE upd = loop.last BY <2>2, <2>3, <1>4 DEF LoopShape
  <2>4. CASE upd # loop.last
    <3>1. upd' = upd + 1 /\ upd + 1 \in DOMAIN sent /\ upd + 1 <= loop.last /\ confirmed <= upd + 1
      BY <2>1, <2>4, <1>3, <1>4 DEF upd
    <3>2. loop'.offset = upd + 1 /\ loop'.last = loop.last BY <1>4
    <3> HIDE DEF to
    <3> QED BY <2>1, <2>2, <3>1, <3>2, <1>1, <1>3 DEF LoopShape
  <2> QED BY <2>3, <2>4
<1>8. loop'.at \in {"polling", "handling"} BY <1>4
<1>9. OnlyPartsWait' BY <1>1, <1>2, <1>8 DEF IInv, OnlyPartsWait, IsPart
<1>10. Behind = upd + 1 /\ Behind' = upd + 1 /\ Settled' = Settled /\ Pending' = Pending
  BY <1>1, <1>2, <1>4, <1>8 DEF Behind, Settled, Pending, IdsOf
<1>11. PastIsKept' BY <1>1, <1>10 DEF IInv, PastIsKept
<1>12. NoPairing' BY <1>1 DEF IInv, NoPairing
<1> QED BY <1>6, <1>7, <1>9, <1>11, <1>12 DEF IInv

LEMMA GroupTimerStep ==
    ASSUME IInv, GroupTimer PROVE IInv'
<1>1. UNCHANGED <<sent, sends, confirmed, life, loop, owner, code, issued, disk, asking,
                  forwarded, taken, answered, risked>>
  BY DEF GroupTimer, pairVars
<1>2. group # NoGroup /\ inbound' = inbound \o FlushedGroup /\ group' = NoGroup /\ loop.at # "waiting"
  BY DEF GroupTimer, IInv, OnlyPartsWait
<1>3. /\ FlushedGroup \in Seq(Seq(Ids)) /\ IdsOf(FlushedGroup) = Range(group.ids)
      /\ inbound \in Seq(Seq(Ids))
  BY FlushedTypes DEF IInv, InTypes
<1>4. inbound' \in Seq(Seq(Ids)) /\ IdsOf(inbound') = Pending /\ (inbound # <<>> => inbound' # <<>>)
  BY <1>2, <1>3, IdsOfConcat DEF Pending
<1>5. group' \in [album : Albums \cup {None}, ids : Seq(Ids)] /\ Range(group'.ids) = {}
  <2>1. group'.ids = <<>> /\ group' \in [album : Albums \cup {None}, ids : Seq(Ids)]
    BY <1>2 DEF NoGroup
  <2> QED BY <2>1, RangeOfSmall
<1>6. Pending' = Pending BY <1>4, <1>5 DEF Pending, IdsOf
<1>7. InTypes' BY <1>1, <1>4, <1>5, SMTT(30) DEF IInv, InTypes
<1>8. LoopShape' BY <1>1 DEF IInv, LoopShape, upd
<1>9. \A k \in DOMAIN inbound' : \A i \in Range(inbound'[k]) : IsPart(i) BY <1>2, PartsJoin DEF IInv
<1>10. OnlyPartsWait' BY <1>1, <1>2, <1>5, <1>9 DEF OnlyPartsWait, IsPart
<1>11. Behind' = Behind /\ Settled' = Settled BY <1>1 DEF Behind, Settled, upd
<1>12. PastIsKept' BY <1>1, <1>6, <1>11 DEF IInv, PastIsKept
<1>13. NoPairing' BY <1>1 DEF IInv, NoPairing
<1> QED BY <1>7, <1>8, <1>10, <1>12, <1>13 DEF IInv

\* The head goes on being asked about.
LEMMA AsksKeep ==
    ASSUME IInv, inbound # <<>>, NEW step \in {"files", "assistant", "command"}, asking' = step,
           UNCHANGED <<sent, sends, confirmed, life, loop, owner, code, issued, disk, group, inbound,
                       forwarded, taken, answered, risked>>
    PROVE  IInv'
<1>1. InTypes' BY DEF IInv, InTypes
<1>2. LoopShape' BY DEF IInv, LoopShape, upd
<1>3. OnlyPartsWait' BY DEF IInv, OnlyPartsWait, IsPart, upd
<1>4. PastIsKept' BY DEF IInv, PastIsKept, Settled, Pending, IdsOf, Behind, upd
<1>5. NoPairing' BY DEF IInv, NoPairing
<1> QED BY <1>1, <1>2, <1>3, <1>4, <1>5 DEF IInv

\* The head is done with, and has become a matter of the past.
LEMMA DoneKeeps ==
    ASSUME IInv, inbound # <<>>, Done,
           UNCHANGED <<sent, sends, confirmed, life, owner, code, issued, disk, group, forwarded>>,
           taken' \in Seq(Ids), answered' \subseteq Ids, risked' \subseteq Ids,
           Settled \cup Range(Head(inbound)) \subseteq Settled'
    PROVE  IInv'
<1>1. /\ inbound \in Seq(Seq(Ids)) /\ inbound' = Tail(inbound) /\ asking' = "no"
      /\ Len(inbound) \in Nat \ {0} /\ DOMAIN inbound = 1..Len(inbound) /\ Head(inbound) = inbound[1]
  BY DEF Done, IInv, InTypes
<1>2. /\ inbound' \in Seq(Seq(Ids)) /\ Len(inbound') = Len(inbound) - 1
      /\ DOMAIN inbound' = 1..(Len(inbound) - 1)
      /\ \A k \in 1..(Len(inbound) - 1) : inbound'[k] = inbound[k + 1]
  BY <1>1
<1>3. IdsOf(inbound) = Range(Head(inbound)) \cup IdsOf(inbound') BY <1>1, IdsOfTail
<1>4. IdsOf(inbound') = IdsOf(inbound)' /\ Range(group.ids)' = Range(group.ids) BY DEF IdsOf
<1>5. Settled \cup Pending \subseteq Settled' \cup Pending' BY <1>3, <1>4 DEF Pending
<1>6. \A i : IsPart(i)' = IsPart(i) BY DEF IsPart
<1>7. NoPairing' BY DEF IInv, NoPairing
<1>8. CASE loop.at = "waiting" /\ upd \in Range(Head(inbound))
  <2>1. loop' = [loop EXCEPT !.at = "handled"] BY <1>8 DEF Done
  <2>2. /\ loop'.at = "handled" /\ loop'.upd = loop.upd /\ loop'.last = loop.last
        /\ loop'.offset = loop.offset /\ upd' = upd
        /\ loop' \in [at : {"polling", "handling", "waiting", "replying", "handled", "ended"},
                      upd : Nat, last : Nat, offset : Nat \ {0}]
    BY <2>1 DEF IInv, InTypes, upd
  <2>3. Len(inbound) = 1
    <3>1. ~(\A i \in Range(inbound[1]) : IsPart(i))
      <4>1. ~IsPart(upd) /\ upd \in Range(inbound[1]) BY <1>1, <1>8 DEF IInv, OnlyPartsWait
      <4> QED BY <4>1
    <3>2. 1 \in DOMAIN inbound BY <1>1
    <3>3. (\A i \in Range(inbound[1]) : IsPart(i)) \/ 1 = Len(inbound)
      BY <3>2 DEF IInv, OnlyPartsWait
    <3> QED BY <3>1, <3>3
  <2>4. DOMAIN inbound' = {} BY <1>2, <2>3
  <2>5. InTypes' BY <1>1, <1>2, <2>2 DEF IInv, InTypes
  <2>6. LoopShape' BY <1>8, <2>2 DEF IInv, LoopShape, upd
  <2>7. OnlyPartsWait' BY <1>8, <1>6, <2>2, <2>4 DEF IInv, OnlyPartsWait
  <2>8. upd \in Settled' /\ upd \in Nat BY <1>8 DEF IInv, InTypes, upd
  <2>9. /\ Behind = loop.offset /\ Behind' = upd + 1
        /\ confirmed \in Nat /\ loop.offset \in Nat /\ upd \in {confirmed, loop.offset}
    BY <1>8, <2>2 DEF Behind, IInv, InTypes, LoopShape
  <2>10. \A i \in forwarded : i \in Nat BY DEF IInv, InTypes, Ids
  <2>11. PastIsKept' BY <1>5, <2>8, <2>9, <2>10 DEF IInv, PastIsKept
  <2> QED BY <1>7, <2>5, <2>6, <2>7, <2>11 DEF IInv
<1>9. CASE ~(loop.at = "waiting" /\ upd \in Range(Head(inbound)))
  <2>1. loop' = loop /\ upd' = upd BY <1>9 DEF Done, upd
  <2>2. InTypes' BY <1>1, <1>2, <2>1 DEF IInv, InTypes
  <2>3. LoopShape' BY <2>1 DEF IInv, LoopShape
  <2>4. ASSUME NEW k \in DOMAIN inbound'
        PROVE  \/ \A i \in Range(inbound'[k]) : IsPart(i)
               \/ loop.at = "waiting" /\ k = Len(inbound') /\ inbound'[k] = <<upd>>
    <3>1. k + 1 \in DOMAIN inbound /\ inbound'[k] = inbound[k + 1] BY <1>1, <1>2, <2>4
    <3>2. k + 1 = Len(inbound) => k = Len(inbound') BY <1>1, <1>2, <2>4
    <3> QED BY <3>1, <3>2 DEF IInv, OnlyPartsWait
  <2>5. OnlyPartsWait' BY <1>6, <2>1, <2>4 DEF IInv, OnlyPartsWait
  <2>6. Behind' = Behind BY <2>1 DEF Behind
  <2>7. PastIsKept' BY <1>5, <2>6 DEF IInv, PastIsKept
  <2> QED BY <1>7, <2>2, <2>3, <2>5, <2>7 DEF IInv
<1> QED BY <1>8, <1>9

\* What Takes, Answers and Drops leave of the head.
LEMMA HeadSettles ==
    ASSUME IInv, inbound # <<>>, Takes \/ Answers \/ Drops
    PROVE  /\ taken' \in Seq(Ids) /\ answered' \subseteq Ids /\ risked' \subseteq Ids
           /\ Settled \cup Range(Head(inbound)) \subseteq Settled'
<1>1. /\ Head(inbound) \in Seq(Ids) /\ taken \in Seq(Ids) /\ answered \subseteq Ids /\ risked \subseteq Ids
      /\ Range(Head(inbound)) \subseteq Ids
  BY IdsOfTail, RangeInSet DEF IInv, InTypes
<1>2. CASE Takes
  <2>1. taken' = taken \o Head(inbound) /\ answered' = answered /\ risked' = risked
    BY <1>2 DEF Takes
  <2>2. taken' \in Seq(Ids) /\ Range(taken') = Range(taken) \cup Range(Head(inbound))
    BY <1>1, <2>1, RangeOfConcat
  <2>3. Range(taken)' = Range(taken') BY DEF Range
  <2> QED BY <1>1, <2>1, <2>2, <2>3 DEF Settled
<1>3. CASE Answers BY <1>1, <1>3 DEF Answers, Settled
<1>4. CASE Drops BY <1>1, <1>4 DEF Drops, Settled
<1> QED BY <1>2, <1>3, <1>4

LEMMA ConverseStartsStep ==
    ASSUME IInv, ConverseStarts PROVE IInv'
<1>1. /\ UNCHANGED <<sent, sends, confirmed, life, owner, code, issued, disk, group, forwarded>>
      /\ inbound # <<>>
  BY DEF ConverseStarts, pairVars
<1>2. \/ Done /\ (Answers \/ Drops)
      \/ \E step \in {"files", "assistant", "command"} : Asks(step)
  BY DEF ConverseStarts
<1>3. CASE Done /\ (Answers \/ Drops) BY <1>1, <1>3, HeadSettles, DoneKeeps
<1>4. CASE \E step \in {"files", "assistant", "command"} : Asks(step)
  BY <1>1, <1>4, AsksKeep DEF Asks
<1> QED BY <1>2, <1>3, <1>4

LEMMA FilesFetchedStep ==
    ASSUME IInv, FilesFetched PROVE IInv'
<1>1. /\ UNCHANGED <<sent, sends, confirmed, life, owner, code, issued, disk, group, forwarded>>
      /\ inbound # <<>>
  BY DEF FilesFetched, pairVars, IInv, InTypes
<1>2. (Done /\ (Answers \/ Drops)) \/ Asks("assistant") BY DEF FilesFetched
<1>3. CASE Done /\ (Answers \/ Drops) BY <1>1, <1>3, HeadSettles, DoneKeeps
<1>4. CASE Asks("assistant") BY <1>1, <1>4, AsksKeep DEF Asks
<1> QED BY <1>2, <1>3, <1>4

LEMMA DispatchedStep ==
    ASSUME IInv, Dispatched PROVE IInv'
<1>1. /\ UNCHANGED <<sent, sends, confirmed, life, owner, code, issued, disk, group, forwarded>>
      /\ inbound # <<>> /\ Done /\ (Takes \/ Answers)
  BY DEF Dispatched, pairVars, IInv, InTypes
<1> QED BY <1>1, HeadSettles, DoneKeeps

\* What is not settled and not in memory, Telegram sends again after any crash.
LEMMA PastIsInMemory ==
    ASSUME IInv, NEW i \in forwarded
    PROVE  i \in Settled \cup Pending \/ (i >= disk.offset /\ i >= confirmed)
<1>1. i \in Settled \cup Pending \/ (i >= Behind /\ i >= confirmed) BY DEF IInv, PastIsKept
<1>2. /\ i \in Nat /\ disk.offset \in Nat /\ loop.offset \in Nat /\ loop.upd \in Nat
      /\ disk.offset <= loop.offset
      /\ loop.at \in {"replying", "handled"} => loop.offset <= upd
  BY DEF IInv, InTypes, LoopShape, Ids
<1>3. Behind \in Nat /\ disk.offset <= Behind BY <1>2 DEF Behind, upd
<1> QED BY <1>1, <1>2, <1>3

LEMMA RepairStep ==
    ASSUME IInv, Repair PROVE IInv'
<1>1. /\ UNCHANGED <<sent, confirmed, life, loop, group, inbound, asking, forwarded, taken, answered, risked>>
      /\ sends < MaxSent /\ sends' = sends + 1 /\ issued < MaxCodes /\ issued' = issued + 1
      /\ code' = issued + 1 /\ owner' = None
  BY DEF Repair, Arrives
<1>2. disk' = disk \/ disk' = [disk EXCEPT !.owner = None] BY DEF Repair, Saves
<1>3. \A d \in [owner : Users \cup {None}, offset : Nat \ {0}] :
          /\ [d EXCEPT !.owner = None] \in [owner : Users \cup {None}, offset : Nat \ {0}]
          /\ [d EXCEPT !.owner = None].offset = d.offset
  OBVIOUS
<1>4. disk' \in [owner : Users \cup {None}, offset : Nat \ {0}] /\ disk'.offset = disk.offset
  BY <1>2, <1>3 DEF IInv, InTypes
<1>5. issued' \in Codes BY <1>1, ChannelAssumption DEF IInv, InTypes, Codes
<1>6. sends' \in Nat /\ Len(sent') <= sends' /\ sends' <= MaxSent
  BY <1>1, ChannelAssumption DEF IInv, InTypes
<1>7. InTypes' BY <1>1, <1>4, <1>5, <1>6 DEF IInv, InTypes
<1>8. LoopShape' BY <1>1, <1>4 DEF IInv, LoopShape, upd
<1>9. OnlyPartsWait' BY <1>1 DEF IInv, OnlyPartsWait, IsPart, upd
<1>10. PastIsKept' BY <1>1 DEF IInv, PastIsKept, Settled, Pending, IdsOf, Behind, upd
<1>11. NoPairing' BY <1>1 DEF IInv, NoPairing
<1> QED BY <1>7, <1>8, <1>9, <1>10, <1>11 DEF IInv

LEMMA StopStep ==
    ASSUME IInv, Stop PROVE IInv'
<1>1. /\ UNCHANGED <<sent, sends, confirmed, loop, owner, code, issued, disk, inbound, asking,
                     forwarded, taken, answered>>
      /\ life' = "stopping" /\ group' = NoGroup /\ risked' = risked \cup Range(group.ids)
  BY DEF Stop, pairVars
<1>2. group'.ids = <<>> /\ group' \in [album : Albums \cup {None}, ids : Seq(Ids)]
  BY <1>1 DEF NoGroup
<1>3. Range(group'.ids) = {} BY <1>2, RangeOfSmall
<1>4. risked' \subseteq Ids BY <1>1, PendingTypes DEF IInv, InTypes
<1>5. InTypes' BY <1>1, <1>2, <1>4 DEF IInv, InTypes
<1>6. LoopShape' BY <1>1 DEF IInv, LoopShape, upd
<1>7. OnlyPartsWait' BY <1>1, <1>3 DEF IInv, OnlyPartsWait, IsPart, upd
<1>8. Settled \cup Pending \subseteq Settled' \cup Pending' /\ Behind' = Behind
  BY <1>1 DEF Settled, Pending, IdsOf, Behind, upd
<1>9. PastIsKept' BY <1>1, <1>8 DEF IInv, PastIsKept
<1>10. NoPairing' BY <1>1 DEF IInv, NoPairing
<1> QED BY <1>5, <1>6, <1>7, <1>9, <1>10 DEF IInv

LEMMA LoopEndsStep ==
    ASSUME IInv, LoopEnds PROVE IInv'
<1>1. UNCHANGED <<sent, sends, confirmed, owner, code, issued, disk, group, inbound, asking,
                  forwarded, taken, answered, risked>>
  BY DEF LoopEnds, pairVars
<1>2. /\ loop.at \in {"polling", "handling", "ended"} /\ loop' = [loop EXCEPT !.at = "ended"]
      /\ life' = "off"
  BY DEF LoopEnds, Then
<1>3. InTypes' /\ loop'.at = "ended" /\ loop'.offset = loop.offset BY <1>1, <1>2 DEF IInv, InTypes
<1>4. LoopShape' BY <1>1, <1>3 DEF IInv, LoopShape
<1>5. OnlyPartsWait' BY <1>1, <1>2, <1>3 DEF IInv, OnlyPartsWait, IsPart
<1>6. Behind = loop.offset /\ Behind' = loop.offset BY <1>2, <1>3 DEF Behind
<1>7. PastIsKept' BY <1>1, <1>6 DEF IInv, PastIsKept, Settled, Pending, IdsOf
<1>8. NoPairing' BY <1>1 DEF IInv, NoPairing
<1> QED BY <1>3, <1>4, <1>5, <1>7, <1>8 DEF IInv

LEMMA RestartStep ==
    ASSUME IInv, Restart PROVE IInv'
<1>1. /\ UNCHANGED <<sent, sends, confirmed, disk, forwarded, taken, answered>>
      /\ life' = "up" /\ owner' = disk.owner
      /\ loop' = [at |-> "polling", upd |-> 0, last |-> 0, offset |-> disk.offset]
      /\ group' = NoGroup /\ inbound' = <<>> /\ asking' = "no"
      /\ risked' = risked \cup {i \in Pending : sent[i].kind = "part"}
  BY DEF Restart
<1>2. code' \in {0} \cup Codes /\ issued' \in {0} \cup Codes
  <2>1. issued \in {0} \cup Codes /\ issued \in Nat BY DEF IInv, InTypes, Codes
  <2>2. CASE disk.owner = None
    <3>1. issued < MaxCodes /\ issued' = issued + 1 /\ code' = issued + 1 BY <2>2 DEF Restart
    <3>2. issued + 1 \in Codes BY <2>1, <3>1, ChannelAssumption DEF Codes
    <3> QED BY <3>1, <3>2
  <2>3. CASE disk.owner # None BY <2>1, <2>3 DEF Restart
  <2> QED BY <2>2, <2>3
<1>3. /\ disk.offset \in Nat \ {0} /\ disk.owner \in Users \cup {None}
      /\ loop'.at = "polling" /\ loop'.offset = disk.offset
      /\ loop' \in [at : {"polling", "handling", "waiting", "replying", "handled", "ended"},
                    upd : Nat, last : Nat, offset : Nat \ {0}]
  BY <1>1 DEF IInv, InTypes
<1>4. /\ group'.ids = <<>> /\ group' \in [album : Albums \cup {None}, ids : Seq(Ids)]
      /\ Range(group'.ids) = {} /\ DOMAIN inbound' = {}
  <2>1. group'.ids = <<>> /\ group' \in [album : Albums \cup {None}, ids : Seq(Ids)]
    BY <1>1 DEF NoGroup
  <2>2. DOMAIN inbound' = {} BY <1>1
  <2> QED BY <2>1, <2>2, RangeOfSmall
<1>5. risked' \subseteq Ids BY <1>1, PendingTypes DEF IInv, InTypes
<1>6. inbound' \in Seq(Seq(Ids)) BY <1>1
<1>7. InTypes' BY <1>1, <1>2, <1>3, <1>4, <1>5, <1>6 DEF IInv, InTypes
<1>8. LoopShape' BY <1>1, <1>3 DEF LoopShape
<1>9. OnlyPartsWait' BY <1>3, <1>4 DEF OnlyPartsWait
<1>10. Behind' = disk.offset BY <1>3 DEF Behind
<1>11. ASSUME NEW i \in Pending PROVE i \in Settled' \/ (i >= disk.offset /\ i >= confirmed)
  <2>1. i \in Range(group.ids) \/ \E k \in DOMAIN inbound : i \in Range(inbound[k])
    BY <1>11 DEF Pending, IdsOf
  <2>2. IsPart(i) \/ (loop.at = "waiting" /\ i \in Range(<<upd>>)) BY <2>1 DEF IInv, OnlyPartsWait
  <2>3. CASE IsPart(i) BY <1>1, <1>11, <2>3 DEF IsPart, Settled
  <2>4. CASE loop.at = "waiting" /\ i \in Range(<<upd>>)
    <3>1. i = upd BY <2>4, RangeOfSmall
    <3>2. /\ upd \in Nat /\ confirmed \in Nat /\ loop.offset \in Nat /\ disk.offset \in Nat
          /\ confirmed <= upd /\ loop.offset <= upd /\ disk.offset <= loop.offset
      BY <2>4 DEF IInv, InTypes, LoopShape, upd
    <3> QED BY <3>1, <3>2
  <2> QED BY <2>2, <2>3, <2>4
<1>12. Settled \subseteq Settled' BY <1>1 DEF Settled
<1>13. \A i \in forwarded : i \in Settled \cup Pending \/ (i >= disk.offset /\ i >= confirmed)
  BY PastIsInMemory
<1>14. PastIsKept' BY <1>1, <1>10, <1>11, <1>12, <1>13 DEF PastIsKept
<1>15. NoPairing' BY <1>1 DEF IInv, NoPairing
<1> QED BY <1>7, <1>8, <1>9, <1>14, <1>15 DEF IInv

--------------------
(* The theorems. *)

LEMMA NextStep ==
    ASSUME IInv, [Next]_vars PROVE IInv'
<1>1. CASE WriteOffset BY <1>1, WriteOffsetStep
<1>2. CASE Restart BY <1>2, RestartStep
<1>3. CASE Inbound
  <2>1. CASE \E v \in Users, what \in Kinds : Sends(v, what) BY <2>1, SendsStep
  <2>2. CASE Poll \/ TokenRejected BY <2>2, PollStep, TokenRejectedStep
  <2>3. CASE HandleOther \/ HandlePair \/ PairingAnswered
    BY <2>3, HandleOtherStep, HandlePairStep, PairingAnsweredStep
  <2>4. CASE HandlePart \/ HandleMessage \/ GroupTimer
    BY <2>4, HandlePartStep, HandleMessageStep, GroupTimerStep
  <2>5. CASE ConverseStarts \/ FilesFetched \/ Dispatched
    BY <2>5, ConverseStartsStep, FilesFetchedStep, DispatchedStep
  <2>6. CASE Repair \/ Stop \/ LoopEnds BY <2>6, RepairStep, StopStep, LoopEndsStep
  <2> QED BY <1>3, <2>1, <2>2, <2>3, <2>4, <2>5, <2>6 DEF Inbound
<1>4. CASE Assistant
  <2>1. UNCHANGED core BY <1>4 DEF Assistant, core, pairVars
  <2> QED BY <2>1, Frame
<1>5. CASE Replies
  <2>1. UNCHANGED core BY <1>5 DEF Replies, core, inVars, countVars, pastVars
  <2> QED BY <2>1, Frame
<1>6. CASE UNCHANGED vars
  <2>1. UNCHANGED core BY <1>6 DEF vars, core, inVars, countVars, pastVars
  <2> QED BY <2>1, Frame
<1> QED BY <1>1, <1>2, <1>3, <1>4, <1>5, <1>6 DEF Next

\* What the poll loop is past is never only in a memory that a crash would take,
\* but for the parts of an album (run, handle, converse; telegram-channel.ts).
THEOREM Invariance == Spec => []IInv
<1>1. Init => IInv BY InitHolds
<1>2. IInv /\ [Next]_vars => IInv' BY NextStep
<1> QED BY <1>1, <1>2, PTL DEF Spec

\* No message of the paired user gets lost, for any users, albums, numbers of
\* messages, crashes and failing writes (run, writeOffset, converse; telegram-channel.ts).
THEOREM NothingIsLost == Spec => []NothingLostUnlessRisked
<1>1. ASSUME IInv PROVE NothingLostUnlessRisked
  BY <1>1, PastIsInMemory DEF NothingLostUnlessRisked, Kept, Settled
<1> QED BY <1>1, Invariance, PTL

--------------------
(* In which order the assistant hears the paired user, and what it hears   *)
(* again.                                                                  *)

LEMMA Numbers ==
    ASSUME IInv
    PROVE  /\ Frontier \in Nat /\ Again \in Nat /\ Again <= Frontier
           /\ upd \in Nat
           /\ loop.at = "handling" => Frontier = upd /\ upd \in DOMAIN sent /\ ~InHand
           /\ InHand => Frontier = upd + 1 /\ upd \in DOMAIN sent /\ Again <= upd
           /\ Len(sent) \in Nat /\ DOMAIN sent = 1..Len(sent)
           /\ \A i \in DOMAIN sent : i \in Ids /\ i \in Nat
           /\ \A i \in Ids : i \in Nat
<1>1. /\ loop.offset \in Nat /\ disk.offset \in Nat /\ confirmed \in Nat /\ upd \in Nat
      /\ Len(sent) \in Nat /\ DOMAIN sent = 1..Len(sent) /\ Len(sent) <= MaxSent /\ MaxSent \in Nat
  BY ChannelAssumption DEF IInv, InTypes, upd
<1>2. /\ disk.offset <= loop.offset
      /\ InHand \/ loop.at = "handling" =>
            upd \in DOMAIN sent /\ confirmed <= upd /\ loop.offset <= upd /\ upd \in {confirmed, loop.offset}
  BY DEF IInv, LoopShape, InHand
<1>3. \A i \in Ids : i \in Nat BY DEF Ids
<1>4. \A i \in DOMAIN sent : i \in Ids /\ i \in Nat BY <1>1 DEF Ids
<1>5. loop.at = "handling" => ~InHand BY DEF InHand
<1>6. InHand => Frontier = upd + 1 BY DEF Frontier
<1>7. ~InHand => Frontier = Larger(loop.offset, confirmed) BY DEF Frontier
<1>8. CASE InHand BY <1>1, <1>2, <1>3, <1>4, <1>5, <1>6, <1>8 DEF Again, Larger
<1>9. CASE ~InHand BY <1>1, <1>2, <1>3, <1>4, <1>5, <1>7, <1>9 DEF Again, Larger
<1> QED BY <1>8, <1>9

\* What a step has to show of each part that it does not work on.
LEMMA BehindKeeps ==
    ASSUME BehindIsHeard, sent' = sent,
           \A x \in DOMAIN sent : Again' <= x /\ x < Frontier' =>
              (Again <= x /\ x < Frontier) \/ x \in Pending' \cup Heard',
           \A x \in DOMAIN sent : x \in Pending \cup Heard \/ Unheard(x) =>
              x \in Pending' \cup Heard' \/ Unheard(x)'
    PROVE  BehindIsHeard'
BY DEF BehindIsHeard

LEMMA BeforeKeeps ==
    ASSUME BeforeHeardIsHeard, sent' = sent, taken' = taken, Heard \subseteq Heard',
           \A x \in DOMAIN sent : x \in Pending' \/ x >= Again' => x \in Pending \/ x >= Again
    PROVE  BeforeHeardIsHeard'
BY DEF BeforeHeardIsHeard

LEMMA OrderKeeps ==
    ASSUME OutOfOrderOnlyAgain, taken' = taken, answered \subseteq answered', passed \subseteq passed'
    PROVE  OutOfOrderOnlyAgain'
BY DEF OutOfOrderOnlyAgain, HeardTooLate

LEMMA TakenIsFinite ==
    ASSUME InTypes
    PROVE  /\ IsFiniteSet(Range(taken)) /\ Cardinality(Range(taken)) \in Nat
           /\ IsFiniteSet(MayRepeat) /\ Cardinality(MayRepeat) \in Nat
           /\ Len(taken) \in Nat /\ Range(taken) \subseteq Ids /\ IsFiniteSet(Ids)
<1>1. IsFiniteSet(Ids)
  <2>1. 1 \in Int /\ MaxSent \in Int BY ChannelAssumption
  <2> QED BY <2>1, FS_Interval DEF Ids
<1>2. Range(taken) \subseteq Ids /\ MayRepeat \subseteq Ids BY PendingTypes DEF MayRepeat
<1>3. IsFiniteSet(Range(taken)) /\ IsFiniteSet(MayRepeat) BY <1>1, <1>2, FS_Subset
<1>4. Cardinality(Range(taken)) \in Nat /\ Cardinality(MayRepeat) \in Nat
  BY <1>3, FS_CardinalityType
<1>5. taken \in Seq(Ids) BY DEF InTypes
<1>6. Len(taken) \in Nat BY <1>5
<1> QED BY <1>1, <1>2, <1>3, <1>4, <1>6

LEMMA PaidKeeps ==
    ASSUME IInv, RepeatsArePaidFor, taken' = taken, MayRepeat' \subseteq MayRepeat,
           starts' \in Nat, diskErrors' \in Nat, Credit \in Int, Credit' \in Int, Credit' >= Credit
    PROVE  RepeatsArePaidFor'
<1>1. IsFiniteSet(MayRepeat) /\ Cardinality(MayRepeat) \in Nat /\ Len(taken) \in Nat /\ Cardinality(Range(taken)) \in Nat
  BY TakenIsFinite DEF IInv
<1>2. Cardinality(MayRepeat') \in Nat /\ Cardinality(MayRepeat') <= Cardinality(MayRepeat)
  BY <1>1, FS_Subset, FS_CardinalityType
<1>3. Repeated \in Int /\ Repeated' = Repeated BY <1>1 DEF Repeated
<1>4. Repeated + Cardinality(MayRepeat) <= Credit BY DEF RepeatsArePaidFor
<1>5. Repeated' + Cardinality(MayRepeat') <= Credit' BY <1>1, <1>2, <1>3, <1>4
<1> QED BY <1>5 DEF RepeatsArePaidFor

LEMMA CreditIsInt ==
    ASSUME IInv, RepeatsArePaidFor PROVE Credit \in Int /\ starts \in Nat /\ diskErrors \in Nat
<1>1. Frontier \in Nat /\ Again \in Nat /\ starts \in Nat /\ diskErrors \in Nat
  BY Numbers DEF RepeatsArePaidFor
<1>2. (IF InHand THEN 1 ELSE 0) \in Nat OBVIOUS
<1> QED BY <1>1, <1>2 DEF Credit

\* A step that brings no update into the queue and takes none out of it.
LEMMA QuietStep ==
    ASSUME HInv, IInv', UNCHANGED <<sent, taken, answered, passed, forwarded, starts, asking>>,
           life' # "up" \/ life = "up",
           inbound # <<>> => inbound' # <<>> /\ Head(inbound') = Head(inbound),
           Pending' = Pending, Frontier' = Frontier, Again' \in Nat, Again' >= Again,
           diskErrors' \in Nat, Credit' \in Int, Credit' >= Credit,
           Rising(group.ids)', InOrder(inbound)', AllBefore(IdsOf(inbound), Range(group.ids))'
    PROVE  HInv'
<1>1. /\ \A x \in DOMAIN sent : x \in Nat
      /\ Again \in Nat /\ Frontier \in Nat /\ Len(sent) \in Nat
  BY Numbers DEF HInv
<1>2. QueueInOrder' BY DEF HInv, QueueInOrder
<1>3. Heard' = Heard BY DEF Heard
<1>4. \A x \in DOMAIN sent : Unheard(x) => Unheard(x)'
  <2>1. AtAssistant' = AtAssistant BY DEF AtAssistant
  <2>2. life # "up" => life' # "up" OBVIOUS
  <2>3. AtAssistant => inbound # <<>> BY DEF HInv, IInv, InTypes, AtAssistant
  <2> QED BY <2>1, <2>2, <2>3 DEF Unheard
<1>5. BehindIsHeard'
  <2>1. \A x \in DOMAIN sent : Again' <= x /\ x < Frontier' => Again <= x /\ x < Frontier BY <1>1
  <2>2. BehindIsHeard BY DEF HInv
  <2> QED BY <2>1, <2>2, <1>3, <1>4, BehindKeeps
<1>6. BeforeHeardIsHeard'
  <2>1. \A x \in DOMAIN sent : x >= Again' => x >= Again BY <1>1
  <2> QED BY <2>1, <1>3, BeforeKeeps DEF HInv
<1>7. OutOfOrderOnlyAgain' BY OrderKeeps DEF HInv
<1>8. RepeatsArePaidFor'
  <2>1. MayRepeat' = MayRepeat BY DEF MayRepeat
  <2>2. Credit \in Int /\ starts' \in Nat BY CreditIsInt DEF HInv
  <2> QED BY <2>1, <2>2, PaidKeeps DEF HInv
<1> QED BY <1>2, <1>5, <1>6, <1>7, <1>8 DEF HInv

\* Most of these steps leave the queue as it is, too.
LEMMA StillStep ==
    ASSUME HInv, IInv',
           UNCHANGED <<sent, taken, answered, passed, forwarded, starts, asking, group, inbound>>,
           life' # "up" \/ life = "up", Frontier' = Frontier, Again' \in Nat, Again' >= Again,
           diskErrors' \in Nat, Credit' \in Int, Credit' >= Credit
    PROVE  HInv'
<1>1. Pending' = Pending BY DEF Pending, IdsOf
<1>2. Rising(group.ids)' /\ InOrder(inbound)' /\ AllBefore(IdsOf(inbound), Range(group.ids))'
  BY DEF HInv, QueueInOrder, Rising, InOrder, AllBefore, IdsOf
<1> QED BY <1>1, <1>2, QuietStep

hcore == <<core, passed, starts, diskErrors>>

LEMMA HFrame ==
    ASSUME HInv, UNCHANGED hcore PROVE HInv'
<1>1. UNCHANGED core /\ UNCHANGED <<passed, starts, diskErrors>> BY DEF hcore
<1>2. IInv' BY <1>1, Frame DEF HInv
<1>3. Frontier' = Frontier /\ Again' = Again /\ InHand' = InHand
  BY <1>1 DEF core, Frontier, Again, InHand, upd, Larger
<1>4. Credit' = Credit /\ Credit \in Int /\ diskErrors \in Nat
  <2>1. Credit \in Int /\ diskErrors \in Nat BY CreditIsInt DEF HInv
  <2> QED BY <1>1, <1>3, <2>1 DEF Credit
<1>5. Again \in Nat BY Numbers DEF HInv
<1> QED BY <1>1, <1>2, <1>3, <1>4, <1>5, StillStep DEF core

LEMMA HInitHolds == Init => HInv
<1> SUFFICES ASSUME Init PROVE HInv OBVIOUS
<1>1. IInv BY InitHolds
<1>2. /\ taken = <<>> /\ inbound = <<>> /\ group = NoGroup /\ group.ids = <<>> /\ sent = <<>>
      /\ loop.at = "polling" /\ loop.offset = 1 /\ confirmed = 1 /\ disk.offset = 1
      /\ starts = 1 /\ diskErrors = 0 /\ passed = {}
  BY DEF Init, NoGroup
<1>3. Range(<<>>) = {} /\ DOMAIN <<>> = {} /\ Len(<<>>) = 0 /\ IdsOf(<<>>) = {}
  <2>1. DOMAIN <<>> = {} /\ Len(<<>>) = 0 OBVIOUS
  <2> QED BY <2>1 DEF IdsOf, Range
<1>4. Frontier = 1 /\ Again = 1 /\ ~InHand /\ Pending = {}
  BY <1>2, <1>3 DEF Frontier, Again, InHand, Larger, Pending
<1>5. QueueInOrder BY <1>2, <1>3, <1>4 DEF QueueInOrder, Rising, InOrder, AllBefore
<1>6. BehindIsHeard /\ BeforeHeardIsHeard /\ OutOfOrderOnlyAgain
  BY <1>2, <1>3 DEF BehindIsHeard, BeforeHeardIsHeard, OutOfOrderOnlyAgain
<1>7. RepeatsArePaidFor
  <2>1. Range(taken) = {} /\ MayRepeat = {} /\ Len(taken) = 0 BY <1>2, <1>3 DEF MayRepeat
  <2>2. Cardinality({}) = 0 BY FS_EmptySet
  <2>3. Repeated = 0 BY <2>1, <2>2 DEF Repeated
  <2>4. (IF InHand THEN 1 ELSE 0) = 0 BY <1>4
  <2>5. Credit = 0 BY <1>2, <1>4, <2>4 DEF Credit
  <2> QED BY <1>2, <2>1, <2>2, <2>3, <2>5 DEF RepeatsArePaidFor
<1> QED BY <1>1, <1>2, <1>5, <1>6, <1>7 DEF HInv

LEMMA MoreIsLeft ==
    ASSUME NEW s \in Nat, NEW d \in Nat, NEW h \in Nat, NEW f \in Nat, NEW a \in Nat,
           NEW e \in Nat, e >= d, NEW b \in Nat, b >= a
    PROVE  /\ s - 1 + d + h - (f - a) \in Int /\ s - 1 + e + h - (f - b) \in Int
           /\ s - 1 + e + h - (f - b) >= s - 1 + d + h - (f - a)
OBVIOUS

\* What a step must keep for its credit to be no less.
LEMMA CreditKeeps ==
    ASSUME HInv, starts' = starts, diskErrors' \in Nat, diskErrors' >= diskErrors, InHand' <=> InHand,
           Frontier' = Frontier, Again' \in Nat, Again' >= Again
    PROVE  Credit' \in Int /\ Credit' >= Credit
<1>1. PICK hand \in Nat : hand = IF InHand THEN 1 ELSE 0 OBVIOUS
<1>2. Frontier \in Nat /\ Again \in Nat /\ starts \in Nat /\ diskErrors \in Nat
  BY Numbers, CreditIsInt DEF HInv
<1>3. Credit = starts - 1 + diskErrors + hand - (Frontier - Again) BY <1>1 DEF Credit
<1>4. Credit' = starts - 1 + diskErrors' + hand - (Frontier - Again') BY <1>1 DEF Credit
<1> QED BY <1>2, <1>3, <1>4, MoreIsLeft

LEMMA LoopTypes ==
    ASSUME IInv
    PROVE  /\ loop.offset \in Nat /\ confirmed \in Nat /\ disk.offset \in Nat /\ disk.offset <= loop.offset
           /\ \A at \in {"polling", "handling", "waiting", "replying", "handled", "ended"} :
                 LET l == [loop EXCEPT !.at = at] IN
                 l.at = at /\ l.upd = loop.upd /\ l.last = loop.last /\ l.offset = loop.offset
BY DEF IInv, InTypes, LoopShape

LEMMA PollHears ==
    ASSUME HInv, Poll PROVE HInv'
<1> DEFINE first == IF confirmed > loop.offset THEN confirmed ELSE loop.offset
<1>1. /\ UNCHANGED <<sent, taken, answered, passed, forwarded, starts, asking, group, inbound, life, disk, diskErrors>>
      /\ loop.at = "polling" /\ confirmed' = first
      /\ loop' = IF first > Len(sent) THEN loop
                 ELSE [loop EXCEPT !.at = "handling", !.upd = first, !.last = Len(sent)]
  BY DEF Poll, pairVars
<1>2. IInv' BY PollStep DEF HInv
<1>3. /\ loop.offset \in Nat /\ confirmed \in Nat /\ disk.offset \in Nat /\ disk.offset <= loop.offset
      /\ loop'.offset = loop.offset /\ loop'.at \in {"polling", "handling"}
  <2>1. CASE first > Len(sent) BY <1>1, <2>1, LoopTypes DEF HInv
  <2>2. CASE ~(first > Len(sent))
    <3>1. loop' = [loop EXCEPT !.at = "handling", !.upd = first, !.last = Len(sent)] BY <1>1, <2>2
    <3> HIDE DEF first
    <3> QED BY <3>1, LoopTypes DEF HInv, IInv, InTypes
  <2> QED BY <2>1, <2>2
<1>4. ~InHand /\ ~InHand' BY <1>1, <1>3 DEF InHand
<1>5. Frontier' = Frontier /\ Again' \in Nat /\ Again' >= Again
  BY <1>1, <1>3, <1>4 DEF Frontier, Again, Larger
<1>6. diskErrors' \in Nat /\ diskErrors' >= diskErrors BY <1>1, CreditIsInt DEF HInv
<1>7. Credit' \in Int /\ Credit' >= Credit BY <1>1, <1>4, <1>5, <1>6, CreditKeeps
<1> QED BY <1>1, <1>2, <1>5, <1>6, <1>7, StillStep

LEMMA AtKeeps ==
    ASSUME HInv, IInv', NEW at \in {"polling", "handling", "waiting", "replying", "handled", "ended"}, Then(at),
           UNCHANGED <<sent, taken, answered, passed, forwarded, starts, asking, group, inbound, confirmed, disk, diskErrors>>,
           life' # "up" \/ life = "up", InHand <=> at \in {"waiting", "replying", "handled"}
    PROVE  HInv'
<1>1. loop'.at = at /\ loop'.upd = loop.upd /\ loop'.offset = loop.offset
  BY LoopTypes DEF HInv, Then
<1>2. InHand' = InHand BY <1>1 DEF InHand
<1>3. Frontier' = Frontier /\ Again' = Again BY <1>1, <1>2 DEF Frontier, Again, Larger, upd
<1>4. diskErrors \in Nat /\ Again \in Nat BY CreditIsInt, Numbers DEF HInv
<1>5. Credit' \in Int /\ Credit' >= Credit BY <1>2, <1>3, <1>4, CreditKeeps
<1> QED BY <1>3, <1>4, <1>5, StillStep

LEMMA TokenRejectedHears ==
    ASSUME HInv, TokenRejected PROVE HInv'
<1>1. /\ UNCHANGED <<sent, taken, answered, passed, forwarded, starts, asking, group, inbound, confirmed, disk, diskErrors, life>>
      /\ Then("ended") /\ loop.at = "polling"
  BY DEF TokenRejected, pairVars, Then
<1>2. IInv' BY TokenRejectedStep DEF HInv
<1>3. ~InHand BY <1>1 DEF InHand
<1> QED BY <1>1, <1>2, <1>3, AtKeeps

LEMMA PairingAnsweredHears ==
    ASSUME HInv, PairingAnswered PROVE HInv'
<1>1. /\ UNCHANGED <<sent, taken, answered, passed, forwarded, starts, asking, group, inbound, confirmed, disk, diskErrors, life>>
      /\ Then("handled") /\ loop.at = "replying"
  BY DEF PairingAnswered, pairVars
<1>2. IInv' BY PairingAnsweredStep DEF HInv
<1>3. InHand BY <1>1 DEF InHand
<1> QED BY <1>1, <1>2, <1>3, AtKeeps

LEMMA LoopEndsHears ==
    ASSUME HInv, LoopEnds PROVE HInv'
<1>1. /\ UNCHANGED <<sent, taken, answered, passed, forwarded, starts, asking, group, inbound, confirmed, disk, diskErrors>>
      /\ Then("ended") /\ loop.at \in {"polling", "handling", "ended"} /\ life' # "up"
  BY DEF LoopEnds, pairVars
<1>2. IInv' BY LoopEndsStep DEF HInv
<1>3. ~InHand BY <1>1 DEF InHand
<1> QED BY <1>1, <1>2, <1>3, AtKeeps

LEMMA RepairHears ==
    ASSUME HInv, Repair PROVE HInv'
<1>1. /\ UNCHANGED <<sent, taken, answered, passed, forwarded, starts, asking, group, inbound, confirmed, loop, life>>
  BY DEF Repair
<1>2. IInv' BY RepairStep DEF HInv
<1>3. disk'.offset = disk.offset BY DEF Repair, HInv, IInv, InTypes
<1>4. diskErrors \in Nat /\ Again \in Nat BY CreditIsInt, Numbers DEF HInv
<1>5. diskErrors' \in Nat /\ diskErrors' >= diskErrors BY <1>4 DEF Repair, Saves
<1>6. InHand' = InHand /\ Frontier' = Frontier /\ Again' = Again
  BY <1>1, <1>3 DEF InHand, Frontier, Again, Larger, upd
<1>7. Credit' \in Int /\ Credit' >= Credit BY <1>1, <1>4, <1>5, <1>6, CreditKeeps
<1> QED BY <1>1, <1>2, <1>4, <1>5, <1>6, <1>7, StillStep

\* A write that succeeds leaves nothing to come again, one that fails is a credit.
LEMMA WriteOffsetHears ==
    ASSUME HInv, WriteOffset PROVE HInv'
<1>1. /\ UNCHANGED <<sent, taken, answered, passed, forwarded, starts, asking, group, inbound, confirmed, life>>
      /\ loop.at = "handled"
      /\ loop' = [loop EXCEPT !.at = IF upd = loop.last THEN "polling" ELSE "handling",
                              !.upd = upd + 1, !.offset = upd + 1]
  BY DEF WriteOffset
<1>2. IInv' BY WriteOffsetStep DEF HInv
<1>3. InHand /\ Frontier = upd + 1 /\ Again <= upd /\ upd \in Nat /\ Again \in Nat
  BY <1>1, Numbers DEF HInv, InHand
<1>4. loop'.at \in {"polling", "handling"} /\ loop'.offset = upd + 1 /\ loop.offset \in Nat
  BY <1>1 DEF HInv, IInv, InTypes
<1>5. confirmed \in Nat /\ confirmed <= upd /\ disk.offset \in Nat /\ disk.offset <= loop.offset /\ loop.offset <= upd
  BY <1>1 DEF HInv, IInv, InTypes, LoopShape
<1>6. ~InHand' /\ Frontier' = Frontier BY <1>1, <1>3, <1>4, <1>5 DEF InHand, Frontier, Larger
<1>7. diskErrors \in Nat /\ starts \in Nat BY CreditIsInt DEF HInv
<1>8. /\ Credit = starts - 1 + diskErrors + 1 - (Frontier - Again)
      /\ Credit' = starts - 1 + diskErrors' + 0 - (Frontier' - Again')
  BY <1>1, <1>3, <1>6 DEF Credit
<1>9. CASE diskErrors' = diskErrors /\ disk' = [disk EXCEPT !.offset = upd + 1]
  <2>1. disk'.offset = upd + 1 BY <1>9 DEF HInv, IInv, InTypes
  <2>2. Again' = upd + 1 BY <1>1, <1>3, <1>5, <2>1 DEF Again, Larger
  <2>3. Credit' \in Int /\ Credit' >= Credit /\ Again' >= Again
    BY <1>3, <1>6, <1>7, <1>8, <1>9, <2>2
  <2> QED BY <1>1, <1>2, <1>3, <1>6, <1>7, <1>9, <2>2, <2>3, StillStep
<1>10. CASE diskErrors' = diskErrors + 1 /\ disk' = disk
  <2>1. Again' = Again BY <1>1, <1>10 DEF Again
  <2>2. Credit' \in Int /\ Credit' >= Credit /\ diskErrors' \in Nat /\ Again' >= Again
    BY <1>3, <1>6, <1>7, <1>8, <1>10, <2>1
  <2> QED BY <1>1, <1>2, <1>3, <1>6, <2>1, <2>2, StillStep
<1> QED BY <1>9, <1>10 DEF WriteOffset, Saves

LEMMA JoinsInOrder ==
    ASSUME NEW q \in Seq(Seq(Ids)), NEW m \in Seq(Ids), InOrder(q), Rising(m), AllBefore(IdsOf(q), Range(m))
    PROVE  /\ q \o <<m>> \in Seq(Seq(Ids)) /\ InOrder(q \o <<m>>)
           /\ IdsOf(q \o <<m>>) = IdsOf(q) \cup Range(m)
<1> DEFINE r == q \o <<m>>
<1>1. r \in Seq(Seq(Ids)) /\ IdsOf(r) = IdsOf(q) \cup Range(m) BY IdsOfConcat, IdsOfOne
<1>2. Len(q) \in Nat /\ DOMAIN q = 1..Len(q) /\ DOMAIN r = 1..(Len(q) + 1)
  <2>1. Len(r) = Len(q) + 1 /\ DOMAIN r = 1..Len(r) /\ Len(q) \in Nat /\ DOMAIN q = 1..Len(q)
    BY <1>1
  <2> QED BY <2>1
<1>3. \A k \in 1..(Len(q) + 1) : r[k] = IF k <= Len(q) THEN q[k] ELSE m
  <2>1. \A k \in 1..(Len(q) + 1) : r[k] = IF k <= Len(q) THEN q[k] ELSE <<m>>[k - Len(q)] OBVIOUS
  <2>2. \A k \in 1..(Len(q) + 1) : ~(k <= Len(q)) => k - Len(q) = 1 BY <1>2
  <2> HIDE DEF r
  <2> QED BY <2>1, <2>2
<1>4. \A k \in DOMAIN q : Range(q[k]) \subseteq IdsOf(q) BY DEF IdsOf
<1> HIDE DEF r
<1>5. ASSUME NEW k \in DOMAIN r PROVE Rising(r[k])
  <2>1. CASE k <= Len(q) BY <1>2, <1>3, <1>5, <2>1 DEF InOrder
  <2>2. CASE ~(k <= Len(q)) BY <1>2, <1>3, <1>5, <2>2
  <2> QED BY <2>1, <2>2
<1>6. ASSUME NEW k \in DOMAIN r, NEW l \in DOMAIN r, k < l PROVE AllBefore(Range(r[k]), Range(r[l]))
  <2>1. k <= Len(q) /\ k \in DOMAIN q /\ r[k] = q[k] BY <1>2, <1>3, <1>6
  <2>2. CASE l <= Len(q)
    <3>1. l \in DOMAIN q /\ r[l] = q[l] BY <1>2, <1>3, <1>6, <2>2
    <3> QED BY <1>6, <2>1, <3>1 DEF InOrder
  <2>3. CASE ~(l <= Len(q))
    <3>1. r[l] = m BY <1>2, <1>3, <1>6, <2>3
    <3> QED BY <1>4, <2>1, <3>1 DEF AllBefore
  <2> QED BY <2>2, <2>3
<1>7. InOrder(r) BY <1>5, <1>6 DEF InOrder
<1> QED BY <1>1, <1>7 DEF r

LEMMA TailInOrder ==
    ASSUME NEW q \in Seq(Seq(Ids)), q # <<>>, InOrder(q)
    PROVE  InOrder(Tail(q)) /\ Rising(Head(q)) /\ AllBefore(Range(Head(q)), IdsOf(Tail(q)))
<1>1. /\ Len(q) \in Nat /\ DOMAIN q = 1..Len(q) /\ Tail(q) \in Seq(Seq(Ids)) /\ Len(Tail(q)) = Len(q) - 1
      /\ DOMAIN Tail(q) = 1..(Len(q) - 1) /\ Head(q) = q[1] /\ 1 \in DOMAIN q
  <2>1. /\ Tail(q) \in Seq(Seq(Ids)) /\ Len(Tail(q)) = Len(q) - 1 /\ Head(q) = q[1] /\ Len(q) \in Nat \ {0}
        /\ DOMAIN q = 1..Len(q)
    OBVIOUS
  <2>2. DOMAIN Tail(q) = 1..Len(Tail(q)) BY <2>1
  <2> QED BY <2>1, <2>2
<1>2. \A k \in DOMAIN Tail(q) : k + 1 \in DOMAIN q /\ Tail(q)[k] = q[k + 1] /\ 1 < k + 1 BY <1>1
<1>3. InOrder(Tail(q))
  <2>1. \A k \in DOMAIN Tail(q) : Rising(Tail(q)[k]) BY <1>2 DEF InOrder
  <2>2. ASSUME NEW k \in DOMAIN Tail(q), NEW l \in DOMAIN Tail(q), k < l
        PROVE AllBefore(Range(Tail(q)[k]), Range(Tail(q)[l]))
    <3>1. k + 1 < l + 1 BY <1>1, <2>2
    <3> QED BY <1>2, <3>1 DEF InOrder
  <2> QED BY <2>1, <2>2 DEF InOrder
<1>4. Rising(Head(q)) BY <1>1 DEF InOrder
<1>5. \A k \in DOMAIN Tail(q) : AllBefore(Range(Head(q)), Range(Tail(q)[k]))
  BY <1>1, <1>2 DEF InOrder
<1>6. AllBefore(Range(Head(q)), IdsOf(Tail(q))) BY <1>5 DEF AllBefore, IdsOf
<1> QED BY <1>3, <1>4, <1>6

\* Flushing what is gathered keeps the order and loses nothing.
LEMMA FlushInOrder ==
    ASSUME InTypes, QueueInOrder
    PROVE  /\ inbound \o FlushedGroup \in Seq(Seq(Ids)) /\ InOrder(inbound \o FlushedGroup)
           /\ IdsOf(inbound \o FlushedGroup) = Pending
<1>1. inbound \in Seq(Seq(Ids)) /\ group.ids \in Seq(Ids) BY DEF InTypes
<1>2. IdsOf(inbound \o FlushedGroup) = Pending /\ inbound \o FlushedGroup \in Seq(Seq(Ids))
  BY <1>1, FlushedTypes, IdsOfConcat DEF Pending
<1>3. CASE group = NoGroup
  <2>1. inbound \o FlushedGroup = inbound BY <1>1, <1>3 DEF FlushedGroup
  <2> QED BY <1>2, <2>1 DEF QueueInOrder
<1>4. CASE group # NoGroup
  <2>1. FlushedGroup = <<group.ids>> BY <1>4 DEF FlushedGroup
  <2> QED BY <1>1, <1>2, <2>1, JoinsInOrder DEF QueueInOrder
<1> QED BY <1>3, <1>4

LEMMA RisingAppend ==
    ASSUME NEW s \in Seq(Ids), NEW e \in Ids, Rising(s), \A i \in Range(s) : i < e
    PROVE  Rising(Append(s, e)) /\ Rising(<<e>>)
<1>1. /\ Len(s) \in Nat /\ DOMAIN s = 1..Len(s) /\ DOMAIN Append(s, e) = 1..(Len(s) + 1)
      /\ \A i \in 1..(Len(s) + 1) : Append(s, e)[i] = IF i <= Len(s) THEN s[i] ELSE e
  OBVIOUS
<1>2. \A i \in 1..Len(s) : s[i] < e BY <1>1 DEF Range
<1>3. \A i, j \in 1..Len(s) : i < j => s[i] < s[j] BY <1>1 DEF Rising
<1>4. ASSUME NEW i \in 1..(Len(s) + 1), NEW j \in 1..(Len(s) + 1), i < j
      PROVE  Append(s, e)[i] < Append(s, e)[j]
  <2>1. i \in 1..Len(s) /\ Append(s, e)[i] = s[i] BY <1>1, <1>4
  <2>2. CASE j <= Len(s)
    <3>1. j \in 1..Len(s) /\ Append(s, e)[j] = s[j] BY <1>1, <2>2
    <3> QED BY <1>3, <1>4, <2>1, <3>1
  <2>3. CASE ~(j <= Len(s)) BY <1>1, <1>2, <1>4, <2>1, <2>3
  <2> QED BY <2>2, <2>3
<1>5. DOMAIN <<e>> = {1} OBVIOUS
<1> QED BY <1>1, <1>4, <1>5 DEF Rising

LEMMA OneMoreInHand ==
    ASSUME NEW s \in Nat, NEW d \in Nat, NEW f \in Nat, NEW a \in Nat, NEW e \in Nat, e >= d
    PROVE  /\ s - 1 + d + 0 - (f - a) \in Int /\ s - 1 + e + 1 - (f + 1 - a) \in Int
           /\ s - 1 + e + 1 - (f + 1 - a) >= s - 1 + d + 0 - (f - a)
OBVIOUS

\* An update is taken in hand: it comes into the queue, or it is heard.
LEMMA HandleKeeps ==
    ASSUME HInv, IInv', loop.at = "handling", life = "up",
           UNCHANGED <<sent, taken, answered, starts, confirmed>>, disk'.offset = disk.offset,
           loop'.at \in {"waiting", "replying", "handled"}, upd' = upd,
           diskErrors' \in Nat, diskErrors' >= diskErrors,
           passed \subseteq passed', passed' \subseteq Ids, forwarded \subseteq forwarded',
           Pending \subseteq Pending', Pending' \subseteq Pending \cup {upd}, Pending' \subseteq forwarded',
           upd \in Pending' \cup Heard',
           Rising(group.ids)', InOrder(inbound)', AllBefore(IdsOf(inbound), Range(group.ids))'
    PROVE  HInv'
<1>1. /\ Frontier = upd /\ upd \in DOMAIN sent /\ ~InHand /\ Frontier \in Nat /\ Again \in Nat /\ Again <= Frontier
      /\ \A x \in DOMAIN sent : x \in Nat /\ x \in Ids
      /\ \A i \in Ids : i \in Nat
      /\ DOMAIN sent = 1..Len(sent) /\ Len(sent) \in Nat
  BY Numbers DEF HInv
<1>2. InHand' /\ Frontier' = Frontier + 1 /\ Again' = Again
  BY <1>1 DEF InHand, Frontier, Again, Larger
<1>3. Pending \subseteq Ids BY PendingTypes DEF HInv, IInv
<1>4. QueueInOrder'
  <2>1. \A i \in Pending' : i < Frontier' BY <1>1, <1>2, <1>3 DEF HInv, QueueInOrder
  <2>2. Frontier' <= Len(sent') + 1 BY <1>1, <1>2
  <2>3. Pending' \cup Range(taken') \subseteq forwarded' BY DEF HInv, QueueInOrder
  <2> QED BY <2>1, <2>2, <2>3 DEF QueueInOrder
<1>5. Heard \subseteq Heard' BY DEF Heard
<1>6. \A x \in DOMAIN sent : ~Unheard(x) BY DEF Unheard
<1>7. BehindIsHeard'
  <2>1. \A x \in DOMAIN sent : Again' <= x /\ x < Frontier' =>
           (Again <= x /\ x < Frontier) \/ x \in Pending' \cup Heard'
    BY <1>1, <1>2
  <2>2. \A x \in DOMAIN sent : x \in Pending \cup Heard \/ Unheard(x) => x \in Pending' \cup Heard' \/ Unheard(x)'
    BY <1>5, <1>6
  <2> QED BY <2>1, <2>2, BehindKeeps DEF HInv
<1>8. BeforeHeardIsHeard'
  <2>1. \A x \in DOMAIN sent : x \in Pending' \/ x >= Again' => x \in Pending \/ x >= Again
    BY <1>1, <1>2
  <2> QED BY <2>1, <1>5, BeforeKeeps DEF HInv
<1>9. OutOfOrderOnlyAgain' BY OrderKeeps DEF HInv
<1>10. RepeatsArePaidFor'
  <2>1. MayRepeat' \subseteq MayRepeat
    <3>1. Range(taken') = Range(taken) OBVIOUS
    <3>2. {i \in Ids : i >= Frontier + 1} \cup Pending' \subseteq {i \in Ids : i >= Frontier} \cup Pending
      BY <1>1
    <3>3. MayRepeat' = Range(taken') \cap (Pending' \cup {i \in Ids : i >= Frontier + 1})
      BY <1>2 DEF MayRepeat
    <3> QED BY <3>1, <3>2, <3>3 DEF MayRepeat
  <2>2. diskErrors \in Nat /\ starts \in Nat BY CreditIsInt DEF HInv
  <2>3. /\ Credit = starts - 1 + diskErrors + 0 - (Frontier - Again)
        /\ Credit' = starts - 1 + diskErrors' + 1 - (Frontier + 1 - Again)
    BY <1>1, <1>2 DEF Credit
  <2>4. Credit \in Int /\ Credit' \in Int /\ Credit' >= Credit BY <1>1, <2>2, <2>3, OneMoreInHand
  <2> QED BY <2>1, <2>2, <2>4, PaidKeeps DEF HInv
<1> QED BY <1>4, <1>7, <1>8, <1>9, <1>10 DEF HInv

LEMMA ThenTypes ==
    ASSUME IInv, NEW at \in {"waiting", "replying", "handled"}, Then(at)
    PROVE  loop'.at \in {"waiting", "replying", "handled"} /\ upd' = upd
BY LoopTypes DEF Then, upd

\* The queue is as it was.
LEMMA SameQueue ==
    ASSUME HInv, UNCHANGED <<group, inbound>>
    PROVE  /\ Pending' = Pending /\ Pending \subseteq forwarded
           /\ Rising(group.ids)' /\ InOrder(inbound)' /\ AllBefore(IdsOf(inbound), Range(group.ids))'
BY DEF HInv, QueueInOrder, Rising, InOrder, AllBefore, IdsOf, Pending

LEMMA HandleOtherHears ==
    ASSUME HInv, HandleOther PROVE HInv'
<1> DEFINE to == IF IsOwner THEN "replying" ELSE "handled"
<1>1. /\ UNCHANGED <<sent, taken, answered, starts, confirmed, disk, diskErrors, group, inbound, forwarded>>
      /\ loop.at = "handling" /\ life = "up" /\ Then(to) /\ to \in {"waiting", "replying", "handled"}
      /\ passed' = passed \cup {upd}
  BY DEF HandleOther, Handling, pairVars
<1> HIDE DEF to
<1>2. IInv' /\ loop'.at \in {"waiting", "replying", "handled"} /\ upd' = upd
  BY <1>1, HandleOtherStep, ThenTypes DEF HInv
<1>3. upd \in Heard' /\ passed' \subseteq Ids
  <2>1. upd \in Ids BY <1>1, AtUpdate DEF HInv
  <2> QED BY <1>1, <2>1 DEF HInv, Heard
<1>4. diskErrors' \in Nat /\ diskErrors' >= diskErrors BY <1>1, CreditIsInt DEF HInv
<1> QED BY <1>1, <1>2, <1>3, <1>4, SameQueue, HandleKeeps

LEMMA HandlePairHears ==
    ASSUME HInv, HandlePair PROVE HInv'
<1>1. /\ UNCHANGED <<sent, taken, answered, passed, starts, confirmed, group, inbound, forwarded>>
      /\ loop.at = "handling" /\ life = "up" /\ (Then("replying") \/ Then("handled"))
      /\ sent[upd].kind = "pair"
  BY DEF HandlePair, Handling, Pairs
<1>2. IInv' /\ loop'.at \in {"waiting", "replying", "handled"} /\ upd' = upd
  BY <1>1, HandlePairStep, ThenTypes DEF HInv
<1>3. upd \in Heard' BY <1>1, AtUpdate DEF HInv, Heard
<1>4. disk'.offset = disk.offset BY DEF HandlePair, HInv, IInv, InTypes
<1>5. diskErrors \in Nat BY CreditIsInt DEF HInv
<1>6. diskErrors' \in Nat /\ diskErrors' >= diskErrors BY <1>5 DEF HandlePair, Saves
<1>7. passed' \subseteq Ids BY <1>1 DEF HInv
<1> QED BY <1>1, <1>2, <1>3, <1>4, <1>6, <1>7, SameQueue, HandleKeeps

LEMMA PendingIsBehind ==
    ASSUME HInv, loop.at = "handling"
    PROVE  /\ upd \in Ids /\ upd \in Nat /\ \A i \in Pending : i < upd
           /\ Pending = Range(group.ids) \cup IdsOf(inbound)
           /\ Range(<<upd>>) = {upd} /\ <<upd>> \in Seq(Ids) /\ Rising(<<upd>>)
           /\ group.ids \in Seq(Ids) /\ inbound \in Seq(Seq(Ids))
<1>1. upd \in Ids /\ upd \in Nat BY AtUpdate DEF HInv
<1>2. \A i \in Pending : i < upd BY Numbers DEF HInv, QueueInOrder
<1>3. Rising(<<upd>>)
  <2>1. DOMAIN <<upd>> = {1} OBVIOUS
  <2> QED BY <2>1 DEF Rising
<1>4. Range(<<upd>>) = {upd} BY RangeOfSmall
<1>5. <<upd>> \in Seq(Ids) BY <1>1
<1>6. Pending = Range(group.ids) \cup IdsOf(inbound) BY DEF Pending
<1>7. group.ids \in Seq(Ids) /\ inbound \in Seq(Seq(Ids)) BY DEF HInv, IInv, InTypes
<1> QED BY <1>1, <1>2, <1>3, <1>4, <1>5, <1>6, <1>7

LEMMA HandlePartHears ==
    ASSUME HInv, HandlePart PROVE HInv'
<1>1. /\ UNCHANGED <<sent, taken, answered, passed, starts, confirmed, disk, diskErrors>>
      /\ loop.at = "handling" /\ life = "up" /\ Then("handled") /\ forwarded' = forwarded \cup {upd}
  BY DEF HandlePart, Handling, pairVars
<1>2. IInv' /\ loop'.at \in {"waiting", "replying", "handled"} /\ upd' = upd
  BY <1>1, HandlePartStep, ThenTypes DEF HInv
<1>3. diskErrors' \in Nat /\ diskErrors' >= diskErrors /\ passed' \subseteq Ids
  BY <1>1, CreditIsInt DEF HInv
<1>4. /\ Pending' = Pending \cup {upd}
      /\ Rising(group.ids)' /\ InOrder(inbound)' /\ AllBefore(IdsOf(inbound), Range(group.ids))'
  <2>1. /\ upd \in Ids /\ upd \in Nat /\ \A i \in Pending : i < upd
        /\ Pending = Range(group.ids) \cup IdsOf(inbound)
        /\ Range(<<upd>>) = {upd} /\ Rising(<<upd>>) /\ group.ids \in Seq(Ids)
    BY <1>1, PendingIsBehind
  <2>2. CASE group.album = sent[upd].album
    <3>1. group' = [group EXCEPT !.ids = Append(@, upd)] /\ inbound' = inbound
      BY <2>2 DEF HandlePart
    <3>2. group'.ids = Append(group.ids, upd) BY <3>1 DEF HInv, IInv, InTypes
    <3>3. Range(group'.ids) = Range(group.ids) \cup {upd} BY <2>1, <3>2, RangeOfAppend
    <3>4. Rising(group.ids)' BY <2>1, <3>2, RisingAppend DEF HInv, QueueInOrder
    <3>5. InOrder(inbound)' BY <3>1 DEF HInv, QueueInOrder, InOrder
    <3>6. AllBefore(IdsOf(inbound), Range(group.ids))'
      <4>1. IdsOf(inbound)' = IdsOf(inbound) BY <3>1 DEF IdsOf
      <4> QED BY <2>1, <3>3, <4>1 DEF HInv, QueueInOrder, AllBefore
    <3>7. Pending' = Pending \cup {upd} BY <2>1, <3>1, <3>3 DEF Pending, IdsOf
    <3> QED BY <3>4, <3>5, <3>6, <3>7
  <2>3. CASE group.album # sent[upd].album
    <3>1. group' = [album |-> sent[upd].album, ids |-> <<upd>>] /\ inbound' = inbound \o FlushedGroup
      BY <2>3 DEF HandlePart
    <3>2. group'.ids = <<upd>> BY <3>1
    <3>3. InOrder(inbound)' /\ IdsOf(inbound)' = Pending
      <4>1. InOrder(inbound \o FlushedGroup) /\ IdsOf(inbound \o FlushedGroup) = Pending
        BY FlushInOrder DEF HInv, IInv
      <4> QED BY <3>1, <4>1 DEF InOrder, IdsOf
    <3>4. Rising(group.ids)' BY <2>1, <3>2
    <3>5. AllBefore(IdsOf(inbound), Range(group.ids))' BY <2>1, <3>2, <3>3 DEF AllBefore
    <3>6. Pending' = Pending \cup {upd} BY <2>1, <3>2, <3>3 DEF Pending
    <3> QED BY <3>3, <3>4, <3>5, <3>6
  <2> QED BY <2>2, <2>3
<1>5. Pending \subseteq forwarded BY DEF HInv, QueueInOrder
<1> QED BY <1>1, <1>2, <1>3, <1>4, <1>5, HandleKeeps

LEMMA HandleMessageHears ==
    ASSUME HInv, HandleMessage PROVE HInv'
<1>1. /\ UNCHANGED <<sent, taken, answered, passed, starts, confirmed, disk, diskErrors>>
      /\ loop.at = "handling" /\ life = "up" /\ Then("waiting") /\ forwarded' = forwarded \cup {upd}
      /\ inbound' = inbound \o FlushedGroup \o <<<<upd>>>> /\ group' = NoGroup
  BY DEF HandleMessage, Handling, pairVars
<1>2. IInv' /\ loop'.at \in {"waiting", "replying", "handled"} /\ upd' = upd
  BY <1>1, HandleMessageStep, ThenTypes DEF HInv
<1>3. diskErrors' \in Nat /\ diskErrors' >= diskErrors /\ passed' \subseteq Ids
  BY <1>1, CreditIsInt DEF HInv
<1>4. /\ Pending' = Pending \cup {upd}
      /\ Rising(group.ids)' /\ InOrder(inbound)' /\ AllBefore(IdsOf(inbound), Range(group.ids))'
  <2>1. /\ upd \in Ids /\ upd \in Nat /\ \A i \in Pending : i < upd
        /\ Range(<<upd>>) = {upd} /\ Rising(<<upd>>) /\ <<upd>> \in Seq(Ids)
    BY <1>1, PendingIsBehind
  <2>2. /\ inbound \o FlushedGroup \in Seq(Seq(Ids)) /\ InOrder(inbound \o FlushedGroup)
        /\ IdsOf(inbound \o FlushedGroup) = Pending
    BY FlushInOrder DEF HInv, IInv
  <2>3. AllBefore(IdsOf(inbound \o FlushedGroup), Range(<<upd>>)) BY <2>1, <2>2 DEF AllBefore
  <2>4. InOrder(inbound') /\ IdsOf(inbound') = Pending \cup {upd}
    <3> DEFINE q == inbound \o FlushedGroup
    <3>1. InOrder(q \o <<<<upd>>>>) /\ IdsOf(q \o <<<<upd>>>>) = IdsOf(q) \cup Range(<<upd>>)
      <4> HIDE DEF q
      <4> QED BY <2>1, <2>2, <2>3, JoinsInOrder DEF q
    <3> QED BY <1>1, <2>1, <2>2, <3>1
  <2>5. group'.ids = <<>> /\ Range(group'.ids) = {} /\ Rising(group'.ids)
    <3>1. group'.ids = <<>> /\ DOMAIN <<>> = {} BY <1>1 DEF NoGroup
    <3> QED BY <3>1, RangeOfSmall DEF Rising
  <2> QED BY <2>4, <2>5 DEF Pending, AllBefore
<1>5. Pending \subseteq forwarded BY DEF HInv, QueueInOrder
<1> QED BY <1>1, <1>2, <1>3, <1>4, <1>5, HandleKeeps

LEMMA GroupTimerHears ==
    ASSUME HInv, GroupTimer PROVE HInv'
<1>1. /\ UNCHANGED <<sent, taken, answered, passed, forwarded, starts, asking, confirmed, disk, diskErrors, loop, life>>
      /\ inbound' = inbound \o FlushedGroup /\ group' = NoGroup /\ group # NoGroup
  BY DEF GroupTimer, pairVars
<1>2. IInv' BY GroupTimerStep DEF HInv
<1>3. /\ InOrder(inbound') /\ IdsOf(inbound') = Pending BY <1>1, FlushInOrder DEF HInv, IInv
<1>4. group'.ids = <<>> /\ Range(group'.ids) = {} /\ Rising(group'.ids)
  <2>1. group'.ids = <<>> /\ DOMAIN <<>> = {} BY <1>1 DEF NoGroup
  <2> QED BY <2>1, RangeOfSmall DEF Rising
<1>5. Pending' = Pending BY <1>3, <1>4 DEF Pending
<1>6. inbound # <<>> => inbound' # <<>> /\ Head(inbound') = Head(inbound)
  <2>1. inbound \in Seq(Seq(Ids)) /\ FlushedGroup \in Seq(Seq(Ids))
    BY FlushedTypes DEF HInv, IInv, InTypes
  <2> QED BY <1>1, <2>1
<1>7. Frontier' = Frontier /\ Again' = Again /\ (InHand' <=> InHand)
  BY <1>1 DEF Frontier, Again, InHand, upd
<1>8. Again \in Nat /\ diskErrors \in Nat BY Numbers, CreditIsInt DEF HInv
<1>9. Credit' \in Int /\ Credit' >= Credit BY <1>1, <1>7, <1>8, CreditKeeps
<1>10. Rising(group.ids)' /\ InOrder(inbound)' /\ AllBefore(IdsOf(inbound), Range(group.ids))'
  BY <1>3, <1>4 DEF AllBefore
<1> QED BY <1>1, <1>2, <1>5, <1>6, <1>7, <1>8, <1>9, <1>10, QuietStep

LEMMA SendsHears ==
    ASSUME HInv, NEW u \in Users, NEW what \in Kinds, Sends(u, what) PROVE HInv'
<1>1. UNCHANGED <<taken, answered, passed, forwarded, starts, asking, group, inbound, confirmed, disk, diskErrors, loop, life>>
  BY DEF Sends, pairVars
<1>2. IInv' BY SendsStep DEF HInv
<1>3. /\ Len(sent) \in Nat /\ DOMAIN sent = 1..Len(sent) /\ Len(sent') = Len(sent) + 1 /\ DOMAIN sent' = 1..(Len(sent) + 1)
      /\ \A i \in DOMAIN sent : sent'[i] = sent[i]
  <2> DEFINE new == [from |-> u, kind |-> what.kind, album |-> what.album, code |-> what.code]
  <2>1. sent' = Append(sent, new) BY DEF Sends
  <2>2. \E S : sent \in Seq(S) /\ new \in S
    <3> DEFINE Update_ == [from : Users, kind : {"text", "command", "part", "pair"},
                           album : Albums \cup {None}, code : {0} \cup Codes]
    <3>1. sent \in Seq(Update_) BY DEF HInv, IInv, InTypes
    <3>2. new \in Update_ BY DEF Kinds, Update
    <3> QED BY <3>1, <3>2
  <2>3. PICK S : sent \in Seq(S) /\ new \in S BY <2>2
  <2> HIDE DEF new
  <2> QED BY <2>1, <2>3
<1>4. Frontier' = Frontier /\ Again' = Again /\ (InHand' <=> InHand) /\ Pending' = Pending
  BY <1>1 DEF Frontier, Again, InHand, upd, Pending, IdsOf
<1>5. /\ Frontier \in Nat /\ Again \in Nat /\ diskErrors \in Nat /\ starts \in Nat /\ Frontier <= Len(sent) + 1
      /\ \A i \in Ids : i \in Nat
  BY Numbers, CreditIsInt DEF HInv, QueueInOrder
<1>6. QueueInOrder'
  <2>1. /\ Rising(group.ids)' /\ InOrder(inbound)' /\ AllBefore(IdsOf(inbound), Range(group.ids))'
        /\ \A i \in Pending : i < Frontier
        /\ Pending \cup Range(taken) \subseteq forwarded
    BY <1>1, SameQueue DEF HInv, QueueInOrder
  <2>2. Frontier <= Len(sent') + 1 BY <1>3, <1>5
  <2>3. Range(taken') = Range(taken) BY <1>1
  <2> QED BY <1>1, <1>4, <2>1, <2>2, <2>3 DEF QueueInOrder
<1>7. Heard \subseteq Heard' BY <1>1, <1>3 DEF Heard
<1>8. \A x : Unheard(x) => Unheard(x)' BY <1>1 DEF Unheard, AtAssistant
<1>9. BehindIsHeard'
  <2>1. ASSUME NEW x \in DOMAIN sent', Again' <= x, x < Frontier' PROVE x \in Pending' \cup Heard' \/ Unheard(x)'
    <3>1. x \in DOMAIN sent /\ Again <= x /\ x < Frontier BY <1>3, <1>4, <1>5, <2>1
    <3>2. x \in Pending \cup Heard \/ Unheard(x) BY <3>1 DEF HInv, BehindIsHeard
    <3> QED BY <3>2, <1>4, <1>7, <1>8
  <2> QED BY <2>1 DEF BehindIsHeard
<1>10. BeforeHeardIsHeard'
  <2>1. ASSUME NEW y \in Range(taken'), NEW x \in DOMAIN sent', x < y, x \in Pending' \/ x >= Again' PROVE x \in Heard'
    <3>1. y \in DOMAIN sent /\ y \in Range(taken)
      BY <1>1, <2>1 DEF HInv, QueueInOrder, IInv, NoPairing
    <3>2. x \in DOMAIN sent BY <1>3, <2>1, <3>1
    <3>3. x \in Heard BY <1>4, <2>1, <3>1, <3>2 DEF HInv, BeforeHeardIsHeard
    <3> QED BY <1>7, <3>3
  <2> QED BY <2>1 DEF BeforeHeardIsHeard
<1>11. OutOfOrderOnlyAgain' BY <1>1, OrderKeeps DEF HInv
<1>12. RepeatsArePaidFor'
  <2>1. MayRepeat' = MayRepeat BY <1>1, <1>4 DEF MayRepeat
  <2>2. Credit' \in Int /\ Credit' >= Credit /\ Credit \in Int
    BY <1>1, <1>4, <1>5, CreditKeeps, CreditIsInt DEF HInv
  <2> QED BY <1>1, <1>5, <2>1, <2>2, PaidKeeps DEF HInv
<1>13. passed' \subseteq Ids BY <1>1 DEF HInv
<1> QED BY <1>2, <1>6, <1>9, <1>10, <1>11, <1>12, <1>13 DEF HInv

\* The channel stops: what is gathered goes unheard, and so does all that comes after.
LEMMA StopHears ==
    ASSUME HInv, Stop PROVE HInv'
<1>1. /\ UNCHANGED <<sent, taken, answered, passed, forwarded, starts, asking, inbound, confirmed, disk, diskErrors, loop>>
      /\ group' = NoGroup /\ life = "up" /\ life' = "stopping"
  BY DEF Stop, pairVars
<1>2. IInv' /\ passed' \subseteq Ids BY <1>1, StopStep DEF HInv
<1>3. Frontier' = Frontier /\ Again' = Again /\ (InHand' <=> InHand)
  BY <1>1 DEF Frontier, Again, InHand, upd
<1>4. Frontier \in Nat /\ Again \in Nat /\ diskErrors \in Nat /\ starts \in Nat
  BY Numbers, CreditIsInt DEF HInv
<1>5. group'.ids = <<>> /\ Range(group'.ids) = {} /\ Rising(group'.ids)
  <2>1. group'.ids = <<>> /\ DOMAIN <<>> = {} BY <1>1 DEF NoGroup
  <2> QED BY <2>1, RangeOfSmall DEF Rising
<1>6. Pending' = IdsOf(inbound) /\ Pending' \subseteq Pending /\ Pending = Pending' \cup Range(group.ids)
  BY <1>1, <1>5 DEF Pending, IdsOf
<1>7. QueueInOrder'
  <2>1. InOrder(inbound)' /\ AllBefore(IdsOf(inbound), Range(group.ids))'
    BY <1>1, <1>5 DEF HInv, QueueInOrder, InOrder, AllBefore
  <2>2. Range(taken') = Range(taken) BY <1>1
  <2> QED BY <1>1, <1>3, <1>5, <1>6, <2>1, <2>2 DEF HInv, QueueInOrder
<1>8. Heard' = Heard BY <1>1 DEF Heard
<1>9. ASSUME NEW x \in Range(group.ids) PROVE Unheard(x)'
  <2>1. AtAssistant => Range(Head(inbound)) \subseteq IdsOf(inbound)
    <3>1. AtAssistant => inbound # <<>> BY DEF HInv, IInv, InTypes, AtAssistant
    <3> QED BY <3>1, IdsOfTail DEF HInv, IInv, InTypes
  <2>2. AtAssistant => \A i \in Range(Head(inbound)) : i < x
    BY <1>9, <2>1 DEF HInv, QueueInOrder, AllBefore
  <2> QED BY <1>1, <2>2 DEF Unheard, AtAssistant
<1>10. BehindIsHeard'
  <2>1. \A x \in DOMAIN sent : ~Unheard(x) BY <1>1 DEF Unheard
  <2> QED BY <1>1, <1>3, <1>6, <1>8, <1>9, <2>1, BehindKeeps DEF HInv
<1>11. BeforeHeardIsHeard' BY <1>1, <1>3, <1>6, <1>8, BeforeKeeps DEF HInv
<1>12. OutOfOrderOnlyAgain' BY <1>1, OrderKeeps DEF HInv
<1>13. RepeatsArePaidFor'
  <2>1. MayRepeat' \subseteq MayRepeat BY <1>1, <1>3, <1>6 DEF MayRepeat
  <2>2. Credit' \in Int /\ Credit' >= Credit /\ Credit \in Int
    BY <1>1, <1>3, <1>4, CreditKeeps, CreditIsInt DEF HInv
  <2> QED BY <1>1, <1>4, <2>1, <2>2, PaidKeeps DEF HInv
<1> QED BY <1>2, <1>7, <1>10, <1>11, <1>12, <1>13 DEF HInv

LEMMA UnionBound ==
    ASSUME NEW c \in Nat, NEW u, NEW m \in Nat, NEW l \in Int, NEW i \in Nat, u = m + l - i, c <= u
    PROVE  c <= m + l
OBVIOUS

LEMMA StartPays ==
    ASSUME NEW s \in Nat, NEW d \in Nat, NEW f \in Nat, NEW a \in Nat, NEW h \in {0, 1},
           NEW r \in Int, NEW m \in Nat, NEW n \in Nat, n <= m + (f - a),
           r + m <= s - 1 + d + h - (f - a)
    PROVE  r + n <= (s + 1) - 1 + d + 0 - (a - a)
OBVIOUS

\* What was in hand, and what the disk does not know of, may come again: a start has
\* been paid for the one, failed writes for the others.
LEMMA RestartHears ==
    ASSUME HInv, Restart PROVE HInv'
<1>1. /\ UNCHANGED <<sent, taken, answered, passed, forwarded, confirmed, disk, diskErrors>>
      /\ starts' = starts + 1 /\ life' = "up"
      /\ loop' = [at |-> "polling", upd |-> 0, last |-> 0, offset |-> disk.offset]
      /\ group' = NoGroup /\ inbound' = <<>>
  BY DEF Restart
<1>2. IInv' /\ passed' \subseteq Ids BY <1>1, RestartStep DEF HInv
<1>3. /\ Frontier \in Nat /\ Again \in Nat /\ diskErrors \in Nat /\ starts \in Nat /\ Again <= Frontier
      /\ Len(sent) \in Nat /\ DOMAIN sent = 1..Len(sent) /\ Frontier <= Len(sent) + 1
      /\ \A i \in Ids : i \in Nat
  BY Numbers, CreditIsInt DEF HInv, QueueInOrder
<1>4. loop'.at = "polling" /\ loop'.offset = disk.offset BY <1>1
<1>5. Frontier' = Again /\ Again' = Again /\ ~InHand'
  BY <1>1, <1>4 DEF Frontier, Again, InHand, Larger
<1>6. Pending' = {} /\ group'.ids = <<>> /\ DOMAIN inbound' = {} /\ IdsOf(inbound') = {} /\ Rising(group'.ids)
  <2>1. group'.ids = <<>> /\ DOMAIN <<>> = {} BY <1>1 DEF NoGroup
  <2> QED BY <1>1, <2>1, RangeOfSmall DEF Rising, Pending, IdsOf
<1>7. QueueInOrder'
  <2>1. InOrder(inbound)' /\ AllBefore(IdsOf(inbound), Range(group.ids))'
    BY <1>6 DEF InOrder, AllBefore
  <2>2. Range(taken') = Range(taken) BY <1>1
  <2> QED BY <1>1, <1>3, <1>5, <1>6, <2>1, <2>2 DEF HInv, QueueInOrder
<1>8. Heard' = Heard BY <1>1 DEF Heard
<1>9. BehindIsHeard' BY <1>1, <1>3, <1>5 DEF BehindIsHeard
<1>10. BeforeHeardIsHeard' BY <1>1, <1>5, <1>6, <1>8, BeforeKeeps DEF HInv
<1>11. OutOfOrderOnlyAgain' BY <1>1, OrderKeeps DEF HInv
<1>12. RepeatsArePaidFor'
  <2> DEFINE lag == Again..(Frontier - 1)
  <2>1. MayRepeat' \subseteq MayRepeat \cup lag
    <3>1. MayRepeat' = Range(taken) \cap {i \in Ids : i >= Again} BY <1>1, <1>5, <1>6 DEF MayRepeat
    <3>2. \A i \in Ids : i >= Again => i >= Frontier \/ i \in lag BY <1>3
    <3> HIDE DEF lag
    <3> QED BY <3>1, <3>2 DEF MayRepeat
  <2>2. IsFiniteSet(lag) /\ Cardinality(lag) = Frontier - Again
    <3>1. Again \in Int /\ Frontier - 1 \in Int BY <1>3
    <3>2. IsFiniteSet(lag) /\ Cardinality(lag) = IF Again > Frontier - 1 THEN 0 ELSE (Frontier - 1) - Again + 1
      BY <3>1, FS_Interval
    <3> HIDE DEF lag
    <3> QED BY <1>3, <3>2
  <2> HIDE DEF lag
  <2>3. /\ IsFiniteSet(MayRepeat) /\ Cardinality(MayRepeat) \in Nat
        /\ Len(taken) \in Nat /\ Cardinality(Range(taken)) \in Nat
    BY TakenIsFinite DEF HInv, IInv
  <2>4. /\ IsFiniteSet(MayRepeat \cup lag)
        /\ Cardinality(MayRepeat \cup lag) = Cardinality(MayRepeat) + Cardinality(lag) - Cardinality(MayRepeat \cap lag)
    BY <2>2, <2>3, FS_Union
  <2>5. Cardinality(MayRepeat \cap lag) \in Nat BY <2>3, FS_Intersection, FS_CardinalityType
  <2>6. Cardinality(MayRepeat') \in Nat /\ Cardinality(MayRepeat') <= Cardinality(MayRepeat \cup lag)
    BY <2>1, <2>4, FS_Subset, FS_CardinalityType
  <2>7. Cardinality(MayRepeat') <= Cardinality(MayRepeat) + (Frontier - Again)
    <3>1. Frontier - Again \in Int BY <1>3
    <3> QED BY <2>2, <2>3, <2>4, <2>5, <2>6, <3>1, UnionBound
  <2>8. Repeated \in Int /\ Repeated' = Repeated BY <1>1, <2>3 DEF Repeated
  <2>9. PICK h \in {0, 1} : h = IF InHand THEN 1 ELSE 0 OBVIOUS
  <2>10. Repeated + Cardinality(MayRepeat) <= starts - 1 + diskErrors + h - (Frontier - Again)
    BY <2>9 DEF HInv, RepeatsArePaidFor, Credit
  <2>11. Repeated + Cardinality(MayRepeat') <= (starts + 1) - 1 + diskErrors + 0 - (Again - Again)
    BY <1>3, <2>3, <2>6, <2>7, <2>8, <2>10, StartPays
  <2>12. Credit' = (starts + 1) - 1 + diskErrors + 0 - (Again - Again) BY <1>1, <1>5 DEF Credit
  <2>13. starts' \in Nat /\ diskErrors' \in Nat BY <1>1, <1>3
  <2> QED BY <2>8, <2>11, <2>12, <2>13 DEF RepeatsArePaidFor
<1> QED BY <1>2, <1>7, <1>9, <1>10, <1>11, <1>12 DEF HInv

--------------------
(* The head of the queue is done with. *)

LEMMA RisingCardinality ==
    ASSUME NEW s \in Seq(Ids), Rising(s) PROVE IsFiniteSet(Range(s)) /\ Cardinality(Range(s)) = Len(s)
<1>1. Len(s) \in Nat /\ DOMAIN s = 1..Len(s) /\ \A i \in 1..Len(s) : s[i] \in Ids OBVIOUS
<1>2. \A i \in Ids : i \in Nat BY DEF Ids
<1>3. s \in [1..Len(s) -> Range(s)] /\ \A t \in Range(s) : \E i \in 1..Len(s) : s[i] = t
  BY <1>1 DEF Range
<1>4. ASSUME NEW i \in 1..Len(s), NEW j \in 1..Len(s), s[i] = s[j] PROVE i = j
  <2>1. s[i] \in Nat /\ s[j] \in Nat BY <1>1, <1>2
  <2>2. i < j => s[i] < s[j] BY <1>1 DEF Rising
  <2>3. j < i => s[j] < s[i] BY <1>1 DEF Rising
  <2> QED BY <1>1, <1>4, <2>1, <2>2, <2>3
<1>5. s \in Bijection(1..Len(s), Range(s))
  BY <1>3, <1>4 DEF Bijection, Injection, Surjection, IsInjective
<1>6. IsFiniteSet(1..Len(s)) /\ Cardinality(1..Len(s)) = Len(s)
  <2>1. 1 \in Int /\ Len(s) \in Int BY <1>1
  <2>2. IsFiniteSet(1..Len(s)) /\ Cardinality(1..Len(s)) = IF 1 > Len(s) THEN 0 ELSE Len(s) - 1 + 1
    BY <2>1, FS_Interval
  <2> QED BY <1>1, <2>2
<1> QED BY <1>5, <1>6, FS_Bijection DEF ExistsBijection

\* The head goes on: nothing is heard yet.
LEMMA AsksHears ==
    ASSUME HInv, IInv',
           UNCHANGED <<sent, confirmed, life, disk, group, starts, diskErrors, forwarded, passed,
                       inbound, loop, taken, answered>>,
           life = "up" \/ asking' = "files"
    PROVE  HInv'
<1>1. Frontier' = Frontier /\ Again' = Again /\ (InHand' <=> InHand)
  BY DEF Frontier, Again, InHand, upd
<1>2. Frontier \in Nat /\ Again \in Nat /\ diskErrors \in Nat /\ starts \in Nat
  BY Numbers, CreditIsInt DEF HInv
<1>3. QueueInOrder' /\ Pending' = Pending
  <2>1. /\ Pending' = Pending
        /\ Rising(group.ids)' /\ InOrder(inbound)' /\ AllBefore(IdsOf(inbound), Range(group.ids))'
    BY SameQueue
  <2>2. Range(taken') = Range(taken) OBVIOUS
  <2> QED BY <1>1, <2>1, <2>2 DEF HInv, QueueInOrder
<1>4. Heard' = Heard BY DEF Heard
<1>5. \A x : Unheard(x) => Unheard(x)' BY DEF Unheard, AtAssistant
<1>6. BehindIsHeard' BY <1>1, <1>3, <1>4, <1>5, BehindKeeps DEF HInv
<1>7. BeforeHeardIsHeard' BY <1>1, <1>3, <1>4, BeforeKeeps DEF HInv
<1>8. OutOfOrderOnlyAgain' BY OrderKeeps DEF HInv
<1>9. RepeatsArePaidFor'
  <2>1. MayRepeat' = MayRepeat BY <1>1, <1>3 DEF MayRepeat
  <2>2. Credit' \in Int /\ Credit' >= Credit /\ Credit \in Int
    BY <1>1, <1>2, CreditKeeps, CreditIsInt DEF HInv
  <2> QED BY <1>2, <2>1, <2>2, PaidKeeps DEF HInv
<1> QED BY <1>3, <1>6, <1>7, <1>8, <1>9 DEF HInv

done == <<sent, confirmed, life, disk, group, starts, diskErrors, forwarded, passed>>

\* What the queue and the loop are after it.
LEMMA DoneShape ==
    ASSUME HInv, Done, inbound # <<>>, UNCHANGED done
    PROVE  /\ Frontier' = Frontier /\ Again' = Again /\ (InHand' <=> InHand)
           /\ Credit' \in Int /\ Credit' >= Credit /\ Credit \in Int /\ starts' \in Nat /\ diskErrors' \in Nat
           /\ Head(inbound) \in Seq(Ids) /\ Rising(Head(inbound))
           /\ Pending = Pending' \cup Range(Head(inbound))
           /\ \A i \in Range(Head(inbound)), j \in Pending' : i < j
           /\ InOrder(inbound)' /\ AllBefore(IdsOf(inbound), Range(group.ids))'
           /\ asking' = "no"
<1> USE DEF done
<1>1. inbound' = Tail(inbound) /\ asking' = "no" /\ inbound \in Seq(Seq(Ids))
  BY DEF Done, HInv, IInv, InTypes
<1>2. /\ Head(inbound) \in Seq(Ids) /\ IdsOf(inbound) = Range(Head(inbound)) \cup IdsOf(Tail(inbound))
      /\ InOrder(Tail(inbound)) /\ Rising(Head(inbound)) /\ AllBefore(Range(Head(inbound)), IdsOf(Tail(inbound)))
  BY <1>1, IdsOfTail, TailInOrder DEF HInv, QueueInOrder
<1>3. IdsOf(inbound)' = IdsOf(Tail(inbound)) /\ InOrder(inbound)' BY <1>1, <1>2 DEF IdsOf, InOrder
<1>4. Pending = Pending' \cup Range(Head(inbound)) BY <1>2, <1>3 DEF Pending
<1>5. AllBefore(IdsOf(inbound), Range(group.ids))' BY <1>2, <1>3 DEF HInv, QueueInOrder, AllBefore
<1>6. \A i \in Range(Head(inbound)), j \in Pending' : i < j
  BY <1>2, <1>3 DEF HInv, QueueInOrder, AllBefore, Pending
<1>7. /\ (InHand' <=> InHand) /\ loop'.upd = loop.upd /\ loop'.offset = loop.offset
  <2>1. CASE loop.at = "waiting" /\ upd \in Range(Head(inbound))
    <3>1. loop' = [loop EXCEPT !.at = "handled"] BY <2>1 DEF Done
    <3>2. loop'.at = "handled" /\ loop'.upd = loop.upd /\ loop'.offset = loop.offset
      BY <3>1, LoopTypes DEF HInv
    <3> QED BY <2>1, <3>2 DEF InHand
  <2>2. CASE ~(loop.at = "waiting" /\ upd \in Range(Head(inbound)))
    <3>1. loop' = loop BY <2>2 DEF Done
    <3> QED BY <3>1 DEF InHand
  <2> QED BY <2>1, <2>2
<1>8. Frontier' = Frontier /\ Again' = Again BY <1>7 DEF Frontier, Again, Larger, upd
<1>9. Again \in Nat /\ diskErrors \in Nat /\ starts \in Nat /\ Credit \in Int
  BY Numbers, CreditIsInt DEF HInv
<1>10. Credit' \in Int /\ Credit' >= Credit BY <1>7, <1>8, <1>9, CreditKeeps
<1> QED BY <1>1, <1>2, <1>3, <1>4, <1>5, <1>6, <1>7, <1>8, <1>9, <1>10

\* It was not for the assistant: a reply says so, or the channel has stopped.
LEMMA UntakenHears ==
    ASSUME HInv, IInv', Done, inbound # <<>>, UNCHANGED done,
           Answers \/ (Drops /\ life # "up")
    PROVE  HInv'
<1>1. UNCHANGED <<sent, taken, life, group, starts, diskErrors, forwarded, passed>>
  BY DEF done, Answers, Drops
<1>2. /\ Frontier' = Frontier /\ Again' = Again
      /\ Credit' \in Int /\ Credit' >= Credit /\ Credit \in Int /\ starts' \in Nat /\ diskErrors' \in Nat
      /\ Pending = Pending' \cup Range(Head(inbound))
      /\ InOrder(inbound)' /\ AllBefore(IdsOf(inbound), Range(group.ids))' /\ asking' = "no"
  BY DoneShape
<1>3. answered \subseteq answered' /\ (life = "up" => Range(Head(inbound)) \subseteq answered')
  BY DEF Answers, Drops
<1>4. Heard \subseteq Heard' /\ (life = "up" => Range(Head(inbound)) \subseteq Heard')
  BY <1>1, <1>3 DEF Heard
<1>5. QueueInOrder'
  <2>1. Rising(group.ids)' /\ Range(taken') = Range(taken) BY <1>1 DEF HInv, QueueInOrder, Rising
  <2> QED BY <1>1, <1>2, <2>1 DEF HInv, QueueInOrder
<1>6. life # "up" => \A x : Unheard(x)' BY <1>1, <1>2 DEF Unheard, AtAssistant
<1>7. life = "up" => \A x : ~Unheard(x) BY DEF Unheard
<1>8. BehindIsHeard'
  <2>1. \A x \in DOMAIN sent : x \in Pending \cup Heard \/ Unheard(x) => x \in Pending' \cup Heard' \/ Unheard(x)'
    BY <1>2, <1>4, <1>6, <1>7
  <2> QED BY <1>1, <1>2, <2>1, BehindKeeps DEF HInv
<1>9. BeforeHeardIsHeard' BY <1>1, <1>2, <1>4, BeforeKeeps DEF HInv
<1>10. OutOfOrderOnlyAgain' BY <1>1, <1>3, OrderKeeps DEF HInv
<1>11. RepeatsArePaidFor'
  <2>1. MayRepeat' \subseteq MayRepeat BY <1>1, <1>2 DEF MayRepeat
  <2> QED BY <1>1, <1>2, <2>1, PaidKeeps DEF HInv
<1>12. passed' \subseteq Ids BY <1>1 DEF HInv
<1> QED BY <1>5, <1>8, <1>9, <1>10, <1>11, <1>12 DEF HInv

LEMMA TakeBalance ==
    ASSUME NEW n \in Nat, NEW k \in Nat, NEW r \in Nat, NEW u \in Nat, NEW i \in Nat, NEW m \in Nat, NEW p \in Nat,
           u = r + k - i, p = m - i
    PROVE  ((n + k) - u) + p = (n - r) + m
OBVIOUS

\* The assistant gets it: in order, for all before it that may yet come was heard; and
\* what it gets again was to be expected.
LEMMA TakenHears ==
    ASSUME HInv, IInv', Done, inbound # <<>>, UNCHANGED done, Takes, AtAssistant
    PROVE  HInv'
<1> DEFINE h == Head(inbound)
<1> DEFINE H == Range(h)
<1> DEFINE R == Range(taken)
<1>1. /\ UNCHANGED <<sent, life, group, starts, diskErrors, forwarded, passed, answered>>
      /\ taken' = taken \o h
  BY DEF done, Takes
<1>2. /\ Frontier' = Frontier /\ Again' = Again
      /\ Credit' \in Int /\ Credit' >= Credit /\ Credit \in Int /\ starts' \in Nat /\ diskErrors' \in Nat
      /\ h \in Seq(Ids) /\ Rising(h)
      /\ Pending = Pending' \cup H
      /\ \A i \in H, j \in Pending' : i < j
      /\ InOrder(inbound)' /\ AllBefore(IdsOf(inbound), Range(group.ids))' /\ asking' = "no"
  BY DoneShape
<1>3. taken \in Seq(Ids) /\ Range(taken') = R \cup H
  <2>1. taken \in Seq(Ids) BY DEF HInv, IInv, InTypes
  <2> QED BY <1>1, <1>2, <2>1, RangeOfConcat
<1>4. /\ \A i \in Ids : i \in Nat
      /\ \A i \in DOMAIN sent : i \in Nat
      /\ Frontier \in Nat /\ Again \in Nat /\ Pending \subseteq Ids
  BY Numbers, PendingTypes DEF HInv, IInv
<1>5. H \subseteq Ids /\ R \subseteq Ids BY <1>2, <1>3, RangeInSet
<1>6. Pending \subseteq DOMAIN sent /\ \A i \in Pending : sent[i].kind # "pair" /\ i < Frontier
  BY DEF HInv, QueueInOrder, IInv, NoPairing
<1> HIDE DEF h, H, R
<1>7. QueueInOrder'
  <2>1. Rising(group.ids)' BY <1>1 DEF HInv, QueueInOrder, Rising
  <2>2. Pending' \cup Range(taken') \subseteq forwarded'
    BY <1>1, <1>2, <1>3 DEF HInv, QueueInOrder, R
  <2> QED BY <1>1, <1>2, <2>1, <2>2 DEF HInv, QueueInOrder
<1>8. Heard' = Heard \cup H BY <1>1, <1>3 DEF Heard, R
<1>9. ASSUME NEW x \in DOMAIN sent, NEW y \in H, x < y, Unheard(x) PROVE FALSE
  BY <1>4, <1>5, <1>9 DEF Unheard, H, h
<1>10. BehindIsHeard'
  <2>1. \A x \in DOMAIN sent : Unheard(x) => Unheard(x)' BY <1>1, <1>2 DEF Unheard, AtAssistant
  <2>2. \A x \in DOMAIN sent : x \in Pending \cup Heard \/ Unheard(x) => x \in Pending' \cup Heard' \/ Unheard(x)'
    BY <1>2, <1>8, <2>1
  <2> QED BY <1>1, <1>2, <2>2, BehindKeeps DEF HInv
<1>11. BeforeHeardIsHeard'
  <2>1. ASSUME NEW y \in Range(taken'), NEW x \in DOMAIN sent', x < y, x \in Pending' \/ x >= Again'
        PROVE x \in Heard'
    <3>1. CASE y \in R BY <1>1, <1>2, <1>8, <2>1, <3>1 DEF HInv, BeforeHeardIsHeard, R
    <3>2. CASE y \in H
      <4>1. y \in Nat /\ x \in Nat /\ y < Frontier /\ x < Frontier
        BY <1>1, <1>2, <1>4, <1>5, <1>6, <2>1, <3>2
      <4>2. x \notin Pending'
        <5>1. x \in Pending' => y < x BY <1>2, <3>2
        <5> QED BY <2>1, <4>1, <5>1
      <4>3. x \in Pending \cup Heard \/ Unheard(x)
        BY <1>1, <1>2, <2>1, <4>1, <4>2 DEF HInv, BehindIsHeard
      <4>4. ~Unheard(x) BY <1>1, <1>9, <2>1, <3>2
      <4> QED BY <1>2, <1>8, <4>2, <4>3, <4>4
    <3> QED BY <1>3, <2>1, <3>1, <3>2
  <2> QED BY <2>1 DEF BeforeHeardIsHeard
<1>12. OutOfOrderOnlyAgain'
  <2>1. /\ Len(taken) \in Nat /\ Len(h) \in Nat /\ DOMAIN taken = 1..Len(taken) /\ DOMAIN h = 1..Len(h)
        /\ DOMAIN taken' = 1..(Len(taken) + Len(h))
        /\ \A i \in 1..(Len(taken) + Len(h)) : taken'[i] = IF i <= Len(taken) THEN taken[i] ELSE h[i - Len(taken)]
    <3>1. Len(taken') = Len(taken) + Len(h) /\ DOMAIN taken' = 1..Len(taken') BY <1>1, <1>2, <1>3
    <3> QED BY <1>1, <1>2, <1>3, <3>1
  <2>2. ASSUME NEW i \in DOMAIN taken', NEW j \in DOMAIN taken', i < j, taken'[i] > taken'[j]
        PROVE  (\E k \in 1..(j - 1) : taken'[k] = taken'[j]) \/ taken'[j] \in answered' \cup passed'
    <3>1. CASE j <= Len(taken)
      <4>1. /\ i \in DOMAIN taken /\ j \in DOMAIN taken /\ taken'[i] = taken[i] /\ taken'[j] = taken[j]
        BY <2>1, <2>2, <3>1
      <4>2. (\E k \in 1..(j - 1) : taken[k] = taken[j]) \/ taken[j] \in answered \cup passed
        BY <2>2, <4>1 DEF HInv, OutOfOrderOnlyAgain, HeardTooLate
      <4>3. \A k \in 1..(j - 1) : taken'[k] = taken[k] BY <2>1, <3>1, <4>1
      <4> QED BY <1>1, <4>1, <4>2, <4>3
    <3>2. CASE ~(j <= Len(taken))
      <4>1. j - Len(taken) \in DOMAIN h /\ taken'[j] = h[j - Len(taken)] /\ taken'[j] \in H
        BY <2>1, <2>2, <3>2 DEF Range, H
      <4>2. i <= Len(taken)
        <5>1. CASE ~(i <= Len(taken))
          <6>1. i - Len(taken) \in DOMAIN h /\ taken'[i] = h[i - Len(taken)] /\ i - Len(taken) < j - Len(taken)
            BY <2>1, <2>2, <5>1
          <6>2. taken'[i] < taken'[j] BY <1>2, <4>1, <6>1 DEF Rising
          <6>3. taken'[i] \in Nat /\ taken'[j] \in Nat BY <1>2, <1>4, <4>1, <6>1
          <6> QED BY <2>2, <6>2, <6>3
        <5> QED BY <5>1
      <4>3. taken'[i] \in R /\ taken'[i] = taken[i] BY <2>1, <2>2, <4>2 DEF Range, R
      <4>4. taken'[j] \in Pending /\ taken'[j] \in DOMAIN sent /\ taken'[j] < taken'[i]
        BY <1>2, <1>4, <1>5, <1>6, <2>2, <4>1, <4>3
      <4>5. taken'[j] \in Heard BY <4>3, <4>4 DEF HInv, BeforeHeardIsHeard, R
      <4>6. taken'[j] \in R \cup answered \cup passed BY <1>6, <4>4, <4>5 DEF Heard, R
      <4>7. CASE taken'[j] \in R
        <5>1. PICK k \in 1..Len(taken) : taken[k] = taken'[j] BY <2>1, <4>7 DEF Range, R
        <5>2. k \in 1..(j - 1) /\ taken'[k] = taken'[j] BY <2>1, <2>2, <3>2, <5>1
        <5> QED BY <5>2
      <4> QED BY <1>1, <4>6, <4>7
    <3> QED BY <3>1, <3>2
  <2> QED BY <2>2 DEF OutOfOrderOnlyAgain, HeardTooLate
<1>13. RepeatsArePaidFor'
  <2>1. /\ IsFiniteSet(R) /\ Cardinality(R) \in Nat /\ IsFiniteSet(MayRepeat) /\ Cardinality(MayRepeat) \in Nat
        /\ Len(taken) \in Nat
    BY TakenIsFinite DEF HInv, IInv, R
  <2>2. IsFiniteSet(H) /\ Cardinality(H) = Len(h) /\ Len(h) \in Nat BY <1>2, RisingCardinality DEF H
  <2>3. /\ Cardinality(R \cup H) = Cardinality(R) + Cardinality(H) - Cardinality(R \cap H)
        /\ Cardinality(R \cup H) \in Nat /\ Cardinality(R \cap H) \in Nat
    BY <2>1, <2>2, FS_Union, FS_Intersection, FS_CardinalityType
  <2>4. MayRepeat' = MayRepeat \ H /\ MayRepeat \cap H = R \cap H
    <3> DEFINE ahead == {i \in Ids : i >= Frontier}
    <3>1. MayRepeat = R \cap (Pending \cup ahead) /\ MayRepeat' = (R \cup H) \cap (Pending' \cup ahead)
      BY <1>2, <1>3 DEF MayRepeat, R
    <3>2. H \cap ahead = {} /\ H \subseteq Pending BY <1>2, <1>4, <1>5, <1>6
    <3>3. H \cap Pending' = {} BY <1>2, <1>4, <1>5
    <3> HIDE DEF ahead
    <3> QED BY <1>2, <3>1, <3>2, <3>3
  <2>5. Cardinality(MayRepeat') = Cardinality(MayRepeat) - Cardinality(R \cap H) /\ Cardinality(MayRepeat') \in Nat
    <3>1. /\ IsFiniteSet(MayRepeat \ H)
          /\ Cardinality(MayRepeat \ H) = Cardinality(MayRepeat) - Cardinality(MayRepeat \cap H)
      BY <2>1, FS_Difference
    <3>2. Cardinality(MayRepeat \ H) \in Nat BY <3>1, FS_CardinalityType
    <3> QED BY <2>4, <3>1, <3>2
  <2>6. Repeated' = (Len(taken) + Len(h)) - Cardinality(R \cup H)
    <3>1. Len(taken') = Len(taken) + Len(h) BY <1>1, <1>2, <1>3
    <3> QED BY <1>3, <3>1 DEF Repeated
  <2>7. Repeated = Len(taken) - Cardinality(R) BY DEF Repeated, R
  <2>8. Repeated' + Cardinality(MayRepeat') = Repeated + Cardinality(MayRepeat)
    <3>1. Cardinality(R \cup H) = Cardinality(R) + Len(h) - Cardinality(R \cap H) BY <2>2, <2>3
    <3>2. ((Len(taken) + Len(h)) - Cardinality(R \cup H)) + Cardinality(MayRepeat')
             = (Len(taken) - Cardinality(R)) + Cardinality(MayRepeat)
      <4> DEFINE n == Len(taken)
                 k == Len(h)
                 r == Cardinality(R)
                 u == Cardinality(R \cup H)
                 i == Cardinality(R \cap H)
                 m == Cardinality(MayRepeat)
                 p == Cardinality(MayRepeat')
      <4>1. n \in Nat /\ k \in Nat /\ r \in Nat /\ u \in Nat /\ i \in Nat /\ m \in Nat /\ p \in Nat
        BY <2>1, <2>2, <2>3, <2>5
      <4>2. u = r + k - i /\ p = m - i BY <2>5, <3>1
      <4> HIDE DEF n, k, r, u, i, m, p
      <4>3. ((n + k) - u) + p = (n - r) + m BY <4>1, <4>2, TakeBalance
      <4> QED BY <4>3 DEF n, k, r, u, m, p
    <3> QED BY <2>6, <2>7, <3>2
  <2>9. Repeated + Cardinality(MayRepeat) <= Credit BY DEF HInv, RepeatsArePaidFor
  <2>10. Repeated + Cardinality(MayRepeat) \in Int BY <2>1, <2>7
  <2>11. Repeated' + Cardinality(MayRepeat') <= Credit' BY <1>2, <2>8, <2>9, <2>10
  <2> QED BY <1>2, <2>11 DEF RepeatsArePaidFor
<1>14. passed' \subseteq Ids BY <1>1 DEF HInv
<1> QED BY <1>7, <1>10, <1>11, <1>12, <1>13, <1>14 DEF HInv

LEMMA ConverseStartsHears ==
    ASSUME HInv, ConverseStarts PROVE HInv'
<1>1. IInv' /\ inbound # <<>> /\ UNCHANGED <<sent, confirmed, life, disk, group, starts, diskErrors, forwarded, passed>>
  BY ConverseStartsStep DEF HInv, ConverseStarts, pairVars
<1>2. UNCHANGED done BY <1>1 DEF done
<1>3. CASE (life = "off" /\ Done /\ Drops) \/ (life = "stopping" /\ What.kind = "text" /\ Done /\ Drops)
  BY <1>1, <1>2, <1>3, UntakenHears
<1>4. CASE life = "stopping" /\ What.kind = "command" /\ Done /\ Answers
  BY <1>1, <1>2, <1>4, UntakenHears
<1>5. CASE \/ life # "off" /\ What.kind = "part" /\ Asks("files")
           \/ life = "up" /\ What.kind = "text" /\ Asks("assistant")
           \/ life = "up" /\ What.kind = "command" /\ Asks("command")
  <2>1. UNCHANGED <<inbound, loop, taken, answered>> /\ (life = "up" \/ asking' = "files")
    BY <1>5 DEF Asks
  <2> QED BY <1>1, <2>1, AsksHears
<1> QED BY <1>3, <1>4, <1>5 DEF ConverseStarts

LEMMA FilesFetchedHears ==
    ASSUME HInv, FilesFetched PROVE HInv'
<1>1. IInv' /\ inbound # <<>> /\ UNCHANGED <<sent, confirmed, life, disk, group, starts, diskErrors, forwarded, passed>>
  BY FilesFetchedStep DEF HInv, IInv, InTypes, FilesFetched, pairVars
<1>2. UNCHANGED done BY <1>1 DEF done
<1>3. CASE Done /\ (Answers \/ (life # "up" /\ Drops)) BY <1>1, <1>2, <1>3, UntakenHears
<1>4. CASE life = "up" /\ Asks("assistant") BY <1>1, <1>4, AsksHears DEF Asks
<1> QED BY <1>3, <1>4 DEF FilesFetched

LEMMA DispatchedHears ==
    ASSUME HInv, Dispatched PROVE HInv'
<1>1. /\ IInv' /\ inbound # <<>> /\ AtAssistant /\ Done
      /\ UNCHANGED <<sent, confirmed, life, disk, group, starts, diskErrors, forwarded, passed>>
  BY DispatchedStep DEF HInv, IInv, InTypes, Dispatched, pairVars, AtAssistant
<1>2. UNCHANGED done BY <1>1 DEF done
<1> QED BY <1>1, <1>2, UntakenHears, TakenHears DEF Dispatched

LEMMA HNextStep ==
    ASSUME HInv, [Next]_vars PROVE HInv'
<1>1. CASE WriteOffset BY <1>1, WriteOffsetHears
<1>2. CASE Restart BY <1>2, RestartHears
<1>3. CASE Inbound
  <2>1. CASE \E v \in Users, what \in Kinds : Sends(v, what) BY <2>1, SendsHears
  <2>2. CASE Poll \/ TokenRejected BY <2>2, PollHears, TokenRejectedHears
  <2>3. CASE HandleOther \/ HandlePair \/ PairingAnswered
    BY <2>3, HandleOtherHears, HandlePairHears, PairingAnsweredHears
  <2>4. CASE HandlePart \/ HandleMessage \/ GroupTimer
    BY <2>4, HandlePartHears, HandleMessageHears, GroupTimerHears
  <2>5. CASE ConverseStarts \/ FilesFetched \/ Dispatched
    BY <2>5, ConverseStartsHears, FilesFetchedHears, DispatchedHears
  <2>6. CASE Repair \/ Stop \/ LoopEnds BY <2>6, RepairHears, StopHears, LoopEndsHears
  <2> QED BY <1>3, <2>1, <2>2, <2>3, <2>4, <2>5, <2>6 DEF Inbound
<1>4. CASE Assistant
  <2>1. UNCHANGED hcore BY <1>4 DEF Assistant, core, hcore, pairVars
  <2> QED BY <2>1, HFrame
<1>5. CASE Replies
  <2>1. UNCHANGED hcore BY <1>5 DEF Replies, core, hcore, inVars, countVars, pastVars
  <2> QED BY <2>1, HFrame
<1>6. CASE UNCHANGED vars
  <2>1. UNCHANGED hcore BY <1>6 DEF vars, core, hcore, inVars, countVars, pastVars
  <2> QED BY <2>1, HFrame
<1> QED BY <1>1, <1>2, <1>3, <1>4, <1>5, <1>6 DEF Next

\* What is in memory is in the order of sending, what may come again was heard or
\* nothing after it is, and each repetition is paid for (run, handle, serial,
\* writeOffset; telegram-channel.ts).
THEOREM HearingInvariance == Spec => []HInv
<1>1. Init => HInv BY HInitHolds
<1>2. HInv /\ [Next]_vars => HInv' BY HNextStep
<1> QED BY <1>1, <1>2, PTL DEF Spec

\* The assistant hears the paired user in the order of sending, but for what comes
\* again; and no more comes again than crashes and failed writes account for (serial,
\* flushGroup, writeOffset; telegram-channel.ts).
THEOREM HeardInOrderHolds == Spec => []HeardInOrder
<1>1. ASSUME HInv PROVE HeardInOrder
  <2>1. /\ IsFiniteSet(MayRepeat) /\ Cardinality(MayRepeat) \in Nat
        /\ Len(taken) \in Nat /\ Cardinality(Range(taken)) \in Nat
    BY <1>1, TakenIsFinite DEF HInv, IInv
  <2>2. /\ Frontier \in Nat /\ Again \in Nat /\ Again <= Frontier /\ starts \in Nat /\ diskErrors \in Nat
        /\ InHand => Frontier = upd + 1 /\ Again <= upd /\ upd \in Nat
    BY <1>1, Numbers, CreditIsInt DEF HInv
  <2>3. PICK h \in {0, 1} : h = IF InHand THEN 1 ELSE 0 OBVIOUS
  <2>4. h <= Frontier - Again BY <2>2, <2>3
  <2>5. (Len(taken) - Cardinality(Range(taken))) + Cardinality(MayRepeat) <= starts - 1 + diskErrors + h - (Frontier - Again)
    BY <1>1, <2>3 DEF HInv, RepeatsArePaidFor, Repeated, Credit
  <2>6. Len(taken) - Cardinality(Range(taken)) <= starts - 1 + diskErrors BY <2>1, <2>2, <2>4, <2>5
  <2> QED BY <1>1, <2>6 DEF HInv, HeardInOrder, FewHeardAgain
<1> QED BY <1>1, HearingInvariance, PTL

--------------------
(* The types of the reply half. *)

\* What the head of the chain does is settled by the chain and it.
LEMMA OpTypes ==
    /\ \A kind \in {"flush", "close", "finish", "line", "file"}, m \in 0..MaxMessages :
          Op(kind, m) \in Ops /\ Op(kind, m).kind = kind /\ Op(kind, m).msg = m
    /\ \A kind \in {"edit", "text", "mark", "error", "line", "file", "note"},
          m \in 0..MaxMessages, text \in Text : Item(kind, m, text) \in Items
    /\ {} \in Text
<1>1. 0 \in 0..MaxText BY RepliesAssumption
<1> QED BY <1>1 DEF Op, Ops, Item, Items, Text

LEMMA PartTypes ==
    ASSUME NEW m \in 0..MaxMessages, NEW kind \in {"text", "mark"},
           NEW d \in 0..MaxText, NEW n \in 0..MaxText
    PROVE  Parts(kind, m, d + 1, n) \in Seq(Items)
<1>1. /\ MaxText \in Nat /\ Limit \in Nat \ {0} /\ d \in Nat /\ n \in Nat BY RepliesAssumption
<1> DEFINE count == (n + Limit - (d + 1)) \div Limit
<1>2. count \in Int BY <1>1
<1> DEFINE piece(i) == {k \in (d + 1)..n : (k - (d + 1)) \div Limit = i - 1}
<1>3. \A i \in 1..count : piece(i) \in Text BY <1>1 DEF Text
<1>4. SplitText(d + 1, n) = [i \in 1..count |-> piece(i)] BY DEF SplitText
<1> HIDE DEF count, piece
<1>5. Parts(kind, m, d + 1, n) = [i \in 1..count |-> Item(kind, m, piece(i))] BY <1>4 DEF Parts
<1>6. Parts(kind, m, d + 1, n) \in [1..count -> Items] BY <1>3, <1>5, OpTypes
<1>7. PICK c \in Nat : 1..count = 1..c
  <2>1. CASE count \in Nat BY <2>1
  <2>2. CASE count \notin Nat
    <3>1. 1..count = {} /\ 1..0 = {} /\ 0 \in Nat BY <2>2, <1>2
    <3> QED BY <3>1
  <2> QED BY <2>1, <2>2
<1>8. [1..count -> Items] = [1..c -> Items] BY <1>7
<1>9. \A f \in [1..c -> Items] : f \in Seq(Items) OBVIOUS
<1> QED BY <1>6, <1>8, <1>9

\* What a chain is made of, and an operation that joins it behind its head.
IsChain(c) ==
    /\ c \in Seq(Ops)
    /\ \A i \in DOMAIN c : c[i].kind \in {"flush", "close", "finish"} => c[i].msg # 0

LEMMA JoinsChain ==
    ASSUME NEW c, IsChain(c), NEW o \in Ops, o.kind \in {"flush", "close", "finish"} => o.msg # 0
    PROVE  /\ IsChain(Append(c, o)) /\ Append(c, o) # <<>> /\ c \o <<o>> = Append(c, o)
           /\ c # <<>> => Head(Append(c, o)) = Head(c)
<1>1. c \in Seq(Ops) BY DEF IsChain
<1>2. /\ Append(c, o) \in Seq(Ops) /\ Len(Append(c, o)) = Len(c) + 1
      /\ \A i \in 1..Len(c) : Append(c, o)[i] = c[i]
      /\ Append(c, o)[Len(c) + 1] = o
      /\ DOMAIN c = 1..Len(c) /\ DOMAIN Append(c, o) = 1..(Len(c) + 1)
      /\ Len(c) \in Nat
  BY <1>1
<1>3. \A i \in DOMAIN Append(c, o) :
         Append(c, o)[i].kind \in {"flush", "close", "finish"} => Append(c, o)[i].msg # 0
  <2> SUFFICES ASSUME NEW i \in 1..(Len(c) + 1)
               PROVE  Append(c, o)[i].kind \in {"flush", "close", "finish"} => Append(c, o)[i].msg # 0
    BY <1>2
  <2>1. CASE i = Len(c) + 1 BY <1>2, <2>1
  <2>2. CASE i \in 1..Len(c) BY <1>2, <2>2 DEF IsChain
  <2> QED BY <1>2, <2>1, <2>2
<1>4. c # <<>> => Head(Append(c, o)) = Head(c) BY <1>1
<1>5. c \o <<o>> = Append(c, o)
  <2>1. /\ <<o>> \in Seq(Ops) /\ Len(<<o>>) = 1 /\ <<o>>[1] = o OBVIOUS
  <2>2. /\ c \o <<o>> \in Seq(Ops) /\ Len(c \o <<o>>) = Len(c) + 1
        /\ \A i \in 1..(Len(c) + 1) : (c \o <<o>>)[i] = IF i <= Len(c) THEN c[i] ELSE <<o>>[i - Len(c)]
    BY <1>1, <2>1
  <2>3. \A i \in 1..(Len(c) + 1) : (c \o <<o>>)[i] = Append(c, o)[i] BY <1>2, <2>1, <2>2
  <2> QED BY <1>2, <2>2, <2>3
<1>6. IsChain(Append(c, o)) BY <1>2, <1>3 DEF IsChain
<1>7. Append(c, o) # <<>> BY <1>2
<1> QED BY <1>4, <1>5, <1>6, <1>7

LEMMA SayInitHolds == SayInit => SayTypes
<1> SUFFICES ASSUME SayInit PROVE SayTypes OBVIOUS
<1>1. /\ 0 \in 0..MaxText /\ 0 \in 0..MaxMessages /\ 0 \in 0..MaxErrors /\ {} \in Text
  BY RepliesAssumption DEF Text
<1>2. NoStream \in Streams BY <1>1 DEF NoStream, Streams
<1>3. doing = [at |-> "idle", text |-> {}, todo |-> <<>>] /\ <<>> \in Seq(Items) /\ <<>> \in Seq(Ops)
  BY DEF SayInit, Idle
<1>4. chat \in Seq(Items \cup Previews) /\ DOMAIN chain = {} /\ chain = <<>> BY DEF SayInit
<1>5. HeadIsDoing BY <1>3 DEF HeadIsDoing
<1>6. draft = [msg |-> 0, text |-> {}] BY DEF SayInit, NoDraft
<1> QED BY <1>1, <1>2, <1>3, <1>4, <1>5, <1>6 DEF SayInit, SayTypes

\* What the assistant does changes its speech, the stream of it, what is meant to be
\* read, and the end of the chain.
LEMMA EventTypes ==
    ASSUME SayTypes, UNCHANGED <<support, doing, chat, draft, errors, seen, cut>>,
           speech' \in [msg : 0..MaxMessages, open : BOOLEAN, len : 0..MaxText],
           speech'.open => speech'.msg # 0,
           streams' \in [Messages -> Streams], listed' \in 0..MaxMessages,
           said' \in [Messages -> Text],
           IsChain(chain)', chain # <<>> => chain' # <<>> /\ Head(chain') = Head(chain)
    PROVE  SayTypes'
<1>1. HeadIsDoing' BY DEF SayTypes, HeadIsDoing
<1> QED BY <1>1 DEF SayTypes, IsChain

LEMMA SameChain ==
    ASSUME SayTypes PROVE IsChain(chain) /\ chain \o <<>> = chain
<1>1. IsChain(chain) /\ chain \in Seq(Ops) BY DEF SayTypes, IsChain
<1> QED BY <1>1

LEMMA StreamTypes ==
    ASSUME SayTypes, NEW m \in Messages
    PROVE  /\ streams[m] \in Streams /\ NoStream \in Streams /\ NewStream \in Streams
           /\ \A s \in Streams : [streams EXCEPT ![m] = s] \in [Messages -> Streams]
           /\ \A s \in Streams, n \in 0..MaxText : [s EXCEPT !.pending = n] \in Streams
           /\ \A s \in Streams, b \in BOOLEAN : /\ [s EXCEPT !.timer = b] \in Streams
                                                /\ [s EXCEPT !.flushed = b] \in Streams
                                                /\ [s EXCEPT !.drafted = b] \in Streams
           /\ \A b \in BOOLEAN : [streams EXCEPT ![m].timer = b] \in [Messages -> Streams]
           /\ m \in 0..MaxMessages /\ m # 0
<1>1. /\ streams \in [Messages -> Streams] /\ streams[m] \in Streams
      /\ \A s \in Streams : [streams EXCEPT ![m] = s] \in [Messages -> Streams]
  BY DEF SayTypes
<1>2. NoStream \in Streams /\ NewStream \in Streams
  <2>1. 0 \in 0..MaxText /\ {} \in Text BY RepliesAssumption DEF Text
  <2> QED BY <2>1 DEF NoStream, NewStream, Streams
<1>3. \A s \in Streams, n \in 0..MaxText : [s EXCEPT !.pending = n] \in Streams BY DEF Streams
<1>4. \A s \in Streams, b \in BOOLEAN : /\ [s EXCEPT !.timer = b] \in Streams
                                        /\ [s EXCEPT !.flushed = b] \in Streams
                                        /\ [s EXCEPT !.drafted = b] \in Streams
  BY DEF Streams
<1>5. \A b \in BOOLEAN : [streams EXCEPT ![m].timer = b] = [streams EXCEPT ![m] = [streams[m] EXCEPT !.timer = b]]
  BY <1>1
<1>6. m \in 0..MaxMessages /\ m # 0 BY RepliesAssumption DEF Messages
<1> QED BY <1>1, <1>2, <1>3, <1>4, <1>5, <1>6

LEMMA WritesTypes ==
    ASSUME SayTypes, NEW m \in Messages, NEW n \in 0..MaxText, Writes(m, n) PROVE SayTypes'
<1> DEFINE s == [IF listed = m THEN streams[m] ELSE NewStream EXCEPT !.pending = n]
<1>1. s \in Streams BY StreamTypes
<1>2. /\ speech' = [msg |-> m, open |-> TRUE, len |-> n] /\ listed' = m
      /\ Previewed(s, m)
      /\ UNCHANGED <<support, doing, chat, draft, errors, said, seen, cut>>
  BY DEF Writes
<1> HIDE DEF s
<1>3. m \in 0..MaxMessages /\ m # 0 /\ Op("flush", m) \in Ops /\ Op("flush", m).msg = m
  BY StreamTypes, OpTypes
<1>4. said' \in [Messages -> Text] /\ speech' \in [msg : 0..MaxMessages, open : BOOLEAN, len : 0..MaxText]
  BY <1>2, <1>3 DEF SayTypes
<1>5. CASE chain' = chain /\ streams' \in [Messages -> Streams]
  BY <1>2, <1>3, <1>4, <1>5, SameChain, EventTypes
<1>6. CASE chain' = Append(chain, Op("flush", m)) /\ streams' \in [Messages -> Streams]
  BY <1>2, <1>3, <1>4, <1>6, SameChain, JoinsChain, EventTypes
<1>7. /\ [s EXCEPT !.timer = TRUE] \in Streams /\ [s EXCEPT !.flushed = TRUE] \in Streams
  BY <1>1, StreamTypes
<1> QED BY <1>1, <1>2, <1>5, <1>6, <1>7, StreamTypes DEF Previewed

LEMMA EndsTypes ==
    ASSUME SayTypes, NEW m \in Messages, NEW n \in 0..MaxText, NEW why \in {"done", "error", "aborted"},
           Ends(m, n, why)
    PROVE  SayTypes'
<1>1. m \in 0..MaxMessages /\ m # 0 BY StreamTypes
<1> DEFINE o == [kind |-> "finish", msg |-> m, full |-> n, why |-> why]
<1>2. o \in Ops /\ o.msg # 0 BY <1>1 DEF Ops
<1>3. /\ speech' = [msg |-> m, open |-> FALSE, len |-> n] /\ listed' = 0
      /\ streams' = IF listed = m THEN [streams EXCEPT ![m].timer = FALSE] ELSE streams
      /\ chain' = Append(chain, o)
      /\ said' = [said EXCEPT ![m] = IF why = "aborted" THEN {} ELSE 1..n]
      /\ UNCHANGED <<support, doing, chat, draft, errors, seen, cut>>
  BY DEF Ends
<1> HIDE DEF o
<1>4. speech' \in [msg : 0..MaxMessages, open : BOOLEAN, len : 0..MaxText] /\ ~speech'.open
  BY <1>1, <1>3
<1>5. streams' \in [Messages -> Streams] BY <1>3, StreamTypes DEF SayTypes
<1>6. {} \in Text /\ 1..n \in Text BY RepliesAssumption DEF Text
<1>7. said' \in [Messages -> Text] /\ listed' \in 0..MaxMessages
  BY <1>3, <1>6, RepliesAssumption DEF SayTypes
<1> QED BY <1>2, <1>3, <1>4, <1>5, <1>7, SameChain, JoinsChain, EventTypes

LEMMA MessageUpdateTypes ==
    ASSUME SayTypes, MessageUpdate PROVE SayTypes'
<1>1. speech.msg \in 0..MaxMessages /\ speech.len \in 0..MaxText /\ (speech.open => speech.msg # 0)
  BY DEF SayTypes
<1>2. CASE ~speech.open /\ speech.msg < MaxMessages /\ Writes(speech.msg + 1, 1)
  <2>1. speech.msg + 1 \in Messages /\ 1 \in 0..MaxText
    BY <1>1, <1>2, RepliesAssumption DEF Messages
  <2> QED BY <1>2, <2>1, WritesTypes
<1>3. CASE speech.open /\ speech.len < MaxText /\ Writes(speech.msg, speech.len + 1)
  <2>1. speech.msg \in Messages /\ speech.len + 1 \in 0..MaxText
    BY <1>1, <1>3, RepliesAssumption DEF Messages
  <2> QED BY <1>3, <2>1, WritesTypes
<1> QED BY <1>2, <1>3 DEF MessageUpdate

LEMMA MessageEndTypes ==
    ASSUME SayTypes, NEW why \in {"done", "error", "aborted"}, MessageEnd(why) PROVE SayTypes'
<1>1. speech.msg \in 0..MaxMessages /\ speech.len \in 0..MaxText /\ (speech.open => speech.msg # 0)
  BY DEF SayTypes
<1>2. CASE ~speech.open /\ speech.msg < MaxMessages /\ Ends(speech.msg + 1, 1, why)
  <2>1. speech.msg + 1 \in Messages /\ 1 \in 0..MaxText
    BY <1>1, <1>2, RepliesAssumption DEF Messages
  <2> QED BY <1>2, <2>1, EndsTypes
<1>3. CASE speech.open /\ \E n \in {speech.len, speech.len + 1} : n <= MaxText /\ Ends(speech.msg, n, why)
  <2>1. PICK n \in {speech.len, speech.len + 1} : n <= MaxText /\ Ends(speech.msg, n, why) BY <1>3
  <2>2. speech.msg \in Messages /\ n \in 0..MaxText
    BY <1>1, <1>3, <2>1, RepliesAssumption DEF Messages
  <2> QED BY <2>1, <2>2, EndsTypes
<1> QED BY <1>2, <1>3 DEF MessageEnd

LEMMA CloseTypes ==
    ASSUME SayTypes, NEW then, CloseOpenDraft(then),
           \/ then = <<>>
           \/ \E o \in Ops : then = <<o>> /\ o.kind = "line"
    PROVE  /\ streams' \in [Messages -> Streams]
           /\ IsChain(chain)' /\ (chain # <<>> => chain' # <<>> /\ Head(chain') = Head(chain))
<1>1. IsChain(chain) /\ streams \in [Messages -> Streams] /\ listed \in 0..MaxMessages
  BY SameChain DEF SayTypes
<1>2. PICK c : /\ chain' = c \o then /\ IsChain(c)
               /\ chain # <<>> => c # <<>> /\ Head(c) = Head(chain)
               /\ streams' \in [Messages -> Streams]
  <2>1. CASE ClosesDraft
    <3>1. listed \in Messages BY <1>1, <2>1, RepliesAssumption DEF ClosesDraft, Messages
    <3>2. Op("close", listed) \in Ops /\ Op("close", listed).msg # 0 BY <3>1, OpTypes, StreamTypes
    <3>3. /\ chain' = Append(chain, Op("close", listed)) \o then
          /\ streams' = [streams EXCEPT ![listed].timer = FALSE]
      BY <2>1 DEF CloseOpenDraft
    <3>4. streams' \in [Messages -> Streams] BY <3>1, <3>3, StreamTypes
    <3>5. WITNESS Append(chain, Op("close", listed))
    <3> QED BY <1>1, <3>2, <3>3, <3>4, JoinsChain
  <2>2. CASE ~ClosesDraft BY <1>1, <2>2 DEF CloseOpenDraft
  <2> QED BY <2>1, <2>2
<1>3. CASE then = <<>>
  <2>1. c \in Seq(Ops) BY <1>2 DEF IsChain
  <2>2. c \o <<>> = c BY <2>1
  <2>3. chain' = c BY <1>2, <1>3, <2>2
  <2> QED BY <1>2, <2>3 DEF IsChain
<1>4. CASE \E o \in Ops : then = <<o>> /\ o.kind = "line"
  <2>1. PICK o \in Ops : then = <<o>> /\ o.kind = "line" BY <1>4
  <2>2. /\ IsChain(Append(c, o)) /\ Append(c, o) # <<>> /\ c \o <<o>> = Append(c, o)
        /\ c # <<>> => Head(Append(c, o)) = Head(c)
    BY <1>2, <2>1, JoinsChain
  <2>3. chain' = Append(c, o) BY <1>2, <2>1, <2>2
  <2> QED BY <1>2, <2>2, <2>3 DEF IsChain
<1> QED BY <1>3, <1>4

LEMMA ToolStartsTypes ==
    ASSUME SayTypes, ToolStarts PROVE SayTypes'
<1>1. /\ CloseOpenDraft(<<Op("line", speech.msg)>>)
      /\ UNCHANGED <<speech, listed, support, doing, chat, draft, errors, said, seen, cut>>
  BY DEF ToolStarts
<1>2. Op("line", speech.msg) \in Ops /\ Op("line", speech.msg).kind = "line" BY OpTypes DEF SayTypes
<1>3. /\ streams' \in [Messages -> Streams]
      /\ IsChain(chain)' /\ (chain # <<>> => chain' # <<>> /\ Head(chain') = Head(chain))
  BY <1>1, <1>2, CloseTypes
<1> QED BY <1>1, <1>3, EventTypes DEF SayTypes

LEMMA TurnEndsTypes ==
    ASSUME SayTypes, TurnEnds PROVE SayTypes'
<1>1. /\ CloseOpenDraft(<<>>)
      /\ UNCHANGED <<speech, listed, support, doing, chat, draft, errors, said, seen, cut>>
  BY DEF TurnEnds
<1>2. /\ streams' \in [Messages -> Streams]
      /\ IsChain(chain)' /\ (chain # <<>> => chain' # <<>> /\ Head(chain') = Head(chain))
  BY <1>1, CloseTypes
<1> QED BY <1>1, <1>2, EventTypes DEF SayTypes

LEMMA FileAttachedTypes ==
    ASSUME SayTypes, FileAttached PROVE SayTypes'
<1>1. Op("file", speech.msg) \in Ops /\ Op("file", speech.msg).kind = "file" BY OpTypes DEF SayTypes
<1>2. /\ IsChain(chain)' /\ (chain # <<>> => chain' # <<>> /\ Head(chain') = Head(chain))
  BY <1>1, SameChain, JoinsChain DEF FileAttached
<1> QED BY <1>2, EventTypes DEF SayTypes, FileAttached

LEMMA ThrottleEndsTypes ==
    ASSUME SayTypes, NEW m \in Messages, ThrottleEnds(m) PROVE SayTypes'
<1>1. Op("flush", m) \in Ops /\ Op("flush", m).msg # 0 BY OpTypes, StreamTypes
<1>2. /\ IsChain(chain)' /\ (chain # <<>> => chain' # <<>> /\ Head(chain') = Head(chain))
  BY <1>1, SameChain, JoinsChain DEF ThrottleEnds
<1>3. streams' \in [Messages -> Streams] BY StreamTypes DEF ThrottleEnds
<1> QED BY <1>2, <1>3, EventTypes DEF SayTypes, ThrottleEnds

LEMMA HeadTypes ==
    ASSUME SayTypes, chain # <<>>
    PROVE  /\ Head(chain) \in Ops /\ HeadMsg \in 0..MaxMessages /\ Head(chain).msg = HeadMsg
           /\ Head(chain).kind \in {"flush", "close", "finish"} => HeadMsg \in Messages
           /\ Head(chain).full \in 0..MaxText
           /\ IsChain(Tail(chain))
<1>1. chain \in Seq(Ops) /\ IsChain(chain) BY SameChain DEF IsChain
<1>2. Head(chain) \in Ops /\ Head(chain) = chain[1] /\ 1 \in DOMAIN chain BY <1>1
<1>3. Head(chain).msg \in 0..MaxMessages /\ Head(chain).full \in 0..MaxText BY <1>2 DEF Ops
<1>4. Head(chain).kind \in {"flush", "close", "finish"} => Head(chain).msg # 0
  BY <1>1, <1>2 DEF IsChain
<1>5. Head(chain).kind \in {"flush", "close", "finish"} => HeadMsg \in Messages
  BY <1>3, <1>4, RepliesAssumption DEF HeadMsg, Messages
<1>6. /\ Tail(chain) \in Seq(Ops) /\ Len(chain) \in Nat \ {0} /\ DOMAIN chain = 1..Len(chain)
      /\ DOMAIN Tail(chain) = 1..(Len(chain) - 1)
      /\ \A i \in 1..(Len(chain) - 1) : Tail(chain)[i] = chain[i + 1]
  BY <1>1
<1>7. IsChain(Tail(chain))
  <2>1. \A i \in 1..(Len(chain) - 1) : i + 1 \in DOMAIN chain BY <1>6
  <2> QED BY <1>1, <1>6, <2>1 DEF IsChain
<1> QED BY <1>2, <1>3, <1>5, <1>7 DEF HeadMsg

Doings == [at : {"idle", "draft", "preview", "edit", "close", "send", "photo", "document"},
           text : Text, todo : Seq(Items)]

LEMMA OverTypes ==
    ASSUME SayTypes, chain # <<>>, Over
    PROVE  IsChain(chain)' /\ doing' \in Doings /\ HeadIsDoing'
<1>1. IsChain(chain)' BY HeadTypes DEF Over, IsChain
<1>2. doing' = [at |-> "idle", text |-> {}, todo |-> <<>>] /\ <<>> \in Seq(Items) BY DEF Over, Idle
<1>3. doing' \in Doings BY <1>2, OpTypes DEF Doings
<1> QED BY <1>1, <1>2, <1>3 DEF HeadIsDoing

LEMMA CallsTypes ==
    ASSUME SayTypes, chain # <<>>,
           NEW at \in {"draft", "preview", "edit", "close", "send", "photo", "document"},
           NEW text \in Text, NEW todo \in Seq(Items), Calls(at, text, todo),
           at \in {"draft", "preview", "edit"} => Head(chain).kind = "flush",
           at = "close" => Head(chain).kind = "close",
           at \in {"close", "send", "photo", "document"} => todo # <<>>
    PROVE  IsChain(chain)' /\ doing' \in Doings /\ HeadIsDoing'
<1>1. doing' = [at |-> at, text |-> text, todo |-> todo] /\ chain' = chain BY DEF Calls
<1>2. doing' \in Doings BY <1>1 DEF Doings
<1> QED BY <1>1, <1>2, SameChain DEF HeadIsDoing, IsChain

\* A step of the chain changes its operations, the streams and what is set aside.
LEMMA ChainTypes ==
    ASSUME SayTypes, UNCHANGED <<speech, listed, said>>,
           IsChain(chain)', doing' \in Doings, HeadIsDoing',
           streams' \in [Messages -> Streams], support' \in {"unknown", "supported", "unsupported"},
           chat' \in Seq(Items \cup Previews), draft' \in [msg : 0..MaxMessages, text : Text],
           errors' \in 0..MaxErrors, seen' \in [Messages -> Text], cut' \subseteq 0..MaxMessages
    PROVE  SayTypes'
BY DEF SayTypes, IsChain, Doings

LEMMA OneItem ==
    ASSUME NEW i \in Items PROVE <<i>> \in Seq(Items) /\ <<i>> # <<>>
OBVIOUS

LEMMA StartFlushTypes ==
    ASSUME SayTypes, chain # <<>>, Head(chain).kind = "flush", StartFlush(HeadMsg)
    PROVE  IsChain(chain)' /\ doing' \in Doings /\ HeadIsDoing' /\ streams' \in [Messages -> Streams]
<1> DEFINE m == HeadMsg
           s == streams[m]
           text == Truncate(s, s.pending)
<1>1. m \in Messages /\ streams \in [Messages -> Streams] /\ s \in Streams
  BY HeadTypes, StreamTypes DEF SayTypes
<1>2. text \in Text
  <2>1. s.delivered \in 0..MaxText /\ s.pending \in 0..MaxText BY <1>1 DEF Streams
  <2> QED BY <2>1, RepliesAssumption DEF Truncate, AfterDelivered, Text
<1>3. CASE Over /\ UNCHANGED streams BY <1>1, <1>3, OverTypes
<1>4. <<>> \in Seq(Items) OBVIOUS
<1>5. CASE streams' = [streams EXCEPT ![m].drafted = TRUE] /\ Calls("draft", text, <<>>)
  <2>1. streams' = [streams EXCEPT ![m] = [s EXCEPT !.drafted = TRUE]] BY <1>1, <1>5
  <2>2. streams' \in [Messages -> Streams] BY <1>1, <2>1, StreamTypes
  <2> HIDE DEF text
  <2> QED BY <1>2, <1>4, <1>5, <2>2, CallsTypes
<1>6. CASE streams' = [streams EXCEPT ![m].mode = "message"] /\ Calls(IF s.posted THEN "edit" ELSE "preview", text, <<>>)
  <2>1. streams' = [streams EXCEPT ![m] = [s EXCEPT !.mode = "message"]] BY <1>1, <1>6
  <2>2. [s EXCEPT !.mode = "message"] \in Streams BY <1>1 DEF Streams
  <2>3. streams' \in [Messages -> Streams] BY <1>1, <2>1, <2>2
  <2>4. PICK at \in {"edit", "preview"} : Calls(at, text, <<>>) BY <1>6
  <2> HIDE DEF text
  <2> QED BY <1>2, <1>4, <2>3, <2>4, CallsTypes
<1> QED BY <1>3, <1>5, <1>6 DEF StartFlush

LEMMA ClosedTypes ==
    ASSUME NEW s \in Streams PROVE Closed(s) \in Streams
BY OpTypes DEF Closed, Streams

LEMMA StartCloseTypes ==
    ASSUME SayTypes, chain # <<>>, Head(chain).kind = "close", StartClose(HeadMsg)
    PROVE  IsChain(chain)' /\ doing' \in Doings /\ HeadIsDoing' /\ streams' \in [Messages -> Streams]
<1> DEFINE m == HeadMsg
           s == streams[m]
           parts == Parts("text", m, s.delivered + 1, s.pending)
<1>1. m \in Messages /\ streams \in [Messages -> Streams] /\ s \in Streams /\ m \in 0..MaxMessages
  BY HeadTypes, StreamTypes DEF SayTypes
<1>2. s.delivered \in 0..MaxText /\ s.pending \in 0..MaxText BY <1>1 DEF Streams
<1>3. parts \in Seq(Items) BY <1>1, <1>2, PartTypes
<1> HIDE DEF parts
<1>4. CASE Over /\ UNCHANGED streams BY <1>1, <1>4, OverTypes
<1>5. CASE Over /\ streams' = [streams EXCEPT ![m] = Closed(s)]
  BY <1>1, <1>5, OverTypes, ClosedTypes
<1>6. CASE parts # <<>> /\ Calls("close", {}, parts) /\ UNCHANGED streams
  BY <1>1, <1>3, <1>6, CallsTypes, OpTypes
<1> QED BY <1>4, <1>5, <1>6 DEF StartClose, parts

LEMMA FinalTypes ==
    ASSUME SayTypes, NEW o \in Ops, o.msg \in Messages
    PROVE  Marked(streams[o.msg], o) \in Seq(Items) /\ Final(streams[o.msg], o) \in Seq(Items)
<1> DEFINE s == streams[o.msg]
           parts == Parts("text", o.msg, s.delivered + 1, o.full)
<1>1. /\ s \in Streams /\ s.delivered \in 0..MaxText /\ o.full \in 0..MaxText /\ o.msg \in 0..MaxMessages
  BY StreamTypes DEF Streams, Ops
<1>2. parts \in Seq(Items) /\ Parts("mark", o.msg, s.delivered + 1, o.full) \in Seq(Items) /\ <<>> \in Seq(Items)
  <2>1. \A kind \in {"text", "mark"} : Parts(kind, o.msg, s.delivered + 1, o.full) \in Seq(Items)
    BY <1>1, PartTypes
  <2> QED BY <2>1
<1> HIDE DEF parts
<1>3. Marked(s, o) \in Seq(Items) BY <1>2 DEF Marked
<1>4. parts # <<>> => Tail(parts) \in Seq(Items) /\ parts[1] \in Items BY <1>2
<1>5. parts # <<>> => parts[1].text \in Text BY <1>4 DEF Items
<1>6. parts # <<>> => <<Item("edit", o.msg, parts[1].text)>> \in Seq(Items)
  <2>1. parts # <<>> => Item("edit", o.msg, parts[1].text) \in Items BY <1>1, <1>5, OpTypes
  <2> QED BY <2>1, OneItem
<1>7. parts # <<>> => <<Item("edit", o.msg, parts[1].text)>> \o Tail(parts) \in Seq(Items)
  BY <1>4, <1>6
<1>8. Final(s, o) \in Seq(Items) BY <1>2, <1>4, <1>7 DEF Final, parts
<1> QED BY <1>3, <1>8

LEMMA StartFinishTypes ==
    ASSUME SayTypes, chain # <<>>, Head(chain).kind = "finish", StartFinish(Head(chain))
    PROVE  IsChain(chain)' /\ doing' \in Doings /\ HeadIsDoing' /\ streams' \in [Messages -> Streams]
<1> DEFINE o == Head(chain)
           s == streams[o.msg]
           todo == IF o.why = "aborted" THEN Marked(s, o)
                   ELSE Final(s, o) \o IF o.why = "error" THEN <<Item("error", o.msg, {})>> ELSE <<>>
<1>1. o \in Ops /\ o.msg \in Messages /\ o.msg \in 0..MaxMessages BY HeadTypes
<1>2. Marked(s, o) \in Seq(Items) /\ Final(s, o) \in Seq(Items) BY <1>1, FinalTypes
<1>3. <<Item("error", o.msg, {})>> \in Seq(Items) /\ <<>> \in Seq(Items)
  <2>1. Item("error", o.msg, {}) \in Items BY <1>1, OpTypes
  <2> QED BY <2>1, OneItem
<1>4. (IF o.why = "error" THEN <<Item("error", o.msg, {})>> ELSE <<>>) \in Seq(Items) BY <1>3
<1>5. todo \in Seq(Items)
  <2>1. \A a, b \in Seq(Items) : a \o b \in Seq(Items) OBVIOUS
  <2> QED BY <1>2, <1>4, <2>1
<1>6. UNCHANGED streams /\ IF todo = <<>> THEN Over ELSE Calls("send", {}, todo) BY DEF StartFinish
<1>7. streams' \in [Messages -> Streams] BY <1>6 DEF SayTypes
<1> HIDE DEF todo
<1> QED BY <1>5, <1>6, <1>7, OverTypes, CallsTypes, OpTypes

LEMMA StartFileTypes ==
    ASSUME SayTypes, chain # <<>>, StartFile(HeadMsg)
    PROVE  IsChain(chain)' /\ doing' \in Doings /\ HeadIsDoing' /\ streams' \in [Messages -> Streams]
<1>1. HeadMsg \in 0..MaxMessages /\ {} \in Text BY HeadTypes, OpTypes
<1>2. Item("note", HeadMsg, {}) \in Items /\ Item("file", HeadMsg, {}) \in Items BY <1>1, OpTypes
<1>3. /\ <<Item("note", HeadMsg, {})>> \in Seq(Items) /\ <<Item("note", HeadMsg, {})>> # <<>>
      /\ <<Item("file", HeadMsg, {})>> \in Seq(Items) /\ <<Item("file", HeadMsg, {})>> # <<>>
  BY <1>2, OneItem
<1>4. streams' \in [Messages -> Streams] BY DEF StartFile, SayTypes
<1> QED BY <1>1, <1>3, <1>4, CallsTypes DEF StartFile

LEMMA StartsTypes ==
    ASSUME SayTypes, NEW r \in BOOLEAN, Starts(r) PROVE SayTypes'
<1>1. /\ chain # <<>> /\ UNCHANGED <<speech, listed, support, chat, draft, errors, said, seen>>
  BY DEF Starts
<1>2. Head(chain).msg = HeadMsg /\ HeadMsg \in 0..MaxMessages /\ Head(chain) \in Ops
  BY <1>1, HeadTypes
<1>3. cut' \subseteq 0..MaxMessages BY <1>1, <1>2 DEF Starts, Loses, SayTypes
<1>4. IsChain(chain)' /\ doing' \in Doings /\ HeadIsDoing' /\ streams' \in [Messages -> Streams]
  <2>1. CASE ~r
    <3>1. Over /\ UNCHANGED streams BY <2>1 DEF Starts
    <3> QED BY <1>1, <3>1, OverTypes DEF SayTypes
  <2>2. CASE r
    <3>1. Head(chain).kind \in {"flush", "close", "finish", "line", "file"} BY <1>2 DEF Ops
    <3>2. CASE Head(chain).kind = "flush" BY <1>1, <1>2, <2>2, <3>2, StartFlushTypes DEF Starts
    <3>3. CASE Head(chain).kind = "close" BY <1>1, <1>2, <2>2, <3>3, StartCloseTypes DEF Starts
    <3>4. CASE Head(chain).kind = "finish" BY <1>1, <1>2, <2>2, <3>4, StartFinishTypes DEF Starts
    <3>5. CASE Head(chain).kind = "line"
      <4>1. Calls("send", {}, <<Item("line", HeadMsg, {})>>) /\ UNCHANGED streams
        BY <1>2, <2>2, <3>5 DEF Starts
      <4>2. <<Item("line", HeadMsg, {})>> \in Seq(Items) /\ <<Item("line", HeadMsg, {})>> # <<>> /\ {} \in Text
        BY <1>2, OpTypes, OneItem
      <4> QED BY <1>1, <4>1, <4>2, CallsTypes DEF SayTypes
    <3>6. CASE Head(chain).kind = "file" BY <1>1, <1>2, <2>2, <3>6, StartFileTypes DEF Starts
    <3> QED BY <3>1, <3>2, <3>3, <3>4, <3>5, <3>6
  <2> QED BY <2>1, <2>2
<1> QED BY <1>1, <1>3, <1>4, ChainTypes DEF SayTypes

\* The effect of a call on the chat.
LEMMA EditedTypes ==
    ASSUME SayTypes, NEW m, NEW text \in Text, Edited(m, text)
    PROVE  chat' \in Seq(Items \cup Previews) /\ draft' = draft
<1> DEFINE new(i) == IF chat[i].msg = m /\ chat[i].kind = "preview" THEN [chat[i] EXCEPT !.text = text] ELSE chat[i]
<1>1. /\ chat \in Seq(Items \cup Previews) /\ Len(chat) \in Nat /\ DOMAIN chat = 1..Len(chat)
      /\ \A i \in 1..Len(chat) : chat[i] \in Items \cup Previews
  BY DEF SayTypes
<1>2. \A e \in Items \cup Previews : [e EXCEPT !.text = text] \in Items \cup Previews
  BY DEF Items, Previews
<1>3. \A i \in 1..Len(chat) : new(i) \in Items \cup Previews BY <1>1, <1>2
<1>4. chat' = [i \in 1..Len(chat) |-> new(i)] /\ draft' = draft BY <1>1 DEF Edited
<1> HIDE DEF new
<1> QED BY <1>1, <1>3, <1>4

LEMMA PostedTypes ==
    ASSUME SayTypes, NEW item \in Items \cup Previews, Posted(item)
    PROVE  chat' \in Seq(Items \cup Previews) /\ draft' \in [msg : 0..MaxMessages, text : Text]
<1>1. chat' = Append(chat, item) /\ draft' = [msg |-> 0, text |-> {}] BY DEF Posted, NoDraft
<1>2. 0 \in 0..MaxMessages /\ {} \in Text BY OpTypes, RepliesAssumption
<1> QED BY <1>1, <1>2 DEF SayTypes

LEMMA EffectTypes ==
    ASSUME SayTypes, doing.at # "idle", TakesEffect
    PROVE  /\ chat' \in Seq(Items \cup Previews) /\ draft' \in [msg : 0..MaxMessages, text : Text]
           /\ seen' \in [Messages -> Text]
<1>1. /\ chain # <<>> /\ doing \in Doings /\ HeadIsDoing
      /\ chat \in Seq(Items \cup Previews) /\ draft \in [msg : 0..MaxMessages, text : Text]
      /\ seen \in [Messages -> Text]
  BY DEF SayTypes, HeadIsDoing, Doings
<1>2. HeadMsg \in 0..MaxMessages /\ doing.text \in Text /\ doing.todo \in Seq(Items)
  BY <1>1, HeadTypes DEF Doings
<1>3. doing.at \in {"draft", "preview", "edit"} => HeadMsg \in Messages
  BY <1>1, HeadTypes DEF HeadIsDoing
<1>4. CASE doing.at = "draft"
  <2>1. draft' = [msg |-> HeadMsg, text |-> doing.text] /\ chat' = chat
        /\ seen' = [seen EXCEPT ![HeadMsg] = @ \cup doing.text]
    BY <1>4 DEF TakesEffect, Drafted
  <2>2. seen[HeadMsg] \cup doing.text \in Text BY <1>1, <1>2, <1>3, <1>4 DEF Text
  <2> QED BY <1>1, <1>2, <2>1, <2>2
<1>5. CASE doing.at = "preview"
  <2>1. Posted(Item("preview", HeadMsg, doing.text)) /\ seen' = seen BY <1>5 DEF TakesEffect
  <2>2. Item("preview", HeadMsg, doing.text) \in Previews BY <1>2, <1>3, <1>5 DEF Item, Previews
  <2> QED BY <1>1, <2>1, <2>2, PostedTypes
<1>6. CASE doing.at = "edit"
  <2>1. Edited(HeadMsg, doing.text) /\ seen' = seen BY <1>6 DEF TakesEffect
  <2> QED BY <1>1, <1>2, <1>3, <1>6, <2>1, EditedTypes
<1>7. CASE doing.at \notin {"draft", "preview", "edit"}
  <2>1. doing.todo # <<>> BY <1>1, <1>7 DEF HeadIsDoing, Doings
  <2>2. Head(doing.todo) \in Items BY <1>2, <2>1
  <2>3. /\ IF Head(doing.todo).kind = "edit"
           THEN Edited(HeadMsg, Head(doing.todo).text) ELSE Posted(Head(doing.todo))
        /\ seen' = seen
    BY <1>7 DEF TakesEffect
  <2>4. CASE Head(doing.todo).kind = "edit"
    <3>1. Head(doing.todo).text \in Text BY <2>2 DEF Items
    <3>2. Edited(HeadMsg, Head(doing.todo).text) BY <2>3, <2>4
    <3> QED BY <1>1, <2>3, <3>1, <3>2, EditedTypes
  <2> QED BY <1>1, <2>2, <2>3, <2>4, PostedTypes
<1> QED BY <1>4, <1>5, <1>6, <1>7

LEMMA MoreOrLast ==
    ASSUME NEW S, NEW q \in Seq(S), q # <<>>
    PROVE  /\ Len(q) > 1 \/ Len(q) = 1
           /\ Tail(q) \in Seq(S)
           /\ Len(q) > 1 => Tail(q) # <<>> /\ Len(q) # 1
<1>1. PICK n \in Nat : n = Len(q) OBVIOUS
<1>2. n # 0 /\ Tail(q) \in Seq(S) /\ Len(Tail(q)) = n - 1 BY <1>1
<1>3. \A t : Len(t) # 0 => t # <<>> OBVIOUS
<1>4. ASSUME n > 1 PROVE Tail(q) # <<>>
  <2>1. n - 1 # 0 BY <1>4
  <2> QED BY <2>1, <1>2, <1>3
<1>5. n > 1 \/ n = 1 BY <1>2
<1>6. n > 1 => n # 1 OBVIOUS
<1> QED BY <1>1, <1>2, <1>4, <1>5, <1>6

LEMMA AnsweredTypes ==
    ASSUME SayTypes, Answered PROVE SayTypes'
<1>1. /\ doing.at # "idle" /\ TakesEffect /\ UNCHANGED <<speech, listed, errors, said>>
      /\ support' = IF doing.at = "draft" THEN "supported" ELSE support
  BY DEF Answered
<1>2. /\ chain # <<>> /\ doing \in Doings /\ HeadIsDoing /\ streams \in [Messages -> Streams]
      /\ IsChain(chain)
  BY <1>1, SameChain DEF SayTypes, HeadIsDoing, Doings
<1>3. /\ HeadMsg \in 0..MaxMessages /\ doing.text \in Text /\ doing.todo \in Seq(Items)
      /\ doing.at \in {"draft", "preview", "edit", "close"} => HeadMsg \in Messages
  BY <1>2, HeadTypes DEF Doings, HeadIsDoing
<1>7. /\ doing.at \in {"draft", "preview", "edit", "close", "send", "photo", "document"}
      /\ doing.at \notin {"draft", "preview", "edit"} => doing.todo # <<>>
  BY <1>1, <1>2 DEF Doings, HeadIsDoing
<1>8. doing.at \notin {"draft", "preview", "edit"} =>
          /\ Len(doing.todo) > 1 \/ Len(doing.todo) = 1
          /\ Tail(doing.todo) \in Seq(Items)
          /\ Len(doing.todo) > 1 => Tail(doing.todo) # <<>> /\ Len(doing.todo) # 1
  <2>1. CASE doing.at \notin {"draft", "preview", "edit"} BY <1>3, <1>7, <2>1, MoreOrLast
  <2> QED BY <2>1
<1>4. cut' \subseteq 0..MaxMessages
  <2>1. cut' = cut \/ cut' = cut \cup {HeadMsg} BY <1>7, <1>8 DEF Answered, Loses
  <2> QED BY <1>3, <2>1 DEF SayTypes
<1>5. IsChain(chain)' /\ doing' \in Doings /\ HeadIsDoing' /\ streams' \in [Messages -> Streams]
  <2>1. CASE doing.at \in {"draft", "preview", "edit"}
    <3>1. Over /\ streams' = [streams EXCEPT ![HeadMsg] = Flushed(@)] BY <2>1 DEF Answered
    <3>2. HeadMsg \in Messages /\ streams[HeadMsg] \in Streams BY <1>2, <1>3, <2>1
    <3>3. Flushed(streams[HeadMsg]) \in Streams BY <1>3, <3>2 DEF Flushed, Streams
    <3> QED BY <1>2, <3>1, <3>2, <3>3, OverTypes
  <2>2. CASE doing.at \notin {"draft", "preview", "edit"} /\ Len(doing.todo) > 1
    <3>1. doing' = [doing EXCEPT !.todo = Tail(@)] /\ UNCHANGED <<chain, streams>>
      BY <1>7, <1>8, <2>2 DEF Answered
    <3>2. Tail(doing.todo) \in Seq(Items) /\ Tail(doing.todo) # <<>> BY <1>8, <2>2
    <3>3. doing' \in Doings /\ doing'.at = doing.at /\ doing'.todo # <<>>
      BY <1>2, <3>1, <3>2 DEF Doings
    <3> QED BY <1>2, <3>1, <3>3 DEF HeadIsDoing, IsChain
  <2>3. CASE doing.at = "close" /\ Len(doing.todo) = 1
    <3>1. Over /\ streams' = [streams EXCEPT ![HeadMsg] = Closed(@)] BY <2>3 DEF Answered
    <3>2. HeadMsg \in Messages /\ streams[HeadMsg] \in Streams BY <1>2, <1>3, <2>3
    <3> QED BY <1>2, <3>1, <3>2, OverTypes, ClosedTypes
  <2>4. CASE doing.at \in {"send", "photo", "document"} /\ Len(doing.todo) = 1
    <3>1. Over /\ UNCHANGED streams BY <1>8, <2>4 DEF Answered
    <3> QED BY <1>2, <3>1, OverTypes
  <2> QED BY <1>7, <1>8, <2>1, <2>2, <2>3, <2>4
<1>6. support' \in {"unknown", "supported", "unsupported"} /\ errors' \in 0..MaxErrors
  BY <1>1 DEF SayTypes
<1> QED BY <1>1, <1>4, <1>5, <1>6, EffectTypes, ChainTypes

LEMMA FailsTypes ==
    ASSUME SayTypes, Fails PROVE SayTypes'
<1>1. /\ doing.at # "idle" /\ errors < MaxErrors /\ errors' = errors + 1
      /\ TakesEffect \/ UNCHANGED <<chat, draft, seen>>
      /\ support' = IF doing.at = "draft" THEN "unsupported" ELSE support
      /\ UNCHANGED <<speech, listed, said>>
  BY DEF Fails
<1>2. /\ chain # <<>> /\ doing \in Doings /\ HeadIsDoing /\ streams \in [Messages -> Streams]
      /\ IsChain(chain)
  BY <1>1, SameChain DEF SayTypes, HeadIsDoing, Doings
<1>3. /\ HeadMsg \in 0..MaxMessages /\ doing.text \in Text /\ doing.todo \in Seq(Items) /\ <<>> \in Seq(Items)
      /\ doing.at = "draft" => HeadMsg \in Messages
  BY <1>2, HeadTypes DEF Doings, HeadIsDoing
<1>4. cut' \subseteq 0..MaxMessages
  <2>1. cut' = cut \/ cut' = cut \cup {HeadMsg} BY <1>1, <1>2 DEF Fails, Loses, Doings
  <2> QED BY <1>3, <2>1 DEF SayTypes
<1>5. IsChain(chain)' /\ doing' \in Doings /\ HeadIsDoing' /\ streams' \in [Messages -> Streams]
  <2>1. CASE doing.at = "draft"
    <3>1. PICK at \in {"edit", "preview"} : Calls(at, doing.text, <<>>) BY <2>1 DEF Fails
    <3>2. streams' = [streams EXCEPT ![HeadMsg].mode = "message", ![HeadMsg].drafted = FALSE]
      BY <2>1 DEF Fails
    <3>3. HeadMsg \in Messages /\ streams[HeadMsg] \in Streams BY <1>2, <1>3, <2>1
    <3>4. streams' = [streams EXCEPT ![HeadMsg] = [streams[HeadMsg] EXCEPT !.mode = "message", !.drafted = FALSE]]
      BY <1>2, <3>2, <3>3
    <3>5. [streams[HeadMsg] EXCEPT !.mode = "message", !.drafted = FALSE] \in Streams
      BY <3>3 DEF Streams
    <3>6. Head(chain).kind = "flush" BY <1>2, <2>1 DEF HeadIsDoing
    <3> QED BY <1>2, <1>3, <3>1, <3>3, <3>4, <3>5, <3>6, CallsTypes
  <2>2. CASE doing.at = "photo"
    <3>1. Calls("document", {}, doing.todo) /\ UNCHANGED streams BY <2>2 DEF Fails
    <3>2. doing.todo # <<>> BY <1>2, <2>2 DEF HeadIsDoing
    <3> QED BY <1>2, <1>3, <3>1, <3>2, OpTypes, CallsTypes
  <2>3. CASE doing.at = "document"
    <3>1. Calls("send", {}, <<Item("note", HeadMsg, {})>>) /\ UNCHANGED streams BY <2>3 DEF Fails
    <3>2. Item("note", HeadMsg, {}) \in Items /\ {} \in Text BY <1>3, OpTypes
    <3> QED BY <1>2, <1>3, <3>1, <3>2, OneItem, CallsTypes
  <2>4. CASE doing.at \in {"edit", "preview", "close", "send"}
    <3>1. Over /\ UNCHANGED streams BY <2>4 DEF Fails
    <3> QED BY <1>2, <3>1, OverTypes
  <2> QED BY <1>1, <1>2, <2>1, <2>2, <2>3, <2>4 DEF Doings
<1>6. support' \in {"unknown", "supported", "unsupported"} /\ errors' \in 0..MaxErrors
  BY <1>1, RepliesAssumption DEF SayTypes
<1>7. /\ chat' \in Seq(Items \cup Previews) /\ draft' \in [msg : 0..MaxMessages, text : Text]
      /\ seen' \in [Messages -> Text]
  BY <1>1, EffectTypes DEF SayTypes
<1> QED BY <1>1, <1>4, <1>5, <1>6, <1>7, ChainTypes

LEMMA StopRepliesTypes ==
    ASSUME SayTypes, StopReplies PROVE SayTypes'
<1>1. \A m \in Messages : [streams[m] EXCEPT !.timer = FALSE] \in Streams BY StreamTypes
<1>2. streams' \in [Messages -> Streams] BY <1>1 DEF StopReplies
<1>3. /\ listed' = 0 /\ 0 \in 0..MaxMessages
      /\ speech' = [speech EXCEPT !.open = FALSE]
  BY RepliesAssumption DEF StopReplies
<1>4. speech' \in [msg : 0..MaxMessages, open : BOOLEAN, len : 0..MaxText] /\ ~speech'.open
  BY <1>3 DEF SayTypes
<1>5. cut' \subseteq 0..MaxMessages BY DEF StopReplies, SayTypes
<1>6. HeadIsDoing' BY DEF StopReplies, SayTypes, HeadIsDoing
<1> QED BY <1>2, <1>3, <1>4, <1>5, <1>6 DEF StopReplies, SayTypes

LEMMA ChainMessages ==
    ASSUME SayTypes PROVE {chain[i].msg : i \in DOMAIN chain} \subseteq 0..MaxMessages /\ speech.msg \in 0..MaxMessages
<1>1. \A i \in DOMAIN chain : chain[i] \in Ops BY DEF SayTypes
<1> QED BY <1>1 DEF Ops, SayTypes

LEMMA ForgetRepliesTypes ==
    ASSUME SayTypes, ForgetReplies PROVE SayTypes'
<1>1. streams' \in [Messages -> Streams]
  <2>1. NoStream \in Streams BY OpTypes, RepliesAssumption DEF NoStream, Streams
  <2> QED BY <2>1 DEF ForgetReplies
<1>2. /\ listed' = 0 /\ 0 \in 0..MaxMessages
      /\ speech' = [speech EXCEPT !.open = FALSE]
  BY RepliesAssumption DEF ForgetReplies
<1>3. speech' \in [msg : 0..MaxMessages, open : BOOLEAN, len : 0..MaxText] /\ ~speech'.open
  BY <1>2 DEF SayTypes
<1>4. cut' \subseteq 0..MaxMessages BY ChainMessages DEF ForgetReplies, SayTypes
<1>5. /\ chain' = <<>> /\ <<>> \in Seq(Ops) /\ DOMAIN <<>> = {} /\ <<>> \in Seq(Items)
      /\ doing' = [at |-> "idle", text |-> {}, todo |-> <<>>]
  BY DEF ForgetReplies, Idle
<1>6. HeadIsDoing' BY <1>5 DEF HeadIsDoing
<1> QED BY <1>1, <1>2, <1>3, <1>4, <1>5, <1>6, OpTypes DEF ForgetReplies, SayTypes

LEMMA SayFrame ==
    ASSUME SayTypes, UNCHANGED <<speech, streams, listed, support, chain, doing, chat, draft, errors, said, seen>>,
           cut' \subseteq 0..MaxMessages
    PROVE  SayTypes'
<1>1. HeadIsDoing' BY DEF SayTypes, HeadIsDoing
<1> QED BY <1>1 DEF SayTypes

LEMMA SayNextStep ==
    ASSUME SayTypes, [Next]_vars PROVE SayTypes'
<1> USE DEF sayVars
<1>1. CASE UNCHANGED sayVars BY <1>1, SayFrame DEF SayTypes
<1>2. CASE WriteOffset BY <1>1, <1>2 DEF WriteOffset
<1>3. CASE Restart BY <1>3, ForgetRepliesTypes DEF Restart
<1>4. CASE Inbound
  <2>1. CASE Repair
    <3>1. cut' \subseteq 0..MaxMessages BY <2>1, ChainMessages DEF Repair, Unfinished, SayTypes
    <3> QED BY <2>1, <3>1, SayFrame DEF Repair
  <2>2. CASE Stop BY <2>2, StopRepliesTypes DEF Stop
  <2>3. CASE ~Repair /\ ~Stop
    BY <1>1, <1>4, <2>3 DEF Inbound, Sends, Poll, TokenRejected, HandleOther, HandlePair, PairingAnswered,
       HandlePart, HandleMessage, GroupTimer, ConverseStarts, FilesFetched, Dispatched, LoopEnds
  <2> QED BY <2>1, <2>2, <2>3
<1>5. CASE Assistant
  BY <1>5, MessageUpdateTypes, ToolStartsTypes, TurnEndsTypes, FileAttachedTypes, MessageEndTypes DEF Assistant
<1>6. CASE Replies
  BY <1>6, StartsTypes, AnsweredTypes, FailsTypes, ThrottleEndsTypes DEF Replies, Reachable
<1>7. CASE UNCHANGED vars BY <1>1, <1>7 DEF vars
<1> QED BY <1>2, <1>3, <1>4, <1>5, <1>6, <1>7 DEF Next

\* Every variable of the channel and of its replies holds a value of its type: what is
\* under way is of the kind of the chain's head, and a send has something left to send
\* (telegram-channel.ts, telegram-replies.ts).
THEOREM TypesHold == Spec => []TypeOK
<1>1. Init => SayTypes BY SayInitHolds DEF Init
<1>2. SayTypes /\ [Next]_vars => SayTypes' BY SayNextStep
<1>3. Spec => []SayTypes BY <1>1, <1>2, PTL DEF Spec
<1>4. HInv /\ SayTypes => TypeOK BY DEF HInv, IInv, TypeOK
<1> QED BY <1>3, <1>4, HearingInvariance, PTL

--------------------
(* What the assistant says is said once: the texts of a message. *)

LEMMA AppendedAt ==
    ASSUME NEW S, NEW q \in Seq(S), NEW e \in S, NEW r, r = Append(q, e)
    PROVE  /\ r \in Seq(S) /\ r # <<>> /\ Len(q) \in Nat /\ Len(r) = Len(q) + 1
           /\ DOMAIN q = 1..Len(q) /\ DOMAIN r = 1..(Len(q) + 1)
           /\ (\A i \in 1..Len(q) : r[i] = q[i]) /\ r[Len(q) + 1] = e
<1>1. r \in Seq(S) /\ Len(q) \in Nat /\ Len(r) = Len(q) + 1 OBVIOUS
<1>2. (\A i \in 1..Len(q) : r[i] = q[i]) /\ r[Len(q) + 1] = e OBVIOUS
<1>3. DOMAIN q = 1..Len(q) /\ DOMAIN r = 1..(Len(q) + 1) BY <1>1
<1>4. r # <<>> BY <1>1
<1> QED BY <1>1, <1>2, <1>3, <1>4

LEMMA TailAt ==
    ASSUME NEW S, NEW q \in Seq(S), q # <<>>, NEW r, r = Tail(q)
    PROVE  /\ Len(q) \in Nat \ {0} /\ Len(r) = Len(q) - 1 /\ r \in Seq(S)
           /\ DOMAIN q = 1..Len(q) /\ DOMAIN r = 1..(Len(q) - 1)
           /\ \A i \in 1..(Len(q) - 1) : r[i] = q[i + 1]
           /\ 1 \in DOMAIN q /\ Head(q) = q[1] /\ q[1] \in S
<1>1. Len(q) \in Nat \ {0} /\ Len(r) = Len(q) - 1 /\ r \in Seq(S) /\ DOMAIN q = 1..Len(q) OBVIOUS
<1>2. DOMAIN r = 1..(Len(q) - 1) BY <1>1
<1>3. \A i \in 1..(Len(q) - 1) : r[i] = q[i + 1] OBVIOUS
<1>4. 1 \in DOMAIN q /\ Head(q) = q[1] /\ q[1] \in S BY <1>1
<1> QED BY <1>1, <1>2, <1>3, <1>4

LEMMA Division ==
    ASSUME NEW L \in Nat \ {0}, NEW a \in Nat, NEW b \in Nat
    PROVE  /\ a \div L \in Nat
           /\ a <= b => a \div L <= b \div L
           /\ (a + L) \div L = (a \div L) + 1
           /\ a \div L = 0 <=> a < L
<1>1. PICK p \in Int, r \in Int : p = a \div L /\ r = a % L OBVIOUS
<1>2. PICK t \in Int, u \in Int : t = b \div L /\ u = b % L OBVIOUS
<1>3. a = L * p + r /\ 0 <= r /\ r < L BY <1>1
<1>4. b = L * t + u /\ 0 <= u /\ u < L BY <1>2
<1>5. p >= 0 BY <1>3
<1>6. a <= b => p <= t BY <1>3, <1>4
<1>7. p = 0 <=> a < L BY <1>3, <1>5
<1>8. (a + L) \div L = p + 1 BY <1>1
<1> QED BY <1>1, <1>2, <1>5, <1>6, <1>7, <1>8

\* A text that is split is there whole and in order, the first part as long as fits.
SaysRest(p, kind, m, d, n) ==
    /\ p \in Seq(Items)
    /\ \A k \in DOMAIN p : p[k].kind = kind /\ p[k].msg = m /\ p[k].text \subseteq (d + 1)..n
    /\ \A a \in (d + 1)..n : \E k \in DOMAIN p : a \in p[k].text
    /\ \A k, l \in DOMAIN p : k < l => Before(p[k].text, p[l].text)
    /\ p = <<>> <=> n = d
    /\ n # d => 1 \in DOMAIN p /\ p[1].text = {a \in (d + 1)..n : a <= d + Limit}

LEMMA PartsSay ==
    ASSUME NEW m \in 0..MaxMessages, NEW kind \in {"text", "mark"},
           NEW d \in 0..MaxText, NEW n \in 0..MaxText, d <= n,
           NEW p, p = Parts(kind, m, d + 1, n)
    PROVE  SaysRest(p, kind, m, d, n)
<1>1. /\ MaxText \in Nat /\ Limit \in Nat \ {0} /\ d \in Nat /\ n \in Nat BY RepliesAssumption
<1>2. PICK L \in Nat \ {0} : L = Limit BY <1>1
<1> DEFINE at(a) == (a - (d + 1)) \div L
           count == (n + L - (d + 1)) \div L
           piece(i) == {a \in (d + 1)..n : at(a) = i - 1}
<1>3. ASSUME NEW a \in (d + 1)..n, NEW b \in (d + 1)..n
      PROVE  /\ at(a) \in Nat /\ at(a) + 1 <= count /\ (a <= b => at(a) <= at(b))
             /\ at(a) = 0 <=> a <= d + L
  <2>1. PICK x \in Nat, y \in Nat, z \in Nat : x = a - (d + 1) /\ y = b - (d + 1) /\ z = n - (d + 1)
    BY <1>1
  <2>2. x <= z /\ (a <= b => x <= y) /\ (x < L <=> a <= d + L) /\ z + L = n + L - (d + 1)
    BY <1>1, <2>1
  <2>3. /\ x \div L \in Nat /\ x \div L <= z \div L /\ (z + L) \div L = (z \div L) + 1 /\ z \div L \in Nat
        /\ x <= y => x \div L <= y \div L
        /\ x \div L = 0 <=> x < L
    BY <2>2, Division
  <2>4. at(a) = x \div L /\ at(b) = y \div L /\ count = (z + L) \div L BY <2>1, <2>2
  <2> HIDE DEF at, count
  <2> QED BY <2>2, <2>3, <2>4
<1>4. count \in Nat /\ (count = 0 <=> n = d)
  <2>1. CASE n = d
    <3>1. n + L - (d + 1) \in Nat /\ n + L - (d + 1) < L BY <1>1, <2>1
    <3> QED BY <2>1, <3>1, Division
  <2>2. CASE n # d
    <3>1. n \in (d + 1)..n BY <1>1, <2>2
    <3>2. n + L - (d + 1) \in Nat BY <1>1, <2>2
    <3>3. count \in Nat BY <3>2, Division
    <3> HIDE DEF at, count
    <3> QED BY <1>3, <2>2, <3>1, <3>3
  <2> QED BY <2>1, <2>2
<1>5. SplitText(d + 1, n) = [i \in 1..count |-> piece(i)] BY <1>2 DEF SplitText
<1> HIDE DEF at, count
<1>6. p = [i \in 1..count |-> Item(kind, m, piece(i))] BY <1>5 DEF Parts
<1>7. DOMAIN p = 1..count /\ \A i \in 1..count : p[i] = Item(kind, m, piece(i)) BY <1>6
<1>8. \A i \in DOMAIN p : p[i].kind = kind /\ p[i].msg = m /\ p[i].text = piece(i)
  <2> SUFFICES ASSUME NEW i \in DOMAIN p
               PROVE  p[i].kind = kind /\ p[i].msg = m /\ p[i].text = piece(i)
    OBVIOUS
  <2>1. PICK t : t = piece(i) OBVIOUS
  <2>2. p[i] = Item(kind, m, t) BY <1>7, <2>1
  <2> HIDE DEF piece
  <2> QED BY <2>1, <2>2 DEF Item
<1>9. p \in Seq(Items) BY PartTypes
<1>10. \A k \in DOMAIN p : p[k].text \subseteq (d + 1)..n BY <1>8
<1>11. ASSUME NEW a \in (d + 1)..n PROVE \E k \in DOMAIN p : a \in p[k].text
  <2>1. at(a) + 1 \in 1..count /\ (at(a) + 1) - 1 = at(a) BY <1>3, <1>4
  <2>2. a \in piece(at(a) + 1) BY <2>1
  <2> QED BY <1>7, <1>8, <2>1, <2>2
<1>12. ASSUME NEW k \in DOMAIN p, NEW l \in DOMAIN p, k < l,
              NEW a \in p[k].text, NEW b \in p[l].text
       PROVE  a < b
  <2>1. a \in (d + 1)..n /\ b \in (d + 1)..n /\ at(a) = k - 1 /\ at(b) = l - 1 BY <1>8, <1>12
  <2>2. k \in Int /\ l \in Int BY <1>4, <1>7
  <2>3. ~(b <= a) BY <1>3, <1>12, <2>1, <2>2
  <2> QED BY <1>1, <2>1, <2>3
<1>13. p = <<>> <=> n = d
  <2>1. Len(p) = count BY <1>4, <1>7, <1>9
  <2> QED BY <1>4, <1>9, <2>1
<1>14. ASSUME n # d PROVE 1 \in DOMAIN p /\ p[1].text = {a \in (d + 1)..n : a <= d + Limit}
  <2>1. 1 \in DOMAIN p BY <1>4, <1>7, <1>14
  <2>2. p[1].text = {a \in (d + 1)..n : at(a) = 0} BY <1>8, <2>1
  <2> QED BY <1>2, <1>3, <2>1, <2>2
<1> QED BY <1>8, <1>9, <1>10, <1>11, <1>12, <1>13, <1>14 DEF Before, SaysRest

--------------------
(* What the assistant does joins the chain. *)

\* What SayTypes gives of the variables, one at a time.
LEMMA SayVariables ==
    ASSUME SayTypes
    PROVE  /\ speech.msg \in Nat /\ speech.len \in Nat /\ speech.open \in BOOLEAN
           /\ \A m \in Messages : m \in Nat /\ m # 0 /\ streams[m] \in Streams /\ said[m] \in Text /\ seen[m] \in Text
           /\ chain \in Seq(Ops) /\ Len(chain) \in Nat /\ DOMAIN chain = 1..Len(chain)
           /\ chat \in Seq(Items \cup Previews) /\ Len(chat) \in Nat /\ DOMAIN chat = 1..Len(chat)
           /\ draft.msg \in Nat /\ draft.text \in Text
           /\ doing.todo \in Seq(Items) /\ doing.text \in Text
           /\ \A i \in DOMAIN chain : chain[i] \in Ops
           /\ \A i \in DOMAIN chat : chat[i] \in Items \cup Previews
           /\ doing.at # "idle" => chain # <<>>
<1>1. /\ MaxMessages \in Nat /\ MaxText \in Nat BY RepliesAssumption
<1>2. speech \in [msg : 0..MaxMessages, open : BOOLEAN, len : 0..MaxText] BY DEF SayTypes
<1>3. speech.msg \in Nat /\ speech.len \in Nat /\ speech.open \in BOOLEAN BY <1>1, <1>2
<1>4. ASSUME NEW m \in Messages
      PROVE  m \in Nat /\ m # 0 /\ streams[m] \in Streams /\ said[m] \in Text /\ seen[m] \in Text
  BY <1>1, <1>4 DEF SayTypes, Messages
<1>5. chain \in Seq(Ops) /\ chat \in Seq(Items \cup Previews) BY DEF SayTypes
<1>6. /\ Len(chain) \in Nat /\ DOMAIN chain = 1..Len(chain) /\ Len(chat) \in Nat /\ DOMAIN chat = 1..Len(chat)
      /\ \A i \in DOMAIN chain : chain[i] \in Ops
      /\ \A i \in DOMAIN chat : chat[i] \in Items \cup Previews
  BY <1>5
<1>7. draft.msg \in Nat /\ draft.text \in Text BY <1>1 DEF SayTypes
<1>8. doing.todo \in Seq(Items) /\ doing.text \in Text BY DEF SayTypes
<1>9. doing.at # "idle" => chain # <<>> BY DEF SayTypes, HeadIsDoing
<1> QED BY <1>3, <1>4, <1>5, <1>6, <1>7, <1>8, <1>9

LEMMA HeadAt ==
    ASSUME SayTypes, chain # <<>>
    PROVE  /\ 1 \in DOMAIN chain /\ Head(chain) = chain[1] /\ Head(chain) \in Ops
           /\ HeadMsg = chain[1].msg /\ HeadMsg \in Nat
           /\ Head(chain).kind \in OfStream => HeadMsg \in Messages
<1>1. chain \in Seq(Ops) BY SayVariables
<1>2. PICK r : r = Tail(chain) OBVIOUS
<1>3. 1 \in DOMAIN chain /\ Head(chain) = chain[1] /\ chain[1] \in Ops BY <1>1, <1>2, TailAt
<1>4. \A o \in Ops : o.msg \in 0..MaxMessages BY DEF Ops
<1>5. chain[1].msg \in Nat /\ (chain[1].kind \in OfStream => chain[1].msg \in Messages)
  BY <1>3, <1>4, RepliesAssumption DEF SayTypes, OfStream, Messages
<1> QED BY <1>3, <1>5 DEF HeadMsg

\* Operations that join the chain, for the message of the moment; what was shown and
\* sent stays, and the other streams.
Joins ==
    /\ DOMAIN chain \subseteq DOMAIN chain'
    /\ \A i \in DOMAIN chain : chain'[i] = chain[i]
    /\ \A j \in DOMAIN chain' : j \notin DOMAIN chain =>
         /\ chain'[j].msg = speech'.msg /\ (\A i \in DOMAIN chain : i < j)
         /\ chain'[j].kind \in {"flush", "close"} => speech'.open
Grows(m) ==
    /\ streams'[m].mode = streams[m].mode /\ streams'[m].drafted = streams[m].drafted
    /\ streams'[m].posted = streams[m].posted /\ streams'[m].last = streams[m].last
    /\ streams'[m].delivered = streams[m].delivered /\ streams[m].pending <= streams'[m].pending
Event ==
    /\ Joins /\ UNCHANGED <<doing, chat, draft, seen, support>>
    /\ speech.msg <= speech'.msg
    /\ \A m \in Messages : m <= speech.msg => Grows(m)
    /\ \A m \in Messages : m > speech.msg => ~Touched(m)'

LEMMA JoinsHead ==
    ASSUME SayTypes, SayTypes', Joins, chain # <<>>
    PROVE  chain' # <<>> /\ Head(chain') = Head(chain) /\ HeadMsg' = HeadMsg
<1>1. 1 \in DOMAIN chain /\ Head(chain) = chain[1] BY HeadAt
<1>2. 1 \in DOMAIN chain' /\ chain'[1] = chain[1] BY <1>1 DEF Joins
<1>3. PICK q \in Seq(Ops) : q = chain' BY SayVariables DEF SayTypes
<1>4. q # <<>> BY <1>2, <1>3
<1>5. PICK r : r = Tail(q) OBVIOUS
<1>6. Head(q) = q[1] BY <1>4, <1>5, TailAt
<1> QED BY <1>1, <1>2, <1>3, <1>4, <1>6 DEF HeadMsg

LEMMA SayVariablesNext ==
    ASSUME SayTypes'
    PROVE  /\ speech'.msg \in Nat /\ speech'.len \in Nat /\ speech'.open \in BOOLEAN
           /\ \A m \in Messages : streams'[m] \in Streams /\ said'[m] \in Text /\ seen'[m] \in Text
           /\ chain' \in Seq(Ops) /\ Len(chain') \in Nat /\ DOMAIN chain' = 1..Len(chain')
           /\ chat' \in Seq(Items \cup Previews) /\ Len(chat') \in Nat /\ DOMAIN chat' = 1..Len(chat')
           /\ draft'.msg \in Nat /\ draft'.text \in Text
           /\ \A i \in DOMAIN chain' : chain'[i] \in Ops
           /\ \A i \in DOMAIN chat' : chat'[i] \in Items \cup Previews
<1>1. /\ MaxMessages \in Nat /\ MaxText \in Nat BY RepliesAssumption
<1>2. speech' \in [msg : 0..MaxMessages, open : BOOLEAN, len : 0..MaxText] BY DEF SayTypes
<1>3. speech'.msg \in Nat /\ speech'.len \in Nat /\ speech'.open \in BOOLEAN BY <1>1, <1>2
<1>4. ASSUME NEW m \in Messages
      PROVE  streams'[m] \in Streams /\ said'[m] \in Text /\ seen'[m] \in Text
  BY <1>4 DEF SayTypes
<1>5. PICK q \in Seq(Ops), c \in Seq(Items \cup Previews) : q = chain' /\ c = chat' BY DEF SayTypes
<1>6. /\ Len(q) \in Nat /\ DOMAIN q = 1..Len(q) /\ Len(c) \in Nat /\ DOMAIN c = 1..Len(c)
      /\ \A i \in DOMAIN q : q[i] \in Ops
      /\ \A i \in DOMAIN c : c[i] \in Items \cup Previews
  OBVIOUS
<1>7. draft'.msg \in Nat /\ draft'.text \in Text BY <1>1 DEF SayTypes
<1> QED BY <1>3, <1>4, <1>5, <1>6, <1>7

LEMMA EventInTurn ==
    ASSUME SayTypes, SayTypes', InTurn, TodoOfHead, Event
    PROVE  InTurn' /\ TodoOfHead'
<1>1. ASSUME NEW x \in Nat, Past(x) PROVE Past(x)'
  <2>1. x <= speech.msg /\ speech.msg <= speech'.msg /\ speech.msg \in Nat /\ speech'.msg \in Nat
    BY <1>1, SayVariables DEF Past, Event, SayTypes
  <2>2. ASSUME NEW i \in DOMAIN chain' PROVE x <= chain'[i].msg
    <3>1. CASE i \in DOMAIN chain BY <1>1, <3>1 DEF Past, Event, Joins
    <3>2. CASE i \notin DOMAIN chain BY <2>1, <3>2 DEF Event, Joins
    <3> QED BY <3>1, <3>2
  <2> QED BY <2>1, <2>2 DEF Past
<1>2. /\ speech.msg \in Nat /\ speech'.msg \in Nat /\ speech.msg <= speech'.msg
      /\ \A i \in DOMAIN chain : chain[i].msg \in Nat
  <2>1. \A o \in Ops : o.msg \in Nat BY RepliesAssumption DEF Ops
  <2> QED BY <2>1, SayVariables DEF Event, SayTypes
<1>3. \A i \in DOMAIN chain' : chain'[i].msg <= speech'.msg
  <2> SUFFICES ASSUME NEW i \in DOMAIN chain' PROVE chain'[i].msg <= speech'.msg OBVIOUS
  <2>1. CASE i \in DOMAIN chain
    <3>1. chain'[i] = chain[i] /\ chain[i].msg <= speech.msg BY <2>1 DEF Event, Joins, InTurn
    <3> QED BY <1>2, <2>1, <3>1
  <2>2. CASE i \notin DOMAIN chain BY <1>2, <2>2 DEF Event, Joins
  <2> QED BY <2>1, <2>2
<1>4. \A i, j \in DOMAIN chain' : i < j => chain'[i].msg <= chain'[j].msg
  <2> SUFFICES ASSUME NEW i \in DOMAIN chain', NEW j \in DOMAIN chain', i < j
               PROVE  chain'[i].msg <= chain'[j].msg
    OBVIOUS
  <2>1. CASE j \notin DOMAIN chain BY <1>3, <2>1 DEF Event, Joins
  <2>2. CASE j \in DOMAIN chain
    <3>1. DOMAIN chain = 1..Len(chain) /\ DOMAIN chain' = 1..Len(chain')
          /\ Len(chain) \in Nat /\ Len(chain') \in Nat
      BY SayVariables, SayVariablesNext
    <3>2. i \in DOMAIN chain BY <2>2, <3>1
    <3> QED BY <2>2, <3>2 DEF Event, Joins, InTurn
  <2> QED BY <2>1, <2>2
<1>5. ChatInOrder' /\ \A i \in DOMAIN chat' : \A x \in Nat : x = chat'[i].msg => x \in Nat /\ Past(x)'
  <2>1. chat' = chat /\ \A i \in DOMAIN chat : chat[i].msg \in Nat
    <3>1. \A e \in Items \cup Previews : e.msg \in Nat
      BY RepliesAssumption DEF Items, Previews, Messages
    <3> QED BY <3>1, SayVariables DEF Event
  <2>2. \A i \in DOMAIN chat : \A x \in Nat : x = chat[i].msg => Past(x)' BY <1>1 DEF InTurn
  <2> QED BY <2>1, <2>2 DEF InTurn, ChatInOrder
<1>9. \A i \in DOMAIN chat' : chat'[i].msg \in Nat
  <2>1. \A e \in Items \cup Previews : e.msg \in Nat
    BY RepliesAssumption DEF Items, Previews, Messages
  <2> QED BY <2>1, SayVariablesNext
<1>6. Past(draft.msg)'
  <2>1. PICK x \in Nat : x = draft.msg BY SayVariables
  <2> QED BY <1>1, <2>1 DEF InTurn, Event
<1>7. ASSUME NEW m \in Messages, Touched(m)' PROVE Past(m)'
  <2>1. m <= speech.msg BY <1>2, <1>7, SayVariables DEF Event
  <2>2. Touched(m) BY <1>7, <2>1 DEF Event, Grows, Touched
  <2> QED BY <1>1, <2>2, SayVariables DEF InTurn
<1>8. TodoOfHead'
  <2>1. doing' = doing BY DEF Event
  <2> SUFFICES ASSUME doing.at # "idle" PROVE TodoOfHead' BY <2>1 DEF TodoOfHead
  <2>2. Head(chain') = Head(chain) /\ HeadMsg' = HeadMsg BY SayVariables, JoinsHead DEF Event
  <2>3. Head(chain).kind = "flush" => streams'[HeadMsg].mode = streams[HeadMsg].mode
    <3> SUFFICES ASSUME Head(chain).kind = "flush" PROVE streams'[HeadMsg].mode = streams[HeadMsg].mode
      OBVIOUS
    <3>1. PICK m \in Messages : m = HeadMsg BY SayVariables, HeadAt DEF OfStream
    <3>2. 1 \in DOMAIN chain /\ m = chain[1].msg BY <3>1, SayVariables, HeadAt
    <3>3. m <= speech.msg BY <3>2 DEF InTurn
    <3> QED BY <3>1, <3>3 DEF Event, Grows
  <2> QED BY <2>1, <2>2, <2>3 DEF TodoOfHead
<1> QED BY <1>3, <1>4, <1>5, <1>6, <1>7, <1>8, <1>9 DEF InTurn, Past

\* What is known of a message that was begun stands while the assistant goes on.
LEMMA EventFits ==
    ASSUME SayTypes, SayTypes', FinishLast, TodoOfHead, Event,
           NEW m \in Messages, MessageFits(m), m <= speech.msg, m \in cut => m \in cut',
           FinishOf(m) # {} \/ ~Working(m) => said'[m] = said[m],
           m \notin cut' => (Working(m)' <=> Working(m))
    PROVE  MessageFits(m)'
<1> SUFFICES ASSUME m \notin cut' PROVE MessageFits(m)' BY DEF MessageFits
<1>1. /\ m \notin cut /\ (Working(m)' <=> Working(m))
      /\ UNCHANGED <<doing, chat, draft, seen>> /\ Joins /\ Grows(m)
  BY DEF Event
<1>2. /\ doing.at # "idle" => chain # <<>> /\ Head(chain') = Head(chain) /\ HeadMsg' = HeadMsg
  BY <1>1, SayVariables, JoinsHead
<1>3. (Sending(m)' <=> Sending(m)) /\ (Flushing(m)' <=> Flushing(m))
  BY <1>1, <1>2 DEF Sending, Flushing
<1>4. Entries(m)' = Entries(m) BY <1>1 DEF Entries
<1>5. ASSUME ~Working(m) PROVE SaidOnce(m)' /\ DraftIsEnded(m)' /\ OpsOf(m)' = {}
  <2>1. SaidOnce(m) /\ DraftIsEnded(m) /\ OpsOf(m) = {} /\ said'[m] = said[m]
    BY <1>1, <1>5 DEF MessageFits
  <2>2. ASSUME NEW j \in OpsOf(m)' PROVE FALSE
    <3>1. j \in DOMAIN chain' /\ chain'[j].kind \in OfStream /\ chain'[j].msg = m BY DEF OpsOf
    <3>2. j \notin DOMAIN chain BY <1>1, <2>1, <3>1 DEF OpsOf, Joins
    <3>3. chain'[j].msg = speech'.msg /\ (chain'[j].kind \in {"flush", "close"} => speech'.open)
      BY <1>1, <3>1, <3>2 DEF Joins
    <3>4. Working(m)' BY <3>1, <3>3 DEF OfStream, Working, Writing, FinishOf
    <3> QED BY <1>1, <1>5, <3>4
  <2> QED BY <1>1, <1>4, <2>1, <2>2 DEF SaidOnce, InChat, DraftIsEnded
<1>6. ASSUME Working(m), ~Sending(m) PROVE Stands(m)'
  <2>1. DeliveredIsSaid(m) /\ PreviewFits(m) /\ FlushFits(m) /\ SeenIsKept(m) /\ DraftIsKept(m)
    BY <1>1, <1>6 DEF MessageFits, Stands
  <2>2. Beginning(m) \subseteq Beginning(m)'
    <3>1. /\ streams[m].delivered = streams'[m].delivered /\ streams[m].pending <= streams'[m].pending
          /\ streams[m].pending \in Nat /\ streams'[m].pending \in Nat
      BY <1>1, SayVariables, SayVariablesNext, RepliesAssumption DEF Grows, Streams
    <3> QED BY <3>1 DEF Beginning, Truncate, AfterDelivered
  <2>3. Drafting(m)' = Drafting(m) BY <1>1 DEF Drafting, Grows
  <2>4. DeliveredIsSaid(m)' BY <1>1, <1>4, <2>1 DEF DeliveredIsSaid, Grows
  <2>5. PreviewFits(m)' BY <1>1, <1>3, <1>4, <2>1, <2>2 DEF PreviewFits, Grows
  <2>6. FlushFits(m)' BY <1>1, <1>3, <2>1, <2>2 DEF FlushFits, Grows
  <2>7. SeenIsKept(m)' BY <1>1, <1>3, <1>4, <2>1, <2>2, <2>3 DEF SeenIsKept, Grows
  <2>8. DraftIsKept(m)' BY <1>1, <1>3, <2>1, <2>3 DEF DraftIsKept, Grows
  <2> QED BY <2>4, <2>5, <2>6, <2>7, <2>8 DEF Stands
<1>7. ASSUME Working(m), Sending(m), Head(chain).kind = "close" PROVE CloseFits(m)'
  <2>1. CloseFits(m) BY <1>1, <1>7 DEF MessageFits
  <2>2. streams[m].pending \in Nat /\ streams'[m].pending \in Nat /\ streams[m].pending <= streams'[m].pending
    BY <1>1, SayVariables, SayVariablesNext, RepliesAssumption DEF Grows, Streams
  <2>3. PICK n \in 0..streams[m].pending :
           /\ ReadsOn(chat, m, doing.todo)
           /\ \A a \in 1..n : Covered(chat, m, doing.todo, a)
           /\ \A i \in Entries(m) : chat[i].kind # "preview" /\ chat[i].text \subseteq 1..n
           /\ \A k \in DOMAIN doing.todo : doing.todo[k].text \subseteq 1..n
           /\ seen[m] \subseteq 1..n /\ ~streams[m].posted
    BY <2>1 DEF CloseFits
  <2>4. n \in 0..streams'[m].pending BY <2>2
  <2> QED BY <1>1, <1>4, <2>3, <2>4 DEF CloseFits, Grows
<1>8. ASSUME Working(m), Sending(m), Head(chain).kind # "close" PROVE FinishFits(m)'
  <2>1. FinishFits(m) BY <1>1, <1>8 DEF MessageFits
  <2>2. chain # <<>> /\ Head(chain).kind = "finish" BY <1>2, <1>8 DEF Sending, OfStream, TodoOfHead
  <2>3. 1 \in FinishOf(m) BY <1>8, <2>2, HeadAt DEF FinishOf, Sending
  <2>4. said'[m] = said[m] BY <2>3
  <2> QED BY <1>1, <2>1, <2>4 DEF FinishFits, WithPreview
<1>9. Sending(m) => (Head(chain').kind = "close" <=> Head(chain).kind = "close") BY <1>2 DEF Sending
<1> QED BY <1>1, <1>3, <1>5, <1>6, <1>7, <1>8, <1>9 DEF MessageFits

\* Of a message just begun nothing was shown.
LEMMA FreshFits ==
    ASSUME SayTypes, SayTypes', InTurn, Event,
           NEW m \in Messages, m > speech.msg, Working(m)' \/ m > speech'.msg
    PROVE  MessageFits(m)'
<1> SUFFICES ASSUME Working(m)' PROVE MessageFits(m)'
  <2>1. m \in Nat /\ speech'.msg \in Nat BY SayVariables, SayVariablesNext
  <2> QED BY <2>1 DEF MessageFits
<1>1. /\ m \in Nat /\ speech.msg \in Nat /\ chat' = chat /\ doing' = doing /\ draft' = draft /\ Joins
  BY SayVariables DEF Event
<1>2. Entries(m)' = {}
  <2>1. \A e \in Items \cup Previews : e.msg \in Nat
    BY RepliesAssumption DEF Items, Previews, Messages
  <2>2. \A i \in DOMAIN chat : chat[i].msg \in Nat /\ chat[i].msg <= speech.msg
    BY <2>1, SayVariables DEF InTurn, Past
  <2> QED BY <1>1, <2>2 DEF Entries
<1>3. ~Sending(m)' /\ ~Flushing(m)'
  <2>1. CASE doing.at # "idle"
    <3>1. chain # <<>> /\ HeadMsg' = HeadMsg BY <1>1, <2>1, SayVariables, JoinsHead
    <3>2. HeadMsg \in Nat /\ HeadMsg <= speech.msg BY <3>1, HeadAt DEF InTurn
    <3>3. HeadMsg' # m BY <1>1, <3>1, <3>2
    <3> QED BY <3>3 DEF Sending, Flushing
  <2>2. CASE doing.at = "idle" BY <1>1, <2>2 DEF Sending, Flushing
  <2> QED BY <2>1, <2>2
<1>4. /\ streams'[m].delivered = 0 /\ ~streams'[m].posted /\ seen'[m] = {} BY DEF Event, Touched
<1>5. draft'.msg # m
  <2>1. draft.msg \in Nat /\ draft.msg <= speech.msg BY SayVariables DEF InTurn, Past
  <2> QED BY <1>1, <2>1
<1>6. Stands(m)'
  <2>1. \A a : a \notin 1..0 OBVIOUS
  <2>2. DeliveredIsSaid(m)' BY <1>2, <1>4, <2>1 DEF DeliveredIsSaid
  <2>3. PreviewFits(m)' /\ FlushFits(m)' BY <1>2, <1>3, <1>4 DEF PreviewFits, FlushFits
  <2>4. SeenIsKept(m)' /\ DraftIsKept(m)' BY <1>4, <1>5 DEF SeenIsKept, DraftIsKept
  <2> QED BY <2>2, <2>3, <2>4 DEF Stands
<1> QED BY <1>3, <1>6 DEF MessageFits

LEMMA JoinsOne ==
    ASSUME SayTypes, NEW o \in Ops, chain' = Append(chain, o),
           o.msg = speech'.msg, o.kind \in {"flush", "close"} => speech'.open
    PROVE  /\ Joins /\ Len(chain) \in Nat /\ DOMAIN chain = 1..Len(chain)
           /\ Len(chain) + 1 \in DOMAIN chain' /\ chain'[Len(chain) + 1] = o
           /\ \A j \in DOMAIN chain' : j \notin DOMAIN chain => j = Len(chain) + 1
<1>1. PICK q \in Seq(Ops) : q = chain BY SayVariables
<1>2. PICK r : r = chain' OBVIOUS
<1>3. /\ Len(q) \in Nat /\ DOMAIN q = 1..Len(q) /\ DOMAIN r = 1..(Len(q) + 1)
      /\ (\A i \in 1..Len(q) : r[i] = q[i]) /\ r[Len(q) + 1] = o
  BY <1>1, <1>2, AppendedAt
<1>4. \A j \in DOMAIN r : j \notin DOMAIN q => j = Len(q) + 1 /\ \A i \in DOMAIN q : i < j BY <1>3
<1>5. Joins BY <1>1, <1>2, <1>3, <1>4 DEF Joins
<1> QED BY <1>1, <1>2, <1>3, <1>4, <1>5

LEMMA JoinsTwo ==
    ASSUME SayTypes, NEW o \in Ops, NEW p \in Ops, chain' = Append(Append(chain, o), p),
           o.msg = speech'.msg, o.kind \in {"flush", "close"} => speech'.open,
           p.msg = speech'.msg, p.kind \in {"flush", "close"} => speech'.open
    PROVE  Joins /\ \A j \in DOMAIN chain' : j \notin DOMAIN chain => chain'[j] \in {o, p}
<1>0. PICK q \in Seq(Ops) : q = chain BY SayVariables
<1>1. PICK r, s : q = chain /\ r = Append(q, o) /\ s = chain' BY <1>0
<1>2. /\ Len(q) \in Nat /\ DOMAIN q = 1..Len(q) /\ r \in Seq(Ops) /\ Len(r) = Len(q) + 1
      /\ DOMAIN r = 1..(Len(q) + 1)
      /\ (\A i \in 1..Len(q) : r[i] = q[i]) /\ r[Len(q) + 1] = o
  BY <1>1, AppendedAt
<1>3. s = Append(r, p) BY <1>1
<1>4. /\ DOMAIN s = 1..(Len(r) + 1)
      /\ (\A i \in 1..Len(r) : s[i] = r[i]) /\ s[Len(r) + 1] = p
  BY <1>2, <1>3, AppendedAt
<1>5. /\ DOMAIN q \subseteq DOMAIN s /\ \A i \in DOMAIN q : s[i] = q[i] BY <1>2, <1>4
<1>6. \A j \in DOMAIN s : j \notin DOMAIN q => s[j] \in {o, p} /\ \A i \in DOMAIN q : i < j
  BY <1>2, <1>4
<1> QED BY <1>1, <1>5, <1>6 DEF Joins

\* A tool, the end of a turn, a file and a throttle that ends put operations into the
\* chain and stop timers.
LEMMA QuietEvent ==
    ASSUME SaidInv, SayTypes', UNCHANGED <<speech, listed, support, doing, chat, draft, said, seen, cut>>,
           Joins, \A j \in DOMAIN chain' : j \notin DOMAIN chain => chain'[j].kind # "finish",
           \A m \in Messages : \/ streams'[m] = streams[m]
                               \/ Writing(m) /\ streams'[m] = [streams[m] EXCEPT !.timer = FALSE]
    PROVE  SaidInv'
<1>1. /\ SayTypes /\ InTurn /\ FinishLast /\ TodoOfHead /\ ListedIsWritten
      /\ \A m \in Messages : StreamFits(m) /\ MessageFits(m)
  BY DEF SaidInv, ChainFits
<1>2. /\ speech.msg \in Nat
      /\ \A m \in Messages : m \in Nat /\ streams[m] \in Streams /\ streams[m].pending \in Nat
  BY <1>1, SayVariables, RepliesAssumption DEF Streams
<1>3. ASSUME NEW m \in Messages
      PROVE  /\ Grows(m) /\ (streams'[m].timer => streams[m].timer)
             /\ streams'[m].pending = streams[m].pending
             /\ m > speech.msg => streams'[m] = streams[m]
  <2>1. CASE streams'[m] = streams[m] BY <1>2, <2>1 DEF Grows
  <2>2. CASE Writing(m) /\ streams'[m] = [streams[m] EXCEPT !.timer = FALSE]
    BY <1>2, <2>2 DEF Grows, Streams, Writing
  <2> QED BY <2>1, <2>2
<1>4. Event
  <2>1. ASSUME NEW m \in Messages, m > speech.msg PROVE ~Touched(m)'
    <3>1. ~Touched(m) BY <1>1, <1>2, <2>1 DEF InTurn, Past
    <3> QED BY <1>3, <2>1, <3>1 DEF Touched
  <2> QED BY <1>2, <1>3, <2>1 DEF Event
<1>5. InTurn' /\ TodoOfHead' BY <1>1, <1>4, EventInTurn
<1>6. ASSUME NEW m \in Messages
      PROVE  /\ FinishOf(m)' = FinishOf(m)
             /\ \A j \in OpsOf(m)' : j \in OpsOf(m) \/ Writing(m)
  <2>1. ASSUME NEW j \in FinishOf(m)' PROVE j \in FinishOf(m) BY <2>1 DEF FinishOf, Joins
  <2>2. ASSUME NEW j \in FinishOf(m) PROVE j \in FinishOf(m)' BY <2>2 DEF FinishOf, Joins
  <2>3. ASSUME NEW j \in OpsOf(m)' PROVE j \in OpsOf(m) \/ Writing(m)
    <3>1. CASE j \in DOMAIN chain BY <2>3, <3>1 DEF OpsOf, Joins
    <3>2. CASE j \notin DOMAIN chain BY <2>3, <3>2 DEF OpsOf, OfStream, Joins, Writing
    <3> QED BY <3>1, <3>2
  <2> QED BY <2>1, <2>2, <2>3
<1>7. ASSUME NEW m \in Messages PROVE (Writing(m)' <=> Writing(m)) /\ (Working(m)' <=> Working(m))
  BY <1>6 DEF Writing, Working
<1>8. FinishLast'
  <2> SUFFICES ASSUME NEW m \in Messages, NEW i \in FinishOf(m)'
               PROVE  /\ ~Writing(m)' /\ (\A j \in OpsOf(m)' : j <= i)
                      /\ streams'[m].pending <= chain'[i].full
                      /\ said'[m] = IF chain'[i].why = "aborted" THEN {} ELSE 1..chain'[i].full
    BY DEF FinishLast
  <2>1. i \in FinishOf(m) /\ chain'[i] = chain[i] BY <1>6 DEF FinishOf, Joins
  <2>2. /\ ~Writing(m) /\ (\A j \in OpsOf(m) : j <= i) /\ streams[m].pending <= chain[i].full
        /\ said[m] = IF chain[i].why = "aborted" THEN {} ELSE 1..chain[i].full
    BY <1>1, <2>1 DEF FinishLast
  <2> QED BY <1>3, <1>6, <1>7, <2>1, <2>2
<1>9. ASSUME NEW m \in Messages PROVE StreamFits(m)'
  <2>1. StreamFits(m) BY <1>1
  <2>2. streams[m].drafted => streams[m].mode = "draft" /\ (support = "unsupported" => ~Writing(m)' /\ OpsOf(m)' = {})
    BY <1>6, <1>7, <2>1 DEF StreamFits
  <2> QED BY <1>3, <1>7, <2>1, <2>2 DEF StreamFits, Grows
<1>10. ListedIsWritten' BY <1>1 DEF ListedIsWritten
<1>11. ASSUME NEW m \in Messages PROVE MessageFits(m)'
  <2>1. CASE m <= speech.msg BY <1>1, <1>4, <1>7, <2>1, EventFits
  <2>2. CASE ~(m <= speech.msg)
    <3>1. m > speech.msg /\ m > speech'.msg BY <1>2, <2>2
    <3> QED BY <1>1, <1>4, <3>1, FreshFits
  <2> QED BY <2>1, <2>2
<1> QED BY <1>5, <1>8, <1>9, <1>10, <1>11 DEF SaidInv, ChainFits

LEMMA ToolStartsSaid == ASSUME SaidInv, SayTypes', ToolStarts \/ TurnEnds PROVE SaidInv'
<1>1. SayTypes /\ ListedIsWritten /\ speech.msg \in Nat /\ speech.msg \in 0..MaxMessages
  BY SayVariables DEF SaidInv, ChainFits, SayTypes
<1>2. PICK then : /\ CloseOpenDraft(then) /\ then \in {<<Op("line", speech.msg)>>, <<>>}
                  /\ UNCHANGED <<speech, listed, support, doing, chat, draft, errors, said, seen, cut>>
  BY DEF ToolStarts, TurnEnds
<1>3. ClosesDraft => speech.open /\ listed = speech.msg /\ listed \in Messages
  BY <1>1, RepliesAssumption DEF ClosesDraft, ListedIsWritten, Messages
<1> DEFINE o == Op("close", listed)
           p == Op("line", speech.msg)
<1>4. /\ p \in Ops /\ p.kind = "line" /\ p.msg = speech.msg
      /\ ClosesDraft => o \in Ops /\ o.kind = "close" /\ o.msg = speech.msg
  BY <1>1, <1>3, OpTypes
<1> HIDE DEF o, p
<1>5. \A m \in Messages : \/ streams'[m] = streams[m]
                          \/ Writing(m) /\ streams'[m] = [streams[m] EXCEPT !.timer = FALSE]
  <2>1. CASE ClosesDraft
    <3>1. streams' = [streams EXCEPT ![listed].timer = FALSE] BY <1>2, <2>1 DEF CloseOpenDraft
    <3>2. streams \in [Messages -> Streams] BY <1>1 DEF SayTypes
    <3> QED BY <1>3, <2>1, <3>1, <3>2 DEF Writing
  <2>2. CASE ~ClosesDraft BY <1>2, <2>2 DEF CloseOpenDraft
  <2> QED BY <2>1, <2>2
<1>6. Joins /\ \A j \in DOMAIN chain' : j \notin DOMAIN chain => chain'[j].kind # "finish"
  <2>0. PICK q \in Seq(Ops) : q = chain BY <1>1, SayVariables
  <2>9. /\ q \o <<>> = q /\ q \o <<p>> = Append(q, p)
        /\ ClosesDraft => Append(q, o) \o <<>> = Append(q, o) /\ Append(q, o) \o <<p>> = Append(Append(q, o), p)
    <3>1. \A c \in Seq(Ops) : c \o <<>> = c OBVIOUS
    <3>2. ASSUME NEW c \in Seq(Ops) PROVE c \o <<p>> = Append(c, p)
      <4>1. /\ <<p>> \in Seq(Ops) /\ Len(<<p>>) = 1 /\ <<p>>[1] = p /\ Len(c) \in Nat BY <1>4
      <4>2. /\ c \o <<p>> \in Seq(Ops) /\ Len(c \o <<p>>) = Len(c) + 1
            /\ \A i \in 1..(Len(c) + 1) : (c \o <<p>>)[i] = IF i <= Len(c) THEN c[i] ELSE <<p>>[i - Len(c)]
        BY <4>1
      <4>3. PICK r : r = Append(c, p) OBVIOUS
      <4>4. /\ r \in Seq(Ops) /\ Len(r) = Len(c) + 1
            /\ (\A i \in 1..Len(c) : r[i] = c[i]) /\ r[Len(c) + 1] = p
        BY <1>4, <4>3, AppendedAt
      <4>5. \A i \in 1..(Len(c) + 1) : (c \o <<p>>)[i] = r[i] BY <4>1, <4>2, <4>4
      <4> QED BY <4>2, <4>3, <4>4, <4>5
    <3>3. ClosesDraft => Append(q, o) \in Seq(Ops) BY <1>4
    <3> QED BY <3>1, <3>2, <3>3
  <2>1. CASE ClosesDraft
    <3>1. chain' = Append(q, o) \/ chain' = Append(Append(q, o), p)
      BY <1>2, <2>0, <2>1, <2>9 DEF CloseOpenDraft, o, p
    <3>2. CASE chain' = Append(chain, o) BY <1>1, <1>2, <1>3, <1>4, <2>1, <3>2, JoinsOne
    <3>3. CASE chain' = Append(Append(chain, o), p) BY <1>1, <1>2, <1>3, <1>4, <2>1, <3>3, JoinsTwo
    <3> QED BY <2>0, <3>1, <3>2, <3>3
  <2>2. CASE ~ClosesDraft
    <3>1. chain' = q \/ chain' = Append(q, p) BY <1>2, <2>0, <2>2, <2>9 DEF CloseOpenDraft, p
    <3>2. CASE chain' = chain BY <3>2 DEF Joins
    <3>3. CASE chain' = Append(chain, p) BY <1>1, <1>2, <1>4, <3>3, JoinsOne
    <3> QED BY <2>0, <3>1, <3>2, <3>3
  <2> QED BY <2>1, <2>2
<1> QED BY <1>2, <1>5, <1>6, QuietEvent

LEMMA FileAttachedSaid == ASSUME SaidInv, SayTypes', FileAttached PROVE SaidInv'
<1>1. SayTypes /\ speech.msg \in 0..MaxMessages BY DEF SaidInv, SayTypes
<1>2. PICK o \in Ops : /\ chain' = Append(chain, o) /\ o.kind = "file" /\ o.msg = speech.msg
                       /\ UNCHANGED <<speech, streams, listed, support, doing, chat, draft, errors, said, seen, cut>>
  BY <1>1, OpTypes DEF FileAttached
<1>3. Joins /\ \A j \in DOMAIN chain' : j \notin DOMAIN chain => chain'[j] = o
  BY <1>1, <1>2, JoinsOne
<1> QED BY <1>2, <1>3, QuietEvent

LEMMA ThrottleEndsSaid == ASSUME SaidInv, SayTypes', NEW m \in Messages, ThrottleEnds(m) PROVE SaidInv'
<1>1. SayTypes /\ StreamFits(m) BY DEF SaidInv, ChainFits
<1>2. m \in 0..MaxMessages /\ streams \in [Messages -> Streams] /\ speech.msg = m /\ speech.open
  BY <1>1, RepliesAssumption DEF SayTypes, Messages, StreamFits, Writing, ThrottleEnds
<1>3. PICK o \in Ops : /\ chain' = Append(chain, o) /\ o.kind = "flush" /\ o.msg = m
                       /\ UNCHANGED <<speech, listed, support, doing, chat, draft, errors, said, seen, cut>>
  BY <1>2, OpTypes DEF ThrottleEnds
<1>4. streams' = [streams EXCEPT ![m].timer = FALSE] BY DEF ThrottleEnds
<1>5. \A n \in Messages : \/ streams'[n] = streams[n]
                          \/ Writing(n) /\ streams'[n] = [streams[n] EXCEPT !.timer = FALSE]
  BY <1>2, <1>4 DEF Writing
<1>6. Joins /\ \A j \in DOMAIN chain' : j \notin DOMAIN chain => chain'[j] = o
  BY <1>1, <1>2, <1>3, JoinsOne
<1> QED BY <1>3, <1>5, <1>6, QuietEvent

\* An update changes the stream of the message that is written, or begins one.
LEMMA WritesShape ==
    ASSUME SaidInv, NEW m \in Messages, NEW n \in 0..MaxText, Writes(m, n)
    PROVE  /\ speech' = [msg |-> m, open |-> TRUE, len |-> n] /\ listed' = m
           /\ UNCHANGED <<support, doing, chat, draft, errors, said, seen, cut>>
           /\ \A k \in Messages : k # m => streams'[k] = streams[k]
           /\ LET b == IF listed = m THEN streams[m] ELSE NewStream IN
              /\ streams'[m].mode = b.mode /\ streams'[m].drafted = b.drafted /\ streams'[m].posted = b.posted
              /\ streams'[m].last = b.last /\ streams'[m].delivered = b.delivered /\ streams'[m].pending = n
           /\ Joins /\ \A j \in DOMAIN chain' : j \notin DOMAIN chain => chain'[j].kind = "flush" /\ chain'[j].msg = m
<1>1. SayTypes /\ streams \in [Messages -> Streams] BY DEF SaidInv, SayTypes
<1>2. PICK b \in Streams : b = IF listed = m THEN streams[m] ELSE NewStream BY <1>1, StreamTypes
<1>3. PICK s : s = [b EXCEPT !.pending = n] OBVIOUS
<1>4. /\ speech' = [msg |-> m, open |-> TRUE, len |-> n] /\ listed' = m
      /\ UNCHANGED <<support, doing, chat, draft, errors, said, seen, cut>>
      /\ Previewed(s, m)
  BY <1>2, <1>3 DEF Writes
<1>5. PICK t \in {s, [s EXCEPT !.timer = TRUE], [s EXCEPT !.flushed = TRUE]} :
         /\ streams' = [streams EXCEPT ![m] = t]
         /\ chain' = chain \/ chain' = Append(chain, Op("flush", m))
  BY <1>4 DEF Previewed
<1>6. /\ t.mode = b.mode /\ t.drafted = b.drafted /\ t.posted = b.posted
      /\ t.last = b.last /\ t.delivered = b.delivered /\ t.pending = n
  BY <1>2, <1>3, <1>5 DEF Streams
<1>7. streams'[m] = t /\ \A k \in Messages : k # m => streams'[k] = streams[k] BY <1>1, <1>5
<1>8. PICK o \in Ops : o = Op("flush", m) /\ o.kind = "flush" /\ o.msg = m
  BY <1>1, StreamTypes, OpTypes
<1>9. Joins /\ \A j \in DOMAIN chain' : j \notin DOMAIN chain => chain'[j] = o
  <2>1. CASE chain' = chain BY <2>1 DEF Joins
  <2>2. CASE chain' = Append(chain, o) BY <1>1, <1>4, <1>8, <2>2, JoinsOne
  <2> QED BY <1>5, <1>8, <2>1, <2>2
<1> QED BY <1>2, <1>4, <1>6, <1>7, <1>8, <1>9

LEMMA WritesSaid ==
    ASSUME SaidInv, SayTypes', NEW m \in Messages, NEW n \in 0..MaxText, Writes(m, n),
           \/ ~speech.open /\ m = speech.msg + 1
           \/ speech.open /\ m = speech.msg /\ n = speech.len + 1
    PROVE  SaidInv'
<1>1. /\ SayTypes /\ InTurn /\ FinishLast /\ TodoOfHead /\ ListedIsWritten
      /\ \A k \in Messages : StreamFits(k) /\ MessageFits(k)
  BY DEF SaidInv, ChainFits
<1>2. /\ speech.msg \in Nat /\ speech.len \in Nat /\ n \in Nat /\ m \in Nat
      /\ \A k \in Messages : k \in Nat /\ streams[k] \in Streams /\ streams[k].pending \in Nat /\ streams[k].delivered \in Nat
  BY <1>1, SayVariables, RepliesAssumption DEF Streams
<1>3. /\ speech'.msg = m /\ speech'.open /\ speech'.len = n /\ listed' = m
      /\ UNCHANGED <<support, doing, chat, draft, errors, said, seen, cut>>
      /\ \A k \in Messages : k # m => streams'[k] = streams[k]
      /\ Joins /\ \A j \in DOMAIN chain' : j \notin DOMAIN chain => chain'[j].kind = "flush" /\ chain'[j].msg = m
  BY WritesShape
<1>4. PICK b : /\ b = IF listed = m THEN streams[m] ELSE NewStream
               /\ streams'[m].mode = b.mode /\ streams'[m].drafted = b.drafted /\ streams'[m].posted = b.posted
               /\ streams'[m].last = b.last /\ streams'[m].delivered = b.delivered /\ streams'[m].pending = n
  BY WritesShape
<1>5. \/ ~speech.open /\ m > speech.msg /\ b = NewStream
      \/ speech.open /\ m = speech.msg /\ b = streams[m] /\ Writing(m) /\ streams[m].pending <= n
  <2>1. Writing(m) => streams[m].pending <= speech.len BY <1>1 DEF StreamFits
  <2> QED BY <1>1, <1>2, <1>4, <2>1 DEF ListedIsWritten, Writing
<1>6. ~NewStream.drafted /\ ~NewStream.posted /\ NewStream.last = {} /\ NewStream.delivered = 0
  BY DEF NewStream, NoStream
<1>7. ASSUME NEW k \in Messages, k > speech.msg PROVE ~Touched(k) /\ streams[k] = NoStream
  BY <1>1, <1>2, <1>7 DEF InTurn, Past, StreamFits
<1>8. Event
  <2>1. ASSUME NEW k \in Messages, k > speech.msg PROVE ~Touched(k)'
    <3>1. CASE k = m BY <1>2, <1>3, <1>4, <1>5, <1>6, <1>7, <2>1, <3>1 DEF Touched
    <3>2. CASE k # m BY <1>3, <1>7, <2>1, <3>2 DEF Touched
    <3> QED BY <3>1, <3>2
  <2>2. ASSUME NEW k \in Messages, k <= speech.msg PROVE Grows(k)
    <3>1. CASE k = m
      <4>1. b = streams[m] /\ streams[m].pending <= n BY <1>2, <1>5, <2>2, <3>1
      <4> QED BY <1>4, <3>1, <4>1 DEF Grows
    <3>2. CASE k # m BY <1>2, <1>3, <3>2 DEF Grows
    <3> QED BY <3>1, <3>2
  <2>3. speech.msg <= speech'.msg BY <1>2, <1>3, <1>5
  <2> QED BY <1>3, <2>1, <2>2, <2>3 DEF Event
<1>9. InTurn' /\ TodoOfHead' BY <1>1, <1>8, EventInTurn
<1>10. ASSUME NEW k \in Messages
       PROVE  /\ FinishOf(k)' = FinishOf(k) /\ (k # m => OpsOf(k)' = OpsOf(k))
              /\ Writing(k)' <=> k = m
              /\ Writing(k) => k = m
  <2>1. FinishOf(k)' = FinishOf(k) /\ (k # m => OpsOf(k)' = OpsOf(k))
    BY <1>3 DEF FinishOf, OpsOf, Joins
  <2> QED BY <1>3, <1>5, <2>1 DEF Writing
<1>11. FinishOf(m) = {}
  <2>1. CASE m > speech.msg BY <1>1, <1>2, <2>1 DEF InTurn, FinishOf
  <2>2. CASE Writing(m) BY <1>1, <2>2 DEF FinishLast
  <2> QED BY <1>5, <2>1, <2>2
<1>12. FinishLast'
  <2> SUFFICES ASSUME NEW k \in Messages, NEW i \in FinishOf(k)'
               PROVE  /\ ~Writing(k)' /\ (\A j \in OpsOf(k)' : j <= i)
                      /\ streams'[k].pending <= chain'[i].full
                      /\ said'[k] = IF chain'[i].why = "aborted" THEN {} ELSE 1..chain'[i].full
    BY DEF FinishLast
  <2>1. k # m /\ i \in FinishOf(k) /\ chain'[i] = chain[i] BY <1>3, <1>10, <1>11 DEF FinishOf, Joins
  <2>2. /\ (\A j \in OpsOf(k) : j <= i) /\ streams[k].pending <= chain[i].full
        /\ said[k] = IF chain[i].why = "aborted" THEN {} ELSE 1..chain[i].full
    BY <1>1, <2>1 DEF FinishLast
  <2> QED BY <1>3, <1>10, <2>1, <2>2
<1>13. ASSUME NEW k \in Messages PROVE StreamFits(k)'
  <2>1. CASE k = m
    <3>1. b.drafted => b.mode = "draft" /\ support # "unsupported"
      BY <1>1, <1>5, <1>6 DEF StreamFits
    <3>2. b.posted => b.mode = "message" BY <1>1, <1>5, <1>6 DEF StreamFits
    <3>3. b.delivered <= n BY <1>1, <1>2, <1>5, <1>6 DEF StreamFits
    <3> QED BY <1>2, <1>3, <1>4, <1>10, <2>1, <3>1, <3>2, <3>3 DEF StreamFits
  <2>2. CASE k # m
    <3>1. StreamFits(k) /\ streams'[k] = streams[k] /\ ~Writing(k) /\ ~Writing(k)' /\ OpsOf(k)' = OpsOf(k)
      BY <1>1, <1>3, <1>10, <2>2
    <3>2. k > speech'.msg => k > speech.msg BY <1>2, <1>3, <1>5
    <3> QED BY <1>3, <3>1, <3>2 DEF StreamFits
  <2> QED BY <2>1, <2>2
<1>14. ListedIsWritten' BY <1>3 DEF ListedIsWritten
<1>15. ASSUME NEW k \in Messages PROVE MessageFits(k)'
  <2>1. CASE k <= speech.msg
    <3>1. Working(k)' <=> Working(k) BY <1>2, <1>5, <1>10, <2>1 DEF Working
    <3> QED BY <1>1, <1>3, <1>8, <2>1, <3>1, EventFits
  <2>2. CASE ~(k <= speech.msg)
    <3>1. k > speech.msg /\ (Working(k)' \/ k > speech'.msg)
      BY <1>2, <1>3, <1>5, <1>10, <2>2 DEF Working
    <3> QED BY <1>1, <1>8, <3>1, FreshFits
  <2> QED BY <2>1, <2>2
<1> QED BY <1>9, <1>12, <1>13, <1>14, <1>15 DEF SaidInv, ChainFits

LEMMA MessageUpdateSaid == ASSUME SaidInv, SayTypes', MessageUpdate PROVE SaidInv'
<1>1. speech.msg \in 0..MaxMessages /\ speech.len \in 0..MaxText /\ (speech.open => speech.msg # 0)
  BY DEF SaidInv, SayTypes
<1>2. CASE ~speech.open /\ speech.msg < MaxMessages /\ Writes(speech.msg + 1, 1)
  <2>1. speech.msg + 1 \in Messages /\ 1 \in 0..MaxText
    BY <1>1, <1>2, RepliesAssumption DEF Messages
  <2> QED BY <1>2, <2>1, WritesSaid
<1>3. CASE speech.open /\ speech.len < MaxText /\ Writes(speech.msg, speech.len + 1)
  <2>1. speech.msg \in Messages /\ speech.len + 1 \in 0..MaxText
    BY <1>1, <1>3, RepliesAssumption DEF Messages
  <2> QED BY <1>3, <2>1, WritesSaid
<1> QED BY <1>2, <1>3 DEF MessageUpdate

\* The end of a message brings its finish.
LEMMA EndsSaid ==
    ASSUME SaidInv, SayTypes', NEW m \in Messages, NEW n \in 0..MaxText,
           NEW why \in {"done", "error", "aborted"}, Ends(m, n, why),
           \/ ~speech.open /\ m = speech.msg + 1
           \/ speech.open /\ m = speech.msg /\ speech.len <= n
    PROVE  SaidInv'
<1>1. /\ SayTypes /\ InTurn /\ FinishLast /\ TodoOfHead /\ ListedIsWritten
      /\ \A k \in Messages : StreamFits(k) /\ MessageFits(k)
  BY DEF SaidInv, ChainFits
<1>2. /\ speech.msg \in Nat /\ speech.len \in Nat /\ n \in Nat /\ m \in Nat /\ m \in 0..MaxMessages
      /\ \A k \in Messages : k \in Nat /\ streams[k] \in Streams /\ streams[k].pending \in Nat /\ streams[k].delivered \in Nat
      /\ streams \in [Messages -> Streams] /\ said \in [Messages -> Text]
  <2>1. /\ speech.msg \in Nat /\ speech.len \in Nat /\ n \in Nat
        /\ \A k \in Messages : k \in Nat /\ streams[k] \in Streams
    BY <1>1, SayVariables, RepliesAssumption
  <2>2. \A s \in Streams : s.pending \in Nat /\ s.delivered \in Nat BY RepliesAssumption DEF Streams
  <2>3. m \in 0..MaxMessages BY <1>1, StreamTypes
  <2>4. streams \in [Messages -> Streams] /\ said \in [Messages -> Text] BY <1>1 DEF SayTypes
  <2> QED BY <2>1, <2>2, <2>3, <2>4
<1>3. PICK o : o = [kind |-> "finish", msg |-> m, full |-> n, why |-> why] OBVIOUS
<1>4. o \in Ops /\ o.kind = "finish" /\ o.msg = m /\ o.full = n /\ o.why = why BY <1>2, <1>3 DEF Ops
<1>5. /\ speech'.msg = m /\ ~speech'.open /\ listed' = 0
      /\ streams' = IF listed = m THEN [streams EXCEPT ![m].timer = FALSE] ELSE streams
      /\ chain' = Append(chain, o)
      /\ said' = [said EXCEPT ![m] = IF why = "aborted" THEN {} ELSE 1..n]
      /\ UNCHANGED <<support, doing, chat, draft, errors, seen, cut>>
  BY <1>3 DEF Ends
<1>6. PICK e \in Nat : /\ e = Len(chain) + 1 /\ DOMAIN chain = 1..Len(chain) /\ Len(chain) \in Nat
                       /\ e \in DOMAIN chain' /\ chain'[e] = o
                       /\ (\A j \in DOMAIN chain' : j \notin DOMAIN chain => j = e) /\ Joins
  BY <1>1, <1>4, <1>5, JoinsOne
<1>7. \/ ~speech.open /\ m > speech.msg /\ streams[m] = NoStream /\ streams'[m] = NoStream /\ ~Writing(m)
      \/ speech.open /\ m = speech.msg /\ listed = m /\ Writing(m) /\ streams[m].pending <= n
         /\ streams'[m] = [streams[m] EXCEPT !.timer = FALSE]
  <2>1. CASE ~speech.open /\ m = speech.msg + 1
    <3>1. m > speech.msg /\ listed = 0 /\ listed # m BY <1>1, <1>2, <2>1 DEF ListedIsWritten
    <3> QED BY <1>1, <1>5, <2>1, <3>1 DEF StreamFits, Writing
  <2>2. CASE speech.open /\ m = speech.msg /\ speech.len <= n
    <3>1. listed = m /\ Writing(m) /\ streams[m].pending <= speech.len
      BY <1>1, <2>2 DEF ListedIsWritten, Writing, StreamFits
    <3>2. streams[m].pending <= n BY <1>2, <2>2, <3>1
    <3> QED BY <1>2, <1>5, <2>2, <3>1, <3>2
  <2> QED BY <2>1, <2>2
<1>8. \A k \in Messages : k # m => streams'[k] = streams[k] /\ said'[k] = said[k] BY <1>2, <1>5
<1>9. said'[m] = IF why = "aborted" THEN {} ELSE 1..n BY <1>2, <1>5
<1>10. /\ Grows(m) /\ streams'[m].pending = streams[m].pending /\ streams[m].pending <= n
       /\ ~streams'[m].timer
  <2>1. CASE streams[m] = NoStream /\ streams'[m] = NoStream
    <3>1. NoStream.pending = 0 /\ NoStream.timer = FALSE BY DEF NoStream
    <3> QED BY <1>2, <2>1, <3>1 DEF Grows
  <2>2. CASE streams'[m] = [streams[m] EXCEPT !.timer = FALSE] /\ streams[m].pending <= n
    BY <1>2, <2>2 DEF Grows, Streams
  <2> QED BY <1>7, <2>1, <2>2
<1>11. ASSUME NEW k \in Messages, k > speech.msg PROVE ~Touched(k) /\ streams[k] = NoStream
  BY <1>1, <1>2, <1>11 DEF InTurn, Past, StreamFits
<1>12. Event
  <2>1. ASSUME NEW k \in Messages PROVE Grows(k) BY <1>2, <1>8, <1>10 DEF Grows
  <2>2. ASSUME NEW k \in Messages, k > speech.msg PROVE ~Touched(k)'
    <3>1. streams'[k] = streams[k] BY <1>2, <1>7, <1>8, <2>2
    <3> QED BY <1>5, <1>11, <2>2, <3>1 DEF Touched
  <2>3. speech.msg <= speech'.msg BY <1>2, <1>5, <1>7
  <2> QED BY <1>5, <1>6, <2>1, <2>2, <2>3 DEF Event
<1>13. InTurn' /\ TodoOfHead' BY <1>1, <1>12, EventInTurn
<1>14. FinishOf(m) = {}
  <2>1. CASE m > speech.msg BY <1>1, <1>2, <2>1 DEF InTurn, FinishOf
  <2>2. CASE Writing(m) BY <1>1, <2>2 DEF FinishLast
  <2> QED BY <1>7, <2>1, <2>2
<1>15. ASSUME NEW k \in Messages
       PROVE  /\ k # m => FinishOf(k)' = FinishOf(k) /\ OpsOf(k)' = OpsOf(k)
              /\ ~Writing(k)' /\ (Writing(k) => k = m)
  <2>1. k # m => FinishOf(k)' = FinishOf(k) /\ OpsOf(k)' = OpsOf(k)
    BY <1>4, <1>6 DEF FinishOf, OpsOf, Joins
  <2> QED BY <1>5, <1>7, <2>1 DEF Writing
<1>16. FinishOf(m)' = {e} /\ \A j \in OpsOf(m)' : j <= e
  <2>1. e \in FinishOf(m)' BY <1>4, <1>6 DEF FinishOf
  <2>2. ASSUME NEW j \in FinishOf(m)' PROVE j = e BY <1>6, <1>14 DEF FinishOf, Joins
  <2>3. ASSUME NEW j \in OpsOf(m)' PROVE j <= e BY <1>6 DEF OpsOf
  <2> QED BY <2>1, <2>2, <2>3
<1>17. FinishLast'
  <2> SUFFICES ASSUME NEW k \in Messages, NEW i \in FinishOf(k)'
               PROVE  /\ ~Writing(k)' /\ (\A j \in OpsOf(k)' : j <= i)
                      /\ streams'[k].pending <= chain'[i].full
                      /\ said'[k] = IF chain'[i].why = "aborted" THEN {} ELSE 1..chain'[i].full
    BY DEF FinishLast
  <2>1. CASE k = m BY <1>4, <1>6, <1>9, <1>10, <1>15, <1>16, <2>1
  <2>2. CASE k # m
    <3>1. i \in FinishOf(k) /\ chain'[i] = chain[i] BY <1>6, <1>15, <2>2 DEF FinishOf, Joins
    <3>2. /\ (\A j \in OpsOf(k) : j <= i) /\ streams[k].pending <= chain[i].full
          /\ said[k] = IF chain[i].why = "aborted" THEN {} ELSE 1..chain[i].full
      BY <1>1, <3>1 DEF FinishLast
    <3> QED BY <1>8, <1>15, <2>2, <3>1, <3>2
  <2> QED BY <2>1, <2>2
<1>18. ASSUME NEW k \in Messages PROVE StreamFits(k)'
  <2>1. StreamFits(k) BY <1>1
  <2>2. CASE k = m
    <3>1. ~(streams[m].drafted /\ support = "unsupported")
      <4>1. ~NoStream.drafted BY DEF NoStream
      <4> QED BY <1>7, <2>1, <2>2, <4>1 DEF StreamFits
    <3>2. ~(m > speech'.msg) BY <1>2, <1>5
    <3> QED BY <1>5, <1>10, <1>15, <2>1, <2>2, <3>1, <3>2 DEF StreamFits, Grows
  <2>3. CASE k # m
    <3>1. streams'[k] = streams[k] /\ ~Writing(k) /\ ~Writing(k)' /\ OpsOf(k)' = OpsOf(k)
      BY <1>8, <1>15, <2>3
    <3>2. k > speech'.msg => k > speech.msg BY <1>2, <1>5, <1>7
    <3> QED BY <1>5, <2>1, <3>1, <3>2 DEF StreamFits
  <2> QED BY <2>2, <2>3
<1>19. ListedIsWritten' BY <1>5 DEF ListedIsWritten
<1>20. ASSUME NEW k \in Messages PROVE MessageFits(k)'
  <2>1. CASE k <= speech.msg
    <3>1. Working(k)' <=> Working(k)
      <4>1. CASE k = m
        <5>1. Writing(m) BY <1>2, <1>7, <2>1, <4>1
        <5> QED BY <1>16, <4>1, <5>1 DEF Working
      <4>2. CASE k # m BY <1>15, <4>2 DEF Working
      <4> QED BY <4>1, <4>2
    <3>2. FinishOf(k) # {} \/ ~Working(k) => said'[k] = said[k]
      <4>1. k = m => Writing(m) BY <1>2, <1>7, <2>1
      <4> QED BY <1>8, <1>14, <4>1 DEF Working
    <3> QED BY <1>1, <1>5, <1>12, <2>1, <3>1, <3>2, EventFits
  <2>2. CASE ~(k <= speech.msg)
    <3>1. k > speech.msg /\ (Working(k)' \/ k > speech'.msg)
      <4>1. k = m => Working(k)' BY <1>16 DEF Working
      <4>2. k # m => k > speech'.msg BY <1>2, <1>5, <1>7, <2>2
      <4> QED BY <1>2, <2>2, <4>1, <4>2
    <3> QED BY <1>1, <1>12, <3>1, FreshFits
  <2> QED BY <2>1, <2>2
<1> QED BY <1>13, <1>17, <1>18, <1>19, <1>20 DEF SaidInv, ChainFits

LEMMA MessageEndSaid ==
    ASSUME SaidInv, SayTypes', NEW why \in {"done", "error", "aborted"}, MessageEnd(why) PROVE SaidInv'
<1>1. speech.msg \in 0..MaxMessages /\ speech.len \in 0..MaxText /\ (speech.open => speech.msg # 0)
  BY DEF SaidInv, SayTypes
<1>2. CASE ~speech.open /\ speech.msg < MaxMessages /\ Ends(speech.msg + 1, 1, why)
  <2>1. speech.msg + 1 \in Messages /\ 1 \in 0..MaxText
    BY <1>1, <1>2, RepliesAssumption DEF Messages
  <2> QED BY <1>2, <2>1, EndsSaid
<1>3. CASE speech.open /\ \E n \in {speech.len, speech.len + 1} : n <= MaxText /\ Ends(speech.msg, n, why)
  <2>1. PICK n \in {speech.len, speech.len + 1} : n <= MaxText /\ Ends(speech.msg, n, why) BY <1>3
  <2>2. speech.msg \in Messages /\ n \in 0..MaxText /\ speech.len <= n
    BY <1>1, <1>3, <2>1, RepliesAssumption DEF Messages
  <2> QED BY <1>3, <2>1, <2>2, EndsSaid
<1> QED BY <1>2, <1>3 DEF MessageEnd

\* A channel that stops keeps its chain, which may find no chat; what was being
\* written is cut.
LEMMA StopRepliesSaid == ASSUME SaidInv, SayTypes', StopReplies PROVE SaidInv'
<1>1. /\ SayTypes /\ InTurn /\ FinishLast /\ TodoOfHead /\ ListedIsWritten
      /\ \A k \in Messages : StreamFits(k) /\ MessageFits(k)
  BY DEF SaidInv, ChainFits
<1>2. /\ speech.msg \in Nat
      /\ \A k \in Messages : k \in Nat /\ streams[k] \in Streams /\ streams[k].pending \in Nat
  <2>1. \A s \in Streams : s.pending \in Nat BY RepliesAssumption DEF Streams
  <2> QED BY <1>1, <2>1, SayVariables
<1>3. /\ speech'.msg = speech.msg /\ ~speech'.open /\ listed' = 0
      /\ UNCHANGED <<support, chain, doing, chat, draft, errors, said, seen>>
      /\ cut' = cut \cup IF speech.open THEN {speech.msg} ELSE {}
      /\ \A k \in Messages : streams'[k] = [streams[k] EXCEPT !.timer = FALSE]
  BY <1>1 DEF StopReplies, SayTypes
<1>4. ASSUME NEW k \in Messages
      PROVE  Grows(k) /\ streams'[k].pending = streams[k].pending /\ ~streams'[k].timer
  <2>1. PICK s, t : s = streams[k] /\ s \in Streams /\ t = [s EXCEPT !.timer = FALSE] BY <1>2
  <2>2. /\ t.mode = s.mode /\ t.drafted = s.drafted /\ t.posted = s.posted /\ t.last = s.last
        /\ t.delivered = s.delivered /\ t.pending = s.pending /\ t.timer = FALSE
    BY <2>1 DEF Streams
  <2>3. streams'[k] = t /\ s.pending \in Nat BY <1>2, <1>3, <2>1
  <2>4. s.pending <= t.pending BY <2>2, <2>3
  <2> QED BY <2>1, <2>2, <2>3, <2>4 DEF Grows
<1>5. ASSUME NEW k \in Messages, k > speech.msg PROVE ~Touched(k) /\ streams'[k] = NoStream
  <2>1. ~Touched(k) /\ streams[k] = NoStream BY <1>1, <1>2, <1>5 DEF InTurn, Past, StreamFits
  <2>2. PICK s, t : s = streams[k] /\ s \in Streams /\ t = [s EXCEPT !.timer = FALSE] BY <1>2
  <2>3. s.timer = FALSE BY <2>1, <2>2 DEF NoStream
  <2>4. t = s BY <2>2, <2>3 DEF Streams
  <2> QED BY <1>3, <2>1, <2>2, <2>4
<1>6. Event
  <2>1. \A k \in Messages : k > speech.msg => ~Touched(k)' BY <1>3, <1>4, <1>5 DEF Touched, Grows
  <2> QED BY <1>2, <1>3, <1>4, <2>1 DEF Event, Joins
<1>7. InTurn' /\ TodoOfHead' BY <1>1, <1>6, EventInTurn
<1>8. ASSUME NEW k \in Messages
      PROVE  FinishOf(k)' = FinishOf(k) /\ OpsOf(k)' = OpsOf(k) /\ ~Writing(k)'
  BY <1>3 DEF FinishOf, OpsOf, Writing
<1>9. FinishLast' BY <1>1, <1>3, <1>4, <1>8 DEF FinishLast
<1>10. ASSUME NEW k \in Messages PROVE StreamFits(k)'
  <2>1. StreamFits(k) BY <1>1
  <2>2. streams[k].drafted /\ support = "unsupported" => OpsOf(k)' = {} BY <1>8, <2>1 DEF StreamFits
  <2> QED BY <1>3, <1>4, <1>5, <1>8, <2>1, <2>2 DEF StreamFits, Grows
<1>11. ListedIsWritten' BY <1>3 DEF ListedIsWritten
<1>12. ASSUME NEW k \in Messages PROVE MessageFits(k)'
  <2>1. CASE k <= speech.msg
    <3>1. k \notin cut' => (Working(k)' <=> Working(k)) BY <1>3, <1>8 DEF Working, Writing
    <3> QED BY <1>1, <1>3, <1>6, <2>1, <3>1, EventFits
  <2>2. CASE ~(k <= speech.msg)
    <3>1. k > speech.msg /\ k > speech'.msg BY <1>2, <1>3, <2>2
    <3> QED BY <1>1, <1>6, <3>1, FreshFits
  <2> QED BY <2>1, <2>2
<1> QED BY <1>7, <1>9, <1>10, <1>11, <1>12 DEF SaidInv, ChainFits

\* A process that ends takes the streams and the chain with it; what was in them is cut.
LEMMA ForgetRepliesSaid == ASSUME SaidInv, SayTypes', ForgetReplies PROVE SaidInv'
<1>1. /\ SayTypes /\ InTurn /\ \A k \in Messages : MessageFits(k) BY DEF SaidInv, ChainFits
<1>2. speech.msg \in Nat /\ \A k \in Messages : k \in Nat /\ k # 0 BY <1>1, SayVariables
<1>3. PICK e : e = <<>> OBVIOUS
<1>4. DOMAIN e = {} BY <1>3
<1>5. /\ speech'.msg = speech.msg /\ ~speech'.open /\ listed' = 0
      /\ \A k \in Messages : streams'[k] = NoStream
      /\ chain' = e /\ doing'.at = "idle"
      /\ cut' = cut \cup {chain[i].msg : i \in DOMAIN chain} \cup {speech.msg}
      /\ UNCHANGED <<chat, draft, errors, said, seen>>
  BY <1>1, <1>3 DEF ForgetReplies, SayTypes, Idle
<1>6. ~NoStream.drafted /\ ~NoStream.posted /\ NoStream.last = {} /\ NoStream.delivered = 0
      /\ NoStream.pending = 0 /\ NoStream.timer = FALSE
  BY DEF NoStream
<1>7. InTurn'
  <2>1. \A x \in Nat : Past(x) => x <= speech.msg BY DEF Past
  <2>2. \A k \in Messages : Touched(k)' => k <= speech.msg
    BY <1>1, <1>5, <1>6 DEF Touched, InTurn, Past
  <2>3. draft.msg <= speech.msg /\ \A i \in DOMAIN chat : chat[i].msg <= speech.msg
    BY <1>1 DEF InTurn, Past
  <2>4. ChatInOrder' BY <1>1, <1>5 DEF InTurn, ChatInOrder
  <2> QED BY <1>4, <1>5, <2>2, <2>3, <2>4 DEF InTurn, Past
<1>8. \A k : FinishOf(k)' = {} /\ OpsOf(k)' = {} /\ ~Writing(k)'
  BY <1>4, <1>5 DEF FinishOf, OpsOf, Writing
<1>9. FinishLast' /\ TodoOfHead' /\ ListedIsWritten'
  BY <1>5, <1>8 DEF FinishLast, TodoOfHead, ListedIsWritten
<1>10. ASSUME NEW k \in Messages PROVE StreamFits(k)' BY <1>5, <1>6, <1>8 DEF StreamFits
<1>11. ASSUME NEW k \in Messages PROVE MessageFits(k)'
  <2> SUFFICES ASSUME k \notin cut', k <= speech.msg PROVE MessageFits(k)' BY <1>5 DEF MessageFits
  <2>1. k \notin cut /\ ~Working(k) /\ ~Working(k)' BY <1>5, <1>8 DEF Working, Writing, FinishOf
  <2>2. SaidOnce(k) /\ DraftIsEnded(k) BY <1>1, <2>1 DEF MessageFits
  <2>3. SaidOnce(k)' /\ DraftIsEnded(k)' BY <1>5, <2>2 DEF SaidOnce, InChat, Entries, DraftIsEnded
  <2> QED BY <1>8, <2>1, <2>3 DEF MessageFits
<1> QED BY <1>7, <1>9, <1>10, <1>11 DEF SaidInv, ChainFits

\* More that is cut leaves less to be said.
LEMMA CutSaid ==
    ASSUME SaidInv, SayTypes', cut \subseteq cut',
           UNCHANGED <<speech, streams, listed, support, chain, doing, chat, draft, errors, said, seen>>
    PROVE  SaidInv'
<1>1. /\ SayTypes /\ InTurn /\ FinishLast /\ TodoOfHead /\ ListedIsWritten
      /\ \A k \in Messages : StreamFits(k) /\ MessageFits(k)
  BY DEF SaidInv, ChainFits
<1>2. InTurn' /\ FinishLast'
  BY <1>1 DEF InTurn, ChatInOrder, Past, Touched, FinishLast, Writing, FinishOf, OpsOf
<1>3. TodoOfHead' /\ ListedIsWritten' BY <1>1 DEF TodoOfHead, HeadMsg, ListedIsWritten
<1>4. ASSUME NEW k \in Messages PROVE StreamFits(k)' BY <1>1 DEF StreamFits, Writing, OpsOf
<1>5. ASSUME NEW k \in Messages PROVE MessageFits(k)'
  <2>1. UNCHANGED <<Working(k), OpsOf(k), Entries(k), InChat(k), Beginning(k), Drafting(k)>>
    BY DEF Working, Writing, FinishOf, OpsOf, Entries, InChat, Beginning, Drafting, Truncate, AfterDelivered
  <2>2. (Sending(k)' <=> Sending(k)) /\ (Flushing(k)' <=> Flushing(k)) /\ (SaidOnce(k)' <=> SaidOnce(k))
    BY <2>1 DEF Sending, Flushing, HeadMsg, SaidOnce
  <2>3. Stands(k) => Stands(k)'
    BY <2>1, <2>2 DEF Stands, DeliveredIsSaid, PreviewFits, FlushFits, SeenIsKept, DraftIsKept
  <2>4. (CloseFits(k) => CloseFits(k)') /\ (FinishFits(k) => FinishFits(k)')
    BY <2>1 DEF CloseFits, FinishFits, WithPreview
  <2> QED BY <1>1, <2>1, <2>2, <2>3, <2>4 DEF MessageFits, DraftIsEnded
<1> QED BY <1>2, <1>3, <1>4, <1>5 DEF SaidInv, ChainFits

--------------------
(* What the head of the chain does leaves every other message alone. *)

\* The chain, or what is left of it when its head is over.
Shifted(d) ==
    /\ \A i \in DOMAIN chain' : i \in Nat \ {0} /\ i + d \in DOMAIN chain /\ chain'[i] = chain[i + d]
    /\ \A i \in DOMAIN chain : i \in Nat \ {0} /\ (i > d => i - d \in DOMAIN chain' /\ chain'[i - d] = chain[i])

LEMMA ShiftedChain ==
    ASSUME SayTypes, chain # <<>>
    PROVE  /\ chain' = chain => Shifted(0)
           /\ chain' = Tail(chain) => Shifted(1)
<1>1. PICK q \in Seq(Ops) : q = chain BY SayVariables
<1>2. PICK r : r = Tail(q) OBVIOUS
<1>3. /\ Len(q) \in Nat \ {0} /\ DOMAIN q = 1..Len(q) /\ DOMAIN r = 1..(Len(q) - 1)
      /\ \A i \in 1..(Len(q) - 1) : r[i] = q[i + 1]
  BY <1>1, <1>2, TailAt
<1>4. ASSUME chain' = chain PROVE Shifted(0)
  <2>1. \A i \in DOMAIN q : i \in Nat \ {0} /\ i + 0 = i /\ i - 0 = i BY <1>3
  <2> QED BY <1>1, <1>4, <2>1 DEF Shifted
<1>5. ASSUME chain' = Tail(chain) PROVE Shifted(1)
  <2>1. chain' = r BY <1>1, <1>2, <1>5
  <2>2. \A i \in DOMAIN r : i \in Nat \ {0} /\ i + 1 \in DOMAIN q /\ r[i] = q[i + 1] BY <1>3
  <2>3. ASSUME NEW i \in DOMAIN q
        PROVE  i \in Nat \ {0} /\ (i > 1 => i - 1 \in DOMAIN r /\ r[i - 1] = q[i])
    <3>1. i \in Nat \ {0} BY <1>3
    <3>2. ASSUME i > 1 PROVE i - 1 \in DOMAIN r /\ r[i - 1] = q[i]
      <4>1. i - 1 \in 1..(Len(q) - 1) /\ (i - 1) + 1 = i BY <1>3, <3>1, <3>2
      <4> QED BY <1>3, <4>1
    <3> QED BY <3>1, <3>2
  <2> QED BY <1>1, <2>1, <2>2, <2>3 DEF Shifted
<1> QED BY <1>4, <1>5

\* A step of the head: only what the channel and the chat hold of its message changes.
ChatMoves ==
    /\ DOMAIN chat \subseteq DOMAIN chat'
    /\ \A i \in DOMAIN chat : chat'[i].msg = chat[i].msg /\ (chat[i].msg # HeadMsg => chat'[i] = chat[i])
    /\ \A j \in DOMAIN chat' : j \notin DOMAIN chat =>
         chat'[j].msg = HeadMsg /\ \A i \in DOMAIN chat : i < j
    /\ draft' = draft \/ draft'.msg \in {0, HeadMsg}
HeadStep ==
    /\ chain # <<>> /\ UNCHANGED <<speech, listed, said>>
    /\ chain' = chain \/ (chain' = Tail(chain) /\ doing'.at = "idle")
    /\ \A m \in Messages :
         /\ streams'[m].pending = streams[m].pending /\ streams'[m].timer = streams[m].timer
         /\ m # HeadMsg => streams'[m] = streams[m] /\ seen'[m] = seen[m]
    /\ cut \subseteq cut'
    /\ ChatMoves

LEMMA HeadStepInTurn ==
    ASSUME SayTypes, SayTypes', InTurn, HeadStep PROVE InTurn'
<1>1. PICK d \in {0, 1} : Shifted(d) BY ShiftedChain DEF HeadStep, ChatMoves
<1>2. /\ speech' = speech /\ HeadMsg \in Nat /\ HeadMsg = chain[1].msg /\ 1 \in DOMAIN chain
  BY HeadAt DEF HeadStep, ChatMoves
<1>3. ASSUME NEW x \in Nat, Past(x) PROVE Past(x)' BY <1>1, <1>2, <1>3 DEF Past, Shifted
<1>4. Past(HeadMsg) /\ Past(0)
  <2>1. \A i \in DOMAIN chain : HeadMsg <= chain[i].msg
    <3> SUFFICES ASSUME NEW i \in DOMAIN chain PROVE HeadMsg <= chain[i].msg OBVIOUS
    <3>1. i = 1 \/ 1 < i BY <1>1 DEF Shifted
    <3>2. HeadMsg <= HeadMsg BY <1>2
    <3> QED BY <1>2, <3>1, <3>2 DEF InTurn
  <2>2. HeadMsg <= speech.msg BY <1>2 DEF InTurn
  <2>3. speech.msg \in Nat /\ \A i \in DOMAIN chain : chain[i].msg \in Nat
    <3>1. \A o \in Ops : o.msg \in Nat BY RepliesAssumption DEF Ops
    <3> QED BY <3>1, SayVariables
  <2> QED BY <2>1, <2>2, <2>3 DEF Past
<1>5. \A i \in DOMAIN chain' : chain'[i].msg <= speech'.msg BY <1>1, <1>2 DEF InTurn, Shifted
<1>6. \A i, j \in DOMAIN chain' : i < j => chain'[i].msg <= chain'[j].msg
  <2> SUFFICES ASSUME NEW i \in DOMAIN chain', NEW j \in DOMAIN chain', i < j
               PROVE  chain'[i].msg <= chain'[j].msg
    OBVIOUS
  <2>1. i + d \in DOMAIN chain /\ j + d \in DOMAIN chain /\ i + d < j + d BY <1>1 DEF Shifted
  <2> QED BY <1>1, <2>1 DEF Shifted, InTurn
<1>7. /\ DOMAIN chat' = 1..Len(chat') /\ DOMAIN chat = 1..Len(chat) /\ Len(chat) \in Nat /\ Len(chat') \in Nat
      /\ \A i \in DOMAIN chat : chat[i].msg \in Nat /\ Past(chat[i].msg)
  <2>1. \A e \in Items \cup Previews : e.msg \in Nat
    BY RepliesAssumption DEF Items, Previews, Messages
  <2> QED BY <2>1, SayVariables, SayVariablesNext DEF InTurn
<1>8. \A j \in DOMAIN chat' : \A x \in Nat : x = chat'[j].msg => Past(x)'
  <2> SUFFICES ASSUME NEW j \in DOMAIN chat', NEW x \in Nat, x = chat'[j].msg PROVE Past(x)' OBVIOUS
  <2>1. CASE j \in DOMAIN chat
    <3>1. x = chat[j].msg BY <2>1 DEF HeadStep, ChatMoves
    <3>2. Past(x) BY <1>7, <2>1, <3>1
    <3> QED BY <1>3, <3>2
  <2>2. CASE j \notin DOMAIN chat
    <3>1. x = HeadMsg BY <2>2 DEF HeadStep, ChatMoves
    <3>2. Past(x) BY <1>4, <3>1
    <3> QED BY <1>3, <3>2
  <2> QED BY <2>1, <2>2
<1>9. ChatInOrder'
  <2> SUFFICES ASSUME NEW i \in DOMAIN chat', NEW j \in DOMAIN chat', i < j
               PROVE  chat'[i].msg <= chat'[j].msg
    BY DEF ChatInOrder
  <2>1. CASE j \in DOMAIN chat
    <3>1. i \in DOMAIN chat BY <1>7, <2>1
    <3> QED BY <2>1, <3>1 DEF HeadStep, ChatMoves, InTurn, ChatInOrder
  <2>2. CASE j \notin DOMAIN chat
    <3>1. chat'[j].msg = HeadMsg BY <2>2 DEF HeadStep, ChatMoves
    <3>2. CASE i \in DOMAIN chat
      <4>1. chat'[i].msg = chat[i].msg /\ chat[i].msg <= chain[1].msg
        BY <1>2, <1>7, <3>2 DEF HeadStep, ChatMoves, Past
      <4> QED BY <1>2, <3>1, <4>1
    <3>3. CASE i \notin DOMAIN chat
      <4>1. chat'[i].msg = HeadMsg BY <3>3 DEF HeadStep, ChatMoves
      <4> QED BY <1>2, <3>1, <4>1
    <3> QED BY <3>2, <3>3
  <2> QED BY <2>1, <2>2
<1>10. Past(draft.msg)'
  <2>1. PICK x \in Nat : x = draft'.msg BY SayVariablesNext
  <2>2. Past(x) BY <1>4, <2>1 DEF HeadStep, ChatMoves, InTurn
  <2> QED BY <1>3, <2>1, <2>2
<1>11. ASSUME NEW m \in Messages, Touched(m)' PROVE Past(m)'
  <2>1. CASE m = HeadMsg BY <1>2, <1>3, <1>4, <2>1
  <2>2. CASE m # HeadMsg
    <3>1. Touched(m) BY <1>11, <2>2 DEF HeadStep, ChatMoves, Touched
    <3> QED BY <1>3, <3>1, SayVariables DEF InTurn
  <2> QED BY <2>1, <2>2
<1>12. \A i \in DOMAIN chat' : chat'[i].msg \in Nat
  <2>1. \A e \in Items \cup Previews : e.msg \in Nat
    BY RepliesAssumption DEF Items, Previews, Messages
  <2> QED BY <2>1, SayVariablesNext
<1>13. \A i \in DOMAIN chat' : Past(chat[i].msg)' BY <1>8, <1>12 DEF Past
<1> QED BY <1>5, <1>6, <1>9, <1>10, <1>11, <1>13 DEF InTurn

\* The operations of the other messages, and of the head's own when it is not over or
\* was not the one asked about.
LEMMA HeadStepOps ==
    ASSUME SayTypes, HeadStep, NEW m \in Messages
    PROVE  /\ (Writing(m)' <=> Writing(m))
           /\ OpsOf(m) = {} => OpsOf(m)' = {}
           /\ m # HeadMsg \/ Head(chain).kind # "finish" \/ chain' = chain => (Working(m)' <=> Working(m))
<1>1. PICK d \in {0, 1} : Shifted(d) /\ (chain' = chain \/ d = 1)
  BY ShiftedChain DEF HeadStep, ChatMoves
<1>2. Head(chain) = chain[1] /\ HeadMsg = chain[1].msg BY HeadAt DEF HeadStep, ChatMoves
<1>3. Writing(m)' <=> Writing(m) BY DEF HeadStep, ChatMoves, Writing
<1>4. ASSUME OpsOf(m) = {} PROVE OpsOf(m)' = {}
  <2> SUFFICES ASSUME NEW i \in OpsOf(m)' PROVE FALSE OBVIOUS
  <2>1. i + d \in OpsOf(m) BY <1>1 DEF Shifted, OpsOf
  <2> QED BY <1>4, <2>1
<1>5. ASSUME m # HeadMsg \/ Head(chain).kind # "finish" \/ chain' = chain
      PROVE  FinishOf(m)' = {} <=> FinishOf(m) = {}
  <2>1. ASSUME NEW i \in FinishOf(m)' PROVE FinishOf(m) # {}
    <3>1. i + d \in FinishOf(m) BY <1>1, <2>1 DEF Shifted, FinishOf
    <3> QED BY <3>1
  <2>2. ASSUME NEW i \in FinishOf(m) PROVE FinishOf(m)' # {}
    <3>1. CASE chain' = chain BY <2>2, <3>1 DEF FinishOf
    <3>2. CASE chain' # chain
      <4>1. i \in DOMAIN chain /\ i # 1 /\ d = 1 BY <1>1, <1>2, <1>5, <2>2, <3>2 DEF FinishOf
      <4>2. i > 1 BY <1>1, <4>1 DEF Shifted
      <4>3. i - 1 \in FinishOf(m)' BY <1>1, <2>2, <4>1, <4>2 DEF Shifted, FinishOf
      <4> QED BY <4>3
    <3> QED BY <3>1, <3>2
  <2> QED BY <2>1, <2>2
<1> QED BY <1>3, <1>4, <1>5 DEF Working

LEMMA HeadStepFinishLast ==
    ASSUME SayTypes, FinishLast, HeadStep PROVE FinishLast'
<1>1. PICK d \in {0, 1} : Shifted(d) BY ShiftedChain DEF HeadStep, ChatMoves
<1> SUFFICES ASSUME NEW m \in Messages, NEW i \in FinishOf(m)'
             PROVE  /\ ~Writing(m)' /\ (\A j \in OpsOf(m)' : j <= i)
                    /\ streams'[m].pending <= chain'[i].full
                    /\ said'[m] = IF chain'[i].why = "aborted" THEN {} ELSE 1..chain'[i].full
  BY DEF FinishLast
<1>2. i + d \in FinishOf(m) /\ chain'[i] = chain[i + d] /\ i \in Nat BY <1>1 DEF Shifted, FinishOf
<1>3. /\ ~Writing(m) /\ (\A j \in OpsOf(m) : j <= i + d)
      /\ streams[m].pending <= chain[i + d].full
      /\ said[m] = IF chain[i + d].why = "aborted" THEN {} ELSE 1..chain[i + d].full
  BY <1>2 DEF FinishLast
<1>4. ASSUME NEW j \in OpsOf(m)' PROVE j <= i
  <2>1. j + d \in OpsOf(m) /\ j \in Nat BY <1>1 DEF Shifted, OpsOf
  <2> QED BY <1>2, <1>3, <2>1
<1>5. ~Writing(m)' BY <1>3, HeadStepOps
<1> QED BY <1>2, <1>3, <1>4, <1>5 DEF HeadStep, ChatMoves

\* An operation of a stream comes from a message that is being written or is to be
\* finished, unless something of it is cut.
LEMMA HeadWorks ==
    ASSUME SaidInv, chain # <<>>, NEW m \in Messages, m = HeadMsg
    PROVE  /\ m <= speech.msg
           /\ Head(chain).kind \in OfStream => 1 \in OpsOf(m) /\ OpsOf(m) # {} /\ (m \notin cut => Working(m))
           /\ \A k \in Messages : k # m /\ Touched(k) => ~Writing(k) /\ OpsOf(k) = {}
<1>1. SayTypes /\ InTurn /\ MessageFits(m) BY DEF SaidInv, ChainFits
<1>2. /\ 1 \in DOMAIN chain /\ Head(chain) = chain[1] /\ m = chain[1].msg /\ m \in Nat
      /\ speech.msg \in Nat /\ DOMAIN chain = 1..Len(chain) /\ Len(chain) \in Nat
  BY <1>1, HeadAt, SayVariables
<1>3. m <= speech.msg BY <1>1, <1>2 DEF InTurn
<1>4. Head(chain).kind \in OfStream => 1 \in OpsOf(m) BY <1>2 DEF OpsOf
<1>5. ASSUME NEW k \in Messages, k # m, Touched(k) PROVE ~Writing(k) /\ OpsOf(k) = {}
  <2>1. k < m /\ k \in Nat BY <1>1, <1>2, <1>5, SayVariables DEF InTurn, Past
  <2>2. ~Writing(k) BY <1>2, <1>3, <2>1 DEF Writing
  <2>3. ASSUME NEW i \in OpsOf(k) PROVE FALSE
    <3>1. i \in DOMAIN chain /\ chain[i].msg = k BY DEF OpsOf
    <3>2. i = 1 \/ 1 < i BY <1>2, <3>1
    <3>3. m <= k BY <1>1, <1>2, <3>1, <3>2 DEF InTurn
    <3> QED BY <1>2, <2>1, <3>3
  <2> QED BY <2>2, <2>3
<1> QED BY <1>1, <1>3, <1>4, <1>5 DEF MessageFits

\* The head's own stream, where what changes of it fits.
LEMMA HeadStepStreams ==
    ASSUME SaidInv, SayTypes', HeadStep,
           support' # support => Head(chain).kind \in OfStream,
           \A m \in Messages : m = HeadMsg =>
              \/ streams'[m] = streams[m] /\ support' = support
              \/ /\ streams'[m].drafted => streams'[m].mode = "draft" /\ support' # "unsupported"
                 /\ streams'[m].posted => streams'[m].mode = "message"
                 /\ streams'[m].delivered <= streams'[m].pending
    PROVE  \A m \in Messages : StreamFits(m)'
<1> SUFFICES ASSUME NEW m \in Messages PROVE StreamFits(m)' OBVIOUS
<1>1. SayTypes /\ InTurn /\ StreamFits(m) BY DEF SaidInv, ChainFits
<1>2. (Writing(m)' <=> Writing(m)) /\ (OpsOf(m) = {} => OpsOf(m)' = {}) BY <1>1, HeadStepOps
<1>3. /\ streams'[m].pending = streams[m].pending /\ streams'[m].timer = streams[m].timer
      /\ speech' = speech
  BY DEF HeadStep, ChatMoves
<1>4. CASE m = HeadMsg
  <2>1. ~(m > speech.msg)
    <3>1. m <= speech.msg /\ speech.msg \in Nat /\ m \in Nat
      BY <1>1, <1>4, HeadWorks, SayVariables DEF HeadStep, ChatMoves
    <3> QED BY <3>1
  <2>2. CASE streams'[m] = streams[m] /\ support' = support
    BY <1>1, <1>2, <1>3, <2>1, <2>2 DEF StreamFits
  <2>3. CASE /\ streams'[m].drafted => streams'[m].mode = "draft" /\ support' # "unsupported"
             /\ streams'[m].posted => streams'[m].mode = "message"
             /\ streams'[m].delivered <= streams'[m].pending
    BY <1>1, <1>2, <1>3, <2>1, <2>3 DEF StreamFits
  <2> QED BY <1>4, <2>2, <2>3
<1>5. CASE m # HeadMsg
  <2>1. streams'[m] = streams[m] BY <1>5 DEF HeadStep, ChatMoves
  <2>2. ASSUME streams[m].drafted, support' = "unsupported" PROVE ~Writing(m) /\ OpsOf(m) = {}
    <3>1. CASE support' = support BY <1>1, <2>2, <3>1 DEF StreamFits
    <3>2. CASE support' # support
      <4>1. HeadMsg \in Messages /\ chain # <<>> BY <1>1, <3>2, HeadAt DEF HeadStep, ChatMoves
      <4>2. Touched(m) BY <2>2 DEF Touched
      <4>3. PICK h \in Messages : h = HeadMsg BY <4>1
      <4> QED BY <1>5, <4>1, <4>2, <4>3, HeadWorks
    <3> QED BY <3>1, <3>2
  <2> QED BY <1>1, <1>2, <1>3, <2>1, <2>2 DEF StreamFits
<1> QED BY <1>4, <1>5

\* A step that leaves alone what is known of a message, but for entries of the chat
\* that say nothing of it.
Aside(m) ==
    /\ UNCHANGED speech /\ said'[m] = said[m] /\ streams'[m] = streams[m] /\ seen'[m] = seen[m]
    /\ m \in cut => m \in cut'
    /\ Working(m)' <=> Working(m)
    /\ OpsOf(m) = {} => OpsOf(m)' = {}
    /\ ~Sending(m) /\ ~Sending(m)' /\ ~Flushing(m) /\ ~Flushing(m)'
    /\ \A i \in Entries(m) : i \in Entries(m)' /\ chat'[i] = chat[i]
    /\ \A j \in Entries(m)' : \/ j \in Entries(m)
                              \/ /\ chat'[j].text = {} /\ chat'[j].kind # "preview"
                                 /\ \A i \in Entries(m) : i < j
    /\ draft' = draft \/ draft'.msg # m

LEMMA AsideFits ==
    ASSUME SayTypes, SayTypes', NEW m \in Messages, MessageFits(m), Aside(m) PROVE MessageFits(m)'
<1> SUFFICES ASSUME m \notin cut', m <= speech.msg PROVE MessageFits(m)' BY DEF MessageFits, Aside
<1>0. m \notin cut /\ ~Sending(m)' /\ (Working(m)' <=> Working(m)) BY DEF Aside
<1>1. \A i \in Entries(m)', j \in Entries(m) : i < j => i \in Entries(m)
  <2> SUFFICES ASSUME NEW i \in Entries(m)', NEW j \in Entries(m), i < j, i \notin Entries(m) PROVE FALSE
    OBVIOUS
  <2>1. j < i BY DEF Aside
  <2>2. i \in Nat /\ j \in Nat BY SayVariables, SayVariablesNext DEF Entries
  <2> QED BY <2>1, <2>2
<1>2. ASSUME ~Working(m) PROVE SaidOnce(m)' /\ DraftIsEnded(m)' /\ OpsOf(m)' = {}
  <2>1. SaidOnce(m) /\ DraftIsEnded(m) /\ OpsOf(m) = {} BY <1>0, <1>2 DEF MessageFits
  <2>2. \A a \in said'[m] \cup seen'[m] : \E i \in Entries(m)' : a \in chat'[i].text
    BY <2>1 DEF SaidOnce, InChat, Aside
  <2>3. ASSUME NEW i \in Entries(m)', NEW j \in Entries(m)', i < j,
               NEW a \in chat'[i].text, NEW b \in chat'[j].text
        PROVE  a < b
    <3>1. i \in Entries(m) /\ j \in Entries(m) /\ chat'[i] = chat[i] /\ chat'[j] = chat[j]
      BY <2>3 DEF Aside
    <3> QED BY <2>1, <2>3, <3>1 DEF SaidOnce
  <2>4. SaidOnce(m)' BY <2>2, <2>3 DEF SaidOnce, InChat
  <2> QED BY <2>1, <2>4 DEF Aside, DraftIsEnded
<1>3. ASSUME Working(m) PROVE Stands(m)'
  <2>1. DeliveredIsSaid(m) /\ PreviewFits(m) /\ FlushFits(m) /\ SeenIsKept(m) /\ DraftIsKept(m)
    BY <1>0, <1>3 DEF MessageFits, Stands, Aside
  <2>2. Beginning(m)' = Beginning(m) /\ (Drafting(m)' <=> Drafting(m)) /\ ~Flushing(m) /\ ~Flushing(m)'
        /\ streams'[m] = streams[m] /\ seen'[m] = seen[m]
    BY DEF Beginning, Drafting, Aside
  <2>3. DeliveredIsSaid(m)'
    <3>1. \A i \in Entries(m)' : chat'[i].kind # "preview" => chat'[i].text \subseteq 1..streams'[m].delivered
      BY <2>1, <2>2 DEF DeliveredIsSaid, Aside
    <3>2. \A a \in 1..streams'[m].delivered :
             \E i \in Entries(m)' : chat'[i].kind # "preview" /\ a \in chat'[i].text
      BY <2>1, <2>2 DEF DeliveredIsSaid, Aside
    <3>3. ASSUME NEW i \in Entries(m)', NEW j \in Entries(m)', i < j,
                 chat'[i].kind # "preview", chat'[j].kind # "preview"
          PROVE  Before(chat'[i].text, chat'[j].text)
      <4>1. CASE chat'[i].text = {} \/ chat'[j].text = {} BY <4>1 DEF Before
      <4>2. CASE chat'[i].text # {} /\ chat'[j].text # {}
        <5>1. i \in Entries(m) /\ j \in Entries(m) /\ chat'[i] = chat[i] /\ chat'[j] = chat[j]
          BY <4>2 DEF Aside
        <5> QED BY <2>1, <3>3, <5>1 DEF DeliveredIsSaid
      <4> QED BY <4>1, <4>2
    <3> QED BY <3>1, <3>2, <3>3 DEF DeliveredIsSaid
  <2>4. PreviewFits(m)'
    <3>1. streams'[m].posted <=> \E i \in Entries(m)' : chat'[i].kind = "preview"
      BY <2>1, <2>2 DEF PreviewFits, Aside
    <3>2. ASSUME NEW i \in Entries(m)', chat'[i].kind = "preview"
          PROVE  /\ chat'[i].text # {} /\ chat'[i].text \subseteq Beginning(m)' /\ streams'[m].last \subseteq chat'[i].text
                 /\ \A j \in Entries(m)' : i < j => chat'[j].text = {}
      <4>1. i \in Entries(m) /\ chat'[i] = chat[i] BY <3>2 DEF Aside
      <4>2. \A j \in Entries(m)' : i < j => chat'[j].text = {}
        BY <2>1, <3>2, <4>1 DEF PreviewFits, Aside
      <4> QED BY <2>1, <2>2, <3>2, <4>1, <4>2 DEF PreviewFits
    <3> QED BY <2>2, <3>1, <3>2 DEF PreviewFits
  <2>5. FlushFits(m)' BY <2>2 DEF FlushFits
  <2>6. SeenIsKept(m)'
    <3> SUFFICES ASSUME NEW a \in seen[m]
                 PROVE  \/ a <= streams[m].delivered
                        \/ Drafting(m) /\ a \in Beginning(m)
                        \/ \E i \in Entries(m)' : chat'[i].kind = "preview" /\ a \in chat'[i].text
      BY <2>2 DEF SeenIsKept
    <3> QED BY <2>1, <2>2 DEF SeenIsKept, Aside
  <2>7. DraftIsKept(m)' BY <2>1, <2>2 DEF DraftIsKept, Aside
  <2> QED BY <2>3, <2>4, <2>5, <2>6, <2>7 DEF Stands
<1> QED BY <1>0, <1>2, <1>3 DEF MessageFits

\* The other messages, while the head is about one.
LEMMA HeadStepOthers ==
    ASSUME SaidInv, SayTypes', HeadStep, NEW m \in Messages, m # HeadMsg
    PROVE  MessageFits(m)'
<1>1. SayTypes /\ MessageFits(m) /\ m \in Nat /\ m # 0 BY SayVariables DEF SaidInv
<1>2. /\ (Working(m)' <=> Working(m)) /\ (OpsOf(m) = {} => OpsOf(m)' = {}) BY <1>1, HeadStepOps
<1>3. ~Sending(m) /\ ~Sending(m)' /\ ~Flushing(m) /\ ~Flushing(m)'
  <2>1. doing'.at # "idle" => HeadMsg' = HeadMsg BY DEF HeadStep, ChatMoves, HeadMsg
  <2> QED BY <2>1 DEF Sending, Flushing
<1>4. \A i \in Entries(m) : i \in Entries(m)' /\ chat'[i] = chat[i]
  BY DEF HeadStep, ChatMoves, Entries
<1>5. \A j \in Entries(m)' : j \in Entries(m) BY DEF HeadStep, ChatMoves, Entries
<1>6. draft' = draft \/ draft'.msg # m BY <1>1 DEF HeadStep, ChatMoves
<1>7. Aside(m) BY <1>2, <1>3, <1>4, <1>5, <1>6 DEF HeadStep, ChatMoves, Aside
<1> QED BY <1>1, <1>7, AsideFits

LEMMA PostedAt ==
    ASSUME SayTypes, NEW e \in Items \cup Previews, chat' = Append(chat, e)
    PROVE  /\ Len(chat) + 1 \in DOMAIN chat' /\ chat'[Len(chat) + 1] = e /\ Len(chat) + 1 \notin DOMAIN chat
           /\ \A i \in DOMAIN chat : i \in DOMAIN chat' /\ chat'[i] = chat[i] /\ i < Len(chat) + 1
           /\ \A j \in DOMAIN chat' : j \notin DOMAIN chat => j = Len(chat) + 1
           /\ Len(chat) \in Nat /\ chat' # chat
<1>1. PICK q \in Seq(Items \cup Previews) : q = chat BY SayVariables
<1>2. PICK r : r = chat' OBVIOUS
<1>3. /\ Len(q) \in Nat /\ DOMAIN q = 1..Len(q) /\ DOMAIN r = 1..(Len(q) + 1)
      /\ (\A i \in 1..Len(q) : r[i] = q[i]) /\ r[Len(q) + 1] = e
  BY <1>1, <1>2, AppendedAt
<1>4. Len(q) + 1 \notin DOMAIN q /\ Len(q) + 1 \in DOMAIN r BY <1>3
<1>5. r # q BY <1>4
<1>6. \A i \in DOMAIN q : i \in DOMAIN r /\ r[i] = q[i] /\ i < Len(q) + 1 BY <1>3
<1>7. \A j \in DOMAIN r : j \notin DOMAIN q => j = Len(q) + 1 BY <1>3
<1> QED BY <1>1, <1>2, <1>3, <1>4, <1>5, <1>6, <1>7

LEMMA WithPreviewAt ==
    ASSUME SayTypes, NEW m \in Messages, NEW text \in Text, NEW c, c = WithPreview(m, text)
    PROVE  /\ DOMAIN c = DOMAIN chat
           /\ \A i \in DOMAIN chat :
                /\ c[i].msg = chat[i].msg /\ c[i].kind = chat[i].kind
                /\ IF chat[i].msg = m /\ chat[i].kind = "preview" THEN c[i].text = text ELSE c[i] = chat[i]
<1>1. DOMAIN c = DOMAIN chat BY DEF WithPreview
<1>2. ASSUME NEW i \in DOMAIN chat
      PROVE  /\ c[i].msg = chat[i].msg /\ c[i].kind = chat[i].kind
             /\ IF chat[i].msg = m /\ chat[i].kind = "preview" THEN c[i].text = text ELSE c[i] = chat[i]
  <2>1. CASE chat[i].msg = m /\ chat[i].kind = "preview"
    <3>1. PICK e, f : e = chat[i] /\ f = [e EXCEPT !.text = text] OBVIOUS
    <3>2. c[i] = f /\ e.kind = "preview" /\ e.msg = m BY <2>1, <3>1 DEF WithPreview
    <3>3. e \in Previews
      <4>1. e \in Items \cup Previews BY <3>1, SayVariables
      <4> QED BY <3>2, <4>1 DEF Items
    <3>4. f.msg = e.msg /\ f.kind = e.kind /\ f.text = text BY <3>1, <3>3 DEF Previews
    <3> QED BY <2>1, <3>1, <3>2, <3>4
  <2>2. CASE ~(chat[i].msg = m /\ chat[i].kind = "preview") BY <2>2 DEF WithPreview
  <2> QED BY <2>1, <2>2
<1> QED BY <1>1, <1>2

\* What a call does to the chat is about the head's message.
LEMMA EffectMoves ==
    ASSUME SayTypes, TodoOfHead, doing.at # "idle",
           TakesEffect \/ UNCHANGED <<chat, draft, seen>>
    PROVE  ChatMoves /\ \A m \in Messages : m # HeadMsg => seen'[m] = seen[m]
<1>1. chain # <<>> /\ HeadMsg \in Nat /\ (doing.at \in {"draft", "preview", "edit"} => HeadMsg \in Messages)
  <2>1. doing.at \in {"draft", "preview", "edit"} => Head(chain).kind = "flush"
    BY DEF SayTypes, HeadIsDoing
  <2> QED BY <2>1, SayVariables, HeadAt DEF OfStream
<1>2. doing.text \in Text /\ seen \in [Messages -> Text] BY DEF SayTypes
<1>3. ASSUME UNCHANGED <<chat, draft>> PROVE ChatMoves BY <1>3 DEF ChatMoves
<1>4. ASSUME NEW e \in Items \cup Previews, e.msg = HeadMsg, Posted(e) PROVE ChatMoves
  <2>1. draft'.msg = 0 /\ chat' = Append(chat, e) BY <1>4 DEF Posted, NoDraft
  <2> QED BY <1>4, <2>1, PostedAt DEF ChatMoves
<1>5. ASSUME NEW m \in Messages, m = HeadMsg, NEW text \in Text, Edited(m, text) PROVE ChatMoves
  <2>1. draft' = draft /\ chat' = WithPreview(m, text) BY <1>5 DEF Edited, WithPreview
  <2> QED BY <1>5, <2>1, WithPreviewAt DEF ChatMoves
<1>6. CASE UNCHANGED <<chat, draft, seen>> BY <1>3, <1>6
<1>7. CASE TakesEffect /\ doing.at = "draft"
  <2>1. Drafted BY <1>7 DEF TakesEffect
  <2>2. \A m \in Messages : m # HeadMsg => seen'[m] = seen[m] BY <1>2, <2>1 DEF Drafted
  <2>3. draft'.msg = HeadMsg /\ chat' = chat BY <2>1 DEF Drafted
  <2> QED BY <2>2, <2>3 DEF ChatMoves
<1>8. CASE TakesEffect /\ doing.at = "preview"
  <2>1. PICK e : e = Item("preview", HeadMsg, doing.text) OBVIOUS
  <2>2. Posted(e) /\ seen' = seen BY <1>8, <2>1 DEF TakesEffect
  <2>3. e \in Previews /\ e.msg = HeadMsg BY <1>1, <1>2, <1>8, <2>1 DEF Previews, Item
  <2> QED BY <1>4, <2>2, <2>3
<1>9. CASE TakesEffect /\ doing.at = "edit"
  <2>1. Edited(HeadMsg, doing.text) /\ seen' = seen BY <1>9 DEF TakesEffect
  <2> QED BY <1>1, <1>2, <1>5, <1>9, <2>1
<1>10. CASE TakesEffect /\ doing.at \notin {"draft", "preview", "edit"}
  <2>1. /\ seen' = seen
        /\ IF Head(doing.todo).kind = "edit"
           THEN Edited(HeadMsg, Head(doing.todo).text) ELSE Posted(Head(doing.todo))
    BY <1>10 DEF TakesEffect
  <2>2. doing.todo \in Seq(Items) /\ doing.todo # <<>> BY <1>10 DEF SayTypes, HeadIsDoing
  <2>3. PICK r : r = Tail(doing.todo) OBVIOUS
  <2>4. PICK e : e = Head(doing.todo) OBVIOUS
  <2>5. e \in Items /\ e = doing.todo[1] /\ 1 \in DOMAIN doing.todo BY <2>2, <2>3, <2>4, TailAt
  <2>6. e.msg = HeadMsg BY <2>5 DEF TodoOfHead
  <2>7. CASE e.kind = "edit"
    <3>1. HeadMsg \in Messages
      <4>1. Head(chain).kind \in OfStream
        <5>1. CASE Head(chain).kind \notin OfStream BY <2>5, <2>7, <5>1 DEF TodoOfHead, OfStream
        <5> QED BY <5>1
      <4> QED BY <1>1, <4>1, HeadAt
    <3>2. e.text \in Text BY <2>5 DEF Items
    <3> QED BY <1>5, <2>1, <2>4, <2>7, <3>1, <3>2
  <2>8. CASE e.kind # "edit" BY <1>4, <2>1, <2>4, <2>5, <2>6, <2>8
  <2> QED BY <2>1, <2>7, <2>8
<1> QED BY <1>6, <1>7, <1>8, <1>9, <1>10

\* The head's own message, where what is done says nothing of it.
LEMMA HeadAsideFits ==
    ASSUME SaidInv, SayTypes', HeadStep, NEW m \in Messages, m = HeadMsg, UNCHANGED <<streams, seen>>,
           Head(chain).kind # "finish" \/ chain' = chain,
           ~Sending(m), ~Sending(m)', ~Flushing(m), ~Flushing(m)',
           UNCHANGED <<chat, draft>> \/ \E e \in Items : Posted(e) /\ e.text = {}
    PROVE  MessageFits(m)'
<1>1. SayTypes /\ MessageFits(m) /\ m \in Nat /\ m # 0 BY SayVariables DEF SaidInv
<1>2. /\ (Working(m)' <=> Working(m)) /\ (OpsOf(m) = {} => OpsOf(m)' = {}) BY <1>1, HeadStepOps
<1>3. ASSUME UNCHANGED <<chat, draft>> PROVE Aside(m) BY <1>2, <1>3 DEF HeadStep, Aside, Entries
<1>4. ASSUME NEW e \in Items, Posted(e), e.text = {} PROVE Aside(m)
  <2>1. chat' = Append(chat, e) /\ draft'.msg = 0 /\ e.kind # "preview"
    BY <1>4 DEF Posted, NoDraft, Items
  <2>2. \A i \in Entries(m) : i \in Entries(m)' /\ chat'[i] = chat[i]
    BY <1>1, <2>1, PostedAt DEF Entries
  <2>3. \A j \in Entries(m)' : j \in Entries(m) \/ (chat'[j] = e /\ \A i \in Entries(m) : i < j)
    BY <1>1, <2>1, PostedAt DEF Entries
  <2> QED BY <1>1, <1>2, <1>4, <2>1, <2>2, <2>3 DEF HeadStep, Aside
<1>5. Aside(m) BY <1>3, <1>4
<1> QED BY <1>1, <1>5, AsideFits

\* What is left of the invariant to show of a step of the head.
LEMMA HeadStepSaid ==
    ASSUME SaidInv, SayTypes', HeadStep, TodoOfHead',
           support' # support => Head(chain).kind \in OfStream,
           \A m \in Messages : m = HeadMsg =>
              \/ streams'[m] = streams[m] /\ support' = support
              \/ /\ streams'[m].drafted => streams'[m].mode = "draft" /\ support' # "unsupported"
                 /\ streams'[m].posted => streams'[m].mode = "message"
                 /\ streams'[m].delivered <= streams'[m].pending,
           \A m \in Messages : m = HeadMsg => MessageFits(m)'
    PROVE  SaidInv'
<1>1. SayTypes /\ InTurn /\ FinishLast /\ ListedIsWritten BY DEF SaidInv, ChainFits
<1>2. InTurn' /\ FinishLast' BY <1>1, HeadStepInTurn, HeadStepFinishLast
<1>3. ListedIsWritten' BY <1>1 DEF HeadStep, ListedIsWritten
<1>4. \A m \in Messages : StreamFits(m)' BY HeadStepStreams
<1>5. \A m \in Messages : MessageFits(m)' BY HeadStepOthers
<1> QED BY <1>2, <1>3, <1>4, <1>5 DEF SaidInv, ChainFits

\* What is known where the chain's head begins.
LEMMA HeadBegins ==
    ASSUME SaidInv, doing.at = "idle", chain # <<>>, NEW m \in Messages, m = HeadMsg,
           Head(chain).kind \in OfStream, m \notin cut
    PROVE  /\ Working(m) /\ m <= speech.msg /\ OpsOf(m) # {} /\ 1 \in OpsOf(m)
           /\ ~Flushing(m) /\ ~Sending(m) /\ StreamFits(m)
           /\ DeliveredIsSaid(m) /\ PreviewFits(m) /\ SeenIsKept(m) /\ DraftIsKept(m)
           /\ streams[m] \in Streams /\ streams[m].delivered \in 0..MaxText /\ streams[m].pending \in 0..MaxText
           /\ streams[m].delivered <= streams[m].pending
           /\ ~(Drafting(m) /\ support = "unsupported")
<1>1. SayTypes /\ StreamFits(m) /\ MessageFits(m) BY DEF SaidInv, ChainFits
<1>2. Working(m) /\ m <= speech.msg /\ OpsOf(m) # {} /\ 1 \in OpsOf(m) BY HeadWorks
<1>3. ~Flushing(m) /\ ~Sending(m) BY DEF Flushing, Sending
<1>4. DeliveredIsSaid(m) /\ PreviewFits(m) /\ SeenIsKept(m) /\ DraftIsKept(m)
  BY <1>1, <1>2, <1>3 DEF MessageFits, Stands
<1>5. streams[m] \in Streams BY <1>1, SayVariables
<1>6. streams[m].delivered \in 0..MaxText /\ streams[m].pending \in 0..MaxText BY <1>5 DEF Streams
<1> QED BY <1>1, <1>2, <1>3, <1>4, <1>5, <1>6 DEF StreamFits, Drafting

\* A flush that does not call, or calls for the draft, the preview or its edit.
LEMMA StartFlushFits ==
    ASSUME SaidInv, SayTypes', HeadStep, doing.at = "idle", NEW m \in Messages, m = HeadMsg, m \notin cut,
           Head(chain).kind = "flush", StartFlush(m), UNCHANGED <<chat, draft, seen, support, cut>>
    PROVE  MessageFits(m)'
<1>1. /\ Working(m) /\ m <= speech.msg
      /\ ~Flushing(m) /\ ~Sending(m) /\ StreamFits(m)
      /\ DeliveredIsSaid(m) /\ PreviewFits(m) /\ SeenIsKept(m) /\ DraftIsKept(m)
      /\ streams[m] \in Streams /\ ~(Drafting(m) /\ support = "unsupported")
  BY HeadBegins DEF HeadStep, OfStream
<1>2. PICK s, text : s = streams[m] /\ text = Truncate(s, s.pending) OBVIOUS
<1>3. CASE Over /\ UNCHANGED streams
  <2>1. ~Sending(m)' /\ ~Flushing(m)' BY <1>3 DEF Over, Idle, Sending, Flushing
  <2> QED BY <1>1, <1>3, <2>1, HeadAsideFits
<1>4. CASE text \notin {{}, s.last} /\ doing'.at \in {"draft", "preview", "edit"} /\ doing'.text = text /\ chain' = chain
           /\ \/ /\ doing'.at = "draft" /\ s.mode = "draft" /\ support # "unsupported"
                 /\ streams'[m] = [s EXCEPT !.drafted = TRUE]
              \/ /\ doing'.at = IF s.posted THEN "edit" ELSE "preview"
                 /\ ~(s.mode = "draft" /\ support # "unsupported")
                 /\ streams'[m] = [s EXCEPT !.mode = "message"]
  <2>1. PICK t : t = streams'[m] OBVIOUS
  <2>2. /\ t.delivered = s.delivered /\ t.pending = s.pending /\ t.posted = s.posted /\ t.last = s.last
        /\ doing'.at = "draft" => t.drafted /\ t.mode = s.mode /\ s.mode = "draft"
        /\ doing'.at # "draft" => t.mode = "message"
    BY <1>1, <1>2, <1>4, <2>1 DEF Streams
  <2>3. UNCHANGED <<chat, draft, seen, said>> /\ Entries(m)' = Entries(m) /\ Flushing(m)' /\ ~Sending(m)'
        /\ Beginning(m) = text /\ Beginning(m)' = text /\ text # {} /\ (Working(m)' <=> Working(m)) /\ speech' = speech
    <3>1. Flushing(m)' /\ ~Sending(m)' BY <1>4 DEF Flushing, Sending, HeadMsg
    <3>2. Beginning(m) = text BY <1>2 DEF Beginning
    <3>3. Beginning(m)' = text BY <1>2, <2>1, <2>2 DEF Beginning, Truncate, AfterDelivered
    <3>4. Working(m)' <=> Working(m) BY <1>1, <1>4, HeadStepOps DEF SaidInv
    <3> QED BY <1>4, <3>1, <3>2, <3>3, <3>4 DEF Entries, HeadStep
  <2>4. Drafting(m) => doing'.at = "draft" /\ Drafting(m)'
    BY <1>1, <1>2, <1>4, <2>1, <2>2 DEF Drafting
  <2>5. DeliveredIsSaid(m)' BY <1>1, <1>2, <2>1, <2>2, <2>3 DEF DeliveredIsSaid
  <2>6. PreviewFits(m)' BY <1>1, <1>2, <1>4, <2>1, <2>2, <2>3 DEF PreviewFits
  <2>7. FlushFits(m)' BY <1>2, <1>4, <2>1, <2>2, <2>3 DEF FlushFits
  <2>8. SeenIsKept(m)' BY <1>1, <1>2, <1>4, <2>1, <2>2, <2>3, <2>4 DEF SeenIsKept
  <2>9. DraftIsKept(m)' BY <1>1, <1>2, <2>1, <2>2, <2>3, <2>4 DEF DraftIsKept
  <2> QED BY <1>1, <2>3, <2>5, <2>6, <2>7, <2>8, <2>9 DEF MessageFits, Stands
<1>5. streams \in [Messages -> Streams] BY DEF SaidInv, SayTypes
<1>6. \/ Over /\ UNCHANGED streams
      \/ /\ text \notin {{}, s.last}
         /\ IF s.mode = "draft" /\ support # "unsupported"
            THEN streams' = [streams EXCEPT ![m].drafted = TRUE] /\ Calls("draft", text, <<>>)
            ELSE /\ streams' = [streams EXCEPT ![m].mode = "message"]
                 /\ Calls(IF s.posted THEN "edit" ELSE "preview", text, <<>>)
  BY <1>2 DEF StartFlush
<1>7. ASSUME streams' = [streams EXCEPT ![m].drafted = TRUE]
      PROVE  streams'[m] = [s EXCEPT !.drafted = TRUE]
  BY <1>2, <1>5, <1>7
<1>8. ASSUME streams' = [streams EXCEPT ![m].mode = "message"]
      PROVE  streams'[m] = [s EXCEPT !.mode = "message"]
  BY <1>2, <1>5, <1>8
<1>9. ASSUME NEW at, Calls(at, text, <<>>) PROVE doing'.at = at /\ doing'.text = text /\ chain' = chain
  BY <1>9 DEF Calls
<1> QED BY <1>3, <1>4, <1>6, <1>7, <1>8, <1>9

\* What was shown of a message was written, and a draft that shows it lies beyond what
\* was delivered.
LEMMA SeenIsPending ==
    ASSUME SayTypes, NEW m \in Messages, ~Flushing(m), SeenIsKept(m), PreviewFits(m),
           streams[m].delivered <= streams[m].pending
    PROVE  /\ seen[m] \subseteq 1..streams[m].pending
           /\ Beginning(m) \subseteq (streams[m].delivered + 1)..streams[m].pending
           /\ \A a \in Beginning(m) : a <= streams[m].delivered + Limit
<1>1. /\ streams[m].delivered \in Nat /\ streams[m].pending \in Nat
      /\ \A a \in seen[m] : a \in Nat \ {0}
  <2>1. \A s \in Streams : s.delivered \in Nat /\ s.pending \in Nat BY RepliesAssumption DEF Streams
  <2>2. streams[m] \in Streams /\ seen[m] \in Text BY SayVariables
  <2>3. \A a \in seen[m] : a \in 1..MaxText BY <2>2 DEF Text
  <2>4. MaxText \in Nat BY RepliesAssumption
  <2> QED BY <2>1, <2>2, <2>3, <2>4
<1>2. /\ Beginning(m) \subseteq (streams[m].delivered + 1)..streams[m].pending
      /\ \A a \in Beginning(m) : a <= streams[m].delivered + Limit
  BY DEF Beginning, Truncate, AfterDelivered
<1>3. ASSUME NEW a \in seen[m] PROVE a \in 1..streams[m].pending
  <2>1. a <= streams[m].delivered \/ a \in Beginning(m) BY <1>3 DEF SeenIsKept, PreviewFits
  <2> QED BY <1>1, <1>2, <2>1
<1> QED BY <1>2, <1>3

\* What was not delivered follows what was, and with it says everything.
LEMMA RestFollows ==
    ASSUME SayTypes, NEW m \in Messages, DeliveredIsSaid(m), \A i \in Entries(m) : chat[i].kind # "preview",
           NEW d \in 0..MaxText, NEW n \in 0..MaxText, d = streams[m].delivered,
           NEW parts, NEW kind, SaysRest(parts, kind, m, d, n)
    PROVE  ReadsOn(chat, m, parts) /\ \A a \in 1..n : Covered(chat, m, parts, a)
<1>1. d \in Nat /\ n \in Nat BY RepliesAssumption
<1>2. /\ \A k \in DOMAIN parts : parts[k].text \subseteq (d + 1)..n
      /\ \A a \in (d + 1)..n : \E k \in DOMAIN parts : a \in parts[k].text
      /\ \A k, l \in DOMAIN parts : k < l => Before(parts[k].text, parts[l].text)
  BY DEF SaysRest
<1>3. \A i \in Entries(m) : chat[i].text \subseteq 1..d BY DEF DeliveredIsSaid
<1>4. \A i, j \in DOMAIN chat : i < j /\ chat[i].msg = m /\ chat[j].msg = m => Before(chat[i].text, chat[j].text)
  BY DEF DeliveredIsSaid, Entries
<1>5. ASSUME NEW i \in DOMAIN chat, NEW k \in DOMAIN parts, chat[i].msg = m
      PROVE  Before(chat[i].text, parts[k].text)
  <2>1. chat[i].text \subseteq 1..d /\ parts[k].text \subseteq (d + 1)..n
    BY <1>2, <1>3, <1>5 DEF Entries
  <2> QED BY <1>1, <2>1 DEF Before
<1>6. ASSUME NEW a \in 1..n PROVE Covered(chat, m, parts, a)
  <2>1. CASE a <= d
    <3>1. a \in 1..d BY <1>1, <2>1
    <3> QED BY <3>1 DEF DeliveredIsSaid, Covered, Entries
  <2>2. CASE ~(a <= d)
    <3>1. a \in (d + 1)..n BY <1>1, <2>2
    <3> QED BY <1>2, <3>1 DEF Covered
  <2> QED BY <2>1, <2>2
<1> QED BY <1>2, <1>4, <1>5, <1>6 DEF ReadsOn

\* Between two operations a draft is one of the beginning of what follows.
LEMMA DraftBegins ==
    ASSUME SayTypes, NEW m \in Messages, ~Flushing(m), StreamFits(m),
           SeenIsKept(m), PreviewFits(m), DraftIsKept(m), draft.msg = m
    PROVE  Drafting(m) /\ Beginning(m) # {} /\ ~streams[m].posted
<1>1. Drafting(m) /\ ~streams[m].posted BY DEF DraftIsKept, Drafting, StreamFits
<1>2. PICK a \in draft.text : a \in seen[m] BY DEF DraftIsKept
<1>3. PICK d \in Nat : d = streams[m].delivered
  <2>1. \A s \in Streams : s.delivered \in Nat BY RepliesAssumption DEF Streams
  <2> QED BY <2>1, SayVariables
<1>4. a \in Nat \ {0} BY <1>2, SayVariables, RepliesAssumption DEF Text
<1>5. ~(a <= d)
  <2>1. a <= d => a \in 1..d BY <1>3, <1>4
  <2>2. ~(a < a) BY <1>4
  <2> QED BY <1>2, <1>3, <2>1, <2>2 DEF DraftIsKept, Before
<1>6. a \in Beginning(m) BY <1>1, <1>2, <1>3, <1>5 DEF SeenIsKept, PreviewFits
<1> QED BY <1>1, <1>6

\* A close that finds nothing to say, has nothing left to say, or sends what is there.
LEMMA StartCloseFits ==
    ASSUME SaidInv, SayTypes', HeadStep, doing.at = "idle", NEW m \in Messages, m = HeadMsg, m \notin cut,
           Head(chain).kind = "close", StartClose(m), UNCHANGED <<chat, draft, seen, support, cut>>
    PROVE  MessageFits(m)'
<1>1. /\ SayTypes /\ Working(m) /\ m <= speech.msg
      /\ ~Flushing(m) /\ ~Sending(m) /\ StreamFits(m)
      /\ DeliveredIsSaid(m) /\ PreviewFits(m) /\ SeenIsKept(m) /\ DraftIsKept(m)
      /\ streams[m] \in Streams
  BY HeadBegins DEF HeadStep, OfStream, SaidInv
<1>2. /\ streams[m].delivered \in 0..MaxText /\ streams[m].pending \in 0..MaxText
      /\ streams[m].delivered <= streams[m].pending
  BY HeadBegins DEF HeadStep, OfStream
<1>3. PICK d \in 0..MaxText, n \in 0..MaxText : d = streams[m].delivered /\ n = streams[m].pending /\ d <= n
  BY <1>2
<1>4. PICK parts : parts = Parts("text", m, d + 1, n) OBVIOUS
<1>5. d \in Nat /\ n \in Nat /\ m \in 0..MaxMessages BY RepliesAssumption DEF Messages
<1>6. SaysRest(parts, "text", m, d, n)
  <2>1. PICK kind \in {"text", "mark"} : kind = "text" OBVIOUS
  <2>2. parts = Parts(kind, m, d + 1, n) BY <1>4, <2>1
  <2> QED BY <1>3, <1>5, <2>1, <2>2, PartsSay
<1>7. /\ seen[m] \subseteq 1..n /\ Beginning(m) \subseteq (d + 1)..n BY <1>1, <1>3, SeenIsPending
<1>8. (Working(m)' <=> Working(m)) /\ speech' = speech BY <1>1, HeadStepOps DEF HeadStep
<1>9. CASE Over /\ UNCHANGED streams
  <2>1. ~Sending(m)' /\ ~Flushing(m)' BY <1>9 DEF Over, Idle, Sending, Flushing
  <2> QED BY <1>1, <1>9, <2>1, HeadAsideFits
<1>10. ASSUME streams[m].drafted
      PROVE  ~streams[m].posted /\ \A i \in Entries(m) : chat[i].kind # "preview"
  BY <1>1, <1>10 DEF StreamFits, PreviewFits
<1>11. CASE streams[m].drafted /\ parts = <<>> /\ Over /\ streams'[m] = Closed(streams[m])
  <2>1. n = d BY <1>11, <1>6 DEF SaysRest
  <2>2. Beginning(m) = {} BY <1>5, <1>7, <2>1
  <2>3. /\ streams'[m].delivered = d /\ streams'[m].posted = streams[m].posted
    <3>1. PICK s \in Streams : s = streams[m] BY <1>1
    <3>2. Closed(s).delivered = s.pending /\ Closed(s).posted = s.posted BY DEF Closed, Streams
    <3> QED BY <1>3, <1>11, <2>1, <3>1, <3>2
  <2>4. ~Flushing(m)' /\ ~Sending(m)' /\ Entries(m)' = Entries(m)
    BY <1>11 DEF Over, Idle, Flushing, Sending, Entries
  <2>5. \A a \in seen[m] : a <= d BY <1>1, <1>3, <1>10, <1>11, <2>2 DEF SeenIsKept
  <2>6. draft.msg # m BY <1>1, <1>3, <2>2, DraftBegins
  <2>7. DeliveredIsSaid(m)' BY <1>1, <1>3, <2>3, <2>4 DEF DeliveredIsSaid
  <2>8. PreviewFits(m)' /\ FlushFits(m)'
    BY <1>1, <1>10, <1>11, <2>3, <2>4 DEF PreviewFits, FlushFits
  <2>9. SeenIsKept(m)' /\ DraftIsKept(m)' BY <2>3, <2>5, <2>6 DEF SeenIsKept, DraftIsKept
  <2> QED BY <1>1, <1>8, <2>4, <2>7, <2>8, <2>9 DEF MessageFits, Stands
<1>12. CASE streams[m].drafted /\ parts # <<>> /\ Calls("close", {}, parts) /\ UNCHANGED streams
  <2>1. doing'.at = "close" /\ doing'.todo = parts /\ chain' = chain BY <1>12 DEF Calls
  <2>2. Sending(m)' /\ Head(chain').kind = "close" BY <2>1 DEF Sending, HeadMsg, OfStream
  <2>3. \A k \in DOMAIN parts : parts[k].text \subseteq (d + 1)..n BY <1>6 DEF SaysRest
  <2>4. \A i \in Entries(m) : chat[i].kind # "preview" /\ chat[i].text \subseteq 1..d
    BY <1>1, <1>3, <1>10, <1>12 DEF DeliveredIsSaid
  <2>5. ReadsOn(chat, m, parts) /\ \A a \in 1..n : Covered(chat, m, parts, a)
    BY <1>1, <1>3, <1>6, <2>4, RestFollows
  <2>6. CloseFits(m)'
    <3>1. /\ streams'[m].pending = n /\ n \in 0..n /\ ~streams'[m].posted /\ Entries(m)' = Entries(m)
          /\ chat' = chat /\ seen' = seen
      BY <1>3, <1>5, <1>10, <1>12 DEF Entries
    <3>2. \A i \in Entries(m) : chat[i].kind # "preview" /\ chat[i].text \subseteq 1..n
      <4>1. 1..d \subseteq 1..n BY <1>3, <1>5
      <4> QED BY <2>4, <4>1
    <3>3. \A k \in DOMAIN parts : parts[k].text \subseteq 1..n
      <4>1. (d + 1)..n \subseteq 1..n BY <1>5
      <4> QED BY <2>3, <4>1
    <3> QED BY <1>7, <2>1, <2>5, <3>1, <3>2, <3>3 DEF CloseFits
  <2> QED BY <1>1, <1>8, <2>2, <2>6 DEF MessageFits
<1>13. streams \in [Messages -> Streams] BY <1>1 DEF SayTypes
<1>14. streams' = [streams EXCEPT ![m] = Closed(streams[m])] => streams'[m] = Closed(streams[m])
  BY <1>13
<1> QED BY <1>3, <1>4, <1>9, <1>11, <1>12, <1>14 DEF StartClose

\* Between two operations what is in the chat of a message reads on, the preview last.
LEMMA StandsReads ==
    ASSUME SayTypes, NEW m \in Messages, DeliveredIsSaid(m), PreviewFits(m)
    PROVE  \A i, j \in Entries(m) : i < j => Before(chat[i].text, chat[j].text)
<1> SUFFICES ASSUME NEW i \in Entries(m), NEW j \in Entries(m), i < j
             PROVE  Before(chat[i].text, chat[j].text)
  OBVIOUS
<1>1. CASE chat[i].kind = "preview"
  <2>1. chat[j].text = {} BY <1>1 DEF PreviewFits
  <2> QED BY <2>1 DEF Before
<1>2. CASE chat[i].kind # "preview" /\ chat[j].kind # "preview" BY <1>2 DEF DeliveredIsSaid
<1>3. CASE chat[i].kind # "preview" /\ chat[j].kind = "preview"
  <2>1. PICK d \in Nat : d = streams[m].delivered
    <3>1. \A s \in Streams : s.delivered \in Nat BY RepliesAssumption DEF Streams
    <3> QED BY <3>1, SayVariables
  <2>2. PICK p \in Nat : p = streams[m].pending
    <3>1. \A s \in Streams : s.pending \in Nat BY RepliesAssumption DEF Streams
    <3> QED BY <3>1, SayVariables
  <2>3. chat[i].text \subseteq 1..d /\ chat[j].text \subseteq (d + 1)..p
    BY <1>3, <2>1, <2>2 DEF DeliveredIsSaid, PreviewFits, Beginning, Truncate, AfterDelivered
  <2> QED BY <2>1, <2>2, <2>3 DEF Before
<1> QED BY <1>1, <1>2, <1>3

\* The preview leads what is to follow, if it says the first of it.
LEMMA PreviewLeads ==
    ASSUME SayTypes, NEW m \in Messages, DeliveredIsSaid(m), PreviewFits(m), streams[m].posted,
           NEW d \in 0..MaxText, NEW n \in 0..MaxText, d = streams[m].delivered,
           NEW parts, NEW kind, SaysRest(parts, kind, m, d, n), parts # <<>>,
           NEW c, DOMAIN c = DOMAIN chat,
           \A i \in DOMAIN chat :
              /\ c[i].msg = chat[i].msg
              /\ IF chat[i].msg = m /\ chat[i].kind = "preview" THEN c[i].text = parts[1].text ELSE c[i] = chat[i],
           NEW items, items = Tail(parts)
    PROVE  ReadsOn(c, m, items) /\ \A a \in 1..n : Covered(c, m, items, a)
<1>1. d \in Nat /\ n \in Nat BY RepliesAssumption
<1>2. /\ parts \in Seq(Items) /\ \A k \in DOMAIN parts : parts[k].text \subseteq (d + 1)..n
      /\ \A a \in (d + 1)..n : \E k \in DOMAIN parts : a \in parts[k].text
      /\ \A k, l \in DOMAIN parts : k < l => Before(parts[k].text, parts[l].text)
  BY DEF SaysRest
<1>3. /\ Len(parts) \in Nat \ {0} /\ 1 \in DOMAIN parts /\ DOMAIN parts = 1..Len(parts)
      /\ DOMAIN items = 1..(Len(parts) - 1) /\ \A k \in 1..(Len(parts) - 1) : items[k] = parts[k + 1]
  BY <1>2, TailAt
<1>4. \A k \in DOMAIN items : k \in Nat \ {0} /\ k + 1 \in DOMAIN parts /\ 1 < k + 1 /\ items[k] = parts[k + 1]
  BY <1>3
<1>5. ASSUME NEW i \in DOMAIN chat, chat[i].msg = m
      PROVE  /\ c[i].text = parts[1].text \/ c[i].text \subseteq 1..d
             /\ chat[i].kind # "preview" => c[i].text \subseteq 1..d
             /\ chat[i].kind = "preview" => c[i].text = parts[1].text
  BY <1>5 DEF DeliveredIsSaid, Entries
<1>6. ASSUME NEW i \in DOMAIN c, NEW j \in DOMAIN c, i < j, c[i].msg = m, c[j].msg = m
      PROVE  Before(c[i].text, c[j].text)
  <2>1. i \in Entries(m) /\ j \in Entries(m) BY <1>6 DEF Entries
  <2>2. CASE chat[i].kind = "preview"
    <3>1. chat[j].text = {} /\ chat[j].kind # "preview" BY <1>6, <2>1, <2>2 DEF PreviewFits
    <3>2. c[j].text = {} BY <2>1, <3>1 DEF Entries
    <3> QED BY <3>2 DEF Before
  <2>3. CASE chat[i].kind # "preview" /\ chat[j].kind # "preview"
    <3>1. c[i] = chat[i] /\ c[j] = chat[j] BY <2>1, <2>3 DEF Entries
    <3> QED BY <1>6, <2>1, <2>3, <3>1 DEF DeliveredIsSaid
  <2>4. CASE chat[i].kind # "preview" /\ chat[j].kind = "preview"
    <3>1. c[i].text \subseteq 1..d /\ c[j].text \subseteq (d + 1)..n
      BY <1>2, <1>3, <1>5, <2>1, <2>4 DEF Entries
    <3> QED BY <1>1, <3>1 DEF Before
  <2> QED BY <2>2, <2>3, <2>4
<1>7. ASSUME NEW i \in DOMAIN c, NEW k \in DOMAIN items, c[i].msg = m
      PROVE  Before(c[i].text, items[k].text)
  <2>1. k + 1 \in DOMAIN parts /\ 1 < k + 1 /\ items[k] = parts[k + 1] /\ parts[k + 1].text \subseteq (d + 1)..n
    BY <1>2, <1>4
  <2>2. CASE c[i].text = parts[1].text BY <1>2, <1>3, <2>1, <2>2
  <2>3. CASE c[i].text \subseteq 1..d BY <1>1, <2>1, <2>3 DEF Before
  <2> QED BY <1>5, <1>7, <2>2, <2>3
<1>8. ASSUME NEW k \in DOMAIN items, NEW l \in DOMAIN items, k < l
      PROVE  Before(items[k].text, items[l].text)
  <2>1. k + 1 < l + 1 BY <1>4, <1>8
  <2> QED BY <1>2, <1>4, <2>1
<1>9. ASSUME NEW a \in 1..n PROVE Covered(c, m, items, a)
  <2>1. CASE a <= d
    <3>1. a \in 1..d BY <1>1, <2>1
    <3>2. PICK i \in Entries(m) : chat[i].kind # "preview" /\ a \in chat[i].text
      BY <3>1 DEF DeliveredIsSaid
    <3>3. i \in DOMAIN c /\ c[i].msg = m /\ a \in c[i].text BY <3>2 DEF Entries
    <3> QED BY <3>3 DEF Covered
  <2>2. CASE ~(a <= d)
    <3>1. a \in (d + 1)..n BY <1>1, <2>2
    <3>2. PICK k \in DOMAIN parts : a \in parts[k].text BY <1>2, <3>1
    <3>3. CASE k = 1
      <4>1. PICK i \in Entries(m) : chat[i].kind = "preview" BY DEF PreviewFits
      <4>2. i \in DOMAIN c /\ c[i].msg = m /\ a \in c[i].text BY <3>2, <3>3, <4>1 DEF Entries
      <4> QED BY <4>2 DEF Covered
    <3>4. CASE k # 1
      <4>1. k - 1 \in DOMAIN items /\ (k - 1) + 1 = k BY <1>3, <3>4
      <4>2. a \in items[k - 1].text BY <1>4, <3>2, <4>1
      <4> QED BY <4>1, <4>2 DEF Covered
    <3> QED BY <3>3, <3>4
  <2> QED BY <2>1, <2>2
<1> QED BY <1>6, <1>7, <1>8, <1>9 DEF ReadsOn

\* Items that say nothing may follow.
LEMMA LongerReads ==
    ASSUME NEW c, NEW m, NEW p, NEW q, ReadsOn(c, m, p),
           \A k \in DOMAIN p : k \in DOMAIN q /\ q[k] = p[k],
           \A k \in DOMAIN q : k \in DOMAIN p \/ q[k].text = {}
    PROVE  ReadsOn(c, m, q) /\ \A a : Covered(c, m, p, a) => Covered(c, m, q, a)
<1>1. \A a : Covered(c, m, p, a) => Covered(c, m, q, a) BY DEF Covered
<1>2. ASSUME NEW i \in DOMAIN c, NEW k \in DOMAIN q, c[i].msg = m PROVE Before(c[i].text, q[k].text)
  BY <1>2 DEF ReadsOn, Before
<1>3. ASSUME NEW k \in DOMAIN q, NEW l \in DOMAIN q, k < l PROVE Before(q[k].text, q[l].text)
  BY <1>3 DEF ReadsOn, Before
<1> QED BY <1>1, <1>2, <1>3 DEF ReadsOn

\* What a finish sends follows what is in the chat, and with it says all that is to be said.
Follows(m, todo) ==
    LET edits == todo # <<>> /\ Head(todo).kind = "edit"
        c == IF edits THEN WithPreview(m, Head(todo).text) ELSE chat
        items == IF edits THEN Tail(todo) ELSE todo IN
    /\ todo \in Seq(Items)
    /\ ReadsOn(c, m, items)
    /\ \A a \in said[m] \cup seen[m] : Covered(c, m, items, a)
    /\ edits \/ todo = <<>> => draft.msg # m

LEMMA FollowsWithError ==
    ASSUME NEW m \in Messages, NEW todo, Follows(m, todo), NEW e \in Items,
           e.text = {}, e.kind # "edit"
    PROVE  Follows(m, todo \o <<e>>)
<1>1. PICK p \in Seq(Items) : p = todo BY DEF Follows
<1>2. PICK q : q = Append(p, e) OBVIOUS
<1>3. todo \o <<e>> = q BY <1>1, <1>2
<1>4. /\ q \in Seq(Items) /\ q # <<>> /\ Len(p) \in Nat /\ Len(q) = Len(p) + 1
      /\ DOMAIN p = 1..Len(p) /\ DOMAIN q = 1..(Len(p) + 1)
      /\ (\A i \in 1..Len(p) : q[i] = p[i]) /\ q[Len(p) + 1] = e
  BY <1>2, AppendedAt
<1>5. PICK tp, tq : tp = Tail(p) /\ tq = Tail(q) OBVIOUS
<1>6. /\ Head(q) = q[1] /\ DOMAIN tq = 1..(Len(q) - 1) /\ \A i \in 1..(Len(q) - 1) : tq[i] = q[i + 1]
  BY <1>4, <1>5, TailAt
<1>7. CASE p # <<>> /\ Head(p).kind = "edit"
  <2>1. /\ Len(p) \in Nat \ {0} /\ Head(p) = p[1] /\ 1 \in DOMAIN p
        /\ DOMAIN tp = 1..(Len(p) - 1) /\ \A i \in 1..(Len(p) - 1) : tp[i] = p[i + 1]
    BY <1>5, <1>7, TailAt
  <2>2. Head(q) = Head(p) BY <1>4, <1>6, <2>1
  <2>3. PICK c : c = WithPreview(m, Head(p).text) OBVIOUS
  <2>4. /\ ReadsOn(c, m, tp) /\ \A a \in said[m] \cup seen[m] : Covered(c, m, tp, a)
        /\ draft.msg # m
    BY <1>1, <1>5, <1>7, <2>3 DEF Follows
  <2>5. \A k \in DOMAIN tp : k \in DOMAIN tq /\ tq[k] = tp[k] BY <1>4, <1>6, <2>1
  <2>6. \A k \in DOMAIN tq : k \in DOMAIN tp \/ tq[k] = e
    <3> SUFFICES ASSUME NEW k \in DOMAIN tq, k \notin DOMAIN tp PROVE tq[k] = e OBVIOUS
    <3>1. k = Len(p) BY <1>4, <1>6, <2>1
    <3> QED BY <1>4, <1>6, <2>1, <3>1
  <2>7. ReadsOn(c, m, tq) /\ \A a : Covered(c, m, tp, a) => Covered(c, m, tq, a)
    BY <2>4, <2>5, <2>6, LongerReads
  <2> QED BY <1>3, <1>4, <1>5, <1>7, <2>2, <2>3, <2>4, <2>7 DEF Follows
<1>8. CASE ~(p # <<>> /\ Head(p).kind = "edit")
  <2>1. Head(q).kind # "edit"
    <3>1. CASE p = <<>>
      <4>1. Len(p) = 0 BY <3>1
      <4> QED BY <1>4, <1>6, <4>1
    <3>2. CASE p # <<>>
      <4>1. Head(p) = p[1] /\ 1 \in DOMAIN p BY <1>5, <3>2, TailAt
      <4> QED BY <1>4, <1>6, <1>8, <3>2, <4>1
    <3> QED BY <3>1, <3>2
  <2>2. ReadsOn(chat, m, p) /\ \A a \in said[m] \cup seen[m] : Covered(chat, m, p, a)
    BY <1>1, <1>8 DEF Follows
  <2>3. /\ \A k \in DOMAIN p : k \in DOMAIN q /\ q[k] = p[k]
        /\ \A k \in DOMAIN q : k \in DOMAIN p \/ q[k].text = {}
    BY <1>4
  <2>4. ReadsOn(chat, m, q) /\ \A a : Covered(chat, m, p, a) => Covered(chat, m, q, a)
    BY <2>2, <2>3, LongerReads
  <2> QED BY <1>3, <1>4, <2>1, <2>2, <2>4 DEF Follows
<1> QED BY <1>7, <1>8

\* An aborted message keeps what was shown of it.
LEMMA MarkedFollows ==
    ASSUME SayTypes, NEW m \in Messages, ~Flushing(m), StreamFits(m),
           DeliveredIsSaid(m), PreviewFits(m), SeenIsKept(m), DraftIsKept(m),
           NEW o \in Ops, o.msg = m, streams[m].pending <= o.full, said[m] = {}
    PROVE  Follows(m, Marked(streams[m], o))
<1>1. /\ streams[m] \in Streams /\ o.full \in 0..MaxText /\ m \in 0..MaxMessages
  BY SayVariables DEF Ops, Messages
<1>2. PICK d \in 0..MaxText, n \in 0..MaxText : d = streams[m].delivered /\ n = o.full
  BY <1>1 DEF Streams
<1>3. streams[m].pending \in Nat /\ d \in Nat /\ n \in Nat /\ d <= streams[m].pending /\ d <= n
  <2>1. \A s \in Streams : s.pending \in Nat BY RepliesAssumption DEF Streams
  <2>2. streams[m].pending \in Nat /\ d \in Nat /\ n \in Nat BY <1>1, <2>1, RepliesAssumption
  <2>3. d <= streams[m].pending /\ streams[m].pending <= n BY <1>2 DEF StreamFits
  <2> QED BY <2>2, <2>3
<1>4. /\ seen[m] \subseteq 1..n /\ Beginning(m) \subseteq (d + 1)..n
  <2>1. /\ seen[m] \subseteq 1..streams[m].pending
        /\ Beginning(m) \subseteq (d + 1)..streams[m].pending
    BY <1>2, <1>3, SeenIsPending
  <2>2. streams[m].pending <= n BY <1>2
  <2> QED BY <1>3, <2>1, <2>2
<1>5. CASE Drafting(m)
  <2>1. PICK kind \in {"text", "mark"} : kind = "mark" OBVIOUS
  <2>2. PICK p : p = Parts(kind, m, d + 1, n) OBVIOUS
  <2>3. SaysRest(p, kind, m, d, n) BY <1>1, <1>3, <2>2, PartsSay
  <2>4. Marked(streams[m], o) = p BY <1>2, <1>5, <2>1, <2>2 DEF Marked, Drafting
  <2>5. \A i \in Entries(m) : chat[i].kind # "preview" BY <1>5 DEF Drafting, StreamFits, PreviewFits
  <2>6. ReadsOn(chat, m, p) /\ \A a \in 1..n : Covered(chat, m, p, a)
    BY <1>2, <2>3, <2>5, RestFollows
  <2>7. p \in Seq(Items) /\ \A k \in DOMAIN p : p[k].msg = m /\ p[k].kind = "mark"
    BY <2>1, <2>3 DEF SaysRest
  <2>8. p # <<>> => Head(p).kind # "edit"
    <3>1. PICK t : t = Tail(p) OBVIOUS
    <3>2. p # <<>> => 1 \in DOMAIN p /\ Head(p) = p[1] BY <2>7, <3>1, TailAt
    <3> QED BY <2>7, <3>2
  <2>9. p = <<>> => draft.msg # m
    <3>1. p = <<>> => Beginning(m) = {} BY <1>3, <1>4, <2>3 DEF SaysRest
    <3> QED BY <3>1, DraftBegins
  <2> QED BY <1>4, <2>4, <2>6, <2>7, <2>8, <2>9 DEF Follows
<1>6. CASE ~Drafting(m)
  <2>0. <<>> \in Seq(Items) OBVIOUS
  <2>1. PICK p \in Seq(Items) : p = <<>> BY <2>0
  <2>2. DOMAIN p = {} /\ Marked(streams[m], o) = p BY <1>6, <2>1 DEF Marked, Drafting
  <2>3. ReadsOn(chat, m, p) BY <2>2, StandsReads DEF ReadsOn, Entries
  <2>4. ASSUME NEW a \in seen[m] PROVE Covered(chat, m, p, a)
    <3>1. CASE a <= d
      <4>1. a \in 1..d BY <1>3, <1>4, <2>4, <3>1
      <4> QED BY <1>2, <4>1 DEF DeliveredIsSaid, Covered, Entries
    <3>2. CASE ~(a <= d)
      <4>1. \E i \in Entries(m) : chat[i].kind = "preview" /\ a \in chat[i].text
        BY <1>2, <1>6, <2>4, <3>2 DEF SeenIsKept
      <4> QED BY <4>1 DEF Covered, Entries
    <3> QED BY <3>1, <3>2
  <2>5. draft.msg # m BY <1>6 DEF DraftIsKept
  <2> QED BY <2>1, <2>2, <2>3, <2>4, <2>5 DEF Follows
<1> QED BY <1>5, <1>6

LEMMA LedBy ==
    ASSUME NEW S, NEW t \in Seq(S), NEW e \in S, NEW f, f = <<e>> \o t
    PROVE  /\ f \in Seq(S) /\ f # <<>> /\ Head(f) = e /\ Tail(f) = t /\ f[1] = e
           /\ \A k \in DOMAIN f : k = 1 \/ \E l \in DOMAIN t : f[k] = t[l]
<1>1. f \in Seq(S) /\ Len(t) \in Nat /\ Len(f) = Len(t) + 1 /\ f[1] = e OBVIOUS
<1>2. \A i \in 1..Len(t) : f[i + 1] = t[i] OBVIOUS
<1>3. DOMAIN f = 1..(Len(t) + 1) /\ DOMAIN t = 1..Len(t) BY <1>1
<1>4. f # <<>> BY <1>1
<1>5. Head(f) = e BY <1>1, <1>4
<1>6. Tail(f) = t
  <2>1. PICK u : u = Tail(f) OBVIOUS
  <2>2. u \in Seq(S) /\ Len(u) = Len(t) /\ \A i \in 1..Len(t) : u[i] = f[i + 1]
    BY <1>1, <1>4, <2>1, TailAt
  <2>3. u = t BY <1>2, <2>2
  <2> QED BY <2>1, <2>3
<1>7. ASSUME NEW k \in DOMAIN f, k # 1 PROVE \E l \in DOMAIN t : f[k] = t[l]
  <2>1. k - 1 \in 1..Len(t) /\ (k - 1) + 1 = k BY <1>1, <1>3, <1>7
  <2>2. k - 1 \in DOMAIN t /\ f[k] = t[k - 1] BY <1>2, <1>3, <2>1
  <2> QED BY <2>2
<1> QED BY <1>1, <1>4, <1>5, <1>6, <1>7

\* Any other message is sent whole; the preview becomes its first part.
LEMMA FinalFollows ==
    ASSUME SayTypes, NEW m \in Messages, ~Flushing(m), StreamFits(m),
           DeliveredIsSaid(m), PreviewFits(m), SeenIsKept(m), DraftIsKept(m),
           NEW o \in Ops, o.msg = m, streams[m].pending <= o.full, said[m] = 1..o.full
    PROVE  Follows(m, Final(streams[m], o))
<1>1. /\ streams[m] \in Streams /\ o.full \in 0..MaxText /\ m \in 0..MaxMessages
  BY SayVariables DEF Ops, Messages
<1>2. PICK d \in 0..MaxText, n \in 0..MaxText : d = streams[m].delivered /\ n = o.full
  BY <1>1 DEF Streams
<1>3. streams[m].pending \in Nat /\ d \in Nat /\ n \in Nat /\ d <= streams[m].pending /\ d <= n
  <2>1. \A s \in Streams : s.pending \in Nat BY RepliesAssumption DEF Streams
  <2>2. streams[m].pending \in Nat /\ d \in Nat /\ n \in Nat BY <1>1, <2>1, RepliesAssumption
  <2>3. d <= streams[m].pending /\ streams[m].pending <= n BY <1>2 DEF StreamFits
  <2> QED BY <2>2, <2>3
<1>4. /\ seen[m] \subseteq 1..n /\ Beginning(m) \subseteq (d + 1)..n
      /\ \A a \in Beginning(m) : a <= d + Limit
  <2>1. /\ seen[m] \subseteq 1..streams[m].pending
        /\ Beginning(m) \subseteq (d + 1)..streams[m].pending
        /\ \A a \in Beginning(m) : a <= d + Limit
    BY <1>2, <1>3, SeenIsPending
  <2>2. streams[m].pending <= n BY <1>2
  <2> QED BY <1>3, <2>1, <2>2
<1>5. said[m] \cup seen[m] \subseteq 1..n BY <1>2, <1>4
<1>6. PICK kind \in {"text", "mark"} : kind = "text" OBVIOUS
<1>7. PICK p : p = Parts("text", m, d + 1, n) OBVIOUS
<1>8. SaysRest(p, kind, m, d, n) BY <1>1, <1>3, <1>6, <1>7, PartsSay
<1>9. p \in Seq(Items) /\ \A k \in DOMAIN p : p[k].msg = m /\ p[k].kind = "text"
  BY <1>6, <1>8 DEF SaysRest
<1>10. PICK f : f = Final(streams[m], o) OBVIOUS
<1>11. f = IF p = <<>> \/ streams[m].mode # "message" \/ ~streams[m].posted THEN p
           ELSE IF p[1].text = streams[m].last THEN Tail(p)
           ELSE <<Item("edit", m, p[1].text)>> \o Tail(p)
  BY <1>2, <1>7, <1>10 DEF Final
<1>12. p = <<>> => Beginning(m) = {} /\ ~streams[m].posted
  <2>1. p = <<>> => Beginning(m) = {} BY <1>3, <1>4, <1>8 DEF SaysRest
  <2> QED BY <2>1 DEF PreviewFits
<1>13. CASE ~streams[m].posted
  <2>1. f = p BY <1>11, <1>13
  <2>2. \A i \in Entries(m) : chat[i].kind # "preview" BY <1>13 DEF PreviewFits
  <2>3. ReadsOn(chat, m, p) /\ \A a \in 1..n : Covered(chat, m, p, a)
    BY <1>2, <1>8, <2>2, RestFollows
  <2>4. p # <<>> => Head(p).kind # "edit"
    <3>1. PICK t : t = Tail(p) OBVIOUS
    <3>2. p # <<>> => 1 \in DOMAIN p /\ Head(p) = p[1] BY <1>9, <3>1, TailAt
    <3> QED BY <1>9, <3>2
  <2>5. p = <<>> => draft.msg # m BY <1>12, DraftBegins
  <2> QED BY <1>5, <1>9, <1>10, <2>1, <2>3, <2>4, <2>5 DEF Follows
<1>14. CASE streams[m].posted
  <2>1. p # <<>> /\ streams[m].mode = "message" /\ draft.msg # m
    BY <1>12, <1>14, DraftBegins DEF StreamFits
  <2>2. PICK t : t = Tail(p) OBVIOUS
  <2>3. /\ 1 \in DOMAIN p /\ t \in Seq(Items) /\ DOMAIN p = 1..Len(p) /\ Len(p) \in Nat \ {0}
        /\ DOMAIN t = 1..(Len(p) - 1) /\ \A k \in 1..(Len(p) - 1) : t[k] = p[k + 1]
    BY <1>9, <2>1, <2>2, TailAt
  <2>4. \A k \in DOMAIN t : t[k].msg = m /\ t[k].kind = "text"
    <3>1. \A k \in DOMAIN t : k + 1 \in DOMAIN p /\ t[k] = p[k + 1] BY <2>3
    <3> QED BY <1>9, <3>1
  <2>5. PICK text \in Text : text = p[1].text
    <3>1. \A e \in Items : e.text \in Text BY DEF Items
    <3>2. p[1] \in Items BY <1>9, <2>3
    <3> QED BY <3>1, <3>2
  <2>6. text = {a \in (d + 1)..n : a <= d + Limit} BY <1>8, <2>1, <2>5 DEF SaysRest
  <2>7. Beginning(m) \subseteq text BY <1>4, <2>6
  <2>8. CASE text = streams[m].last
    <3>1. f = t BY <1>11, <1>14, <2>1, <2>2, <2>5, <2>8
    <3>2. \A i \in Entries(m) : chat[i].kind = "preview" => chat[i].text = text
      BY <2>7, <2>8 DEF PreviewFits
    <3>3. PICK c : c = chat OBVIOUS
    <3>4. \A i \in DOMAIN chat : c[i].msg = chat[i].msg
             /\ IF chat[i].msg = m /\ chat[i].kind = "preview" THEN c[i].text = text ELSE c[i] = chat[i]
      BY <3>2, <3>3 DEF Entries
    <3>5. ReadsOn(c, m, t) /\ \A a \in 1..n : Covered(c, m, t, a)
      BY <1>2, <1>8, <1>14, <2>1, <2>2, <2>5, <3>3, <3>4, PreviewLeads
    <3>6. t # <<>> => Head(t).kind # "edit"
      <4>1. PICK u : u = Tail(t) OBVIOUS
      <4>2. t # <<>> => 1 \in DOMAIN t /\ Head(t) = t[1] BY <2>3, <4>1, TailAt
      <4> QED BY <2>4, <4>2
    <3> QED BY <1>5, <1>10, <2>1, <2>3, <2>4, <3>1, <3>3, <3>5, <3>6 DEF Follows
  <2>9. CASE text # streams[m].last
    <3>1. PICK e \in Items : e.kind = "edit" /\ e.msg = m /\ e.text = text /\ e = Item("edit", m, text)
      BY <1>1 DEF Item, Items
    <3>2. f = <<e>> \o t BY <1>11, <1>14, <2>1, <2>2, <2>5, <2>9, <3>1
    <3>3. /\ f \in Seq(Items) /\ f # <<>> /\ Head(f) = e /\ Tail(f) = t
      <4>1. t \in Seq(Items) /\ e \in Items /\ f = <<e>> \o t BY <2>3, <3>2
      <4> QED BY <4>1, LedBy
    <3>4. PICK c : c = WithPreview(m, text) OBVIOUS
    <3>5. DOMAIN c = DOMAIN chat BY <3>4 DEF WithPreview
    <3>6. \A i \in DOMAIN chat : c[i].msg = chat[i].msg
             /\ IF chat[i].msg = m /\ chat[i].kind = "preview" THEN c[i].text = text ELSE c[i] = chat[i]
      BY <3>4, WithPreviewAt
    <3>7. ReadsOn(c, m, t) /\ \A a \in 1..n : Covered(c, m, t, a)
      BY <1>2, <1>8, <1>14, <2>1, <2>2, <2>5, <3>5, <3>6, PreviewLeads
    <3> QED BY <1>5, <1>10, <2>1, <3>1, <3>3, <3>4, <3>7 DEF Follows
  <2> QED BY <2>8, <2>9
<1> QED BY <1>13, <1>14

\* When a message's finish is over, it is no longer worked on.
LEMMA FinishOver ==
    ASSUME SayTypes, FinishLast, HeadStep, NEW m \in Messages, m = HeadMsg,
           Head(chain).kind = "finish", chain' = Tail(chain)
    PROVE  ~Working(m)' /\ OpsOf(m)' = {}
<1>1. Shifted(1) BY ShiftedChain DEF HeadStep
<1>2. Head(chain) = chain[1] /\ m = chain[1].msg /\ 1 \in DOMAIN chain BY HeadAt DEF HeadStep
<1>3. 1 \in FinishOf(m) BY <1>2 DEF FinishOf
<1>4. ~Writing(m) /\ \A j \in OpsOf(m) : j <= 1 BY <1>3 DEF FinishLast
<1>5. ASSUME NEW i \in OpsOf(m)' PROVE FALSE
  <2>1. i \in Nat \ {0} /\ i + 1 \in OpsOf(m) BY <1>1 DEF Shifted, OpsOf
  <2> QED BY <1>4, <2>1
<1>6. FinishOf(m)' = {} BY <1>5 DEF FinishOf, OpsOf, OfStream
<1> QED BY <1>4, <1>5, <1>6, HeadStepOps DEF Working

\* A finish that has nothing to send is over; another sends what Follows.
LEMMA StartFinishFits ==
    ASSUME SaidInv, SayTypes', HeadStep, doing.at = "idle", NEW m \in Messages, m = HeadMsg, m \notin cut,
           Head(chain).kind = "finish", StartFinish(Head(chain)), UNCHANGED <<chat, draft, seen, support, cut>>
    PROVE  MessageFits(m)'
<1>1. /\ SayTypes /\ FinishLast /\ Working(m) /\ m <= speech.msg
      /\ ~Flushing(m) /\ ~Sending(m) /\ StreamFits(m)
      /\ DeliveredIsSaid(m) /\ PreviewFits(m) /\ SeenIsKept(m) /\ DraftIsKept(m)
  BY HeadBegins DEF HeadStep, OfStream, SaidInv, ChainFits
<1>2. PICK o \in Ops : o = Head(chain) /\ o = chain[1] /\ o.msg = m /\ o.kind = "finish" /\ 1 \in DOMAIN chain
  BY <1>1, HeadAt DEF HeadStep
<1>3. /\ streams[m].pending <= o.full
      /\ said[m] = IF o.why = "aborted" THEN {} ELSE 1..o.full
  <2>1. 1 \in FinishOf(m) BY <1>2 DEF FinishOf
  <2> QED BY <1>1, <1>2, <2>1 DEF FinishLast
<1>4. PICK todo : todo = IF o.why = "aborted" THEN Marked(streams[m], o)
                         ELSE Final(streams[m], o) \o IF o.why = "error" THEN <<Item("error", m, {})>> ELSE <<>>
  OBVIOUS
<1>5. Follows(m, todo)
  <2>1. CASE o.why = "aborted" BY <1>1, <1>2, <1>3, <1>4, <2>1, MarkedFollows
  <2>2. CASE o.why # "aborted"
    <3>1. PICK f : f = Final(streams[m], o) OBVIOUS
    <3>2. Follows(m, f) BY <1>1, <1>2, <1>3, <2>2, <3>1, FinalFollows
    <3>3. CASE o.why = "error"
      <4>1. PICK e \in Items : e.msg = m /\ e.text = {} /\ e.kind = "error" /\ e = Item("error", m, {})
        <5>1. Item("error", m, {}) \in Items BY DEF Item, Items, Text, Messages
        <5> QED BY <5>1 DEF Item
      <4>2. Follows(m, f \o <<e>>) BY <3>2, <4>1, FollowsWithError
      <4> QED BY <1>4, <2>2, <3>1, <3>3, <4>1, <4>2
    <3>4. CASE o.why # "error"
      <4>1. f \in Seq(Items) BY <3>2 DEF Follows
      <4>2. f \o <<>> = f BY <4>1
      <4> QED BY <1>4, <2>2, <3>1, <3>2, <3>4, <4>2
    <3> QED BY <3>3, <3>4
  <2> QED BY <2>1, <2>2
<1>6. (IF todo = <<>> THEN Over ELSE Calls("send", {}, todo)) /\ UNCHANGED streams
  BY <1>2, <1>4 DEF StartFinish
<1>7. speech' = speech /\ said' = said /\ UNCHANGED <<chat, draft, seen, cut>> BY DEF HeadStep
<1>8. CASE todo = <<>> /\ Over
  <2>1. ~Working(m)' /\ OpsOf(m)' = {} BY <1>1, <1>8, FinishOver DEF Over
  <2>2. PICK p \in Seq(Items) : p = todo BY <1>5 DEF Follows
  <2>3. DOMAIN p = {} /\ ReadsOn(chat, m, p) /\ draft.msg # m
        /\ \A a \in said[m] \cup seen[m] : Covered(chat, m, p, a)
    BY <1>5, <1>8, <2>2 DEF Follows
  <2>4. SaidOnce(m)' BY <1>7, <2>3 DEF SaidOnce, InChat, Entries, ReadsOn, Covered, Before
  <2> QED BY <1>7, <2>1, <2>3, <2>4 DEF MessageFits, DraftIsEnded, Sending
<1>9. CASE todo # <<>> /\ Calls("send", {}, todo)
  <2>1. doing'.at = "send" /\ doing'.todo = todo /\ chain' = chain BY <1>9 DEF Calls
  <2>2. Sending(m)' /\ Head(chain').kind # "close" BY <1>2, <2>1 DEF Sending, HeadMsg, OfStream
  <2>3. Working(m)' BY <1>1, <2>1, HeadStepOps
  <2>4. FinishFits(m)'
    <3>1. \A text : WithPreview(m, text)' = WithPreview(m, text) BY <1>7 DEF WithPreview
    <3> QED BY <1>5, <1>7, <1>9, <2>1, <3>1 DEF Follows, FinishFits
  <2> QED BY <1>1, <2>2, <2>3, <2>4 DEF MessageFits
<1> QED BY <1>6, <1>8, <1>9

\* What a finish sends is of its message, and only the first of it an edit.
OfFinish(m, todo) ==
    /\ todo \in Seq(Items)
    /\ \A k \in DOMAIN todo : todo[k].msg = m /\ (k # 1 => todo[k].kind # "edit")

LEMMA FinishSends ==
    ASSUME SayTypes, NEW m \in Messages, StreamFits(m), NEW o \in Ops, o.msg = m, streams[m].pending <= o.full,
           NEW todo, todo = IF o.why = "aborted" THEN Marked(streams[m], o)
                            ELSE Final(streams[m], o) \o IF o.why = "error" THEN <<Item("error", m, {})>> ELSE <<>>
    PROVE  OfFinish(m, todo)
<1>1. /\ streams[m] \in Streams /\ o.full \in 0..MaxText /\ m \in 0..MaxMessages
  BY SayVariables DEF Ops, Messages
<1>2. PICK d \in 0..MaxText, n \in 0..MaxText : d = streams[m].delivered /\ n = o.full
  BY <1>1 DEF Streams
<1>3. d <= n
  <2>1. \A s \in Streams : s.pending \in Nat BY RepliesAssumption DEF Streams
  <2>2. streams[m].pending \in Nat /\ d \in Nat /\ n \in Nat BY <1>1, <2>1, RepliesAssumption
  <2>3. d <= streams[m].pending /\ streams[m].pending <= n BY <1>2 DEF StreamFits
  <2> QED BY <2>2, <2>3
<1>4. ASSUME NEW kind \in {"text", "mark"}, NEW p, p = Parts(kind, m, d + 1, n)
      PROVE  p \in Seq(Items) /\ \A k \in DOMAIN p : p[k].msg = m /\ p[k].kind = kind
  <2>1. SaysRest(p, kind, m, d, n) BY <1>1, <1>3, <1>4, PartsSay
  <2> QED BY <2>1 DEF SaysRest
<1>5. OfFinish(m, Marked(streams[m], o))
  <2>1. PICK p : p = Parts("mark", m, d + 1, n) OBVIOUS
  <2>2. PICK kind \in {"text", "mark"} : kind = "mark" OBVIOUS
  <2>3. p \in Seq(Items) /\ \A k \in DOMAIN p : p[k].msg = m /\ p[k].kind = "mark"
    BY <1>4, <2>1, <2>2
  <2>4. PICK q : q = Marked(streams[m], o) OBVIOUS
  <2>5. q = p \/ q = <<>> BY <1>2, <2>1, <2>4 DEF Marked
  <2>6. <<>> \in Seq(Items) /\ DOMAIN <<>> = {} OBVIOUS
  <2> QED BY <2>3, <2>4, <2>5, <2>6 DEF OfFinish
<1>6. OfFinish(m, Final(streams[m], o))
  <2>1. PICK p : p = Parts("text", m, d + 1, n) OBVIOUS
  <2>2. PICK kind \in {"text", "mark"} : kind = "text" OBVIOUS
  <2>3. p \in Seq(Items) /\ \A k \in DOMAIN p : p[k].msg = m /\ p[k].kind = "text"
    BY <1>4, <2>1, <2>2
  <2>4. PICK t : t = Tail(p) OBVIOUS
  <2>5. PICK f : f = Final(streams[m], o) OBVIOUS
  <2>6. f = p \/ (p # <<>> /\ (f = t \/ f = <<Item("edit", m, p[1].text)>> \o t))
    BY <1>2, <2>1, <2>4, <2>5 DEF Final
  <2>7. CASE f = p BY <2>3, <2>5, <2>7 DEF OfFinish
  <2>8. ASSUME p # <<>>
        PROVE  t \in Seq(Items) /\ p[1].text \in Text /\ \A k \in DOMAIN t : t[k].msg = m /\ t[k].kind = "text"
    <3>1. /\ t \in Seq(Items) /\ p[1] \in Items /\ Len(p) \in Nat
          /\ DOMAIN p = 1..Len(p) /\ DOMAIN t = 1..(Len(p) - 1)
          /\ \A k \in 1..(Len(p) - 1) : t[k] = p[k + 1]
      BY <2>3, <2>4, <2>8, TailAt
    <3>2. \A k \in DOMAIN t : k + 1 \in DOMAIN p /\ t[k] = p[k + 1] BY <3>1
    <3>3. \A e \in Items : e.text \in Text BY DEF Items
    <3> QED BY <2>3, <3>1, <3>2, <3>3
  <2>9. CASE p # <<>> /\ f = t BY <2>5, <2>8, <2>9 DEF OfFinish
  <2>10. CASE p # <<>> /\ f = <<Item("edit", m, p[1].text)>> \o t
    <3>1. PICK e \in Items : e.msg = m /\ e = Item("edit", m, p[1].text)
      <4>1. Item("edit", m, p[1].text) \in Items BY <1>1, <2>8, <2>10 DEF Item, Items
      <4> QED BY <4>1 DEF Item
    <3>2. t \in Seq(Items) /\ f = <<e>> \o t BY <2>8, <2>10, <3>1
    <3>3. f \in Seq(Items) /\ f[1] = e BY <3>2, LedBy
    <3>4. \A k \in DOMAIN f : k = 1 \/ \E l \in DOMAIN t : f[k] = t[l] BY <3>2, LedBy
    <3> QED BY <2>5, <2>8, <2>10, <3>1, <3>3, <3>4 DEF OfFinish
  <2> QED BY <2>6, <2>7, <2>9, <2>10
<1>7. ASSUME NEW f, OfFinish(m, f) PROVE OfFinish(m, f \o <<Item("error", m, {})>>) /\ f \o <<>> = f
  <2>1. PICK p \in Seq(Items) : p = f BY <1>7 DEF OfFinish
  <2>2. p \o <<>> = p OBVIOUS
  <2>3. PICK e \in Items : e.msg = m /\ e.kind = "error" /\ e = Item("error", m, {})
    <3>1. Item("error", m, {}) \in Items BY <1>1 DEF Item, Items, Text
    <3> QED BY <3>1 DEF Item
  <2>4. PICK q : q = Append(p, e) OBVIOUS
  <2>5. p \o <<e>> = q BY <2>4
  <2>6. /\ q \in Seq(Items) /\ Len(p) \in Nat /\ DOMAIN p = 1..Len(p) /\ DOMAIN q = 1..(Len(p) + 1)
        /\ (\A i \in 1..Len(p) : q[i] = p[i]) /\ q[Len(p) + 1] = e
    BY <2>4, AppendedAt
  <2>7. \A k \in DOMAIN q : q[k] = e \/ (k \in DOMAIN p /\ q[k] = p[k]) BY <2>6
  <2> QED BY <1>7, <2>1, <2>2, <2>3, <2>5, <2>6, <2>7 DEF OfFinish
<1> QED BY <1>5, <1>6, <1>7

\* A step that changes the head's stream alone.
LEMMA OneStream ==
    ASSUME SayTypes, NEW m \in Messages, NEW t, streams' = [streams EXCEPT ![m] = t],
           t.pending = streams[m].pending, t.timer = streams[m].timer
    PROVE  /\ streams'[m] = t
           /\ \A k \in Messages :
                /\ streams'[k].pending = streams[k].pending /\ streams'[k].timer = streams[k].timer
                /\ k # m => streams'[k] = streams[k]
<1>1. streams \in [Messages -> Streams] BY DEF SayTypes
<1>2. streams'[m] = t /\ \A k \in Messages : k # m => streams'[k] = streams[k] BY <1>1
<1> QED BY <1>2

Begins == doing.at = "idle" /\ chain # <<>> /\ UNCHANGED <<speech, listed, support, chat, draft, said, seen>>

LEMMA BeginsStep ==
    ASSUME SayTypes, Begins, Over \/ chain' = chain, cut \subseteq cut',
           \A m \in Messages :
             /\ streams'[m].pending = streams[m].pending /\ streams'[m].timer = streams[m].timer
             /\ m # HeadMsg => streams'[m] = streams[m]
    PROVE  HeadStep /\ (Over => TodoOfHead')
<1>1. ChatMoves BY DEF Begins, ChatMoves
<1>2. Over => doing'.at = "idle" /\ chain' = Tail(chain) BY DEF Over, Idle
<1> QED BY <1>1, <1>2 DEF Begins, HeadStep, TodoOfHead

LEMMA StartFlushSaid ==
    ASSUME SaidInv, SayTypes', Begins, Head(chain).kind = "flush", StartFlush(HeadMsg), UNCHANGED cut
    PROVE  SaidInv'
<1>1. SayTypes /\ chain # <<>> /\ doing.at = "idle" /\ UNCHANGED <<support, chat, draft, seen>>
  BY DEF SaidInv, Begins
<1>2. PICK m \in Messages : m = HeadMsg BY <1>1, HeadAt DEF OfStream
<1>3. PICK s \in Streams : s = streams[m] BY <1>1, SayVariables
<1>4. StreamFits(m) /\ OpsOf(m) # {} BY <1>1, <1>2, HeadWorks DEF SaidInv, ChainFits, OfStream
<1>5. streams \in [Messages -> Streams] BY <1>1 DEF SayTypes
<1>6. \/ Over /\ UNCHANGED streams
      \/ /\ s.mode = "draft" /\ support # "unsupported" /\ doing'.at = "draft"
         /\ streams' = [streams EXCEPT ![m] = [s EXCEPT !.drafted = TRUE]]
         /\ doing'.todo = <<>> /\ chain' = chain
      \/ /\ ~(s.mode = "draft" /\ support # "unsupported") /\ doing'.at \in {"edit", "preview"}
         /\ streams' = [streams EXCEPT ![m] = [s EXCEPT !.mode = "message"]]
         /\ doing'.todo = <<>> /\ chain' = chain
  <2>1. \A at, text : Calls(at, text, <<>>) => doing'.at = at /\ doing'.todo = <<>> /\ chain' = chain
    BY DEF Calls
  <2>2. PICK text : text = Truncate(s, s.pending) OBVIOUS
  <2>3. \/ Over /\ UNCHANGED streams
        \/ IF s.mode = "draft" /\ support # "unsupported"
           THEN streams' = [streams EXCEPT ![m].drafted = TRUE] /\ Calls("draft", text, <<>>)
           ELSE /\ streams' = [streams EXCEPT ![m].mode = "message"]
                /\ Calls(IF s.posted THEN "edit" ELSE "preview", text, <<>>)
    BY <1>2, <1>3, <2>2 DEF StartFlush
  <2>4. /\ [streams EXCEPT ![m].drafted = TRUE] = [streams EXCEPT ![m] = [s EXCEPT !.drafted = TRUE]]
        /\ [streams EXCEPT ![m].mode = "message"] = [streams EXCEPT ![m] = [s EXCEPT !.mode = "message"]]
    BY <1>3
  <2> QED BY <2>1, <2>3, <2>4
<1>7. PICK t, u : t = [s EXCEPT !.drafted = TRUE] /\ u = [s EXCEPT !.mode = "message"] OBVIOUS
<1>8. /\ t.pending = s.pending /\ t.timer = s.timer /\ t.mode = s.mode /\ t.posted = s.posted /\ t.delivered = s.delivered
      /\ u.pending = s.pending /\ u.timer = s.timer /\ u.mode = "message" /\ u.drafted = s.drafted
      /\ u.delivered = s.delivered
  BY <1>7 DEF Streams
<1>9. CASE Over /\ UNCHANGED streams
  <2>1. HeadStep /\ TodoOfHead' BY <1>1, <1>9, BeginsStep
  <2>2. m \notin cut => MessageFits(m)' BY <1>1, <1>2, <2>1, StartFlushFits
  <2> QED BY <1>1, <1>2, <1>9, <2>1, <2>2, HeadStepSaid DEF MessageFits
<1>10. CASE ~(Over /\ UNCHANGED streams)
  <2>1. /\ \/ streams' = [streams EXCEPT ![m] = t]
           \/ streams' = [streams EXCEPT ![m] = u]
        /\ doing'.at \in {"draft", "edit", "preview"} /\ doing'.todo = <<>> /\ chain' = chain
    BY <1>6, <1>7, <1>10
  <2>2. \A k \in Messages :
          /\ streams'[k].pending = streams[k].pending /\ streams'[k].timer = streams[k].timer
          /\ k # HeadMsg => streams'[k] = streams[k]
    BY <1>1, <1>2, <1>3, <1>8, <2>1, OneStream
  <2>3. HeadStep BY <1>1, <2>1, <2>2, BeginsStep
  <2>5. \/ streams'[m] = t /\ s.mode = "draft" /\ support # "unsupported" /\ doing'.at = "draft"
        \/ streams'[m] = u /\ ~(s.mode = "draft" /\ support # "unsupported")
    BY <1>5, <1>6, <1>7, <1>10
  <2>4. TodoOfHead'
    <3>1. doing'.at = "preview" => streams'[m].mode = "message" BY <1>8, <2>5
    <3> QED BY <1>2, <2>1, <3>1 DEF TodoOfHead, HeadMsg
  <2>6. /\ streams'[m].drafted => streams'[m].mode = "draft" /\ support' # "unsupported"
        /\ streams'[m].posted => streams'[m].mode = "message"
        /\ streams'[m].delivered <= streams'[m].pending
    BY <1>1, <1>3, <1>4, <1>8, <2>5 DEF StreamFits
  <2>7. m \notin cut => MessageFits(m)' BY <1>1, <1>2, <2>3, StartFlushFits
  <2> QED BY <1>1, <1>2, <2>3, <2>4, <2>6, <2>7, HeadStepSaid DEF MessageFits
<1> QED BY <1>9, <1>10

LEMMA StartCloseSaid ==
    ASSUME SaidInv, SayTypes', Begins, Head(chain).kind = "close", StartClose(HeadMsg), UNCHANGED cut
    PROVE  SaidInv'
<1>1. SayTypes /\ chain # <<>> /\ doing.at = "idle" /\ UNCHANGED <<support, chat, draft, seen>>
  BY DEF SaidInv, Begins
<1>2. PICK m \in Messages : m = HeadMsg BY <1>1, HeadAt DEF OfStream
<1>3. PICK s, t : s = streams[m] /\ s \in Streams /\ t = Closed(s) BY <1>1, SayVariables
<1>4. StreamFits(m) BY <1>1, <1>2 DEF SaidInv, ChainFits
<1>5. /\ t.pending = s.pending /\ t.timer = s.timer /\ t.mode = s.mode /\ t.posted = s.posted
      /\ ~t.drafted /\ t.delivered = s.pending /\ s.pending \in Nat
  BY <1>3, RepliesAssumption DEF Streams, Closed
<1>6. PICK parts : parts = Parts("text", m, s.delivered + 1, s.pending) OBVIOUS
<1>7. \/ Over /\ UNCHANGED streams
      \/ Over /\ streams' = [streams EXCEPT ![m] = t]
      \/ Calls("close", {}, parts) /\ UNCHANGED streams
  BY <1>2, <1>3, <1>6 DEF StartClose
<1>8. \A k \in Messages :
        /\ streams'[k].pending = streams[k].pending /\ streams'[k].timer = streams[k].timer
        /\ k # HeadMsg => streams'[k] = streams[k]
  <2>1. CASE UNCHANGED streams BY <2>1
  <2>2. CASE streams' = [streams EXCEPT ![m] = t] BY <1>1, <1>2, <1>3, <1>5, <2>2, OneStream
  <2> QED BY <1>7, <2>1, <2>2
<1>9. HeadStep /\ (Over => TodoOfHead') BY <1>1, <1>7, <1>8, BeginsStep DEF Calls
<1>10. TodoOfHead'
  <2>1. CASE Calls("close", {}, parts)
    <3>1. /\ doing'.at = "close" /\ doing'.todo = parts /\ chain' = chain BY <2>1 DEF Calls
    <3>2. /\ s.delivered \in 0..MaxText /\ s.pending \in 0..MaxText /\ s.delivered <= s.pending /\ m \in 0..MaxMessages
      BY <1>3, <1>4 DEF Streams, StreamFits, Messages
    <3>3. PICK kind \in {"text", "mark"} : kind = "text" OBVIOUS
    <3>4. SaysRest(parts, kind, m, s.delivered, s.pending) BY <1>6, <3>2, <3>3, PartsSay
    <3>5. \A k \in DOMAIN parts : parts[k].msg = m /\ parts[k].kind = "text"
      BY <3>3, <3>4 DEF SaysRest
    <3> QED BY <1>2, <3>1, <3>5 DEF TodoOfHead, HeadMsg
  <2> QED BY <1>7, <1>9, <2>1
<1>11. \/ streams'[m] = streams[m] /\ support' = support
       \/ /\ streams'[m].drafted => streams'[m].mode = "draft" /\ support' # "unsupported"
          /\ streams'[m].posted => streams'[m].mode = "message"
          /\ streams'[m].delivered <= streams'[m].pending
  <2>1. CASE UNCHANGED streams BY <1>1, <2>1
  <2>2. CASE streams' = [streams EXCEPT ![m] = t]
    <3>1. streams'[m] = t
      <4>1. streams \in [Messages -> Streams] BY <1>1 DEF SayTypes
      <4> QED BY <2>2, <4>1
    <3>2. s.pending <= s.pending BY <1>5
    <3> QED BY <1>3, <1>4, <1>5, <3>1, <3>2 DEF StreamFits
  <2> QED BY <1>7, <2>1, <2>2
<1>12. m \notin cut => MessageFits(m)' BY <1>1, <1>2, <1>9, StartCloseFits
<1> QED BY <1>1, <1>2, <1>9, <1>10, <1>11, <1>12, HeadStepSaid DEF MessageFits

LEMMA StartFinishSaid ==
    ASSUME SaidInv, SayTypes', Begins, Head(chain).kind = "finish", StartFinish(Head(chain)), UNCHANGED cut
    PROVE  SaidInv'
<1>1. SayTypes /\ FinishLast /\ chain # <<>> /\ doing.at = "idle" /\ UNCHANGED <<support, chat, draft, seen>>
  BY DEF SaidInv, ChainFits, Begins
<1>2. PICK m \in Messages : m = HeadMsg BY <1>1, HeadAt DEF OfStream
<1>3. PICK o \in Ops : o = Head(chain) /\ o = chain[1] /\ o.msg = m /\ o.kind = "finish" /\ 1 \in DOMAIN chain
  BY <1>1, <1>2, HeadAt
<1>4. StreamFits(m) /\ streams[m].pending <= o.full
  <2>1. 1 \in FinishOf(m) BY <1>3 DEF FinishOf
  <2> QED BY <1>1, <1>3, <2>1 DEF FinishLast, SaidInv, ChainFits
<1>5. PICK todo : todo = IF o.why = "aborted" THEN Marked(streams[m], o)
                         ELSE Final(streams[m], o) \o IF o.why = "error" THEN <<Item("error", m, {})>> ELSE <<>>
  OBVIOUS
<1>6. (IF todo = <<>> THEN Over ELSE Calls("send", {}, todo)) /\ UNCHANGED streams
  BY <1>3, <1>5 DEF StartFinish
<1>7. HeadStep /\ (Over => TodoOfHead')
  <2>1. Over \/ chain' = chain BY <1>6 DEF Calls
  <2> QED BY <1>1, <1>6, <2>1, BeginsStep
<1>8. TodoOfHead'
  <2>1. CASE Calls("send", {}, todo)
    <3>1. doing'.at = "send" /\ doing'.todo = todo /\ chain' = chain BY <2>1 DEF Calls
    <3>2. OfFinish(m, todo) BY <1>1, <1>3, <1>4, <1>5, FinishSends
    <3> QED BY <1>2, <1>3, <3>1, <3>2 DEF TodoOfHead, HeadMsg, OfFinish
  <2> QED BY <1>6, <1>7, <2>1
<1>9. m \notin cut => MessageFits(m)' BY <1>1, <1>2, <1>7, StartFinishFits
<1> QED BY <1>1, <1>2, <1>6, <1>7, <1>8, <1>9, HeadStepSaid DEF MessageFits

\* A line, a file, and what finds no chat.
LEMMA StartAsideSaid ==
    ASSUME SaidInv, SayTypes', Begins, UNCHANGED streams,
           \/ /\ Over
              /\ IF Head(chain).kind = "finish" THEN Loses(HeadMsg) ELSE UNCHANGED cut
           \/ /\ UNCHANGED cut /\ Head(chain).kind \in {"line", "file"}
              /\ \E at \in {"send", "photo", "document"}, kind \in {"line", "file", "note"} :
                    Calls(at, {}, <<Item(kind, HeadMsg, {})>>)
    PROVE  SaidInv'
<1>1. SayTypes /\ chain # <<>> /\ doing.at = "idle" /\ UNCHANGED <<support, chat, draft, seen>>
  BY DEF SaidInv, Begins
<1>2. cut \subseteq cut' /\ (Over \/ chain' = chain) BY DEF Loses, Calls
<1>3. HeadStep /\ (Over => TodoOfHead') BY <1>1, <1>2, BeginsStep
<1>4. ASSUME ~Over
      PROVE  /\ chain' = chain /\ Head(chain).kind \in {"line", "file"}
             /\ doing'.at \in {"send", "photo", "document"}
             /\ \A k \in DOMAIN doing'.todo :
                  /\ doing'.todo[k].msg = HeadMsg /\ doing'.todo[k].text = {}
                  /\ doing'.todo[k].kind \in {"line", "file", "note"}
  <2>1. PICK at \in {"send", "photo", "document"}, kind \in {"line", "file", "note"} :
               Calls(at, {}, <<Item(kind, HeadMsg, {})>>)
    BY <1>4
  <2>2. PICK e : e = Item(kind, HeadMsg, {}) OBVIOUS
  <2>3. doing'.at = at /\ doing'.todo = <<e>> /\ chain' = chain BY <2>1, <2>2 DEF Calls
  <2>4. e.msg = HeadMsg /\ e.text = {} /\ e.kind = kind BY <2>2 DEF Item
  <2>5. \A k \in DOMAIN <<e>> : <<e>>[k] = e OBVIOUS
  <2> QED BY <1>4, <2>3, <2>4, <2>5
<1>5. TodoOfHead'
  <2>1. ~Over => TodoOfHead' BY <1>4 DEF TodoOfHead, HeadMsg
  <2> QED BY <1>3, <2>1
<1>6. ASSUME NEW m \in Messages, m = HeadMsg PROVE MessageFits(m)'
  <2>1. ~Sending(m) /\ ~Flushing(m) BY <1>1 DEF Sending, Flushing
  <2>2. ~Sending(m)' /\ ~Flushing(m)'
    <3>1. CASE Over BY <3>1 DEF Over, Idle, Sending, Flushing
    <3>2. CASE ~Over BY <1>4, <3>2 DEF Sending, Flushing, OfStream
    <3> QED BY <3>1, <3>2
  <2>3. CASE Head(chain).kind = "finish" /\ Over
    <3>1. m \in cut' BY <1>4, <1>6, <2>3 DEF Loses
    <3> QED BY <3>1 DEF MessageFits
  <2>4. CASE Head(chain).kind # "finish" BY <1>1, <1>3, <1>6, <2>1, <2>2, <2>4, HeadAsideFits
  <2> QED BY <1>4, <2>3, <2>4
<1> QED BY <1>1, <1>3, <1>5, <1>6, HeadStepSaid

LEMMA StartsSaid ==
    ASSUME SaidInv, SayTypes', NEW r \in BOOLEAN, Starts(r) PROVE SaidInv'
<1>1. SayTypes /\ Begins /\ chain # <<>> BY DEF Starts, Begins, SaidInv
<1>2. Head(chain).msg = HeadMsg /\ Head(chain) \in Ops BY <1>1, HeadAt DEF HeadMsg
<1>3. CASE ~r
  <2>1. Over /\ UNCHANGED streams /\ IF Head(chain).kind = "finish" THEN Loses(HeadMsg) ELSE UNCHANGED cut
    BY <1>2, <1>3 DEF Starts
  <2> QED BY <1>1, <2>1, StartAsideSaid
<1>4. CASE r
  <2>1. Head(chain).kind \in {"flush", "close", "finish", "line", "file"} /\ UNCHANGED cut
    BY <1>2, <1>4 DEF Ops, Starts
  <2>2. CASE Head(chain).kind = "flush" BY <1>1, <1>2, <1>4, <2>1, <2>2, StartFlushSaid DEF Starts
  <2>3. CASE Head(chain).kind = "close" BY <1>1, <1>2, <1>4, <2>1, <2>3, StartCloseSaid DEF Starts
  <2>4. CASE Head(chain).kind = "finish" BY <1>1, <1>2, <1>4, <2>1, <2>4, StartFinishSaid DEF Starts
  <2>5. CASE Head(chain).kind = "line"
    <3>1. Calls("send", {}, <<Item("line", HeadMsg, {})>>) /\ UNCHANGED streams
      BY <1>2, <1>4, <2>5 DEF Starts
    <3> QED BY <1>1, <2>1, <2>5, <3>1, StartAsideSaid
  <2>6. CASE Head(chain).kind = "file"
    <3>1. StartFile(HeadMsg) BY <1>2, <1>4, <2>6 DEF Starts
    <3>2. UNCHANGED streams /\ \E at \in {"send", "photo", "document"}, kind \in {"line", "file", "note"} :
                    Calls(at, {}, <<Item(kind, HeadMsg, {})>>)
      BY <3>1 DEF StartFile
    <3> QED BY <1>1, <2>1, <2>6, <3>2, StartAsideSaid
  <2> QED BY <2>1, <2>2, <2>3, <2>4, <2>5, <2>6
<1> QED BY <1>3, <1>4

--------------------
(* The calls of the head are answered, or fail. *)

\* What is known of a message while a call of its stream is under way.
LEMMA HeadCalls ==
    ASSUME SaidInv, doing.at # "idle", NEW m \in Messages, m = HeadMsg,
           Head(chain).kind \in OfStream, m \notin cut
    PROVE  /\ Working(m) /\ m <= speech.msg /\ StreamFits(m) /\ streams[m] \in Streams
           /\ doing.at \in {"draft", "preview", "edit"} =>
                /\ Flushing(m) /\ DeliveredIsSaid(m) /\ PreviewFits(m) /\ FlushFits(m)
                /\ SeenIsKept(m) /\ DraftIsKept(m)
           /\ doing.at = "close" => CloseFits(m)
           /\ doing.at = "send" => FinishFits(m)
<1>1. SayTypes /\ TodoOfHead /\ StreamFits(m) /\ MessageFits(m) BY DEF SaidInv, ChainFits
<1>2. chain # <<>> /\ streams[m] \in Streams BY <1>1, SayVariables
<1>3. Working(m) /\ m <= speech.msg BY <1>2, HeadWorks
<1>4. CASE doing.at \in {"draft", "preview", "edit"}
  <2>1. Flushing(m) /\ ~Sending(m) BY <1>4 DEF Flushing, Sending
  <2> QED BY <1>1, <1>2, <1>3, <1>4, <2>1 DEF MessageFits, Stands
<1>5. CASE doing.at = "close"
  <2>1. Sending(m) /\ Head(chain).kind = "close" BY <1>1, <1>5 DEF Sending, TodoOfHead, OfStream
  <2> QED BY <1>1, <1>2, <1>3, <1>5, <2>1 DEF MessageFits
<1>6. CASE doing.at = "send"
  <2>1. Sending(m) /\ Head(chain).kind # "close" BY <1>1, <1>6 DEF Sending, TodoOfHead, OfStream
  <2> QED BY <1>1, <1>2, <1>3, <1>6, <2>1 DEF MessageFits
<1> QED BY <1>1, <1>2, <1>3, <1>4, <1>5, <1>6

LEMMA BeginningStays ==
    ASSUME NEW m, streams'[m].delivered = streams[m].delivered, streams'[m].pending = streams[m].pending
    PROVE  Beginning(m)' = Beginning(m)
BY DEF Beginning, Truncate, AfterDelivered

\* A draft that is shown shows the beginning of what follows.
LEMMA DraftAnsweredFits ==
    ASSUME SaidInv, SayTypes', HeadStep, NEW m \in Messages, m = HeadMsg, m \notin cut,
           doing.at = "draft", Head(chain).kind = "flush", doing'.at = "idle", Drafted,
           NEW t, streams'[m] = t, t = [streams[m] EXCEPT !.last = doing.text]
    PROVE  MessageFits(m)'
<1>1. /\ SayTypes /\ Working(m) /\ m <= speech.msg /\ StreamFits(m) /\ streams[m] \in Streams
      /\ Flushing(m) /\ DeliveredIsSaid(m) /\ PreviewFits(m) /\ FlushFits(m) /\ SeenIsKept(m) /\ DraftIsKept(m)
  BY HeadCalls DEF SaidInv, OfStream
<1>2. /\ t.delivered = streams[m].delivered /\ t.pending = streams[m].pending /\ t.posted = streams[m].posted
      /\ t.mode = streams[m].mode /\ t.drafted = streams[m].drafted /\ t.last = doing.text
  BY <1>1 DEF Streams
<1>3. /\ ~streams[m].posted /\ streams[m].mode = "draft" /\ streams[m].drafted
      /\ doing.text # {} /\ doing.text \subseteq Beginning(m)
  BY <1>1 DEF FlushFits, StreamFits
<1>4. Beginning(m)' = Beginning(m) BY <1>2, BeginningStays
<1>5. ~Flushing(m)' /\ ~Sending(m)' /\ Drafting(m)' /\ Working(m)' /\ speech' = speech
  <2>1. Working(m)' BY <1>1, HeadStepOps
  <2> QED BY <1>2, <1>3, <2>1 DEF Flushing, Sending, Drafting, HeadStep
<1>6. /\ chat' = chat /\ Entries(m)' = Entries(m) /\ draft'.msg = m /\ draft'.text = doing.text
      /\ seen'[m] = seen[m] \cup doing.text
  BY <1>1 DEF Drafted, Entries, SayTypes
<1>7. DeliveredIsSaid(m)' BY <1>1, <1>2, <1>6 DEF DeliveredIsSaid
<1>8. PreviewFits(m)' /\ FlushFits(m)' BY <1>1, <1>2, <1>3, <1>5, <1>6 DEF PreviewFits, FlushFits
<1>9. SeenIsKept(m)'
  <2> SUFFICES ASSUME NEW a \in seen'[m] PROVE a <= streams[m].delivered \/ a \in Beginning(m)
    BY <1>2, <1>4, <1>5 DEF SeenIsKept
  <2>1. a \in seen[m] => a <= streams[m].delivered \/ a \in doing.text
    BY <1>1, <1>3 DEF SeenIsKept, PreviewFits
  <2> QED BY <1>3, <1>6, <2>1
<1>10. DraftIsKept(m)'
  <2>1. Before(1..streams[m].delivered, doing.text)
    <3>1. PICK d, p : d = streams[m].delivered /\ p = streams[m].pending OBVIOUS
    <3>2. d \in Nat /\ p \in Nat
      <4>1. \A s \in Streams : s.delivered \in Nat /\ s.pending \in Nat
        BY RepliesAssumption DEF Streams
      <4> QED BY <1>1, <3>1, <4>1
    <3>3. doing.text \subseteq (d + 1)..p BY <1>3, <3>1 DEF Beginning, Truncate, AfterDelivered
    <3> QED BY <3>1, <3>2, <3>3 DEF Before
  <2> QED BY <1>2, <1>3, <1>5, <1>6, <2>1 DEF DraftIsKept
<1> QED BY <1>1, <1>5, <1>7, <1>8, <1>9, <1>10 DEF MessageFits, Stands

\* The fallback's first message becomes the preview.
LEMMA PreviewAnsweredFits ==
    ASSUME SaidInv, SayTypes', HeadStep, NEW m \in Messages, m = HeadMsg, m \notin cut,
           doing.at = "preview", Head(chain).kind = "flush", doing'.at = "idle",
           Posted(Item("preview", m, doing.text)), seen' = seen,
           NEW t, streams'[m] = t, t = [streams[m] EXCEPT !.last = doing.text, !.posted = TRUE]
    PROVE  MessageFits(m)'
<1>1. /\ SayTypes /\ Working(m) /\ m <= speech.msg /\ StreamFits(m) /\ streams[m] \in Streams
      /\ Flushing(m) /\ DeliveredIsSaid(m) /\ PreviewFits(m) /\ FlushFits(m) /\ SeenIsKept(m) /\ DraftIsKept(m)
  BY HeadCalls DEF SaidInv, OfStream
<1>2. /\ t.delivered = streams[m].delivered /\ t.pending = streams[m].pending /\ t.posted = TRUE
      /\ t.last = doing.text
  BY <1>1 DEF Streams
<1>3. /\ ~streams[m].posted /\ doing.text # {} /\ doing.text \subseteq Beginning(m)
  BY <1>1 DEF FlushFits
<1>4. Beginning(m)' = Beginning(m) BY <1>2, BeginningStays
<1>5. ~Flushing(m)' /\ ~Sending(m)' /\ Working(m)' /\ speech' = speech
  <2>1. Working(m)' BY <1>1, HeadStepOps
  <2> QED BY <2>1 DEF Flushing, Sending, HeadStep
<1>6. PICK e : e = Item("preview", m, doing.text) OBVIOUS
<1>7. e \in Previews /\ e.msg = m /\ e.kind = "preview" /\ e.text = doing.text
  BY <1>1, <1>6, SayVariables DEF Item, Previews
<1>8. chat' = Append(chat, e) /\ draft'.msg = 0 /\ m # 0
  BY <1>1, <1>6, SayVariables DEF Posted, NoDraft
<1>9. PICK x : x = Len(chat) + 1 OBVIOUS
<1>10. /\ x \in Entries(m)' /\ chat'[x] = e
       /\ \A i \in Entries(m) : i \in Entries(m)' /\ chat'[i] = chat[i]
       /\ \A i \in Entries(m)' : i = x \/ i \in Entries(m)
       /\ \A i \in Entries(m) : ~(x < i) /\ chat[i].kind # "preview"
  <2>1. /\ x \in DOMAIN chat' /\ chat'[x] = e /\ x \in Nat
        /\ \A i \in DOMAIN chat : i \in DOMAIN chat' /\ chat'[i] = chat[i] /\ i < x
        /\ \A j \in DOMAIN chat' : j \notin DOMAIN chat => j = x
    BY <1>1, <1>7, <1>8, <1>9, PostedAt
  <2>2. \A i \in Entries(m) : chat[i].kind # "preview" BY <1>1, <1>3 DEF PreviewFits
  <2>3. \A i \in DOMAIN chat : ~(x < i) BY <1>1, <2>1, SayVariables
  <2> QED BY <1>7, <2>1, <2>2, <2>3 DEF Entries
<1>11. DeliveredIsSaid(m)' BY <1>1, <1>2, <1>7, <1>10 DEF DeliveredIsSaid
<1>12. PreviewFits(m)'
  <2>1. \A i \in Entries(m)' : chat'[i].kind = "preview" => i = x BY <1>10
  <2>2. \A j \in Entries(m)' : ~(x < j)
    <3>1. x \in Nat BY <1>1, <1>9, SayVariables
    <3> QED BY <1>10, <3>1
  <2> QED BY <1>2, <1>3, <1>4, <1>5, <1>7, <1>10, <2>1, <2>2 DEF PreviewFits
<1>13. SeenIsKept(m)'
  <2> SUFFICES ASSUME NEW a \in seen[m], ~(a <= streams[m].delivered) PROVE a \in doing.text
    BY <1>2, <1>5, <1>7, <1>10 DEF SeenIsKept
  <2> QED BY <1>1, <1>3 DEF SeenIsKept, PreviewFits
<1>14. FlushFits(m)' /\ DraftIsKept(m)' BY <1>5, <1>8 DEF FlushFits, DraftIsKept
<1> QED BY <1>1, <1>5, <1>11, <1>12, <1>13, <1>14 DEF MessageFits, Stands

\* An edit that is over has made the preview longer, or left it.
LEMMA EditOverFits ==
    ASSUME SaidInv, SayTypes', HeadStep, NEW m \in Messages, m = HeadMsg, m \notin cut,
           doing.at = "edit", Head(chain).kind = "flush", doing'.at = "idle",
           draft' = draft, seen' = seen,
           \/ chat' = chat /\ streams'[m] = streams[m]
           \/ chat' = WithPreview(m, doing.text)
              /\ streams'[m] \in {streams[m], [streams[m] EXCEPT !.last = doing.text]}
    PROVE  MessageFits(m)'
<1>1. /\ SayTypes /\ Working(m) /\ m <= speech.msg /\ StreamFits(m) /\ streams[m] \in Streams
      /\ Flushing(m) /\ DeliveredIsSaid(m) /\ PreviewFits(m) /\ FlushFits(m) /\ SeenIsKept(m) /\ DraftIsKept(m)
  BY HeadCalls DEF SaidInv, OfStream
<1>2. PICK t : t = streams'[m] OBVIOUS
<1>3. /\ t.delivered = streams[m].delivered /\ t.pending = streams[m].pending /\ t.posted = streams[m].posted
      /\ t.last = streams[m].last \/ (t.last = doing.text /\ chat' = WithPreview(m, doing.text))
  <2>1. PICK s, u : s = streams[m] /\ s \in Streams /\ u = [s EXCEPT !.last = doing.text] BY <1>1
  <2>2. u.delivered = s.delivered /\ u.pending = s.pending /\ u.posted = s.posted /\ u.last = doing.text
    BY <2>1 DEF Streams
  <2> QED BY <1>2, <2>1, <2>2
<1>4. /\ streams[m].posted /\ streams[m].mode = "message"
      /\ doing.text # {} /\ doing.text \subseteq Beginning(m)
  BY <1>1 DEF FlushFits, StreamFits
<1>5. Beginning(m)' = Beginning(m) BY <1>2, <1>3, BeginningStays
<1>6. ~Flushing(m)' /\ ~Sending(m)' /\ Working(m)' /\ speech' = speech
  <2>1. Working(m)' BY <1>1, HeadStepOps
  <2> QED BY <2>1 DEF Flushing, Sending, HeadStep
<1>7. /\ Entries(m)' = Entries(m)
      /\ \A i \in Entries(m) :
           /\ chat'[i].kind = chat[i].kind
           /\ chat[i].kind # "preview" => chat'[i].text = chat[i].text
           /\ chat[i].kind = "preview" =>
                \/ chat'[i].text = doing.text
                \/ chat'[i].text = chat[i].text /\ t.last = streams[m].last
  <2>1. CASE chat' = chat /\ streams'[m] = streams[m] BY <1>2, <2>1 DEF Entries
  <2>2. CASE chat' = WithPreview(m, doing.text)
    <3>1. doing.text \in Text BY <1>1, SayVariables
    <3>2. /\ DOMAIN chat' = DOMAIN chat
          /\ \A i \in DOMAIN chat :
               /\ chat'[i].msg = chat[i].msg /\ chat'[i].kind = chat[i].kind
               /\ IF chat[i].msg = m /\ chat[i].kind = "preview" THEN chat'[i].text = doing.text ELSE chat'[i] = chat[i]
      BY <1>1, <2>2, <3>1, WithPreviewAt
    <3> QED BY <3>2 DEF Entries
  <2> QED BY <2>1, <2>2
<1>8. DeliveredIsSaid(m)' BY <1>1, <1>2, <1>3, <1>7 DEF DeliveredIsSaid
<1>9. PreviewFits(m)'
  <2>1. streams'[m].posted <=> \E i \in Entries(m)' : chat'[i].kind = "preview"
    BY <1>1, <1>2, <1>3, <1>7 DEF PreviewFits
  <2>2. ASSUME NEW i \in Entries(m)', chat'[i].kind = "preview"
        PROVE  /\ chat'[i].text # {} /\ chat'[i].text \subseteq Beginning(m)'
               /\ streams'[m].last \subseteq chat'[i].text
               /\ \A j \in Entries(m)' : i < j => chat'[j].text = {}
    <3>1. /\ i \in Entries(m) /\ chat[i].kind = "preview" BY <1>7, <2>2
    <3>2. /\ chat[i].text # {} /\ chat[i].text \subseteq Beginning(m) /\ streams[m].last \subseteq chat[i].text
          /\ chat[i].text \subseteq doing.text
          /\ \A j \in Entries(m) : i < j => chat[j].text = {} /\ chat[j].kind # "preview"
      BY <1>1, <3>1 DEF PreviewFits
    <3>3. \A j \in Entries(m)' : i < j => chat'[j].text = {} BY <1>7, <3>2
    <3>4. CASE chat'[i].text = doing.text BY <1>2, <1>3, <1>4, <1>5, <3>2, <3>3, <3>4
    <3>5. CASE chat'[i].text = chat[i].text /\ t.last = streams[m].last
      BY <1>2, <1>5, <3>2, <3>3, <3>5
    <3> QED BY <1>7, <3>1, <3>4, <3>5
  <2> QED BY <1>6, <2>1, <2>2 DEF PreviewFits
<1>10. SeenIsKept(m)'
  <2> SUFFICES ASSUME NEW a \in seen[m], ~(a <= streams[m].delivered)
               PROVE  \E i \in Entries(m)' : chat'[i].kind = "preview" /\ a \in chat'[i].text
    BY <1>2, <1>3, <1>6 DEF SeenIsKept
  <2>1. PICK i \in Entries(m) : chat[i].kind = "preview" /\ a \in chat[i].text
    BY <1>1 DEF SeenIsKept
  <2>2. a \in doing.text BY <1>1, <2>1 DEF PreviewFits
  <2> QED BY <1>7, <2>1, <2>2
<1>11. FlushFits(m)' /\ DraftIsKept(m)' BY <1>1, <1>4, <1>6 DEF FlushFits, DraftIsKept, Drafting
<1> QED BY <1>1, <1>6, <1>8, <1>9, <1>10, <1>11 DEF MessageFits, Stands

\* A draft that is refused is sent as a message, whether it was shown or not.
LEMMA DraftFailsFits ==
    ASSUME SaidInv, SayTypes', HeadStep, NEW m \in Messages, m = HeadMsg, m \notin cut,
           doing.at = "draft", Head(chain).kind = "flush", Drafted \/ UNCHANGED <<chat, draft, seen>>,
           doing'.at = "preview", doing'.text = doing.text, chain' = chain,
           NEW t, streams'[m] = t, t = [streams[m] EXCEPT !.mode = "message", !.drafted = FALSE]
    PROVE  MessageFits(m)'
<1>1. /\ SayTypes /\ Working(m) /\ m <= speech.msg /\ StreamFits(m) /\ streams[m] \in Streams
      /\ Flushing(m) /\ DeliveredIsSaid(m) /\ PreviewFits(m) /\ FlushFits(m) /\ SeenIsKept(m) /\ DraftIsKept(m)
  BY HeadCalls DEF SaidInv, OfStream
<1>2. /\ t.delivered = streams[m].delivered /\ t.pending = streams[m].pending /\ t.posted = streams[m].posted
      /\ t.mode = "message"
  BY <1>1 DEF Streams
<1>3. /\ ~streams[m].posted /\ doing.text # {} /\ doing.text \subseteq Beginning(m)
  BY <1>1 DEF FlushFits, StreamFits
<1>4. Beginning(m)' = Beginning(m)
  <2>1. streams'[m].delivered = streams[m].delivered /\ streams'[m].pending = streams[m].pending
    BY <1>2
  <2> QED BY <2>1, BeginningStays
<1>5. Flushing(m)' /\ ~Sending(m)' /\ Working(m)' /\ speech' = speech
  <2>1. Working(m)' BY <1>1, HeadStepOps
  <2> QED BY <2>1 DEF Flushing, Sending, HeadStep, HeadMsg
<1>6. /\ chat' = chat /\ Entries(m)' = Entries(m)
      /\ draft' = draft \/ draft'.text = doing.text
      /\ seen[m] \subseteq seen'[m] /\ seen'[m] \subseteq seen[m] \cup doing.text
      /\ draft' = draft \/ doing.text \subseteq seen'[m]
  BY <1>1 DEF Drafted, Entries, SayTypes
<1>7. DeliveredIsSaid(m)' BY <1>1, <1>2, <1>6 DEF DeliveredIsSaid
<1>8. PreviewFits(m)' /\ FlushFits(m)'
  BY <1>1, <1>2, <1>3, <1>4, <1>5, <1>6 DEF PreviewFits, FlushFits
<1>9. SeenIsKept(m)'
  <2> SUFFICES ASSUME NEW a \in seen'[m] PROVE a <= streams[m].delivered \/ a \in doing.text
    BY <1>2, <1>5 DEF SeenIsKept
  <2>1. a \in seen[m] => a <= streams[m].delivered \/ a \in doing.text
    BY <1>1, <1>3 DEF SeenIsKept, PreviewFits
  <2> QED BY <1>6, <2>1
<1>10. DraftIsKept(m)'
  <2> SUFFICES ASSUME draft'.msg = m
               PROVE  /\ draft'.text # {} /\ draft'.text \subseteq seen'[m]
                      /\ Before(1..streams[m].delivered, draft'.text)
    BY <1>2, <1>5 DEF DraftIsKept
  <2>1. Before(1..streams[m].delivered, doing.text)
    <3>1. PICK d, p : d = streams[m].delivered /\ p = streams[m].pending OBVIOUS
    <3>2. d \in Nat /\ p \in Nat
      <4>1. \A s \in Streams : s.delivered \in Nat /\ s.pending \in Nat
        BY RepliesAssumption DEF Streams
      <4> QED BY <1>1, <3>1, <4>1
    <3>3. doing.text \subseteq (d + 1)..p BY <1>3, <3>1 DEF Beginning, Truncate, AfterDelivered
    <3> QED BY <3>1, <3>2, <3>3 DEF Before
  <2>2. CASE draft' = draft BY <1>1, <1>6, <2>2 DEF DraftIsKept
  <2>3. CASE draft' # draft BY <1>3, <1>6, <2>1, <2>3
  <2> QED BY <2>2, <2>3
<1> QED BY <1>1, <1>5, <1>7, <1>8, <1>9, <1>10 DEF MessageFits, Stands

\* A first message that fails, of a text that was not shown either.
LEMMA PreviewFailsFits ==
    ASSUME SaidInv, SayTypes', HeadStep, NEW m \in Messages, m = HeadMsg, m \notin cut,
           doing.at = "preview", Head(chain).kind = "flush", doing'.at = "idle",
           UNCHANGED <<streams, chat, draft, seen>>, seen[m] \subseteq 1..streams[m].delivered
    PROVE  MessageFits(m)'
<1>1. /\ SayTypes /\ Working(m) /\ m <= speech.msg /\ StreamFits(m) /\ streams[m] \in Streams
      /\ Flushing(m) /\ DeliveredIsSaid(m) /\ PreviewFits(m) /\ FlushFits(m) /\ SeenIsKept(m) /\ DraftIsKept(m)
  BY HeadCalls DEF SaidInv, OfStream
<1>2. ~streams[m].posted BY <1>1 DEF FlushFits
<1>3. ~Flushing(m)' /\ ~Sending(m)' /\ Working(m)' /\ speech' = speech
  <2>1. Working(m)' BY <1>1, HeadStepOps
  <2> QED BY <2>1 DEF Flushing, Sending, HeadStep
<1>4. Entries(m)' = Entries(m) BY DEF Entries
<1>5. DeliveredIsSaid(m)' /\ PreviewFits(m)' /\ FlushFits(m)'
  BY <1>1, <1>2, <1>3, <1>4 DEF DeliveredIsSaid, PreviewFits, FlushFits
<1>6. \A a \in seen[m] : a \in Nat /\ a <= streams[m].delivered
  <2>1. PICK d \in Nat : d = streams[m].delivered
    <3>1. \A s \in Streams : s.delivered \in Nat BY RepliesAssumption DEF Streams
    <3> QED BY <1>1, <3>1
  <2>2. \A a \in 1..d : a \in Nat /\ a <= d OBVIOUS
  <2> QED BY <2>1, <2>2
<1>7. draft.msg # m
  <2> SUFFICES ASSUME draft.msg = m PROVE FALSE OBVIOUS
  <2>1. PICK a \in draft.text : a \in seen[m] /\ a \in 1..streams[m].delivered
    BY <1>1 DEF DraftIsKept
  <2>2. a < a BY <1>1, <2>1 DEF DraftIsKept, Before
  <2> QED BY <1>6, <2>1, <2>2
<1>8. SeenIsKept(m)' /\ DraftIsKept(m)' BY <1>6, <1>7 DEF SeenIsKept, DraftIsKept
<1> QED BY <1>1, <1>3, <1>5, <1>8 DEF MessageFits, Stands

\* What was to follow next is there now.
LEMMA SaysNext ==
    ASSUME SayTypes, NEW m \in Messages, NEW p \in Seq(Items), p # <<>>, NEW e, e = p[1], e.msg = m,
           chat' = Append(chat, e), NEW q, q = Tail(p), ReadsOn(chat, m, p)
    PROVE  /\ ReadsOn(chat', m, q)
           /\ \A a : Covered(chat, m, p, a) => Covered(chat', m, q, a)
<1>1. PICK n : n = Len(chat) + 1 OBVIOUS
<1>2. /\ Len(p) \in Nat \ {0} /\ 1 \in DOMAIN p /\ p[1] \in Items /\ DOMAIN p = 1..Len(p)
      /\ DOMAIN q = 1..(Len(p) - 1) /\ \A k \in 1..(Len(p) - 1) : q[k] = p[k + 1]
  BY TailAt
<1>3. \A k \in DOMAIN q : k \in Nat \ {0} /\ k + 1 \in DOMAIN p /\ 1 < k + 1 /\ q[k] = p[k + 1]
  BY <1>2
<1>4. /\ n \in Nat /\ n \in DOMAIN chat' /\ chat'[n] = e
      /\ \A i \in DOMAIN chat : i \in DOMAIN chat' /\ chat'[i] = chat[i] /\ i < n /\ i \in Nat
      /\ \A j \in DOMAIN chat' : j \notin DOMAIN chat => j = n
  <2>1. e \in Items \cup Previews BY <1>2
  <2>2. Len(chat) \in Nat /\ \A i \in DOMAIN chat : i \in Nat BY SayVariables
  <2> QED BY <1>1, <2>1, <2>2, PostedAt
<1>5. ASSUME NEW i \in DOMAIN chat', NEW j \in DOMAIN chat', i < j, chat'[i].msg = m, chat'[j].msg = m
      PROVE  Before(chat'[i].text, chat'[j].text)
  <2>1. i \in DOMAIN chat /\ chat'[i] = chat[i]
    <3>1. CASE i = n
      <4>1. j = n \/ (j < n /\ j \in Nat) BY <1>4
      <4> QED BY <1>4, <1>5, <3>1, <4>1
    <3> QED BY <1>4, <3>1
  <2>2. CASE j \in DOMAIN chat BY <1>4, <1>5, <2>1, <2>2 DEF ReadsOn
  <2>3. CASE j \notin DOMAIN chat BY <1>2, <1>4, <1>5, <2>1, <2>3 DEF ReadsOn
  <2> QED BY <2>2, <2>3
<1>6. ASSUME NEW i \in DOMAIN chat', NEW k \in DOMAIN q, chat'[i].msg = m
      PROVE  Before(chat'[i].text, q[k].text)
  <2>1. CASE i \in DOMAIN chat BY <1>3, <1>4, <1>6, <2>1 DEF ReadsOn
  <2>2. CASE i \notin DOMAIN chat BY <1>2, <1>3, <1>4, <2>2 DEF ReadsOn
  <2> QED BY <2>1, <2>2
<1>7. ASSUME NEW k \in DOMAIN q, NEW l \in DOMAIN q, k < l PROVE Before(q[k].text, q[l].text)
  <2>1. k + 1 < l + 1 BY <1>3, <1>7
  <2> QED BY <1>3, <2>1 DEF ReadsOn
<1>8. ASSUME NEW a, Covered(chat, m, p, a) PROVE Covered(chat', m, q, a)
  <2>1. CASE \E i \in DOMAIN chat : chat[i].msg = m /\ a \in chat[i].text BY <1>4, <2>1 DEF Covered
  <2>2. ASSUME NEW k \in DOMAIN p, a \in p[k].text PROVE Covered(chat', m, q, a)
    <3>1. CASE k = 1 BY <1>4, <2>2, <3>1 DEF Covered
    <3>2. CASE k # 1
      <4>1. k - 1 \in DOMAIN q /\ (k - 1) + 1 = k BY <1>2, <2>2, <3>2
      <4>2. a \in q[k - 1].text BY <1>3, <2>2, <4>1
      <4> QED BY <4>1, <4>2 DEF Covered
    <3> QED BY <3>1, <3>2
  <2> QED BY <1>8, <2>1, <2>2 DEF Covered
<1> QED BY <1>5, <1>6, <1>7, <1>8 DEF ReadsOn

\* What a call that sends has done, of a stream's operation.
LEMMA SendsNext ==
    ASSUME SaidInv, doing.at \in {"close", "send"}, NEW m \in Messages, m = HeadMsg,
           Head(chain).kind \in OfStream, TakesEffect
    PROVE  /\ doing.todo \in Seq(Items) /\ doing.todo # <<>> /\ Head(doing.todo) = doing.todo[1]
           /\ doing.todo[1] \in Items /\ doing.todo[1].msg = m /\ seen' = seen
           /\ \A k \in DOMAIN doing.todo : doing.todo[k].msg = m /\ (k # 1 => doing.todo[k].kind # "edit")
           /\ doing.at = "close" => Head(chain).kind = "close" /\ \A k \in DOMAIN doing.todo : doing.todo[k].kind = "text"
           /\ doing.at = "send" => Head(chain).kind = "finish"
           /\ IF doing.todo[1].kind = "edit" THEN Edited(m, doing.todo[1].text) ELSE Posted(doing.todo[1])
<1>1. SayTypes /\ TodoOfHead BY DEF SaidInv, ChainFits
<1>2. doing.todo \in Seq(Items) /\ doing.todo # <<>> BY <1>1 DEF SayTypes, HeadIsDoing
<1>3. PICK t : t = Tail(doing.todo) OBVIOUS
<1>4. Head(doing.todo) = doing.todo[1] /\ doing.todo[1] \in Items /\ 1 \in DOMAIN doing.todo
  BY <1>2, <1>3, TailAt
<1>5. /\ \A k \in DOMAIN doing.todo : doing.todo[k].msg = m
      /\ doing.at = "close" => Head(chain).kind = "close"
      /\ doing.at = "send" => Head(chain).kind = "finish"
  BY <1>1 DEF TodoOfHead, OfStream
<1>6. /\ doing.at = "close" => \A k \in DOMAIN doing.todo : doing.todo[k].kind = "text"
      /\ doing.at = "send" => \A k \in DOMAIN doing.todo : k # 1 => doing.todo[k].kind # "edit"
  BY <1>1, <1>5 DEF TodoOfHead
<1>7. /\ seen' = seen
      /\ IF doing.todo[1].kind = "edit" THEN Edited(m, doing.todo[1].text) ELSE Posted(doing.todo[1])
  BY <1>4 DEF TakesEffect
<1> QED BY <1>2, <1>4, <1>5, <1>6, <1>7

\* A close goes on with its next part ...
LEMMA CloseMoreFits ==
    ASSUME SaidInv, SayTypes', HeadStep, NEW m \in Messages, m = HeadMsg, m \notin cut,
           doing.at = "close", Head(chain).kind \in OfStream, TakesEffect,
           doing' = [doing EXCEPT !.todo = Tail(@)], chain' = chain, streams' = streams
    PROVE  MessageFits(m)'
<1>1. /\ SayTypes /\ Working(m) /\ m <= speech.msg /\ CloseFits(m) BY HeadCalls DEF SaidInv
<1>2. PICK p, q, e : p = doing.todo /\ q = Tail(p) /\ e = p[1] OBVIOUS
<1>3. /\ p \in Seq(Items) /\ p # <<>> /\ e \in Items /\ e.msg = m /\ seen' = seen
      /\ Head(chain).kind = "close" /\ (\A k \in DOMAIN p : p[k].kind = "text")
      /\ IF e.kind = "edit" THEN Edited(m, e.text) ELSE Posted(e)
  BY <1>2, SendsNext
<1>4. /\ Len(p) \in Nat \ {0} /\ 1 \in DOMAIN p
      /\ DOMAIN p = 1..Len(p) /\ DOMAIN q = 1..(Len(p) - 1) /\ \A k \in 1..(Len(p) - 1) : q[k] = p[k + 1]
  BY <1>2, <1>3, TailAt
<1>5. chat' = Append(chat, e) /\ e.kind = "text" BY <1>2, <1>3, <1>4 DEF Posted
<1>6. doing'.at = "close" /\ doing'.todo = q BY <1>1, <1>2 DEF SayTypes
<1>7. Sending(m)' /\ Head(chain').kind = "close" /\ Working(m)' /\ speech' = speech
  <2>1. Working(m)' BY <1>1, HeadStepOps
  <2> QED BY <1>3, <1>6, <2>1 DEF Sending, HeadMsg, HeadStep
<1>8. PICK n \in 0..streams[m].pending :
           /\ ReadsOn(chat, m, p)
           /\ \A a \in 1..n : Covered(chat, m, p, a)
           /\ \A i \in Entries(m) : chat[i].kind # "preview" /\ chat[i].text \subseteq 1..n
           /\ \A k \in DOMAIN p : p[k].text \subseteq 1..n
           /\ seen[m] \subseteq 1..n /\ ~streams[m].posted
  BY <1>1, <1>2 DEF CloseFits
<1>9. ReadsOn(chat', m, q) /\ \A a \in 1..n : Covered(chat', m, q, a)
  BY <1>1, <1>2, <1>3, <1>5, <1>8, SaysNext
<1>10. \A i \in Entries(m)' : chat'[i].kind # "preview" /\ chat'[i].text \subseteq 1..n
  <2>1. \A i \in Entries(m)' : chat'[i] = e \/ (i \in Entries(m) /\ chat'[i] = chat[i])
    BY <1>1, <1>3, <1>5, PostedAt DEF Entries
  <2> QED BY <1>2, <1>4, <1>5, <1>8, <2>1
<1>11. \A k \in DOMAIN q : q[k].text \subseteq 1..n
  <2>1. \A k \in DOMAIN q : k + 1 \in DOMAIN p /\ q[k] = p[k + 1] BY <1>4
  <2> QED BY <1>8, <2>1
<1>12. CloseFits(m)' BY <1>3, <1>6, <1>8, <1>9, <1>10, <1>11 DEF CloseFits
<1> QED BY <1>1, <1>7, <1>12 DEF MessageFits

\* What is left to send of a finish after its first call.
LEMMA FinishSendsOn ==
    ASSUME SaidInv, NEW m \in Messages, m = HeadMsg, m \notin cut,
           doing.at = "send", Head(chain).kind \in OfStream, TakesEffect
    PROVE  /\ doing.todo \in Seq(Items) /\ doing.todo # <<>>
           /\ ReadsOn(chat', m, Tail(doing.todo)) /\ draft'.msg # m /\ seen' = seen
           /\ \A a \in said[m] \cup seen[m] : Covered(chat', m, Tail(doing.todo), a)
<1>1. SayTypes /\ FinishFits(m) /\ m # 0 BY HeadCalls, SayVariables DEF SaidInv
<1>2. PICK p, q, e : p = doing.todo /\ q = Tail(p) /\ e = p[1] OBVIOUS
<1>3. /\ p \in Seq(Items) /\ p # <<>> /\ Head(p) = e /\ e \in Items /\ e.msg = m /\ seen' = seen
      /\ IF e.kind = "edit" THEN Edited(m, e.text) ELSE Posted(e)
  BY <1>2, SendsNext
<1>4. CASE e.kind = "edit"
  <2>1. chat' = WithPreview(m, e.text) /\ draft' = draft BY <1>3, <1>4 DEF Edited, WithPreview
  <2>2. PICK c : c = WithPreview(m, e.text) OBVIOUS
  <2>3. ReadsOn(c, m, q) /\ draft.msg # m /\ \A a \in said[m] \cup seen[m] : Covered(c, m, q, a)
    BY <1>1, <1>2, <1>3, <1>4, <2>2 DEF FinishFits
  <2> QED BY <1>2, <1>3, <2>1, <2>2, <2>3
<1>5. CASE e.kind # "edit"
  <2>1. chat' = Append(chat, e) /\ draft'.msg # m BY <1>1, <1>3, <1>5 DEF Posted, NoDraft
  <2>2. ReadsOn(chat, m, p) /\ \A a \in said[m] \cup seen[m] : Covered(chat, m, p, a)
    BY <1>1, <1>2, <1>3, <1>5 DEF FinishFits
  <2>3. ReadsOn(chat', m, q) /\ \A a : Covered(chat, m, p, a) => Covered(chat', m, q, a)
    BY <1>1, <1>2, <1>3, <2>1, <2>2, SaysNext
  <2> QED BY <1>2, <1>3, <2>1, <2>2, <2>3
<1> QED BY <1>4, <1>5

\* A finish goes on with its next part ...
LEMMA FinishMoreFits ==
    ASSUME SaidInv, SayTypes', HeadStep, NEW m \in Messages, m = HeadMsg, m \notin cut,
           doing.at = "send", Head(chain).kind \in OfStream, TakesEffect, Len(doing.todo) > 1,
           doing' = [doing EXCEPT !.todo = Tail(@)], chain' = chain
    PROVE  MessageFits(m)'
<1>1. /\ SayTypes /\ Working(m) /\ m <= speech.msg /\ said' = said /\ speech' = speech
  BY HeadCalls DEF SaidInv, HeadStep
<1>2. PICK p, q : p = doing.todo /\ q = Tail(p) OBVIOUS
<1>3. /\ p \in Seq(Items) /\ Head(chain).kind = "finish"
      /\ \A k \in DOMAIN p : k # 1 => p[k].kind # "edit"
  BY <1>2, SendsNext
<1>4. /\ ReadsOn(chat', m, q) /\ draft'.msg # m /\ seen' = seen
      /\ \A a \in said[m] \cup seen[m] : Covered(chat', m, q, a)
  BY <1>2, FinishSendsOn
<1>5. Head(q).kind # "edit"
  <2>1. Len(p) \in Nat /\ Len(p) > 1 /\ p # <<>> BY <1>2, <1>3
  <2>2. /\ q \in Seq(Items) /\ Len(q) = Len(p) - 1 /\ DOMAIN p = 1..Len(p)
        /\ DOMAIN q = 1..(Len(p) - 1) /\ \A k \in 1..(Len(p) - 1) : q[k] = p[k + 1]
    BY <1>2, <1>3, <2>1, TailAt
  <2>3. Head(q) = q[1] BY <2>1, <2>2
  <2>4. 2 \in DOMAIN p /\ q[1] = p[2] BY <2>1, <2>2
  <2> QED BY <1>3, <2>3, <2>4
<1>6. doing'.at = "send" /\ doing'.todo = q BY <1>1, <1>2 DEF SayTypes
<1>7. Sending(m)' /\ Head(chain').kind # "close" BY <1>3, <1>6 DEF Sending, HeadMsg
<1>8. Working(m)' BY <1>1, HeadStepOps
<1>9. FinishFits(m)' BY <1>1, <1>4, <1>5, <1>6 DEF FinishFits
<1> QED BY <1>1, <1>7, <1>8, <1>9 DEF MessageFits

\* ... and is over with its last.
LEMMA FinishLastFits ==
    ASSUME SaidInv, SayTypes', HeadStep, NEW m \in Messages, m = HeadMsg, m \notin cut,
           doing.at = "send", Head(chain).kind \in OfStream, TakesEffect, Len(doing.todo) = 1,
           doing'.at = "idle", chain' = Tail(chain)
    PROVE  MessageFits(m)'
<1>1. /\ SayTypes /\ FinishLast /\ said' = said BY DEF SaidInv, ChainFits, HeadStep
<1>2. PICK p, q : p = doing.todo /\ q = Tail(p) OBVIOUS
<1>3. p \in Seq(Items) /\ p # <<>> /\ Head(chain).kind = "finish" BY <1>2, SendsNext
<1>4. /\ ReadsOn(chat', m, q) /\ draft'.msg # m /\ seen' = seen
      /\ \A a \in said[m] \cup seen[m] : Covered(chat', m, q, a)
  BY <1>2, FinishSendsOn
<1>5. DOMAIN q = {}
  <2>1. DOMAIN q = 1..(Len(p) - 1) /\ Len(p) = 1 BY <1>2, <1>3, TailAt
  <2> QED BY <2>1
<1>6. SaidOnce(m)' /\ DraftIsEnded(m)'
  BY <1>1, <1>4, <1>5 DEF SaidOnce, DraftIsEnded, InChat, Entries, ReadsOn, Covered, Before
<1>7. ~Working(m)' /\ OpsOf(m)' = {} BY <1>1, <1>3, FinishOver
<1> QED BY <1>6, <1>7 DEF MessageFits

\* A close that is over has sent all that is pending, or the message counts as cut.
LEMMA CloseLastFits ==
    ASSUME SaidInv, SayTypes', HeadStep, NEW m \in Messages, m = HeadMsg, m \notin cut,
           doing.at = "close", Head(chain).kind \in OfStream, TakesEffect, Len(doing.todo) = 1,
           doing'.at = "idle", streams[m].pending \in Head(doing.todo).text,
           NEW t, streams'[m] = t, t = Closed(streams[m])
    PROVE  MessageFits(m)'
<1>1. /\ SayTypes /\ Working(m) /\ m <= speech.msg /\ CloseFits(m) /\ m # 0 /\ streams[m] \in Streams
  BY HeadCalls, SayVariables DEF SaidInv
<1>2. PICK p, q, e : p = doing.todo /\ q = Tail(p) /\ e = p[1] OBVIOUS
<1>3. /\ p \in Seq(Items) /\ p # <<>> /\ e \in Items /\ e.msg = m /\ seen' = seen
      /\ Head(p) = e
      /\ Head(chain).kind = "close" /\ (\A k \in DOMAIN p : p[k].kind = "text")
      /\ IF e.kind = "edit" THEN Edited(m, e.text) ELSE Posted(e)
  BY <1>2, SendsNext
<1>4. 1 \in DOMAIN p /\ DOMAIN q = {}
  <2>1. DOMAIN q = 1..(Len(p) - 1) /\ Len(p) = 1 /\ 1 \in DOMAIN p BY <1>2, <1>3, TailAt
  <2> QED BY <2>1
<1>5. chat' = Append(chat, e) /\ e.kind = "text" /\ draft'.msg = 0
  BY <1>2, <1>3, <1>4 DEF Posted, NoDraft
<1>6. PICK s \in Streams : s = streams[m] BY <1>1
<1>7. /\ t.delivered = s.pending /\ t.pending = s.pending /\ t.posted = s.posted /\ s.pending \in Nat
  <2>1. s.pending \in Nat BY RepliesAssumption DEF Streams
  <2> QED BY <1>6, <2>1 DEF Closed, Streams
<1>8. PICK n \in 0..s.pending :
           /\ ReadsOn(chat, m, p)
           /\ \A a \in 1..n : Covered(chat, m, p, a)
           /\ \A i \in Entries(m) : chat[i].kind # "preview" /\ chat[i].text \subseteq 1..n
           /\ \A k \in DOMAIN p : p[k].text \subseteq 1..n
           /\ seen[m] \subseteq 1..n /\ ~s.posted
  BY <1>1, <1>2, <1>6 DEF CloseFits
<1>9. n = s.pending
  <2>1. s.pending \in 1..n BY <1>2, <1>3, <1>4, <1>6, <1>8
  <2> QED BY <1>7, <2>1
<1>10. ReadsOn(chat', m, q) /\ \A a \in 1..n : Covered(chat', m, q, a)
  BY <1>1, <1>2, <1>3, <1>5, <1>8, SaysNext
<1>11. \A i \in Entries(m)' : chat'[i].kind # "preview" /\ chat'[i].text \subseteq 1..n
  <2>1. \A i \in Entries(m)' : chat'[i] = e \/ (i \in Entries(m) /\ chat'[i] = chat[i])
    BY <1>1, <1>3, <1>5, PostedAt DEF Entries
  <2> QED BY <1>2, <1>4, <1>5, <1>8, <2>1
<1>12. ~Flushing(m)' /\ ~Sending(m)' /\ Working(m)' /\ speech' = speech
  <2>1. Working(m)' BY <1>1, <1>3, HeadStepOps
  <2> QED BY <2>1 DEF Flushing, Sending, HeadStep
<1>13. DeliveredIsSaid(m)'
  <2>1. \A a \in 1..n : \E i \in Entries(m)' : a \in chat'[i].text
    BY <1>4, <1>10 DEF Covered, Entries
  <2>2. \A i, j \in Entries(m)' : i < j => Before(chat'[i].text, chat'[j].text)
    BY <1>10 DEF ReadsOn, Entries
  <2> QED BY <1>7, <1>9, <1>11, <2>1, <2>2 DEF DeliveredIsSaid
<1>14. PreviewFits(m)' /\ FlushFits(m)' BY <1>7, <1>8, <1>11, <1>12 DEF PreviewFits, FlushFits
<1>15. SeenIsKept(m)'
  <2>1. \A a \in 1..n : a <= n OBVIOUS
  <2> QED BY <1>3, <1>7, <1>8, <1>9, <2>1 DEF SeenIsKept
<1>16. DraftIsKept(m)' BY <1>1, <1>5 DEF DraftIsKept
<1> QED BY <1>1, <1>12, <1>13, <1>14, <1>15, <1>16 DEF MessageFits, Stands

\* An answer, or a failure, is a step of the head.
LEMMA CallStep ==
    ASSUME SaidInv, doing.at # "idle", TakesEffect \/ UNCHANGED <<chat, draft, seen>>,
           UNCHANGED <<speech, listed, said>>, cut \subseteq cut',
           chain' = chain \/ (chain' = Tail(chain) /\ doing'.at = "idle"),
           \A k \in Messages :
             /\ streams'[k].pending = streams[k].pending /\ streams'[k].timer = streams[k].timer
             /\ k # HeadMsg => streams'[k] = streams[k]
    PROVE  HeadStep
<1>1. SayTypes /\ TodoOfHead /\ chain # <<>> BY SayVariables DEF SaidInv, ChainFits
<1>2. ChatMoves /\ \A m \in Messages : m # HeadMsg => seen'[m] = seen[m] BY <1>1, EffectMoves
<1> QED BY <1>1, <1>2 DEF HeadStep

\* What the head calls, by the kind of its operation.
LEMMA CallKinds ==
    ASSUME SaidInv, doing.at # "idle"
    PROVE  /\ Head(chain).kind = "flush" <=> doing.at \in {"draft", "preview", "edit"}
           /\ Head(chain).kind = "close" <=> doing.at = "close"
           /\ Head(chain).kind = "finish" => doing.at = "send"
           /\ Head(chain).kind \in OfStream => HeadMsg \in Messages
           /\ Head(chain).kind \notin OfStream => doing.at \in {"send", "photo", "document"}
<1>1. SayTypes /\ TodoOfHead /\ chain # <<>> BY SayVariables DEF SaidInv, ChainFits
<1>2. Head(chain).kind \in OfStream => HeadMsg \in Messages BY <1>1, HeadAt
<1>3. /\ doing.at \in {"draft", "preview", "edit"} => Head(chain).kind = "flush"
      /\ doing.at = "close" => Head(chain).kind = "close"
  BY <1>1 DEF SayTypes, HeadIsDoing
<1> QED BY <1>1, <1>2, <1>3 DEF TodoOfHead, OfStream

\* A call about no stream posts what says nothing of one.
LEMMA QuietCall ==
    ASSUME SaidInv, doing.at # "idle", Head(chain).kind \notin OfStream,
           TakesEffect \/ UNCHANGED <<chat, draft, seen>>
    PROVE  /\ UNCHANGED <<chat, draft>> \/ \E e \in Items : Posted(e) /\ e.text = {}
           /\ seen' = seen
<1>1. SayTypes /\ TodoOfHead /\ doing.at \in {"send", "photo", "document"}
  BY CallKinds DEF SaidInv, ChainFits
<1>2. PICK p, q : p = doing.todo /\ q = Tail(p) OBVIOUS
<1>3. p \in Seq(Items) /\ p # <<>> BY <1>1, <1>2 DEF SayTypes, HeadIsDoing
<1>4. Head(p) = p[1] /\ p[1] \in Items /\ 1 \in DOMAIN p BY <1>2, <1>3, TailAt
<1>5. p[1].text = {} /\ p[1].kind # "edit" BY <1>1, <1>2, <1>4 DEF TodoOfHead, OfStream
<1>6. TakesEffect => Posted(p[1]) /\ seen' = seen BY <1>1, <1>2, <1>4, <1>5 DEF TakesEffect
<1> QED BY <1>4, <1>5, <1>6

\* What is left to call for is of the same kind.
LEMMA TodoNext ==
    ASSUME SaidInv, doing.at \notin {"idle", "draft", "preview", "edit"}, chain' = chain,
           doing' = [doing EXCEPT !.todo = Tail(@)]
    PROVE  TodoOfHead'
<1>1. SayTypes /\ TodoOfHead BY DEF SaidInv, ChainFits
<1>2. PICK p, q : p = doing.todo /\ q = Tail(p) OBVIOUS
<1>3. p \in Seq(Items) /\ p # <<>> BY <1>1, <1>2 DEF SayTypes, HeadIsDoing
<1>4. \A k \in DOMAIN q : k + 1 \in DOMAIN p /\ k + 1 # 1 /\ q[k] = p[k + 1]
  <2>1. /\ Len(p) \in Nat \ {0} /\ DOMAIN p = 1..Len(p) /\ DOMAIN q = 1..(Len(p) - 1)
        /\ \A k \in 1..(Len(p) - 1) : q[k] = p[k + 1]
    BY <1>2, <1>3, TailAt
  <2> QED BY <2>1
<1>5. doing'.at = doing.at /\ doing'.todo = q BY <1>1, <1>2 DEF SayTypes
<1>6. HeadMsg' = HeadMsg /\ Head(chain').kind = Head(chain).kind BY DEF HeadMsg
<1>7. \A k \in DOMAIN p : p[k].msg = HeadMsg BY <1>1, <1>2 DEF TodoOfHead
<1>8. CASE Head(chain).kind = "flush" BY <1>1, <1>8 DEF TodoOfHead
<1>9. CASE Head(chain).kind = "close"
  <2>1. doing.at = "close" /\ \A k \in DOMAIN p : p[k].kind = "text"
    BY <1>1, <1>2, <1>9 DEF TodoOfHead
  <2> QED BY <1>4, <1>5, <1>6, <1>7, <1>9, <2>1 DEF TodoOfHead
<1>10. CASE Head(chain).kind = "finish"
  <2>1. doing.at = "send" /\ \A k \in DOMAIN p : k # 1 => p[k].kind # "edit"
    BY <1>1, <1>2, <1>10 DEF TodoOfHead
  <2> QED BY <1>4, <1>5, <1>6, <1>7, <1>10, <2>1 DEF TodoOfHead
<1>11. CASE Head(chain).kind \notin {"flush", "close", "finish"}
  <2>1. /\ doing.at \in {"send", "photo", "document"}
        /\ \A k \in DOMAIN p : p[k].text = {} /\ p[k].kind \in {"line", "file", "note"}
    BY <1>1, <1>2, <1>11 DEF TodoOfHead
  <2> QED BY <1>4, <1>5, <1>6, <1>7, <1>11, <2>1 DEF TodoOfHead
<1> QED BY <1>8, <1>9, <1>10, <1>11

\* A flush whose call was answered.
LEMMA FlushAnsweredSaid ==
    ASSUME SaidInv, SayTypes', Answered, doing.at \in {"draft", "preview", "edit"} PROVE SaidInv'
<1>1. /\ SayTypes /\ Head(chain).kind = "flush" /\ HeadMsg \in Messages /\ TodoOfHead
      /\ TakesEffect /\ Over /\ UNCHANGED <<speech, listed, said, cut>>
      /\ streams' = [streams EXCEPT ![HeadMsg] = Flushed(@)]
      /\ support' = IF doing.at = "draft" THEN "supported" ELSE support
  BY CallKinds DEF Answered, SaidInv, ChainFits, OfStream
<1>0. PICK m \in Messages, s \in Streams : m = HeadMsg /\ s = streams[m] BY <1>1, SayVariables
<1>2. PICK t : m = HeadMsg /\ s = streams[m] /\ t = Flushed(s) BY <1>0
<1>3. /\ t.pending = s.pending /\ t.timer = s.timer /\ t.mode = s.mode /\ t.drafted = s.drafted
      /\ t.delivered = s.delivered /\ t.last = doing.text
      /\ t.posted <=> s.posted \/ doing.at = "preview"
  BY <1>2 DEF Flushed, Streams
<1>4. /\ streams'[m] = t
      /\ \A k \in Messages :
           /\ streams'[k].pending = streams[k].pending /\ streams'[k].timer = streams[k].timer
           /\ k # m => streams'[k] = streams[k]
  <2>1. streams' = [streams EXCEPT ![m] = t] BY <1>1, <1>2
  <2>2. t.pending = streams[m].pending /\ t.timer = streams[m].timer BY <1>2, <1>3
  <2>3. SayTypes BY <1>1
  <2> QED BY <2>1, <2>2, <2>3, OneStream
<1>5. chain' = Tail(chain) /\ doing'.at = "idle" BY <1>1 DEF Over, Idle
<1>6. HeadStep
  <2>1. cut \subseteq cut' BY <1>1
  <2> QED BY <1>1, <1>2, <1>4, <1>5, <2>1, CallStep
<1>7. TodoOfHead' BY <1>5 DEF TodoOfHead
<1>8. /\ t.drafted => t.mode = "draft" /\ support' # "unsupported"
      /\ t.posted => t.mode = "message"
      /\ t.delivered <= t.pending
  <2>1. OpsOf(m) # {} /\ StreamFits(m)
    BY <1>1, <1>2, SayVariables, HeadWorks DEF SaidInv, ChainFits, OfStream
  <2>2. doing.at = "preview" => s.mode = "message" BY <1>1, <1>2 DEF TodoOfHead
  <2> QED BY <1>1, <1>2, <1>3, <2>1, <2>2 DEF StreamFits
<1>9. ASSUME m \notin cut PROVE MessageFits(m)'
  <2>1. CASE doing.at = "draft"
    <3>1. Drafted BY <1>1, <2>1 DEF TakesEffect
    <3>2. t = [s EXCEPT !.last = doing.text] BY <1>2, <2>1 DEF Flushed, Streams
    <3> QED BY <1>1, <1>2, <1>4, <1>5, <1>6, <1>9, <2>1, <3>1, <3>2, DraftAnsweredFits
  <2>2. CASE doing.at = "preview"
    <3>1. Posted(Item("preview", m, doing.text)) /\ seen' = seen BY <1>1, <1>2, <2>2 DEF TakesEffect
    <3>2. t = [s EXCEPT !.last = doing.text, !.posted = TRUE] BY <1>2, <2>2 DEF Flushed, Streams
    <3> QED BY <1>1, <1>2, <1>4, <1>5, <1>6, <1>9, <2>2, <3>1, <3>2, PreviewAnsweredFits
  <2>3. CASE doing.at = "edit"
    <3>1. Edited(m, doing.text) /\ seen' = seen BY <1>1, <1>2, <2>3 DEF TakesEffect
    <3>2. chat' = WithPreview(m, doing.text) /\ draft' = draft BY <3>1 DEF Edited, WithPreview
    <3>3. t = [s EXCEPT !.last = doing.text] BY <1>2, <2>3 DEF Flushed, Streams
    <3> QED BY <1>1, <1>2, <1>4, <1>5, <1>6, <1>9, <2>3, <3>1, <3>2, <3>3, EditOverFits
  <2> QED BY <2>1, <2>2, <2>3
<1>10. m \in cut => MessageFits(m)' BY <1>1 DEF MessageFits
<1>11. Head(chain).kind \in OfStream BY <1>1 DEF OfStream
<1> QED BY <1>2, <1>4, <1>6, <1>7, <1>8, <1>9, <1>10, <1>11, HeadStepSaid

\* An operation about no stream, whose call was answered or failed.
LEMMA QuietCallSaid ==
    ASSUME SaidInv, SayTypes', doing.at # "idle", Head(chain).kind \notin OfStream,
           TakesEffect \/ UNCHANGED <<chat, draft, seen>>,
           UNCHANGED <<speech, listed, said, streams, support>>, cut \subseteq cut',
           chain' = chain \/ (chain' = Tail(chain) /\ doing'.at = "idle"),
           TodoOfHead'
    PROVE  SaidInv'
<1>1. HeadStep BY CallStep
<1>2. doing.at \in {"send", "photo", "document"} /\ Head(chain).kind # "finish"
  BY CallKinds DEF OfStream
<1>3. ASSUME NEW m \in Messages, m = HeadMsg PROVE MessageFits(m)'
  <2>1. ~Sending(m) /\ ~Flushing(m) BY <1>2 DEF Sending, Flushing
  <2>2. ~Sending(m)' /\ ~Flushing(m)'
    <3>1. CASE doing'.at = "idle" BY <3>1 DEF Sending, Flushing
    <3>2. CASE doing'.at # "idle"
      <4>1. Head(chain').kind = Head(chain).kind BY <3>2
      <4>2. doing'.at \in {"send", "photo", "document"} BY <3>2, <4>1 DEF TodoOfHead, OfStream
      <4> QED BY <4>1, <4>2 DEF Sending, Flushing
    <3> QED BY <3>1, <3>2
  <2>3. /\ UNCHANGED <<chat, draft>> \/ \E e \in Items : Posted(e) /\ e.text = {}
        /\ seen' = seen
    BY QuietCall
  <2> QED BY <1>1, <1>2, <1>3, <2>1, <2>2, <2>3, HeadAsideFits
<1> QED BY <1>1, <1>3, HeadStepSaid

\* What an answered call that sends does next.
LEMMA AnsweredShape ==
    ASSUME SaidInv, Answered, doing.at \notin {"draft", "preview", "edit"}
    PROVE  /\ doing.at # "idle" /\ TakesEffect /\ UNCHANGED <<speech, listed, said, support>>
           /\ \/ /\ Len(doing.todo) > 1 /\ doing' = [doing EXCEPT !.todo = Tail(@)]
                 /\ UNCHANGED <<chain, streams, cut>>
              \/ /\ Len(doing.todo) = 1 /\ chain' = Tail(chain) /\ doing'.at = "idle"
                 /\ IF doing.at = "close"
                    THEN /\ streams' = [streams EXCEPT ![HeadMsg] = Closed(@)]
                         /\ IF streams[HeadMsg].pending \in Head(doing.todo).text
                            THEN UNCHANGED cut ELSE cut' = cut \cup {HeadMsg}
                    ELSE UNCHANGED <<streams, cut>>
<1>1. /\ SayTypes /\ doing.at # "idle" /\ TakesEffect /\ UNCHANGED <<speech, listed, said>>
      /\ support' = support
  BY DEF Answered, SaidInv
<1>2. doing.at \in {"close", "send", "photo", "document"} BY <1>1 DEF SayTypes
<1>3. doing.todo \in Seq(Items) /\ doing.todo # <<>> BY <1>1, <1>2 DEF SayTypes, HeadIsDoing
<1>4. (Len(doing.todo) > 1 /\ Len(doing.todo) # 1) \/ Len(doing.todo) = 1 BY <1>3, MoreOrLast
<1>5. CASE Len(doing.todo) > 1 /\ Len(doing.todo) # 1
  <2>1. doing' = [doing EXCEPT !.todo = Tail(@)] /\ UNCHANGED <<chain, streams, cut>>
    BY <1>2, <1>5 DEF Answered
  <2> QED BY <1>1, <1>5, <2>1
<1>6. CASE Len(doing.todo) = 1
  <2>1. ~(Len(doing.todo) > 1) BY <1>6
  <2>2. /\ Over
        /\ IF doing.at = "close"
           THEN /\ streams' = [streams EXCEPT ![HeadMsg] = Closed(@)]
                /\ IF streams[HeadMsg].pending \in Head(doing.todo).text
                   THEN UNCHANGED cut ELSE cut' = cut \cup {HeadMsg}
           ELSE UNCHANGED <<streams, cut>>
    BY <1>2, <1>6, <2>1 DEF Answered, Loses
  <2> QED BY <1>1, <1>6, <2>2 DEF Over, Idle
<1> QED BY <1>4, <1>5, <1>6

\* A close, a finish or a quiet operation, whose call was answered.
LEMMA SendAnsweredSaid ==
    ASSUME SaidInv, SayTypes', Answered, doing.at \notin {"draft", "preview", "edit"} PROVE SaidInv'
<1>1. /\ SayTypes /\ doing.at # "idle" /\ TakesEffect /\ UNCHANGED <<speech, listed, said, support>>
  BY AnsweredShape DEF SaidInv
<1>2. /\ doing.at = "close" <=> Head(chain).kind = "close"
      /\ Head(chain).kind = "finish" => doing.at = "send"
      /\ Head(chain).kind # "flush"
      /\ Head(chain).kind \in OfStream => HeadMsg \in Messages
  BY <1>1, CallKinds
<1>3. CASE Len(doing.todo) > 1 /\ doing' = [doing EXCEPT !.todo = Tail(@)] /\ UNCHANGED <<chain, streams, cut>>
  <2>1. TodoOfHead' BY <1>1, <1>3, TodoNext
  <2>2. CASE Head(chain).kind \notin OfStream BY <1>1, <1>3, <2>1, <2>2, QuietCallSaid
  <2>3. CASE Head(chain).kind \in OfStream
    <3>1. HeadStep BY <1>1, <1>3, CallStep
    <3>2. ASSUME NEW m \in Messages, m = HeadMsg PROVE MessageFits(m)'
      <4>1. CASE m \in cut BY <1>3, <4>1 DEF MessageFits
      <4>2. CASE m \notin cut /\ doing.at = "close"
        BY <1>1, <1>3, <2>3, <3>1, <3>2, <4>2, CloseMoreFits
      <4>3. CASE m \notin cut /\ doing.at = "send"
        BY <1>1, <1>3, <2>3, <3>1, <3>2, <4>3, FinishMoreFits
      <4> QED BY <1>2, <2>3, <4>1, <4>2, <4>3 DEF OfStream
    <3> QED BY <1>1, <1>3, <2>1, <3>1, <3>2, HeadStepSaid
  <2> QED BY <2>2, <2>3
<1>4. CASE /\ Len(doing.todo) = 1 /\ chain' = Tail(chain) /\ doing'.at = "idle"
           /\ doing.at # "close" /\ UNCHANGED <<streams, cut>>
  <2>1. TodoOfHead' BY <1>4 DEF TodoOfHead
  <2>2. CASE Head(chain).kind \notin OfStream BY <1>1, <1>4, <2>1, <2>2, QuietCallSaid
  <2>3. CASE Head(chain).kind \in OfStream
    <3>0. doing.at = "send" BY <1>2, <1>4, <2>3 DEF OfStream
    <3>1. HeadStep BY <1>1, <1>4, CallStep
    <3>2. ASSUME NEW m \in Messages, m = HeadMsg PROVE MessageFits(m)'
      <4>1. CASE m \in cut BY <1>4, <4>1 DEF MessageFits
      <4>2. CASE m \notin cut BY <1>1, <1>4, <2>3, <3>0, <3>1, <3>2, <4>2, FinishLastFits
      <4> QED BY <4>1, <4>2
    <3> QED BY <1>1, <1>4, <2>1, <3>1, <3>2, HeadStepSaid
  <2> QED BY <2>2, <2>3
<1>5. CASE /\ Len(doing.todo) = 1 /\ chain' = Tail(chain) /\ doing'.at = "idle" /\ doing.at = "close"
           /\ streams' = [streams EXCEPT ![HeadMsg] = Closed(@)]
           /\ IF streams[HeadMsg].pending \in Head(doing.todo).text
              THEN UNCHANGED cut ELSE cut' = cut \cup {HeadMsg}
  <2>1. TodoOfHead' BY <1>5 DEF TodoOfHead
  <2>2. PICK m \in Messages, s \in Streams : m = HeadMsg /\ s = streams[m]
    BY <1>1, <1>2, <1>5, SayVariables DEF OfStream
  <2>3. PICK t : t = Closed(s) OBVIOUS
  <2>4. /\ t.pending = s.pending /\ t.timer = s.timer /\ t.mode = s.mode /\ ~t.drafted
        /\ t.delivered = t.pending /\ t.posted = s.posted
    BY <2>2, <2>3 DEF Closed, Streams
  <2>5. /\ streams'[m] = t
        /\ \A k \in Messages :
             /\ streams'[k].pending = streams[k].pending /\ streams'[k].timer = streams[k].timer
             /\ k # m => streams'[k] = streams[k]
    <3>1. streams' = [streams EXCEPT ![m] = t] BY <1>5, <2>2, <2>3
    <3>2. t.pending = streams[m].pending /\ t.timer = streams[m].timer BY <2>2, <2>4
    <3> QED BY <1>1, <3>1, <3>2, OneStream
  <2>6. HeadStep
    <3>1. cut \subseteq cut' BY <1>5
    <3> QED BY <1>1, <1>5, <2>2, <2>5, <3>1, CallStep
  <2>7. /\ t.drafted => t.mode = "draft" /\ support' # "unsupported"
        /\ t.posted => t.mode = "message"
        /\ t.delivered <= t.pending
    <3>1. StreamFits(m) BY DEF SaidInv, ChainFits
    <3>2. s.pending \in Nat BY RepliesAssumption DEF Streams
    <3> QED BY <2>2, <2>4, <3>1, <3>2 DEF StreamFits
  <2>8. CASE streams[HeadMsg].pending \in Head(doing.todo).text /\ m \notin cut
    <3>1. MessageFits(m)'
      BY <1>1, <1>2, <1>5, <2>2, <2>3, <2>5, <2>6, <2>8, CloseLastFits DEF OfStream
    <3> QED BY <1>1, <2>1, <2>2, <2>5, <2>6, <2>7, <3>1, HeadStepSaid
  <2>9. CASE m \in cut'
    <3>1. MessageFits(m)' BY <2>9 DEF MessageFits
    <3> QED BY <1>1, <2>1, <2>2, <2>5, <2>6, <2>7, <3>1, HeadStepSaid
  <2> QED BY <1>5, <2>2, <2>8, <2>9
<1> QED BY <1>3, <1>4, <1>5, AnsweredShape

LEMMA AnsweredSaid == ASSUME SaidInv, SayTypes', Answered PROVE SaidInv'
BY FlushAnsweredSaid, SendAnsweredSaid

\* A draft that was refused.
LEMMA DraftFailsSaid == ASSUME SaidInv, SayTypes', Fails, doing.at = "draft" PROVE SaidInv'
<1>1. /\ SayTypes /\ Head(chain).kind = "flush" /\ Head(chain).kind \in OfStream /\ HeadMsg \in Messages
      /\ doing.at # "idle"
      /\ TakesEffect \/ UNCHANGED <<chat, draft, seen>>
      /\ UNCHANGED <<speech, listed, said, cut>> /\ support' = "unsupported"
      /\ streams' = [streams EXCEPT ![HeadMsg].mode = "message", ![HeadMsg].drafted = FALSE]
      /\ Calls(IF streams[HeadMsg].posted THEN "edit" ELSE "preview", doing.text, <<>>)
  BY CallKinds DEF Fails, SaidInv, OfStream
<1>2. PICK m \in Messages, s \in Streams : m = HeadMsg /\ s = streams[m] BY <1>1, SayVariables
<1>3. PICK t : t = [s EXCEPT !.mode = "message", !.drafted = FALSE] OBVIOUS
<1>4. /\ t.pending = s.pending /\ t.timer = s.timer /\ t.mode = "message" /\ ~t.drafted
      /\ t.delivered = s.delivered /\ t.posted = s.posted
  BY <1>2, <1>3 DEF Streams
<1>5. /\ chain' = chain /\ doing'.text = doing.text /\ doing'.todo = <<>>
      /\ doing'.at = IF s.posted THEN "edit" ELSE "preview"
  BY <1>1, <1>2 DEF Calls
<1>6. /\ streams'[m] = t
      /\ \A k \in Messages :
           /\ streams'[k].pending = streams[k].pending /\ streams'[k].timer = streams[k].timer
           /\ k # m => streams'[k] = streams[k]
  <2>0. streams \in [Messages -> Streams] BY <1>1 DEF SayTypes
  <2>1. streams' = [streams EXCEPT ![m] = t] BY <1>1, <1>2, <1>3, <2>0
  <2>2. t.pending = streams[m].pending /\ t.timer = streams[m].timer BY <1>2, <1>4
  <2>3. SayTypes BY <1>1
  <2> QED BY <2>1, <2>2, <2>3, OneStream
<1>7. HeadStep
  <2>1. cut \subseteq cut' BY <1>1
  <2> QED BY <1>1, <1>2, <1>5, <1>6, <2>1, CallStep
<1>8. TodoOfHead'
  <2>1. HeadMsg' = m /\ Head(chain').kind = "flush" /\ doing'.at \in {"edit", "preview"}
    BY <1>1, <1>2, <1>5 DEF HeadMsg
  <2> QED BY <1>4, <1>5, <1>6, <2>1 DEF TodoOfHead
<1>9. StreamFits(m) BY DEF SaidInv, ChainFits
<1>10. /\ t.drafted => t.mode = "draft" /\ support' # "unsupported"
       /\ t.posted => t.mode = "message"
       /\ t.delivered <= t.pending
  BY <1>2, <1>4, <1>9 DEF StreamFits
<1>11. ASSUME m \notin cut PROVE MessageFits(m)'
  <2>1. ~s.posted BY <1>1, <1>2, <1>9, <1>11, HeadCalls DEF FlushFits, StreamFits
  <2>2. doing'.at = "preview" BY <1>5, <2>1
  <2>3. Drafted \/ UNCHANGED <<chat, draft, seen>> BY <1>1 DEF TakesEffect
  <2> QED BY <1>1, <1>2, <1>3, <1>5, <1>6, <1>7, <1>11, <2>2, <2>3, DraftFailsFits
<1>12. m \in cut => MessageFits(m)' BY <1>1 DEF MessageFits
<1> QED BY <1>1, <1>2, <1>6, <1>7, <1>8, <1>10, <1>11, <1>12, HeadStepSaid

\* Any other call about a stream that failed ends its operation.
LEMMA CallOverSaid ==
    ASSUME SaidInv, SayTypes', Fails, doing.at # "draft", Head(chain).kind \in OfStream PROVE SaidInv'
<1>1. /\ SayTypes /\ HeadMsg \in Messages /\ doing.at # "idle" /\ doing.at \in {"edit", "preview", "close", "send"}
      /\ TakesEffect \/ UNCHANGED <<chat, draft, seen>>
      /\ UNCHANGED <<speech, listed, said, streams, support>>
  <2>1. doing.at \in {"edit", "preview", "close", "send"} /\ HeadMsg \in Messages
    BY CallKinds DEF Fails, OfStream
  <2> QED BY <2>1 DEF Fails, SaidInv
<1>2. Over BY <1>1 DEF Fails
<1>3. /\ doing.at = "edit" => cut' = cut
      /\ doing.at = "preview" =>
           IF chat' = chat /\ seen[HeadMsg] \subseteq 1..streams[HeadMsg].delivered
           THEN cut' = cut ELSE cut' = cut \cup {HeadMsg}
      /\ doing.at \in {"close", "send"} => cut' = cut \cup {HeadMsg}
  BY <1>1 DEF Fails, Loses
<1>4. chain' = Tail(chain) /\ doing'.at = "idle" BY <1>2 DEF Over, Idle
<1>5. HeadStep
  <2>1. cut \subseteq cut' BY <1>1, <1>3
  <2> QED BY <1>1, <1>4, <2>1, CallStep
<1>6. TodoOfHead' BY <1>4 DEF TodoOfHead
<1>7. ASSUME NEW m \in Messages, m = HeadMsg PROVE MessageFits(m)'
  <2>1. CASE m \in cut' BY <2>1 DEF MessageFits
  <2>2. CASE m \notin cut' /\ doing.at = "edit"
    <3>1. Head(chain).kind = "flush" /\ m \notin cut BY <1>1, <1>3, <2>2, CallKinds
    <3>2. \/ UNCHANGED <<chat, draft, seen>>
          \/ chat' = WithPreview(m, doing.text) /\ draft' = draft /\ seen' = seen
      BY <1>1, <1>7, <2>2 DEF TakesEffect, Edited, WithPreview
    <3> QED BY <1>1, <1>4, <1>5, <1>7, <2>2, <3>1, <3>2, EditOverFits
  <2>3. CASE m \notin cut' /\ doing.at = "preview"
    <3>1. /\ Head(chain).kind = "flush" /\ m \notin cut
          /\ chat' = chat /\ seen[m] \subseteq 1..streams[m].delivered
      BY <1>1, <1>3, <1>7, <2>3, CallKinds
    <3>2. UNCHANGED <<chat, draft, seen>>
      <4> SUFFICES ASSUME TakesEffect PROVE FALSE BY <1>1
      <4>1. PICK e : e = Item("preview", m, doing.text) OBVIOUS
      <4>2. chat' = Append(chat, e) BY <1>7, <2>3, <4>1 DEF TakesEffect, Posted
      <4>3. e \in Items \cup Previews BY <1>1, <4>1, SayVariables DEF Item, Previews
      <4> QED BY <1>1, <3>1, <4>2, <4>3, PostedAt
    <3> QED BY <1>1, <1>4, <1>5, <1>7, <2>3, <3>1, <3>2, PreviewFailsFits
  <2> QED BY <1>1, <1>3, <1>7, <2>1, <2>2, <2>3
<1> QED BY <1>1, <1>5, <1>6, <1>7, HeadStepSaid

\* What fails of an operation about no stream is tried another way, or over.
LEMMA QuietFailsSaid ==
    ASSUME SaidInv, SayTypes', Fails, Head(chain).kind \notin OfStream PROVE SaidInv'
<1>1. /\ SayTypes /\ doing.at # "idle" /\ doing.at \in {"send", "photo", "document"}
      /\ TakesEffect \/ UNCHANGED <<chat, draft, seen>>
      /\ UNCHANGED <<speech, listed, said, streams, support>> /\ TodoOfHead
  <2>1. doing.at \in {"send", "photo", "document"} BY CallKinds DEF Fails
  <2> QED BY <2>1 DEF Fails, SaidInv, ChainFits
<1>2. \/ /\ doing.at = "photo" /\ cut' = cut /\ chain' = chain
         /\ doing'.at = "document" /\ doing'.todo = doing.todo
      \/ /\ doing.at = "document" /\ cut' = cut /\ chain' = chain
         /\ doing'.at = "send" /\ doing'.todo = <<Item("note", HeadMsg, {})>>
      \/ /\ doing.at = "send" /\ cut' = cut \cup {HeadMsg}
         /\ chain' = Tail(chain) /\ doing'.at = "idle"
  <2>1. CASE doing.at = "photo" BY <2>1 DEF Fails, Calls
  <2>2. CASE doing.at = "document" BY <2>2 DEF Fails, Calls
  <2>3. CASE doing.at = "send" BY <2>3 DEF Fails, Over, Loses, Idle
  <2> QED BY <1>1, <2>1, <2>2, <2>3
<1>3. chain' = chain => HeadMsg' = HeadMsg /\ Head(chain').kind = Head(chain).kind BY DEF HeadMsg
<1>4. TodoOfHead'
  <2>1. CASE doing'.at = "idle" BY <2>1 DEF TodoOfHead
  <2>2. CASE chain' = chain /\ doing'.at = "document" /\ doing'.todo = doing.todo
    <3>1. \A k \in DOMAIN doing.todo :
            /\ doing.todo[k].msg = HeadMsg
            /\ doing.todo[k].text = {} /\ doing.todo[k].kind \in {"line", "file", "note"}
      BY <1>1 DEF TodoOfHead, OfStream
    <3> QED BY <1>3, <2>2, <3>1 DEF TodoOfHead, OfStream
  <2>3. CASE chain' = chain /\ doing'.at = "send" /\ doing'.todo = <<Item("note", HeadMsg, {})>>
    <3>1. PICK e : e = Item("note", HeadMsg, {}) OBVIOUS
    <3>2. e.msg = HeadMsg /\ e.text = {} /\ e.kind = "note" BY <3>1 DEF Item
    <3>3. doing'.todo = <<e>> /\ \A k \in DOMAIN <<e>> : <<e>>[k] = e BY <2>3, <3>1
    <3>4. \A k \in DOMAIN doing'.todo : doing'.todo[k] = e BY <3>3
    <3> QED BY <1>3, <2>3, <3>2, <3>4 DEF TodoOfHead, OfStream
  <2> QED BY <1>2, <2>1, <2>2, <2>3
<1>5. cut \subseteq cut' /\ (chain' = chain \/ (chain' = Tail(chain) /\ doing'.at = "idle")) BY <1>2
<1> QED BY <1>1, <1>4, <1>5, QuietCallSaid

LEMMA FailsSaid == ASSUME SaidInv, SayTypes', Fails PROVE SaidInv'
BY DraftFailsSaid, CallOverSaid, QuietFailsSaid, CallKinds DEF OfStream

--------------------
(* What the assistant says is said once: the theorem. *)

LEMMA SaidInitHolds == SayInit => SaidInv
<1> SUFFICES ASSUME SayInit PROVE SaidInv OBVIOUS
<1>1. SayTypes BY SayInitHolds
<1>2. /\ speech.msg = 0 /\ speech.open = FALSE /\ listed = 0 /\ doing.at = "idle"
      /\ DOMAIN chain = {} /\ DOMAIN chat = {} /\ draft.msg = 0
  BY DEF SayInit, Idle, NoDraft
<1>3. ASSUME NEW m \in Messages
      PROVE  /\ streams[m] = NoStream /\ seen[m] = {} /\ m \in Nat /\ m > 0
             /\ ~Writing(m) /\ FinishOf(m) = {}
  <2>1. m \in Nat /\ m > 0 BY RepliesAssumption DEF Messages
  <2> QED BY <1>2, <2>1 DEF SayInit, Writing, FinishOf
<1>4. /\ ~NoStream.drafted /\ ~NoStream.posted /\ NoStream.last = {} /\ NoStream.delivered = 0
      /\ NoStream.pending = 0 /\ ~NoStream.timer
  BY DEF NoStream
<1>5. InTurn
  <2>1. \A m \in Messages : ~Touched(m) BY <1>3, <1>4 DEF Touched
  <2>2. Past(draft.msg) BY <1>2 DEF Past
  <2> QED BY <1>2, <2>1, <2>2 DEF InTurn, ChatInOrder
<1>6. FinishLast /\ TodoOfHead /\ ListedIsWritten
  BY <1>2, <1>3 DEF FinishLast, TodoOfHead, ListedIsWritten
<1>7. ASSUME NEW m \in Messages PROVE StreamFits(m) /\ MessageFits(m)
  <2>1. StreamFits(m) BY <1>3, <1>4 DEF StreamFits
  <2>2. ~(m <= speech.msg) BY <1>2, <1>3
  <2> QED BY <2>1, <2>2 DEF MessageFits
<1> QED BY <1>1, <1>5, <1>6, <1>7 DEF SaidInv, ChainFits

LEMMA SaidFrame == ASSUME SaidInv, SayTypes', UNCHANGED sayVars PROVE SaidInv'
<1>1. cut \subseteq cut' BY DEF sayVars
<1> QED BY <1>1, CutSaid DEF sayVars

LEMMA SaidNextStep == ASSUME SaidInv, [Next]_vars PROVE SaidInv'
<1>0. SayTypes' BY SayNextStep DEF SaidInv
<1>1. CASE UNCHANGED sayVars BY <1>0, <1>1, SaidFrame
<1>2. CASE WriteOffset BY <1>1, <1>2 DEF WriteOffset
<1>3. CASE Restart BY <1>0, <1>3, ForgetRepliesSaid DEF Restart
<1>4. CASE Inbound
  <2>1. CASE Repair
    <3>1. /\ cut \subseteq cut'
          /\ UNCHANGED <<speech, streams, listed, support, chain, doing, chat, draft, errors, said, seen>>
      BY <2>1 DEF Repair
    <3> QED BY <1>0, <3>1, CutSaid
  <2>2. CASE Stop BY <1>0, <2>2, StopRepliesSaid DEF Stop
  <2>3. CASE ~Repair /\ ~Stop
    BY <1>1, <1>4, <2>3 DEF Inbound, Sends, Poll, TokenRejected, HandleOther, HandlePair, PairingAnswered,
       HandlePart, HandleMessage, GroupTimer, ConverseStarts, FilesFetched, Dispatched, LoopEnds
  <2> QED BY <2>1, <2>2, <2>3
<1>5. CASE Assistant
  <2>1. \/ MessageUpdate \/ ToolStarts \/ TurnEnds \/ FileAttached
        \/ \E why \in {"done", "error", "aborted"} : MessageEnd(why)
    BY <1>5 DEF Assistant
  <2> QED BY <1>0, <2>1, MessageUpdateSaid, ToolStartsSaid, FileAttachedSaid, MessageEndSaid
<1>6. CASE Replies
  <2>1. Reachable \in BOOLEAN BY DEF Reachable
  <2>2. Starts(Reachable) \/ Answered \/ Fails \/ \E m \in Messages : ThrottleEnds(m)
    BY <1>6 DEF Replies
  <2> QED BY <1>0, <2>1, <2>2, StartsSaid, AnsweredSaid, FailsSaid, ThrottleEndsSaid
<1>7. CASE UNCHANGED vars BY <1>1, <1>7 DEF vars
<1> QED BY <1>2, <1>3, <1>4, <1>5, <1>6, <1>7 DEF Next

\* Between any two steps, what is in the chat of a message, what is under way and what
\* the chain still holds of it agree with what the assistant wrote: each stream is
\* touched in its turn only, a preview says the beginning of what follows, a draft what
\* is yet to be sent, and a close or a finish under way has sent the first of its parts
\* and holds the rest (telegram-replies.ts: enqueue, flush, closeDraft, finish).
THEOREM SaidInvariance == Spec => []SaidInv
<1>1. Init => SaidInv BY SaidInitHolds DEF Init
<1>2. SaidInv /\ [Next]_vars => SaidInv' BY SaidNextStep
<1> QED BY <1>1, <1>2, PTL DEF Spec

\* The messages of the chat follow the order of the events, and of a message that is
\* finished the chat says all that was written, and all that was shown of it, once and in
\* order, and no draft of it is left; for every interleaving of updates, throttles,
\* boundaries and answers, with a call refused at any moment, unless what sends its text
\* failed or the channel stopped under it (telegram-replies.ts, handle to finish).
THEOREM SaidOnceHolds == Spec => []SaidOnceUnlessCut
<1>1. ASSUME SaidInv PROVE SaidOnceUnlessCut
  <2>1. ChatInOrder BY <1>1 DEF SaidInv, ChainFits, InTurn
  <2>2. ASSUME NEW m \in Messages \ cut, Finished(m) PROVE SaidOnce(m) /\ DraftIsEnded(m)
    <3>1. m <= speech.msg /\ ~Working(m)
      <4>1. m \in Nat /\ speech.msg \in Nat BY <1>1, SayVariables DEF SaidInv
      <4> QED BY <2>2, <4>1 DEF Finished, Working, Writing, FinishOf
    <3> QED BY <1>1, <3>1 DEF SaidInv, MessageFits
  <2> QED BY <2>1, <2>2 DEF SaidOnceUnlessCut
<1> QED BY <1>1, SaidInvariance, PTL

========================================
