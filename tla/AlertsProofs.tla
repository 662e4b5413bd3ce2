---------------------------- MODULE AlertsProofs ----------------------------
(***************************************************************************)
(* What holds of alerts for any integrations, requests, channels, queue    *)
(* lengths and failures.  The runner's part rests on the integration's     *)
(* lock: between the end of a run and its event row nobody else runs the   *)
(* integration (Locked, Held), and only then do the event rows not say      *)
(* whether it fails (Logged).  The notifier's part is about a line of     *)
(* event ids: the queue, the batch being collected, the batches waiting,   *)
(* the one being sent.  No id overtakes an older one of its integration    *)
(* (InLine), what a channel got or the quiet period dropped is older than  *)
(* what is still in line (Heard, Quiet), and so the latest event of an     *)
(* integration is in line, or accounted for (Accounted).                   *)
(***************************************************************************)
EXTENDS Alerts, FiniteSetTheorems, WellFoundedInduction, TLAPS

(* Callers within a run hold the lock of the integration they run. *)
Busy(c) == at[c] \notin {"idle", "gone"}
Locked == \A c, d \in Callers : Busy(c) /\ Busy(d) /\ job[c] = job[d] => c = d

(* in.failing is still what the run that is about to write its event found. *)
Held == \A c \in Callers : at[c] = "insert" => failing[job[c]] = failed[c]

(* The run of i that just ended found an outage starting or ending. *)
Owing(i) == \E c \in Callers : at[c] = "insert" /\ job[c] = i

(* The event rows of i, and those that failed to be written, tell whether i *)
(* fails.                                                                   *)
Agrees(i) == (failing[i] <=> SaysFailing(Latest(i))) <=> i \notin unlogged

(* They do so exactly while no event of i is owed. *)
Logged ==
  /\ \A i \in Integrations : Agrees(i) <=> ~Owing(i)
  /\ skipped \subseteq DOMAIN events

(* There is room for the events that are owed. *)
Room ==
  /\ IsFiniteSet({c \in Callers : at[c] = "insert"})
  /\ Len(events) + Owed <= MaxEvents

(* The batches that wait, as a set of ids. *)
Waiting == UNION {Range(out[k]) : k \in DOMAIN out}

(* Every id is an event's, and none is newer than the integration's latest. *)
Known ==
  /\ InHand \subseteq DOMAIN events
  /\ \A i \in Integrations : hushed[i] <= Latest(i)
  /\ \A i \in Integrations, ch \in ChannelSet :
       got[ch][i] <= Latest(i) /\ lost[ch][i] <= Latest(i)

(* The ids of S come before those of T, for each integration by itself. *)
Before(S, T) == \A m \in S, n \in T : events[m].of = events[n].of => m < n

InLine ==
  /\ Before(Range(sending), Waiting)
  /\ Before(Range(sending) \cup Waiting, Range(pending))
  /\ Before(Range(sending) \cup Waiting \cup Range(pending), Range(queue))
  /\ \A k, l \in DOMAIN out : k < l => Before(Range(out[k]), Range(out[l]))
  /\ \A k, l \in DOMAIN queue : k < l => Before({queue[k]}, {queue[l]})

(* What a channel got is older than what is still to be sent to it; of the  *)
(* batch being sent, it may have got the newest.                            *)
Heard == \A ch \in ChannelSet, i \in Integrations :
  /\ \A n \in Waiting \cup Range(pending) \cup Range(queue) :
       events[n].of = i => got[ch][i] < n
  /\ ch \in Range(todo) => \A n \in Range(sending) : events[n].of = i =>
       \E m \in Range(sending) : events[m].of = i /\ got[ch][i] <= m

(* What the quiet period dropped is older than what waits to be filtered. *)
Quiet == \A n \in Range(queue) : hushed[events[n].of] < n

(* An event about to be handed to the notifier is newer than all it has of  *)
(* the integration.                                                         *)
Fresh == \A c \in Callers : at[c] = "announce" =>
  /\ Latest(job[c]) # 0
  /\ \A n \in InHand : events[n].of = job[c] => n < Latest(job[c])
  /\ hushed[job[c]] < Latest(job[c])
  /\ \A ch \in ChannelSet : got[ch][job[c]] < Latest(job[c])

(* The latest event of an integration is on its way to a channel, or the    *)
(* channel got it, or it is known to be dropped.                            *)
OnItsWay(ch, i) ==
  \/ \E c \in Callers : at[c] = "announce" /\ job[c] = i
  \/ Latest(i) \in Range(queue) \cup Range(pending) \cup Waiting
  \/ Latest(i) \in Range(sending) /\ ch \in Range(todo)
Accounted == \A ch \in ChannelSet, i \in Integrations :
  OnItsWay(ch, i) \/ Latest(i) \in {0, got[ch][i], lost[ch][i], hushed[i]}

Runner == Locked /\ Held /\ Room /\ Logged /\ OneEventPerOutage
Line == Known /\ InLine /\ Heard /\ Quiet /\ Fresh /\ Accounted
IInv == TypeOK /\ Runner /\ Line

-----------------------------------------------------------------------------
(* Maxima, sequences, the latest event *)

(* A nonempty set of numbers with a bound has a largest one. *)
LEMMA Largest ==
  ASSUME NEW N \in Nat, NEW S \in SUBSET (0..N), S # {}
  PROVE  Max(S) \in S /\ \A n \in S : n <= Max(S)
<1> DEFINE Gaps == {N - n : n \in S}
<1>1. Gaps \subseteq Nat /\ Gaps # {}
  <2>1. ASSUME NEW n \in S PROVE N - n \in Nat
    OBVIOUS
  <2> QED BY <2>1
<1>2. PICK g \in Gaps : \A h \in Gaps : <<h, g>> \notin OpToRel(<, Nat)
  BY <1>1, WFMin, NatLessThanWellFounded
<1>3. PICK n \in S : g = N - n
  OBVIOUS
<1>4. ASSUME NEW m \in S PROVE n >= m
  <2>1. N - m \in Gaps /\ N - m \in Nat /\ g \in Nat
    BY <1>1
  <2>2. ~(N - m < g)
    BY <1>2, <2>1 DEF OpToRel
  <2> QED BY <1>3, <2>1, <2>2
<1>5. Max(S) \in S /\ \A m \in S : Max(S) >= m
  BY <1>4 DEF Max
<1> HIDE DEF Max
<1> QED BY <1>5

(* Range of what Append and Tail return. *)
LEMMA Ranges ==
  ASSUME NEW T, NEW q \in Seq(T)
  PROVE  /\ Range(q) \subseteq T
         /\ \A n \in T : Append(q, n) \in Seq(T) /\ Range(Append(q, n)) = Range(q) \cup {n}
         /\ q # <<>> => /\ Head(q) \in T /\ Tail(q) \in Seq(T)
                        /\ Range(q) = {Head(q)} \cup Range(Tail(q))
<1>1. ASSUME NEW n \in T PROVE Range(Append(q, n)) = Range(q) \cup {n}
  <2>1. \A k \in DOMAIN q : k \in DOMAIN Append(q, n) /\ Append(q, n)[k] = q[k]
    OBVIOUS
  <2>2. \A k \in DOMAIN Append(q, n) :
          (k \in DOMAIN q /\ Append(q, n)[k] = q[k]) \/ Append(q, n)[k] = n
    OBVIOUS
  <2>3. Len(q) + 1 \in DOMAIN Append(q, n) /\ Append(q, n)[Len(q) + 1] = n
    OBVIOUS
  <2>4. Range(q) \cup {n} \subseteq Range(Append(q, n))
    <3>1. Range(q) \subseteq Range(Append(q, n))
      BY ONLY <2>1 DEF Range
    <3>2. n \in Range(Append(q, n))
      BY ONLY <2>3 DEF Range
    <3> QED BY <3>1, <3>2
  <2>5. Range(Append(q, n)) \subseteq Range(q) \cup {n}
    BY ONLY <2>2 DEF Range
  <2> QED BY <2>4, <2>5
<1>2. ASSUME q # <<>> PROVE Range(q) = {Head(q)} \cup Range(Tail(q))
  <2>1. 1 \in DOMAIN q /\ q[1] = Head(q)
    BY <1>2
  <2>2. \A k \in DOMAIN Tail(q) : k + 1 \in DOMAIN q /\ Tail(q)[k] = q[k + 1]
    BY <1>2
  <2>3. \A k \in DOMAIN q : k = 1 \/ (k - 1 \in DOMAIN Tail(q) /\ Tail(q)[k - 1] = q[k])
    BY <1>2
  <2>4. Range(q) \subseteq {Head(q)} \cup Range(Tail(q))
    BY ONLY <2>1, <2>3 DEF Range
  <2>5. {Head(q)} \cup Range(Tail(q)) \subseteq Range(q)
    BY ONLY <2>1, <2>2 DEF Range
  <2> QED BY <2>4, <2>5
<1>3. Range(q) \subseteq T
  BY DEF Range
<1> QED BY <1>1, <1>2, <1>3

(* The latest event of an integration is the newest row about it, if any. *)
Newest(i) ==
  /\ Latest(i) \in 0..Len(events) /\ Len(events) \in Nat
  /\ Latest(i) # 0 => Latest(i) \in DOMAIN events /\ events[Latest(i)].of = i
  /\ \A n \in DOMAIN events : events[n].of = i => n <= Latest(i)

(* That is what Latest computes.                                           *)
LEMMA LatestIs == TypeOK => \A i \in Integrations : Newest(i)
<1> SUFFICES ASSUME TypeOK, NEW i \in Integrations PROVE Newest(i)
  OBVIOUS
<1> DEFINE S == {0} \cup {n \in DOMAIN events : events[n].of = i}
<1>1. Len(events) \in Nat /\ DOMAIN events = 1..Len(events)
  BY DEF TypeOK
<1>2. S \in SUBSET (0..Len(events)) /\ S # {}
  BY <1>1
<1>3. Latest(i) = Max(S)
  BY DEF Latest
<1> HIDE DEF Latest
<1>4. Latest(i) \in S /\ \A n \in S : n <= Latest(i)
  <2> HIDE DEF S
  <2> QED BY <1>1, <1>2, <1>3, Largest
<1> QED BY <1>1, <1>4 DEF Newest

(* The same of the state after a step. *)
LEMMA LatestIsNext == TypeOK' => \A i \in Integrations : Newest(i)'
<1>1. (TypeOK => \A i \in Integrations : Newest(i))'
  BY LatestIs, PTL
<1> QED BY <1>1

(* What the latest event is depends on the table alone. *)
LEMMA LatestStays ==
  ASSUME events' = events, NEW i \in Integrations
  PROVE  Latest(i)' = Latest(i)
BY DEF Latest

(* A new row is the latest of its integration, and of no other. *)
LEMMA LatestGrows ==
  ASSUME TypeOK, TypeOK', NEW i \in Integrations, NEW kind \in {"error", "recovered"},
         events' = Append(events, [of |-> i, kind |-> kind])
  PROVE  /\ Latest(i)' = Len(events) + 1 /\ Len(events) + 1 \in DOMAIN events'
         /\ events'[Len(events) + 1].of = i /\ events'[Len(events) + 1].kind = kind
         /\ \A j \in Integrations \ {i} : Latest(j)' = Latest(j)
         /\ \A n \in DOMAIN events : n \in DOMAIN events' /\ events'[n] = events[n]
<1> DEFINE row == [of |-> i, kind |-> kind]
           Rows == [of : Integrations, kind : {"error", "recovered"}]
<1>0. events \in Seq(Rows) /\ row \in Rows
  BY DEF TypeOK
<1>1. row.of = i /\ row.kind = kind /\ events' = Append(events, row)
  OBVIOUS
<1> HIDE DEF row, Rows
<1>2. /\ Len(events) \in Nat /\ DOMAIN events = 1..Len(events)
      /\ DOMAIN events' = 1..(Len(events) + 1) /\ Len(events') = Len(events) + 1
      /\ \A n \in DOMAIN events : events'[n] = events[n]
      /\ events'[Len(events) + 1] = row
  BY <1>0, <1>1
<1>3. Latest(i)' = Len(events) + 1
  <2>1. Newest(i)'
    BY LatestIsNext
  <2> QED BY <1>1, <1>2, <2>1 DEF Newest
<1>4. ASSUME NEW j \in Integrations \ {i} PROVE Latest(j)' = Latest(j)
  <2>1. \A n \in DOMAIN events' :
          events'[n].of = j <=> n \in DOMAIN events /\ events[n].of = j
    BY <1>1, <1>2
  <2>2. {n \in DOMAIN events' : events'[n].of = j} = {n \in DOMAIN events : events[n].of = j}
    BY <1>2, <2>1
  <2> QED BY <2>2 DEF Latest
<1> QED BY <1>1, <1>2, <1>3, <1>4

(* The rows before a new one say what they said, and follow what they    *)
(* followed; the new one follows the latest of its integration.             *)
LEMMA PreviousStays ==
  ASSUME TypeOK, TypeOK', NEW i \in Integrations, NEW kind \in {"error", "recovered"},
         events' = Append(events, [of |-> i, kind |-> kind]), NEW last, last = Len(events) + 1
  PROVE  /\ \A n \in DOMAIN events :
              /\ SaysFailing(n)' <=> SaysFailing(n)
              /\ SaysFailing(Previous(n))' <=> SaysFailing(Previous(n))
         /\ Previous(last)' = Latest(i)
<1> DEFINE Earlier(n) == {m \in 1..(n - 1) : events[m].of = events[n].of}
<1>1. /\ Len(events) \in Nat /\ DOMAIN events = 1..Len(events)
      /\ \A n \in DOMAIN events : events'[n] = events[n]
      /\ events'[last].of = i
  <2>1. Len(events) \in Nat /\ DOMAIN events = 1..Len(events)
    BY DEF TypeOK
  <2> QED BY <2>1, LatestGrows
<1>2. ASSUME NEW n \in DOMAIN events
      PROVE  Previous(n)' = Previous(n) /\ (Previous(n) # 0 => Previous(n) \in DOMAIN events)
  <2>1. n \in Nat /\ \A m \in 1..(n - 1) : m \in DOMAIN events
    BY <1>1
  <2>2. Earlier(n)' = Earlier(n)
    BY <1>1, <2>1
  <2>3. Previous(n)' = Previous(n)
    BY <2>2 DEF Previous
  <2>4. {0} \cup Earlier(n) \in SUBSET (0..Len(events))
    BY <1>1, <2>1
  <2>5. Previous(n) = Max({0} \cup Earlier(n))
    BY DEF Previous
  <2>6. Previous(n) \in {0} \cup Earlier(n)
    <3> HIDE DEF Earlier
    <3> QED BY <1>1, <2>4, <2>5, Largest
  <2> QED BY <2>1, <2>3, <2>6
<1>3. Previous(last)' = Latest(i)
  <2>1. last - 1 = Len(events)
    BY <1>1
  <2>2. {m \in 1..Len(events) : events'[m].of = i} = {m \in DOMAIN events : events[m].of = i}
    BY <1>1
  <2>3. Previous(last)' = Max({0} \cup {m \in 1..Len(events) : events'[m].of = i})
    BY <1>1, <2>1 DEF Previous
  <2> QED BY <2>2, <2>3 DEF Latest
<1>4. ASSUME NEW n \in DOMAIN events PROVE SaysFailing(n)' <=> SaysFailing(n)
  BY <1>1 DEF SaysFailing
<1>5. ASSUME NEW n \in DOMAIN events
      PROVE  SaysFailing(Previous(n))' <=> SaysFailing(Previous(n))
  BY <1>1, <1>2 DEF SaysFailing
<1> QED BY <1>3, <1>4, <1>5

(* A drop is noted for the channels it concerns: the newest that was lost. *)
LEMMA Dropped ==
  ASSUME TypeOK, NEW ids \in SUBSET (DOMAIN events), NEW chs, Drop(ids, chs)
  PROVE  /\ lost' \in [ChannelSet -> [Integrations -> 0..MaxEvents]]
         /\ \A ch \in ChannelSet, i \in Integrations :
              /\ lost[ch][i] <= lost'[ch][i]
              /\ lost[ch][i] <= Latest(i) => lost'[ch][i] <= Latest(i)
              /\ ch \in chs => \A n \in ids : events[n].of = i => n <= lost'[ch][i]
<1> DEFINE S(ch, i) == {lost[ch][i]} \cup {n \in ids : events[n].of = i}
           M(ch, i) == IF ch \in chs THEN Max(S(ch, i)) ELSE lost[ch][i]
<1>1. lost' = [ch \in ChannelSet |-> [i \in Integrations |-> M(ch, i)]]
  BY DEF Drop
<1>2. /\ Len(events) \in Nat /\ DOMAIN events = 1..Len(events) /\ MaxEvents \in Nat
      /\ Len(events) <= MaxEvents
  BY BoundsAssumption DEF TypeOK
<1>3. ASSUME NEW ch \in ChannelSet, NEW i \in Integrations
      PROVE  /\ M(ch, i) \in 0..MaxEvents /\ lost[ch][i] \in 0..MaxEvents
             /\ lost[ch][i] <= M(ch, i)
             /\ lost[ch][i] <= Latest(i) => M(ch, i) <= Latest(i)
             /\ ch \in chs => \A n \in ids : events[n].of = i => n <= M(ch, i)
  <2>1. lost[ch][i] \in 0..MaxEvents
    BY DEF TypeOK
  <2>2. S(ch, i) \in SUBSET (0..MaxEvents) /\ S(ch, i) # {} /\ lost[ch][i] \in S(ch, i)
    BY <1>2, <2>1
  <2>3. Max(S(ch, i)) \in S(ch, i) /\ \A n \in S(ch, i) : n <= Max(S(ch, i))
    <3> HIDE DEF S
    <3> QED BY <1>2, <2>2, Largest
  <2>4. Newest(i)
    BY LatestIs
  <2>5. lost[ch][i] <= Latest(i) => \A n \in S(ch, i) : n <= Latest(i)
    BY <2>4 DEF Newest
  <2>6. CASE ch \in chs
    <3> HIDE DEF Latest
    <3>1. M(ch, i) = Max(S(ch, i))
      BY <2>6
    <3>2. \A n \in ids : events[n].of = i => n \in S(ch, i)
      OBVIOUS
    <3> HIDE DEF S, M
    <3> QED BY <2>1, <2>2, <2>3, <2>5, <3>1, <3>2
  <2>7. CASE ch \notin chs
    BY <2>1, <2>7
  <2> QED BY <2>6, <2>7
<1> HIDE DEF M
<1>4. \A ch \in ChannelSet, i \in Integrations : lost'[ch][i] = M(ch, i)
  BY <1>1
<1> QED BY <1>1, <1>3, <1>4

(* A batch that is received makes its newest event of an integration the    *)
(* last the channel got; of an integration that is not in it, nothing.      *)
LEMMA Gotten ==
  ASSUME TypeOK, Range(sending) \subseteq DOMAIN events, todo # <<>>, Received
  PROVE  /\ got' \in [ChannelSet -> [Integrations -> 0..MaxEvents]]
         /\ Head(todo) \in ChannelSet
         /\ \A ch \in ChannelSet, i \in Integrations :
              \/ /\ got'[ch][i] = got[ch][i]
                 /\ ch = Head(todo) => \A n \in Range(sending) : events[n].of # i
              \/ /\ ch = Head(todo)
                 /\ got'[ch][i] \in Range(sending) /\ events[got'[ch][i]].of = i
                 /\ \A n \in Range(sending) : events[n].of = i => n <= got'[ch][i]
<1> DEFINE ids(i) == {n \in Range(sending) : events[n].of = i}
           M(i) == IF ids(i) = {} THEN got[Head(todo)][i] ELSE Max(ids(i))
<1>1. Head(todo) \in ChannelSet
  BY DEF TypeOK
<1>2. got' = [got EXCEPT ![Head(todo)] = [i \in Integrations |-> M(i)]]
  BY DEF Received
<1>3. /\ Len(events) \in Nat /\ DOMAIN events = 1..Len(events) /\ MaxEvents \in Nat
      /\ Len(events) <= MaxEvents
  BY BoundsAssumption DEF TypeOK
<1>4. ASSUME NEW i \in Integrations, ids(i) # {}
      PROVE  M(i) \in ids(i) /\ \A n \in ids(i) : n <= M(i)
  <2>1. ids(i) \in SUBSET (0..Len(events)) /\ M(i) = Max(ids(i))
    BY <1>3, <1>4
  <2> HIDE DEF ids, M
  <2> QED BY <1>3, <1>4, <2>1, Largest
<1>5. ASSUME NEW i \in Integrations
      PROVE  /\ M(i) \in 0..MaxEvents
             /\ \/ M(i) = got[Head(todo)][i] /\ \A n \in Range(sending) : events[n].of # i
                \/ /\ M(i) \in Range(sending) /\ events[M(i)].of = i
                   /\ \A n \in Range(sending) : events[n].of = i => n <= M(i)
  <2>1. CASE ids(i) = {}
    BY <1>1, <2>1 DEF TypeOK
  <2>2. CASE ids(i) # {}
    <3>1. M(i) \in ids(i) /\ \A n \in ids(i) : n <= M(i)
      BY <1>4, <2>2
    <3> HIDE DEF M
    <3> QED BY <1>3, <3>1
  <2> QED BY <2>1, <2>2
<1> HIDE DEF M
<1>6. \A ch \in ChannelSet, i \in Integrations :
        got'[ch][i] = IF ch = Head(todo) THEN M(i) ELSE got[ch][i]
  BY <1>1, <1>2 DEF TypeOK
<1>7. got' \in [ChannelSet -> [Integrations -> 0..MaxEvents]]
  BY <1>1, <1>2, <1>5 DEF TypeOK
<1> QED BY <1>1, <1>5, <1>6, <1>7

-----------------------------------------------------------------------------
(* Types *)

(* Nothing has happened, and nothing is in line. *)
LEMMA TypeInit == Init => TypeOK
<1> SUFFICES ASSUME Init PROVE TypeOK
  OBVIOUS
<1>1. /\ at \in [Callers -> Steps] /\ job \in [Callers -> Integrations]
      /\ failed \in [Callers -> BOOLEAN] /\ failing \in [Integrations -> BOOLEAN]
      /\ status \in [Integrations -> Statuses]
  BY DEF Init, Steps, Statuses
<1>2. /\ events = <<>> /\ queue = <<>> /\ pending = <<>> /\ out = <<>> /\ sending = <<>>
      /\ todo = <<>>
  BY DEF Init
<1>3. /\ mailbox \in 0..MailCap /\ current \in BOOLEAN /\ flush \in BOOLEAN
      /\ attempt \in 0..Retries /\ recent \in SUBSET Integrations
      /\ configured \in SUBSET ChannelSet /\ running \in [{"collect", "send"} -> BOOLEAN]
      /\ stop \in BOOLEAN /\ budget \in 0..Mishaps /\ unlogged \in SUBSET Integrations
      /\ skipped \in SUBSET Ids
  <2>1. /\ mailbox \in 0..MailCap /\ attempt \in 0..Retries /\ budget \in 0..Mishaps
    BY CapsAssumption, BoundsAssumption DEF Init
  <2>2. /\ current \in BOOLEAN /\ flush \in BOOLEAN /\ stop \in BOOLEAN
        /\ running \in [{"collect", "send"} -> BOOLEAN]
    BY DEF Init
  <2>3. /\ recent \in SUBSET Integrations /\ configured \in SUBSET ChannelSet
        /\ unlogged \in SUBSET Integrations /\ skipped \in SUBSET Ids
    BY DEF Init
  <2> QED BY <2>1, <2>2, <2>3
<1>4. /\ hushed \in [Integrations -> 0..MaxEvents]
      /\ got \in [ChannelSet -> [Integrations -> 0..MaxEvents]] /\ lost = got
  BY BoundsAssumption DEF Init
<1> QED BY <1>1, <1>2, <1>3, <1>4, CapsAssumption, BoundsAssumption DEF TypeOK

(* Whoever is about to write an event row is counted. *)
LEMMA OwedIs ==
  ASSUME Room
  PROVE  Owed \in Nat /\ \A c \in Callers : at[c] = "insert" => Owed >= 1
<1>1. Owed \in Nat
  BY FS_CardinalityType DEF Room, Owed
<1>2. ASSUME NEW c \in Callers, at[c] = "insert" PROVE Owed # 0
  BY <1>2, FS_EmptySet DEF Room, Owed
<1> QED BY <1>1, <1>2

(* The list of a batch's channels names those configured, and no other. *)
LEMMA InOrderIs ==
  ASSUME NEW S \in SUBSET ChannelSet, NEW s \in InOrder(S)
  PROVE  s \in Seq(ChannelSet) /\ Range(s) = S
<1>1. Len(Channels) \in Nat
  BY ChannelsAssumption
<1>2. PICK m \in 0..Len(Channels) : s \in [1..m -> S]
  BY DEF InOrder, SeqOf
<1>3. s \in Seq(S)
  BY <1>1, <1>2
<1> QED BY <1>2, <1>3 DEF InOrder, Range

(* A row fits in the table because it was counted, an id in the queue        *)
(* because it is an event's.                                                *)
LEMMA TypeStep ==
  ASSUME TypeOK, Room, Known, Fresh, [Next]_vars
  PROVE  TypeOK'
<1> USE CapsAssumption, BoundsAssumption
<1>a. /\ Len(events) \in Nat /\ DOMAIN events = 1..Len(events) /\ DOMAIN events \subseteq Ids
  BY DEF TypeOK, Ids
<1>b. ASSUME NEW c \in Callers, NEW step \in Steps, Goto(c, step)
      PROVE  at' \in [Callers -> Steps]
  BY <1>b DEF Goto, TypeOK
<1>c. Publish => mailbox' \in 0..MailCap
  BY DEF Publish, TypeOK
<1>d. Mishap \/ Unreadable \/ UNCHANGED budget => budget' \in 0..Mishaps
  BY DEF Mishap, Unreadable, TypeOK
<1>e. /\ Range(pending) \subseteq DOMAIN events /\ Range(sending) \subseteq DOMAIN events
      /\ Range(queue) \subseteq DOMAIN events
  BY DEF Known, InHand
<1>f. ASSUME NEW c \in Callers PROVE job[c] \in Integrations
  BY DEF TypeOK
<1>1. ASSUME NEW c \in Callers, NEW i \in Integrations, StartRun(c, i) PROVE TypeOK'
  BY <1>1, <1>b DEF StartRun, TypeOK, Steps, runner, page, notifier, world,
     collector, sender
<1>2. ASSUME NEW c \in Callers, NotConfigured(c) \/ LeaveLoop(c) PROVE TypeOK'
  BY <1>2, <1>b DEF NotConfigured, LeaveLoop, TypeOK, Steps, runner, page, notifier, world,
     collector, sender
<1>3. ASSUME NEW c \in Callers, EndRun(c) PROVE TypeOK'
  BY <1>3, <1>b DEF EndRun, TypeOK, Steps, page, notifier, world, collector, sender
<1>4. ASSUME NEW c \in Callers, InsertEvent(c) PROVE TypeOK'
  <2>1. Len(events) + 1 <= MaxEvents
    BY <1>4, <1>a, OwedIs DEF Room, InsertEvent
  <2>2. /\ events' \in Seq([of : Integrations, kind : {"error", "recovered"}])
        /\ Len(events') = Len(events) + 1
    BY <1>4, <1>f DEF InsertEvent, TypeOK
  <2>3. unlogged' \in SUBSET Integrations /\ skipped' \in SUBSET Ids
    <3>1. Len(events) + 1 \in Ids
      BY <1>a, <2>1 DEF Ids
    <3> QED BY <1>4, <3>1 DEF InsertEvent, TypeOK
  <2>4. at' \in [Callers -> Steps]
    BY <1>4, <1>b DEF InsertEvent, Steps
  <2> QED BY <1>4, <2>1, <2>2, <2>3, <2>4 DEF InsertEvent, TypeOK, page, notifier, world,
     collector, sender
<1>5. ASSUME NEW c \in Callers, InsertEventFails(c) PROVE TypeOK'
  <2>1. /\ budget' \in 0..Mishaps /\ at' \in [Callers -> Steps]
        /\ unlogged' \in SUBSET Integrations
    BY <1>5, <1>b, <1>d, <1>f DEF InsertEventFails, TypeOK, Steps, SymDiff
  <2> QED BY <1>5, <2>1 DEF InsertEventFails, TypeOK, page, notifier, collector, sender
<1>6. ASSUME NEW c \in Callers, Announce(c) PROVE TypeOK'
  <2> DEFINE n == Latest(job[c])
  <2>1. n \in Ids /\ n \in DOMAIN events
    BY <1>6, <1>a, <1>f, LatestIs DEF Announce, Fresh, Newest
  <2>2. queue' \in Seq(Ids) /\ Len(queue') <= QueueCap
    <3> HIDE DEF n
    <3>1. CASE Len(queue) < QueueCap /\ queue' = Append(queue, n)
      BY <2>1, <3>1 DEF TypeOK
    <3>2. CASE UNCHANGED queue
      BY <3>2 DEF TypeOK
    <3> QED BY <1>6, <3>1, <3>2 DEF Announce, n
  <2>3. lost' \in [ChannelSet -> [Integrations -> 0..MaxEvents]]
    BY <1>6, <2>1, Dropped DEF Announce, TypeOK
  <2>4. mailbox' \in 0..MailCap /\ at' \in [Callers -> Steps]
    BY <1>6, <1>b, <1>c DEF Announce, Steps
  <2> QED BY <1>6, <2>2, <2>3, <2>4 DEF Announce, TypeOK, sender, world
<1>7. ASSUME NEW c \in Callers, RecordStatus(c) PROVE TypeOK'
  <2>1. /\ status' \in [Integrations -> Statuses] /\ current' \in BOOLEAN
        /\ budget' \in 0..Mishaps /\ stop' = stop /\ configured' = configured
    BY <1>7, <1>d, <1>f DEF RecordStatus, TypeOK, Statuses, world
  <2>2. at' \in [Callers -> Steps]
    BY <1>7, <1>b DEF RecordStatus, Steps
  <2> QED BY <1>7, <2>1, <2>2 DEF RecordStatus, TypeOK, notifier, collector, sender
<1>8. ASSUME NEW c \in Callers, Refresh(c) PROVE TypeOK'
  BY <1>8, <1>b, <1>c DEF Refresh, TypeOK, Steps, notifier, world, collector, sender
<1>9. CASE Show
  BY <1>9 DEF Show, TypeOK, runner, notifier, world, collector, sender
<1>10. CASE Collect
  <2> DEFINE n == Head(queue)
  <2>1. /\ n \in Ids /\ n \in DOMAIN events /\ queue' \in Seq(Ids) /\ Len(queue') <= QueueCap
        /\ Subject \in Integrations
    <3>1. queue # <<>> /\ queue' = Tail(queue)
      BY <1>10 DEF Collect, IgnoreEvent, HushEvent, AcceptEvent, TakesEvent
    <3>2. queue \in Seq(Ids) /\ Len(queue) <= QueueCap
      BY DEF TypeOK
    <3>3. n \in Range(queue) /\ n \in Ids /\ queue' \in Seq(Ids)
      BY <3>1, <3>2, Ranges
    <3>4. Len(queue') <= QueueCap
      BY <3>1, <3>2
    <3>5. n \in DOMAIN events
      BY <1>e, <3>3
    <3>6. events[n] \in [of : Integrations, kind : {"error", "recovered"}]
      <4> DEFINE Rows == [of : Integrations, kind : {"error", "recovered"}]
      <4>1. events \in Seq(Rows)
        BY DEF TypeOK
      <4> HIDE DEF Rows, n
      <4>2. events[n] \in Rows
        BY <3>5, <4>1
      <4> QED BY <4>2 DEF Rows
    <3> QED BY <3>3, <3>4, <3>5, <3>6 DEF Subject
  <2>2. CASE IgnoreEvent
    <3>1. lost' \in [ChannelSet -> [Integrations -> 0..MaxEvents]]
      BY <2>1, <2>2, Dropped DEF IgnoreEvent
    <3>2. budget' \in 0..Mishaps /\ stop' = stop /\ configured' = configured
      BY <2>2, <1>d DEF IgnoreEvent, Unreadable, world
    <3> QED BY <2>1, <2>2, <3>1, <3>2 DEF IgnoreEvent, TakesEvent, TypeOK, runner, page, sender
  <2>3. CASE HushEvent
    <3>1. hushed' \in [Integrations -> 0..MaxEvents]
      <4>1. hushed' = [hushed EXCEPT ![Subject] = n]
        BY <2>3 DEF HushEvent
      <4>2. hushed \in [Integrations -> 0..MaxEvents] /\ n \in 0..MaxEvents
        BY <2>1 DEF TypeOK, Ids
      <4> HIDE DEF n
      <4> QED BY <2>1, <4>1, <4>2
    <3> QED BY <2>1, <2>3, <3>1 DEF HushEvent, TakesEvent, TypeOK, runner, page, sender, world
  <2>4. CASE AcceptEvent
    <3>1. pending' \in Seq(Ids) /\ recent' \in SUBSET Integrations /\ flush' \in BOOLEAN
      <4>1. /\ pending' = Append(pending, n) /\ flush' = TRUE
            /\ (recent' = recent \cup {Subject}) \/ recent' = recent
        BY <2>4 DEF AcceptEvent
      <4>2. pending \in Seq(Ids) /\ recent \in SUBSET Integrations
        BY DEF TypeOK
      <4> HIDE DEF n
      <4> QED BY <2>1, <4>1, <4>2
    <3> QED BY <2>1, <2>4, <3>1
        DEF AcceptEvent, TakesEvent, TypeOK, runner, page, sender, world
  <2> QED BY <1>10, <2>2, <2>3, <2>4 DEF Collect
<1>11. CASE Flush
  <2>1. pending \in Seq(Ids) /\ out \in Seq(Seq(Ids)) /\ Len(out) <= OutCap
    BY DEF TypeOK
  <2>2. out' \in Seq(Seq(Ids)) /\ Len(out') <= OutCap
    <3>1. (Len(out) < OutCap /\ out' = Append(out, pending)) \/ out' = out
      BY <1>11 DEF Flush
    <3> DEFINE Batches == Seq(Ids)
    <3>2. pending \in Batches /\ out \in Seq(Batches)
      BY <2>1
    <3> HIDE DEF Batches
    <3>3. out' \in Seq(Batches) /\ Len(out') <= OutCap
      BY <2>1, <3>1, <3>2
    <3> QED BY <3>3 DEF Batches
  <2>3. lost' \in [ChannelSet -> [Integrations -> 0..MaxEvents]]
    BY <1>11, <1>e, Dropped DEF Flush, TypeOK
  <2>4. pending' \in Seq(Ids) /\ flush' \in BOOLEAN
    <3>1. pending' = <<>> /\ flush' = FALSE
      BY <1>11 DEF Flush
    <3>2. pending' \in Seq(Ids)
      BY <3>1
    <3>3. flush' \in BOOLEAN
      BY <3>1
    <3> QED BY <3>2, <3>3
  <2> QED BY <1>11, <2>2, <2>3, <2>4 DEF Flush, TypeOK, runner, page, world
<1>12. CASE TakeBatch
  <2>1. out \in Seq(Seq(Ids)) /\ Len(out) <= OutCap /\ out # <<>> /\ out' = Tail(out)
    BY <1>12 DEF TakeBatch, TypeOK
  <2>2. Head(out) \in Seq(Ids) /\ out' \in Seq(Seq(Ids)) /\ Len(out') <= OutCap
    BY <2>1
  <2>3. Range(Head(out)) \subseteq DOMAIN events
    <3>1. 1 \in DOMAIN out /\ Head(out) = out[1]
      BY <2>1
    <3> QED BY <3>1 DEF Known, InHand
  <2>4. lost' \in [ChannelSet -> [Integrations -> 0..MaxEvents]]
    BY <1>12, <2>3, Dropped DEF TakeBatch
  <2>5. sending' \in Seq(Ids) /\ todo' \in Seq(ChannelSet)
    <3>1. configured \in SUBSET ChannelSet /\ sending \in Seq(Ids) /\ todo \in Seq(ChannelSet)
      BY DEF TypeOK
    <3>2. \/ sending' = sending /\ todo' = todo
          \/ todo' \in InOrder(configured) /\ (sending' = <<>> \/ sending' = Head(out))
      BY <1>12 DEF TakeBatch
    <3>3. <<>> \in Seq(Ids)
      OBVIOUS
    <3> QED BY <2>2, <3>1, <3>2, <3>3, InOrderIs
  <2>6. budget' \in 0..Mishaps /\ stop' = stop /\ configured' = configured
    BY <1>12, <1>d DEF TakeBatch, Unreadable, world
  <2> QED BY <1>12, <2>2, <2>4, <2>5, <2>6 DEF TakeBatch, TypeOK, runner, page, collector
<1>13. CASE Attempt
  <2>1. todo \in Seq(ChannelSet) /\ todo # <<>>
    BY <1>13 DEF Attempt, Deliver, DeliverUnknown, AttemptFails, Refused, Attempts, TypeOK
  <2>2. NextChannel =>
          todo' \in Seq(ChannelSet) /\ sending' \in Seq(Ids) /\ attempt' \in 0..Retries
    BY <2>1 DEF NextChannel, TypeOK
  <2>3. RetryOrNext =>
          todo' \in Seq(ChannelSet) /\ sending' \in Seq(Ids) /\ attempt' \in 0..Retries
    BY <2>2 DEF RetryOrNext, TypeOK
  <2>4. todo' \in Seq(ChannelSet) /\ sending' \in Seq(Ids) /\ attempt' \in 0..Retries
    BY <1>13, <2>2, <2>3 DEF Attempt, Deliver, DeliverUnknown, AttemptFails, Refused
  <2>5. /\ got' \in [ChannelSet -> [Integrations -> 0..MaxEvents]]
        /\ lost' \in [ChannelSet -> [Integrations -> 0..MaxEvents]]
    BY <1>13, <2>1, <1>e, Gotten, Dropped
       DEF Attempt, Deliver, DeliverUnknown, AttemptFails, Refused, TypeOK
  <2>6. UNCHANGED <<runner, events, page, collector, out, running, world>>
    BY <1>13 DEF Attempt, Deliver, DeliverUnknown, AttemptFails, Refused, Attempts
  <2> QED BY <2>4, <2>5, <2>6 DEF TypeOK, runner, page, collector, world
<1>14. CASE StopCollect \/ StopSend
  BY <1>14 DEF StopCollect, StopSend, TypeOK, runner, page, sender, collector, world
<1>15. ASSUME NEW i \in Integrations, HourPasses(i) PROVE TypeOK'
  BY <1>15 DEF HourPasses, TypeOK, runner, page, sender, world
<1>16. CASE Configure \/ Stop
  <2>1. budget' \in 0..Mishaps /\ stop' \in BOOLEAN /\ configured' \in SUBSET ChannelSet
    BY <1>16, <1>d DEF Configure, Stop, TypeOK
  <2> QED BY <1>16, <2>1 DEF Configure, Stop, TypeOK, runner, page, notifier, collector, sender
<1>17. CASE UNCHANGED vars
  BY <1>17 DEF vars, TypeOK, runner, page, notifier, world, collector, sender
<1> QED BY <1>1, <1>2, <1>3, <1>4, <1>5, <1>6, <1>7, <1>8, <1>9, <1>10, <1>11, <1>12, <1>13,
           <1>14, <1>15, <1>16, <1>17 DEF Next, Work, Record

-----------------------------------------------------------------------------
(* The runner *)

(* The other steps of a run: on to its end, with no event row to be written. *)
Onward(c) ==
  /\ at[c] # "insert"
  /\ \E step \in {"idle", "record", "refresh", "gone"} :
       Goto(c, step) /\ (at[c] \in {"idle", "gone"} => step = "gone")
  /\ \A d \in Callers : d # c => failed'[d] = failed[d]
  /\ UNCHANGED <<job, failing, unlogged, skipped, events>>

(* What a step can be to the runner.                                         *)
LEMMA RunnerSteps ==
  ASSUME TypeOK, [Next]_vars
  PROVE  \/ \E c \in Callers : \/ \E i \in Integrations : StartRun(c, i)
                               \/ EndRun(c) \/ InsertEvent(c) \/ InsertEventFails(c)
                               \/ Onward(c)
         \/ UNCHANGED <<at, job, failed, failing, unlogged, skipped, events>>
<1>1. ASSUME NEW c \in Callers,
             \/ NotConfigured(c) \/ LeaveLoop(c) \/ Announce(c)
             \/ RecordStatus(c) \/ Refresh(c)
      PROVE  Onward(c)
  BY <1>1 DEF NotConfigured, LeaveLoop, Announce, RecordStatus, Refresh, Onward, Goto, TypeOK
<1>2. CASE \/ Show \/ Collect \/ Flush \/ StopCollect \/ TakeBatch \/ Attempt \/ StopSend
           \/ (\E i \in Integrations : HourPasses(i)) \/ Configure \/ Stop \/ UNCHANGED vars
  BY <1>2 DEF Show, Collect, IgnoreEvent, HushEvent, AcceptEvent, TakesEvent, Flush,
     StopCollect, TakeBatch, Attempt, Deliver, DeliverUnknown, AttemptFails, Refused,
     Attempts, StopSend,
     HourPasses, Configure, Stop, vars, runner
<1> QED BY <1>1, <1>2 DEF Next, Work, Record

(* The lock of an integration has one holder. *)
LEMMA LockedStep ==
  ASSUME TypeOK, Locked, [Next]_vars
  PROVE  Locked'
<1>1. ASSUME NEW c \in Callers, NEW i \in Integrations, StartRun(c, i) PROVE Locked'
  <2>1. \A d \in Callers : d # c => /\ at'[d] = at[d] /\ job'[d] = job[d]
                                    /\ Busy(d) => job[d] # i
    BY <1>1 DEF StartRun, Goto, Free, Busy, TypeOK
  <2>2. job'[c] = i
    BY <1>1 DEF StartRun, TypeOK
  <2> QED BY <2>1, <2>2 DEF Locked, Busy
<1>2. ASSUME job' = job, \A d \in Callers : Busy(d)' => Busy(d) PROVE Locked'
  BY <1>2 DEF Locked
<1>3. ASSUME NEW c \in Callers, EndRun(c) \/ InsertEvent(c) \/ InsertEventFails(c) \/ Onward(c)
      PROVE  Locked'
  <2>1. job' = job /\ \A d \in Callers : d # c => at'[d] = at[d]
    BY <1>3 DEF EndRun, InsertEvent, InsertEventFails, Onward, Goto, TypeOK
  <2>2. Busy(c)' => Busy(c)
    BY <1>3 DEF EndRun, InsertEvent, InsertEventFails, Onward, Goto, TypeOK, Busy
  <2> QED BY <1>2, <2>1, <2>2 DEF Busy
<1>4. CASE UNCHANGED <<at, job, failed, failing, unlogged, skipped, events>>
  BY <1>2, <1>4 DEF Busy
<1> QED BY <1>1, <1>3, <1>4, RunnerSteps

(* Nobody else runs the integration between a run's end and its event row. *)
LEMMA HeldStep ==
  ASSUME TypeOK, Locked, Held, [Next]_vars
  PROVE  Held'
<1>1. ASSUME NEW c \in Callers, EndRun(c) PROVE Held'
  <2>1. PICK bad \in BOOLEAN : /\ failed' = [failed EXCEPT ![c] = bad]
                               /\ failing' = [failing EXCEPT ![job[c]] = bad]
    BY <1>1 DEF EndRun
  <2>2. \A d \in Callers : d # c => at'[d] = at[d] /\ failed'[d] = failed[d]
    BY <1>1, <2>1 DEF EndRun, Goto, TypeOK
  <2>3. job' = job /\ \A d \in Callers : d # c /\ at[d] = "insert" => job[d] # job[c]
    BY <1>1 DEF EndRun, Locked, Busy
  <2>4. failed'[c] = bad /\ failing'[job[c]] = bad
        /\ \A i \in Integrations : i # job[c] => failing'[i] = failing[i]
    BY <2>1 DEF TypeOK
  <2>5. \A d \in Callers : job[d] \in Integrations
    BY DEF TypeOK
  <2> QED BY <2>2, <2>3, <2>4, <2>5 DEF Held
<1>2. ASSUME NEW c \in Callers,
             \/ \E i \in Integrations : StartRun(c, i)
             \/ InsertEvent(c) \/ InsertEventFails(c) \/ Onward(c)
      PROVE  Held'
  <2>1. at'[c] # "insert" /\ failing' = failing
    BY <1>2 DEF StartRun, InsertEvent, InsertEventFails, Onward, Goto, TypeOK
  <2>2. \A d \in Callers : d # c =>
          at'[d] = at[d] /\ failed'[d] = failed[d] /\ job'[d] = job[d]
    BY <1>2 DEF StartRun, InsertEvent, InsertEventFails, Onward, Goto, TypeOK
  <2> QED BY <2>1, <2>2 DEF Held
<1>3. CASE UNCHANGED <<at, job, failed, failing, unlogged, skipped, events>>
  BY <1>3 DEF Held
<1> QED BY <1>1, <1>2, <1>3, RunnerSteps

(* A run that will write an event row has a place for it. *)
LEMMA RoomStep ==
  ASSUME TypeOK, Room, [Next]_vars
  PROVE  Room'
<1> DEFINE Ins == {d \in Callers : at[d] = "insert"}
           Ins2 == {d \in Callers : at'[d] = "insert"}
<1>1. IsFiniteSet(Ins) /\ Owed = Cardinality(Ins) /\ Owed \in Nat /\ Len(events) \in Nat
  BY OwedIs DEF Room, Owed, TypeOK
<1>2. /\ Owed' = Cardinality(Ins2)
      /\ Room' <=> IsFiniteSet(Ins2) /\ Len(events') + Owed' <= MaxEvents
  BY DEF Room, Owed
<1>3. ASSUME events' = events, Ins2 = Ins PROVE Room'
  BY <1>1, <1>2, <1>3 DEF Room
<1>4. ASSUME NEW c \in Callers, EndRun(c) PROVE Room'
  <2>1. /\ at[c] = "syncing" /\ events' = events
        /\ \/ Len(events) + Owed < MaxEvents /\ at' = [at EXCEPT ![c] = "insert"]
           \/ at' = [at EXCEPT ![c] = "record"]
    BY <1>4 DEF EndRun, Goto
  <2>2. CASE Len(events) + Owed < MaxEvents /\ at' = [at EXCEPT ![c] = "insert"]
    <3>1. Ins2 = Ins \cup {c} /\ c \notin Ins
      BY <2>1, <2>2 DEF TypeOK
    <3>2. IsFiniteSet(Ins2) /\ Cardinality(Ins2) = Cardinality(Ins) + 1
      <4> HIDE DEF Ins, Ins2
      <4> QED BY <1>1, <3>1, FS_AddElement
    <3> HIDE DEF Ins, Ins2
    <3> QED BY <1>1, <1>2, <2>1, <2>2, <3>2, BoundsAssumption
  <2>3. CASE at' = [at EXCEPT ![c] = "record"]
    <3>1. Ins2 = Ins
      BY <2>1, <2>3 DEF TypeOK
    <3> QED BY <1>3, <2>1, <3>1
  <2> QED BY <2>1, <2>2, <2>3
<1>5. ASSUME NEW c \in Callers, InsertEvent(c) \/ InsertEventFails(c) PROVE Room'
  <2>1. Ins2 = Ins \ {c} /\ c \in Ins
    BY <1>5 DEF InsertEvent, InsertEventFails, Goto, TypeOK
  <2>2. IsFiniteSet(Ins2) /\ Cardinality(Ins2) = Cardinality(Ins) - 1
    <3> HIDE DEF Ins, Ins2
    <3> QED BY <1>1, <2>1, FS_RemoveElement
  <2>3. Len(events') <= Len(events) + 1 /\ Len(events') \in Nat
    <3>1. CASE events' = events
      BY <1>1, <3>1
    <3>2. CASE InsertEvent(c)
      <4>1. PICK row : events' = Append(events, row)
        BY <3>2 DEF InsertEvent
      <4>2. Len(Append(events, row)) = Len(events) + 1
        BY DEF TypeOK
      <4> QED BY <1>1, <4>1, <4>2
    <3> QED BY <1>5, <3>1, <3>2 DEF InsertEventFails
  <2>4. Len(events) + Owed <= MaxEvents
    BY DEF Room
  <2> HIDE DEF Ins, Ins2
  <2> QED BY <1>1, <1>2, <2>2, <2>3, <2>4, BoundsAssumption
<1>6. ASSUME NEW c \in Callers, (\E i \in Integrations : StartRun(c, i)) \/ Onward(c)
      PROVE  Room'
  <2>1. events' = events /\ at[c] # "insert" /\ at'[c] # "insert"
        /\ \A d \in Callers : d # c => at'[d] = at[d]
    BY <1>6 DEF StartRun, Onward, Goto, TypeOK
  <2>2. Ins2 = Ins
    BY <2>1
  <2> QED BY <1>3, <2>1, <2>2
<1>7. CASE UNCHANGED <<at, job, failed, failing, unlogged, skipped, events>>
  BY <1>3, <1>7
<1> QED BY <1>4, <1>5, <1>6, <1>7, RunnerSteps

(* While no event of an integration is owed its rows say whether it fails,  *)
(* and a new row says the opposite of the one before, but for the failures. *)
LEMMA OneEventStep ==
  ASSUME TypeOK, TypeOK', Locked, Held, Logged, OneEventPerOutage, [Next]_vars
  PROVE  Logged' /\ OneEventPerOutage'
<1> DEFINE Right(i) == Agrees(i) <=> ~Owing(i)
           Turn(n) == (SaysFailing(n) <=> SaysFailing(Previous(n))) <=> n \in skipped
           Turns == skipped \subseteq DOMAIN events /\ \A n \in DOMAIN events : Turn(n)
<1>1. Turns /\ \A i \in Integrations : Right(i)
  BY DEF OneEventPerOutage, Logged
<1>2. ASSUME Turns', \A i \in Integrations : Right(i)'
      PROVE  Logged' /\ OneEventPerOutage'
  <2>1. Logged'
    BY <1>2 DEF Logged
  <2>2. ASSUME NEW i \in Integrations, \A c \in Callers : at'[c] = "insert" => job'[c] # i
        PROVE  Agrees(i)'
    BY <1>2, <2>2 DEF Owing
  <2> QED BY <1>2, <2>1, <2>2 DEF OneEventPerOutage, Agrees
<1>3. ASSUME UNCHANGED <<events, skipped>> PROVE Turns'
  BY <1>1, <1>3 DEF SaysFailing, Previous
<1>4. ASSUME NEW i \in Integrations, events' = events, failing'[i] = failing[i],
             i \in unlogged <=> i \in unlogged', Owing(i)' <=> Owing(i)
      PROVE  Right(i)'
  BY <1>1, <1>4, LatestStays DEF Agrees, SaysFailing
<1> HIDE DEF Right, Turns
<1>5. ASSUME NEW c \in Callers, EndRun(c) PROVE Turns' /\ \A i \in Integrations : Right(i)'
  <2>1. PICK bad \in BOOLEAN :
          /\ failing' = [failing EXCEPT ![job[c]] = bad]
          /\ IF bad # failing[job[c]] THEN Goto(c, "insert") ELSE Goto(c, "record")
    BY <1>5 DEF EndRun
  <2>2. UNCHANGED <<job, unlogged, skipped, events>> /\ at[c] = "syncing"
        /\ job[c] \in Integrations
    BY <1>5 DEF EndRun, TypeOK
  <2>3. ASSUME NEW i \in Integrations, job[c] = i, bad # failing[i] PROVE Right(i)'
    <3>1. at'[c] = "insert" /\ (failing'[i] <=> ~failing[i])
      BY <2>1, <2>3 DEF Goto, TypeOK
    <3>2. Owing(i)' /\ ~Owing(i)
      BY <2>2, <2>3, <3>1 DEF Owing, Locked, Busy
    <3>3. SaysFailing(Latest(i))' <=> SaysFailing(Latest(i))
      BY <2>2, LatestStays DEF SaysFailing
    <3> QED BY <1>1, <2>2, <3>1, <3>2, <3>3 DEF Right, Agrees
  <2>4. ASSUME NEW i \in Integrations, job[c] = i => bad = failing[i] PROVE Right(i)'
    <3>1. failing'[i] = failing[i]
      BY <2>1, <2>4 DEF TypeOK
    <3>2. \A d \in Callers : job[d] = i => (at'[d] = "insert" <=> at[d] = "insert")
      BY <2>1, <2>2, <2>4 DEF Goto, TypeOK
    <3>3. Owing(i)' <=> Owing(i)
      BY <2>2, <3>2 DEF Owing
    <3> QED BY <1>4, <2>2, <3>1, <3>3
  <2> QED BY <1>3, <2>2, <2>3, <2>4
<1>6. ASSUME NEW c \in Callers, InsertEvent(c),
             NEW i \in Integrations, i = job[c],
             NEW kind \in {"error", "recovered"},
             kind = IF failed[c] THEN "error" ELSE "recovered",
             NEW last, last = Len(events) + 1
      PROVE  Turns' /\ \A j \in Integrations : Right(j)'
  <2>1. /\ events' = Append(events, [of |-> i, kind |-> kind])
        /\ failing' = failing /\ unlogged' = unlogged \ {i} /\ job' = job
        /\ skipped' = IF i \in unlogged THEN skipped \cup {last} ELSE skipped
        /\ at[c] = "insert" /\ Goto(c, "announce")
    BY <1>6 DEF InsertEvent
  <2>2. kind = "error" <=> failing[i]
    BY <1>6, <2>1 DEF Held, TypeOK
  <2>3. Len(events) \in Nat /\ DOMAIN events = 1..Len(events)
        /\ DOMAIN events' = 1..last
    BY <1>6, <2>1 DEF TypeOK
  <2>4. /\ Latest(i)' = last /\ events'[last].kind = kind
        /\ \A j \in Integrations \ {i} : Latest(j)' = Latest(j)
        /\ \A n \in DOMAIN events : events'[n] = events[n]
    BY <1>6, <2>1, LatestGrows
  <2>5. /\ \A n \in DOMAIN events :
             /\ SaysFailing(n)' <=> SaysFailing(n)
             /\ SaysFailing(Previous(n))' <=> SaysFailing(Previous(n))
        /\ Previous(last)' = Latest(i)
    BY <1>6, <2>1, PreviousStays
  <2>6. Owing(i) /\ ~Owing(i)'
    BY <1>6, <2>1 DEF Owing, Locked, Busy, Goto, TypeOK
  <2>7. SaysFailing(last)' <=> failing[i]
    BY <1>6, <2>2, <2>3, <2>4 DEF SaysFailing
  <2>8. SaysFailing(Previous(last))' <=> SaysFailing(Latest(i))
    <3>1. Newest(i)
      BY <2>1, LatestIs
    <3> QED BY <2>3, <2>4, <2>5, <3>1 DEF SaysFailing, Newest
  <2>9. Turns'
    <3>1. skipped \subseteq DOMAIN events /\ \A n \in DOMAIN events : Turn(n)
      BY <1>1 DEF Turns
    <3>2. skipped' \subseteq 1..last /\ (last \in skipped' <=> i \in unlogged)
      BY <1>6, <2>1, <2>3, <3>1
    <3>3. Turn(last)'
      BY <1>1, <2>1, <2>6, <2>7, <2>8, <3>2 DEF Right, Agrees
    <3>4. ASSUME NEW n \in DOMAIN events PROVE Turn(n)'
      <4>1. n # last
        BY <1>6, <2>3
      <4>2. n \in skipped' <=> n \in skipped
        BY <2>1, <4>1
      <4> QED BY <2>5, <3>1, <4>2
    <3> HIDE DEF Turn
    <3> QED BY <1>6, <2>3, <3>2, <3>3, <3>4 DEF Turns
  <2>10. Right(i)'
    <3>1. SaysFailing(Latest(i))' <=> failing[i]
      BY <2>4, <2>7 DEF SaysFailing
    <3> QED BY <2>1, <2>6, <3>1 DEF Right, Agrees
  <2>11. ASSUME NEW j \in Integrations, j # i PROVE Right(j)'
    <3>1. Newest(j)
      BY LatestIs
    <3>2. Latest(j)' = Latest(j) /\ (Latest(j) # 0 => events'[Latest(j)] = events[Latest(j)])
      BY <2>4, <2>11, <3>1 DEF Newest
    <3>3. SaysFailing(Latest(j))' <=> SaysFailing(Latest(j))
      BY <3>2 DEF SaysFailing
    <3>4. Owing(j)' <=> Owing(j)
      BY <1>6, <2>1, <2>11 DEF Owing, Goto, TypeOK
    <3> QED BY <1>1, <2>1, <2>11, <3>3, <3>4 DEF Right, Agrees
  <2> QED BY <2>9, <2>10, <2>11
<1>7. ASSUME NEW c \in Callers, InsertEventFails(c)
      PROVE  Turns' /\ \A i \in Integrations : Right(i)'
  <2>1. /\ UNCHANGED <<events, skipped, failing, job>> /\ job[c] \in Integrations
        /\ unlogged' = (unlogged \ {job[c]}) \cup ({job[c]} \ unlogged)
        /\ at[c] = "insert" /\ Goto(c, "record")
    BY <1>7 DEF InsertEventFails, SymDiff, TypeOK
  <2>2. ASSUME NEW i \in Integrations, job[c] = i PROVE Right(i)'
    <3>1. Owing(i) /\ ~Owing(i)'
      BY <2>1, <2>2 DEF Owing, Locked, Busy, Goto, TypeOK
    <3>2. i \in unlogged' <=> i \notin unlogged
      BY <2>1, <2>2
    <3>3. SaysFailing(Latest(i))' <=> SaysFailing(Latest(i))
      BY <2>1, LatestStays DEF SaysFailing
    <3> QED BY <1>1, <2>1, <3>1, <3>2, <3>3 DEF Right, Agrees
  <2>3. ASSUME NEW i \in Integrations, job[c] # i PROVE Right(i)'
    <3>1. Owing(i)' <=> Owing(i)
      BY <2>1, <2>3 DEF Owing, Goto, TypeOK
    <3>2. i \in unlogged' <=> i \in unlogged
      BY <2>1, <2>3
    <3> QED BY <1>4, <2>1, <3>1, <3>2
  <2> QED BY <1>3, <2>1, <2>2, <2>3
<1>8. ASSUME UNCHANGED <<events, skipped, failing, unlogged>>,
             \A d \in Callers : /\ at'[d] = "insert" <=> at[d] = "insert"
                                /\ at[d] = "insert" => job'[d] = job[d]
      PROVE  Turns' /\ \A i \in Integrations : Right(i)'
  <2>1. ASSUME NEW i \in Integrations PROVE Owing(i)' <=> Owing(i)
    BY <1>8 DEF Owing
  <2> QED BY <1>3, <1>4, <1>8, <2>1
<1>9. ASSUME NEW c \in Callers, (\E j \in Integrations : StartRun(c, j)) \/ Onward(c)
      PROVE  Turns' /\ \A i \in Integrations : Right(i)'
  <2>1. /\ UNCHANGED <<events, skipped, failing, unlogged>>
        /\ at[c] # "insert" /\ at'[c] # "insert"
        /\ \A d \in Callers : d # c => at'[d] = at[d] /\ job'[d] = job[d]
    BY <1>9 DEF StartRun, Onward, Goto, TypeOK
  <2> QED BY <1>8, <2>1
<1>10. CASE UNCHANGED <<at, job, failed, failing, unlogged, skipped, events>>
  <2>1. UNCHANGED <<events, skipped, failing, unlogged>> /\ at' = at /\ job' = job
    BY <1>10
  <2>2. \A d \in Callers : /\ at'[d] = "insert" <=> at[d] = "insert"
                           /\ at[d] = "insert" => job'[d] = job[d]
    BY <2>1
  <2>3. Turns' /\ \A i \in Integrations : Right(i)'
    BY <1>8, <2>1, <2>2
  <2> QED BY <1>2, <2>3
<1>11. ASSUME NEW c \in Callers, InsertEvent(c)
       PROVE  Turns' /\ \A i \in Integrations : Right(i)'
  <2>1. job[c] \in Integrations
    BY DEF TypeOK
  <2> QED BY <1>6, <1>11, <2>1
<1> QED BY <1>2, <1>5, <1>7, <1>9, <1>10, <1>11, RunnerSteps

(* A dashboard that shows an old status is about to fetch again. *)
LEMMA PageStep ==
  ASSUME TypeOK, PageIsOwed, [Next]_vars
  PROVE  PageIsOwed'
<1>1. Publish => mailbox' > 0
  BY CapsAssumption DEF Publish, TypeOK
<1>2. mailbox \in Nat
  BY CapsAssumption DEF TypeOK
<1>3. ASSUME page' = page, \A c \in Callers : at[c] = "refresh" => at'[c] = "refresh"
      PROVE  PageIsOwed'
  BY <1>3 DEF PageIsOwed, page
<1>4. ASSUME NEW c \in Callers, RecordStatus(c) PROVE PageIsOwed'
  BY <1>4 DEF RecordStatus, PageIsOwed, Goto, TypeOK
<1>5. ASSUME NEW c \in Callers, Announce(c) \/ Refresh(c) PROVE PageIsOwed'
  BY <1>1, <1>5 DEF Announce, Refresh, PageIsOwed
<1>6. CASE Show
  BY <1>6 DEF Show, PageIsOwed
<1>7. ASSUME NEW c \in Callers,
             \/ NotConfigured(c) \/ LeaveLoop(c) \/ EndRun(c) \/ InsertEvent(c)
             \/ InsertEventFails(c) \/ \E i \in Integrations : StartRun(c, i)
      PROVE  PageIsOwed'
  <2>1. page' = page /\ \A d \in Callers : at[d] = "refresh" => at'[d] = "refresh"
    BY <1>7 DEF NotConfigured, LeaveLoop, EndRun, InsertEvent, InsertEventFails, StartRun,
       Goto, TypeOK
  <2> QED BY <1>3, <2>1
<1>8. CASE \/ Collect \/ Flush \/ StopCollect \/ TakeBatch \/ Attempt \/ StopSend
           \/ (\E i \in Integrations : HourPasses(i)) \/ Configure \/ Stop \/ UNCHANGED vars
  <2>1. page' = page /\ at' = at
    BY <1>8 DEF Collect, IgnoreEvent, HushEvent, AcceptEvent, TakesEvent, Flush, StopCollect,
       TakeBatch, Attempt, Deliver, DeliverUnknown, AttemptFails, Refused, Attempts, StopSend,
       HourPasses, Configure, Stop, vars, runner
  <2> QED BY <1>3, <2>1
<1> QED BY <1>4, <1>5, <1>6, <1>7, <1>8 DEF Next, Work, Record

-----------------------------------------------------------------------------
(* The line *)

(* Whoever is not about to announce an event leaves the line as it is.       *)
LEMMA LineStays ==
  ASSUME Line, UNCHANGED <<events, queue, pending, out, sending, todo, got, lost, hushed>>,
         \A c \in Callers : /\ at'[c] = "announce" <=> at[c] = "announce"
                            /\ at[c] = "announce" => job'[c] = job[c]
  PROVE  Line'
<1>1. \A i \in Integrations : Latest(i)' = Latest(i)
  BY LatestStays
<1>2. InHand' = InHand /\ Waiting' = Waiting
  BY DEF InHand, Waiting
<1>3. Known'
  BY <1>1, <1>2 DEF Line, Known
<1>4. InLine' /\ Quiet' /\ Heard'
  BY <1>2 DEF Line, InLine, Before, Quiet, Heard
<1>5. Fresh'
  BY <1>2 DEF Line, Fresh, Latest
<1>6. \A ch, i : OnItsWay(ch, i)' <=> OnItsWay(ch, i)
  BY <1>2 DEF OnItsWay, Latest
<1>7. Accounted'
  BY <1>1, <1>6 DEF Line, Accounted
<1> QED BY <1>3, <1>4, <1>5, <1>7 DEF Line

(* A step of the notifier moves ids along the line, takes them out, and     *)
(* notes where they went: what has to be shown of each.                     *)
LEMMA Moved ==
  ASSUME TypeOK, TypeOK', Line, UNCHANGED <<at, job, events>>,
         InHand' \subseteq InHand, InLine', Heard', Quiet',
         \A i \in Integrations :
           \/ hushed'[i] = hushed[i]
           \/ hushed'[i] \in InHand /\ events[hushed'[i]].of = i,
         \A i \in Integrations, ch \in ChannelSet :
           /\ \/ got'[ch][i] = got[ch][i]
              \/ got'[ch][i] \in InHand /\ events[got'[ch][i]].of = i
           /\ lost[ch][i] <= lost'[ch][i]
           /\ lost[ch][i] <= Latest(i) => lost'[ch][i] <= Latest(i)
           /\ hushed[i] = Latest(i) => hushed'[i] = Latest(i)
           /\ got[ch][i] = Latest(i) => got'[ch][i] = Latest(i)
           /\ \/ Latest(i) \in Range(queue) \cup Range(pending) \cup Waiting
              \/ Latest(i) \in Range(sending) /\ ch \in Range(todo)
              => OnItsWay(ch, i)' \/ Latest(i) \in {got'[ch][i], lost'[ch][i], hushed'[i]}
  PROVE  Line'
<1>1. \A i \in Integrations : Latest(i)' = Latest(i) /\ Newest(i)
  BY LatestStays, LatestIs
<1>2. \A i \in Integrations, ch \in ChannelSet :
        /\ lost[ch][i] \in Nat /\ lost'[ch][i] \in Nat /\ Latest(i) \in Nat
        /\ hushed[i] <= Latest(i) /\ got[ch][i] <= Latest(i) /\ lost[ch][i] <= Latest(i)
  BY <1>1, BoundsAssumption DEF Line, Known, TypeOK, Newest
<1>3. ASSUME NEW i \in Integrations, NEW n \in InHand, events[n].of = i PROVE n <= Latest(i)
  BY <1>1, <1>3 DEF Line, Known, Newest
<1>4. Known'
  BY <1>1, <1>2, <1>3 DEF Line, Known
<1>5. Fresh'
  <2>1. \A c \in Callers : job[c] \in Integrations
    BY DEF TypeOK
  <2>2. ASSUME NEW c \in Callers, at[c] = "announce"
        PROVE  /\ Latest(job[c]) # 0
               /\ \A n \in InHand' : events[n].of = job[c] => n < Latest(job[c])
               /\ hushed'[job[c]] < Latest(job[c])
               /\ \A ch \in ChannelSet : got'[ch][job[c]] < Latest(job[c])
    <3> DEFINE i == job[c]
    <3>1. /\ Latest(i) # 0 /\ hushed[i] < Latest(i)
          /\ \A n \in InHand : events[n].of = i => n < Latest(i)
          /\ \A ch \in ChannelSet : got[ch][i] < Latest(i)
      BY <2>2 DEF Line, Fresh
    <3>2. i \in Integrations
      BY <2>1
    <3> HIDE DEF i
    <3>3. hushed'[i] < Latest(i) /\ \A ch \in ChannelSet : got'[ch][i] < Latest(i)
      BY <3>1, <3>2
    <3> QED BY <3>1, <3>3 DEF i
  <2> QED BY <1>1, <2>1, <2>2 DEF Fresh
<1>6. Accounted'
  <2>1. ASSUME NEW ch \in ChannelSet, NEW i \in Integrations
        PROVE  OnItsWay(ch, i)' \/ Latest(i) \in {0, got'[ch][i], lost'[ch][i], hushed'[i]}
    <3>1. CASE \E c \in Callers : at[c] = "announce" /\ job[c] = i
      BY <3>1 DEF OnItsWay
    <3>2. CASE lost[ch][i] = Latest(i)
      BY <1>2, <3>2
    <3> QED BY <3>1, <3>2 DEF Line, Accounted, OnItsWay
  <2> QED BY <1>1, <2>1 DEF Accounted
<1> QED BY <1>4, <1>5, <1>6 DEF Line

(* A batch that is appended, or taken off the front. *)
LEMMA WaitingAppended ==
  ASSUME TypeOK, NEW b \in Seq(Ids), out' = Append(out, b)
  PROVE  /\ Waiting' = Waiting \cup Range(b)
         /\ \A k, l \in DOMAIN out' : k < l =>
              /\ k \in DOMAIN out /\ out'[k] = out[k]
              /\ (l \in DOMAIN out /\ out'[l] = out[l]) \/ out'[l] = b
<1> DEFINE Batches == Seq(Ids)
<1>1. out \in Seq(Batches) /\ b \in Batches
  BY DEF TypeOK
<1> HIDE DEF Batches
<1>2. /\ DOMAIN out' = 1..(Len(out) + 1) /\ DOMAIN out = 1..Len(out) /\ Len(out) \in Nat
      /\ \A k \in DOMAIN out : out'[k] = out[k]
      /\ out'[Len(out) + 1] = b
  BY <1>1
<1>3. Waiting \cup Range(b) \subseteq Waiting'
  BY ONLY <1>2 DEF Waiting
<1>4. Waiting' \subseteq Waiting \cup Range(b)
  <2>1. ASSUME NEW k \in DOMAIN out' PROVE Range(out'[k]) \subseteq Waiting \cup Range(b)
    <3>1. CASE k \in DOMAIN out
      BY <1>2, <3>1 DEF Waiting
    <3>2. CASE k = Len(out) + 1
      BY <1>2, <3>2
    <3> QED BY <1>2, <3>1, <3>2
  <2> QED BY <2>1 DEF Waiting
<1> QED BY <1>2, <1>3, <1>4

(* The first of the batches that wait.                                       *)
LEMMA WaitingTaken ==
  ASSUME TypeOK, out # <<>>, out' = Tail(out)
  PROVE  /\ Waiting = Range(Head(out)) \cup Waiting'
         /\ 1 \in DOMAIN out /\ Head(out) = out[1]
         /\ \A k \in DOMAIN out' : k \in Nat /\ k >= 1 /\ k + 1 \in DOMAIN out
                                   /\ out'[k] = out[k + 1]
<1> DEFINE Batches == Seq(Ids)
<1>1. out \in Seq(Batches)
  BY DEF TypeOK
<1> HIDE DEF Batches
<1>2. /\ 1 \in DOMAIN out /\ Head(out) = out[1]
      /\ \A k \in DOMAIN out' : k \in Nat /\ k >= 1 /\ k + 1 \in DOMAIN out
                                /\ out'[k] = out[k + 1]
      /\ \A k \in DOMAIN out : k = 1 \/ (k - 1 \in DOMAIN out' /\ out'[k - 1] = out[k])
  BY <1>1
<1>3. Waiting \subseteq Range(Head(out)) \cup Waiting'
  BY ONLY <1>2 DEF Waiting
<1>4. Range(Head(out)) \cup Waiting' \subseteq Waiting
  BY ONLY <1>2 DEF Waiting
<1> QED BY <1>2, <1>3, <1>4

(* A new event is newer than every id there is. *)
LEMMA InsertLine ==
  ASSUME TypeOK, TypeOK', Locked, Line, NEW c \in Callers, InsertEvent(c)
  PROVE  Line'
<1> DEFINE i == job[c]
           new == Len(events) + 1
<1>1. /\ i \in Integrations /\ at[c] = "insert"
      /\ UNCHANGED <<job, queue, pending, out, sending, todo, got, lost, hushed>>
      /\ at' = [at EXCEPT ![c] = "announce"]
  BY DEF InsertEvent, TypeOK, page, notifier, collector, sender, Goto
<1>2. /\ Latest(i)' = new /\ new \in DOMAIN events' /\ events'[new].of = i
      /\ \A j \in Integrations \ {i} : Latest(j)' = Latest(j)
      /\ \A n \in DOMAIN events : n \in DOMAIN events' /\ events'[n] = events[n]
  <2> DEFINE kind == IF failed[c] THEN "error" ELSE "recovered"
  <2>1. events' = Append(events, [of |-> i, kind |-> kind]) /\ kind \in {"error", "recovered"}
    BY DEF InsertEvent
  <2> HIDE DEF kind
  <2> QED BY <1>1, <2>1, LatestGrows
<1>3. Len(events) \in Nat /\ DOMAIN events = 1..Len(events)
  BY DEF TypeOK
<1>4. \A j \in Integrations : Newest(j)
  BY LatestIs
<1>5. InHand' = InHand /\ Waiting' = Waiting /\ InHand \subseteq DOMAIN events
  BY <1>1 DEF InHand, Waiting, Line, Known
<1>6. \A j \in Integrations : Latest(j) \in 0..Len(events) /\ Latest(j)' \in Nat
                                      /\ Latest(j) <= Latest(j)'
  <2>1. ASSUME NEW j \in Integrations
        PROVE  /\ Latest(j) \in 0..Len(events) /\ Latest(j)' \in Nat
               /\ Latest(j) <= Latest(j)'
    <3>1. Latest(j) \in 0..Len(events)
      BY <1>4 DEF Newest
    <3>2. Latest(j)' = Latest(j) \/ Latest(j)' = Len(events) + 1
      BY <1>1, <1>2
    <3> QED BY <1>3, <3>1, <3>2
  <2> QED BY <2>1
<1>7. \A j \in Integrations, ch \in ChannelSet :
        /\ got[ch][j] \in Nat /\ lost[ch][j] \in Nat
        /\ got[ch][j] <= Latest(j) /\ lost[ch][j] <= Latest(j)
  BY DEF Line, Known, TypeOK
<1>h. \A j \in Integrations : hushed[j] \in Nat /\ hushed[j] <= Latest(j)
  BY DEF Line, Known, TypeOK
<1> HIDE DEF new
<1>8. Known'
  <2>1. InHand' \subseteq DOMAIN events'
    BY <1>2, <1>5
  <2>2. ASSUME NEW j \in Integrations
        PROVE  /\ hushed[j] <= Latest(j)'
               /\ \A ch \in ChannelSet : got[ch][j] <= Latest(j)' /\ lost[ch][j] <= Latest(j)'
    <3>1. Latest(j) \in Nat /\ Latest(j)' \in Nat /\ Latest(j) <= Latest(j)'
      BY <1>3, <1>6
    <3> QED BY <1>7, <1>h, <3>1
  <2> QED BY <1>1, <2>1, <2>2 DEF Known
<1>9. \A n \in InHand : events'[n] = events[n]
  BY <1>2, <1>5
<1>10. InLine'
  <2>1. /\ Range(sending) \subseteq InHand /\ Range(pending) \subseteq InHand
        /\ Range(queue) \subseteq InHand /\ Waiting \subseteq InHand
        /\ \A k \in DOMAIN out : Range(out[k]) \subseteq InHand
        /\ \A k \in DOMAIN queue : queue[k] \in InHand
    BY DEF InHand, Waiting, Range
  <2>2. ASSUME NEW S \in SUBSET InHand, NEW T \in SUBSET InHand, Before(S, T)
        PROVE  \A m \in S, n \in T : events'[m].of = events'[n].of => m < n
    BY <1>9, <2>2 DEF Before
  <2>3. /\ \A m \in Range(sending), n \in Waiting : events'[m].of = events'[n].of => m < n
        /\ \A m \in Range(sending) \cup Waiting, n \in Range(pending) :
             events'[m].of = events'[n].of => m < n
        /\ \A m \in Range(sending) \cup Waiting \cup Range(pending), n \in Range(queue) :
             events'[m].of = events'[n].of => m < n
        /\ \A k, l \in DOMAIN out : k < l => \A m \in Range(out[k]), n \in Range(out[l]) :
             events'[m].of = events'[n].of => m < n
    BY <2>1, <2>2 DEF Line, InLine
  <2>4. \A k, l \in DOMAIN queue : k < l => \A m \in {queue[k]}, n \in {queue[l]} :
             events'[m].of = events'[n].of => m < n
    <3>1. ASSUME NEW k \in DOMAIN queue, NEW l \in DOMAIN queue, k < l,
                 events'[queue[k]].of = events'[queue[l]].of
          PROVE  queue[k] < queue[l]
      <4>1. events'[queue[k]] = events[queue[k]] /\ events'[queue[l]] = events[queue[l]]
        <5>1. queue[k] \in InHand /\ queue[l] \in InHand
          BY <2>1
        <5> QED BY <1>9, <5>1
      <4>2. Before({queue[k]}, {queue[l]})
        BY <3>1 DEF Line, InLine
      <4> QED BY <3>1, <4>1, <4>2 DEF Before
    <3> QED BY <3>1
  <2> QED BY <1>1, <1>5, <2>3, <2>4 DEF InLine, Before
<1>11. Heard' /\ Quiet'
  <2>1. \A n \in Range(sending) \cup Waiting \cup Range(pending) \cup Range(queue) :
          events'[n] = events[n]
    BY <1>9 DEF InHand, Waiting
  <2> QED BY <1>1, <1>5, <2>1 DEF Line, Heard, Quiet
<1>12. Fresh'
  <2>1. ASSUME NEW d \in Callers, at'[d] = "announce", d # c
        PROVE  at[d] = "announce" /\ job[d] # i /\ job[d] \in Integrations
    BY <1>1, <2>1 DEF Locked, Busy, TypeOK
  <2>2. ASSUME NEW n \in InHand PROVE n < new
    BY <1>3, <1>5, <2>2 DEF new
  <2>3. new # 0 /\ hushed[i] < new /\ \A ch \in ChannelSet : got[ch][i] < new
    BY <1>1, <1>3, <1>6, <1>7, <1>h DEF new
  <2>4. ASSUME NEW d \in Callers, at'[d] = "announce"
        PROVE  /\ Latest(job[d])' # 0
               /\ \A n \in InHand : events'[n].of = job[d] => n < Latest(job[d])'
               /\ hushed[job[d]] < Latest(job[d])'
               /\ \A ch \in ChannelSet : got[ch][job[d]] < Latest(job[d])'
    <3>1. CASE d = c
      BY <1>2, <2>2, <2>3, <3>1
    <3>2. CASE d # c
      <4>1. at[d] = "announce" /\ Latest(job[d])' = Latest(job[d])
        BY <1>1, <1>2, <2>1, <2>4, <3>2
      <4> QED BY <1>9, <4>1 DEF Line, Fresh
    <3> QED BY <3>1, <3>2
  <2> QED BY <1>1, <1>5, <2>4 DEF Fresh
<1>13. Accounted'
  <2>1. ASSUME NEW ch \in ChannelSet, NEW j \in Integrations
        PROVE  OnItsWay(ch, j)' \/ Latest(j)' \in {0, got[ch][j], lost[ch][j], hushed[j]}
    <3>1. CASE j = i
      <4>1. at'[c] = "announce" /\ job'[c] = j
        BY <1>1, <3>1 DEF TypeOK
      <4> QED BY <4>1 DEF OnItsWay
    <3>2. CASE j # i
      <4>1. Latest(j)' = Latest(j)
        BY <1>2, <3>2
      <4>2. OnItsWay(ch, j) => OnItsWay(ch, j)'
        BY <1>1, <1>5, <4>1 DEF OnItsWay, TypeOK
      <4> QED BY <4>1, <4>2 DEF Line, Accounted
    <3> QED BY <3>1, <3>2
  <2> QED BY <1>1, <2>1 DEF Accounted
<1> QED BY <1>8, <1>10, <1>11, <1>12, <1>13 DEF Line

(* The event a caller announces goes to the end of the queue, or is dropped. *)
LEMMA AnnounceLine ==
  ASSUME TypeOK, TypeOK', Locked, Line, NEW c \in Callers, Announce(c)
  PROVE  Line'
<1> DEFINE i == job[c]
           new == Latest(i)
<1>1. /\ i \in Integrations /\ at[c] = "announce"
      /\ UNCHANGED <<job, events, pending, out, sending, todo, got, hushed>>
      /\ at' = [at EXCEPT ![c] = "record"]
      /\ \/ queue' = Append(queue, new) /\ lost' = lost
         \/ queue' = queue /\ Drop({new}, ChannelSet)
  BY DEF Announce, TypeOK, sender, Goto
<1>2. /\ new # 0 /\ hushed[i] < new /\ \A ch \in ChannelSet : got[ch][i] < new
      /\ \A m \in InHand : events[m].of = i => m < new
  BY <1>1 DEF Line, Fresh
<1>3. new \in DOMAIN events /\ events[new].of = i /\ new \in Nat
  BY <1>1, <1>2, LatestIs DEF Newest
<1>4. \A j \in Integrations : Latest(j)' = Latest(j) /\ Newest(j) /\ Latest(j) \in Nat
  BY <1>1, LatestStays, LatestIs DEF Newest
<1>5. ASSUME NEW d \in Callers, at'[d] = "announce"
      PROVE  at[d] = "announce" /\ job[d] # i /\ job[d] \in Integrations /\ d # c
  BY <1>1, <1>5 DEF Locked, Busy, TypeOK
<1>6. \A d \in Callers : at[d] = "announce" /\ d # c => at'[d] = "announce"
  BY <1>1 DEF TypeOK
<1>7. Waiting' = Waiting
  BY <1>1 DEF Waiting
<1> HIDE DEF new, i
<1>q. queue \in Seq(Ids) /\ new \in Ids
  <2>1. DOMAIN events = 1..Len(events) /\ Len(events) \in Nat /\ Len(events) <= MaxEvents
    BY DEF TypeOK
  <2>2. new \in Ids
    BY <1>3, <2>1, BoundsAssumption DEF Ids
  <2> QED BY <2>2 DEF TypeOK
<1>8. CASE queue' = Append(queue, new) /\ lost' = lost
  <2>1. Range(queue') = Range(queue) \cup {new}
    BY <1>8, <1>q, Ranges
  <2>2. InHand' = InHand \cup {new}
    BY <1>1, <2>1 DEF InHand
  <2>3. Known'
    BY <1>1, <1>3, <1>4, <1>8, <2>2 DEF Line, Known
  <2>4. Range(sending) \cup Waiting \cup Range(pending) \cup Range(queue) \subseteq InHand
    BY DEF InHand, Waiting
  <2>5. InLine'
    <3>1. Before(Range(sending) \cup Waiting \cup Range(pending), Range(queue) \cup {new})
      BY <1>2, <1>3, <2>4 DEF Line, InLine, Before
    <3>2. ASSUME NEW k \in DOMAIN queue', NEW l \in DOMAIN queue', k < l
          PROVE  Before({queue'[k]}, {queue'[l]})
      <4>1. /\ k \in DOMAIN queue /\ queue'[k] = queue[k]
            /\ (l \in DOMAIN queue /\ queue'[l] = queue[l]) \/ queue'[l] = new
        BY <1>8, <1>q, <3>2
      <4>2. queue[k] \in InHand
        BY <2>4, <4>1 DEF Range
      <4>3. CASE l \in DOMAIN queue /\ queue'[l] = queue[l]
        BY <3>2, <4>1, <4>3 DEF Line, InLine
      <4>4. CASE queue'[l] = new
        BY <1>2, <1>3, <4>1, <4>2, <4>4 DEF Before
      <4> QED BY <4>1, <4>3, <4>4
    <3>3. /\ Before(Range(sending), Waiting)
          /\ Before(Range(sending) \cup Waiting, Range(pending))
          /\ \A k, l \in DOMAIN out : k < l => Before(Range(out[k]), Range(out[l]))
      BY DEF Line, InLine
    <3> QED BY <1>1, <1>7, <2>1, <3>1, <3>2, <3>3 DEF InLine, Before
  <2>6. Heard'
    BY <1>1, <1>2, <1>3, <1>7, <2>1 DEF Line, Heard
  <2>7. Quiet'
    BY <1>1, <1>2, <1>3, <2>1 DEF Line, Quiet
  <2>8. Fresh'
    BY <1>1, <1>3, <1>4, <1>5, <2>2 DEF Line, Fresh
  <2>9. Accounted'
    <3>1. ASSUME NEW ch \in ChannelSet, NEW j \in Integrations
          PROVE  OnItsWay(ch, j)' \/ Latest(j) \in {0, got[ch][j], lost[ch][j], hushed[j]}
      <4>1. CASE j = i
        BY <1>4, <2>1, <4>1 DEF OnItsWay, new
      <4>2. CASE j # i
        BY <1>1, <1>4, <1>6, <1>7, <2>1, <4>2 DEF Line, Accounted, OnItsWay, i
      <4> QED BY <4>1, <4>2
    <3> QED BY <1>1, <1>4, <1>8, <3>1 DEF Accounted
  <2> QED BY <2>3, <2>5, <2>6, <2>7, <2>8, <2>9 DEF Line
<1>9. CASE queue' = queue /\ Drop({new}, ChannelSet)
  <2>1. /\ InHand' = InHand
        /\ UNCHANGED <<events, queue, pending, out, sending, todo, got, hushed>>
    BY <1>1, <1>9 DEF InHand
  <2>2. \A ch \in ChannelSet, j \in Integrations :
          /\ lost[ch][j] <= lost'[ch][j] /\ lost'[ch][j] <= Latest(j)
          /\ j = i => new <= lost'[ch][j]
    BY <1>3, <1>9, Dropped DEF Line, Known
  <2>3. \A ch \in ChannelSet, j \in Integrations : lost[ch][j] \in Nat /\ lost'[ch][j] \in Nat
    BY BoundsAssumption DEF TypeOK
  <2>4. Known'
    BY <1>4, <2>1, <2>2 DEF Line, Known
  <2>5. InLine' /\ Heard' /\ Quiet'
    BY <1>7, <2>1 DEF Line, InLine, Before, Heard, Quiet
  <2>6. Fresh'
    BY <1>1, <1>4, <1>5, <2>1 DEF Line, Fresh
  <2>7. Accounted'
    <3>1. ASSUME NEW ch \in ChannelSet, NEW j \in Integrations
          PROVE  OnItsWay(ch, j)' \/ Latest(j) \in {0, got[ch][j], lost'[ch][j], hushed[j]}
      <4>1. CASE j = i
        <5>1. Latest(j) = new
          BY <4>1 DEF new
        <5>2. lost'[ch][j] = new
          BY <1>3, <2>2, <2>3, <4>1, <5>1
        <5> QED BY <5>1, <5>2
      <4>2. CASE j # i
        <5>1. OnItsWay(ch, j) => OnItsWay(ch, j)'
          BY <1>1, <1>4, <1>6, <1>7, <2>1, <4>2 DEF OnItsWay, i
        <5>2. lost[ch][j] = Latest(j) => lost'[ch][j] = Latest(j)
          BY <1>4, <2>2, <2>3
        <5> QED BY <5>1, <5>2 DEF Line, Accounted
      <4> QED BY <4>1, <4>2
    <3> QED BY <1>4, <2>1, <3>1 DEF Accounted
  <2> QED BY <2>4, <2>5, <2>6, <2>7 DEF Line
<1> QED BY <1>1, <1>8, <1>9

(* What taking the first event off the queue does to the line. *)
LEMMA Taken ==
  ASSUME TypeOK, Line, TakesEvent
  PROVE  /\ Range(queue) = {Head(queue)} \cup Range(queue')
         /\ Head(queue) \in DOMAIN events /\ Subject \in Integrations
         /\ \A n \in Range(queue') : events[n].of = Subject => Head(queue) < n
         /\ \A k, l \in DOMAIN queue' : k < l => Before({queue'[k]}, {queue'[l]})
         /\ UNCHANGED <<at, job, events, out, sending, todo, got>>
<1>1. /\ queue \in Seq(Ids) /\ queue # <<>> /\ queue' = Tail(queue)
      /\ UNCHANGED <<at, job, events, out, sending, todo, got>>
  BY DEF TakesEvent, TypeOK, runner, sender
<1>2. Range(queue) = {Head(queue)} \cup Range(queue')
  BY <1>1, Ranges
<1>3. /\ 1 \in DOMAIN queue /\ queue[1] = Head(queue)
      /\ \A k \in DOMAIN queue' : /\ k \in Nat /\ k >= 1 /\ k + 1 \in DOMAIN queue
                                  /\ queue'[k] = queue[k + 1]
  BY <1>1
<1>4. Head(queue) \in DOMAIN events
  BY <1>2 DEF Line, Known, InHand
<1>5. Subject \in Integrations
  <2> DEFINE Rows == [of : Integrations, kind : {"error", "recovered"}]
  <2>1. events \in Seq(Rows)
    BY DEF TypeOK
  <2> HIDE DEF Rows
  <2>2. events[Head(queue)] \in Rows
    BY <1>4, <2>1
  <2> QED BY <2>2 DEF Rows, Subject
<1>6. \A k, l \in DOMAIN queue : k < l => Before({queue[k]}, {queue[l]})
  BY DEF Line, InLine
<1>7. ASSUME NEW n \in Range(queue'), events[n].of = Subject PROVE Head(queue) < n
  <2>1. PICK k \in DOMAIN queue' : n = queue'[k]
    BY DEF Range
  <2>2. k + 1 \in DOMAIN queue /\ n = queue[k + 1] /\ 1 < k + 1
    BY <1>3, <2>1
  <2>3. Before({queue[1]}, {queue[k + 1]})
    BY <1>3, <1>6, <2>2
  <2> QED BY <1>3, <1>7, <2>2, <2>3 DEF Before, Subject
<1>8. ASSUME NEW k \in DOMAIN queue', NEW l \in DOMAIN queue', k < l
      PROVE  Before({queue'[k]}, {queue'[l]})
  <2>1. k + 1 \in DOMAIN queue /\ l + 1 \in DOMAIN queue /\ k + 1 < l + 1
        /\ queue'[k] = queue[k + 1] /\ queue'[l] = queue[l + 1]
    BY <1>3, <1>8
  <2> QED BY <1>6, <2>1
<1> QED BY <1>1, <1>2, <1>4, <1>5, <1>7, <1>8

(* An event that is taken is dropped, is hushed, or joins the batch. *)
LEMMA CollectLine ==
  ASSUME TypeOK, TypeOK', Line, Collect
  PROVE  Line'
<1> DEFINE h == Head(queue)
<1>1. TakesEvent
  BY DEF Collect, IgnoreEvent, HushEvent, AcceptEvent
<1>2. /\ Range(queue) = {h} \cup Range(queue')
      /\ h \in DOMAIN events /\ Subject \in Integrations /\ events[h].of = Subject
      /\ \A n \in Range(queue') : events[n].of = Subject => h < n
      /\ \A k, l \in DOMAIN queue' : k < l => Before({queue'[k]}, {queue'[l]})
      /\ UNCHANGED <<at, job, events, out, sending, todo, got>>
  BY <1>1, Taken DEF Subject
<1>3. Waiting' = Waiting
  BY <1>2 DEF Waiting
<1>4. /\ Before(Range(sending), Waiting)
      /\ Before(Range(sending) \cup Waiting, Range(pending))
      /\ Before(Range(sending) \cup Waiting \cup Range(pending), Range(queue))
      /\ \A k, l \in DOMAIN out : k < l => Before(Range(out[k]), Range(out[l]))
  BY DEF Line, InLine
<1>5. \A j \in Integrations : Newest(j) /\ Latest(j)' = Latest(j)
  BY <1>2, LatestIs, LatestStays
<1>6. \A ch \in ChannelSet, j \in Integrations :
        /\ lost[ch][j] \in Nat /\ lost'[ch][j] \in Nat /\ Latest(j) \in Nat /\ h \in Nat
        /\ lost[ch][j] <= Latest(j)
  <2>1. h \in Nat
    <3>1. DOMAIN events = 1..Len(events) /\ Len(events) \in Nat
      BY DEF TypeOK
    <3> QED BY <1>2, <3>1
  <2>2. \A ch \in ChannelSet, j \in Integrations : lost[ch][j] \in Nat /\ lost'[ch][j] \in Nat
    BY BoundsAssumption DEF TypeOK
  <2> QED BY <1>5, <2>1, <2>2 DEF Newest, Line, Known
<1> HIDE DEF h
<1>7. CASE IgnoreEvent
  <2>1. pending' = pending /\ hushed' = hushed /\ Drop({h}, ChannelSet)
    BY <1>7 DEF IgnoreEvent, h
  <2>2. \A ch \in ChannelSet, j \in Integrations :
          /\ lost[ch][j] <= lost'[ch][j]
          /\ lost[ch][j] <= Latest(j) => lost'[ch][j] <= Latest(j)
          /\ events[h].of = j => h <= lost'[ch][j]
    BY <1>2, <2>1, Dropped
  <2>3. InHand' \subseteq InHand
    BY <1>2, <2>1 DEF InHand
  <2>4. InLine'
    BY <1>2, <1>3, <1>4, <2>1 DEF InLine, Before
  <2>5. Heard' /\ Quiet'
    BY <1>2, <1>3, <2>1 DEF Line, Heard, Quiet
  <2>6. ASSUME NEW ch \in ChannelSet, NEW j \in Integrations,
               \/ Latest(j) \in Range(queue) \cup Range(pending) \cup Waiting
               \/ Latest(j) \in Range(sending) /\ ch \in Range(todo)
        PROVE  OnItsWay(ch, j)' \/ Latest(j) = lost'[ch][j]
    <3>1. CASE Latest(j) = h
      <4>1. events[h].of = j
        BY <1>2, <1>5, <3>1 DEF Newest
      <4> QED BY <1>6, <2>2, <3>1, <4>1
    <3>2. CASE Latest(j) # h
      BY <1>2, <1>3, <1>5, <2>1, <2>6, <3>2 DEF OnItsWay
    <3> QED BY <3>1, <3>2
  <2> QED BY <1>2, <2>1, <2>2, <2>3, <2>4, <2>5, <2>6, Moved
<1>8. CASE HushEvent
  <2>1. pending' = pending /\ hushed' = [hushed EXCEPT ![Subject] = h] /\ lost' = lost
    BY <1>8 DEF HushEvent, h
  <2>2. /\ hushed'[Subject] = h
        /\ \A j \in Integrations \ {Subject} : hushed'[j] = hushed[j]
    BY <1>2, <2>1 DEF TypeOK
  <2>3. InHand' \subseteq InHand /\ h \in InHand
    BY <1>2, <2>1 DEF InHand
  <2>4. InLine'
    BY <1>2, <1>3, <1>4, <2>1 DEF InLine, Before
  <2>5. Heard'
    BY <1>2, <1>3, <2>1 DEF Line, Heard
  <2>6. Quiet'
    <3>1. ASSUME NEW n \in Range(queue') PROVE hushed'[events[n].of] < n
      <4>1. events[n].of \in Integrations
        <5> DEFINE Rows == [of : Integrations, kind : {"error", "recovered"}]
        <5>1. events \in Seq(Rows) /\ n \in DOMAIN events
          BY <1>2, <2>3 DEF TypeOK, Line, Known, InHand
        <5> HIDE DEF Rows
        <5>2. events[n] \in Rows
          BY <5>1
        <5> QED BY <5>2 DEF Rows
      <4> QED BY <1>2, <2>2, <4>1 DEF Line, Quiet
    <3> QED BY <1>2, <3>1 DEF Quiet
  <2>7. hushed[Subject] # Latest(Subject)
    <3>1. hushed[Subject] < h /\ h <= Latest(Subject) /\ hushed[Subject] \in 0..MaxEvents
      BY <1>2, <1>5 DEF Line, Quiet, Newest, TypeOK
    <3> QED BY <1>2, <1>5, <3>1, BoundsAssumption DEF Newest
  <2>8. ASSUME NEW ch \in ChannelSet, NEW j \in Integrations,
               \/ Latest(j) \in Range(queue) \cup Range(pending) \cup Waiting
               \/ Latest(j) \in Range(sending) /\ ch \in Range(todo)
        PROVE  OnItsWay(ch, j)' \/ Latest(j) = hushed'[j]
    <3>1. CASE Latest(j) = h
      <4>1. j = Subject
        BY <1>2, <1>5, <3>1 DEF Newest
      <4> QED BY <2>2, <3>1, <4>1
    <3>2. CASE Latest(j) # h
      BY <1>2, <1>3, <1>5, <2>1, <2>8, <3>2 DEF OnItsWay
    <3> QED BY <3>1, <3>2
  <2>9. ASSUME NEW j \in Integrations
        PROVE  /\ \/ hushed'[j] = hushed[j]
                  \/ hushed'[j] \in InHand /\ events[hushed'[j]].of = j
               /\ hushed[j] = Latest(j) => hushed'[j] = Latest(j)
    <3>1. CASE j = Subject
      BY <1>2, <2>2, <2>3, <2>7, <3>1
    <3>2. CASE j # Subject
      <4>1. hushed'[j] = hushed[j]
        BY <2>2, <3>2
      <4> QED BY <4>1
    <3> QED BY <3>1, <3>2
  <2>10. \A ch \in ChannelSet, j \in Integrations :
           /\ lost[ch][j] <= lost'[ch][j]
           /\ lost[ch][j] <= Latest(j) => lost'[ch][j] <= Latest(j)
    BY <1>6, <2>1
  <2> QED BY <1>2, <2>3, <2>4, <2>5, <2>6, <2>8, <2>9, <2>10, Moved
<1>9. CASE AcceptEvent
  <2>1. pending' = Append(pending, h) /\ hushed' = hushed /\ lost' = lost
    BY <1>9 DEF AcceptEvent, h
  <2>2. Range(pending') = Range(pending) \cup {h}
    <3>1. pending \in Seq(Ids) /\ h \in Ids
      <4>1. queue \in Seq(Ids) /\ queue # <<>>
        BY <1>1 DEF TypeOK, TakesEvent
      <4> QED BY <4>1, Ranges DEF TypeOK, h
    <3> QED BY <2>1, <3>1, Ranges
  <2>3. InHand' \subseteq InHand
    BY <1>2, <2>2 DEF InHand
  <2>4. InLine'
    <3>1. Before(Range(sending) \cup Waiting, Range(pending'))
      BY <1>2, <1>4, <2>2 DEF Before
    <3>2. Before(Range(sending) \cup Waiting \cup Range(pending'), Range(queue'))
      BY <1>2, <1>4, <2>2 DEF Before
    <3> QED BY <1>2, <1>3, <1>4, <3>1, <3>2 DEF InLine, Before
  <2>5. Heard' /\ Quiet'
    BY <1>2, <1>3, <2>1, <2>2 DEF Line, Heard, Quiet
  <2>6. ASSUME NEW ch \in ChannelSet, NEW j \in Integrations,
               \/ Latest(j) \in Range(queue) \cup Range(pending) \cup Waiting
               \/ Latest(j) \in Range(sending) /\ ch \in Range(todo)
        PROVE  OnItsWay(ch, j)'
    BY <1>2, <1>3, <1>5, <2>2, <2>6 DEF OnItsWay
  <2>7. \A ch \in ChannelSet, j \in Integrations :
          /\ lost[ch][j] <= lost'[ch][j]
          /\ lost[ch][j] <= Latest(j) => lost'[ch][j] <= Latest(j)
    BY <1>6, <2>1
  <2> QED BY <1>2, <2>1, <2>3, <2>4, <2>5, <2>6, <2>7, Moved
<1> QED BY <1>7, <1>8, <1>9 DEF Collect

(* The batch goes to the sender's queue, or is dropped. *)
LEMMA FlushLine ==
  ASSUME TypeOK, TypeOK', Line, Flush
  PROVE  Line'
<1>1. /\ UNCHANGED <<at, job, events, queue, hushed, sending, todo, got>>
      /\ pending' = <<>>
      /\ \/ out' = Append(out, pending) /\ lost' = lost
         \/ out' = out /\ Drop(Range(pending), ChannelSet)
  BY DEF Flush, runner
<1>2. pending \in Seq(Ids) /\ Range(pending) \subseteq DOMAIN events
  BY DEF TypeOK, Line, Known, InHand
<1>3. Range(pending') = {}
  BY <1>1 DEF Range
<1>4. /\ Before(Range(sending), Waiting)
      /\ Before(Range(sending) \cup Waiting, Range(pending))
      /\ Before(Range(sending) \cup Waiting \cup Range(pending), Range(queue))
      /\ \A k, l \in DOMAIN out : k < l => Before(Range(out[k]), Range(out[l]))
      /\ \A k, l \in DOMAIN queue : k < l => Before({queue[k]}, {queue[l]})
  BY DEF Line, InLine
<1>5. \A j \in Integrations : Newest(j) /\ Latest(j)' = Latest(j)
  BY <1>1, LatestIs, LatestStays
<1>6. \A ch \in ChannelSet, j \in Integrations :
        /\ lost[ch][j] \in Nat /\ lost'[ch][j] \in Nat /\ Latest(j) \in Nat
        /\ lost[ch][j] <= Latest(j)
  <2>1. \A ch \in ChannelSet, j \in Integrations : lost[ch][j] \in Nat /\ lost'[ch][j] \in Nat
    BY BoundsAssumption DEF TypeOK
  <2> QED BY <1>5, <2>1 DEF Newest, Line, Known
<1>7. CASE out' = Append(out, pending) /\ lost' = lost
  <2>1. /\ Waiting' = Waiting \cup Range(pending)
        /\ \A k, l \in DOMAIN out' : k < l =>
             /\ k \in DOMAIN out /\ out'[k] = out[k]
             /\ (l \in DOMAIN out /\ out'[l] = out[l]) \/ out'[l] = pending
    BY <1>2, <1>7, WaitingAppended
  <2>2. InHand' = Range(queue) \cup Range(sending) \cup Waiting' /\ InHand' \subseteq InHand
    BY <1>1, <1>3, <2>1 DEF InHand, Waiting
  <2>3. InLine'
    <3>1. ASSUME NEW k \in DOMAIN out', NEW l \in DOMAIN out', k < l
          PROVE  Before(Range(out'[k]), Range(out'[l]))
      <4>1. k \in DOMAIN out /\ out'[k] = out[k] /\ Range(out[k]) \subseteq Waiting
        BY <2>1, <3>1 DEF Waiting
      <4>2. CASE l \in DOMAIN out /\ out'[l] = out[l]
        BY <1>4, <3>1, <4>1, <4>2
      <4>3. CASE out'[l] = pending
        BY <1>4, <4>1, <4>3 DEF Before
      <4> QED BY <2>1, <3>1, <4>2, <4>3
    <3>2. Before(Range(sending), Waiting')
      BY <1>4, <2>1 DEF Before
    <3>3. Before(Range(sending) \cup Waiting', Range(queue))
      BY <1>4, <2>1 DEF Before
    <3> QED BY <1>1, <1>3, <1>4, <3>1, <3>2, <3>3 DEF InLine, Before
  <2>4. Heard' /\ Quiet'
    BY <1>1, <1>3, <2>1 DEF Line, Heard, Quiet
  <2>5. ASSUME NEW ch \in ChannelSet, NEW j \in Integrations,
               \/ Latest(j) \in Range(queue) \cup Range(pending) \cup Waiting
               \/ Latest(j) \in Range(sending) /\ ch \in Range(todo)
        PROVE  OnItsWay(ch, j)'
    BY <1>1, <1>5, <2>1, <2>5 DEF OnItsWay
  <2>6. \A ch \in ChannelSet, j \in Integrations :
          /\ lost[ch][j] <= lost'[ch][j]
          /\ lost[ch][j] <= Latest(j) => lost'[ch][j] <= Latest(j)
    BY <1>6, <1>7
  <2> QED BY <1>1, <2>2, <2>3, <2>4, <2>5, <2>6, Moved
<1>8. CASE out' = out /\ Drop(Range(pending), ChannelSet)
  <2>1. \A ch \in ChannelSet, j \in Integrations :
          /\ lost[ch][j] <= lost'[ch][j]
          /\ lost[ch][j] <= Latest(j) => lost'[ch][j] <= Latest(j)
          /\ \A n \in Range(pending) : events[n].of = j => n <= lost'[ch][j]
    BY <1>2, <1>8, Dropped
  <2>2. Waiting' = Waiting /\ InHand' \subseteq InHand
    BY <1>1, <1>3, <1>8 DEF InHand, Waiting
  <2>3. InLine'
    BY <1>1, <1>3, <1>4, <1>8, <2>2 DEF InLine, Before
  <2>4. Heard' /\ Quiet'
    BY <1>1, <1>3, <2>2 DEF Line, Heard, Quiet
  <2>5. ASSUME NEW ch \in ChannelSet, NEW j \in Integrations,
               \/ Latest(j) \in Range(queue) \cup Range(pending) \cup Waiting
               \/ Latest(j) \in Range(sending) /\ ch \in Range(todo)
        PROVE  OnItsWay(ch, j)' \/ Latest(j) = lost'[ch][j]
    <3>1. CASE Latest(j) \in Range(pending)
      <4>1. events[Latest(j)].of = j
        <5>1. 0 \notin DOMAIN events
          <6>1. DOMAIN events = 1..Len(events)
            BY DEF TypeOK
          <6> QED BY <6>1
        <5> QED BY <1>2, <1>5, <3>1, <5>1 DEF Newest
      <4>2. Latest(j) <= lost'[ch][j] /\ lost'[ch][j] <= Latest(j)
        BY <1>6, <2>1, <3>1, <4>1
      <4> QED BY <1>6, <4>2
    <3>2. CASE Latest(j) \notin Range(pending)
      BY <1>1, <1>5, <2>2, <2>5, <3>2 DEF OnItsWay
    <3> QED BY <3>1, <3>2
  <2> QED BY <1>1, <2>1, <2>2, <2>3, <2>4, <2>5, Moved
<1> QED BY <1>1, <1>7, <1>8

(* The sender takes the oldest batch: it is dropped, for all channels or    *)
(* for those that are not configured, or about to be delivered.             *)
LEMMA TakeLine ==
  ASSUME TypeOK, TypeOK', Line, TakeBatch
  PROVE  Line'
<1> DEFINE B == Range(Head(out))
<1>1. /\ UNCHANGED <<at, job, events, queue, pending, hushed, got>>
      /\ todo = <<>> /\ out # <<>> /\ out' = Tail(out)
      /\ \/ sending' = sending /\ todo' = todo /\ Drop(B, ChannelSet)
         \/ /\ todo' \in InOrder(configured) /\ Drop(B, ChannelSet \ configured)
            /\ sending' = IF configured = {} THEN <<>> ELSE Head(out)
  BY DEF TakeBatch, runner, collector
<1>2. /\ Waiting = B \cup Waiting'
      /\ 1 \in DOMAIN out /\ Head(out) = out[1]
      /\ \A k \in DOMAIN out' : k \in Nat /\ k >= 1 /\ k + 1 \in DOMAIN out
                                /\ out'[k] = out[k + 1]
  BY <1>1, WaitingTaken
<1>3. B \subseteq DOMAIN events /\ Waiting \subseteq InHand
  BY <1>2 DEF Line, Known, InHand, Waiting
<1>4. /\ Before(Range(sending), Waiting)
      /\ Before(Range(sending) \cup Waiting, Range(pending))
      /\ Before(Range(sending) \cup Waiting \cup Range(pending), Range(queue))
      /\ \A k, l \in DOMAIN out : k < l => Before(Range(out[k]), Range(out[l]))
      /\ \A k, l \in DOMAIN queue : k < l => Before({queue[k]}, {queue[l]})
  BY DEF Line, InLine
<1>5. \A j \in Integrations : Newest(j) /\ Latest(j)' = Latest(j)
  BY <1>1, LatestIs, LatestStays
<1>6. \A ch \in ChannelSet, j \in Integrations :
        /\ lost[ch][j] \in Nat /\ lost'[ch][j] \in Nat /\ Latest(j) \in Nat
        /\ lost[ch][j] <= Latest(j)
  <2>1. \A ch \in ChannelSet, j \in Integrations : lost[ch][j] \in Nat /\ lost'[ch][j] \in Nat
    BY BoundsAssumption DEF TypeOK
  <2> QED BY <1>5, <2>1 DEF Newest, Line, Known
<1>7. Range(todo) = {}
  BY <1>1 DEF Range
<1>8. Before(B, Waiting')
  <2>1. ASSUME NEW m \in B, NEW n \in Waiting', events[m].of = events[n].of PROVE m < n
    <3>1. PICK k \in DOMAIN out' : n \in Range(out'[k])
      BY DEF Waiting
    <3>2. k + 1 \in DOMAIN out /\ n \in Range(out[k + 1]) /\ 1 < k + 1
      BY <1>2, <3>1
    <3>3. Before(Range(out[1]), Range(out[k + 1]))
      BY <1>2, <1>4, <3>2
    <3> QED BY <1>2, <2>1, <3>2, <3>3 DEF Before
  <2> QED BY <2>1 DEF Before
<1>9. ASSUME NEW k \in DOMAIN out', NEW l \in DOMAIN out', k < l
      PROVE  Before(Range(out'[k]), Range(out'[l]))
  <2>1. /\ k + 1 \in DOMAIN out /\ l + 1 \in DOMAIN out /\ k + 1 < l + 1
        /\ out'[k] = out[k + 1] /\ out'[l] = out[l + 1]
    BY <1>2, <1>9
  <2> QED BY <1>4, <2>1
<1> HIDE DEF B
<1>10. Range(sending') \subseteq Range(sending) \/ Range(sending') \subseteq B
  <2>1. CASE sending' = sending
    BY <2>1
  <2>2. CASE sending' = <<>>
    BY <2>2 DEF Range
  <2>3. CASE sending' = Head(out)
    BY <2>3 DEF B
  <2> QED BY <1>1, <2>1, <2>2, <2>3
<1>11. InHand' \subseteq InHand
  BY <1>1, <1>2, <1>10 DEF InHand, Waiting
<1>12. InLine'
  <2>1. Before(Range(sending'), Waiting')
    BY <1>2, <1>4, <1>8, <1>10 DEF Before
  <2>2. Range(sending') \cup Waiting' \subseteq Range(sending) \cup Waiting
    BY <1>2, <1>10
  <2>3. Before(Range(sending') \cup Waiting', Range(pending))
    BY <1>4, <2>2 DEF Before
  <2>4. Before(Range(sending') \cup Waiting' \cup Range(pending), Range(queue))
    BY <1>4, <2>2 DEF Before
  <2> QED BY <1>1, <1>4, <1>9, <2>1, <2>3, <2>4 DEF InLine, Before
<1>13. Quiet'
  BY <1>1 DEF Line, Quiet
<1>14. ASSUME NEW ch \in ChannelSet, NEW j \in Integrations,
              \/ Latest(j) \in Range(queue) \cup Range(pending) \cup Waiting
              \/ Latest(j) \in Range(sending) /\ ch \in Range(todo),
              Latest(j) \notin B
       PROVE  OnItsWay(ch, j)'
  BY <1>1, <1>2, <1>5, <1>7, <1>14 DEF OnItsWay
<1>15. \A j \in Integrations : Latest(j) \in B => events[Latest(j)].of = j
  <2>1. 0 \notin DOMAIN events
    <3>1. DOMAIN events = 1..Len(events)
      BY DEF TypeOK
    <3> QED BY <3>1
  <2> QED BY <1>3, <1>5, <2>1 DEF Newest
<1>16. CASE sending' = sending /\ todo' = todo /\ Drop(B, ChannelSet)
  <2>1. \A ch \in ChannelSet, j \in Integrations :
          /\ lost[ch][j] <= lost'[ch][j]
          /\ lost[ch][j] <= Latest(j) => lost'[ch][j] <= Latest(j)
          /\ \A n \in B : events[n].of = j => n <= lost'[ch][j]
    BY <1>3, <1>16, Dropped
  <2>2. Heard'
    BY <1>1, <1>2, <1>7, <1>16 DEF Line, Heard
  <2>3. ASSUME NEW ch \in ChannelSet, NEW j \in Integrations, Latest(j) \in B
        PROVE  Latest(j) = lost'[ch][j]
    <3>1. Latest(j) <= lost'[ch][j] /\ lost'[ch][j] <= Latest(j)
      BY <1>6, <1>15, <2>1, <2>3
    <3> QED BY <1>6, <3>1
  <2> QED BY <1>1, <1>11, <1>12, <1>13, <1>14, <2>1, <2>2, <2>3, Moved
<1>17. CASE /\ todo' \in InOrder(configured) /\ Drop(B, ChannelSet \ configured)
            /\ sending' = IF configured = {} THEN <<>> ELSE Head(out)
  <2>1. \A ch \in ChannelSet, j \in Integrations :
          /\ lost[ch][j] <= lost'[ch][j]
          /\ lost[ch][j] <= Latest(j) => lost'[ch][j] <= Latest(j)
          /\ ch \notin configured => \A n \in B : events[n].of = j => n <= lost'[ch][j]
    <3>1. \A ch \in ChannelSet, j \in Integrations :
            /\ lost[ch][j] <= lost'[ch][j]
            /\ lost[ch][j] <= Latest(j) => lost'[ch][j] <= Latest(j)
            /\ ch \in ChannelSet \ configured =>
                 \A n \in B : events[n].of = j => n <= lost'[ch][j]
      BY <1>3, <1>17, Dropped
    <3> QED BY <3>1
  <2>2. Range(todo') = configured
    BY <1>17, InOrderIs DEF TypeOK
  <2>3. configured # {} => Range(sending') = B
    BY <1>17 DEF B
  <2>4. Heard'
    <3>1. ASSUME NEW ch \in ChannelSet, NEW j \in Integrations
          PROVE  \A n \in Waiting \cup Range(pending) \cup Range(queue) :
                   events[n].of = j => got[ch][j] < n
      BY DEF Line, Heard
    <3>2. ASSUME NEW ch \in ChannelSet, NEW j \in Integrations, ch \in configured,
                 NEW n \in Range(sending'), events[n].of = j
          PROVE  got[ch][j] <= n
      <4>1. got[ch][j] < n
        BY <1>2, <2>3, <3>1, <3>2
      <4>2. got[ch][j] \in Int /\ n \in Int
        <5>1. n \in DOMAIN events
          BY <1>3, <2>3, <3>2
        <5>3. DOMAIN events = 1..Len(events) /\ Len(events) \in Nat
          BY DEF TypeOK
        <5>2. got[ch][j] \in 0..MaxEvents
          BY DEF TypeOK
        <5> QED BY <5>1, <5>2, <5>3, BoundsAssumption
      <4> QED BY <4>1, <4>2
    <3> QED BY <1>1, <1>2, <2>2, <3>1, <3>2 DEF Heard
  <2>5. ASSUME NEW ch \in ChannelSet, NEW j \in Integrations, Latest(j) \in B
        PROVE  OnItsWay(ch, j)' \/ Latest(j) = lost'[ch][j]
    <3>1. CASE ch \in configured
      BY <1>5, <2>2, <2>3, <2>5, <3>1 DEF OnItsWay
    <3>2. CASE ch \notin configured
      <4>1. Latest(j) <= lost'[ch][j] /\ lost'[ch][j] <= Latest(j)
        BY <1>6, <1>15, <2>1, <2>5, <3>2
      <4> QED BY <1>6, <4>1
    <3> QED BY <3>1, <3>2
  <2> QED BY <1>1, <1>11, <1>12, <1>13, <1>14, <2>1, <2>4, <2>5, Moved
<1> QED BY <1>1, <1>16, <1>17

(* An attempt to deliver: the channel gets the batch, or loses it, or will  *)
(* be tried again.                                                          *)
LEMMA AttemptLine ==
  ASSUME TypeOK, TypeOK', Line, Attempt
  PROVE  Line'
<1> DEFINE h == Head(todo)
           S == Range(sending)
           Same == todo' = todo /\ sending' = sending
           Onto == todo' = Tail(todo) /\ sending' = IF Len(todo) = 1 THEN <<>> ELSE sending
<1>1. /\ UNCHANGED <<at, job, events, queue, pending, hushed, out>>
      /\ todo # <<>> /\ todo \in Seq(ChannelSet)
      /\ \/ Received /\ lost' = lost /\ (Onto \/ Same)
         \/ got' = got /\ Drop(S, {h}) /\ Onto
         \/ got' = got /\ lost' = lost /\ Same
  BY DEF Attempt, Deliver, DeliverUnknown, AttemptFails, Refused, Attempts, NextChannel,
     RetryOrNext, runner, collector, TypeOK
<1>2. Waiting' = Waiting
  BY <1>1 DEF Waiting
<1>3. Range(todo) = {h} \cup Range(Tail(todo)) /\ h \in ChannelSet
  BY <1>1, Ranges
<1>4. S \subseteq DOMAIN events /\ S \subseteq InHand
  BY DEF Line, Known, InHand
<1>5. \A j \in Integrations : Newest(j) /\ Latest(j)' = Latest(j)
  BY <1>1, LatestIs, LatestStays
<1>6. \A ch \in ChannelSet, j \in Integrations :
        /\ lost[ch][j] \in Nat /\ lost'[ch][j] \in Nat /\ Latest(j) \in Nat
        /\ lost[ch][j] <= Latest(j) /\ got[ch][j] \in Nat /\ got'[ch][j] \in Nat
        /\ got[ch][j] <= Latest(j)
  <2>1. \A ch \in ChannelSet, j \in Integrations :
          /\ lost[ch][j] \in Nat /\ lost'[ch][j] \in Nat
          /\ got[ch][j] \in Nat /\ got'[ch][j] \in Nat
    BY BoundsAssumption DEF TypeOK
  <2> QED BY <1>5, <2>1 DEF Newest, Line, Known
<1>7. S \subseteq Nat
  <2>1. DOMAIN events = 1..Len(events) /\ Len(events) \in Nat
    BY DEF TypeOK
  <2> QED BY <1>4, <2>1
<1>8. /\ Before(S, Waiting)
      /\ Before(S \cup Waiting, Range(pending))
      /\ Before(S \cup Waiting \cup Range(pending), Range(queue))
      /\ \A k, l \in DOMAIN out : k < l => Before(Range(out[k]), Range(out[l]))
      /\ \A k, l \in DOMAIN queue : k < l => Before({queue[k]}, {queue[l]})
  BY DEF Line, InLine
<1> HIDE DEF h, S
(* The sender has still to deliver the batch to the channels after the first. *)
<1>9. /\ Range(sending') \subseteq S
      /\ Range(todo') \subseteq Range(todo)
      /\ \A ch \in Range(todo') : sending' = sending
      /\ \A ch \in Range(todo) : ch # h => ch \in Range(todo')
  <2>1. CASE Same
    BY <2>1 DEF S
  <2>2. CASE Onto
    <3>1. /\ Range(todo') \subseteq Range(todo)
          /\ \A ch \in Range(todo) : ch # h => ch \in Range(todo')
      BY <1>3, <2>2
    <3>2. CASE Len(todo) = 1
      <4>1. todo' = <<>> /\ sending' = <<>>
        BY <1>1, <2>2, <3>2
      <4> QED BY <3>1, <4>1 DEF Range
    <3>3. CASE Len(todo) # 1
      BY <2>2, <3>1, <3>3 DEF S
    <3> QED BY <3>2, <3>3
  <2> QED BY <1>1, <2>1, <2>2
(* What the attempt changes for a channel and an integration. *)
<1>10. ASSUME NEW ch \in ChannelSet, NEW j \in Integrations
       PROVE  /\ \/ got'[ch][j] = got[ch][j]
                 \/ /\ ch = h /\ got'[ch][j] \in S /\ events[got'[ch][j]].of = j
                    /\ \A n \in S : events[n].of = j => n <= got'[ch][j]
              /\ lost[ch][j] <= lost'[ch][j]
              /\ lost[ch][j] <= Latest(j) => lost'[ch][j] <= Latest(j)
              /\ \/ Same
                 \/ ch # h
                 \/ \A n \in S : events[n].of = j => n <= got'[ch][j] \/ n <= lost'[ch][j]
  <2>1. CASE Received /\ lost' = lost
    <3>1. \/ /\ got'[ch][j] = got[ch][j]
             /\ ch = h => \A n \in S : events[n].of # j
          \/ /\ ch = h
             /\ got'[ch][j] \in S /\ events[got'[ch][j]].of = j
             /\ \A n \in S : events[n].of = j => n <= got'[ch][j]
      BY <1>1, <1>4, <2>1, Gotten DEF h, S
    <3>2. lost[ch][j] <= lost'[ch][j]
      BY <1>6, <2>1
    <3>3. lost[ch][j] <= Latest(j) => lost'[ch][j] <= Latest(j)
      BY <2>1
    <3> QED BY <3>1, <3>2, <3>3
  <2>2. CASE got' = got /\ Drop(S, {h})
    <3>1. /\ lost[ch][j] <= lost'[ch][j]
          /\ lost[ch][j] <= Latest(j) => lost'[ch][j] <= Latest(j)
          /\ ch \in {h} => \A n \in S : events[n].of = j => n <= lost'[ch][j]
      BY <1>4, <2>2, Dropped
    <3> QED BY <2>2, <3>1
  <2>3. CASE got' = got /\ lost' = lost /\ Same
    BY <1>6, <2>3
  <2> QED BY <1>1, <2>1, <2>2, <2>3
<1>11. InHand' \subseteq InHand
  BY <1>1, <1>9 DEF InHand, S
<1>12. InLine'
  BY <1>1, <1>2, <1>8, <1>9 DEF InLine, Before
<1>13. Quiet'
  BY <1>1 DEF Line, Quiet
<1>14. Heard'
  <2>1. ASSUME NEW ch \in ChannelSet, NEW j \in Integrations,
               NEW n \in Waiting \cup Range(pending) \cup Range(queue), events[n].of = j
        PROVE  got'[ch][j] < n
    <3>1. CASE got'[ch][j] = got[ch][j]
      BY <2>1, <3>1 DEF Line, Heard
    <3>2. CASE got'[ch][j] \in S /\ events[got'[ch][j]].of = j
      BY <1>8, <2>1, <3>2 DEF Before
    <3> QED BY <1>10, <3>1, <3>2
  <2>2. ASSUME NEW ch \in ChannelSet, NEW j \in Integrations, ch \in Range(todo'),
               NEW n \in Range(sending'), events[n].of = j
        PROVE  \E m \in Range(sending') : events[m].of = j /\ got'[ch][j] <= m
    <3>1. sending' = sending /\ ch \in Range(todo)
      BY <1>9, <2>2
    <3>2. CASE got'[ch][j] = got[ch][j]
      BY <2>2, <3>1, <3>2 DEF Line, Heard
    <3>3. CASE got'[ch][j] \in S /\ events[got'[ch][j]].of = j
      BY <1>6, <3>1, <3>3 DEF S
    <3> QED BY <1>10, <3>2, <3>3
  <2> QED BY <1>1, <1>2, <2>1, <2>2 DEF Heard
<1>15. ASSUME NEW ch \in ChannelSet, NEW j \in Integrations, got[ch][j] = Latest(j)
       PROVE  got'[ch][j] = Latest(j)
  <2>1. CASE got'[ch][j] = got[ch][j]
    BY <1>15, <2>1
  <2>2. CASE /\ ch = h /\ got'[ch][j] \in S /\ events[got'[ch][j]].of = j
             /\ \A n \in S : events[n].of = j => n <= got'[ch][j]
    <3>1. PICK m \in S : events[m].of = j /\ got[ch][j] <= m
      BY <1>3, <2>2 DEF Line, Heard, S
    <3>2. got'[ch][j] <= Latest(j)
      BY <1>4, <1>5, <2>2 DEF Newest
    <3>3. m <= got'[ch][j] /\ m \in Nat
      BY <1>7, <2>2, <3>1
    <3> QED BY <1>6, <1>15, <3>1, <3>2, <3>3
  <2> QED BY <1>10, <2>1, <2>2
<1>16. ASSUME NEW ch \in ChannelSet, NEW j \in Integrations,
              Latest(j) \in S, ch \in Range(todo)
       PROVE  OnItsWay(ch, j)' \/ Latest(j) \in {got'[ch][j], lost'[ch][j]}
  <2>1. CASE ch \in Range(todo')
    <3>1. Latest(j) \in Range(sending')
      BY <1>9, <1>16, <2>1 DEF S
    <3> QED BY <1>5, <2>1, <3>1 DEF OnItsWay
  <2>2. CASE ch \notin Range(todo')
    <3>1. ch = h /\ ~Same
      BY <1>9, <1>16, <2>2
    <3>2. events[Latest(j)].of = j
      <4>1. DOMAIN events = 1..Len(events)
        BY DEF TypeOK
      <4> QED BY <1>4, <1>5, <1>16, <4>1 DEF Newest
    <3>3. Latest(j) <= got'[ch][j] \/ Latest(j) <= lost'[ch][j]
      BY <1>10, <1>16, <3>1, <3>2
    <3>4. lost'[ch][j] <= Latest(j)
      BY <1>6, <1>10
    <3>5. got'[ch][j] <= Latest(j)
      BY <1>4, <1>5, <1>6, <1>10 DEF Newest
    <3> QED BY <1>6, <3>3, <3>4, <3>5
  <2> QED BY <2>1, <2>2
<1>17. ASSUME NEW ch \in ChannelSet, NEW j \in Integrations,
              \/ Latest(j) \in Range(queue) \cup Range(pending) \cup Waiting
              \/ Latest(j) \in Range(sending) /\ ch \in Range(todo)
       PROVE  OnItsWay(ch, j)' \/ Latest(j) \in {got'[ch][j], lost'[ch][j]}
  <2>1. CASE Latest(j) \in Range(queue) \cup Range(pending) \cup Waiting
    BY <1>1, <1>2, <1>5, <2>1 DEF OnItsWay
  <2> QED BY <1>16, <1>17, <2>1 DEF S
<1>18. ASSUME NEW ch \in ChannelSet, NEW j \in Integrations
       PROVE  \/ got'[ch][j] = got[ch][j]
              \/ got'[ch][j] \in InHand /\ events[got'[ch][j]].of = j
  BY <1>4, <1>10
<1> QED BY <1>1, <1>10, <1>11, <1>12, <1>13, <1>14, <1>15, <1>17, <1>18, Moved

(* No step of anybody loses sight of the latest event.                       *)
LEMMA LineStep ==
  ASSUME TypeOK, TypeOK', Locked, Line, [Next]_vars
  PROVE  Line'
<1> DEFINE Kept ==
             /\ UNCHANGED <<events, queue, pending, out, sending, todo, got, lost, hushed>>
             /\ \A c \in Callers : /\ at'[c] = "announce" <=> at[c] = "announce"
                                   /\ at[c] = "announce" => job'[c] = job[c]
<1>1. Kept => Line'
  BY LineStays
<1>2. ASSUME NEW c \in Callers,
             \/ NotConfigured(c) \/ LeaveLoop(c) \/ EndRun(c) \/ InsertEventFails(c)
             \/ RecordStatus(c) \/ Refresh(c) \/ \E i \in Integrations : StartRun(c, i)
      PROVE  Kept
  BY <1>2 DEF NotConfigured, LeaveLoop, EndRun, InsertEventFails, RecordStatus, Refresh,
     StartRun, Goto, TypeOK, notifier, collector, sender
<1>3. CASE \/ Show \/ StopCollect \/ StopSend \/ (\E i \in Integrations : HourPasses(i))
           \/ Configure \/ Stop \/ UNCHANGED vars
  <2>1. Kept
    BY <1>3 DEF Show, StopCollect, StopSend, HourPasses, Configure, Stop, vars, runner,
       notifier, collector, sender
  <2> QED BY <1>1, <2>1
<1> HIDE DEF Kept
<1> QED BY <1>1, <1>2, <1>3, InsertLine, AnnounceLine, CollectLine, FlushLine, TakeLine,
           AttemptLine DEF Next, Work, Record

-----------------------------------------------------------------------------
(* The theorems *)

(* Nobody runs an integration, and no event is in line. *)
LEMMA Initially == Init => IInv
<1> SUFFICES ASSUME Init PROVE IInv
  OBVIOUS
<1>1. TypeOK
  BY TypeInit
<1>2. \A c \in Callers : at[c] = "idle"
  BY DEF Init
<1>3. \A i \in Integrations : Latest(i) = 0
  <2>1. ASSUME NEW i \in Integrations PROVE Latest(i) = 0
    <3>1. Newest(i) /\ DOMAIN events = {}
      BY <1>1, LatestIs DEF Init
    <3> QED BY <3>1 DEF Newest
  <2> QED BY <2>1
<1>4. Room
  <2>1. {c \in Callers : at[c] = "insert"} = {} /\ Len(events) = 0
    BY <1>2 DEF Init
  <2> QED BY <2>1, FS_EmptySet, BoundsAssumption DEF Room, Owed
<1>5. /\ Range(queue) = {} /\ Range(pending) = {} /\ Range(sending) = {} /\ Waiting = {}
      /\ DOMAIN out = {} /\ DOMAIN queue = {}
  BY DEF Init, Range, Waiting
<1>6. InHand = {}
  BY <1>5 DEF InHand, Waiting
<1>7. /\ \A i \in Integrations : hushed[i] = 0
      /\ \A ch \in ChannelSet, i \in Integrations : got[ch][i] = 0 /\ lost[ch][i] = 0
  BY DEF Init
<1>8. Runner
  BY <1>2, <1>3, <1>4 DEF Runner, Locked, Busy, Held, Logged, Owing, Agrees, SaysFailing,
     OneEventPerOutage, Init
<1>9. Known /\ Fresh /\ Accounted
  BY <1>2, <1>3, <1>6, <1>7 DEF Known, Fresh, Accounted
<1>10. InLine /\ Heard /\ Quiet
  BY <1>5 DEF InLine, Before, Heard, Quiet
<1> QED BY <1>1, <1>8, <1>9, <1>10 DEF IInv, Line

(* The inductive invariant. *)
THEOREM Invariant == Spec => []IInv
<1>1. ASSUME IInv, [Next]_vars PROVE IInv'
  <2>1. TypeOK'
    BY <1>1, TypeStep DEF IInv, Runner, Line
  <2>2. Runner'
    BY <1>1, <2>1, LockedStep, HeldStep, RoomStep, OneEventStep DEF IInv, Runner
  <2>3. Line'
    BY <1>1, <2>1, LineStep DEF IInv, Runner
  <2> QED BY <2>1, <2>2, <2>3 DEF IInv
<1>2. IInv /\ [Next]_vars => IInv'
  BY <1>1
<1> QED BY Initially, <1>2, PTL DEF Spec

(* Every variable keeps its type; in particular the notifier's queues and a *)
(* page's channel never hold more than their capacity.                      *)
THEOREM TypeCorrect == Spec => []TypeOK
<1>1. IInv => TypeOK
  BY DEF IInv
<1> QED BY Invariant, <1>1, PTL

(* recordStatus writes one event when an outage starts and one when it      *)
(* ends: the rows of an integration alternate, but for rows that failed to  *)
(* be written, however runs by the loop and by requests interleave.         *)
THEOREM OutagesAreLogged == Spec => []OneEventPerOutage
<1>1. IInv => OneEventPerOutage
  BY DEF IInv, Runner
<1> QED BY Invariant, <1>1, PTL

(* While a dashboard shows an old status row, Broker.Publish has left it a  *)
(* message or is about to, although a full channel loses messages.          *)
THEOREM PagesCatchUp == Spec => []PageIsOwed
<1>1. Init => PageIsOwed
  BY DEF Init, PageIsOwed
<1>2. TypeOK /\ PageIsOwed /\ [Next]_vars => PageIsOwed'
  BY PageStep
<1> QED BY TypeCorrect, <1>1, <1>2, PTL DEF Spec

(* Once the notifier has nothing left, the last a channel got of an         *)
(* integration is its latest event, unless that one is known to be dropped  *)
(* or hushed: whatever the queue lengths, the batches, the retries, the     *)
(* failures and the changes of the settings were.                           *)
THEOREM NewsArrives == Spec => []NewsIsCurrent
<1>1. IInv => NewsIsCurrent
  <2> SUFFICES ASSUME IInv, Settled, NEW ch \in ChannelSet, NEW i \in Integrations
               PROVE  Latest(i) \in {got[ch][i], lost[ch][i], hushed[i]}
    BY DEF NewsIsCurrent
  <2>1. Range(queue) = {} /\ Range(pending) = {} /\ Range(sending) = {} /\ Waiting = {}
    BY DEF Settled, Range, Waiting
  <2>2. ~OnItsWay(ch, i)
    BY <2>1 DEF Settled, OnItsWay
  <2>3. CASE Latest(i) = 0
    <3>1. lost[ch][i] <= Latest(i) /\ lost[ch][i] \in Nat
      BY BoundsAssumption DEF IInv, Line, Known, TypeOK
    <3> QED BY <2>3, <3>1
  <2>4. CASE Latest(i) # 0
    BY <2>2, <2>4 DEF IInv, Line, Accounted
  <2> QED BY <2>3, <2>4
<1> QED BY Invariant, <1>1, PTL
=============================================================================
