------------------------------- MODULE Alerts -------------------------------
(***************************************************************************)
(* From an integration's outage to the people who should hear of it.  The  *)
(* runner runs an integration from its loop and from Run now clicks, keeps *)
(* whether it is failing in memory, and records each run: an event when an *)
(* outage starts or ends (event row, live pages, notifier, in that order), *)
(* the status row, and a refresh of the live pages.  The broker drops      *)
(* messages for a page that does not keep up.  The notifier filters        *)
(* events, collects them into batches and sends each batch with retries,   *)
(* over bounded queues that drop rather than wait.                         *)
(*                                                                         *)
(* Kept: who holds an integration's lock, the order of the writes, every   *)
(* bounded channel and what is dropped when it is full, the quiet period   *)
(* of repeated errors, settings read when an event is accepted and again   *)
(* when a batch is sent, failing reads and writes, shutdown.  Left out:    *)
(* events about devices (accept drops offline and online events of devices *)
(* without an alert), texts, and the integrations' own work, which is one  *)
(* step that ends well or badly.  An error's text names its integration    *)
(* and a category; the model has one category.                             *)
(***************************************************************************)
EXTENDS Integers, FiniteSets, Sequences, SequencesExt

CONSTANTS
  Integrations, \* each has a loop that runs it
  Clickers,     \* requests that run an integration now
  Channels,     \* <<"webhook", "ntfy">>, in the order deliver tries them
  QueueCap,     \* events waiting to be filtered: 256
  OutCap,       \* batches waiting for the sender: 4
  MailCap,      \* messages waiting for a live page: 16
  Retries,      \* attempts after the first: 2
  MaxEvents,    \* bound: events recorded
  Mishaps       \* bound: failing reads and writes, changes of the settings

ASSUME CapsAssumption ==
  /\ QueueCap \in Nat \ {0} /\ OutCap \in Nat \ {0} /\ MailCap \in Nat \ {0}
  /\ Retries \in Nat
ASSUME BoundsAssumption == MaxEvents \in Nat /\ Mishaps \in Nat
ASSUME CallersAssumption == Integrations # {} /\ Integrations \cap Clickers = {}
ASSUME ChannelsAssumption == Channels \in Seq(Range(Channels)) /\ IsInjective(Channels)

VARIABLES
  at,          \* [Callers -> Steps]: what a caller of Run does next
  job,         \* [Callers -> Integrations]: the integration it runs
  failed,      \* [Callers -> BOOLEAN]: its run ended with an error
  failing,     \* [Integrations -> BOOLEAN]: integration.failing
  status,      \* [Integrations -> Statuses]: the integration_status row
  events,      \* the event table: rows [of, kind], an id is a position
  mailbox,     \* messages in the broker's channel of an open dashboard
  current,     \* BOOLEAN: that dashboard shows the status rows as they are
  queue,       \* Notifier.queue: a sequence of event ids
  pending,     \* the batch being collected
  flush,       \* BOOLEAN: the batch timer is set
  out,         \* Notifier.out: a sequence of batches
  sending,     \* the batch being delivered
  todo,        \* the channels it has yet to be delivered to
  attempt,     \* 0..Retries: retries spent on the first of them
  recent,      \* integrations with an error accepted within repeatQuiet: lastError
  configured,  \* SUBSET of the channels: the notification settings
  running,     \* BOOLEANs: collect and sendLoop have not returned
  stop,        \* BOOLEAN: the context is cancelled
  budget,      \* mishaps left
  unlogged,    \* history: integrations with an odd number of events since their last
               \* row whose row failed to be written
  skipped,     \* history: the rows before which an odd number of rows failed
  got,         \* history: [channel -> [Integrations -> last event received]]
  lost,        \* history: [channel -> [Integrations -> last event dropped]]
  hushed       \* history: [Integrations -> last event the quiet period dropped]

runner == <<at, job, failed, failing, status, unlogged, skipped>>
page == <<mailbox, current>>
collector == <<queue, pending, flush, recent, hushed>>
sender == <<out, sending, todo, attempt, got>>
world == <<configured, stop, budget>>
notifier == <<collector, sender, lost, running>>
vars == <<runner, events, page, notifier, world>>

Callers == Integrations \cup Clickers
Steps == {"idle", "syncing", "insert", "announce", "record", "refresh", "gone"}
Statuses == {"none", "ok", "error"}
Ids == 1..MaxEvents
ChannelSet == Range(Channels)

TypeOK ==
  /\ at \in [Callers -> Steps]
  /\ job \in [Callers -> Integrations]
  /\ failed \in [Callers -> BOOLEAN]
  /\ failing \in [Integrations -> BOOLEAN]
  /\ status \in [Integrations -> Statuses]
  /\ events \in Seq([of : Integrations, kind : {"error", "recovered"}])
  /\ Len(events) <= MaxEvents
  /\ mailbox \in 0..MailCap
  /\ current \in BOOLEAN
  /\ queue \in Seq(Ids) /\ Len(queue) <= QueueCap
  /\ pending \in Seq(Ids)
  /\ flush \in BOOLEAN
  /\ out \in Seq(Seq(Ids)) /\ Len(out) <= OutCap
  /\ sending \in Seq(Ids)
  /\ todo \in Seq(ChannelSet)
  /\ attempt \in 0..Retries
  /\ recent \in SUBSET Integrations
  /\ configured \in SUBSET ChannelSet
  /\ running \in [{"collect", "send"} -> BOOLEAN]
  /\ stop \in BOOLEAN
  /\ budget \in 0..Mishaps
  /\ unlogged \in SUBSET Integrations
  /\ skipped \in SUBSET Ids
  /\ got \in [ChannelSet -> [Integrations -> 0..MaxEvents]]
  /\ lost \in [ChannelSet -> [Integrations -> 0..MaxEvents]]
  /\ hushed \in [Integrations -> 0..MaxEvents]

Init ==
  /\ at = [c \in Callers |-> "idle"]
  /\ job \in [Callers -> Integrations]
  /\ \A i \in Integrations : job[i] = i
  /\ failed = [c \in Callers |-> FALSE]
  /\ failing = [i \in Integrations |-> FALSE]
  /\ status = [i \in Integrations |-> "none"]
  /\ events = <<>>
  /\ mailbox = 0
  /\ current = TRUE
  /\ queue = <<>> /\ pending = <<>> /\ flush = FALSE
  /\ out = <<>> /\ sending = <<>> /\ todo = <<>> /\ attempt = 0
  /\ recent = {}
  /\ configured \in SUBSET ChannelSet
  /\ running = [r \in {"collect", "send"} |-> TRUE]
  /\ stop = FALSE
  /\ budget = Mishaps
  /\ unlogged = {} /\ skipped = {}
  /\ got = [ch \in ChannelSet |-> [i \in Integrations |-> 0]]
  /\ lost = got
  /\ hushed = [i \in Integrations |-> 0]

Mishap ==
  /\ budget > 0
  /\ budget' = budget - 1

(* A read of the settings fails: the database, or the cancelled context. *)
Unreadable ==
  /\ \/ Mishap
     \/ stop /\ UNCHANGED budget
  /\ UNCHANGED <<configured, stop>>

-----------------------------------------------------------------------------
(* Broker.Publish, with mu held throughout: a full channel loses the message. *)
(* The dashboard fetches its content again on either topic.                  *)

Publish == mailbox' = IF mailbox < MailCap THEN mailbox + 1 ELSE mailbox

-----------------------------------------------------------------------------
(* The runner. *)

Goto(c, step) == at' = [at EXCEPT ![c] = step]

(* in.mu is held from the run to the refresh. *)
Free(i) == \A c \in Callers : at[c] \in {"idle", "gone"} \/ job[c] # i

(* Run takes the lock or returns ErrIntegrationBusy.  The loop may run once *)
(* more after the context is cancelled: both cases of its select are ready. *)
StartRun(c, i) ==
  /\ at[c] = "idle" /\ Free(i)
  /\ c \in Integrations => c = i
  /\ c \in Clickers => ~stop
  /\ job' = [job EXCEPT ![c] = i]
  /\ Goto(c, "syncing")
  /\ UNCHANGED <<failed, failing, status, unlogged, skipped, events, page, notifier, world>>

NotConfigured(c) ==
  /\ at[c] = "syncing"
  /\ Goto(c, "idle")
  /\ UNCHANGED <<job, failed, failing, status, unlogged, skipped, events, page, notifier,
                 world>>

(* Event rows still to be written by runs under way, for the bound. *)
Owed == Cardinality({c \in Callers : at[c] = "insert"})

(* Mutant of EndRun: an event for every run that fails, not for the first. *)
EndRunRepeats(c) ==
  LET i == job[c] IN
  /\ at[c] = "syncing"
  /\ \E bad \in BOOLEAN :
       /\ failed' = [failed EXCEPT ![c] = bad]
       /\ failing' = [failing EXCEPT ![i] = bad]
       /\ IF bad \/ failing[i]
          THEN Len(events) + Owed < MaxEvents /\ Goto(c, "insert")
          ELSE Goto(c, "record")
  /\ UNCHANGED <<job, status, unlogged, skipped, events, page, notifier, world>>

(* The run ended; an outage that starts or ends has an event of its own. *)
EndRun(c) ==
  LET i == job[c] IN
  /\ at[c] = "syncing"
  /\ \E bad \in BOOLEAN :
       /\ failed' = [failed EXCEPT ![c] = bad]
       /\ failing' = [failing EXCEPT ![i] = bad]
       /\ IF bad # failing[i]
          THEN Len(events) + Owed < MaxEvents /\ Goto(c, "insert")
          ELSE Goto(c, "record")
  /\ UNCHANGED <<job, status, unlogged, skipped, events, page, notifier, world>>

InsertEvent(c) ==
  LET i == job[c] IN
  /\ at[c] = "insert"
  /\ events' = Append(events, [of |-> i, kind |-> IF failed[c] THEN "error" ELSE "recovered"])
  /\ unlogged' = unlogged \ {i}
  /\ skipped' = IF i \in unlogged THEN skipped \cup {Len(events) + 1} ELSE skipped
  /\ Goto(c, "announce")
  /\ UNCHANGED <<job, failed, failing, status, page, notifier, world>>

(* AddEvent fails: Emit returns, and nobody is told. *)
InsertEventFails(c) ==
  /\ at[c] = "insert"
  /\ Mishap
  /\ unlogged' = SymDiff(unlogged, {job[c]})
  /\ Goto(c, "record")
  /\ UNCHANGED <<job, failed, failing, status, skipped, events, page, notifier,
                 configured, stop>>

(* The event the caller emitted: its lock keeps others of i out. *)
Latest(i) == Max({0} \cup {n \in DOMAIN events : events[n].of = i})

Drop(ids, channels) ==
  lost' = [ch \in ChannelSet |-> [i \in Integrations |->
             IF ch \in channels
             THEN Max({lost[ch][i]} \cup {n \in ids : events[n].of = i})
             ELSE lost[ch][i]]]

(* Mutants of Announce: the queue is not bounded; the caller waits for room. *)
AnnounceUnbounded(c) ==
  /\ at[c] = "announce"
  /\ Publish
  /\ queue' = Append(queue, Latest(job[c]))
  /\ Goto(c, "record")
  /\ UNCHANGED <<job, failed, failing, status, unlogged, skipped, events, current,
                 pending, flush, recent, hushed, sender, lost, running, world>>

AnnounceWaits(c) ==
  /\ Len(queue) < QueueCap
  /\ AnnounceUnbounded(c)

(* Emit goes on: the pages, then Notifier.Notify, which never waits.  No   *)
(* other goroutine sees both the mailbox and the queue: one step.           *)
Announce(c) ==
  LET n == Latest(job[c]) IN
  /\ at[c] = "announce"
  /\ Publish
  /\ IF Len(queue) < QueueCap
     THEN queue' = Append(queue, n) /\ UNCHANGED lost
     ELSE Drop({n}, ChannelSet) /\ UNCHANGED queue
  /\ Goto(c, "record")
  /\ UNCHANGED <<job, failed, failing, status, unlogged, skipped, events, current,
                 pending, flush, recent, hushed, sender, running, world>>

(* SetIntegrationStatus, whose failure is only logged. *)
RecordStatus(c) ==
  LET i == job[c]
      row == IF failed[c] THEN "error" ELSE "ok" IN
  /\ at[c] = "record"
  /\ \/ /\ status' = [status EXCEPT ![i] = row]
        /\ current' = (current /\ row = status[i])
        /\ UNCHANGED world
     \/ /\ Mishap
        /\ UNCHANGED <<status, current, configured, stop>>
  /\ Goto(c, "refresh")
  /\ UNCHANGED <<job, failed, failing, unlogged, skipped, events, mailbox, notifier>>

(* Mutant of Refresh: the pages are not told of the new status row. *)
RefreshNobody(c) ==
  /\ at[c] = "refresh"
  /\ Goto(c, "idle")
  /\ failed' = [failed EXCEPT ![c] = FALSE]
  /\ UNCHANGED <<job, failing, status, unlogged, skipped, events, page, notifier, world>>

Refresh(c) ==
  /\ at[c] = "refresh"
  /\ Publish
  /\ Goto(c, "idle")
  /\ failed' = [failed EXCEPT ![c] = FALSE]
  /\ UNCHANGED <<job, failing, status, unlogged, skipped, events, current, notifier, world>>

LeaveLoop(c) ==
  /\ c \in Integrations /\ at[c] = "idle" /\ stop
  /\ Goto(c, "gone")
  /\ UNCHANGED <<job, failed, failing, status, unlogged, skipped, events, page, notifier,
                 world>>

-----------------------------------------------------------------------------
(* The stream's handler passes a message on, and the dashboard fetches. *)
Show ==
  /\ mailbox > 0
  /\ mailbox' = mailbox - 1
  /\ current' = TRUE
  /\ UNCHANGED <<runner, events, notifier, world>>

-----------------------------------------------------------------------------
(* Notifier.collect: takes the next event, or sends the batch off. *)

Subject == events[Head(queue)].of
IsError == events[Head(queue)].kind = "error"

TakesEvent ==
  /\ running.collect /\ queue # <<>>
  /\ queue' = Tail(queue)
  /\ UNCHANGED <<runner, events, page, sender, running>>

(* accept: the settings cannot be read or switch such events off, or name   *)
(* no channel.                                                              *)
IgnoreEvent ==
  /\ TakesEvent
  /\ \/ Unreadable
     \/ configured = {} /\ UNCHANGED world
  /\ Drop({Head(queue)}, ChannelSet)
  /\ UNCHANGED <<pending, flush, recent, hushed>>

(* accept: the same error was accepted less than repeatQuiet ago. *)
HushEvent ==
  /\ TakesEvent
  /\ configured # {} /\ IsError /\ Subject \in recent
  /\ hushed' = [hushed EXCEPT ![Subject] = Head(queue)]
  /\ UNCHANGED <<pending, flush, recent, lost, world>>

AcceptEvent ==
  /\ TakesEvent
  /\ configured # {} /\ (IsError => Subject \notin recent)
  /\ recent' = IF IsError THEN recent \cup {Subject} ELSE recent
  /\ pending' = Append(pending, Head(queue))
  /\ flush' = TRUE
  /\ UNCHANGED <<hushed, lost, world>>

(* repeatQuiet passes; an event's wait in the queue is nothing against it. *)
HourPasses(i) ==
  /\ i \in recent /\ queue = <<>>
  /\ recent' = recent \ {i}
  /\ UNCHANGED <<runner, events, page, queue, pending, flush, hushed, sender, lost,
                 running, world>>

(* Mutant of Flush: only the oldest event of the batch goes out. *)
FlushOldest ==
  /\ running.collect /\ flush
  /\ flush' = FALSE
  /\ pending' = <<>>
  /\ IF Len(out) < OutCap
     THEN out' = Append(out, <<Head(pending)>>) /\ UNCHANGED lost
     ELSE Drop(Range(pending), ChannelSet) /\ UNCHANGED out
  /\ UNCHANGED <<runner, events, page, queue, recent, hushed, sending, todo,
                 attempt, got, running, world>>

Flush ==
  /\ running.collect /\ flush
  /\ flush' = FALSE
  /\ pending' = <<>>
  /\ IF Len(out) < OutCap
     THEN out' = Append(out, pending) /\ UNCHANGED lost
     ELSE Drop(Range(pending), ChannelSet) /\ UNCHANGED out
  /\ UNCHANGED <<runner, events, page, queue, recent, hushed, sending, todo,
                 attempt, got, running, world>>

StopCollect ==
  /\ stop /\ running.collect
  /\ running' = [running EXCEPT !.collect = FALSE]
  /\ UNCHANGED <<runner, events, page, collector, sender, lost, world>>

-----------------------------------------------------------------------------
(* Notifier.sendLoop, sender.deliver and retry. *)

(* deliver's list: the channels of S, in the order it tries them. *)
InOrder(S) ==
  LET Turn(ch) == CHOOSE k \in DOMAIN Channels : Channels[k] = ch
  IN {s \in SeqOf(S, Len(Channels)) :
        /\ S \subseteq Range(s)
        /\ \A i, j \in DOMAIN s : i < j => Turn(s[i]) < Turn(s[j])}

TakeBatch ==
  /\ running.send /\ todo = <<>> /\ out # <<>>
  /\ out' = Tail(out)
  /\ \/ /\ Unreadable
        /\ Drop(Range(Head(out)), ChannelSet)
        /\ UNCHANGED <<sending, todo>>
     \/ /\ todo' \in InOrder(configured)
        /\ sending' = IF configured = {} THEN <<>> ELSE Head(out)
        /\ Drop(Range(Head(out)), ChannelSet \ configured)
        /\ UNCHANGED world
  /\ UNCHANGED <<runner, events, page, collector, attempt, got, running>>

NextChannel ==
  /\ todo' = Tail(todo)
  /\ sending' = IF Len(todo) = 1 THEN <<>> ELSE sending
  /\ attempt' = 0

(* A failed attempt is repeated after a pause, a shutdown ends the pause. *)
RetryOrNext ==
  IF attempt < Retries /\ ~stop
  THEN attempt' = attempt + 1 /\ UNCHANGED <<sending, todo>>
  ELSE NextChannel

Received ==
  LET ch == Head(todo) IN
  got' = [got EXCEPT ![ch] = [i \in Integrations |->
            LET ids == {n \in Range(sending) : events[n].of = i}
            IN IF ids = {} THEN got[ch][i] ELSE Max(ids)]]

Attempts ==
  /\ running.send /\ todo # <<>>
  /\ UNCHANGED <<runner, events, page, collector, out, running, world>>

Deliver ==
  /\ Attempts
  /\ Received /\ NextChannel
  /\ UNCHANGED lost

(* The channel has the message, but the answer is lost or too late. *)
DeliverUnknown ==
  /\ Attempts
  /\ Received /\ RetryOrNext
  /\ UNCHANGED lost

AttemptFails ==
  /\ Attempts
  /\ RetryOrNext
  /\ IF attempt < Retries /\ ~stop
     THEN UNCHANGED lost
     ELSE Drop(Range(sending), {Head(todo)})
  /\ UNCHANGED got

(* A 4xx other than 429. *)
Refused ==
  /\ Attempts
  /\ NextChannel
  /\ Drop(Range(sending), {Head(todo)})
  /\ UNCHANGED got

StopSend ==
  /\ stop /\ running.send /\ todo = <<>>
  /\ running' = [running EXCEPT !.send = FALSE]
  /\ UNCHANGED <<runner, events, page, collector, sender, lost, world>>

-----------------------------------------------------------------------------
(* The surroundings. *)

Configure ==
  /\ ~stop /\ Mishap
  /\ configured' \in SUBSET ChannelSet
  /\ UNCHANGED <<stop, runner, events, page, notifier>>

Stop ==
  /\ ~stop
  /\ stop' = TRUE
  /\ UNCHANGED <<configured, budget, runner, events, page, notifier>>

-----------------------------------------------------------------------------

Record(c) ==
  \/ InsertEvent(c) \/ InsertEventFails(c) \/ Announce(c)
  \/ RecordStatus(c) \/ Refresh(c)
Work(c) == NotConfigured(c) \/ EndRun(c) \/ Record(c)
Collect == IgnoreEvent \/ HushEvent \/ AcceptEvent
Attempt == Deliver \/ DeliverUnknown \/ AttemptFails \/ Refused

Next ==
  \/ \E c \in Callers : Work(c) \/ LeaveLoop(c)
  \/ \E c \in Callers, i \in Integrations : StartRun(c, i)
  \/ Show
  \/ Collect \/ Flush \/ StopCollect
  \/ TakeBatch \/ Attempt \/ StopSend
  \/ \E i \in Integrations : HourPasses(i)
  \/ Configure \/ Stop

(* A run ends by its deadline, an attempt to deliver by its timeout; the     *)
(* batch timer fires.  A loop whose select finds   *)
(* both the tick and the cancelled context ready picks one at random, so it   *)
(* leaves in the end: strong fairness.                                        *)
Fairness ==
  /\ \A c \in Callers : WF_vars(Work(c))
  /\ \A i \in Integrations : SF_vars(LeaveLoop(i))
  /\ WF_vars(Collect) /\ WF_vars(Flush) /\ WF_vars(StopCollect)
  /\ WF_vars(TakeBatch \/ Attempt) /\ WF_vars(StopSend)

Spec == Init /\ [][Next]_vars /\ Fairness

-----------------------------------------------------------------------------
(* Properties. *)

(* The event row before n about the same integration, 0 if there is none. *)
Previous(n) == Max({0} \cup {m \in 1..(n - 1) : events[m].of = events[n].of})

SaysFailing(n) == n # 0 /\ events[n].kind = "error"

(* recordStatus raises one scan_error event per outage and a sync_recovered  *)
(* event when it ends (main.go:105): an integration's event rows are an      *)
(* error and a recovery by turns, the first an error, except that a row      *)
(* after an odd number of rows that failed to be written says again what the *)
(* one before it said; and outside of a run the last row says whether the    *)
(* integration is failing, unless an odd number failed since.                *)
OneEventPerOutage ==
  /\ \A n \in DOMAIN events :
       (SaysFailing(n) <=> SaysFailing(Previous(n))) <=> n \in skipped
  /\ \A i \in Integrations :
       (\A c \in Callers : at[c] = "insert" => job[c] # i)
         => ((failing[i] <=> SaysFailing(Latest(i))) <=> i \notin unlogged)

(* A dashboard whose channel overflowed still comes to show the current      *)
(* status: while it shows another one, a message waits for it or a refresh   *)
(* is about to be published.                                                 *)
PageIsOwed ==
  current \/ mailbox > 0 \/ \E c \in Callers : at[c] = "refresh"

Settled ==
  /\ \A c \in Callers : at[c] \notin {"insert", "announce"}
  /\ queue = <<>> /\ pending = <<>> /\ out = <<>> /\ sending = <<>>

(* Once the notifier has nothing left, the last an integration's channel     *)
(* heard of it is its latest event: retries, batches and drops of others     *)
(* never put an older one after it.  The exceptions are the drops the code   *)
(* announces and the quiet period.                                           *)
NewsIsCurrent ==
  Settled => \A ch \in ChannelSet, i \in Integrations :
    Latest(i) \in {got[ch][i], lost[ch][i], hushed[i]}

(* config.go:41 promises "an integration starting to fail, and its           *)
(* recovery": once the notifier has nothing left, and nothing was dropped    *)
(* for want of room, settings or an answer, a channel last heard that an     *)
(* integration fails exactly if it does.                                     *)
OutageIsTold ==
  Settled /\ unlogged = {} =>
    \A ch \in ChannelSet, i \in Integrations :
      lost[ch][i] = 0 =>
        (failing[i] <=> got[ch][i] # 0 /\ events[got[ch][i]].kind = "error")

InHand == Range(queue) \cup Range(pending) \cup Range(sending)
            \cup UNION {Range(out[k]) : k \in DOMAIN out}

Returned ==
  /\ \A i \in Integrations : at[i] = "gone"
  /\ \A c \in Clickers : at[c] = "idle"
  /\ ~running.collect /\ ~running.send

(* However the channels fail, no event waits forever in the notifier         *)
(* (notifier.go:39-42): it is delivered or dropped.  And a shutdown ends,    *)
(* whatever the queues hold (main.go:468-472): the loops leave, runs under   *)
(* way record their outcome, and the notifier returns.                       *)
ComesToRest ==
  (stop \/ InHand # {}) ~> IF stop THEN Returned ELSE InHand = {}
=============================================================================
