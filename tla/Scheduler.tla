----------------------------- MODULE Scheduler -----------------------------
(***************************************************************************)
(* The scan scheduler (internal/scan/scheduler.go): one loop goroutine     *)
(* that takes manual requests from the trigger channel and starts the      *)
(* periodic scans on a tick, one goroutine per scan, the semaphore that    *)
(* bounds how many sweep at once, and the shutdown in main.go that waits   *)
(* for the scans before it closes the database.                            *)
(*                                                                         *)
(* A step is one critical section of mu, one channel operation or one      *)
(* database statement.  What a sweep does to the inventory is Sweep's      *)
(* subject; here it is a goroutine that now and then writes.  Time is      *)
(* abstract: a subnet is due once its interval has passed since lastRun.   *)
(***************************************************************************)
EXTENDS Naturals, Sequences, FiniteSets

CONSTANTS
  Subnets,      \* subnet ids
  Goroutines,   \* identities for the scan goroutines
  MaxParallel,  \* maxParallelScans
  QueueCap      \* capacity of the trigger channel

ASSUME SubnetsAssumption == IsFiniteSet(Subnets) /\ Subnets # {}
ASSUME LimitsAssumption == MaxParallel \in Nat \ {0} /\ QueueCap \in Nat \ {0}

VARIABLES
  subnet,     \* [Subnets -> its row: see Rows]
  trigger,    \* the trigger channel
  queued,     \* Scheduler.queued
  running,    \* Scheduler.running
  due,        \* subnets whose interval has passed since lastRun
  loopAt,     \* where the loop goroutine is
  current,    \* the subnet it is dealing with
  todo,       \* the subnets of the tick it has not looked at yet
  scanAt,     \* [Goroutines -> where a scan goroutine is, "none" before wg.Add]
  scanOf,     \* [Goroutines -> its subnet]
  mainAt,     \* main: "serving", "waiting" in sched.Wait, "closed"
  owed        \* history: accepted triggers no scan has started for yet

marks == <<queued, running, due>>
loop == <<loopAt, current, todo>>
scans == <<scanAt, scanOf>>
vars == <<subnet, trigger, queued, running, due, loopAt, current, todo,
          scanAt, scanOf, mainAt, owed>>

(* A subnet row: none, automatic scan off or on, or kind wireguard (never swept). *)
Rows == {"absent", "manual", "auto", "wireguard"}

LoopSteps == {"select", "unqueue", "load", "start", "tick", "startDue", "spawn", "spawnDue", "exited"}
Sweeping == {"sweep", "write"}
Holding == Sweeping \cup {"release"}
Scanning == {"acquire"} \cup Holding \cup {"unmark"}
ScanSteps == {"none"} \cup Scanning

(* The context every goroutine runs under is cancelled when main leaves serving. *)
Cancelled == mainAt # "serving"

TypeOK ==
  /\ subnet \in [Subnets -> Rows]
  /\ trigger \in Seq(Subnets) /\ Len(trigger) <= QueueCap
  /\ queued \subseteq Subnets
  /\ running \subseteq Subnets
  /\ due \subseteq Subnets
  /\ loopAt \in LoopSteps
  /\ current \in Subnets
  /\ todo \subseteq Subnets
  /\ scanAt \in [Goroutines -> ScanSteps]
  /\ scanOf \in [Goroutines -> Subnets]
  /\ mainAt \in {"serving", "waiting", "closed"}
  /\ owed \subseteq Subnets

AnySubnet == CHOOSE s \in Subnets : TRUE

Init ==
  /\ subnet \in [Subnets -> Rows]
  /\ trigger = <<>>
  /\ queued = {} /\ running = {} /\ due = Subnets /\ owed = {} /\ todo = {}
  /\ loopAt = "select"
  /\ current = AnySubnet
  /\ scanAt = [g \in Goroutines |-> "none"]
  /\ scanOf = [g \in Goroutines |-> AnySubnet]
  /\ mainAt = "serving"

-----------------------------------------------------------------------------
(* Requests and edits from the web server, and the clock *)

Accept(s) ==
  /\ trigger' = Append(trigger, s)
  /\ queued' = queued \cup {s}
  /\ owed' = owed \cup {s}
  /\ UNCHANGED <<subnet, running, due, loop, scans, mainAt>>

(* Mutants: a click during a sweep accepted, a repeat click accepted, and an
   unbounded queue. *)
TriggerWhileRunning(s) == s \notin queued /\ Len(trigger) < QueueCap /\ Accept(s)
TriggerTwice(s) == s \notin running /\ Len(trigger) < QueueCap /\ Accept(s)
TriggerAlways(s) == s \notin running /\ Len(trigger) <= QueueCap /\ Accept(s)

(* Trigger: refused when the subnet is queued or running or the channel is full.
   It looks at no context: a handler still draining may call it after shutdown. *)
Trigger(s) ==
  /\ s \notin queued /\ s \notin running
  /\ Len(trigger) < QueueCap
  /\ Accept(s)

(* The subnet forms: create, delete, turn the automatic scan on or off. *)
EditSubnet(s) ==
  /\ ~Cancelled
  /\ \E row \in Rows \ {subnet[s]} : subnet' = [subnet EXCEPT ![s] = row]
  /\ UNCHANGED <<trigger, marks, loop, scans, mainAt, owed>>

IntervalPasses(s) ==
  /\ s \notin due
  /\ due' = due \cup {s}
  /\ UNCHANGED <<subnet, trigger, queued, running, loop, scans, mainAt, owed>>

-----------------------------------------------------------------------------
(* The loop: Start *)

LoopGoto(step) ==
  /\ loopAt' = step
  /\ current' = IF step \in {"select", "tick"} THEN AnySubnet ELSE current
  /\ UNCHANGED todo

(* Mutant: the context is looked at only after a tick. *)
LoopExitAfterTick ==
  /\ loopAt = "tick" /\ todo = {} /\ Cancelled
  /\ LoopGoto("exited")
  /\ UNCHANGED <<subnet, trigger, marks, scans, mainAt, owed>>

LoopExit ==
  /\ loopAt = "select" /\ Cancelled
  /\ LoopGoto("exited")
  /\ UNCHANGED <<subnet, trigger, marks, scans, mainAt, owed>>

Receive ==
  /\ loopAt = "select" /\ trigger # <<>>
  /\ current' = Head(trigger)
  /\ trigger' = Tail(trigger)
  /\ loopAt' = "unqueue"
  /\ UNCHANGED <<subnet, marks, todo, scans, mainAt, owed>>

(* delete(s.queued, id) under mu *)
Unqueue ==
  /\ loopAt = "unqueue"
  /\ queued' = queued \ {current}
  /\ LoopGoto("load")
  /\ UNCHANGED <<subnet, trigger, running, due, scans, mainAt, owed>>

(* GetSubnet, and shouldRunScan(sn, manual): an unknown subnet, a cancelled
   context or a WireGuard subnet drops the request. *)
Load ==
  /\ loopAt = "load"
  /\ IF subnet[current] \in {"manual", "auto"} /\ ~Cancelled
     THEN LoopGoto("start") /\ UNCHANGED owed
     ELSE LoopGoto("select") /\ owed' = owed \ {current}
  /\ UNCHANGED <<subnet, trigger, marks, scans, mainAt>>

(* GetSubnet fails: the request is dropped as well. *)
LoadFails ==
  /\ loopAt = "load"
  /\ LoopGoto("select") /\ owed' = owed \ {current}
  /\ UNCHANGED <<subnet, trigger, marks, scans, mainAt>>

(* ListSubnets; the loop then works through this snapshot.  If it fails nothing
   changes and the loop waits for the next tick. *)
Tick ==
  /\ loopAt = "select" /\ ~Cancelled
  /\ todo' = {s \in Subnets : subnet[s] = "auto"}
  /\ loopAt' = "tick"
  /\ UNCHANGED <<subnet, trigger, marks, current, scans, mainAt, owed>>

TickSubnet(s) ==
  /\ loopAt = "tick" /\ s \in todo
  /\ todo' = todo \ {s}
  /\ IF s \in due
     THEN loopAt' = "startDue" /\ current' = s
     ELSE UNCHANGED <<loopAt, current>>
  /\ UNCHANGED <<subnet, trigger, marks, scans, mainAt, owed>>

TickEnd ==
  /\ loopAt = "tick" /\ todo = {}
  /\ LoopGoto("select")
  /\ UNCHANGED <<subnet, trigger, marks, scans, mainAt, owed>>

Skip ==
  /\ LoopGoto(IF loopAt = "start" THEN "select" ELSE "tick")
  /\ UNCHANGED <<running, due, owed>>

Mark ==
  /\ running' = running \cup {current}
  /\ due' = due \ {current}
  /\ owed' = owed \ {current}
  /\ LoopGoto(IF loopAt = "start" THEN "spawn" ELSE "spawnDue")

(* Mutant: a manual scan starts whatever is running. *)
StartManualAlways ==
  /\ loopAt \in {"start", "startDue"}
  /\ IF loopAt = "startDue" /\ current \in running THEN Skip ELSE Mark
  /\ UNCHANGED <<subnet, trigger, queued, scans, mainAt>>

(* Mutant: the interval is looked at here, for requests as well. *)
StartIfDue ==
  /\ loopAt \in {"start", "startDue"}
  /\ IF current \in running \/ current \notin due THEN Skip ELSE Mark
  /\ UNCHANGED <<subnet, trigger, queued, scans, mainAt>>

(* start, the section under mu: a running subnet is skipped, otherwise it is
   marked running and its lastRun is stamped. *)
Start ==
  /\ loopAt \in {"start", "startDue"}
  /\ IF current \in running THEN Skip ELSE Mark
  /\ UNCHANGED <<subnet, trigger, queued, scans, mainAt>>

(* Identities mean nothing, so a new goroutine takes a fixed free one; as many
   as there are subnets suffice (RunningIsScanning). *)
FreeGoroutine == CHOOSE g \in Goroutines : scanAt[g] = "none"

(* start, after mu: wg.Add(1) and the go statement. *)
Spawn(g) ==
  /\ loopAt \in {"spawn", "spawnDue"}
  /\ scanAt[g] = "none" /\ g = FreeGoroutine
  /\ scanAt' = [scanAt EXCEPT ![g] = "acquire"]
  /\ scanOf' = [scanOf EXCEPT ![g] = current]
  /\ LoopGoto(IF loopAt = "spawn" THEN "select" ELSE "tick")
  /\ UNCHANGED <<subnet, trigger, marks, mainAt, owed>>

-----------------------------------------------------------------------------
(* A scan goroutine *)

Holders == {g \in Goroutines : scanAt[g] \in Holding}

ScanGoto(g, from, to) ==
  /\ scanAt[g] = from
  /\ scanAt' = [scanAt EXCEPT ![g] = to]

ScanOnly == UNCHANGED <<subnet, trigger, marks, loop, scanOf, mainAt, owed>>

Acquire(g) ==
  /\ Cardinality(Holders) < MaxParallel
  /\ ScanGoto(g, "acquire", "sweep")
  /\ ScanOnly

GiveUp(g) == Cancelled /\ ScanGoto(g, "acquire", "unmark") /\ ScanOnly

(* RunSubnet's statements run under the context: none begins once it is
   cancelled, one that has begun runs to its end. *)
BeginWrite(g) == ~Cancelled /\ ScanGoto(g, "sweep", "write") /\ ScanOnly
EndWrite(g) == ScanGoto(g, "write", "sweep") /\ ScanOnly

(* RunSubnet and the write of the status row are over. *)
SweepEnds(g) == ScanGoto(g, "sweep", "release") /\ ScanOnly

(* The deferred functions, last first: the semaphore; then running and wg.Done. *)
Release(g) == ScanGoto(g, "release", "unmark") /\ ScanOnly

(* Mutant: the running mark is never removed. *)
UnmarkForgets(g) ==
  /\ ScanGoto(g, "unmark", "none")
  /\ scanOf' = [scanOf EXCEPT ![g] = AnySubnet]
  /\ UNCHANGED <<subnet, trigger, marks, loop, mainAt, owed>>

Unmark(g) ==
  /\ ScanGoto(g, "unmark", "none")
  /\ scanOf' = [scanOf EXCEPT ![g] = AnySubnet]
  /\ running' = running \ {scanOf[g]}
  /\ UNCHANGED <<subnet, trigger, queued, due, loop, mainAt, owed>>

-----------------------------------------------------------------------------
(* main's shutdown *)

Shutdown ==
  /\ mainAt = "serving"
  /\ mainAt' = "waiting"
  /\ UNCHANGED <<subnet, trigger, marks, loop, scans, owed>>

(* Mutant: only the scans still waiting for a slot are waited for. *)
CloseAtOnce ==
  /\ mainAt = "waiting"
  /\ \A g \in Goroutines : scanAt[g] # "acquire"
  /\ mainAt' = "closed"
  /\ UNCHANGED <<subnet, trigger, marks, loop, scans, owed>>

(* sched.Wait returns with the counter at zero, and the deferred st.Close runs.
   Nothing waits for the loop goroutine. *)
WaitAndClose ==
  /\ mainAt = "waiting"
  /\ \A g \in Goroutines : scanAt[g] = "none"
  /\ mainAt' = "closed"
  /\ UNCHANGED <<subnet, trigger, marks, loop, scans, owed>>

-----------------------------------------------------------------------------
LoopSelect == Receive \/ Tick \/ LoopExit
LoopStep == Unqueue \/ Load \/ TickEnd \/ Start \/ (\E s \in Subnets : TickSubnet(s))
            \/ (\E g \in Goroutines : Spawn(g))

ScanStep(g) ==
  \/ GiveUp(g) \/ EndWrite(g) \/ SweepEnds(g) \/ Release(g) \/ Unmark(g)

Next ==
  \/ \E s \in Subnets : Trigger(s) \/ IntervalPasses(s) \/ EditSubnet(s)
  \/ LoopSelect \/ LoopStep \/ LoadFails
  \/ \E g \in Goroutines : Acquire(g) \/ BeginWrite(g) \/ ScanStep(g)
  \/ Shutdown \/ WaitAndClose

Safety == Init /\ [][Next]_vars

(* The loop is a running goroutine (weak fairness) and select picks uniformly
   among its ready cases, so no ready case starves (strong).  A sweep has
   timeouts on every probe and ends; goroutines blocked on the semaphore are
   served in order.  The clock ticks.  Nobody has to shut netis down. *)
Fairness ==
  /\ WF_vars(LoopStep)
  /\ SF_vars(Receive) /\ SF_vars(Tick) /\ SF_vars(LoopExit)
  /\ \A g \in Goroutines :
       SF_vars(Acquire(g)) /\ WF_vars(ScanStep(g)) /\ SF_vars(SweepEnds(g))
  /\ \A s \in Subnets : WF_vars(IntervalPasses(s))
  /\ WF_vars(WaitAndClose)

Spec == Safety /\ Fairness

-----------------------------------------------------------------------------
(* Properties *)

Spawning == loopAt \in {"spawn", "spawnDue"}
InScan == {g \in Goroutines : scanAt[g] \in Scanning}

(* scheduler.go:23-24, 145-146: two sweeps of one subnet never overlap, from
   the mark to its removal, and running marks exactly the subnets being
   scanned. *)
RunningIsScanning ==
  /\ \A g, h \in InScan : scanOf[g] = scanOf[h] => g = h
  /\ Spawning => \A g \in InScan : scanOf[g] # current
  /\ running = {scanOf[g] : g \in InScan} \cup (IF Spawning THEN {current} ELSE {})

(* scheduler.go:26-28: a subnet waits in the channel at most once, and queued
   holds exactly the subnets waiting there or just taken out. *)
QueuedIsWaiting ==
  /\ \A i, j \in 1..Len(trigger) : trigger[i] = trigger[j] => i = j
  /\ loopAt = "unqueue" => \A i \in 1..Len(trigger) : trigger[i] # current
  /\ queued = {trigger[i] : i \in 1..Len(trigger)}
              \cup (IF loopAt = "unqueue" THEN {current} ELSE {})

(* scheduler.go:39-41: as long as the channel holds as many ids as there are
   subnets, a request is never refused because it is full. *)
ScanAllFits ==
  Cardinality(Subnets) <= QueueCap =>
    \A s \in Subnets : s \notin queued => Len(trigger) < QueueCap

(* An accepted trigger is not forgotten: until a scan of the subnet starts
   after it, or the subnet turns out to be gone or unreadable, it waits in the channel or is
   the one the loop is dealing with.  In particular the loop never skips it as
   "already running" because of a scan that began before the click. *)
AcceptedTriggerKept ==
  \A s \in owed : s \in queued \/ (current = s /\ loopAt \in {"load", "start"})

(* main.go:468-470: no statement of a scan runs against a closed database,
   although nothing waits for the loop and it may spawn a scan afterwards. *)
NoWriteAfterClose == mainAt = "closed" => \A g \in Goroutines : scanAt[g] # "write"

(* An accepted trigger leads to a scan started after it, unless the subnet
   went away, it cannot be read or netis shuts down. *)
TriggerServed == \A s \in Subnets : s \in owed ~> (s \notin owed \/ Cancelled)

(* A subnet that stays listed and enabled is swept again and again, however
   many other scans and requests compete with it. *)
PeriodicSweeps ==
  \A s \in Subnets :
    <>[](subnet[s] = "auto" /\ ~Cancelled)
    => []<>(\E g \in Goroutines : scanOf[g] = s /\ scanAt[g] \in Sweeping)

(* Shutdown ends: the loop exits and the wait for the scans returns. *)
ShutdownCompletes == Cancelled ~> (mainAt = "closed" /\ loopAt = "exited")
=============================================================================
