# A formal model of netis

netis watches home and office networks: it sweeps subnets, keeps an inventory of
devices, interfaces and addresses, merges what Pi-hole, AdGuard Home, OPNsense,
Proxmox and WireGuard know, and alerts on changes. This directory holds TLA+
models of its core, the TLC configurations that check them, and TLAPS proofs.

    tlc -config MCSweep.cfg MCSweep       # one run; the others are listed below
    tlapm SweepProofs.tla                 # one module's proofs

`PROJECT.json` is the index: components, runs, the mutant that shows what each
property can catch, the source lines behind every definition, the hazards in
the code, findings and theorems. All paths below are relative to `src/`.

## 1. Inventory of the system

State lives in one SQL database (SQLite with one writer, or Postgres) and in a
few in-memory structures. Goroutines: the scheduler's loop, one per running scan
(at most four sweep at once), one loop per integration, the autofill loops, the
notifier's two loops, retention, backups, and one per HTTP request.

| Component | State | Operations | Talks to |
|---|---|---|---|
| Presence `internal/store/status.go` | `iface_status` (online, missed_sweeps) | `MarkSeen`, `MarkMissed` | called by sweeps and the WireGuard sync; its result decides who emits an event |
| Scheduler `internal/scan/scheduler.go`, shutdown in `cmd/netis/main.go` | trigger channel, `queued`, `running`, `lastRun`, semaphore, WaitGroup | `Trigger`, `Start`, `start`, `Wait` | web handlers click, the loop starts sweeps, main waits and closes the database |
| Sweep `internal/scan/engine.go`, `conflict.go`, `sweep.go`, `presence.go`, `arp.go` | local snapshot of addresses, `seen`, ARP answers; the in-memory conflict tracker | `RunSubnet`, `createUnknown`, `checkConflicts` | inventory, presence, events, autofill |
| Inventory store `internal/store/device.go`, `grid.go`, `alert.go` | `device`, `iface`, `ip_assignment` | `AssignIP`, `UpsertIPAssignmentFrom`, `ClaimDHCPLease`, `SetIPKind`, `AdoptDiscoveredIface`, ... | everybody |
| Lease merge `internal/leases` | none of its own | `Apply`: find or create by MAC, assign, retire older claims | Pi-hole, AdGuard Home, OPNsense syncs |
| Integration runner `cmd/netis/main.go:78-134` | a TryLock per integration, its last status | `Run`, `runIntegrationLoop` | web "run now", events |
| Upstream reconcile `internal/proxmox/sync.go`, `internal/wireguard/sync.go`, `internal/store/upstream.go` | VMID or public key, missing since | `RunOnce`, `upsertGuest`, `upsertPeer`, `attachMAC`, `ReconcileUpstream` | inventory, presence |
| Events and live updates `internal/events`, `internal/web/sse.go` | `event` rows, subscriber channels of 16 | `Emit`, `Publish`, `Subscribe` | notifier, browsers |
| Notifier `internal/notify` | queue of 256, batches, quiet periods | `Notify`, batching and sender loops | events |
| Autofill `internal/autofill` | kick flag, probe queue, field ownership in `device_autofill` | `Kick`, `Probe`, pass | sweeps, inventory, user edits |
| Backups `internal/backup` | files, last result | write, sync, rename, prune | database |
| Accounts `internal/store/user.go`, `internal/web/auth.go`, ... | users, sessions, attempt counters | first admin, guarded delete and demote, sign-in | web |
| Retention, migrations, migrate-db, settings, import/export, pages, port scan, Wake-on-LAN, clients of the integrations | rows or nothing | sequential or stateless | |

What is hard about each, and what makes it correct:

- **Presence.** `MarkSeen` is three statements and `MarkMissed` two, without a
  transaction; sweeps of different subnets and the WireGuard sync run them on
  one row at once, while the interface may be deleted and its id reused.
  *Correct:* every transition between online and offline is reported by exactly
  one caller; a silent interface goes offline, an answering one comes online.
- **Scheduler.** A click can arrive between any two of the loop's critical
  sections; the loop is not waited for at shutdown. *Correct:* sweeps of a subnet
  never overlap, no accepted click is lost, every subnet gets its turn, no scan
  writes to a closed database, shutdown ends.
- **Sweep.** Decisions rest on a snapshot that name lookups make minutes old;
  addresses are reused, hosts swap addresses or have several, several interfaces
  claim one address, a probe may fail to run, writes fail unnoticed. *Correct:*
  who answered is not missed, who was silent is, static addresses stay, a
  standing conflict is announced once, and the inventory converges.
- **Lease merge, inventory.** Look-then-insert without a transaction, several
  writers, an orphan device after a failure. *Correct:* one interface per MAC,
  whoever found the machine first; what a person reviewed or added stays.
- **Runner.** Scheduled and clicked runs meet, timeouts and the shutdown race the
  last writes. *Correct:* one event per outage, one when it ends.
- **Upstream.** Partial or stale lists, failures between the statements that make
  one device, other finders of the same machine, ids used again. *Correct:* only
  what was absent from a whole list is marked missing; in the end the inventory
  agrees with the list.
- **Events, notifier.** Bounded queues that drop, batching, quiet periods, a
  shutdown in mid-batch. *Correct:* nobody is held up; what is shown or sent in
  the end reflects the last state.
- **Autofill.** Read, decide, apply, with user edits in between. *Correct:* a
  field the user set or cleared is never written again; a kick is never lost.
- **Backups.** Crashes and power losses between the steps, a clock that is set.
  *Correct:* no incomplete file under a backup's name, never fewer than the kept
  number of safe ones, and there is always a next one.
- **Accounts.** Concurrent guarded deletes. *Correct:* one admin remains.

The hazards behind these, each at the line where it bites, are in
`PROJECT.json`.

## 2. The modules

    PresenceAbs   the contract                 Presence    statements of status.go
    Scheduler     loop, scans, shutdown        Sweep       RunSubnet and its rivals
    Alerts        runner, broker, notifier     Autofill    passes, workers, people
    Imports       syncs and other finders      Backup      the goroutine and the disk
    MC<module>    the instance for TLC         <module>Proofs   its theorems

Each module stands for what
several goroutines do to one part of the state; what one part does to another is
given to the other as a free choice, justified by a property or a theorem:

- *Scheduler - Sweep:* in Scheduler a sweep is a goroutine that now and then writes
  and ends; in Sweep the subnet is swept again and again, which Scheduler's
  `PeriodicSweeps` justifies.
- *Sweep - Presence:* Sweep records whom it saw and how often it counted a miss;
  Presence takes any pattern of such calls, from any number of callers.
- *Alerts - Imports:* in Alerts a run of an integration is one step that ends well or
  badly; Imports is what happens inside a run, with `RunFails` wherever it can end.
  That runs of one integration do not overlap is Alerts' lock.
- *Imports - Sweep:* Imports has sweeps and lease syncs make devices at any moment,
  Sweep has the syncs' entries appear at any moment.
- *Sweep, Imports - Autofill:* what they write is, for a pass, news or a write by
  somebody else.

### Presence, PresenceAbs

One step is one SQL statement of a caller: `InsertStatus`, `FlipOnline`,
`Refresh` for `MarkSeen`; `CountMiss`, `TakeDown` for `MarkMissed`. The row count
decides the early return as in the code. A caller that must emit an event is at a
`say...` step until `Emit` returns (`Say`). `Discover` is `createUnknown`'s call,
which ignores `MarkSeen`'s result and emits device_new. `StatementFails` is a
statement that fails before it has an effect, `AnswerLost` one that has its effect
and returns an error all the same: nobody will emit that transition, which is logged
(`sayError`). `CreateIface` and `DeleteIface` are the other
actors. `PresenceAbs` knows only online, offline and who owes which event, or the
error in its place;
`Contract == INSTANCE PresenceAbs WITH owing <- Owings` is the refinement.

Left out: timestamps, RTT and the availability table (no guard reads them);
`missed_sweeps` saturates at `MissCap`, which is at least every threshold, so no
comparison changes.

### Scheduler

A step is a critical section of `mu`, a channel operation or a database
statement. The loop's position is `loopAt`; a scan goroutine goes through
`acquire` (the select on semaphore and context), `sweep`/`write`, `release` and
`unmark` (the deferred functions, last first). Time is the set `due`. `owed` is a
history variable: accepted clicks for which no scan has started. `Load` and
`LoadFails` are `GetSubnet`, which drops a click it cannot serve. The context is
cancelled when main leaves `serving`. `Trigger` looks at no context, since a
handler may still be draining; `EditSubnet` stops with the context, since the
statements of a request run under a context derived from it.

Abstractions: scan goroutines are as many identities as subnets, which suffices because at
most one runs per subnet (`RunningIsScanning`); a new goroutine takes a fixed free
identity. An error of `ListSubnets` only skips a tick, which the model may do by not
ticking. The row in integration_status and `Status`, which only reads, are left out. That
`wg.Add` may run concurrently with `Wait` at zero is outside the model: the WaitGroup is
"every goroutine has finished".

### Sweep

One subnet, one sweep after another, one step per statement together with the
local computation before it: `Probe` (ICMP, ARP table and `confirmPresence`
folded into what each address said), `List` (`ListSubnetIfaceIPs`; the name
lookups after it are the time others have), then for each address `Skip`,
`Credit`, or `LookUp` followed by `Assign` and `Retire` or by `Create`; `CloseLoop`
and `Check` (`checkConflicts`). `Environment` holds everything else: hosts move,
join, leave or have several addresses (`Move`), DHCP integrations apply entries
(`ApplyEntry`), the user changes an address's kind or deletes a device, a probe
misreads one address or the ARP table cannot be read (`ProbeBadly`), a statement
fails (`LookUpFails`, `WriteFails`, `ReadFails`), netis restarts. `excused` is a
history variable: interfaces the verdicts on a sweep say nothing of, since they
were deleted after the snapshot or their lookup failed.

Abstractions:
- `rows` counts identical `ip_assignment` rows (nothing makes interface and
  address unique), up to `CopyCap`.
- `knownByIP` keeps the last row the query returned; the query has no ORDER BY,
  so the model lets it be any claimant. SQLite in practice returns the newest last.
- A sweep that fails as a whole (most probes failed, or cancelled) returns
  before it changes anything; it is not a step.
- `ApplyEntry` is atomic here; Imports has the statements that make a device.
- A host that answers at two addresses (`Aliased`), from the start or after a `Move`,
  costs one more of the budget.
- `misses` counts the calls of `MarkMissed`; that one may fail is Presence's subject.
- Not modelled: an `Emit` that fails after the conflict tracker was updated;
  hostnames.

Two things the code does that the model shows and no property calls wrong.
`engine.go:143` discards the error of `FindIfaceByMAC`: a failed lookup reads as an
unknown machine, `createUnknown` then fails on the unique MAC, and the interface
is missed by that sweep although it answered (`MissIsDeserved` excuses it). And a
host with two addresses in the subnet and one MAC is moved from one address to the
other and back by every sweep, with an `ip_changed` event each time.

### Alerts

One caller of `Run` per integration loop and one per "run now" request, who take the
integration's lock or leave (`TryLock`). A run ends well or badly (`EndRun`);
then come, one step each, the event row (`InsertEvent`), its announcement to pages and
notifier (`Announce`), the status row (`RecordStatus`), and the refresh of the pages
(`Refresh`). `Broker.Publish` loses a message when the
page's channel is full. The notifier's two goroutines are `Collect`, `Flush` and
`StopCollect`, and `TakeBatch`, `Attempt` and `StopSend`, over queues that drop.
`got`, `lost`, `hushed`, `unlogged` and `skipped` are histories: what a channel was
last sent, what was dropped for want of room, settings or an answer, what the quiet
period dropped, for whom an odd number of event rows could not be written since its
last row, and before which rows that was so. Since every row says the opposite of the
event before it, an odd number of missing rows is what makes a row repeat the last.

Abstractions: the work of an integration is one step; the hour of the quiet period
is a step that forgets (`HourPasses`); an error has one category, since the text that
`lastError` compares is the integration and the category; settings are the set of
configured channels, read when an event is accepted and again when a batch is sent,
and a group of events switched off acts like settings that cannot be read. A page
whose stream breaks and is opened again is left out, as it loads the state anew. A
restart, which forgets `failing` and so repeats an event, is left out as well. After a
shutdown a run that was under way ends with an error and is recorded all the same,
because the recording runs under `WithoutCancel`; a clicked run uses the request's
context.

### Autofill

One device with its fields and tags. `Pass(p)` is `Service.Run` for the loop or the
probe worker, behind one mutex: read the device, the evidence, the tags and the
records in separate statements, decide, apply in one transaction with the
compare-and-swap of `ApplyAutofill`. `Service` is the kick channel of one and the
pause after a pass; `Worker` the bounded probe queue. `People` change evidence, edit
fields and tags, approve, import, and save forms: `EditOpen` and `EditSave` are the
API's read of the whole row and its write of the whole row.

Abstractions: the winning candidate of a field is one value; "", the kind `other` and
a name netis made up are `Blank`; that an imported kind can be renamed, the port scan
page as third caller of `Run`, deleting the device and audit rows are left out.

What the code does here that no property forbids: an update through the API that read
the row before a pass and writes after it blanks the value autofill has just filled
in, although apiwrite.go promises to leave unnamed fields alone, and autofill then
takes the field for the person's. And a probe that fails waits for the next
`probeEvery`, because the time is stamped before it runs.

### Imports

One behaviour has one sync, Proxmox's or WireGuard's (`kind`), against a table of
devices, the unique owner of each MAC (`holder`), and peers' interfaces without a
MAC (`bare`). Proxmox: `List`, `Nodes`, then per guest `FindGuest`, `CreateGuest`,
`Fields`, `FindMAC`, `AddMAC` or `Adopt`; WireGuard: `FindPeer`, `CreatePeer`,
`AddPeerIface` or `PeerIface`, `Addresses`; both end in `AllHandled` and `Reconcile`.
`LookupFails` and `GuestFails` are a guest whose statements fail, `RunFails` a run
that ends anywhere. Others: a lease sync in `upsertByMAC` (three steps), sweeps and
people adding devices, reviews, annotations, deletes, guests that come and go.

Abstractions: a guest has one MAC and stands for both; a person's notes, tags and
links are one flag; device ids are used again as SQLite does, interface ids are not;
nodes, parents, events, presence (see Presence) and addresses (see Sweep) are left out.

A device made by a DHCP source starts reviewed (`CreateDevice`, device.go:77: only
`scan` does not), so `AdoptDiscoveredIface` never takes its interface, although three
comments say so (finding 5). `own` is a history of each row, whether a person entered
or reviewed it, which no column tells; with it `Settles` names the guests whose
interface stays on such a device (`KeptByLease`) instead of taking the mark for a
person's.

Two more exceptions are named in `Settles`, which would be violated without them. A
WireGuard peer whose creation was cut in two makes every later run end at it until
somebody deletes the device (`StuckPeer`). And a device deleted between the two
statements of a lease sync, whose id the next device gets, leaves the lease's
interface on that one, and for good if it is another guest's (`OnAnotherGuest`). A
lease sync that fails between its two statements leaves a device without interface
that no sync ever meets again; no property speaks of it.

### Backup

One step per call of `Start`, `seed`, `RunOnce`, `write` and `prune`: copy into the
hidden temp, sync it, rename, sync the directory, remove one file too many at a
time. The directory has two views: what the program sees (`dir`), and every
directory a power loss may leave (`survives`). The assumption on file systems is that
changes of names reach the disk in the order they were made, and contents in no
order at all unless synced; a tick of the clock, at least a minute, writes everything
out. `dirSync` is false on file systems that cannot sync a directory. `Crash`,
`PowerLoss`, `Shutdown`, `SetClock` and failing calls are bounded events.

Left out: names that match the pattern and are no date, files that an operator
adds or removes, and the `netis backup` command. What the model shows and no property
calls wrong: the temp of a killed run is never removed by a later one, whose temp has
another name; and after the clock was set back a new backup sorts before the old ones
and is pruned at once (`ShownIsKept` states the exact exception).

## 3. The runs

| Run | Instance | Distinct states | Shows |
|---|---|---|---|
| presence | 3 callers, 1 interface, thresholds 1 and 2 | 34,643 | the statements, failing before or after their effect, implement the contract; no orphan status row; misses are forgiven only by sightings; silence leads to offline, answers to online |
| presence_race | 2 callers, 1 interface | violation | see finding 1 |
| scheduler | 2 subnets, one on its interval and one on request, 1 slot, channel of 2 | 40,964 | marks and queue are exact, clicks are kept and served, Scan all fits, periodic sweeps recur, no write after close, shutdown ends |
| sweep | 2 hosts with up to 2 addresses each, 3 interface ids, 2 disturbances | 1,309,725 | misses are deserved, silence is missed, tracker exact, static addresses survive, convergence, also for hosts that flip between two addresses |
| sweep_misses | 2 hosts, 2 addresses, 3 ids | violation | see finding 2 |
| sweep_moves | 2 hosts, 2 addresses, 3 ids | violation | see finding 3 |
| alerts | 1 integration, its loop and a click, queues of 1, 1 retry, 3 events, 1 mishap | 560,842 | event rows alternate, a page that catches up, news in order, nothing waits forever |
| alerts_told | the same | violation | see finding 4 |
| autofill | a field with 2 values or the name with 1, a tag, 2 changes of evidence, 1 event | 1,048,070 | people win and for good, no kick is lost, shutdown ends |
| imports | 2 guests or peers, 5 devices, 3 events | 908,094 | who is marked missing, whose interface is taken, agreement with the list in the end, with three named exceptions |
| imports_merge | the same | violation | see finding 5 |
| backup | 2 kept of 4 names, 2 events | 198,193 | what is on the disk is whole, and enough of it is left; there is always a next backup |

What each property says is in the comment above it. In short:

- `ImplementsContract` (presence): two callers never both claim, or both miss, a
  transition. `MissNeverForgives`, `NoOrphanStatus`: interleavings with a deletion
  or another caller leave no false state. `SilentGoesOffline`,
  `AnsweringComesOnline`: conditional on calls completing again and again, stated
  as premises in the property and not as fairness of the environment.
- `RunningIsScanning`, `QueuedIsWaiting`, `ScanAllFits`, `AcceptedTriggerKept`,
  `NoWriteAfterClose`, `TriggerServed`, `PeriodicSweeps`, `ShutdownCompletes`.
- `MissIsDeserved` and `SilentIsMissed` are the two sides of the closing loop;
  `StaticSurvivesSweeps`, `TrackerIsAnnounced`, `Converges`.
- `OneEventPerOutage` (an integration's rows are error and recovery by turns, except
  after rows that failed to be written, and the last tells whether it fails),
  `PageIsOwed` (while a page shows an old status, a message
  waits for it or a refresh is about to be published), `NewsIsCurrent` (when the
  notifier is empty the last a channel heard is the latest event, or that event was
  dropped in a way the code announces), `ComesToRest`.
- `EditsWin`, `OwnedIsFinal`, `OwnedForAReason`: what a pass may write, what it may
  never take back, when it may give up; `RestMeansDone`: a service at rest has
  nothing left to write; `StartReturns`.
- `MissingWasAbsent`, `ReviewedIsLeftAlone`, `Settles`.
- `BackupsAreWhole`, `KeepIsKept` (the number of backups that any power loss leaves
  never falls below the number to keep), `ShownIsKept`, `BackupsGoOn`.

**Bounds.** One interface suffices in Presence, since the statements of a call touch one
row; three callers give a third to interfere while two race. Two subnets on one slot are
the smallest case in which a scan waits for another; the real constants (four slots, a
channel of 256) only move the point where one waits, and the proofs hold for all.
`EditedSpec` fixes what a subnet is when it is there: one is swept on its interval and
stays, the other is swept on request only and is deleted and created at any moment, so
that nothing but the loop serves a click. The channel has room for both, the condition of
`ScanAllFits`; that one of them is switched off or turned into a WireGuard subnet, and a
channel that is too short, are left to the proofs, which are for every table and every
length. In Sweep two hosts and two addresses allow reuse, swap, duplicate claim and alias,
and the third id a newcomer beside two known interfaces; should the ids run out, creation
fails and `Converges` does not speak of that host. `Budget` bounds the disturbances;
sweeps between them are unbounded, and two suffice for a lease plus a move, a delete plus
a reuse, an edit plus a failure, or an alias plus one of these. `CopyCap` 2 distinguishes
one row from several, which is all the code can tell.

In Alerts queues of one make every drop happen; three events are an outage, its end and a
second outage. In Autofill two changes of the evidence allow a kick during a pass and one
during the pause; the one event is the edit, the failure or the setting that interferes.
`OneFieldSpec` puts the tag and, in one behaviour, either the name, with its own rule and
one value, or another field with two in play: both fields at once would be more states
than a run can have, and the proofs have any number of them. In Imports five ids suffice
for two guests and three finds, so no creation is refused for want of an id. In Backup
four names and two kept let pruning remove, and two events let a crash follow a failure;
the clock stands still at its bound, and larger instances (a fifth name, a third event:
625,800 and 1,013,138 states) pass too.

**Fairness.** *Presence:* weak fairness of a begun call, a running goroutine whose
statements return or fail. *Scheduler:* weak fairness of the loop's straight-line
steps; strong fairness of each select case, because Go's select picks uniformly
among ready cases; weak fairness of a scan's steps and strong fairness of its end,
because every probe has a timeout; strong fairness of the semaphore, a channel,
whose blocked senders are served in order; weak fairness of the clock. None for
clicks, edits or the shutdown. *Sweep:* weak fairness of `SweepStep`, which is
Scheduler's `PeriodicSweeps`; none for the environment, which the budget ends.
*Alerts:* weak fairness of each run under way and of each of the notifier's goroutines,
none of the page; strong fairness of leaving an integration's loop, a select between the
cancelled context and a ticker. *Autofill:* weak fairness of each goroutine.
*Imports:* weak fairness of the sync, which runs every minute. *Backup:* weak fairness
of the goroutine and of the clock; nobody has to start a process again. None
anywhere for people, clicks, failures or shutdowns.

**Deadlock** is checked in Presence, Sweep, Imports and Backup. Scheduler, Alerts and
Autofill really stop once netis has shut down, so their configurations say `CHECK_DEADLOCK
FALSE`; `ShutdownCompletes`, `ComesToRest` and `StartReturns` say where they stop.

## 4. Findings

1. *presence_race.* A `MarkMissed` that takes an interface offline between the second
   and third statement of a `MarkSeen` leaves it offline with zero misses, having just
   answered; docs/discovery.md:17-18 promises offline after consecutive misses.
   `AnsweringComesOnline` shows that the next sighting repairs it.
2. *sweep_misses.* The closing loop counts a miss per address row, so an interface
   with two rows goes offline in fewer sweeps than docs/discovery.md:17-18 and
   docs/configuration.md:47 say.
3. *sweep_moves.* When two interfaces claim an address and the one kept in
   `knownByIP` is not the one that answers, the latter is "moved" to the address it
   holds (engine.go:144): a duplicate row, an `ip_changed` for nothing, and its
   other DHCP addresses removed. Finding 2 then counts the duplicate.
4. *alerts_told.* notify/config.go:42 promises a message for an integration
   that starts to fail, and one for its recovery. The quiet period of an hour
   (notifier.go:121) drops the only event of a second outage within the hour of the first:
   the last message says "working again" however long it lasts.
5. *imports_merge.* A guest takes over the interface that a scan or a DHCP source found
   first "unless the user has reviewed the device" (proxmox/sync.go:148-152,
   device.go:191-193, sync_test.go:204-207). `CreateDevice` marks what a DHCP source
   finds as reviewed (device.go:77), so such an interface is never taken, and one
   machine stays two devices that nobody has reviewed.

## 5. The proofs

Each is for every value of the constants, under the named assumptions on them
(`IfacesAssumption`, `ThresholdsAssumption`, `MissCapAssumption`,
`SubnetsAssumption`, `LimitsAssumption`, `MacsAssumption`, `KeepAssumption`,
`DelayAssumption`, `NoneAssumption`, `ChannelsAssumption`, `CapsAssumption`,
`CallersAssumption`, `DataAssumption`, `BoundsAssumption`),
which TLC evaluates in every run.

- **PresenceProofs.** `TypeCorrect`; `StatusNeedsInterface` (the foreign key and
  the cascade keep `NoOrphanStatus` inductive together with the types);
  `OnlySightingsForgive`; `RefinesContract`: the initial states and every step map
  to `PresenceAbs` or stutter. The refinement needs `DiscoveringIsSeeing`: a
  call started by `createUnknown` is in `MarkSeen` until its device_new is out,
  otherwise the debt of such a call could change from "new" to "offline".
- **SchedulerProofs.** `IInv` conjoins the types, `RunningIsScanning`,
  `QueuedIsWaiting`, `AcceptedTriggerKept`, `NoWriteAfterClose` and
  `OwedIsNotRunning`. The last is the strengthening: `AcceptedTriggerKept` alone is
  not inductive, since `start` drops a click whose subnet is running; that this
  cannot happen to an accepted click follows because `Trigger` refuses running
  subnets and only the loop, one at a time, marks them. `ScanAllIsNeverDropped`
  adds a counting argument: a channel without copies of any id is not longer than
  the list of subnets.
- **SweepProofs.** `TypeCorrect` (with it: one interface per MAC, no row without
  its interface); `StaticAddressesSurvive`; `TrackerIsExact`; and
  `AnsweringIsNeverMissed` and `SilenceIsMissed`, from `IInv`. The two verdicts are
  about the end of a sweep, so the invariant says what a sweep under way knows:
  the snapshot stays true of the MAC of every interface nobody deleted
  (`SnapshotOK`); the interface found by MAC is the one that answered, and a
  stranger's MAC belongs to nobody listed (`MoverOK`, `StrangerOK`); whoever answered
  at an address already dealt with is seen, and whoever is seen answered
  (`SeenEnough`, `SeenReason`). Deleted interfaces are exempt, since their id may be
  another's by then, and those whose lookup failed.

- **ImportsProofs.** `TypeCorrect`, `OnlyTheAbsentGoMissing`, `PeopleKeepTheirDevices`,
  from `IInv`: the types; where the run is says what it knows (`Placed`); and
  `Resolved`, the strengthening `MissingWasAbsent` needs: while a run is complete, every
  device of every guest it has handled is among those it has seen. That this
  survives creations and deletions by others, with ids used again, rests on
  `TablesStep`: only the step that handles a guest gives it a device. A VMID has one
  device because the create step looks again (`Inserting`).
- **BackupProofs.** `TypeCorrect`; `NoTornBackup`, from `Whole`: all that has to be
  carried from step to step is what the temp holds when its name is about to become a
  backup's; `PageNamesABackup` and `NeverTooFew`, from `Kept`: the backup in hand is
  there, or as many newer ones as are kept, from its rename until it is on the page,
  and prune only looks at names that are still there. Both then follow from two
  summaries of a step. `BackupsStep`: only Rename adds a name, only `RemoveOldest`
  takes one, and what a power loss may leave has the names of something it might have
  left before, or of the directory now. `Pruning`: what `RemoveOldest` leaves of its
  list is as many as are kept, all newer, all there.
- **AlertsProofs.** `TypeCorrect`, `OutagesAreLogged`, `PagesCatchUp`, `NewsArrives`,
  from `IInv`, whose two halves are the runner and the line of events. `Runner`:
  whoever is past `TryLock` is alone with its integration (`Locked`), so what it
  found out about `failing` is still true when it writes (`Held`); and its rows, with
  those that failed counted, disagree with `failing` exactly while it has an event to
  write (`Logged`), which is what makes the next row the opposite of the last. `Line`:
  `NewsIsCurrent` speaks of an empty notifier, so the invariant says of every event
  where it is: the latest event of an integration is about to be announced (`Fresh`),
  on its way to a channel, what the channel was last sent, lost or hushed
  (`Accounted`); and for "last sent" to be the latest, the queue, the batch, the
  batches that wait and the one being sent are in the order of the events (`InLine`),
  and nothing on its way is older than what a channel has heard (`Heard`).
  `PageIsOwed` is inductive with the types.
- **AutofillProofs.** `TypeCorrect`, `PeopleWin`, `OwnedForGood`, `NeverMistaken` and
  `KicksAreKept`, from `IInv`. One pass is inside at a time (`Exclusive`, the mutex),
  so a record changes only in `Apply`: what the pass plans about records is still
  right when it applies it (`PlanOK`), and what it gives up somebody else did replace
  (`ReplacedOK`). What people write meanwhile is met by the compare-and-swap. For
  `RestMeansDone` the invariant is `Covered`: unless a kick is pending or somebody
  disturbed it, what a pass under way has read is as it still is, and with no pass
  under way nothing is left to write.

Only model-checked: everything under fairness (`SilentGoesOffline`,
`AnsweringComesOnline`, the fairness part of the contract, `TriggerServed`,
`PeriodicSweeps`, `ShutdownCompletes`, `Converges`, `ComesToRest`, `StartReturns`,
`Settles`, `BackupsGoOn`), since TLAPS has no ENABLED here. Every invariant and every
action property of the passing runs is a theorem. TLC checked each inductive invariant
on the run's instance before it was proved. Nothing in the modules is RECURSIVE.

## 6. What is not modelled

`PROJECT.json` gives the reason for each component. Clients of the integrations,
hint parsing, pages and forms, port scan, Wake-on-LAN and netdetect are I/O or
pure functions of strings; half of the code is generated page templates (`*_templ.go`).
Retention, migrate-db, migrations and settings are sequential statements with no
state of their own. The syncs of Pi-hole, AdGuard Home and OPNsense read lists and
hand them to `leases.Apply`, which Sweep and Imports have; two of them racing on one
address row (device.go:310) is not modelled. Accounts are not modelled: on SQLite the
guard is a statement of the one writer; on Postgres two concurrent guarded statements
under READ COMMITTED each count the other's admin (user.go:112-150).

## 7. Plan

What is left, in this order:

1. **Leases** in full: `UpsertIPAssignmentFrom` and `ClaimDHCPLease` statement by
   statement for two integrations.
2. **Accounts** with two concurrent statements under each database's isolation.
3. An abstract specification of **Backup** (a set of safe backups that never gets
   too small) and of the **Notifier** (the last news reaches every channel), with
   the refinements proved from the invariants above.
