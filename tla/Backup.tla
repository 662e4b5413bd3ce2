------------------------------- MODULE Backup -------------------------------
(***************************************************************************)
(* Scheduled backups: a goroutine that copies the database into a          *)
(* directory every interval, keeps the newest few copies, and tries again  *)
(* sooner after a failure, while the process may be killed, the machine    *)
(* may lose power, and the clock may be set, at any step.                  *)
(*                                                                         *)
(* Kept: Start, seed, RunOnce, write, prune and record call by call, with  *)
(* each file operation failing, and a shutdown that cancels the copy.  A   *)
(* backup's name is the time it was begun.  Two views of the directory:    *)
(* the program's (dir) and what a power loss may leave (survives).  The    *)
(* file system is assumed to write changes of names in the order they were *)
(* made, and file contents in no order at all unless told to sync.         *)
(* Left out: Status for the pages, other files in the directory, the text  *)
(* of the event (Alerts models Emit).                                      *)
(***************************************************************************)
EXTENDS Integers, FiniteSets, FiniteSetsExt

CONSTANTS
  Keep,      \* NETIS_BACKUP_KEEP
  Interval,  \* NETIS_BACKUP_INTERVAL, in ticks
  Retry,     \* min(interval, maxRetryDelay), in ticks
  MaxTime,   \* bound: the clock stands still there
  MaxEvents  \* bound: failures, crashes, power losses, shutdowns, clock changes

ASSUME KeepAssumption == Keep \in Nat \ {0}
ASSUME DelayAssumption == Interval \in Nat \ {0} /\ Retry \in 1..Interval
ASSUME BoundsAssumption == MaxTime \in Nat /\ MaxEvents \in Nat

VARIABLES
  now,       \* the clock
  dir,       \* [Files -> Contents]: the directory as the program sees it
  survives,  \* the directories a power loss may leave
  dirSync,   \* BOOLEAN: can the file system sync a directory?
  step,      \* what the goroutine does next; "off" without a process
  cancelled, \* BOOLEAN: ctx is done
  wait,      \* ticks until the timer fires
  name,      \* the backup in hand
  err,       \* BOOLEAN: did writing it fail?
  left,      \* prune: the names not looked at yet
  shown,     \* status.File, 0 if there is none
  failing,   \* BOOLEAN: the outage was announced
  budget     \* events left

disk == <<dir, survives, dirSync>>
memory == <<cancelled, wait, name, err, left, shown, failing>>
vars == <<now, disk, step, memory, budget>>

Times == 1..MaxTime
Files == {"backup", "temp"} \X Times
Contents == {"none", "torn", "cached", "whole"}
Steps == {"off", "seed", "wait", "clear", "vacuum", "vacuuming", "sync", "rename",
          "syncdir", "prune", "remove", "drop", "record"}

Temp == <<"temp", name>>
Final == <<"backup", name>>

(* list: the backups in a directory, named by their times. *)
Backups(d) == {t \in Times : d[<<"backup", t>>] # "none"}

(* A change of the directory: a power loss may find it made or not. *)
ChangeDir(d) == dir' = d /\ survives' = survives \cup {d}
Write(f, contents) == ChangeDir([dir EXCEPT ![f] = contents])

(* What is only in memory gets to the disk. *)
Written(d, files) == [f \in Files |-> IF f \in files /\ d[f] = "cached" THEN "whole" ELSE d[f]]
(* What is only in memory is lost, or was written in time. *)
AfterLoss(d) ==
  {[f \in Files |-> IF d[f] = "cached" THEN c ELSE d[f]] : c \in {"torn", "whole"}}

Init ==
  /\ now \in Times
  /\ \E old \in SUBSET Times :
       dir = [f \in Files |-> IF f[1] = "backup" /\ f[2] \in old THEN "whole" ELSE "none"]
  /\ survives = {dir}
  /\ dirSync \in BOOLEAN
  /\ step = "seed"
  /\ cancelled = FALSE
  /\ wait = 0
  /\ name = now
  /\ err = FALSE
  /\ left = {}
  /\ shown = 0
  /\ failing = FALSE
  /\ budget = MaxEvents

-----------------------------------------------------------------------------
(* The goroutine *)

Fails == budget > 0 /\ budget' = budget - 1
Works == budget' = budget

(* seed: the newest backup decides when the next one is due. *)
Seed ==
  /\ step = "seed"
  /\ step' = "wait"
  /\ \/ Works /\ Backups(dir) # {} /\ shown' = Max(Backups(dir))
     \/ Works /\ Backups(dir) = {} /\ UNCHANGED shown
     \/ Fails /\ UNCHANGED shown
  /\ wait' = IF shown' = 0 THEN 0 ELSE Max({0, shown' + Interval - now})
  /\ UNCHANGED <<now, disk, cancelled, name, err, left, failing>>

(* Start, its select and the check of ctx behind it. *)
Leave ==
  /\ step = "wait" /\ cancelled
  /\ step' = "off"
  /\ UNCHANGED <<now, disk, memory, budget>>

(* The timer fires: RunOnce names the backup after the time. *)
Fire ==
  /\ step = "wait" /\ wait = 0 /\ ~cancelled
  /\ step' = "clear"
  /\ name' = now
  /\ err' = FALSE
  /\ UNCHANGED <<now, disk, cancelled, wait, left, shown, failing, budget>>

(* write returns an error; once the deferred call is there it removes the temp. *)
Abort(to) == err' = TRUE /\ step' = to /\ UNCHANGED <<dir, survives>>
Proceed(to) == step' = to /\ Works /\ UNCHANGED err
Writing == UNCHANGED <<now, dirSync, cancelled, wait, name, left, shown, failing>>

(* MkdirAll, and the removal of a temp of that name. *)
Clear ==
  /\ step = "clear"
  /\ \/ Proceed("vacuum") /\ Write(Temp, "none")
     \/ Fails /\ Abort("record")
  /\ Writing

(* VACUUM INTO refuses an existing file, and a cancelled context. *)
Vacuum ==
  /\ step = "vacuum"
  /\ \/ ~cancelled /\ dir[Temp] = "none" /\ Proceed("vacuuming") /\ Write(Temp, "torn")
     \/ (cancelled \/ dir[Temp] # "none") /\ Works /\ Abort("drop")
     \/ Fails /\ Abort("drop")
  /\ Writing

VacuumEnds ==
  /\ step = "vacuuming"
  /\ \/ Proceed("sync") /\ Write(Temp, "cached")
     \/ cancelled /\ Works /\ Abort("drop")
     \/ Fails /\ Abort("drop")
  /\ Writing

(* syncFile: the contents of the temp, wherever a power loss leaves its name. *)
SyncFileSkipped == step = "sync" /\ Proceed("rename") /\ UNCHANGED <<dir, survives>> /\ Writing
SyncFile ==
  /\ step = "sync"
  /\ \/ /\ Proceed("rename")
        /\ dir' = Written(dir, {Temp})
        /\ survives' = {Written(d, {Temp}) : d \in survives}
     \/ Fails /\ Abort("drop")
  /\ Writing

Rename ==
  /\ step = "rename"
  /\ \/ Proceed("syncdir") /\ ChangeDir([dir EXCEPT ![Final] = dir[Temp], ![Temp] = "none"])
     \/ Fails /\ Abort("drop")
  /\ Writing

(* The sync of the directory is best effort. *)
SyncDir ==
  /\ step = "syncdir"
  /\ \/ dirSync /\ Proceed("prune") /\ survives' = {dir}
     \/ ~dirSync /\ Proceed("prune") /\ UNCHANGED survives
     \/ Fails /\ step' = "prune" /\ UNCHANGED <<err, survives>>
  /\ UNCHANGED dir
  /\ Writing

(* prune lists the backups once and removes the oldest, one by one; what cannot
   be listed or removed stays, and the backup counts as made. *)
ListForPrune ==
  /\ step = "prune"
  /\ \/ Works /\ left' = Backups(dir) /\ step' = "remove"
     \/ Fails /\ step' = "record" /\ UNCHANGED left
  /\ UNCHANGED <<now, disk, cancelled, wait, name, err, shown, failing>>

TooManyByOne(names) == Cardinality(names) >= Keep
TooMany(names) == Cardinality(names) > Keep
OldestFromTheEnd(names) == Max(names)
Oldest(names) == Min(names)
RemoveOldest ==
  /\ step = "remove" /\ TooMany(left)
  /\ left' = left \ {Oldest(left)}
  /\ \/ Works /\ Write(<<"backup", Oldest(left)>>, "none")
     \/ Fails /\ UNCHANGED <<dir, survives>>
  /\ UNCHANGED <<now, dirSync, step, cancelled, wait, name, err, shown, failing>>

Pruned ==
  /\ step = "remove" /\ ~TooMany(left)
  /\ left' = {}
  /\ step' = "record"
  /\ UNCHANGED <<now, disk, cancelled, wait, name, err, shown, failing, budget>>

(* The deferred removal of the temp, whose error is ignored. *)
DropTemp ==
  /\ step = "drop"
  /\ step' = "record"
  /\ \/ Works /\ Write(Temp, "none")
     \/ Fails /\ UNCHANGED <<dir, survives>>
  /\ UNCHANGED err /\ Writing

(* record, unless a shutdown cut the backup short, and Start's next due time. *)
LoopEndsOnError(failed) == IF failed THEN "ended" ELSE "wait"
Looped(failed) == "wait"
Record ==
  /\ step = "record"
  /\ step' = Looped(err)
  /\ wait' = IF err THEN Retry ELSE Interval
  /\ IF err /\ cancelled
     THEN UNCHANGED <<shown, failing>>
     ELSE /\ shown' = IF err THEN shown ELSE name
          /\ failing' = err
  /\ UNCHANGED <<now, disk, cancelled, name, err, left, budget>>

Loop ==
  \/ Seed \/ Leave \/ Fire \/ Clear \/ Vacuum \/ VacuumEnds \/ SyncFile \/ Rename \/ SyncDir
  \/ ListForPrune \/ RemoveOldest \/ Pruned \/ DropTemp \/ Record

-----------------------------------------------------------------------------
(* Its surroundings *)

(* Time passes, a minute or more, in which the system writes everything out.
   Timers run on the monotonic clock. *)
Tick ==
  /\ now < MaxTime \/ wait > 0
  /\ now' = Min({now + 1, MaxTime})
  /\ wait' = Max({wait - 1, 0})
  /\ dir' = Written(dir, Files)
  /\ survives' = {dir'}
  /\ UNCHANGED <<dirSync, step, cancelled, name, err, left, shown, failing, budget>>

(* The clock is set, forward or back; a running timer does not notice. *)
SetClock(t) ==
  /\ Fails
  /\ now' = t
  /\ UNCHANGED <<disk, step, memory>>

(* SIGTERM; main waits for the goroutine. *)
Shutdown ==
  /\ step # "off" /\ ~cancelled
  /\ Fails
  /\ cancelled' = TRUE
  /\ UNCHANGED <<now, disk, step, wait, name, err, left, shown, failing>>

(* The process dies; what it told the system to write is still written. *)
Crash ==
  /\ step # "off"
  /\ Fails
  /\ step' = "off"
  /\ UNCHANGED <<now, disk, memory>>

PowerLoss ==
  /\ Fails
  /\ \E d \in survives : dir' \in AfterLoss(d)
  /\ survives' = {dir'}
  /\ step' = "off"
  /\ UNCHANGED <<now, dirSync, memory>>

(* A new process, which remembers nothing. *)
Start ==
  /\ step = "off"
  /\ step' = "seed"
  /\ cancelled' = FALSE
  /\ wait' = 0
  /\ err' = FALSE
  /\ left' = {}
  /\ shown' = 0
  /\ failing' = FALSE
  /\ UNCHANGED <<now, disk, name, budget>>

Environment == Tick \/ (\E t \in Times : SetClock(t)) \/ Shutdown \/ Crash \/ PowerLoss \/ Start

Next == Loop \/ Environment

(* The goroutine runs on, and so does time; nobody has to start a process again. *)
Fairness == WF_vars(Loop) /\ WF_vars(Tick)
Spec == Init /\ [][Next]_vars /\ Fairness

-----------------------------------------------------------------------------
(* Properties *)

Directories == [Files -> Contents]

(* Every variable has its type (New and Start set them, backup.go:70-108). *)
TypeOK ==
  /\ now \in Times
  /\ dir \in Directories
  /\ survives \subseteq Directories
  /\ dirSync \in BOOLEAN
  /\ step \in Steps
  /\ cancelled \in BOOLEAN
  /\ wait \in Nat
  /\ name \in Times
  /\ err \in BOOLEAN
  /\ left \in SUBSET Times
  /\ shown \in Times \cup {0}
  /\ failing \in BOOLEAN
  /\ budget \in 0..MaxEvents

(* No crash and no power loss, at whatever step, leaves a file under a backup's
   name that is not a whole backup (write, backup.go:203-234). *)
BackupsAreWhole ==
  \A d \in survives \cup {dir} : \A t \in Backups(d) : d[<<"backup", t>>] = "whole"

(* The backups there are whatever a power loss does next. *)
SafeBackups == Min({Cardinality(Backups(d)) : d \in survives})

(* Pruning, overwriting, failing and crashing never lower the number of safe
   backups below the number to keep: the new one is safe before an old one goes,
   also where the directory cannot be synced (RunOnce, prune). *)
KeepIsKept == [][SafeBackups' >= Min({Keep, SafeBackups})]_vars

(* The backup the page shows as the newest is in the directory, or the clock was
   set back and as many as are kept have later names (seed, record, prune). *)
ShownIsKept ==
  shown # 0 /\ step # "off" =>
    \/ shown \in Backups(dir)
    \/ Cardinality({t \in Backups(dir) : t > shown}) >= Keep

(* While the process runs there is always another backup, whatever failed before
   (Start's loop and its shorter delay after an error). *)
BackupsGoOn == []<>(step \in {"off", "syncdir"} \/ cancelled)
=============================================================================
