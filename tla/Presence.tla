------------------------------ MODULE Presence ------------------------------
(***************************************************************************)
(* The iface_status table under concurrent callers.  Sweeps of different   *)
(* subnets run in parallel, an interface can have addresses in several of  *)
(* them, and the WireGuard sync marks its peers too, so several goroutines *)
(* run MarkSeen and MarkMissed on one row at once.  Each is a sequence of  *)
(* SQL statements without a transaction; a statement is one step here and  *)
(* the steps of different callers interleave freely.  After the call the   *)
(* caller emits the event its result asks for (engine.go:193-204, 166-174, *)
(* 241-249; wireguard/sync.go:153-165).                                    *)
(*                                                                         *)
(* Kept: every statement, its WHERE clause, its row count and the early    *)
(* return it decides, statements that fail before or after they take       *)
(* effect, deletion of the interface under a call and reuse of its id      *)
(* (INTEGER PRIMARY KEY without AUTOINCREMENT).                            *)
(* Left out: timestamps, RTT and the availability table, which no guard    *)
(* reads.                                                                  *)
(***************************************************************************)
EXTENDS Naturals

CONSTANTS
  Ifaces,      \* interface ids
  Callers,     \* goroutines that mark interfaces seen or missed
  Thresholds,  \* values offline_after takes: 1..10 in a sweep, 1 for WireGuard
  MissCap      \* missed_sweeps saturates here, at or above every threshold

ASSUME ThresholdsAssumption == Thresholds \subseteq Nat \ {0}
ASSUME IfacesAssumption == Ifaces # {} /\ Thresholds # {}
ASSUME MissCapAssumption == MissCap \in Nat /\ \A n \in Thresholds : n <= MissCap

VARIABLES
  exists,      \* [Ifaces -> BOOLEAN]: the iface row is there
  status,      \* [Ifaces -> Statuses]: iface_status.online, "none" without a row
  missed,      \* [Ifaces -> 0..MissCap]: iface_status.missed_sweeps
  at,          \* [Callers -> Steps]: the statement a caller runs next
  subject,     \* [Callers -> Ifaces]: the interface its call is about
  limit,       \* [Callers -> Thresholds]: the offlineAfter of its MarkMissed
  discovering  \* [Callers -> BOOLEAN]: the call is createUnknown's MarkSeen

vars == <<exists, status, missed, at, subject, limit, discovering>>
calls == <<subject, limit, discovering>>
table == <<exists, status, missed>>

Statuses == {"none", "online", "offline"}
SeenSteps == {"insert", "flip", "refresh"}
MissSteps == {"count", "takeDown"}
SaySteps == {"sayOnline", "sayOffline", "sayNew", "sayError"}
Steps == {"idle"} \cup SeenSteps \cup MissSteps \cup SaySteps

TypeOK ==
  /\ exists \in [Ifaces -> BOOLEAN]
  /\ status \in [Ifaces -> Statuses]
  /\ missed \in [Ifaces -> 0..MissCap]
  /\ at \in [Callers -> Steps]
  /\ subject \in [Callers -> Ifaces]
  /\ limit \in [Callers -> Thresholds]
  /\ discovering \in [Callers -> BOOLEAN]

(* What the variables of a call hold between calls. *)
AnyIface == CHOOSE i \in Ifaces : TRUE
AnyLimit == CHOOSE n \in Thresholds : TRUE

Init ==
  /\ exists \in [Ifaces -> BOOLEAN]
  /\ status = [i \in Ifaces |-> "none"]
  /\ missed = [i \in Ifaces |-> 0]
  /\ at = [c \in Callers |-> "idle"]
  /\ subject = [c \in Callers |-> AnyIface]
  /\ limit = [c \in Callers |-> AnyLimit]
  /\ discovering = [c \in Callers |-> FALSE]

-----------------------------------------------------------------------------
(* Control of one call. *)

Goto(c, step) ==
  /\ at' = [at EXCEPT ![c] = step]
  /\ UNCHANGED calls

Idle(c) ==
  /\ at' = [at EXCEPT ![c] = "idle"]
  /\ subject' = [subject EXCEPT ![c] = AnyIface]
  /\ limit' = [limit EXCEPT ![c] = AnyLimit]
  /\ discovering' = [discovering EXCEPT ![c] = FALSE]

(* The call returns false or an error: no transition to report.  createUnknown
   ignores the result and goes on to emit device_new. *)
Return(c) == IF discovering[c] THEN Goto(c, "sayNew") ELSE Idle(c)

(* MarkSeen returns true: the caller emits "online", createUnknown device_new. *)
ReturnOnline(c) == Goto(c, IF discovering[c] THEN "sayNew" ELSE "sayOnline")

(* The call returns the error of a statement that made a transition: the caller
   logs or ignores it and emits no event; createUnknown emits device_new. *)
ReturnError(c) == Goto(c, IF discovering[c] THEN "sayNew" ELSE "sayError")

Begin(c, i, step, n, new) ==
  /\ at[c] = "idle"
  /\ at' = [at EXCEPT ![c] = step]
  /\ subject' = [subject EXCEPT ![c] = i]
  /\ limit' = [limit EXCEPT ![c] = n]
  /\ discovering' = [discovering EXCEPT ![c] = new]

-----------------------------------------------------------------------------
(* What the statements do to the row of the call's interface, when their WHERE
   clauses match it. *)

ShowOnline(i) ==
  /\ status' = [status EXCEPT ![i] = "online"]
  /\ missed' = [missed EXCEPT ![i] = 0]
  /\ UNCHANGED exists

InsertLands(c) ==
  /\ exists[subject[c]] /\ status[subject[c]] = "none"
  /\ ShowOnline(subject[c])

FlipLands(c) ==
  /\ status[subject[c]] = "offline"
  /\ ShowOnline(subject[c])

ClearMisses(c) ==
  /\ missed' = [missed EXCEPT ![subject[c]] = 0]
  /\ UNCHANGED <<exists, status>>

AddMiss(c) ==
  /\ status[subject[c]] # "none"
  /\ missed' = [missed EXCEPT ![subject[c]] = IF @ < MissCap THEN @ + 1 ELSE MissCap]
  /\ UNCHANGED <<exists, status>>

TakeDownLands(c) ==
  /\ status[subject[c]] = "online" /\ missed[subject[c]] >= limit[c]
  /\ status' = [status EXCEPT ![subject[c]] = "offline"]
  /\ UNCHANGED <<exists, missed>>

-----------------------------------------------------------------------------
(* MarkSeen *)

BeginSeen(c, i) ==
  /\ Begin(c, i, "insert", AnyLimit, FALSE)
  /\ UNCHANGED table

(* createUnknown: the interface is created, then marked seen. *)
Discover(c, i) ==
  /\ ~exists[i]
  /\ Begin(c, i, "insert", AnyLimit, TRUE)
  /\ exists' = [exists EXCEPT ![i] = TRUE]
  /\ UNCHANGED <<status, missed>>

(* Faulty variant: no foreign key on iface_status.iface_id. *)
InsertStatusUnchecked(c) ==
  /\ at[c] = "insert"
  /\ \/ status[subject[c]] = "none" /\ ShowOnline(subject[c]) /\ ReturnOnline(c)
     \/ status[subject[c]] # "none" /\ Goto(c, "flip") /\ UNCHANGED table

(* INSERT ... ON CONFLICT(iface_id) DO NOTHING.  A deleted interface fails the
   foreign key and the call returns the error. *)
InsertStatus(c) ==
  /\ at[c] = "insert"
  /\ \/ InsertLands(c) /\ ReturnOnline(c)
     \/ ~exists[subject[c]] /\ Return(c) /\ UNCHANGED table
     \/ exists[subject[c]] /\ status[subject[c]] # "none" /\ Goto(c, "flip") /\ UNCHANGED table

(* Faulty variant: the flip lacks AND online=FALSE, so it always claims a row. *)
FlipAnyRow(c) ==
  /\ at[c] = "flip"
  /\ \/ status[subject[c]] # "none" /\ ShowOnline(subject[c]) /\ ReturnOnline(c)
     \/ status[subject[c]] = "none" /\ Goto(c, "refresh") /\ UNCHANGED table

(* Faulty variant: the flip matches AND missed_sweeps>0 in place of online=FALSE. *)
FlipIfMissed(c) ==
  /\ at[c] = "flip"
  /\ \/ FlipLands(c) /\ missed[subject[c]] > 0 /\ ReturnOnline(c)
     \/ /\ ~(status[subject[c]] = "offline" /\ missed[subject[c]] > 0)
        /\ Goto(c, "refresh") /\ UNCHANGED table

(* UPDATE ... SET online=TRUE, missed_sweeps=0 WHERE iface_id=? AND online=FALSE *)
FlipOnline(c) ==
  /\ at[c] = "flip"
  /\ \/ FlipLands(c) /\ ReturnOnline(c)
     \/ status[subject[c]] # "offline" /\ Goto(c, "refresh") /\ UNCHANGED table

(* UPDATE ... SET last_seen=?, missed_sweeps=0 WHERE iface_id=?: online is not set. *)
Refresh(c) ==
  /\ at[c] = "refresh"
  /\ ClearMisses(c) /\ Return(c)

-----------------------------------------------------------------------------
(* MarkMissed *)

(* Faulty variant: an unusable offline_after is not replaced by the default. *)
BeginMissedUnbounded(c, i, n) ==
  /\ Begin(c, i, "count", 0, FALSE)
  /\ UNCHANGED table

BeginMissed(c, i, n) ==
  /\ Begin(c, i, "count", n, FALSE)
  /\ UNCHANGED table

(* UPDATE ... SET missed_sweeps=missed_sweeps+1; no row, nothing to mark. *)
CountMiss(c) ==
  /\ at[c] = "count"
  /\ \/ AddMiss(c) /\ Goto(c, "takeDown")
     \/ status[subject[c]] = "none" /\ Return(c) /\ UNCHANGED table

(* Faulty variant: missed_sweeps=offlineAfter in place of >=. *)
TakeDownAtExactly(c) ==
  /\ at[c] = "takeDown"
  /\ \/ TakeDownLands(c) /\ missed[subject[c]] = limit[c] /\ Goto(c, "sayOffline")
     \/ /\ ~(status[subject[c]] = "online" /\ missed[subject[c]] = limit[c])
        /\ Return(c) /\ UNCHANGED table

(* Faulty variant: going offline starts the count over. *)
TakeDownAndReset(c) ==
  /\ at[c] = "takeDown"
  /\ \/ /\ status[subject[c]] = "online" /\ missed[subject[c]] >= limit[c]
        /\ status' = [status EXCEPT ![subject[c]] = "offline"]
        /\ missed' = [missed EXCEPT ![subject[c]] = 0]
        /\ Goto(c, "sayOffline") /\ UNCHANGED exists
     \/ /\ ~(status[subject[c]] = "online" /\ missed[subject[c]] >= limit[c])
        /\ Return(c) /\ UNCHANGED table

(* UPDATE ... SET online=FALSE WHERE online=TRUE AND missed_sweeps>=offlineAfter *)
TakeDown(c) ==
  /\ at[c] = "takeDown"
  /\ \/ TakeDownLands(c) /\ Goto(c, "sayOffline")
     \/ /\ ~(status[subject[c]] = "online" /\ missed[subject[c]] >= limit[c])
        /\ Return(c) /\ UNCHANGED table

-----------------------------------------------------------------------------
(* The event the caller emits, and failures. *)

(* Events.Emit returns: the event row is written, or the write failed and was
   logged; or the call's own error is handled.  Either way the caller goes on. *)
Say(c) ==
  /\ at[c] \in SaySteps
  /\ Idle(c)
  /\ UNCHANGED table

(* A statement fails (database down, context cancelled) before it has an effect
   and the call returns its error; what earlier statements did stays done. *)
StatementFails(c) ==
  /\ at[c] \in SeenSteps \cup MissSteps
  /\ Return(c)
  /\ UNCHANGED table

(* A statement takes effect, but an error is returned in place of its row count
   (the connection or the context ends before the answer, RowsAffected fails). *)
AnswerLost(c) ==
  \/ at[c] = "insert" /\ InsertLands(c) /\ ReturnError(c)
  \/ at[c] = "flip" /\ FlipLands(c) /\ ReturnError(c)
  \/ at[c] = "refresh" /\ ClearMisses(c) /\ Return(c)
  \/ at[c] = "count" /\ AddMiss(c) /\ Return(c)
  \/ at[c] = "takeDown" /\ TakeDownLands(c) /\ ReturnError(c)

(* Other actors: a user or an integration creates or deletes the interface. *)
CreateIface(i) ==
  /\ ~exists[i]
  /\ exists' = [exists EXCEPT ![i] = TRUE]
  /\ UNCHANGED <<status, missed, at, calls>>

(* ON DELETE CASCADE takes the status row along; the id may be used again. *)
DeleteIface(i) ==
  /\ exists[i]
  /\ exists' = [exists EXCEPT ![i] = FALSE]
  /\ status' = [status EXCEPT ![i] = "none"]
  /\ missed' = [missed EXCEPT ![i] = 0]
  /\ UNCHANGED <<at, calls>>

-----------------------------------------------------------------------------
(* One statement or event of c's call, as the code intends it. *)
Advance(c) ==
  \/ InsertStatus(c)
  \/ FlipOnline(c)
  \/ Refresh(c)
  \/ CountMiss(c)
  \/ TakeDown(c)
  \/ Say(c)

Next ==
  \/ \E c \in Callers : Advance(c) \/ StatementFails(c) \/ AnswerLost(c)
  \/ \E c \in Callers : \E i \in Ifaces : BeginSeen(c, i) \/ Discover(c, i)
  \/ \E c \in Callers : \E i \in Ifaces : \E n \in Thresholds : BeginMissed(c, i, n)
  \/ \E i \in Ifaces : CreateIface(i) \/ DeleteIface(i)

Safety == Init /\ [][Next]_vars

(* A call that has begun goes on to its end: the goroutine is running. *)
Spec == Safety /\ \A c \in Callers : WF_vars(Advance(c))

-----------------------------------------------------------------------------
(* Properties *)

(* The inductive invariant the proofs use: a call started by createUnknown is a
   MarkSeen call until its device_new is emitted. *)
DiscoveringIsSeeing ==
  \A c \in Callers : discovering[c] => at[c] \in SeenSteps \cup {"sayNew"}

(* The event a caller has still to emit, or the error it has in its place. *)
Owing(c) ==
  IF discovering[c] THEN <<subject[c], "new">>
  ELSE IF at[c] = "sayOnline" THEN <<subject[c], "online">>
  ELSE IF at[c] = "sayOffline" THEN <<subject[c], "offline">>
  ELSE IF at[c] = "sayError" THEN <<subject[c], "error">>
  ELSE <<>>

Owings == [c \in Callers |-> Owing(c)]

Contract == INSTANCE PresenceAbs WITH owing <- Owings

(* The statement sequences keep the contract: every transition between online
   and offline is reported by exactly one caller, or known to have failed by
   exactly one, whichever way concurrent MarkSeen and MarkMissed calls
   interleave, fail before or after a statement's effect, or lose their
   interface. *)
ImplementsContract == Contract!Spec

(* An interface row is there whenever its status row is: a call that outlives
   its interface leaves no status row that a later interface of the same id
   would inherit. *)
NoOrphanStatus == \A i \in Ifaces : status[i] = "none" \/ exists[i]

(* A step clears misses of i, or revives it, while its interface lives on. *)
Forgiven(i) ==
  /\ exists[i] /\ exists'[i]
  /\ missed'[i] < missed[i] \/ (status[i] = "offline" /\ status'[i] = "online")

BeingSeen(i) == \E c \in Callers : subject[c] = i /\ at[c] \in SeenSteps

(* Misses are only ever cleared by a sighting and presence only revived by one:
   a MarkMissed in progress never raises an interface or forgives a miss. *)
MissNeverForgives == [][\A i \in Ifaces : Forgiven(i) => BeingSeen(i)]_vars

(* Nobody is inside MarkSeen, or MarkMissed, on i. *)
Calm(i, steps) == \A c \in Callers : subject[c] = i => at[c] \notin steps

(* The call c makes on i runs step and it is not the step's early return. *)
Counts(c, i) == subject[c] = i /\ TakeDown(c)
Sights(c, i) == subject[c] = i /\ ((Refresh(c) \/ FlipOnline(c)) /\ at'[c] \notin SeenSteps)

(* An interface no sweep sees any more goes offline and stays so: it exists,
   nobody is marking it seen, and misses keep being recorded. *)
SilentGoesOffline ==
  \A i \in Ifaces :
    (/\ <>[](exists[i] /\ Calm(i, SeenSteps))
     /\ \E c \in Callers : []<><<Counts(c, i)>>_vars)
    => <>[](status[i] # "online")

(* An interface that keeps answering is shown online in the end, whatever a
   concurrent miss did to its row before: nobody counts misses any more and
   sightings keep completing. *)
AnsweringComesOnline ==
  \A i \in Ifaces :
    (/\ <>[](exists[i] /\ Calm(i, MissSteps))
     /\ \E c \in Callers : []<><<Sights(c, i)>>_vars)
    => <>[](status[i] = "online")

(* docs/discovery.md:17-18 says a device is marked offline after offline_after
   consecutive missed sweeps.  Read on the row: an interface shown offline has
   misses on its counter, since the answer that resets the counter is the
   answer that brings it online. *)
OfflineHasMisses == \A i \in Ifaces : status[i] = "offline" => missed[i] > 0
=============================================================================
