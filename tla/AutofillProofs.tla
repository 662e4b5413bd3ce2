--------------------------- MODULE AutofillProofs ---------------------------
(***************************************************************************)
(* What holds of autofill for any fields, tags and values and any number   *)
(* of changes and failures.  A pass decides from what it read some         *)
(* statements ago.  The records it read cannot change under it, since all  *)
(* that change them hold the mutex of Run; the device can, and for that    *)
(* the transaction compares.  The invariant says what a plan is worth      *)
(* while it waits for its transaction (PlanOK), that what was applied and  *)
(* is not there any more was replaced by somebody else, in the rows as in  *)
(* what a pass has read of them (ReplacedOK), and that whatever the        *)
(* evidence gives is on its way into the device or a kick is (Covered).    *)
(***************************************************************************)
EXTENDS Autofill, TLAPS

(* One pass at a time (the mutex of Run). *)
Exclusive == \A p, q \in Passers : at[p] \in Inside /\ at[q] \in Inside => p = q

(* A write is meant for an empty field, or for a value autofill applied. *)
WriteOK(w) ==
  /\ w.value # w.expect
  /\ state[w.field] # "owned"
  /\ \/ w.expect = Blank /\ (w.field = Name => w.unreviewed)
     \/ w.unreviewed /\ state[w.field] = "applied" /\ w.expect = wrote[w.field]

(* What a pass decided is still right of the records, and of each field it  *)
(* decided one thing.                                                       *)
PlanOK == \A p \in Passers :
  /\ at[p] # "apply" => plan[p] = NoPlan
  /\ \A w \in plan[p].writes : WriteOK(w) /\ w.field \notin plan[p].own
  /\ \A w, x \in plan[p].writes : w.field = x.field => w = x
  /\ \A t \in plan[p].tags : state[t] = "none"

(* An applied value that is not there any more was replaced by somebody    *)
(* else: in the rows, in what a pass has read, and in what it decided.     *)
Replaced(v, ts) ==
  /\ \A f \in Fields : state[f] = "applied" /\ v[f] # wrote[f] => f \in touched
  /\ \A t \in Tags : state[t] = "applied" /\ t \notin ts => t \in touched
ReplacedOK ==
  /\ Replaced(val, tags)
  /\ \A p \in Passers : at[p] \in {"tags", "records"} => Replaced(view[p].val, Tags)
  /\ \A p \in Passers : at[p] = "records" => Replaced(view[p].val, view[p].tags)
  /\ \A p \in Passers : plan[p].own \subseteq touched

(* A pass that has not begun yet will see all there is. *)
Pending == kick > 0 \/ owing \/ at["loop"] = "run" \/ at["probe"] = "run"

(* The device as it is, but for a review that came later. *)
Now(rev) ==
  [val |-> val, reviewed |-> rev, hint |-> hint, tagHints |-> tagHints, tags |-> tags]

(* Unless a pass is still to begin, the pass under way has read the device  *)
(* as it is, and without one there is nothing to write.                     *)
UpToDate(p) ==
  /\ at[p] \in {"tags", "records"} =>
       /\ view[p].val = val /\ (view[p].reviewed => reviewed)
       /\ view[p].hint = hint /\ view[p].tagHints = tagHints
  /\ at[p] = "records" => view[p].tags = tags
  /\ at[p] = "apply" => \E rev \in BOOLEAN :
       (rev => reviewed) /\ plan[p] = Decide(Now(rev), state, wrote)
Covered ==
  ~disturbed /\ ~Pending /\ ~stop =>
    /\ \A p \in Passers : UpToDate(p)
    /\ (\A p \in Passers : at[p] \notin Inside) => Left = NoPlan

IInv == TypeOK /\ Exclusive /\ PlanOK /\ ReplacedOK /\ Covered

-----------------------------------------------------------------------------
(* Types *)

(* What decide decides for a pass that has read types is a plan. *)
LEMMA DecideType ==
  ASSUME NEW v \in Views, NEW st \in [Keys -> States], NEW wr \in Contents
  PROVE  Decide(v, st, wr) \in Plans
<1>1. Taken(v, st, wr) \subseteq Keys
  BY DEF Taken, Keys
<1>2. Added(v, st) \subseteq Tags
  BY DEF Added, Views
<1>3. ASSUME NEW f \in Filled(v, st, wr)
      PROVE  [field |-> f, value |-> v.hint[f], expect |-> v.val[f],
              unreviewed |-> f = Name \/ ~Empty(f, v.val[f], v.reviewed)] \in Writes
  <2>1. f \in Fields /\ v.hint[f] \in Values /\ v.val[f] \in Values \cup {Blank}
    BY DEF Filled, Views, Contents
  <2>2. (f = Name \/ ~Empty(f, v.val[f], v.reviewed)) \in BOOLEAN
    OBVIOUS
  <2> QED BY <2>1, <2>2 DEF Writes
<1> QED BY <1>1, <1>2, <1>3 DEF Decide, Plans

(* What the transaction does to a field: it writes the one value that was   *)
(* decided for it, if the field is as it was read, or nothing.              *)
LEMMA ApplyField ==
  ASSUME NEW p \in Passers, Apply(p), NEW f \in Fields
  PROVE  \/ \E w \in plan[p].writes :
              /\ w.field = f /\ Lands(w)
              /\ val'[f] = w.value /\ wrote'[f] = w.value /\ state'[f] = "applied"
         \/ /\ \A w \in plan[p].writes : w.field = f => ~Lands(w)
            /\ val'[f] = val[f] /\ wrote'[f] = wrote[f]
            /\ f \notin plan[p].tags =>
                 state'[f] = IF f \in plan[p].own THEN "owned" ELSE state[f]
<1> DEFINE done == {w \in plan[p].writes : Lands(w)}
           fields == {w.field : w \in done}
           added == plan[p].tags \ tags
           Value(g) == (CHOOSE w \in done : w.field = g).value
<1>1. /\ val'[f] = IF f \in fields THEN Value(f) ELSE val[f]
      /\ wrote'[f] = IF f \in fields THEN Value(f) ELSE wrote[f]
      /\ state'[f] = IF f \in fields \cup added THEN "applied"
                     ELSE IF f \in plan[p].own THEN "owned" ELSE state[f]
  BY DEF Apply, Keys
<1>2. CASE f \in fields
  <2>1. \E w \in done : w.field = f
    BY <1>2
  <2>2. PICK w : w \in done /\ w.field = f /\ Value(f) = w.value
    BY <2>1
  <2> QED BY <1>1, <1>2, <2>2
<1>3. CASE f \notin fields
  BY <1>1, <1>3
<1> QED BY <1>2, <1>3

(* A tag that was decided on and is not there is added. *)
LEMMA ApplyTag ==
  ASSUME NEW p \in Passers, Apply(p), NEW t \in Tags, TypeOK
  PROVE  IF t \in plan[p].tags \ tags
         THEN state'[t] = "applied" /\ t \in tags'
         ELSE /\ state'[t] = IF t \in plan[p].own THEN "owned" ELSE state[t]
              /\ t \in tags' <=> t \in tags
<1>1. \A w \in plan[p].writes : w.field \in Fields
  BY DEF TypeOK, Plans, Writes
<1>2. t \notin Fields /\ t \in Keys
  BY DataAssumption DEF Keys
<1> QED BY <1>1, <1>2 DEF Apply

(* The rest of the transaction. *)
LEMMA ApplyTypes ==
  ASSUME NEW p \in Passers, Apply(p), TypeOK
  PROVE  /\ val' \in Contents /\ wrote' \in Contents /\ state' \in [Keys -> States]
         /\ tags' \in SUBSET Tags /\ touched' \in SUBSET Keys
<1>1. plan[p] \in Plans
  BY DEF TypeOK
<1>2. ASSUME NEW f \in Fields
      PROVE  val'[f] \in Values \cup {Blank} /\ wrote'[f] \in Values \cup {Blank}
  BY <1>1, ApplyField DEF TypeOK, Contents, Plans, Writes
<1>3. DOMAIN val' = Fields /\ DOMAIN wrote' = Fields
  BY DEF Apply
<1>4. val' = [f \in Fields |-> val'[f]] /\ wrote' = [f \in Fields |-> wrote'[f]]
  BY DEF Apply
<1>5. val' \in Contents /\ wrote' \in Contents
  BY <1>2, <1>4 DEF Contents
<1>6. state' \in [Keys -> States]
  BY DEF Apply, TypeOK, States
<1>7. tags' \in SUBSET Tags /\ touched' \in SUBSET Keys
  BY <1>1 DEF Apply, TypeOK, Plans
<1> QED BY <1>5, <1>6, <1>7

(* The device a sweep creates, and the waiting service.                     *)
LEMMA TypeInit == Init => TypeOK
<1> SUFFICES ASSUME Init PROVE TypeOK
  OBVIOUS
<1>1. Nothing \in Contents
  BY DEF Nothing, Contents
<1>2. NoView \in Views /\ NoPlan \in Plans /\ NoForm \in [val : Contents, tags : SUBSET Tags]
  BY <1>1 DEF NoView, NoPlan, NoForm, Views, Plans
<1>3. at \in [Passers -> Steps]
  BY DEF Init, Passers, Steps, Inside
<1>4. state \in [Keys -> States]
  BY DEF Init, States
<1>5. kick \in 0..1 /\ probes \in 0..ProbeCap /\ news \in 0..MaxNews /\ budget \in 0..MaxEvents
  BY BoundsAssumption DEF Init
<1> QED
  BY <1>1, <1>2, <1>3, <1>4, <1>5 DEF Init, TypeOK

(* Every statement writes what its column holds. *)
LEMMA TypeStep ==
  ASSUME TypeOK, [Next]_vars
  PROVE  TypeOK'
<1> USE BoundsAssumption DEF TypeOK, Passers, Steps, Inside
<1>a. NoView \in Views /\ NoPlan \in Plans /\ NoForm \in [val : Contents, tags : SUBSET Tags]
      /\ Nothing \in Contents
  BY DEF NoView, NoPlan, NoForm, Nothing, Views, Plans, Contents
<1>1. ASSUME NEW p \in Passers, Disabled(p) PROVE TypeOK'
  BY <1>a, <1>1 DEF Disabled, Fails, Event, Home, device, records, evidence, passes, asked,
     save, bounds, history
<1>2. ASSUME NEW p \in Passers, Lock(p) PROVE TypeOK'
  BY <1>a, <1>2 DEF Lock, device, records, evidence, passes, asked, save, bounds, history
<1>3. ASSUME NEW p \in Passers, ReadDevice(p) PROVE TypeOK'
  BY <1>a, <1>3 DEF ReadDevice, Read, Views, device, records, evidence, passes, asked, save,
     bounds, history
<1>4. ASSUME NEW p \in Passers, ReadTags(p) PROVE TypeOK'
  BY <1>a, <1>4 DEF ReadTags, Read, Views, device, records, evidence, passes, asked, save,
     bounds, history
<1>5. ASSUME NEW p \in Passers, ReadRecords(p) PROVE TypeOK'
  <2>1. view[p] \in Views
    OBVIOUS
  <2>2. Decide(view[p], state, wrote) \in Plans
    BY <2>1, DecideType
  <2> QED
    BY <1>a, <2>2, <1>5
       DEF ReadRecords, Home, device, records, evidence, asked, save, bounds, history
<1>6. ASSUME NEW p \in Passers, Apply(p) PROVE TypeOK'
  <2>1. at'[p] \in Steps /\ at' \in [Passers -> Steps] /\ plan' \in [Passers -> Plans]
    BY <1>a, <1>6 DEF Apply, Home
  <2>2. /\ val' \in Contents /\ wrote' \in Contents /\ state' \in [Keys -> States]
        /\ tags' \in SUBSET Tags /\ touched' \in SUBSET Keys
    BY <1>6, ApplyTypes
  <2> QED BY <2>1, <2>2, <1>6 DEF Apply, evidence, asked, save, bounds
<1>7. ASSUME NEW p \in Passers, GiveUp(p) PROVE TypeOK'
  BY <1>a, <1>7 DEF GiveUp, Fails, Event, Home, device, records, evidence, passes, asked,
     save, bounds, history
<1>8. CASE Pause
  BY <1>a, <1>8 DEF Pause, device, records, evidence, passes, asked, save, bounds, history
<1>9. CASE Woken
  BY <1>a, <1>9 DEF Woken, device, records, evidence, passes, asked, save, bounds, history
<1>10. CASE LoopEnds
  BY <1>a, <1>10 DEF LoopEnds, device, records, evidence, passes, asked, save, bounds,
     history
<1>11. CASE ProbeSkipped
  BY <1>a, <1>11 DEF ProbeSkipped, device, records, evidence, passes, asked, save, bounds,
     history
<1>12. CASE ProbeAnswered
  BY <1>a, <1>12 DEF ProbeAnswered, Learn, Contents, Flip, device, records, evidence,
     passes, asked, save, bounds, history
<1>13. CASE ProbeEnds
  BY <1>a, <1>13 DEF ProbeEnds, device, records, evidence, passes, asked, save, bounds,
     history
<1>14. CASE SweepLearns
  BY <1>a, <1>14 DEF SweepLearns, Learn, Contents, Flip, device, records, evidence, passes,
     asked, save, bounds, history
<1>15. CASE ProbeAndKick
  <2>1. kick' \in 0..1 /\ probes' \in 0..ProbeCap
    BY <1>15 DEF ProbeAndKick, Kicked
  <2>2. owing' \in BOOLEAN /\ disturbed' \in BOOLEAN
    BY <1>15 DEF ProbeAndKick, Kicked
  <2> QED
    BY <2>1, <2>2, <1>15 DEF ProbeAndKick, device, records, evidence, passes, save, bounds
<1>16. CASE EditOpen
  BY <1>a, <1>16 DEF EditOpen, Edit, Event, Contents, Flip, device, records, evidence,
     passes, asked, save, bounds, history
<1>17. CASE EditSave
  BY <1>a, <1>17 DEF EditSave, Noted, Keys, device, records, evidence, passes, asked, save,
     bounds, history
<1>18. CASE EditRead
  BY <1>a, <1>18 DEF EditRead, device, records, evidence, passes, asked, save, bounds,
     history
<1>19. CASE EditSync
  BY <1>a, <1>19 DEF EditSync, Noted, Keys, device, records, evidence, passes, asked, save,
     bounds, history
<1>20. CASE EditLeaves
  BY <1>a, <1>20 DEF EditLeaves, device, records, evidence, passes, asked, save, bounds,
     history
<1>21. CASE ImportFills
  BY <1>a, <1>21 DEF ImportFills, Edit, Event, Noted, Keys, Contents, device, records,
     evidence, passes, asked, save, bounds, history
<1>22. CASE Retag
  BY <1>a, <1>22 DEF Retag, Edit, Event, Noted, Keys, Flip, device, records, evidence,
     passes, asked, save, bounds, history
<1>23. CASE Approve
  BY <1>a, <1>23 DEF Approve, Edit, Event, device, records, evidence, passes, asked, save,
     bounds, history
<1>24. CASE Stop
  BY <1>a, <1>24 DEF Stop, device, records, evidence, passes, asked, save, bounds, history
<1>25. CASE UNCHANGED vars
  BY <1>a, <1>25 DEF vars, device, records, evidence, passes, asked, save, bounds, history
<1> QED
  BY <1>1, <1>2, <1>3, <1>4, <1>5, <1>6, <1>7, <1>8, <1>9, <1>10, <1>11, <1>12, <1>13,
     <1>14, <1>15, <1>16, <1>17, <1>18, <1>19, <1>20, <1>21, <1>22, <1>23, <1>24, <1>25 DEF
     Next, Pass, Service, Worker, People

-----------------------------------------------------------------------------
(* The mutex *)

(* Only Lock enters, and only when nobody is inside (Run: s.mu). *)
LEMMA ExclusiveStep ==
  ASSUME TypeOK, Exclusive, [Next]_vars
  PROVE  Exclusive'
<1> USE DEF TypeOK, Exclusive, Passers, Inside
<1>1. ASSUME NEW p \in Passers, Disabled(p) PROVE Exclusive'
  BY <1>1 DEF Disabled, Fails, Event, Home, device, records, evidence, passes, asked, save,
     bounds, history
<1>2. ASSUME NEW p \in Passers, Lock(p) PROVE Exclusive'
  BY <1>2 DEF Lock, device, records, evidence, passes, asked, save, bounds, history
<1>3. ASSUME NEW p \in Passers, ReadDevice(p) PROVE Exclusive'
  BY <1>3 DEF ReadDevice, Read, device, records, evidence, passes, asked, save, bounds,
     history
<1>4. ASSUME NEW p \in Passers, ReadTags(p) PROVE Exclusive'
  BY <1>4 DEF ReadTags, Read, device, records, evidence, passes, asked, save, bounds,
     history
<1>5. ASSUME NEW p \in Passers, ReadRecords(p) PROVE Exclusive'
  BY <1>5 DEF ReadRecords, Home, device, records, evidence, passes, asked, save, bounds,
     history
<1>6. ASSUME NEW p \in Passers, Apply(p) PROVE Exclusive'
  BY <1>6 DEF Apply, Home, device, records, evidence, passes, asked, save, bounds, history
<1>7. ASSUME NEW p \in Passers, GiveUp(p) PROVE Exclusive'
  BY <1>7 DEF GiveUp, Fails, Event, Home, device, records, evidence, passes, asked, save,
     bounds, history
<1>8. CASE Pause
  BY <1>8 DEF Pause, device, records, evidence, passes, asked, save, bounds, history
<1>9. CASE Woken
  BY <1>9 DEF Woken, device, records, evidence, passes, asked, save, bounds, history
<1>10. CASE LoopEnds
  BY <1>10 DEF LoopEnds, device, records, evidence, passes, asked, save, bounds, history
<1>11. CASE ProbeSkipped
  BY <1>11 DEF ProbeSkipped, device, records, evidence, passes, asked, save, bounds, history
<1>12. CASE ProbeAnswered
  BY <1>12 DEF ProbeAnswered, Learn, device, records, evidence, passes, asked, save, bounds,
     history
<1>13. CASE ProbeEnds
  BY <1>13 DEF ProbeEnds, device, records, evidence, passes, asked, save, bounds, history
<1>14. CASE SweepLearns
  BY <1>14 DEF SweepLearns, Learn, device, records, evidence, passes, asked, save, bounds,
     history
<1>15. CASE ProbeAndKick
  BY <1>15 DEF ProbeAndKick, Kicked, device, records, evidence, passes, asked, save, bounds,
     history
<1>16. CASE EditOpen
  BY <1>16 DEF EditOpen, Edit, Event, device, records, evidence, passes, asked, save,
     bounds, history
<1>17. CASE EditSave
  BY <1>17 DEF EditSave, Noted, device, records, evidence, passes, asked, save, bounds,
     history
<1>18. CASE EditRead
  BY <1>18 DEF EditRead, device, records, evidence, passes, asked, save, bounds, history
<1>19. CASE EditSync
  BY <1>19 DEF EditSync, Noted, device, records, evidence, passes, asked, save, bounds,
     history
<1>20. CASE EditLeaves
  BY <1>20 DEF EditLeaves, device, records, evidence, passes, asked, save, bounds, history
<1>21. CASE ImportFills
  BY <1>21 DEF ImportFills, Edit, Event, Noted, device, records, evidence, passes, asked,
     save, bounds, history
<1>22. CASE Retag
  BY <1>22 DEF Retag, Edit, Event, Noted, device, records, evidence, passes, asked, save,
     bounds, history
<1>23. CASE Approve
  BY <1>23 DEF Approve, Edit, Event, device, records, evidence, passes, asked, save, bounds,
     history
<1>24. CASE Stop
  BY <1>24 DEF Stop, device, records, evidence, passes, asked, save, bounds, history
<1>25. CASE UNCHANGED vars
  BY <1>25 DEF vars, device, records, evidence, passes, asked, save, bounds, history
<1> QED
  BY <1>1, <1>2, <1>3, <1>4, <1>5, <1>6, <1>7, <1>8, <1>9, <1>10, <1>11, <1>12, <1>13,
     <1>14, <1>15, <1>16, <1>17, <1>18, <1>19, <1>20, <1>21, <1>22, <1>23, <1>24, <1>25 DEF
     Next, Pass, Service, Worker, People

(* While a pass is inside, the other has read and decided nothing. *)
LEMMA Alone ==
  ASSUME Exclusive, PlanOK, NEW p \in Passers, at[p] \in Inside, NEW q \in Passers, q # p
  PROVE  at[q] \notin Inside /\ plan[q] = NoPlan
BY DEF Exclusive, PlanOK, Inside

-----------------------------------------------------------------------------
(* What was decided stays right *)

(* decide asks for nothing that the records it was given do not allow. *)
LEMMA DecideIsSound ==
  ASSUME NEW v \in Views
  PROVE  LET d == Decide(v, state, wrote) IN
         /\ \A w \in d.writes : WriteOK(w) /\ w.field \notin d.own
         /\ \A w, x \in d.writes : w.field = x.field => w = x
         /\ \A t \in d.tags : state[t] = "none"
<1> DEFINE d == Decide(v, state, wrote)
<1>1. ASSUME NEW w \in d.writes
      PROVE  WriteOK(w) /\ w.field \notin d.own
  <2>1. PICK f \in Filled(v, state, wrote) :
          w = [field |-> f, value |-> v.hint[f], expect |-> v.val[f],
               unreviewed |-> f = Name \/ ~Empty(f, v.val[f], v.reviewed)]
    BY DEF Decide
  <2>2. /\ f \in Fields /\ f \notin Taken(v, state, wrote)
        /\ state[f] # "owned" /\ v.hint[f] # v.val[f]
        /\ Empty(f, v.val[f], v.reviewed) \/ state[f] = "applied"
    BY DEF Filled
  <2>3. state[f] = "applied" => v.val[f] = wrote[f]
    BY <2>2 DEF Taken
  <2>4. w.field \notin d.own
    BY <2>1, <2>2 DEF Decide
  <2>5. CASE Empty(f, v.val[f], v.reviewed)
    BY <2>1, <2>2, <2>4, <2>5 DEF WriteOK, Empty
  <2>6. CASE ~Empty(f, v.val[f], v.reviewed)
    BY <2>1, <2>2, <2>3, <2>4, <2>6 DEF WriteOK
  <2> QED BY <2>5, <2>6
<1>2. \A w, x \in d.writes : w.field = x.field => w = x
  BY DEF Decide
<1>3. \A t \in d.tags : state[t] = "none"
  BY DEF Decide, Added
<1> QED BY <1>1, <1>2, <1>3

(* A plan outlives whatever the other goroutine and people do. *)
LEMMA PlanStep ==
  ASSUME TypeOK, Exclusive, PlanOK, [Next]_vars
  PROVE  PlanOK'
<1> DEFINE Good(pl) ==
      /\ \A w \in pl.writes : WriteOK(w) /\ w.field \notin pl.own
      /\ \A w, x \in pl.writes : w.field = x.field => w = x
      /\ \A t \in pl.tags : state[t] = "none"
<1>1. ASSUME UNCHANGED <<records, plan>>,
             \A p \in Passers : at'[p] # "apply" => at[p] # "apply"
      PROVE  PlanOK'
  BY <1>1 DEF PlanOK, WriteOK, records
<1>2. ASSUME NEW p \in Passers, at[p] \in Inside, UNCHANGED records,
             at' = [at EXCEPT ![p] = at'[p]], plan' = [plan EXCEPT ![p] = plan'[p]],
             plan'[p] = NoPlan \/ (at'[p] = "apply" /\ Good(plan'[p]))
      PROVE  PlanOK'
  <2>1. Good(NoPlan)
    BY DEF NoPlan
  <2>2. Good(plan'[p]) /\ (at'[p] # "apply" => plan'[p] = NoPlan)
    BY <1>2, <2>1
  <2>3. \A q \in Passers : q # p => plan'[q] = NoPlan
    BY <1>2, Alone DEF TypeOK
  <2>4. \A q \in Passers : Good(plan'[q]) /\ (at'[q] # "apply" => plan'[q] = NoPlan)
    BY <2>1, <2>2, <2>3
  <2>5. \A w : WriteOK(w)' <=> WriteOK(w)
    BY <1>2 DEF WriteOK, records
  <2> QED BY <1>2, <2>4, <2>5 DEF PlanOK, WriteOK, records
<1>3. ASSUME NEW p \in Passers, Apply(p) PROVE PlanOK'
  <2>1. \A q \in Passers : plan'[q] = NoPlan
    BY <1>3, Alone DEF Apply, TypeOK, Inside
  <2> QED BY <2>1 DEF PlanOK, NoPlan
<1>4. ASSUME NEW p \in Passers, ReadRecords(p) PROVE PlanOK'
  <2>1. view[p] \in Views
    BY DEF TypeOK
  <2>2. Good(Decide(view[p], state, wrote))
    BY <2>1, DecideIsSound
  <2>3. /\ plan'[p] = Decide(view[p], state, wrote)
        /\ at'[p] = IF plan'[p] = NoPlan THEN Home(p) ELSE "apply"
    BY <1>4 DEF ReadRecords, TypeOK
  <2> QED BY <1>2, <1>4, <2>2, <2>3 DEF ReadRecords, TypeOK, Inside
<1>5. ASSUME NEW p \in Passers, GiveUp(p) PROVE PlanOK'
  BY <1>2, <1>5 DEF GiveUp, TypeOK
<1>6. ASSUME NEW p \in Passers, Disabled(p) \/ Lock(p) \/ ReadDevice(p) \/ ReadTags(p)
      PROVE  PlanOK'
  BY <1>1, <1>6 DEF Disabled, Lock, ReadDevice, ReadTags, Read, Home, passes, TypeOK
<1>7. CASE Service \/ Worker
  BY <1>1, <1>7 DEF Service, Pause, Woken, LoopEnds, Worker, ProbeSkipped,
     ProbeAnswered, ProbeEnds,
     passes, TypeOK
<1>8. CASE SweepLearns \/ ProbeAndKick \/ Stop \/ UNCHANGED vars
  BY <1>1, <1>8 DEF SweepLearns, ProbeAndKick, Stop, vars, passes
<1>9. CASE People
  BY <1>1, <1>9 DEF People, EditOpen, EditSave, EditRead, EditSync, EditLeaves,
     ImportFills, Retag,
     Approve, passes
<1> QED
  BY <1>3, <1>4, <1>5, <1>6, <1>7, <1>8, <1>9 DEF Next, Pass

-----------------------------------------------------------------------------
(* What was replaced was replaced by somebody else *)

(* What replaces an applied value is somebody else's write, never a pass.    *)
LEMMA ReplacedStep ==
  ASSUME TypeOK, Exclusive, PlanOK, ReplacedOK, [Next]_vars
  PROVE  ReplacedOK'
<1>1. ASSUME UNCHANGED <<val, tags, records, passes, touched>>,
             \A p \in Passers : at'[p] \in {"tags", "records"} => at'[p] = at[p]
      PROVE  ReplacedOK'
  BY <1>1 DEF ReplacedOK, Replaced, records, passes
<1>2. ASSUME Noted(val', tags'), UNCHANGED <<records, at, passes>>
      PROVE  ReplacedOK'
  <2>1. touched \subseteq touched'
    BY <1>2 DEF Noted
  <2>2. \A f \in Fields : state[f] = "applied" /\ val'[f] # val[f] => f \in touched'
    BY <1>2 DEF Noted
  <2>3. \A t \in Tags : state[t] = "applied" /\ t \in tags /\ t \notin tags' => t \in touched'
    BY <1>2 DEF Noted
  <2> QED BY <1>2, <2>1, <2>2, <2>3 DEF ReplacedOK, Replaced, records, passes
<1>3. ASSUME NEW p \in Passers, ReadDevice(p) PROVE ReplacedOK'
  <2>1. view' = [view EXCEPT ![p] = view'[p]] /\ view'[p].val = val /\ at'[p] = "tags"
        /\ at' = [at EXCEPT ![p] = "tags"]
    BY <1>3 DEF ReadDevice, Read, TypeOK, Views
  <2> QED BY <1>3, <2>1
     DEF ReplacedOK, Replaced, ReadDevice, Read, TypeOK, device, records, history
<1>4. ASSUME NEW p \in Passers, ReadTags(p) PROVE ReplacedOK'
  <2>1. /\ view' = [view EXCEPT ![p] = view'[p]] /\ view'[p].val = view[p].val
        /\ view'[p].tags = tags /\ at[p] = "tags" /\ at' = [at EXCEPT ![p] = "records"]
    BY <1>4 DEF ReadTags, Read, TypeOK, Views
  <2> QED BY <1>4, <2>1
     DEF ReplacedOK, Replaced, ReadTags, Read, TypeOK, device, records, history
<1>5. ASSUME NEW p \in Passers, ReadRecords(p) PROVE ReplacedOK'
  <2>1. Decide(view[p], state, wrote).own \subseteq touched
    BY <1>5 DEF ReplacedOK, Replaced, ReadRecords, Decide, Taken
  <2>2. /\ plan'[p].own \subseteq touched
        /\ \A q \in Passers : q # p => plan'[q] = plan[q] /\ view'[q] = view[q]
    BY <1>5, <2>1 DEF ReadRecords, TypeOK
  <2>3. \A q \in Passers : at'[q] \in {"tags", "records"} => at'[q] = at[q] /\ q # p
    BY <1>5 DEF ReadRecords, TypeOK, Home
  <2> QED BY <1>5, <2>2, <2>3 DEF ReplacedOK, Replaced, ReadRecords, device, records, history
<1>6. ASSUME NEW p \in Passers, GiveUp(p) PROVE ReplacedOK'
  <2>1. /\ plan'[p].own \subseteq touched
        /\ \A q \in Passers : q # p => plan'[q] = plan[q] /\ view'[q] = view[q]
    BY <1>6 DEF GiveUp, TypeOK, NoPlan
  <2>2. \A q \in Passers : at'[q] \in {"tags", "records"} => at'[q] = at[q] /\ q # p
    BY <1>6 DEF GiveUp, TypeOK, Home
  <2> QED BY <1>6, <2>1, <2>2 DEF ReplacedOK, Replaced, GiveUp, device, records
<1>7. ASSUME NEW p \in Passers, Apply(p) PROVE ReplacedOK'
  <2>1. \A q \in Passers : plan'[q] = NoPlan /\ at'[q] \notin {"tags", "records"}
    BY <1>7, Alone DEF Apply, TypeOK, Inside, Home
  <2>2. ASSUME NEW f \in Fields, state'[f] = "applied", val'[f] # wrote'[f]
        PROVE  f \in touched'
    <3>1. f \notin plan[p].tags
      BY DataAssumption DEF TypeOK, Plans
    <3>2. /\ \A w \in plan[p].writes : w.field = f => ~Lands(w)
          /\ val'[f] = val[f] /\ wrote'[f] = wrote[f]
          /\ f \notin plan[p].own /\ state[f] = "applied"
      BY <1>7, <2>2, <3>1, ApplyField
    <3>3. f \in touched
      BY <2>2, <3>2 DEF ReplacedOK, Replaced
    <3> QED BY <1>7, <3>1, <3>2, <3>3 DEF Apply
  <2>3. ASSUME NEW t \in Tags, state'[t] = "applied", t \notin tags'
        PROVE  t \in touched'
    <3>1. /\ t \notin plan[p].tags \ tags /\ t \notin plan[p].own
          /\ state[t] = "applied" /\ t \notin tags
      BY <1>7, <2>3, ApplyTag
    <3>2. t \in touched
      BY <3>1 DEF ReplacedOK, Replaced
    <3>3. \A w \in plan[p].writes : w.field # t
      BY DataAssumption DEF TypeOK, Plans, Writes
    <3> QED BY <1>7, <3>1, <3>2, <3>3 DEF Apply
  <2> QED BY <2>1, <2>2, <2>3 DEF ReplacedOK, Replaced, NoPlan
<1>8. ASSUME NEW p \in Passers, Disabled(p) \/ Lock(p) PROVE ReplacedOK'
  BY <1>1, <1>8 DEF Disabled, Lock, Home, device, history, TypeOK
<1>9. CASE Service \/ Worker
  BY <1>1, <1>9 DEF Service, Pause, Woken, LoopEnds, Worker, ProbeSkipped,
     ProbeAnswered, ProbeEnds,
     device, history, TypeOK
<1>10. CASE SweepLearns \/ ProbeAndKick \/ Stop \/ UNCHANGED vars
  BY <1>1, <1>10 DEF SweepLearns, ProbeAndKick, Stop, vars, device, history
<1>11. CASE EditSave \/ EditSync \/ ImportFills \/ Retag
  <2>1. CASE EditSave
    BY <1>2, <2>1 DEF EditSave
  <2>2. CASE EditSync
    <3>1. Noted(val', tags')
      BY <2>2 DEF EditSync, Noted
    <3> QED BY <1>2, <2>2, <3>1 DEF EditSync
  <2>3. CASE ImportFills
    <3>1. Noted(val', tags')
      BY <2>3 DEF ImportFills, Noted
    <3> QED BY <1>2, <2>3, <3>1 DEF ImportFills
  <2>4. CASE Retag
    <3>1. Noted(val', tags')
      BY <2>4 DEF Retag, Noted
    <3> QED BY <1>2, <2>4, <3>1 DEF Retag
  <2> QED BY <1>11, <2>1, <2>2, <2>3, <2>4
<1>12. CASE EditOpen \/ EditRead \/ EditLeaves \/ Approve
  BY <1>1, <1>12 DEF EditOpen, EditRead, EditLeaves, Approve, device, history
<1> QED
  BY <1>3, <1>4, <1>5, <1>6, <1>7, <1>8, <1>9, <1>10, <1>11, <1>12 DEF Next, Pass, People

-----------------------------------------------------------------------------
(* Nothing the evidence gives is forgotten *)

(* What is left to do is what decide would do with the device as it is. *)
LEMMA LeftIsDecide == Left = Decide(Now(reviewed), state, wrote)
BY DEF Left, Now

(* A decision to do nothing has all three parts empty, and the other way round. *)
LEMMA NothingToDo ==
  ASSUME NEW v, NEW st, NEW wr
  PROVE  Decide(v, st, wr) = NoPlan <=>
           Taken(v, st, wr) = {} /\ Filled(v, st, wr) = {} /\ Added(v, st) = {}
BY DEF Decide, NoPlan

(* A review leaves no more to do than there was. *)
LEMMA ReviewedLess ==
  ASSUME NEW r \in BOOLEAN, r => reviewed, reviewed \in BOOLEAN,
         Decide(Now(r), state, wrote) = NoPlan
  PROVE  Left = NoPlan
<1>1. /\ Taken(Now(r), state, wrote) = {} /\ Filled(Now(r), state, wrote) = {}
      /\ Added(Now(r), state) = {}
  BY NothingToDo
<1>2. Taken(Now(reviewed), state, wrote) = {} /\ Added(Now(reviewed), state) = {}
  BY <1>1 DEF Taken, Added, Now
<1>3. Filled(Now(reviewed), state, wrote) \subseteq Filled(Now(r), state, wrote)
  BY <1>1, <1>2 DEF Filled, Now, Empty
<1> QED BY <1>1, <1>2, <1>3, NothingToDo, LeftIsDecide

(* The device, the records and the evidence are as they were, but for a review. *)
Steady == UNCHANGED <<val, tags, records, evidence>> /\ (reviewed => reviewed')

(* Then what a pass has read and decided stays up to date.                  *)
LEMMA SteadyView ==
  ASSUME Steady, NEW p \in Passers, UpToDate(p),
         view'[p] = view[p], plan'[p] = plan[p], at'[p] = at[p]
  PROVE  UpToDate(p)'
<1>1. \A r : Now(r)' = Now(r)
  BY DEF Now, Steady, evidence
<1>2. state' = state /\ wrote' = wrote /\ Fields = Fields
  BY DEF Steady, records
<1>3. ASSUME NEW r PROVE Decide(Now(r), state, wrote)' = Decide(Now(r), state, wrote)
  BY <1>1, <1>2 DEF Decide, Taken, Filled, Added
<1>4. at'[p] \in {"tags", "records"} =>
        /\ view'[p].val = val' /\ (view'[p].reviewed => reviewed')
        /\ view'[p].hint = hint' /\ view'[p].tagHints = tagHints'
  BY DEF UpToDate, Steady, evidence
<1>5. at'[p] = "records" => view'[p].tags = tags'
  BY DEF UpToDate, Steady
<1>6. at'[p] = "apply" => \E r \in BOOLEAN :
        (r => reviewed') /\ plan'[p] = Decide(Now(r), state, wrote)'
  BY <1>3 DEF UpToDate, Steady
<1> QED BY <1>4, <1>5, <1>6 DEF UpToDate

(* And nothing more is left to do.                                          *)
LEMMA SteadyLeft ==
  ASSUME Steady, reviewed \in BOOLEAN, reviewed' \in BOOLEAN, Left = NoPlan
  PROVE  Left' = NoPlan
<1>1. Taken(Now(reviewed), state, wrote) = {} /\ Filled(Now(reviewed), state, wrote) = {}
      /\ Added(Now(reviewed), state) = {}
  BY LeftIsDecide, NothingToDo
<1>2. /\ Taken(Now(reviewed), state, wrote)' = {} /\ Added(Now(reviewed), state)' = {}
  BY <1>1 DEF Taken, Added, Now, Steady, records, evidence
<1>3. Filled(Now(reviewed), state, wrote)' = {}
  BY <1>1, <1>2 DEF Filled, Empty, Taken, Now, Steady, records, evidence
<1> QED BY <1>2, <1>3 DEF Left, Decide, Now, NoPlan

(* Once a plan made of the device as it is has been applied, nothing is left:   *)
(* what was decided is done, and what was skipped is no longer wanted.          *)
LEMMA ApplyDoesAll ==
  ASSUME TypeOK, TypeOK', PlanOK, NEW p \in Passers, Apply(p), UpToDate(p)
  PROVE  Left' = NoPlan
<1>1. PICK r \in BOOLEAN : (r => reviewed) /\ plan[p] = Decide(Now(r), state, wrote)
  BY DEF Apply, UpToDate
<1>2. /\ reviewed' = reviewed /\ hint' = hint /\ tagHints' = tagHints /\ reviewed \in BOOLEAN
      /\ plan[p] \in Plans
  BY DEF Apply, evidence, TypeOK
<1>3. /\ plan[p].own = Taken(Now(r), state, wrote)
      /\ plan[p].tags = Added(Now(r), state)
      /\ plan[p].writes = {[field |-> f, value |-> hint[f], expect |-> val[f],
                            unreviewed |-> f = Name \/ ~Empty(f, val[f], r)]
                           : f \in Filled(Now(r), state, wrote)}
  BY <1>1 DEF Decide, Now
<1>4. ASSUME NEW f \in Fields
      PROVE  /\ ~(state'[f] = "applied" /\ val'[f] # wrote'[f])
             /\ ~(/\ state'[f] # "owned" /\ hint[f] \notin {Blank, val'[f]}
                  /\ Empty(f, val'[f], reviewed) \/ (state'[f] = "applied" /\ ~reviewed))
  <2>1. f \notin plan[p].tags
    BY <1>2, DataAssumption DEF Plans
  <2>2. CASE \E w \in plan[p].writes : w.field = f /\ val'[f] = w.value /\ wrote'[f] = w.value
    <3>1. val'[f] = hint[f] /\ wrote'[f] = hint[f]
      BY <1>3, <2>2
    <3> QED BY <3>1
  <2>3. CASE /\ \A w \in plan[p].writes : w.field = f => ~Lands(w)
             /\ val'[f] = val[f] /\ wrote'[f] = wrote[f]
             /\ state'[f] = IF f \in plan[p].own THEN "owned" ELSE state[f]
    <3>1. CASE f \in plan[p].own
      BY <2>3, <3>1
    <3>2. CASE f \notin plan[p].own
      <4>1. ~(state[f] = "applied" /\ val[f] # wrote[f])
        BY <1>3, <3>2 DEF Taken, Now
      <4>2. CASE f \in Filled(Now(r), state, wrote)
        <5> DEFINE w == [field |-> f, value |-> hint[f], expect |-> val[f],
                         unreviewed |-> f = Name \/ ~Empty(f, val[f], r)]
        <5>1. /\ w \in plan[p].writes
              /\ w.field = f /\ w.expect = val[f]
              /\ w.unreviewed = (f = Name \/ ~Empty(f, val[f], r))
          BY <1>3, <4>2
        <5> HIDE DEF w
        <5>2. (f = Name \/ ~Empty(f, val[f], r)) /\ reviewed
          BY <2>3, <5>1 DEF Lands
        <5>3. ~Empty(f, val[f], reviewed)
          BY <1>2, <5>2 DEF Empty
        <5> QED BY <2>3, <3>2, <4>1, <5>2, <5>3
      <4>3. CASE f \notin Filled(Now(r), state, wrote)
        <5>1. ~(/\ state[f] # "owned" /\ hint[f] \notin {Blank, val[f]}
                /\ Empty(f, val[f], r) \/ (state[f] = "applied" /\ ~r))
          BY <1>3, <3>2, <4>3 DEF Filled, Now
        <5>2. Empty(f, val[f], reviewed) => Empty(f, val[f], r)
          BY <1>1 DEF Empty
        <5> QED BY <1>1, <2>3, <3>2, <4>1, <5>1, <5>2
      <4> QED BY <4>2, <4>3
    <3> QED BY <3>1, <3>2
  <2> QED BY <2>1, <2>2, <2>3, ApplyField
<1>5. ASSUME NEW t \in Tags
      PROVE  /\ ~(t \notin tags' /\ state'[t] = "applied")
             /\ ~(t \in tagHints /\ t \notin tags' /\ state'[t] = "none")
  <2>1. CASE t \in plan[p].tags \ tags
    BY <2>1, ApplyTag
  <2>2. CASE t \notin plan[p].tags \ tags
    <3>1. /\ state'[t] = IF t \in plan[p].own THEN "owned" ELSE state[t]
          /\ t \in tags' <=> t \in tags
      BY <2>2, ApplyTag
    <3>2. t \notin tags /\ state[t] = "applied" => t \in plan[p].own
      BY <1>3 DEF Taken, Now
    <3>3. t \in tagHints /\ t \notin tags /\ state[t] = "none" => t \in plan[p].tags
      BY <1>3 DEF Added, Now
    <3> QED BY <2>2, <3>1, <3>2, <3>3
  <2> QED BY <2>1, <2>2
<1>6. Taken(Now(reviewed), state, wrote)' = {}
  BY <1>4, <1>5 DEF Taken, Now
<1>7. Filled(Now(reviewed), state, wrote)' = {}
  BY <1>2, <1>4 DEF Filled, Now, Empty
<1>8. Added(Now(reviewed), state)' = {}
  BY <1>2, <1>5 DEF Added, Now, TypeOK
<1> QED BY <1>6, <1>7, <1>8 DEF Left, Decide, Now, NoPlan

(* Whatever is left to do, a pass under way or a kick will do.               *)
LEMMA CoveredStep ==
  ASSUME TypeOK, TypeOK', Exclusive, PlanOK, Covered, [Next]_vars
  PROVE  Covered'
<1> USE DEF Pending
<1>a. SUFFICES ASSUME ~disturbed', ~Pending', ~stop'
               PROVE  /\ \A p \in Passers : UpToDate(p)'
                      /\ (\A p \in Passers : at'[p] \notin Inside) => Left' = NoPlan
  BY DEF Covered
<1>b. reviewed \in BOOLEAN /\ reviewed' \in BOOLEAN /\ disturbed \in BOOLEAN
  BY DEF TypeOK
<1>1. ASSUME Steady, ~disturbed, ~Pending, ~stop, UNCHANGED passes,
             \A p \in Passers : at'[p] = at[p] \/ (at[p] \notin Inside /\ at'[p] \notin Inside)
      PROVE  Covered'
  <2>1. \A p \in Passers : UpToDate(p)'
    <3>1. ASSUME NEW p \in Passers PROVE UpToDate(p)'
      <4>1. CASE at'[p] = at[p]
        BY <1>1, <4>1, SteadyView DEF Covered, passes
      <4>2. CASE at'[p] \notin Inside
        BY <4>2 DEF UpToDate, Inside
      <4> QED BY <1>1, <4>1, <4>2
    <3> QED BY <3>1
  <2>2. (\A p \in Passers : at'[p] \notin Inside) => Left' = NoPlan
    BY <1>1, <1>b, SteadyLeft DEF Covered
  <2> QED BY <2>1, <2>2 DEF Covered
<1>2. ASSUME NEW p \in Passers, at[p] \in Inside, at' = [at EXCEPT ![p] = at'[p]],
             UpToDate(p)', at'[p] \in Inside \/ Left' = NoPlan
      PROVE  Covered'
  <2>1. \A q \in Passers : q # p => at'[q] \notin Inside
    BY <1>2, Alone DEF TypeOK
  <2>2. \A q \in Passers : UpToDate(q)'
    BY <1>2, <2>1 DEF UpToDate, Inside
  <2> QED BY <1>2, <2>2 DEF Covered
<1>3. ASSUME NEW p \in Passers, Disabled(p) \/ GiveUp(p) PROVE Covered'
  BY <1>a, <1>3 DEF Disabled, GiveUp, Fails
<1>4. ASSUME NEW p \in Passers, Lock(p) PROVE Covered'
  <2>1. \A q \in Passers : at'[q] \notin {"tags", "records", "apply"}
    BY <1>4 DEF Lock, TypeOK, Inside
  <2>2. \A q \in Passers : UpToDate(q)'
    BY <2>1 DEF UpToDate
  <2>3. at'[p] \in Inside
    BY <1>4 DEF Lock, TypeOK, Inside
  <2> QED BY <2>2, <2>3 DEF Covered
<1>5. ASSUME NEW p \in Passers, ReadDevice(p) PROVE Covered'
  <2>1. view[p] \in Views
    BY DEF TypeOK
  <2>2. /\ view'[p].val = val /\ view'[p].reviewed = reviewed
        /\ view'[p].hint = hint /\ view'[p].tagHints = tagHints /\ at'[p] = "tags"
    BY <1>5, <2>1 DEF ReadDevice, Read, TypeOK, Views
  <2>3. UpToDate(p)'
    BY <1>5, <2>2 DEF UpToDate, ReadDevice, Read, device, evidence
  <2> QED BY <1>2, <1>5, <2>2, <2>3 DEF ReadDevice, Read, TypeOK, Inside
<1>6. ASSUME NEW p \in Passers, ReadTags(p) PROVE Covered'
  <2>1. view[p] \in Views
    BY DEF TypeOK
  <2>2. /\ view'[p].val = view[p].val /\ view'[p].reviewed = view[p].reviewed
        /\ view'[p].hint = view[p].hint /\ view'[p].tagHints = view[p].tagHints
        /\ view'[p].tags = tags /\ at'[p] = "records"
    BY <1>6, <2>1 DEF ReadTags, Read, TypeOK, Views
  <2>3. ~disturbed /\ ~Pending /\ ~stop
    BY <1>a, <1>6 DEF ReadTags, Read, TypeOK, asked, history, Passers
  <2>4. UpToDate(p) /\ at[p] = "tags"
    BY <1>6, <2>3 DEF Covered, ReadTags, Read
  <2>5. UpToDate(p)'
    BY <1>6, <2>2, <2>4 DEF UpToDate, ReadTags, Read, device, evidence
  <2> QED BY <1>2, <1>6, <2>2, <2>5 DEF ReadTags, Read, TypeOK, Inside
<1>7. ASSUME NEW p \in Passers, ReadRecords(p) PROVE Covered'
  <2>1. view[p] \in Views
    BY DEF TypeOK
  <2>2. ~disturbed /\ ~Pending /\ ~stop
    BY <1>a, <1>7 DEF ReadRecords, TypeOK, asked, history, Passers
  <2>3. UpToDate(p) /\ at[p] = "records"
    BY <1>7, <2>2 DEF Covered, ReadRecords
  <2>4. PICK r \in BOOLEAN : (r => reviewed) /\ view[p] = Now(r)
    <3>1. view[p].reviewed \in BOOLEAN /\ (view[p].reviewed => reviewed)
      BY <2>1, <2>3 DEF Views, UpToDate
    <3>2. view[p] = Now(view[p].reviewed)
      BY <2>1, <2>3 DEF Views, UpToDate, Now
    <3> QED BY <3>1, <3>2
  <2>5. plan'[p] = Decide(Now(r), state, wrote)
        /\ at'[p] = IF plan'[p] = NoPlan THEN Home(p) ELSE "apply"
    BY <1>7, <2>4 DEF ReadRecords, TypeOK
  <2>6. Steady
    BY <1>7 DEF Steady, ReadRecords, device
  <2>7. CASE plan'[p] = NoPlan
    <3>1. Left = NoPlan
      BY <1>b, <2>4, <2>5, <2>7, ReviewedLess
    <3>2. Left' = NoPlan
      BY <1>b, <2>6, <3>1, SteadyLeft
    <3>3. UpToDate(p)'
      BY <2>5, <2>7 DEF UpToDate, Home
    <3> QED BY <1>2, <1>7, <3>2, <3>3 DEF ReadRecords, TypeOK, Inside
  <2>8. CASE plan'[p] # NoPlan
    <3>1. at'[p] = "apply"
      BY <2>5, <2>8
    <3>2. Decide(Now(r), state, wrote)' = Decide(Now(r), state, wrote)
      BY <2>6 DEF Steady, Now, records, evidence, Decide, Taken, Filled, Added
    <3>3. UpToDate(p)'
      BY <2>4, <2>5, <2>6, <3>1, <3>2 DEF UpToDate, Steady
    <3> QED BY <1>2, <1>7, <3>1, <3>3 DEF ReadRecords, TypeOK, Inside
  <2> QED BY <2>7, <2>8
<1>8. ASSUME NEW p \in Passers, Apply(p) PROVE Covered'
  <2>1. ~disturbed /\ ~Pending /\ ~stop
    BY <1>a, <1>8 DEF Apply, TypeOK, asked, Passers
  <2>2. UpToDate(p)
    BY <2>1 DEF Covered
  <2>3. Left' = NoPlan
    BY <1>8, <2>2, ApplyDoesAll
  <2>4. UpToDate(p)'
    BY <1>8 DEF UpToDate, Apply, Home, TypeOK
  <2> QED BY <1>2, <1>8, <2>3, <2>4 DEF Apply, TypeOK, Inside
<1>9. ASSUME Service PROVE Covered'
  <2>1. CASE Pause
    <3>1. ~disturbed /\ ~Pending /\ ~stop
      BY <1>a, <2>1 DEF Pause, TypeOK, asked, history, Passers
    <3> QED BY <1>1, <2>1, <3>1 DEF Pause, Steady, device, TypeOK, Inside
  <2>2. CASE Woken
    BY <1>a, <2>2 DEF Woken, TypeOK, Passers
  <2>3. CASE LoopEnds
    BY <1>a, <2>3 DEF LoopEnds
  <2> QED BY <1>9, <2>1, <2>2, <2>3 DEF Service
<1>10. ASSUME Worker PROVE Covered'
  <2>1. CASE ProbeSkipped
    BY <1>a, <1>1, <2>1 DEF ProbeSkipped, Steady, device, history
  <2>2. CASE ProbeAnswered
    BY <1>a, <2>2 DEF ProbeAnswered, TypeOK, Passers
  <2>3. CASE ProbeEnds
    BY <1>a, <2>3 DEF ProbeEnds
  <2> QED BY <1>10, <2>1, <2>2, <2>3 DEF Worker
<1>11. ASSUME SweepLearns \/ ProbeAndKick \/ Stop \/ UNCHANGED vars PROVE Covered'
  <2>1. CASE SweepLearns
    BY <1>a, <2>1 DEF SweepLearns
  <2>2. CASE ProbeAndKick
    BY <1>a, <2>2 DEF ProbeAndKick, Kicked
  <2>3. CASE Stop
    BY <1>a, <2>3 DEF Stop
  <2>4. CASE UNCHANGED vars
    BY <1>a, <1>1, <2>4 DEF vars, Steady, device, asked, history, passes
  <2> QED BY <1>11, <2>1, <2>2, <2>3, <2>4
<1>12. ASSUME EditOpen \/ EditRead \/ EditLeaves \/ Approve PROVE Covered'
  <2>1. ~disturbed /\ ~Pending /\ ~stop /\ UNCHANGED <<passes, at>>
    BY <1>a, <1>12 DEF EditOpen, EditRead, EditLeaves, Approve, Edit, asked, history
  <2>2. Steady
    BY <1>12 DEF EditOpen, EditRead, EditLeaves, Approve, Steady, device
  <2> QED BY <1>1, <2>1, <2>2
<1>13. ASSUME Noted(val', tags'), UNCHANGED <<records, evidence, passes, at, asked, stop>>,
              reviewed => reviewed'
       PROVE  Covered'
  <2>1. ~disturbed /\ ~Pending /\ ~stop
    BY <1>a, <1>13 DEF Noted, asked
  <2>2. /\ \A f \in Fields : val'[f] = val[f]
        /\ tags' = tags
    BY <1>a, <1>13 DEF Noted
  <2>3. val' = val
    BY <2>2 DEF TypeOK, Contents
  <2> QED BY <1>1, <1>13, <2>1, <2>2, <2>3 DEF Steady
<1>14. ASSUME EditSave \/ EditSync \/ ImportFills \/ Retag PROVE Covered'
  <2>1. CASE EditSave
    BY <1>13, <2>1 DEF EditSave
  <2>2. CASE EditSync
    <3>1. Noted(val', tags')
      BY <2>2 DEF EditSync, Noted
    <3> QED BY <1>13, <2>2, <3>1 DEF EditSync
  <2>3. CASE ImportFills
    BY <1>a, <2>3 DEF ImportFills
  <2>4. CASE Retag
    <3>1. Noted(val', tags')
      BY <2>4 DEF Retag, Noted
    <3> QED BY <1>13, <2>4, <3>1 DEF Retag
  <2> QED BY <1>14, <2>1, <2>2, <2>3, <2>4
<1>15. Covered'
  BY <1>3, <1>4, <1>5, <1>6, <1>7, <1>8, <1>9, <1>10, <1>11, <1>12, <1>14
     DEF Next, Pass, People
<1> QED BY <1>a, <1>15 DEF Covered

-----------------------------------------------------------------------------
(* The theorems *)

(* The service starts with a pass to begin.                                 *)
LEMMA Initially == Init => IInv
<1> SUFFICES ASSUME Init PROVE IInv
  OBVIOUS
<1>1. \A p \in Passers : at[p] \notin Inside
  BY DEF Init, Inside
<1>2. PlanOK
  BY DEF Init, PlanOK, NoPlan
<1>3. ReplacedOK
  BY DEF Init, ReplacedOK, Replaced, Keys, NoPlan, Inside
<1>4. Pending
  BY DEF Init, Pending, Passers
<1> QED BY <1>1, <1>2, <1>3, <1>4, TypeInit DEF IInv, Exclusive, Covered

(* The inductive invariant. *)
THEOREM Invariant == Spec => []IInv
<1>1. IInv /\ [Next]_vars => IInv'
  BY TypeStep, ExclusiveStep, PlanStep, ReplacedStep, CoveredStep DEF IInv
<1> QED BY Initially, <1>1, PTL DEF Spec

(* Every variable keeps its type; in particular the kick channel never      *)
(* holds two kicks, and the probe queue never more than its capacity.       *)
THEOREM TypeCorrect == Spec => []TypeOK
<1>1. IInv => TypeOK
  BY DEF IInv
<1> QED BY Invariant, <1>1, PTL

(* ApplyAutofill writes an empty field, or its own last value on a device   *)
(* that is not reviewed, whatever anybody did to the device or its records  *)
(* after the pass had read them.                                            *)
THEOREM PeopleWin == Spec => EditsWin
<1> DEFINE A == (\E p \in Passers : Apply(p)) =>
      \A f \in Fields : val'[f] # val[f] =>
        \/ Empty(f, val[f], reviewed)
        \/ state[f] = "applied" /\ val[f] = wrote[f] /\ ~reviewed
<1>1. ASSUME IInv, NEW p \in Passers, Apply(p), NEW f \in Fields, val'[f] # val[f]
      PROVE  \/ Empty(f, val[f], reviewed)
             \/ state[f] = "applied" /\ val[f] = wrote[f] /\ ~reviewed
  <2>1. PICK w \in plan[p].writes : w.field = f /\ Lands(w)
    BY <1>1, ApplyField
  <2>2. WriteOK(w)
    BY <1>1 DEF IInv, PlanOK
  <2> QED BY <2>1, <2>2 DEF WriteOK, Lands, Empty
<1>2. IInv /\ [Next]_vars => A
  BY <1>1
<1>3. IInv /\ [Next]_vars => [A]_vars
  BY <1>2
<1> QED BY Invariant, <1>3, PTL DEF Spec, EditsWin

(* Only the transaction of a pass changes the records.                      *)
LEMMA OnlyApply ==
  ASSUME [Next]_vars, \A p \in Passers : ~Apply(p)
  PROVE  state' = state
BY DEF Next, Pass, Service, Worker, People, vars, records, Disabled, Lock, ReadDevice,
   ReadTags, ReadRecords, Read, GiveUp, Pause, Woken, LoopEnds, ProbeSkipped, ProbeAnswered,
   ProbeEnds, SweepLearns, ProbeAndKick, EditOpen, EditSave, EditRead, EditSync, EditLeaves,
   ImportFills, Retag, Approve, Stop

(* Only ApplyAutofill changes a record, and it neither writes nor gives     *)
(* back what is owned.                                                      *)
THEOREM OwnedForGood == Spec => OwnedIsFinal
<1> DEFINE A == \A k \in Keys : state[k] = "owned" =>
      /\ state'[k] = "owned"
      /\ \A p \in Passers : Apply(p) =>
           IF k \in Fields THEN val'[k] = val[k] ELSE (k \in tags' <=> k \in tags)
<1>1. ASSUME IInv, NEW p \in Passers, Apply(p), NEW k \in Keys, state[k] = "owned"
      PROVE  /\ state'[k] = "owned"
             /\ IF k \in Fields THEN val'[k] = val[k] ELSE (k \in tags' <=> k \in tags)
  <2>1. k \notin plan[p].tags /\ \A w \in plan[p].writes : w.field # k
    BY <1>1 DEF IInv, PlanOK, WriteOK
  <2>2. CASE k \in Fields
    BY <1>1, <2>1, <2>2, ApplyField
  <2>3. CASE k \notin Fields
    BY <1>1, <2>1, <2>3, ApplyTag DEF Keys, IInv
  <2> QED BY <2>2, <2>3
<1>2. ASSUME [Next]_vars, \A p \in Passers : ~Apply(p) PROVE state' = state
  BY <1>2, OnlyApply
<1>3. IInv /\ [Next]_vars => A
  <2> SUFFICES ASSUME IInv, [Next]_vars, NEW k \in Keys, state[k] = "owned"
               PROVE  /\ state'[k] = "owned"
                      /\ \A p \in Passers : Apply(p) =>
                           IF k \in Fields THEN val'[k] = val[k]
                           ELSE (k \in tags' <=> k \in tags)
    OBVIOUS
  <2>1. CASE \E p \in Passers : Apply(p)
    BY <2>1, <1>1
  <2>2. CASE \A p \in Passers : ~Apply(p)
    BY <2>2, <1>2
  <2> QED BY <2>1, <2>2
<1>4. IInv /\ [Next]_vars => [A]_vars
  BY <1>3
<1> QED BY Invariant, <1>4, PTL DEF Spec, OwnedIsFinal

(* A record turns "owned" only if somebody else has replaced or removed the *)
(* applied value since it was applied.                                      *)
THEOREM NeverMistaken == Spec => OwnedForAReason
<1> DEFINE A == \A k \in Keys : state[k] # "owned" /\ state'[k] = "owned" => k \in touched
<1>1. ASSUME IInv, NEW p \in Passers, Apply(p), NEW k \in Keys,
             state[k] # "owned", state'[k] = "owned"
      PROVE  k \in touched
  <2>1. k \in plan[p].own
    BY <1>1 DEF Apply
  <2> QED BY <1>1, <2>1 DEF IInv, ReplacedOK
<1>2. ASSUME [Next]_vars, \A p \in Passers : ~Apply(p) PROVE state' = state
  BY <1>2, OnlyApply
<1>3. IInv /\ [Next]_vars => A
  BY <1>1, <1>2
<1>4. IInv /\ [Next]_vars => [A]_vars
  BY <1>3
<1> QED BY Invariant, <1>4, PTL DEF Spec, OwnedForAReason

(* When the loop waits, the worker is idle and no kick is left, a pass over *)
(* the rows would find nothing to do, unless somebody else has written the  *)
(* device since the last kick or a pass has failed.                         *)
THEOREM KicksAreKept == Spec => []RestMeansDone
<1>1. IInv => RestMeansDone
  <2> SUFFICES ASSUME IInv, AtRest, ~disturbed PROVE Left = NoPlan
    BY DEF RestMeansDone
  <2>1. ~Pending /\ ~stop
    BY DEF AtRest, Pending
  <2>2. \A p \in Passers : at[p] \notin Inside
    BY DEF AtRest, Passers, Inside
  <2> QED BY <2>1, <2>2 DEF IInv, Covered
<1> QED BY Invariant, <1>1, PTL
=============================================================================
