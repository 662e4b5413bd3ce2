------------------------------ MODULE Autofill ------------------------------
(***************************************************************************)
(* Filling in a device from what the network shows of it, while people,    *)
(* imports and API clients write the same columns and tags.  Two callers   *)
(* of Service.Run: the loop of Start (one pass per burst of kicks) and the *)
(* probe worker.  A pass reads the device, the evidence, the tags and the  *)
(* autofill records in separate statements, decides, and applies what it   *)
(* decided in one transaction.                                             *)
(*                                                                         *)
(* Kept: the mutex of Run, the order of the reads, the ownership rules of  *)
(* decide, the compare-and-swap of ApplyAutofill, the kick channel of one  *)
(* and the bounded probe queue, saves of a stale form, failing statements, *)
(* shutdown.  Abstracted: a field's winning candidate is one value (hints  *)
(* below the threshold and outranked ones are not seen here), the pause    *)
(* between passes is a step, a pass is about one device, a setting turned  *)
(* off is a Run that does nothing.  Left out: the port scan page, a third  *)
(* caller behind the same mutex; audit rows; deleting the device.          *)
(***************************************************************************)
EXTENDS Integers, FiniteSets

CONSTANTS
  Fields,    \* single-valued fields
  Name,      \* the field that is only filled on an unreviewed device
  Tags,      \* tag names
  Values,    \* what a field can hold, apart from nothing a person would miss
  Blank,     \* "", the kind "other", a name netis made up
  ProbeCap,  \* subnets waiting for the probe worker: 16
  MaxNews,   \* bound: changes of the evidence
  MaxEvents  \* bound: writes by others, failing statements, the setting off

ASSUME DataAssumption ==
  /\ Blank \notin Values
  /\ Fields \cap Tags = {}
ASSUME BoundsAssumption ==
  /\ ProbeCap \in Nat \ {0}
  /\ MaxNews \in Nat /\ MaxEvents \in Nat

VARIABLES
  val,       \* [Fields -> Values or Blank]: the device row
  reviewed,  \* its reviewed column
  tags,      \* SUBSET Tags: its device_tag rows
  state,     \* [Keys -> States]: its device_autofill rows, "none" is no row
  wrote,     \* [Fields -> Values or Blank]: their value column
  hint,      \* [Fields -> Values or Blank]: the candidate the evidence gives
  tagHints,  \* SUBSET Tags: the tags it gives
  at,        \* [Passers -> Steps]: what a caller of Run does next
  view,      \* [Passers -> Views]: what its pass has read
  plan,      \* [Passers -> Plans]: AutofillChanges, what its pass decided
  kick,      \* messages in Service.kick
  probes,    \* subnets in Service.probeCh
  owing,     \* a sweep or an import has written, and not yet kicked
  editor,    \* what the handler of a save does next
  form,      \* [val, tags]: what the save submits
  have,      \* the tags SetDeviceTags read
  stop,      \* the context is cancelled
  news, budget, \* what is left of the bounds
  touched,   \* history: keys whose applied value somebody else's write replaced
  disturbed  \* history: since the last kick somebody else wrote the device, or
             \* a pass failed

device == <<val, reviewed, tags>>
records == <<state, wrote>>
evidence == <<hint, tagHints>>
asked == <<kick, probes, owing>>
save == <<editor, form, have>>
bounds == <<news, budget>>
history == <<touched, disturbed>>
passes == <<view, plan>>
vars == <<device, records, evidence, at, passes, asked, save, stop, bounds, history>>

Keys == Fields \cup Tags
Contents == [Fields -> Values \cup {Blank}]
States == {"none", "applied", "owned"}
Passers == {"loop", "probe"}
Inside == {"device", "tags", "records", "apply"}
Steps == Inside \cup {"idle", "run", "pause", "wait", "gone"}
Views == [val : Contents, reviewed : BOOLEAN, hint : Contents,
          tagHints : SUBSET Tags, tags : SUBSET Tags]
Writes == [field : Fields, value : Values, expect : Values \cup {Blank}, unreviewed : BOOLEAN]
Plans == [own : SUBSET Keys, writes : SUBSET Writes, tags : SUBSET Tags]

Nothing == [f \in Fields |-> Blank]
NoView == [val |-> Nothing, reviewed |-> FALSE, hint |-> Nothing, tagHints |-> {}, tags |-> {}]
NoPlan == [own |-> {}, writes |-> {}, tags |-> {}]
NoForm == [val |-> Nothing, tags |-> {}]
Flip(S, t) == (S \cup {t}) \ (S \cap {t})

TypeOK ==
  /\ val \in Contents /\ reviewed \in BOOLEAN /\ tags \in SUBSET Tags
  /\ state \in [Keys -> States] /\ wrote \in Contents
  /\ hint \in Contents /\ tagHints \in SUBSET Tags
  /\ at \in [Passers -> Steps] /\ view \in [Passers -> Views]
  /\ plan \in [Passers -> Plans]
  /\ kick \in 0..1 /\ probes \in 0..ProbeCap /\ owing \in BOOLEAN
  /\ editor \in {"idle", "save", "read", "sync"}
  /\ form \in [val : Contents, tags : SUBSET Tags] /\ have \in SUBSET Tags
  /\ stop \in BOOLEAN
  /\ news \in 0..MaxNews /\ budget \in 0..MaxEvents
  /\ touched \in SUBSET Keys /\ disturbed \in BOOLEAN

(* A device a sweep has just created, or one somebody entered by hand. *)
Init ==
  /\ val = Nothing /\ reviewed \in BOOLEAN /\ tags = {}
  /\ state = [k \in Keys |-> "none"] /\ wrote = Nothing
  /\ hint = Nothing /\ tagHints = {}
  /\ at = [p \in Passers |-> IF p = "loop" THEN "run" ELSE "idle"]
  /\ view = [p \in Passers |-> NoView] /\ plan = [p \in Passers |-> NoPlan]
  /\ kick = 0 /\ probes = 0 /\ owing = FALSE
  /\ editor = "idle" /\ form = NoForm /\ have = {}
  /\ stop = FALSE
  /\ news = MaxNews /\ budget = MaxEvents
  /\ touched = {} /\ disturbed = FALSE

-----------------------------------------------------------------------------
(* The rules of decide, for a pass that has read the device as v and the   *)
(* records as st (their states) and wr (their values).                     *)

(* isEmpty: the field holds nothing a person would miss. *)
Empty(f, x, rev) == x = Blank /\ (f = Name => ~rev)

(* Applied values that are not there any more. *)
Taken(v, st, wr) ==
  {f \in Fields : st[f] = "applied" /\ v.val[f] # wr[f]}
    \cup {t \in Tags \ v.tags : st[t] = "applied"}

(* Empty fields, and on an unreviewed device the values autofill wrote. *)
Filled(v, st, wr) ==
  {f \in Fields \ Taken(v, st, wr) :
    /\ st[f] # "owned"
    /\ v.hint[f] \notin {Blank, v.val[f]}
    /\ \/ Empty(f, v.val[f], v.reviewed)
       \/ st[f] = "applied" /\ ~v.reviewed}

(* Tags the device does not have and never had from autofill. *)
Added(v, st) == {t \in v.tagHints \ v.tags : st[t] = "none"}

Decide(v, st, wr) ==
  [own |-> Taken(v, st, wr),
   writes |-> {[field |-> f, value |-> v.hint[f], expect |-> v.val[f],
                unreviewed |-> f = Name \/ ~Empty(f, v.val[f], v.reviewed)]
               : f \in Filled(v, st, wr)},
   tags |-> Added(v, st)]

-----------------------------------------------------------------------------
(* A caller of Run. *)

Home(p) == IF p = "loop" THEN "pause" ELSE "idle"

Event == budget > 0 /\ budget' = budget - 1

(* A statement fails: the database, or the cancelled context, with which   *)
(* no statement gets anywhere.                                             *)
Fails ==
  /\ \/ Event
     \/ stop /\ UNCHANGED budget
  /\ disturbed' = TRUE

(* Run does nothing when the setting is off or cannot be read. *)
Disabled(p) ==
  /\ at[p] = "run" /\ Fails
  /\ at' = [at EXCEPT ![p] = Home(p)]
  /\ UNCHANGED <<device, records, evidence, passes, asked, save, stop, news, touched>>

(* A mutant of Lock: Run without its mutex. *)
LockNothing(p) ==
  /\ at[p] = "run"
  /\ at' = [at EXCEPT ![p] = "device"]
  /\ UNCHANGED <<device, records, evidence, passes, asked, save, stop, bounds, history>>

(* The mutex of Run, held to its return. *)
Lock(p) ==
  /\ at[p] = "run" /\ \A q \in Passers : at[q] \notin Inside
  /\ at' = [at EXCEPT ![p] = "device"]
  /\ UNCHANGED <<device, records, evidence, passes, asked, save, stop, bounds, history>>

Read(p, from, to, v) ==
  /\ at[p] = from /\ ~stop
  /\ at' = [at EXCEPT ![p] = to]
  /\ view' = [view EXCEPT ![p] = v]
  /\ UNCHANGED <<device, records, evidence, plan, asked, save, stop, bounds, history>>

(* runOne's reads: GetDevice, with the interfaces, ports and hints, which  *)
(* nothing is compared with (ReplaceHints keeps the stored ones up to      *)
(* date); DeviceTags; ListAutofill, after which the pass decides.          *)
ReadDevice(p) ==
  Read(p, "device", "tags", [view[p] EXCEPT !.val = val, !.reviewed = reviewed,
                                            !.hint = hint, !.tagHints = tagHints])
ReadTags(p) == Read(p, "tags", "records", [view[p] EXCEPT !.tags = tags])

ReadRecords(p) ==
  LET d == Decide(view[p], state, wrote) IN
  /\ at[p] = "records" /\ ~stop
  /\ at' = [at EXCEPT ![p] = IF d = NoPlan THEN Home(p) ELSE "apply"]
  /\ plan' = [plan EXCEPT ![p] = d]
  /\ view' = [view EXCEPT ![p] = NoView]
  /\ UNCHANGED <<device, records, evidence, asked, save, stop, bounds, history>>

(* A mutant of Lands: without the compare. *)
LandsBlindly(w) == w.unreviewed => ~reviewed

(* ApplyAutofill, one transaction.  A write whose column changed since it  *)
(* was read is skipped, and so is one meant for an unreviewed device, and  *)
(* a tag the device has by now.                                            *)
Lands(w) == val[w.field] = w.expect /\ (w.unreviewed => ~reviewed)

Apply(p) ==
  LET done == {w \in plan[p].writes : Lands(w)}
      fields == {w.field : w \in done}
      added == plan[p].tags \ tags
      Value(f) == (CHOOSE w \in done : w.field = f).value
  IN /\ at[p] = "apply" /\ ~stop
     /\ at' = [at EXCEPT ![p] = Home(p)]
     /\ plan' = [plan EXCEPT ![p] = NoPlan]
     /\ val' = [f \in Fields |-> IF f \in fields THEN Value(f) ELSE val[f]]
     /\ tags' = tags \cup added
     /\ state' = [k \in Keys |-> IF k \in fields \cup added THEN "applied"
                                 ELSE IF k \in plan[p].own THEN "owned" ELSE state[k]]
     /\ wrote' = [f \in Fields |-> IF f \in fields THEN Value(f) ELSE wrote[f]]
     /\ touched' = touched \ (fields \cup added \cup plan[p].own)
     /\ UNCHANGED <<reviewed, evidence, view, asked, save, stop, bounds, disturbed>>

(* A statement of the pass fails: the transaction, if any, is rolled back. *)
GiveUp(p) ==
  /\ at[p] \in Inside
  /\ Fails
  /\ at' = [at EXCEPT ![p] = Home(p)]
  /\ view' = [view EXCEPT ![p] = NoView] /\ plan' = [plan EXCEPT ![p] = NoPlan]
  /\ UNCHANGED <<device, records, evidence, asked, save, stop, news, touched>>

Pass(p) ==
  \/ Disabled(p) \/ Lock(p)
  \/ ReadDevice(p) \/ ReadTags(p) \/ ReadRecords(p)
  \/ Apply(p) \/ GiveUp(p)

-----------------------------------------------------------------------------
(* The loop of Start. *)

(* time.After(interval). *)
Pause ==
  /\ at["loop"] = "pause"
  /\ at' = [at EXCEPT !["loop"] = "wait"]
  /\ UNCHANGED <<device, records, evidence, passes, asked, save, stop, bounds, history>>

Woken ==
  /\ at["loop"] = "wait" /\ kick > 0
  /\ kick' = kick - 1
  /\ at' = [at EXCEPT !["loop"] = "run"]
  /\ UNCHANGED <<device, records, evidence, passes, probes, owing, save, stop, bounds, history>>

LoopEnds ==
  /\ at["loop"] \in {"pause", "wait"} /\ stop
  /\ at' = [at EXCEPT !["loop"] = "gone"]
  /\ UNCHANGED <<device, records, evidence, passes, asked, save, stop, bounds, history>>

-----------------------------------------------------------------------------
(* The evidence changes: what was seen of the device gives another value   *)
(* for one field, or gives a tag or no longer gives it.                    *)
Learn ==
  /\ news > 0 /\ news' = news - 1
  /\ \/ \E f \in Fields : \E x \in (Values \cup {Blank}) \ {hint[f]} :
          /\ hint' = [hint EXCEPT ![f] = x]
          /\ UNCHANGED tagHints
     \/ \E t \in Tags :
          /\ tagHints' = Flip(tagHints, t)
          /\ UNCHANGED hint

(* probeLoop: a subnet nobody should probe now (the setting is off, it was *)
(* probed a moment ago, no interface is attached to it), or where the      *)
(* device does not answer.                                                 *)
ProbeSkipped ==
  /\ at["probe"] = "idle" /\ probes > 0 /\ ~stop
  /\ probes' = probes - 1
  /\ UNCHANGED <<device, records, evidence, at, passes, kick, owing, save, stop, bounds, history>>

(* probeSubnet: the device answered, and its hints may be new ones; then Run. *)
ProbeAnswered ==
  /\ at["probe"] = "idle" /\ probes > 0 /\ ~stop
  /\ probes' = probes - 1
  /\ at' = [at EXCEPT !["probe"] = "run"]
  /\ \/ Learn
     \/ UNCHANGED <<evidence, news>>
  /\ UNCHANGED <<device, records, passes, kick, owing, save, stop, budget, history>>

(* A mutant of ProbeEnds: the worker notices the shutdown at its next subnet. *)
ProbeEndsAtNext ==
  /\ at["probe"] = "idle" /\ stop /\ probes > 0
  /\ at' = [at EXCEPT !["probe"] = "gone"]
  /\ UNCHANGED <<device, records, evidence, passes, asked, save, stop, bounds, history>>

ProbeEnds ==
  /\ at["probe"] = "idle" /\ stop
  /\ at' = [at EXCEPT !["probe"] = "gone"]
  /\ UNCHANGED <<device, records, evidence, passes, asked, save, stop, bounds, history>>

(* A sweep or a lease sync learns something; the Probe and the Kick at its *)
(* end, neither of which ever waits.                                       *)
SweepLearns ==
  /\ ~owing /\ ~stop
  /\ Learn
  /\ owing' = TRUE
  /\ UNCHANGED <<device, records, at, passes, kick, probes, save, stop, budget, history>>

(* Mutants of Kicked: a channel without room, and one without a bound. *)
KickedIfWaiting ==
  /\ kick' = IF at["loop"] = "wait" THEN 1 ELSE kick
  /\ disturbed' = FALSE
KickedAlways == kick' = kick + 1 /\ disturbed' = FALSE

Kicked == kick' = 1 /\ disturbed' = FALSE

ProbeAndKick ==
  /\ owing /\ owing' = FALSE
  /\ probes' \in {probes, IF probes < ProbeCap THEN probes + 1 ELSE probes}
  /\ Kicked
  /\ UNCHANGED <<device, records, evidence, at, passes, save, stop, bounds, touched>>

-----------------------------------------------------------------------------
(* Everybody else who writes the device. *)

Edit == Event /\ ~stop

(* What the record of a write by somebody else is: the applied values it   *)
(* replaces, and all it changes.                                           *)
Noted(val2, tags2) ==
  LET changed == {f \in Fields : val2[f] # val[f]}
                   \cup (tags \ tags2) \cup (tags2 \ tags)
  IN /\ disturbed' = (disturbed \/ changed # {})
     /\ touched' = touched \cup {k \in changed : state[k] = "applied"}

(* The edit form, or GetDevice of an API update: what is read is what will *)
(* be written, save for at most one field or tag.                          *)
EditOpen ==
  /\ editor = "idle" /\ Edit
  /\ editor' = "save"
  /\ \/ form' = [val |-> val, tags |-> tags]
     \/ \E f \in Fields, x \in Values \cup {Blank} :
          form' = [val |-> [val EXCEPT ![f] = x], tags |-> tags]
     \/ \E t \in Tags :
          form' = [val |-> val, tags |-> Flip(tags, t)]
  /\ UNCHANGED <<device, records, evidence, at, passes, asked, have, stop, news, history>>

(* UpdateDevice: every column, and the device counts as reviewed. *)
EditSave ==
  /\ editor = "save" /\ ~stop
  /\ editor' = "read"
  /\ val' = form.val /\ reviewed' = TRUE /\ UNCHANGED tags
  /\ Noted(form.val, tags)
  /\ UNCHANGED <<records, evidence, at, passes, asked, form, have, stop, bounds>>

(* SetDeviceTags: DeviceTags, then the difference in one transaction. *)
EditRead ==
  /\ editor = "read" /\ ~stop
  /\ editor' = "sync"
  /\ have' = tags
  /\ UNCHANGED <<device, records, evidence, at, passes, asked, form, stop, bounds, history>>

EditSync ==
  /\ editor = "sync" /\ ~stop
  /\ editor' = "idle" /\ form' = NoForm /\ have' = {}
  /\ tags' = (tags \ (have \ form.tags)) \cup (form.tags \ have)
  /\ Noted(val, tags')
  /\ UNCHANGED <<val, reviewed, records, evidence, at, passes, asked, stop, bounds>>

(* An API update without tags, or one that fails. *)
EditLeaves ==
  /\ editor # "idle" /\ ~stop
  /\ editor' = "idle" /\ form' = NoForm /\ have' = {}
  /\ UNCHANGED <<device, records, evidence, at, passes, asked, stop, bounds, history>>

(* FillDevice: an import fills what is empty, and may rename a device a    *)
(* sweep made up a name for.  It kicks when it is done.                    *)
ImportFills ==
  /\ ~owing /\ Edit
  /\ \E f \in Fields, x \in Values :
       /\ IF f = Name THEN ~reviewed ELSE val[f] = Blank
       /\ val' = [val EXCEPT ![f] = x]
       /\ Noted(val', tags)
  /\ owing' = TRUE
  /\ UNCHANGED <<reviewed, tags, records, evidence, at, passes, kick, probes, save, stop, news>>

(* AddDeviceTags; DeleteTag. *)
Retag ==
  /\ Edit
  /\ \E t \in Tags : tags' = Flip(tags, t)
  /\ Noted(val, tags')
  /\ UNCHANGED <<val, reviewed, records, evidence, at, passes, asked, save, stop, news>>

(* SetDeviceReviewed. *)
Approve ==
  /\ ~reviewed /\ Edit
  /\ reviewed' = TRUE
  /\ UNCHANGED <<val, tags, records, evidence, at, passes, asked, save, stop, news, history>>

Stop ==
  /\ ~stop /\ stop' = TRUE
  /\ UNCHANGED <<device, records, evidence, at, passes, asked, save, bounds, history>>

-----------------------------------------------------------------------------
Service == Pause \/ Woken \/ LoopEnds
Worker ==
  ProbeSkipped \/ ProbeAnswered \/ ProbeEnds
People ==
  \/ EditOpen \/ EditSave \/ EditRead \/ EditSync \/ EditLeaves
  \/ ImportFills \/ Retag \/ Approve

Next ==
  \/ \E p \in Passers : Pass(p)
  \/ Service \/ Worker \/ SweepLearns \/ ProbeAndKick
  \/ People \/ Stop

(* The two goroutines go on by themselves; nothing is assumed of people. *)
Fairness == WF_vars(Pass("loop") \/ Service) /\ WF_vars(Pass("probe") \/ Worker)

Spec == Init /\ [][Next]_vars /\ Fairness

-----------------------------------------------------------------------------
(* What a pass writes is an empty field, or its own last value on a device *)
(* nobody has reviewed, as they are when it writes and not as it read them: *)
(* "a person's edit between the read and the write always wins".            *)
EditsWin ==
  [][(\E p \in Passers : Apply(p)) =>
       \A f \in Fields : val'[f] # val[f] =>
         \/ Empty(f, val[f], reviewed)
         \/ state[f] = "applied" /\ val[f] = wrote[f] /\ ~reviewed]_vars

(* A value somebody changed or removed stays theirs forever: no pass, not  *)
(* one that read its records before another wrote them, takes an owned     *)
(* field or tag back.                                                      *)
OwnedIsFinal ==
  [][\A k \in Keys : state[k] = "owned" =>
       /\ state'[k] = "owned"
       /\ \A p \in Passers : Apply(p) =>
            IF k \in Fields THEN val'[k] = val[k] ELSE (k \in tags' <=> k \in tags)]_vars

(* A pass takes a field or tag for somebody else's only after a write of   *)
(* somebody else replaced what autofill had put there: it never mistakes   *)
(* its own work, or another pass's, for a person's.                        *)
OwnedForAReason ==
  [][\A k \in Keys : state[k] # "owned" /\ state'[k] = "owned" => k \in touched]_vars

(* What a pass over the rows as they are would decide to write. *)
Left ==
  LET v == [val |-> val, reviewed |-> reviewed, hint |-> hint, tagHints |-> tagHints,
            tags |-> tags]
  IN Decide(v, state, wrote)

(* Nobody has anything left to do. *)
AtRest ==
  /\ at["loop"] = "wait" /\ at["probe"] = "idle"
  /\ kick = 0 /\ ~owing /\ ~stop

(* A kick during a pass is one more pass: when the service rests, nothing  *)
(* the evidence gives is left to be written, unless somebody wrote the     *)
(* field since the last kick.                                              *)
RestMeansDone == AtRest /\ ~disturbed => Left = NoPlan

(* Start returns on shutdown: the loop ends, and so does the probe worker  *)
(* it waits for, whatever they were doing.                                 *)
StartReturns == stop ~> (at["loop"] = "gone" /\ at["probe"] = "gone")
=============================================================================
