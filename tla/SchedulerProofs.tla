-------------------------- MODULE SchedulerProofs --------------------------
(***************************************************************************)
(* Proofs about Scheduler, for any number of subnets, goroutines, slots    *)
(* and queue places.  The invariants are proved together: each needs the   *)
(* types, and "an accepted trigger is kept" needs one more fact, that a    *)
(* subnet with an accepted trigger is not being scanned yet.               *)
(***************************************************************************)
EXTENDS Scheduler, SequenceTheorems, FiniteSetTheorems, TLAPS

OwedIsNotRunning == owed \cap running = {}

IInv ==
  /\ TypeOK
  /\ RunningIsScanning
  /\ QueuedIsWaiting
  /\ AcceptedTriggerKept
  /\ OwedIsNotRunning
  /\ NoWriteAfterClose

-----------------------------------------------------------------------------
(* The placeholder of an idle loop or goroutine is a subnet. *)
LEMMA AnySubnetType == AnySubnet \in Subnets
  BY SubnetsAssumption DEF AnySubnet

(* What taking an id from the channel leaves. *)
LEMMA Dequeue ==
  ASSUME NEW S, NEW q \in Seq(S), q # <<>>
  PROVE  /\ Len(q) \in Nat \ {0}
         /\ Head(q) = q[1] /\ Head(q) \in S
         /\ Tail(q) \in Seq(S) /\ Len(Tail(q)) = Len(q) - 1
         /\ \A i \in 1..Len(Tail(q)) : Tail(q)[i] = q[i + 1]
<1>1. Len(q) \in Nat /\ Len(q) # 0
  BY EmptySeq
<1> QED
  BY <1>1, HeadTailProperties

(* Types *)

(* The types hold at the start. *)
LEMMA TypeInit == Init => TypeOK
  BY AnySubnetType, LimitsAssumption
  DEF Init, TypeOK, ScanSteps, Scanning, LoopSteps, Holding, Sweeping

(* Every step keeps the types. *)
LEMMA TypeStep == TypeOK /\ [Next]_vars => TypeOK'
<1> SUFFICES ASSUME TypeOK, [Next]_vars PROVE TypeOK'
  OBVIOUS
<1> USE AnySubnetType DEF TypeOK, ScanSteps, Scanning, LoopSteps, Holding, Sweeping
<1>1. ASSUME NEW s \in Subnets, Trigger(s) PROVE TypeOK'
  BY <1>1, LimitsAssumption DEF Trigger, Accept, loop, scans
<1>2. ASSUME NEW s \in Subnets, EditSubnet(s) PROVE TypeOK'
  BY <1>2 DEF EditSubnet, marks, loop, scans
<1>3. ASSUME NEW s \in Subnets, IntervalPasses(s) PROVE TypeOK'
  BY <1>3 DEF IntervalPasses, loop, scans
<1>4. CASE LoopSelect
  <2>1. CASE Receive
    <3>1. trigger # <<>> /\ Len(trigger) \in Nat /\ QueueCap \in Nat
      BY <2>1, LimitsAssumption DEF Receive
    <3>2. /\ Head(trigger) \in Subnets
          /\ Tail(trigger) \in Seq(Subnets) /\ Len(Tail(trigger)) = Len(trigger) - 1
      BY <3>1, Dequeue
    <3> QED BY <2>1, <3>1, <3>2 DEF Receive, marks, scans
  <2>2. CASE Tick
    BY <2>2 DEF Tick, marks, scans
  <2>3. CASE LoopExit
    BY <2>3 DEF LoopExit, LoopGoto, marks, scans
  <2> QED BY <1>4, <2>1, <2>2, <2>3 DEF LoopSelect
<1>5. CASE LoopStep
  <2>1. CASE Unqueue
    BY <2>1 DEF Unqueue, LoopGoto, scans
  <2>2. CASE Load
    BY <2>2 DEF Load, LoopGoto, marks, scans
  <2>3. CASE TickEnd
    BY <2>3 DEF TickEnd, LoopGoto, marks, scans
  <2>4. CASE Start
    BY <2>4 DEF Start, Skip, Mark, LoopGoto, scans
  <2>5. ASSUME NEW s \in Subnets, TickSubnet(s) PROVE TypeOK'
    BY <2>5 DEF TickSubnet, marks, scans
  <2>6. ASSUME NEW g \in Goroutines, Spawn(g) PROVE TypeOK'
    BY <2>6 DEF Spawn, LoopGoto, marks
  <2> QED BY <1>5, <2>1, <2>2, <2>3, <2>4, <2>5, <2>6 DEF LoopStep
<1>6. ASSUME NEW g \in Goroutines, Acquire(g) \/ BeginWrite(g) \/ ScanStep(g) PROVE TypeOK'
  BY <1>6 DEF Acquire, BeginWrite, ScanStep, GiveUp, EndWrite, SweepEnds, Release, Unmark,
              ScanGoto, ScanOnly, marks, loop
<1>7. CASE Shutdown \/ WaitAndClose
  BY <1>7 DEF Shutdown, WaitAndClose, marks, loop, scans
<1>8. CASE LoadFails
  BY <1>8 DEF LoadFails, LoopGoto, marks, scans
<1>9. CASE UNCHANGED vars
  BY <1>9 DEF vars
<1> QED
  BY <1>1, <1>2, <1>3, <1>4, <1>5, <1>6, <1>7, <1>8, <1>9 DEF Next

(* The scheduler's tables hold only subnets and its queue never exceeds the
   channel (scheduler.go:18-51). *)
THEOREM TypeCorrect == Spec => []TypeOK
<1>1. Init => TypeOK
  BY TypeInit
<1>2. TypeOK /\ [Next]_vars => TypeOK'
  BY TypeStep
<1> QED
  BY <1>1, <1>2, PTL DEF Spec, Safety

-----------------------------------------------------------------------------
(* The running marks *)

(* RunningIsScanning reads only the running marks, the scans and the loop. *)
LEMMA RunningFrame ==
  ASSUME RunningIsScanning, UNCHANGED <<scanOf, running>>, InScan' = InScan,
         Spawning' = Spawning, Spawning => current' = current
  PROVE  RunningIsScanning'
  BY DEF RunningIsScanning

(* Every step keeps RunningIsScanning: a mark precedes its goroutine and outlives it. *)
LEMMA RunningStep ==
  ASSUME TypeOK, RunningIsScanning, [Next]_vars
  PROVE  RunningIsScanning'
<1> USE DEF Scanning, Holding, Sweeping
<1>1. ASSUME NEW s \in Subnets, Trigger(s) \/ EditSubnet(s) \/ IntervalPasses(s)
      PROVE  RunningIsScanning'
  BY <1>1, RunningFrame
  DEF Trigger, Accept, EditSubnet, IntervalPasses, InScan, Spawning, marks, loop, scans
<1>2. CASE LoopSelect
  BY <1>2, RunningFrame
  DEF LoopSelect, Receive, Tick, LoopExit, LoopGoto, InScan, Spawning, marks, scans
<1>3. CASE Unqueue \/ Load \/ LoadFails \/ TickEnd
  BY <1>3, RunningFrame DEF Unqueue, Load, LoadFails, TickEnd, LoopGoto, InScan, Spawning, marks, scans
<1>4. ASSUME NEW s \in Subnets, TickSubnet(s) PROVE RunningIsScanning'
  BY <1>4, RunningFrame DEF TickSubnet, InScan, Spawning, marks, scans
<1>5. CASE Start
  <2>1. CASE current \in running
    BY <1>5, <2>1, RunningFrame DEF Start, Skip, LoopGoto, InScan, Spawning, scans
  <2>2. CASE current \notin running
    <3>1. /\ ~Spawning /\ Spawning' /\ current' = current /\ InScan' = InScan
          /\ scanOf' = scanOf /\ running' = running \cup {current}
      BY <1>5, <2>2 DEF Start, Mark, LoopGoto, InScan, Spawning, scans
    <3>2. \A g \in InScan : scanOf[g] # current
      BY <2>2 DEF RunningIsScanning
    <3> QED BY <3>1, <3>2 DEF RunningIsScanning
  <2> QED BY <2>1, <2>2
<1>6. ASSUME NEW g \in Goroutines, Spawn(g) PROVE RunningIsScanning'
  <2>1. /\ Spawning /\ ~Spawning' /\ running' = running
        /\ scanOf' = [scanOf EXCEPT ![g] = current]
        /\ InScan' = InScan \cup {g} /\ g \notin InScan
    BY <1>6 DEF Spawn, LoopGoto, InScan, Spawning, marks, TypeOK
  <2>2. \A h \in InScan : scanOf'[h] = scanOf[h] /\ scanOf[h] # current
    BY <2>1 DEF RunningIsScanning, TypeOK, InScan
  <2>3. scanOf'[g] = current
    BY <2>1 DEF TypeOK
  <2>4. {scanOf'[h] : h \in InScan'} = {scanOf[h] : h \in InScan} \cup {current}
    BY <2>1, <2>2, <2>3
  <2> QED BY <2>1, <2>2, <2>3, <2>4 DEF RunningIsScanning
<1>7. ASSUME NEW g \in Goroutines,
             Acquire(g) \/ BeginWrite(g) \/ GiveUp(g) \/ EndWrite(g) \/ SweepEnds(g) \/ Release(g)
      PROVE  RunningIsScanning'
  <2>1. UNCHANGED <<scanOf, running>> /\ Spawning' = Spawning /\ current' = current
    BY <1>7 DEF Acquire, BeginWrite, GiveUp, EndWrite, SweepEnds, Release,
                ScanGoto, ScanOnly, Spawning, marks, loop
  <2>2. InScan' = InScan
    BY <1>7 DEF Acquire, BeginWrite, GiveUp, EndWrite, SweepEnds, Release,
                ScanGoto, InScan, TypeOK
  <2> QED BY <2>1, <2>2, RunningFrame
<1>8. ASSUME NEW g \in Goroutines, Unmark(g) PROVE RunningIsScanning'
  <2>1. /\ Spawning' = Spawning /\ current' = current
        /\ running' = running \ {scanOf[g]}
        /\ scanOf' = [scanOf EXCEPT ![g] = AnySubnet]
        /\ InScan' = InScan \ {g} /\ g \in InScan
    BY <1>8 DEF Unmark, ScanGoto, InScan, Spawning, loop, TypeOK
  <2>2. \A h \in InScan' : scanOf'[h] = scanOf[h] /\ scanOf[h] # scanOf[g]
    BY <2>1 DEF RunningIsScanning, TypeOK, InScan
  <2>3. {scanOf'[h] : h \in InScan'} = {scanOf[h] : h \in InScan} \ {scanOf[g]}
    BY <2>1, <2>2
  <2>4. Spawning => scanOf[g] # current
    BY <2>1 DEF RunningIsScanning
  <2> QED BY <2>1, <2>2, <2>3, <2>4 DEF RunningIsScanning
<1>9. CASE Shutdown \/ WaitAndClose \/ UNCHANGED vars
  BY <1>9, RunningFrame
  DEF Shutdown, WaitAndClose, InScan, Spawning, marks, loop, scans, vars
<1> QED
  BY <1>1, <1>2, <1>3, <1>4, <1>5, <1>6, <1>7, <1>8, <1>9 DEF Next, LoopStep, ScanStep

-----------------------------------------------------------------------------
(* The queue *)

(* QueuedIsWaiting reads only the channel, queued and the loop. *)
LEMMA QueuedFrame ==
  ASSUME QueuedIsWaiting, UNCHANGED <<trigger, queued>>,
         loopAt # "unqueue", loopAt' # "unqueue"
  PROVE  QueuedIsWaiting'
  BY DEF QueuedIsWaiting

(* Every step keeps QueuedIsWaiting. *)
LEMMA QueuedStep ==
  ASSUME TypeOK, QueuedIsWaiting, [Next]_vars
  PROVE  QueuedIsWaiting'
<1>1. ASSUME NEW s \in Subnets, Trigger(s) PROVE QueuedIsWaiting'
  <2>1. /\ trigger' = Append(trigger, s) /\ queued' = queued \cup {s} /\ s \notin queued
        /\ UNCHANGED <<loopAt, current>>
    BY <1>1 DEF Trigger, Accept, loop
  <2>2. /\ Len(trigger) \in Nat /\ Len(trigger') = Len(trigger) + 1
        /\ trigger'[Len(trigger) + 1] = s
        /\ \A i \in 1..Len(trigger) : trigger'[i] = trigger[i]
    BY <2>1 DEF TypeOK
  <2>3. \A i \in 1..Len(trigger) : trigger[i] \in queued
    BY DEF QueuedIsWaiting
  <2>4. loopAt = "unqueue" => current \in queued
    BY DEF QueuedIsWaiting
  <2>5. {trigger'[i] : i \in 1..Len(trigger')} = {trigger[i] : i \in 1..Len(trigger)} \cup {s}
    BY <2>2
  <2>6. \A i, j \in 1..Len(trigger') : trigger'[i] = trigger'[j] => i = j
    BY <2>1, <2>2, <2>3 DEF QueuedIsWaiting
  <2>7. loopAt' = "unqueue" => \A i \in 1..Len(trigger') : trigger'[i] # current'
    BY <2>1, <2>2, <2>4 DEF QueuedIsWaiting
  <2> QED BY <2>1, <2>5, <2>6, <2>7 DEF QueuedIsWaiting
<1>2. CASE Receive
  <2>1. /\ loopAt = "select" /\ loopAt' = "unqueue" /\ current' = Head(trigger)
        /\ trigger # <<>> /\ trigger' = Tail(trigger) /\ queued' = queued
    BY <1>2 DEF Receive, marks
  <2>2. /\ Len(trigger) \in Nat \ {0} /\ current' = trigger[1]
        /\ Len(trigger') = Len(trigger) - 1
        /\ \A i \in 1..Len(trigger') : trigger'[i] = trigger[i + 1]
    BY <2>1, Dequeue DEF TypeOK
  <2>3. \A i \in 1..Len(trigger') : i + 1 \in 1..Len(trigger) /\ i + 1 # 1
    BY <2>2
  <2>4. {trigger[i] : i \in 1..Len(trigger)} = {trigger'[i] : i \in 1..Len(trigger')} \cup {current'}
    <3>1. ASSUME NEW i \in 1..Len(trigger)
          PROVE  trigger[i] \in {trigger'[k] : k \in 1..Len(trigger')} \cup {current'}
      <4>1. CASE i = 1
        BY <4>1, <2>2
      <4>2. CASE i # 1
        <5>1. i - 1 \in 1..Len(trigger') /\ (i - 1) + 1 = i
          BY <4>2, <2>2
        <5>2. trigger'[i - 1] = trigger[i]
          BY <5>1, <2>2
        <5> QED BY <5>1, <5>2
      <4> QED BY <4>1, <4>2
    <3>2. ASSUME NEW i \in 1..Len(trigger')
          PROVE  trigger'[i] \in {trigger[k] : k \in 1..Len(trigger)}
      BY <2>2, <2>3
    <3>3. current' \in {trigger[k] : k \in 1..Len(trigger)}
      BY <2>2
    <3> QED BY <3>1, <3>2, <3>3
  <2>5. \A i, j \in 1..Len(trigger') : trigger'[i] = trigger'[j] => i = j
    <3> SUFFICES ASSUME NEW i \in 1..Len(trigger'), NEW j \in 1..Len(trigger'),
                        trigger'[i] = trigger'[j]
                 PROVE  i = j
      OBVIOUS
    <3>1. trigger[i + 1] = trigger[j + 1]
      BY <2>2
    <3>2. i + 1 = j + 1
      BY <3>1, <2>3 DEF QueuedIsWaiting
    <3> QED BY <3>2, <2>2
  <2>6. \A i \in 1..Len(trigger') : trigger'[i] # current'
    <3> SUFFICES ASSUME NEW i \in 1..Len(trigger'), trigger'[i] = current' PROVE FALSE
      OBVIOUS
    <3>1. trigger[i + 1] = trigger[1] /\ 1 \in 1..Len(trigger)
      BY <2>2
    <3> QED BY <3>1, <2>3 DEF QueuedIsWaiting
  <2>7. queued = {trigger[i] : i \in 1..Len(trigger)}
    BY <2>1 DEF QueuedIsWaiting
  <2> QED BY <2>1, <2>4, <2>5, <2>6, <2>7 DEF QueuedIsWaiting
<1>3. CASE Unqueue
  <2>1. /\ loopAt = "unqueue" /\ loopAt' = "load"
        /\ trigger' = trigger /\ queued' = queued \ {current}
    BY <1>3 DEF Unqueue, LoopGoto
  <2>2. queued \ {current} = {trigger[i] : i \in 1..Len(trigger)}
    BY <2>1 DEF QueuedIsWaiting
  <2> QED BY <2>1, <2>2 DEF QueuedIsWaiting
<1>4. CASE Tick \/ LoopExit \/ Load \/ LoadFails \/ TickEnd \/ Start
  BY <1>4, QueuedFrame
  DEF Tick, LoopExit, Load, LoadFails, TickEnd, Start, Skip, Mark, LoopGoto, marks
<1>5. ASSUME NEW s \in Subnets, TickSubnet(s) PROVE QueuedIsWaiting'
  BY <1>5, QueuedFrame DEF TickSubnet, marks
<1>6. ASSUME NEW g \in Goroutines, Spawn(g) PROVE QueuedIsWaiting'
  BY <1>6, QueuedFrame DEF Spawn, LoopGoto, marks
<1>7. ASSUME UNCHANGED <<trigger, queued, loopAt, current>> PROVE QueuedIsWaiting'
  BY <1>7 DEF QueuedIsWaiting
<1>8. ASSUME NEW s \in Subnets, EditSubnet(s) \/ IntervalPasses(s) PROVE QueuedIsWaiting'
  BY <1>7, <1>8 DEF EditSubnet, IntervalPasses, marks, loop
<1>9. ASSUME NEW g \in Goroutines, Acquire(g) \/ BeginWrite(g) \/ ScanStep(g)
      PROVE  QueuedIsWaiting'
  BY <1>7, <1>9 DEF Acquire, BeginWrite, ScanStep, GiveUp, EndWrite, SweepEnds, Release,
                    Unmark, ScanOnly, marks, loop
<1>10. CASE Shutdown \/ WaitAndClose \/ UNCHANGED vars
  BY <1>7, <1>10 DEF Shutdown, WaitAndClose, marks, loop, vars
<1> QED
  BY <1>1, <1>2, <1>3, <1>4, <1>5, <1>6, <1>8, <1>9, <1>10 DEF Next, LoopSelect, LoopStep

(* The channel holds different subnets, so one that is not among them finds a
   place if there is one for every subnet. *)
LEMMA QueueHasRoom == TypeOK /\ QueuedIsWaiting => ScanAllFits
<1> SUFFICES ASSUME TypeOK, QueuedIsWaiting, Cardinality(Subnets) <= QueueCap,
                    NEW s \in Subnets, s \notin queued, ~(Len(trigger) < QueueCap)
             PROVE  FALSE
  BY DEF ScanAllFits
<1> DEFINE Others == Subnets \ {s}
<1>1. /\ IsFiniteSet(Others) /\ Cardinality(Others) = Cardinality(Subnets) - 1
      /\ Cardinality(Subnets) \in Nat
  BY SubnetsAssumption, FS_RemoveElement, FS_CardinalityType
<1>2. Len(trigger) \in Nat /\ QueueCap \in Nat /\ trigger \in [1..Len(trigger) -> Subnets]
  BY LimitsAssumption DEF TypeOK
<1>3. IsFiniteSet(1..Len(trigger)) /\ Cardinality(1..Len(trigger)) = Len(trigger)
  <2>1. 1 \in Int /\ Len(trigger) \in Int
    BY <1>2
  <2>2. /\ IsFiniteSet(1..Len(trigger))
        /\ Cardinality(1..Len(trigger)) =
             IF 1 > Len(trigger) THEN 0 ELSE Len(trigger) - 1 + 1
    BY <2>1, FS_Interval
  <2> QED BY <1>2, <2>2
<1>4. trigger \in [1..Len(trigger) -> Others]
  BY <1>2 DEF QueuedIsWaiting
<1>5. Cardinality(Others) < Cardinality(1..Len(trigger))
  BY <1>1, <1>2, <1>3
<1>6. \E i, j \in 1..Len(trigger) : i # j /\ trigger[i] = trigger[j]
  <2> HIDE DEF Others
  <2> QED BY <1>1, <1>3, <1>4, <1>5, FS_PigeonHole
<1> QED BY <1>6 DEF QueuedIsWaiting

-----------------------------------------------------------------------------
(* Accepted triggers *)

(* Every step keeps accepted triggers, and keeps them off running subnets. *)
LEMMA OwedStep ==
  ASSUME TypeOK, AcceptedTriggerKept, OwedIsNotRunning, [Next]_vars
  PROVE  AcceptedTriggerKept' /\ OwedIsNotRunning'
<1> USE DEF AcceptedTriggerKept, OwedIsNotRunning
<1>1. ASSUME NEW s \in Subnets, Trigger(s) PROVE AcceptedTriggerKept' /\ OwedIsNotRunning'
  BY <1>1 DEF Trigger, Accept, loop
<1>2. CASE Unqueue
  BY <1>2 DEF Unqueue, LoopGoto
<1>3. CASE Load \/ LoadFails
  BY <1>3 DEF Load, LoadFails, LoopGoto, marks
<1>4. CASE Start
  <2>1. CASE current \in running
    BY <1>4, <2>1 DEF Start, Skip, LoopGoto
  <2>2. CASE current \notin running
    BY <1>4, <2>2 DEF Start, Mark, LoopGoto
  <2> QED BY <2>1, <2>2
<1>5. CASE Receive \/ Tick \/ LoopExit \/ TickEnd
  BY <1>5 DEF Receive, Tick, LoopExit, TickEnd, LoopGoto, marks
<1>6. ASSUME NEW s \in Subnets, TickSubnet(s)
      PROVE  AcceptedTriggerKept' /\ OwedIsNotRunning'
  BY <1>6 DEF TickSubnet, marks
<1>7. ASSUME NEW g \in Goroutines, Spawn(g)
      PROVE  AcceptedTriggerKept' /\ OwedIsNotRunning'
  BY <1>7 DEF Spawn, LoopGoto, marks
<1>8. ASSUME UNCHANGED <<queued, owed, loopAt, current>>, running' \subseteq running
      PROVE  AcceptedTriggerKept' /\ OwedIsNotRunning'
  BY <1>8
<1>9. ASSUME NEW s \in Subnets, EditSubnet(s) \/ IntervalPasses(s)
      PROVE  AcceptedTriggerKept' /\ OwedIsNotRunning'
  BY <1>8, <1>9 DEF EditSubnet, IntervalPasses, marks, loop
<1>10. ASSUME NEW g \in Goroutines, Acquire(g) \/ BeginWrite(g) \/ ScanStep(g)
       PROVE  AcceptedTriggerKept' /\ OwedIsNotRunning'
  BY <1>8, <1>10 DEF Acquire, BeginWrite, ScanStep, GiveUp, EndWrite, SweepEnds, Release,
                     Unmark, ScanOnly, marks, loop
<1>11. CASE Shutdown \/ WaitAndClose \/ UNCHANGED vars
  BY <1>8, <1>11 DEF Shutdown, WaitAndClose, marks, loop, vars
<1> QED
  BY <1>1, <1>2, <1>3, <1>4, <1>5, <1>6, <1>7, <1>9, <1>10, <1>11
  DEF Next, LoopSelect, LoopStep

-----------------------------------------------------------------------------
(* Shutdown *)

(* Every step keeps scans from writing once the database is closed. *)
LEMMA CloseStep ==
  ASSUME TypeOK, NoWriteAfterClose, [Next]_vars
  PROVE  NoWriteAfterClose'
<1> USE DEF NoWriteAfterClose, TypeOK
<1>1. ASSUME UNCHANGED <<mainAt, scanAt>> PROVE NoWriteAfterClose'
  BY <1>1
<1>2. ASSUME NEW s \in Subnets, Trigger(s) \/ EditSubnet(s) \/ IntervalPasses(s)
      PROVE  NoWriteAfterClose'
  BY <1>1, <1>2 DEF Trigger, Accept, EditSubnet, IntervalPasses, scans
<1>3. CASE LoopSelect
  BY <1>1, <1>3 DEF LoopSelect, Receive, Tick, LoopExit, scans
<1>4. CASE Unqueue \/ Load \/ LoadFails \/ TickEnd \/ Start
  BY <1>1, <1>4 DEF Unqueue, Load, LoadFails, TickEnd, Start, scans
<1>5. ASSUME NEW s \in Subnets, TickSubnet(s) PROVE NoWriteAfterClose'
  BY <1>1, <1>5 DEF TickSubnet, scans
<1>6. ASSUME NEW g \in Goroutines, Spawn(g) PROVE NoWriteAfterClose'
  BY <1>6 DEF Spawn
<1>7. ASSUME NEW g \in Goroutines, BeginWrite(g) PROVE NoWriteAfterClose'
  BY <1>7 DEF BeginWrite, Cancelled, ScanOnly
<1>8. ASSUME NEW g \in Goroutines, Acquire(g) \/ ScanStep(g) PROVE NoWriteAfterClose'
  BY <1>8 DEF Acquire, ScanStep, GiveUp, EndWrite, SweepEnds, Release, Unmark, ScanGoto, ScanOnly
<1>9. CASE Shutdown \/ WaitAndClose
  BY <1>9 DEF Shutdown, WaitAndClose, scans
<1>10. CASE UNCHANGED vars
  BY <1>1, <1>10 DEF vars
<1> QED
  BY <1>2, <1>3, <1>4, <1>5, <1>6, <1>7, <1>8, <1>9, <1>10 DEF Next, LoopStep

-----------------------------------------------------------------------------
(* The inductive invariant holds at the start. *)
LEMMA InvInit == Init => IInv
<1> SUFFICES ASSUME Init PROVE IInv
  OBVIOUS
<1>1. TypeOK
  BY TypeInit
<1>2. InScan = {} /\ ~Spawning /\ running = {} /\ queued = {} /\ owed = {}
  BY DEF Init, InScan, Spawning, Scanning, Holding, Sweeping
<1>3. RunningIsScanning
  BY <1>2 DEF RunningIsScanning
<1>4. Len(trigger) = 0 /\ loopAt # "unqueue" /\ mainAt # "closed"
  BY DEF Init
<1>5. QueuedIsWaiting
  BY <1>2, <1>4 DEF QueuedIsWaiting
<1> QED
  BY <1>1, <1>2, <1>3, <1>4, <1>5
  DEF IInv, AcceptedTriggerKept, OwedIsNotRunning, NoWriteAfterClose

(* Every step keeps the inductive invariant. *)
LEMMA InvStep == IInv /\ [Next]_vars => IInv'
  BY TypeStep, RunningStep, QueuedStep, OwedStep, CloseStep DEF IInv

(* The inductive invariant: types, marks, queue, accepted triggers and the close
   of the database, proved together. *)
THEOREM Invariance == Spec => []IInv
<1>1. Init => IInv
  BY InvInit
<1>2. IInv /\ [Next]_vars => IInv'
  BY InvStep
<1> QED
  BY <1>1, <1>2, PTL DEF Spec, Safety

(* Two sweeps of one subnet never overlap, and Status and Trigger, which read
   running, see exactly the subnets being scanned (scheduler.go:23-24). *)
THEOREM SweepsNeverOverlap == Spec => []RunningIsScanning
<1>1. IInv => RunningIsScanning
  BY DEF IInv
<1> QED
  BY <1>1, Invariance, PTL

(* A subnet waits in the channel at most once, and queued names exactly the
   waiting ones (scheduler.go:26-28). *)
THEOREM QueueHasNoCopies == Spec => []QueuedIsWaiting
<1>1. IInv => QueuedIsWaiting
  BY DEF IInv
<1> QED
  BY <1>1, Invariance, PTL

(* With a channel place per subnet, a full channel never refuses a request
   (scheduler.go:39-41). *)
THEOREM ScanAllIsNeverDropped == Spec => []ScanAllFits
<1>1. IInv => ScanAllFits
  BY QueueHasRoom DEF IInv
<1> QED
  BY <1>1, Invariance, PTL

(* The loop never drops an accepted request as "already running": until a scan
   that began after it, the request is in the channel or in the loop's hands
   (scheduler.go:56-69, 151-156). *)
THEOREM NoAcceptedTriggerIsLost == Spec => []AcceptedTriggerKept
<1>1. IInv => AcceptedTriggerKept
  BY DEF IInv
<1> QED
  BY <1>1, Invariance, PTL

(* The database is not closed from under a sweep (scheduler.go:181-183,
   main.go:468-470). *)
THEOREM DatabaseOutlivesSweeps == Spec => []NoWriteAfterClose
<1>1. IInv => NoWriteAfterClose
  BY DEF IInv
<1> QED
  BY <1>1, Invariance, PTL
=============================================================================
