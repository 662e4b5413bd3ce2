--------------------------- MODULE PresenceProofs ---------------------------
(* Proofs about Presence for every set of interfaces, callers and thresholds. *)
EXTENDS Presence, TLAPS

(* The placeholders of an idle call are values of their types. *)
LEMMA AnyInRange == AnyIface \in Ifaces /\ AnyLimit \in Thresholds
  BY IfacesAssumption DEF AnyIface, AnyLimit

-----------------------------------------------------------------------------
(* Types *)

TableTypes ==
  /\ exists \in [Ifaces -> BOOLEAN]
  /\ status \in [Ifaces -> Statuses]
  /\ missed \in [Ifaces -> 0..MissCap]

CallTypes ==
  /\ at \in [Callers -> Steps]
  /\ subject \in [Callers -> Ifaces]
  /\ limit \in [Callers -> Thresholds]
  /\ discovering \in [Callers -> BOOLEAN]

(* Moving on to a statement keeps the types of the call variables. *)
LEMMA GotoTypes ==
  ASSUME CallTypes, NEW c \in Callers, NEW step \in Steps, Goto(c, step)
  PROVE  CallTypes'
  BY DEF CallTypes, Goto, calls

(* So does ending the call. *)
LEMMA IdleTypes ==
  ASSUME CallTypes, NEW c \in Callers, Idle(c)
  PROVE  CallTypes'
  BY AnyInRange DEF CallTypes, Idle, Steps

(* So does an early return or an error. *)
LEMMA ReturnTypes ==
  ASSUME CallTypes, NEW c \in Callers, Return(c)
  PROVE  CallTypes'
  BY GotoTypes, IdleTypes DEF Return, Steps, SaySteps

(* So does the return that reports a transition to online. *)
LEMMA ReturnOnlineTypes ==
  ASSUME CallTypes, NEW c \in Callers, ReturnOnline(c)
  PROVE  CallTypes'
  BY GotoTypes DEF ReturnOnline, Steps, SaySteps

(* So does the return of an error in place of it. *)
LEMMA ReturnErrorTypes ==
  ASSUME CallTypes, NEW c \in Callers, ReturnError(c)
  PROVE  CallTypes'
  BY GotoTypes DEF ReturnError, Steps, SaySteps

(* What a statement does to the tables keeps their types. *)
LEMMA EffectTypes ==
  ASSUME TableTypes, CallTypes, NEW c \in Callers,
         InsertLands(c) \/ FlipLands(c) \/ ClearMisses(c) \/ AddMiss(c) \/ TakeDownLands(c)
  PROVE  TableTypes'
<1>1. 0 \in 0..MissCap /\ subject[c] \in Ifaces
  BY MissCapAssumption DEF CallTypes
<1>2. \A i \in Ifaces : (IF missed[i] < MissCap THEN missed[i] + 1 ELSE MissCap) \in 0..MissCap
  BY MissCapAssumption DEF TableTypes
<1>3. CASE InsertLands(c) \/ FlipLands(c) \/ ClearMisses(c)
  BY <1>1, <1>3 DEF InsertLands, FlipLands, ClearMisses, ShowOnline, TableTypes, Statuses
<1>4. CASE AddMiss(c)
  BY <1>1, <1>2, <1>4 DEF AddMiss, TableTypes
<1>5. CASE TakeDownLands(c)
  BY <1>1, <1>5 DEF TakeDownLands, TableTypes, Statuses
<1> QED BY <1>3, <1>4, <1>5

(* So does the start of a call. *)
LEMMA BeginTypes ==
  ASSUME CallTypes, NEW c \in Callers, NEW i \in Ifaces, NEW step \in Steps,
         NEW n \in Thresholds, NEW new \in BOOLEAN, Begin(c, i, step, n, new)
  PROVE  CallTypes'
  BY DEF CallTypes, Begin

(* The database rows and the variables of every call keep their types. *)
THEOREM TypeCorrect == Spec => []TypeOK
<1>1. Init => TypeOK
  BY AnyInRange, MissCapAssumption DEF Init, TypeOK, Statuses, Steps
<1>2. TypeOK /\ [Next]_vars => TypeOK'
  <2> SUFFICES ASSUME TypeOK, [Next]_vars PROVE TableTypes' /\ CallTypes'
    BY DEF TypeOK, TableTypes, CallTypes
  <2>0. TableTypes /\ CallTypes
    BY DEF TypeOK, TableTypes, CallTypes
  <2>a. (UNCHANGED table) => TableTypes'
    BY <2>0 DEF table, TableTypes
  <2>b. "flip" \in Steps /\ "refresh" \in Steps /\ "takeDown" \in Steps /\ "sayOffline" \in Steps
        /\ "insert" \in Steps /\ "count" \in Steps
    BY DEF Steps, SeenSteps, MissSteps, SaySteps
  <2>1. ASSUME NEW c \in Callers, InsertStatus(c) PROVE TableTypes' /\ CallTypes'
    BY <2>1, <2>0, <2>a, <2>b, EffectTypes, ReturnTypes, ReturnOnlineTypes, GotoTypes
       DEF InsertStatus
  <2>2. ASSUME NEW c \in Callers, FlipOnline(c) PROVE TableTypes' /\ CallTypes'
    BY <2>2, <2>0, <2>a, <2>b, EffectTypes, ReturnOnlineTypes, GotoTypes DEF FlipOnline
  <2>3. ASSUME NEW c \in Callers, Refresh(c) PROVE TableTypes' /\ CallTypes'
    BY <2>3, <2>0, EffectTypes, ReturnTypes DEF Refresh
  <2>4. ASSUME NEW c \in Callers, CountMiss(c) PROVE TableTypes' /\ CallTypes'
    BY <2>4, <2>0, <2>a, <2>b, EffectTypes, ReturnTypes, GotoTypes DEF CountMiss
  <2>5. ASSUME NEW c \in Callers, TakeDown(c) PROVE TableTypes' /\ CallTypes'
    BY <2>5, <2>0, <2>a, <2>b, EffectTypes, ReturnTypes, GotoTypes DEF TakeDown
  <2>6. ASSUME NEW c \in Callers, Say(c) PROVE TableTypes' /\ CallTypes'
    BY <2>6, <2>0, <2>a, IdleTypes DEF Say
  <2>7. ASSUME NEW c \in Callers, StatementFails(c) PROVE TableTypes' /\ CallTypes'
    BY <2>7, <2>0, <2>a, ReturnTypes DEF StatementFails
  <2>c. ASSUME NEW c \in Callers, AnswerLost(c) PROVE TableTypes' /\ CallTypes'
    BY <2>c, <2>0, EffectTypes, ReturnTypes, ReturnErrorTypes DEF AnswerLost
  <2>8. ASSUME NEW c \in Callers, NEW i \in Ifaces, BeginSeen(c, i)
        PROVE  TableTypes' /\ CallTypes'
    BY <2>8, <2>0, <2>a, <2>b, AnyInRange, BeginTypes DEF BeginSeen
  <2>9. ASSUME NEW c \in Callers, NEW i \in Ifaces, Discover(c, i)
        PROVE  TableTypes' /\ CallTypes'
    <3>1. CallTypes'
      BY <2>9, <2>0, <2>b, AnyInRange, BeginTypes DEF Discover
    <3>2. TableTypes'
      BY <2>9, <2>0 DEF Discover, TableTypes
    <3>3. QED BY <3>1, <3>2
  <2>10. ASSUME NEW c \in Callers, NEW i \in Ifaces, NEW n \in Thresholds, BeginMissed(c, i, n)
         PROVE  TableTypes' /\ CallTypes'
    BY <2>10, <2>0, <2>a, <2>b, BeginTypes DEF BeginMissed
  <2>11. ASSUME NEW i \in Ifaces, CreateIface(i) PROVE TableTypes' /\ CallTypes'
    BY <2>11, <2>0 DEF CreateIface, TableTypes, CallTypes, calls
  <2>12. ASSUME NEW i \in Ifaces, DeleteIface(i) PROVE TableTypes' /\ CallTypes'
    BY <2>12, <2>0, MissCapAssumption DEF DeleteIface, TableTypes, CallTypes, calls, Statuses
  <2>13. CASE UNCHANGED vars
    BY <2>13, <2>0 DEF vars, TableTypes, CallTypes
  <2>14. QED
    BY <2>1, <2>2, <2>3, <2>4, <2>5, <2>6, <2>7, <2>c, <2>8, <2>9, <2>10, <2>11, <2>12, <2>13
       DEF Next, Advance
<1>3. QED BY <1>1, <1>2, PTL DEF Spec, Safety

-----------------------------------------------------------------------------
(* Status rows and interface rows *)

(* A status row never outlives its interface, so a later interface that gets
   the same id starts unseen (ON DELETE CASCADE and the foreign key). *)
THEOREM StatusNeedsInterface == Spec => []NoOrphanStatus
<1>1. Init => NoOrphanStatus
  BY DEF Init, NoOrphanStatus
<1>2. TypeOK /\ NoOrphanStatus /\ [Next]_vars => NoOrphanStatus'
  <2> SUFFICES ASSUME TypeOK, NoOrphanStatus, [Next]_vars PROVE NoOrphanStatus'
    OBVIOUS
  <2> USE DEF TypeOK, NoOrphanStatus
  <2>1. (UNCHANGED table) => NoOrphanStatus'
    BY DEF table
  <2>2. ASSUME NEW c \in Callers, InsertLands(c) \/ FlipLands(c) PROVE NoOrphanStatus'
    BY <2>2 DEF InsertLands, FlipLands, ShowOnline
  <2>3. ASSUME NEW c \in Callers, ClearMisses(c) \/ AddMiss(c) PROVE NoOrphanStatus'
    BY <2>3 DEF ClearMisses, AddMiss
  <2>4. ASSUME NEW c \in Callers, TakeDownLands(c) PROVE NoOrphanStatus'
    BY <2>4 DEF TakeDownLands
  <2>5. ASSUME NEW c \in Callers,
               \/ InsertStatus(c) \/ FlipOnline(c) \/ Refresh(c) \/ CountMiss(c) \/ TakeDown(c)
               \/ AnswerLost(c)
        PROVE  NoOrphanStatus'
    BY <2>1, <2>2, <2>3, <2>4, <2>5
       DEF InsertStatus, FlipOnline, Refresh, CountMiss, TakeDown, AnswerLost
  <2>6. ASSUME NEW c \in Callers, Say(c) \/ StatementFails(c) PROVE NoOrphanStatus'
    BY <2>1, <2>6 DEF Say, StatementFails
  <2>7. ASSUME NEW c \in Callers, NEW i \in Ifaces, BeginSeen(c, i) \/ Discover(c, i)
        PROVE  NoOrphanStatus'
    BY <2>1, <2>7 DEF BeginSeen, Discover
  <2>8. ASSUME NEW c \in Callers, NEW i \in Ifaces, NEW n \in Thresholds, BeginMissed(c, i, n)
        PROVE  NoOrphanStatus'
    BY <2>1, <2>8 DEF BeginMissed
  <2>9. ASSUME NEW i \in Ifaces, CreateIface(i) \/ DeleteIface(i) PROVE NoOrphanStatus'
    BY <2>9 DEF CreateIface, DeleteIface
  <2>10. CASE UNCHANGED vars
    BY <2>1, <2>10 DEF vars, table
  <2>11. QED
    BY <2>5, <2>6, <2>7, <2>8, <2>9, <2>10 DEF Next, Advance
<1>3. QED BY <1>1, <1>2, TypeCorrect, PTL DEF Spec, Safety

-----------------------------------------------------------------------------
(* createUnknown's call *)

(* A call that createUnknown started never runs a statement of MarkMissed. *)
LEMMA DiscoveringOnlySees == Spec => []DiscoveringIsSeeing
<1>1. Init => DiscoveringIsSeeing
  BY DEF Init, DiscoveringIsSeeing
<1>2. TypeOK /\ DiscoveringIsSeeing /\ [Next]_vars => DiscoveringIsSeeing'
  <2> SUFFICES ASSUME TypeOK, DiscoveringIsSeeing, [Next]_vars PROVE DiscoveringIsSeeing'
    OBVIOUS
  <2> USE DEF TypeOK, DiscoveringIsSeeing, SeenSteps, MissSteps, calls
  <2>1. ASSUME NEW c \in Callers, Return(c) PROVE DiscoveringIsSeeing'
    BY <2>1 DEF Return, Goto, Idle
  <2>2. ASSUME NEW c \in Callers, ReturnOnline(c) \/ ReturnError(c) PROVE DiscoveringIsSeeing'
    BY <2>2 DEF ReturnOnline, ReturnError, Goto
  <2>3. ASSUME NEW c \in Callers, at[c] \in SeenSteps,
               Goto(c, "flip") \/ Goto(c, "refresh")
        PROVE  DiscoveringIsSeeing'
    BY <2>3 DEF Goto
  <2>4. ASSUME NEW c \in Callers, at[c] \in MissSteps,
               Goto(c, "takeDown") \/ Goto(c, "sayOffline")
        PROVE  DiscoveringIsSeeing'
    BY <2>4 DEF Goto
  <2>5. ASSUME NEW c \in Callers, Advance(c) \/ StatementFails(c) \/ AnswerLost(c)
        PROVE  DiscoveringIsSeeing'
    BY <2>1, <2>2, <2>3, <2>4, <2>5
       DEF Advance, StatementFails, AnswerLost, InsertStatus, FlipOnline, Refresh, CountMiss, TakeDown, Say, Idle
  <2>6. ASSUME NEW c \in Callers, NEW i \in Ifaces, BeginSeen(c, i) \/ Discover(c, i)
        PROVE  DiscoveringIsSeeing'
    BY <2>6 DEF BeginSeen, Discover, Begin
  <2>7. ASSUME NEW c \in Callers, NEW i \in Ifaces, NEW n \in Thresholds, BeginMissed(c, i, n)
        PROVE  DiscoveringIsSeeing'
    BY <2>7 DEF BeginMissed, Begin
  <2>8. ASSUME NEW i \in Ifaces, CreateIface(i) \/ DeleteIface(i) PROVE DiscoveringIsSeeing'
    BY <2>8 DEF CreateIface, DeleteIface
  <2>9. CASE UNCHANGED vars
    BY <2>9 DEF vars
  <2>10. QED BY <2>5, <2>6, <2>7, <2>8, <2>9 DEF Next
<1>3. QED BY <1>1, <1>2, TypeCorrect, PTL DEF Spec, Safety

-----------------------------------------------------------------------------
(* Misses *)

(* Only a sighting in progress clears misses or revives an interface. *)
THEOREM OnlySightingsForgive == Spec => MissNeverForgives
<1>1. TypeOK /\ [Next]_vars => [\A i \in Ifaces : Forgiven(i) => BeingSeen(i)]_vars
  <2> SUFFICES ASSUME TypeOK, Next, NEW j \in Ifaces, Forgiven(j)
               PROVE  BeingSeen(j)
    OBVIOUS
  <2> USE DEF TypeOK, SeenSteps, MissSteps, Forgiven
  <2>0. ~UNCHANGED <<status, missed>>
    BY MissCapAssumption
  <2>1. ~UNCHANGED table
    BY <2>0 DEF table
  <2>2. ASSUME NEW c \in Callers, at[c] \in SeenSteps,
               InsertLands(c) \/ FlipLands(c) \/ ClearMisses(c)
        PROVE  BeingSeen(j)
    BY <2>2, MissCapAssumption DEF InsertLands, FlipLands, ClearMisses, ShowOnline, BeingSeen
  <2>3. ASSUME NEW c \in Callers, AddMiss(c) \/ TakeDownLands(c) PROVE FALSE
    BY <2>3, MissCapAssumption DEF AddMiss, TakeDownLands
  <2>4. ASSUME NEW c \in Callers,
               \/ InsertStatus(c) \/ FlipOnline(c) \/ Refresh(c) \/ CountMiss(c) \/ TakeDown(c)
               \/ AnswerLost(c)
        PROVE  BeingSeen(j)
    BY <2>1, <2>2, <2>3, <2>4
       DEF InsertStatus, FlipOnline, Refresh, CountMiss, TakeDown, AnswerLost
  <2>5. ASSUME NEW c \in Callers, Say(c) \/ StatementFails(c) PROVE FALSE
    BY <2>1, <2>5 DEF Say, StatementFails
  <2>6. ASSUME NEW c \in Callers, NEW i \in Ifaces, BeginSeen(c, i) \/ Discover(c, i) PROVE FALSE
    BY <2>0, <2>1, <2>6 DEF BeginSeen, Discover
  <2>7. ASSUME NEW c \in Callers, NEW i \in Ifaces, NEW n \in Thresholds, BeginMissed(c, i, n)
        PROVE  FALSE
    BY <2>1, <2>7 DEF BeginMissed
  <2>8. ASSUME NEW i \in Ifaces, CreateIface(i) \/ DeleteIface(i) PROVE FALSE
    BY <2>8, MissCapAssumption DEF CreateIface, DeleteIface
  <2>9. QED BY <2>4, <2>5, <2>6, <2>7, <2>8 DEF Next, Advance
<1>2. QED BY <1>1, TypeCorrect, PTL DEF Spec, Safety, MissNeverForgives

-----------------------------------------------------------------------------
(* Refinement *)

(* A step that leaves c's debt, and the call of everybody else, alone leaves
   the debts as they are. *)
OthersSame(c) ==
  \A d \in Callers \ {c} :
    at'[d] = at[d] /\ subject'[d] = subject[d] /\ discovering'[d] = discovering[d]

(* Owings is the function of the debts of the callers. *)
LEMMA OwingsAt == \A c \in Callers : Owings[c] = Owing(c)
  BY DEF Owings

(* If one caller moves and owes what it owed, no debt changes. *)
LEMMA DebtKept ==
  ASSUME NEW c \in Callers, OthersSame(c), Owing(c)' = Owing(c)
  PROVE  Owings' = Owings
<1>1. \A d \in Callers : Owing(d)' = Owing(d)
  BY DEF OthersSame, Owing
<1>2. QED BY <1>1 DEF Owings

(* If one caller moves, only its own debt changes. *)
LEMMA DebtChanged ==
  ASSUME NEW c \in Callers, OthersSame(c)
  PROVE  Owings' = [Owings EXCEPT ![c] = Owing(c)']
<1>1. \A d \in Callers \ {c} : Owing(d)' = Owing(d)
  BY DEF OthersSame, Owing
<1>2. QED BY <1>1 DEF Owings

(* Every way to move on in a call moves one caller only. *)
LEMMA OneCallMoves ==
  ASSUME TypeOK, NEW c \in Callers
  PROVE  /\ \A step : Goto(c, step) => OthersSame(c)
         /\ Idle(c) => OthersSame(c)
         /\ \A i, step, n, new : Begin(c, i, step, n, new) => OthersSame(c)
  BY DEF TypeOK, Goto, Idle, Begin, OthersSame, calls

(* Returning without a transition creates no debt and drops none. *)
LEMMA ReturnKeepsDebts ==
  ASSUME TypeOK, NEW c \in Callers, at[c] \notin SaySteps, Return(c)
  PROVE  Owings' = Owings
<1>1. OthersSame(c)
  BY OneCallMoves DEF Return
<1>2. Owing(c)' = Owing(c)
  BY DEF Return, Goto, Idle, Owing, TypeOK, SaySteps, calls
<1>3. QED BY <1>1, <1>2, DebtKept

(* So does going from one statement to the next. *)
LEMMA GotoKeepsDebts ==
  ASSUME TypeOK, NEW c \in Callers, NEW step, at[c] \notin SaySteps,
         step \notin SaySteps, Goto(c, step)
  PROVE  Owings' = Owings
<1>1. OthersSame(c)
  BY OneCallMoves
<1>2. Owing(c)' = Owing(c)
  BY DEF Goto, Owing, TypeOK, SaySteps, calls
<1>3. QED BY <1>1, <1>2, DebtKept

(* A sighting that brings an interface online is the abstract ComeOnline, or
   FirstSighting for the interface the caller itself created, whether its
   caller learns of it or gets an error. *)
LEMMA OnlineStep ==
  ASSUME TypeOK, NEW c \in Callers, at[c] \in SeenSteps,
         InsertLands(c) \/ FlipLands(c), ReturnOnline(c) \/ ReturnError(c)
  PROVE  Contract!Next
<1> DEFINE i == subject[c]
<1>0. /\ i \in Ifaces /\ status[i] # "online"
      /\ status' = [status EXCEPT ![i] = "online"]
  BY DEF InsertLands, FlipLands, ShowOnline, TypeOK
<1> HIDE DEF i
<1>1. OthersSame(c)
  BY OneCallMoves DEF ReturnOnline, ReturnError
<1>2. CASE discovering[c]
  <2>1. Owing(c) = <<i, "new">> /\ Owing(c)' = Owing(c)
    BY <1>2 DEF i, Owing, ReturnOnline, ReturnError, Goto, calls
  <2>2. Owings' = Owings
    BY <1>1, <2>1, DebtKept
  <2>3. Contract!FirstSighting(c, i)
    BY <1>0, <2>1, <2>2, OwingsAt DEF Contract!FirstSighting, Contract!Owe
  <2>4. QED BY <1>0, <2>3 DEF Contract!Next
<1>3. CASE ~discovering[c]
  <2>1. Owing(c) = <<>> /\ Owing(c)' \in {<<i, "online">>, <<i, "error">>}
    BY <1>3 DEF i, Owing, ReturnOnline, ReturnError, Goto, calls, TypeOK, SeenSteps
  <2>2. Owings' = [Owings EXCEPT ![c] = Owing(c)']
    BY <1>1, DebtChanged
  <2>3. Contract!ComeOnline(c, i)
    BY <1>0, <2>1, <2>2, OwingsAt DEF Contract!ComeOnline, Contract!Owe, Contract!Nothing
  <2>4. QED BY <1>0, <2>3 DEF Contract!Next
<1>4. QED BY <1>2, <1>3

(* A miss that takes an interface offline is the abstract GoOffline. *)
LEMMA OfflineStep ==
  ASSUME TypeOK, DiscoveringIsSeeing, NEW c \in Callers, at[c] = "takeDown",
         TakeDownLands(c), Goto(c, "sayOffline") \/ ReturnError(c)
  PROVE  Contract!Next
<1> DEFINE i == subject[c]
<1>0. /\ i \in Ifaces /\ status[i] = "online" /\ ~discovering[c]
      /\ status' = [status EXCEPT ![i] = "offline"]
  BY DEF TakeDownLands, TypeOK, DiscoveringIsSeeing, SeenSteps
<1> HIDE DEF i
<1>1. OthersSame(c)
  BY OneCallMoves DEF ReturnError
<1>2. Owing(c) = <<>> /\ Owing(c)' \in {<<i, "offline">>, <<i, "error">>}
  BY <1>0 DEF i, Owing, ReturnError, Goto, calls, TypeOK
<1>3. Owings' = [Owings EXCEPT ![c] = Owing(c)']
  BY <1>1, DebtChanged
<1>4. Contract!GoOffline(c, i)
  BY <1>0, <1>2, <1>3, OwingsAt DEF Contract!GoOffline, Contract!Owe, Contract!Nothing
<1>5. QED BY <1>0, <1>4 DEF Contract!Next

(* Every step of the statement sequences is a step of the contract or none. *)
LEMMA StepRefines ==
  ASSUME TypeOK, DiscoveringIsSeeing, [Next]_vars
  PROVE  [Contract!Next]_(Contract!vars)
<1>1. ASSUME Owings' = Owings, status' = status PROVE UNCHANGED Contract!vars
  BY <1>1 DEF Contract!vars
<1>2. ASSUME NEW c \in Callers, at[c] \notin SaySteps, status' = status,
             \/ Return(c)
             \/ \E step \in {"flip", "refresh", "takeDown"} : Goto(c, step)
      PROVE  [Contract!Next]_(Contract!vars)
  BY <1>2, ReturnKeepsDebts, GotoKeepsDebts, <1>1 DEF SaySteps
<1>3. ASSUME NEW c \in Callers, InsertStatus(c) \/ FlipOnline(c)
      PROVE  [Contract!Next]_(Contract!vars)
  BY <1>2, <1>3, OnlineStep DEF InsertStatus, FlipOnline, SeenSteps, SaySteps, table
<1>4. ASSUME NEW c \in Callers, Refresh(c) \/ CountMiss(c) PROVE [Contract!Next]_(Contract!vars)
  BY <1>2, <1>4 DEF Refresh, ClearMisses, CountMiss, AddMiss, SaySteps, table
<1>5. ASSUME NEW c \in Callers, TakeDown(c) PROVE [Contract!Next]_(Contract!vars)
  BY <1>2, <1>5, OfflineStep DEF TakeDown, SaySteps, table
<1>6. ASSUME NEW c \in Callers, AnswerLost(c) PROVE [Contract!Next]_(Contract!vars)
  <2>1. CASE at[c] = "insert" /\ InsertLands(c) /\ ReturnError(c)
    BY <2>1, OnlineStep DEF SeenSteps
  <2>2. CASE at[c] = "flip" /\ FlipLands(c) /\ ReturnError(c)
    BY <2>2, OnlineStep DEF SeenSteps
  <2>3. CASE at[c] = "takeDown" /\ TakeDownLands(c) /\ ReturnError(c)
    BY <2>3, OfflineStep
  <2>4. CASE at[c] \in {"refresh", "count"} /\ (ClearMisses(c) \/ AddMiss(c)) /\ Return(c)
    BY <1>2, <2>4 DEF ClearMisses, AddMiss, SaySteps
  <2>5. QED BY <1>6, <2>1, <2>2, <2>3, <2>4 DEF AnswerLost
<1>7. ASSUME NEW c \in Callers, Say(c) PROVE [Contract!Next]_(Contract!vars)
  <2>1. OthersSame(c) /\ status' = status
    BY <1>7, OneCallMoves DEF Say, table
  <2>2. Owing(c)' = <<>>
    BY <1>7 DEF Say, Idle, Owing, TypeOK
  <2>3. CASE Owing(c) = <<>>
    BY <2>1, <2>2, <2>3, DebtKept, <1>1
  <2>4. CASE Owing(c) # <<>>
    <3>1. Owings' = [Owings EXCEPT ![c] = <<>>]
      BY <2>1, <2>2, DebtChanged
    <3>2. Contract!Settle(c)
      BY <2>1, <2>4, <3>1, OwingsAt DEF Contract!Settle, Contract!Nothing
    <3>3. QED BY <3>2 DEF Contract!Next
  <2>5. QED BY <2>3, <2>4
<1>8. ASSUME NEW c \in Callers, StatementFails(c) PROVE [Contract!Next]_(Contract!vars)
  <2>1. at[c] \notin SaySteps /\ Return(c) /\ status' = status
    BY <1>8 DEF StatementFails, SeenSteps, MissSteps, SaySteps, table
  <2>2. QED BY <2>1, ReturnKeepsDebts, <1>1
<1>9. ASSUME NEW c \in Callers, NEW i \in Ifaces, NEW step, NEW n, Begin(c, i, step, n, FALSE),
             step \notin SaySteps, status' = status
      PROVE  [Contract!Next]_(Contract!vars)
  <2>1. OthersSame(c)
    BY <1>9, OneCallMoves
  <2>2. Owing(c)' = Owing(c)
    BY <1>9 DEF Begin, Owing, TypeOK, DiscoveringIsSeeing, SeenSteps, SaySteps
  <2>3. QED BY <1>9, <2>1, <2>2, DebtKept, <1>1
<1>10. ASSUME NEW c \in Callers, NEW i \in Ifaces, BeginSeen(c, i)
       PROVE  [Contract!Next]_(Contract!vars)
  BY <1>9, <1>10 DEF BeginSeen, table, SaySteps
<1>11. ASSUME NEW c \in Callers, NEW i \in Ifaces, NEW n \in Thresholds, BeginMissed(c, i, n)
       PROVE  [Contract!Next]_(Contract!vars)
  BY <1>9, <1>11 DEF BeginMissed, table, SaySteps
<1>12. ASSUME NEW c \in Callers, NEW i \in Ifaces, Discover(c, i)
       PROVE  [Contract!Next]_(Contract!vars)
  <2>1. OthersSame(c) /\ status' = status
    BY <1>12, OneCallMoves DEF Discover
  <2>2. Owing(c) = <<>> /\ Owing(c)' = <<i, "new">>
    BY <1>12 DEF Discover, Begin, Owing, TypeOK, DiscoveringIsSeeing, SeenSteps
  <2>3. Owings' = [Owings EXCEPT ![c] = <<i, "new">>]
    BY <2>1, <2>2, DebtChanged
  <2>4. Contract!Discover(c, i)
    BY <2>1, <2>2, <2>3, OwingsAt DEF Contract!Discover, Contract!Owe, Contract!Nothing
  <2>5. QED BY <2>4 DEF Contract!Next
<1>13. ASSUME at' = at, subject' = subject, discovering' = discovering PROVE Owings' = Owings
  BY <1>13 DEF Owings, Owing
<1>14. ASSUME NEW i \in Ifaces, CreateIface(i) PROVE [Contract!Next]_(Contract!vars)
  BY <1>1, <1>13, <1>14 DEF CreateIface, calls
<1>15. ASSUME NEW i \in Ifaces, DeleteIface(i) PROVE [Contract!Next]_(Contract!vars)
  <2>1. Owings' = Owings
    BY <1>13, <1>15 DEF DeleteIface, calls
  <2>2. CASE status[i] = "none"
    BY <1>1, <1>15, <2>1, <2>2 DEF DeleteIface, TypeOK
  <2>3. CASE status[i] # "none"
    BY <1>15, <2>1, <2>3 DEF DeleteIface, Contract!Forget, Contract!Next
  <2>4. QED BY <2>2, <2>3
<1>16. CASE UNCHANGED vars
  BY <1>1, <1>13, <1>16 DEF vars
<1>17. QED
  BY <1>3, <1>4, <1>5, <1>6, <1>7, <1>8, <1>10, <1>11, <1>12, <1>14, <1>15, <1>16
     DEF Next, Advance

(* The safety half of ImplementsContract: every transition between online and
   offline is reported by exactly one caller, or lost to exactly one error. *)
THEOREM RefinesContract == Spec => Contract!Safety
<1>1. Init => Contract!Init
  BY DEF Init, Contract!Init, Contract!Nothing, Owings, Owing
<1>2. TypeOK /\ DiscoveringIsSeeing /\ [Next]_vars => [Contract!Next]_(Contract!vars)
  BY StepRefines
<1>3. QED
  BY <1>1, <1>2, TypeCorrect, DiscoveringOnlySees, PTL DEF Spec, Safety, Contract!Safety
=============================================================================
