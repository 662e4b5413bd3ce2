---------------------------- MODULE BackupProofs ----------------------------
(***************************************************************************)
(* What holds of the backups for every schedule, every number of backups   *)
(* kept and every number of failures.  The system writes contents to the   *)
(* disk when it likes and a power loss may come at any step, so what has   *)
(* to be carried through every step is what the temp holds when its name   *)
(* is about to become a backup's (Whole).                                  *)
(***************************************************************************)
EXTENDS Backup, TLAPS, WellFoundedInduction, FiniteSetTheorems

(* The smaller of two numbers, which keeps the clock at its bound. *)
LEMMA MinOfTwo ==
  ASSUME NEW a \in Int, NEW b \in Int
  PROVE  Min({a, b}) = IF a <= b THEN a ELSE b
BY DEF Min

(* The greater of two numbers, which keeps a timer from being negative. *)
LEMMA MaxOfTwo ==
  ASSUME NEW a \in Int, NEW b \in Int
  PROVE  Max({a, b}) = IF a >= b THEN a ELSE b
BY DEF Max

(* There is a newest backup as soon as there is one (seed). *)
LEMMA NewestIsThere ==
  ASSUME NEW S \in SUBSET Times, S # {}
  PROVE  Max(S) \in S
<1> DEFINE Gaps == {MaxTime - t : t \in S}
<1>1. Gaps \subseteq Nat /\ Gaps # {}
  <2>1. ASSUME NEW t \in S PROVE MaxTime - t \in Nat
    BY BoundsAssumption DEF Times
  <2> QED BY <2>1
<1>2. PICK g \in Gaps : \A h \in Gaps : <<h, g>> \notin OpToRel(<, Nat)
  BY <1>1, WFMin, NatLessThanWellFounded
<1>3. PICK t \in S : g = MaxTime - t
  OBVIOUS
<1>4. ASSUME NEW u \in S PROVE t >= u
  <2>1. MaxTime - u \in Gaps /\ MaxTime - u \in Nat /\ g \in Nat
    BY <1>1
  <2>2. ~(MaxTime - u < g)
    BY <1>2, <2>1 DEF OpToRel
  <2> QED BY <1>3, <2>1, <2>2, BoundsAssumption DEF Times
<1> QED BY <1>4 DEF Max

-----------------------------------------------------------------------------
(* Types *)

(* Writing a name, and what the system does with contents, leave a directory. *)
LEMMA DirectoryOps ==
  ASSUME TypeOK
  PROVE  /\ \A f \in Files, c \in Contents : [dir EXCEPT ![f] = c] \in Directories
         /\ \A d \in Directories : \A files : Written(d, files) \in Directories
         /\ \A d \in Directories : AfterLoss(d) \subseteq Directories
         /\ Temp \in Files /\ Final \in Files
BY DEF TypeOK, Directories, Written, AfterLoss, Contents, Files, Temp, Final

(* The types hold at the start. *)
LEMMA TypeInit == Init => TypeOK
<1> SUFFICES ASSUME Init PROVE TypeOK
  OBVIOUS
<1>1. dir \in Directories
  BY DEF Init, Directories, Contents
<1>2. /\ survives \subseteq Directories
      /\ budget \in 0..MaxEvents
  BY <1>1, BoundsAssumption DEF Init
<1>3. left \in SUBSET Times
  BY DEF Init
<1> QED
  BY <1>1, <1>2, <1>3 DEF Init, TypeOK, Steps

(* Every step leaves directories, in both views. *)
LEMMA DiskStep ==
  ASSUME TypeOK, [Next]_vars
  PROVE  dir' \in Directories /\ survives' \subseteq Directories /\ dirSync' \in BOOLEAN
<1> USE DEF TypeOK
<1>d. /\ \A f \in Files, c \in Contents : [dir EXCEPT ![f] = c] \in Directories
      /\ \A d \in Directories : \A files : Written(d, files) \in Directories
      /\ \A d \in Directories : AfterLoss(d) \subseteq Directories
      /\ Temp \in Files /\ Final \in Files
  BY DirectoryOps
<1>c. {"none", "torn", "cached", "whole"} = Contents
  BY DEF Contents
<1>w. ASSUME NEW f \in Files, NEW c \in Contents, Write(f, c)
      PROVE  dir' \in Directories /\ survives' \subseteq Directories
  BY <1>d, <1>w DEF Write, ChangeDir
<1>1. CASE UNCHANGED <<dir, survives>> /\ UNCHANGED dirSync
  BY <1>1
<1>2. CASE Seed \/ Leave \/ Fire \/ ListForPrune \/ Pruned \/ Record \/ Shutdown \/ Crash
           \/ Start \/ (\E t \in Times : SetClock(t)) \/ UNCHANGED vars
  BY <1>1, <1>2 DEF Seed, Leave, Fire, ListForPrune, Pruned, Record, Shutdown, Crash, Start,
                    SetClock, vars, disk
<1>3. CASE Clear
  BY <1>3, <1>w, <1>d, <1>c DEF Clear, Abort, Writing
<1>4. CASE Vacuum
  BY <1>4, <1>w, <1>d, <1>c DEF Vacuum, Abort, Writing
<1>5. CASE VacuumEnds
  BY <1>5, <1>w, <1>d, <1>c DEF VacuumEnds, Abort, Writing
<1>6. CASE SyncFile
  BY <1>6, <1>d DEF SyncFile, Abort, Writing
<1>7. CASE Rename
  <2>1. [dir EXCEPT ![Final] = dir[Temp], ![Temp] = "none"] \in Directories
    BY <1>d, <1>c DEF Directories
  <2> QED BY <1>7, <2>1 DEF Rename, ChangeDir, Abort, Writing
<1>8. CASE SyncDir
  BY <1>8 DEF SyncDir, Writing
<1>9. CASE RemoveOldest
  <2>1. [dir EXCEPT ![<<"backup", Oldest(left)>>] = "none"] \in Directories
    BY <1>c DEF Directories
  <2> QED BY <1>9, <2>1 DEF RemoveOldest, Write, ChangeDir
<1>10. CASE DropTemp
  BY <1>10, <1>w, <1>d, <1>c DEF DropTemp, Writing
<1>11. CASE Tick
  BY <1>11, <1>d DEF Tick
<1>12. CASE PowerLoss
  BY <1>12, <1>d DEF PowerLoss
<1> QED
  BY <1>2, <1>3, <1>4, <1>5, <1>6, <1>7, <1>8, <1>9, <1>10, <1>11, <1>12 DEF Next, Loop, Environment

(* Every step keeps the other types. *)
LEMMA MemoryStep ==
  ASSUME TypeOK, [Next]_vars
  PROVE  /\ now' \in Times /\ wait' \in Nat /\ name' \in Times /\ budget' \in 0..MaxEvents
         /\ step' \in Steps /\ cancelled' \in BOOLEAN /\ err' \in BOOLEAN
         /\ left' \in SUBSET Times /\ shown' \in Times \cup {0} /\ failing' \in BOOLEAN
<1> USE DEF TypeOK
<1>b. (Fails \/ Works \/ UNCHANGED budget) => budget' \in 0..MaxEvents
  BY BoundsAssumption DEF Fails, Works
<1>l. Backups(dir) \in SUBSET Times
  BY DEF Backups
<1>1. CASE Seed
  <2>1. shown' \in Times \cup {0}
    BY <1>1, <1>l, NewestIsThere DEF Seed
  <2>2. shown' + Interval - now \in Int
    BY <2>1, BoundsAssumption, DelayAssumption DEF Times
  <2>3. wait' \in Nat
    BY <1>1, <2>2, MaxOfTwo DEF Seed
  <2> QED BY <1>1, <1>b, <2>1, <2>3 DEF Seed, Steps
<1>2. CASE Leave
  BY <1>2 DEF Leave, memory, Steps
<1>3. CASE Fire
  BY <1>3 DEF Fire, Steps
<1>4. CASE Clear \/ Vacuum \/ VacuumEnds \/ SyncFile \/ Rename \/ SyncDir
  <2>1. UNCHANGED <<now, cancelled, wait, name, left, shown, failing>>
    BY <1>4 DEF Clear, Vacuum, VacuumEnds, SyncFile, Rename, SyncDir, Writing
  <2>2. Fails \/ Works
    BY <1>4 DEF Clear, Vacuum, VacuumEnds, SyncFile, Rename, SyncDir, Proceed
  <2>3. step' \in Steps /\ err' \in BOOLEAN
    BY <1>4 DEF Clear, Vacuum, VacuumEnds, SyncFile, Rename, SyncDir, Proceed, Abort, Steps
  <2> QED BY <1>b, <2>1, <2>2, <2>3
<1>5. CASE ListForPrune
  BY <1>5, <1>b, <1>l DEF ListForPrune, Steps
<1>6. CASE RemoveOldest
  BY <1>6, <1>b DEF RemoveOldest
<1>7. CASE Pruned
  BY <1>7 DEF Pruned, Steps
<1>8. CASE DropTemp
  BY <1>8, <1>b DEF DropTemp, Writing, Steps
<1>9. CASE Record
  BY <1>9, DelayAssumption DEF Record, Looped, Steps
<1>10. CASE Tick
  <2>1. now' \in Times /\ wait' \in Nat
    BY <1>10, BoundsAssumption, MinOfTwo, MaxOfTwo DEF Tick, Times
  <2> QED BY <1>10, <2>1 DEF Tick
<1>11. ASSUME NEW t \in Times, SetClock(t)
       PROVE  /\ now' \in Times /\ UNCHANGED <<step, memory>> /\ budget' \in 0..MaxEvents
  BY <1>11, <1>b DEF SetClock
<1>12. CASE Shutdown
  BY <1>12, <1>b DEF Shutdown
<1>13. CASE Crash \/ PowerLoss
  BY <1>13, <1>b DEF Crash, PowerLoss, memory, Steps
<1>14. CASE Start
  BY <1>14 DEF Start, Steps
<1>15. CASE UNCHANGED vars
  BY <1>15 DEF vars, memory
<1> QED
  BY <1>1, <1>2, <1>3, <1>4, <1>5, <1>6, <1>7, <1>8, <1>9, <1>10, <1>11, <1>12, <1>13, <1>14, <1>15
  DEF Next, Loop, Environment, memory

(* The types hold whatever fails and whenever the machine stops: no timer is
   negative and no name is outside the calendar (Start, seed, record). *)
THEOREM TypeCorrect == Spec => []TypeOK
<1>1. TypeOK /\ [Next]_vars => TypeOK'
  BY DiskStep, MemoryStep DEF TypeOK
<1> QED
  BY TypeInit, <1>1, PTL DEF Spec

-----------------------------------------------------------------------------
(* No crash leaves a half-written backup *)

(* What the temp holds before its name becomes a backup's: syncFile is what
   makes it whole, and no later step takes that back. *)
Whole ==
  /\ BackupsAreWhole
  /\ step = "sync" => dir[Temp] \in {"cached", "whole"}
  /\ step = "rename" => dir[Temp] = "whole"

(* A directory whose backups are whole. *)
Sound(d) == \A t \in Times : d[<<"backup", t>>] \in {"none", "whole"}

(* BackupsAreWhole, directory by directory. *)
LEMMA WholeIsSound == BackupsAreWhole <=> \A d \in survives \cup {dir} : Sound(d)
BY DEF BackupsAreWhole, Sound, Backups

(* Neither writing out nor losing what is in memory touches a sound directory's
   backups, for none of them is only in memory. *)
LEMMA SoundOps ==
  ASSUME NEW d \in Directories, Sound(d)
  PROVE  /\ \A files : Sound(Written(d, files))
         /\ \A e \in AfterLoss(d) : Sound(e)
BY DEF Sound, Written, AfterLoss, Files

(* A write to a temp, or one that removes a name, leaves a directory sound. *)
LEMMA SoundWrite ==
  ASSUME NEW d \in Directories, Sound(d), NEW f \in Files, NEW c,
         f[1] = "temp" \/ c \in {"none", "whole"}
  PROVE  Sound([d EXCEPT ![f] = c])
BY DEF Sound, Files, Directories

(* The invariant holds at the start: what earlier processes left is whole. *)
LEMMA WholeInit == Init => Whole
<1> SUFFICES ASSUME Init PROVE Whole
  OBVIOUS
<1>1. Sound(dir)
  BY DEF Init, Sound, Files
<1>2. BackupsAreWhole
  BY <1>1, WholeIsSound DEF Init
<1> QED
  BY <1>2 DEF Init, Whole

(* Every step keeps it. *)
LEMMA WholeStep ==
  ASSUME TypeOK, Whole, [Next]_vars
  PROVE  Whole'
<1> DEFINE Sounds == \A d \in survives \cup {dir} : Sound(d)
<1>s. Sounds
  BY WholeIsSound DEF Whole
<1>t. /\ dir \in Directories /\ survives \subseteq Directories
      /\ Temp \in Files /\ Temp[1] = "temp"
  BY DirectoryOps DEF TypeOK, Temp
<1>p. ASSUME Sounds', step' = "sync" => dir'[Temp'] \in {"cached", "whole"},
             step' = "rename" => dir'[Temp'] = "whole"
      PROVE  Whole'
  <2>1. BackupsAreWhole'
    BY <1>p DEF BackupsAreWhole, Sound, Backups
  <2> QED BY <1>p, <2>1 DEF Whole
<1>w. ASSUME NEW f \in Files, NEW c, Write(f, c), f[1] = "temp" \/ c \in {"none", "whole"}
      PROVE  Sounds'
  BY <1>s, <1>t, <1>w, SoundWrite DEF Write, ChangeDir
<1>1. CASE Seed \/ Leave \/ Fire \/ ListForPrune \/ Pruned \/ Record \/ Crash \/ Start
  <2>1. UNCHANGED <<dir, survives>> /\ step' \notin {"sync", "rename"}
    BY <1>1 DEF Seed, Leave, Fire, ListForPrune, Pruned, Record, Looped, Crash, Start, disk
  <2> QED BY <1>s, <1>p, <2>1
<1>2. CASE Shutdown \/ (\E t \in Times : SetClock(t)) \/ UNCHANGED vars
  <2>1. UNCHANGED <<dir, survives, step, name>>
    BY <1>2 DEF Shutdown, SetClock, vars, disk, memory
  <2> QED BY <1>s, <1>p, <2>1 DEF Whole, Temp
<1>3. CASE Clear \/ Vacuum \/ DropTemp
  <2>1. step' \notin {"sync", "rename"}
    BY <1>3 DEF Clear, Vacuum, DropTemp, Proceed, Abort
  <2>2. (\E c : Write(Temp, c)) \/ UNCHANGED <<dir, survives>>
    BY <1>3 DEF Clear, Vacuum, DropTemp, Abort
  <2> QED BY <1>s, <1>p, <1>t, <1>w, <2>1, <2>2
<1>4. CASE VacuumEnds
  <2>1. CASE Proceed("sync") /\ Write(Temp, "cached")
    <3>1. step' = "sync" /\ Temp' = Temp /\ dir'[Temp] = "cached"
      BY <1>4, <1>t, <2>1 DEF VacuumEnds, Proceed, Write, ChangeDir, Writing, Temp, Directories
    <3> QED BY <1>p, <1>t, <1>w, <2>1, <3>1
  <2>2. CASE Abort("drop")
    BY <1>s, <1>p, <2>2 DEF Abort
  <2> QED BY <1>4, <2>1, <2>2 DEF VacuumEnds
<1>5. CASE SyncFile
  <2>1. CASE Proceed("rename")
    <3>1. /\ dir' = Written(dir, {Temp})
          /\ survives' = {Written(d, {Temp}) : d \in survives}
          /\ step' = "rename" /\ step = "sync" /\ Temp' = Temp
      BY <1>5, <2>1 DEF SyncFile, Proceed, Abort, Writing, Temp
    <3>2. Sounds'
      BY <1>s, <1>t, <3>1, SoundOps
    <3>3. dir'[Temp] = "whole"
      BY <1>t, <3>1 DEF Whole, Written
    <3> QED BY <1>p, <3>1, <3>2, <3>3
  <2>2. CASE Abort("drop")
    BY <1>s, <1>p, <2>2 DEF Abort
  <2> QED BY <1>5, <2>1, <2>2 DEF SyncFile
<1>6. CASE Rename
  <2>1. CASE Proceed("syncdir")
    <3>1. dir' = [dir EXCEPT ![Final] = dir[Temp], ![Temp] = "none"]
          /\ survives' = survives \cup {dir'} /\ step' = "syncdir"
      BY <1>6, <2>1 DEF Rename, Proceed, ChangeDir, Abort
    <3>2. dir[Temp] = "whole"
      BY <1>6 DEF Rename, Whole
    <3>3. Sound(dir')
      BY <1>s, <1>t, <3>1, <3>2 DEF Sound, Directories, Files
    <3> QED BY <1>s, <1>p, <3>1, <3>3
  <2>2. CASE Abort("drop")
    BY <1>s, <1>p, <2>2 DEF Abort
  <2> QED BY <1>6, <2>1, <2>2 DEF Rename
<1>7. CASE SyncDir
  <2>1. dir' = dir /\ survives' \subseteq survives \cup {dir} /\ step' = "prune"
    BY <1>7 DEF SyncDir, Proceed
  <2> QED BY <1>s, <1>p, <2>1
<1>8. CASE RemoveOldest
  <2>1. step' = "remove"
    BY <1>8 DEF RemoveOldest
  <2>2. CASE UNCHANGED <<dir, survives>>
    BY <1>s, <1>p, <2>1, <2>2
  <2>3. CASE Write(<<"backup", Oldest(left)>>, "none")
    <3>1. Sound([dir EXCEPT ![<<"backup", Oldest(left)>>] = "none"])
      BY <1>s, <1>t DEF Sound, Directories, Files
    <3> QED BY <1>s, <1>p, <2>1, <2>3, <3>1 DEF Write, ChangeDir
  <2> QED BY <1>8, <2>2, <2>3 DEF RemoveOldest
<1>9. CASE Tick
  <2>1. dir' = Written(dir, Files) /\ survives' = {dir'} /\ step' = step /\ Temp' = Temp
    BY <1>9 DEF Tick, Temp
  <2>2. Sounds'
    BY <1>s, <1>t, <2>1, SoundOps
  <2>3. dir'[Temp] = IF dir[Temp] = "cached" THEN "whole" ELSE dir[Temp]
    BY <1>t, <2>1 DEF Written
  <2> QED BY <1>p, <2>1, <2>2, <2>3 DEF Whole
<1>10. CASE PowerLoss
  <2>1. PICK d \in survives : dir' \in AfterLoss(d)
    BY <1>10 DEF PowerLoss
  <2>2. Sound(dir')
    BY <1>s, <1>t, <2>1, SoundOps
  <2>3. survives' = {dir'} /\ step' = "off"
    BY <1>10 DEF PowerLoss
  <2> QED BY <1>p, <2>2, <2>3
<1> QED
  BY <1>1, <1>2, <1>3, <1>4, <1>5, <1>6, <1>7, <1>8, <1>9, <1>10 DEF Next, Loop, Environment

(* At every step, and after a power loss at any step, whatever is under a
   backup's name is a whole backup: the copy is on the disk before its name is
   there (write: syncFile before Rename, backup.go:203-234). *)
THEOREM NoTornBackup == Spec => []BackupsAreWhole
<1>1. Init => TypeOK /\ Whole
  BY TypeInit, WholeInit
<1>2. TypeOK /\ Whole /\ [Next]_vars => (TypeOK /\ Whole)'
  BY DiskStep, MemoryStep, WholeStep DEF TypeOK
<1>3. Whole => BackupsAreWhole
  BY DEF Whole
<1> QED
  BY <1>1, <1>2, <1>3, PTL DEF Spec

-----------------------------------------------------------------------------
(* Pruning takes only what there are newer ones of *)

(* A set of numbers has a least one: the oldest backup, the fewest backups. *)
LEMMA LeastIsThere ==
  ASSUME NEW S \in SUBSET Nat, S # {}
  PROVE  Min(S) \in S /\ \A t \in S : Min(S) <= t
<1>1. PICK m \in S : \A t \in S : <<t, m>> \notin OpToRel(<, Nat)
  BY WFMin, NatLessThanWellFounded
<1>2. ASSUME NEW t \in S PROVE m <= t
  <2>1. ~(t < m)
    BY <1>1 DEF OpToRel
  <2> QED BY <2>1
<1> QED BY <1>2 DEF Min

(* Names are few enough to be counted, and more names count for more. *)
LEMMA Counting ==
  ASSUME NEW S \in SUBSET Times
  PROVE  /\ IsFiniteSet(S) /\ Cardinality(S) \in Nat
         /\ \A T \in SUBSET S : Cardinality(T) <= Cardinality(S)
<1>1. IsFiniteSet(Times)
  BY FS_Interval, BoundsAssumption DEF Times
<1>2. IsFiniteSet(S)
  BY <1>1, FS_Subset
<1> QED BY <1>2, FS_Subset, FS_CardinalityType

(* A backup is there, or as many as are kept are newer. *)
Safe(t, names) == t \in names \/ Cardinality({u \in names : u > t}) >= Keep

(* What pruning and recording rely on: the backup just made is safe until its
   name is on the page, and prune looks only at backups that are still there. *)
Kept ==
  /\ dir \in survives
  /\ shown # 0 /\ step # "off" => Safe(shown, Backups(dir))
  /\ step \in {"clear", "vacuum", "vacuuming", "sync", "rename"} => ~err
  /\ step \in {"syncdir", "prune", "remove"} => ~err
  /\ step = "drop" => err
  /\ step \in {"syncdir", "prune", "remove"} => Safe(name, Backups(dir))
  /\ step = "record" /\ ~err => Safe(name, Backups(dir))
  /\ step = "remove" => left \subseteq Backups(dir)

(* Neither writing out, nor losing what is in memory, nor a temp changes which
   backups there are. *)
LEMMA SameBackups ==
  ASSUME NEW d \in Directories
  PROVE  /\ \A files : Backups(Written(d, files)) = Backups(d)
         /\ \A e \in AfterLoss(d) : Backups(e) = Backups(d)
         /\ \A f \in Files : \A c : f[1] = "temp" => Backups([d EXCEPT ![f] = c]) = Backups(d)
<1>1. \A t \in Times : <<"backup", t>> \in Files
  BY DEF Files
<1>2. ASSUME NEW files PROVE Backups(Written(d, files)) = Backups(d)
  BY <1>1 DEF Backups, Written
<1>3. ASSUME NEW e \in AfterLoss(d) PROVE Backups(e) = Backups(d)
  <2>1. PICK c \in {"torn", "whole"} : e = [f \in Files |-> IF d[f] = "cached" THEN c ELSE d[f]]
    BY DEF AfterLoss
  <2> QED BY <1>1, <2>1 DEF Backups
<1>4. ASSUME NEW f \in Files, NEW c, f[1] = "temp"
      PROVE  Backups([d EXCEPT ![f] = c]) = Backups(d)
  <2>1. \A t \in Times : f # <<"backup", t>>
    BY <1>4
  <2>2. \A t \in Times : [d EXCEPT ![f] = c][<<"backup", t>>] = d[<<"backup", t>>]
    BY <1>1, <2>1 DEF Directories
  <2> QED BY <2>2 DEF Backups
<1> QED BY <1>2, <1>3, <1>4

(* Rename adds a backup and RemoveOldest takes one; no other step of a process
   changes which there are. *)
BackupsChange ==
  \/ Backups(dir') = Backups(dir)
  \/ /\ step = "rename" /\ step' = "syncdir"
     /\ Backups(dir') = Backups(dir) \cup {name}
  \/ /\ RemoveOldest
     /\ Backups(dir') = Backups(dir) \ {Oldest(left)}

(* What a power loss may leave then is what it might have left before, or this. *)
SurvivorsChange ==
  /\ dir' \in survives'
  /\ \A d \in survives' : d = dir' \/ \E c \in survives : Backups(d) = Backups(c)

(* Every step changes the directory and its survivors in these ways only, except
   that a power loss falls back to one of the survivors. *)
LEMMA BackupsStep ==
  ASSUME TypeOK, Whole, dir \in survives, [Next]_vars
  PROVE  /\ SurvivorsChange
         /\ \/ BackupsChange
            \/ step' = "off" /\ \E c \in survives : Backups(dir') = Backups(c)
<1> DEFINE Same == SurvivorsChange /\ Backups(dir') = Backups(dir)
           FellBack == step' = "off" /\ (\E c \in survives : Backups(dir') = Backups(c))
           Goal == SurvivorsChange /\ (BackupsChange \/ FellBack)
<1> SUFFICES Goal
  OBVIOUS
<1>g. Same => Goal
  BY DEF BackupsChange
<1>t. /\ dir \in Directories /\ survives \subseteq Directories
      /\ Temp \in Files /\ Final \in Files /\ Temp[1] = "temp" /\ name \in Times
  BY DirectoryOps DEF TypeOK, Temp
<1>u. ASSUME UNCHANGED <<dir, survives>> PROVE Same
  BY <1>u DEF SurvivorsChange
<1>w. ASSUME NEW c, Write(Temp, c) PROVE Same
  BY <1>t, <1>w, SameBackups DEF Write, ChangeDir, SurvivorsChange
<1>1. CASE Seed \/ Leave \/ Fire \/ ListForPrune \/ Pruned \/ Record \/ Shutdown \/ Crash
           \/ Start \/ (\E t \in Times : SetClock(t)) \/ UNCHANGED vars
  BY <1>1, <1>u, <1>g DEF Seed, Leave, Fire, ListForPrune, Pruned, Record, Shutdown, Crash, Start,
                    SetClock, vars, disk
<1>2. CASE Clear \/ Vacuum \/ VacuumEnds \/ DropTemp
  <2>1. (\E c : Write(Temp, c)) \/ UNCHANGED <<dir, survives>>
    BY <1>2 DEF Clear, Vacuum, VacuumEnds, DropTemp, Abort
  <2> QED BY <1>u, <1>w, <1>g, <2>1
<1>3. CASE SyncFile
  <2>1. CASE UNCHANGED <<dir, survives>>
    BY <1>u, <1>g, <2>1
  <2>2. CASE /\ dir' = Written(dir, {Temp})
             /\ survives' = {Written(d, {Temp}) : d \in survives}
    BY <1>t, <1>g, <2>2, SameBackups DEF SurvivorsChange
  <2> QED BY <1>3, <2>1, <2>2 DEF SyncFile, Abort
<1>4. CASE Rename
  <2>1. CASE UNCHANGED <<dir, survives>>
    BY <1>u, <1>g, <2>1
  <2>2. CASE Proceed("syncdir")
             /\ ChangeDir([dir EXCEPT ![Final] = dir[Temp], ![Temp] = "none"])
    <3>1. step = "rename" /\ dir[Temp] = "whole"
      BY <1>4 DEF Rename, Whole
    <3>2. \A t \in Times : /\ <<"backup", t>> \in Files
                           /\ Temp # <<"backup", t>>
                           /\ Final = <<"backup", t>> <=> t = name
      BY <1>t DEF Files, Temp, Final
    <3>3. \A t \in Times : dir'[<<"backup", t>>] =
                             IF t = name THEN "whole" ELSE dir[<<"backup", t>>]
      BY <1>t, <2>2, <3>1, <3>2 DEF ChangeDir, Directories
    <3>4. Backups(dir') = Backups(dir) \cup {name}
      BY <1>t, <3>3 DEF Backups
    <3>5. SurvivorsChange
      BY <2>2 DEF SurvivorsChange, ChangeDir
    <3> QED BY <2>2, <3>1, <3>4, <3>5 DEF BackupsChange, Proceed
  <2> QED BY <1>4, <2>1, <2>2 DEF Rename, Abort
<1>5. CASE SyncDir
  BY <1>5, <1>u, <1>g DEF SyncDir, SurvivorsChange
<1>6. CASE RemoveOldest
  <2>1. CASE UNCHANGED <<dir, survives>>
    BY <1>u, <1>g, <2>1
  <2>2. CASE Write(<<"backup", Oldest(left)>>, "none")
    <3>1. \A t \in Times : <<"backup", t>> \in Files
      BY DEF Files
    <3>2. \A t \in Times : dir'[<<"backup", t>>] =
                             IF t = Oldest(left) THEN "none" ELSE dir[<<"backup", t>>]
      BY <1>t, <2>2, <3>1 DEF Write, ChangeDir, Directories
    <3>3. Backups(dir') = Backups(dir) \ {Oldest(left)}
      BY <3>2 DEF Backups
    <3>4. SurvivorsChange
      BY <2>2 DEF SurvivorsChange, Write, ChangeDir
    <3> QED BY <1>6, <3>3, <3>4 DEF BackupsChange
  <2> QED BY <1>6, <2>1, <2>2 DEF RemoveOldest
<1>7. CASE Tick
  BY <1>7, <1>t, <1>g, SameBackups DEF Tick, SurvivorsChange
<1>8. CASE PowerLoss
  <2>1. PICK d \in survives : dir' \in AfterLoss(d)
    BY <1>8 DEF PowerLoss
  <2>2. Backups(dir') = Backups(d)
    BY <1>t, <2>1, SameBackups
  <2> QED BY <1>8, <2>2 DEF PowerLoss, SurvivorsChange
<1> QED
  BY <1>1, <1>2, <1>3, <1>4, <1>5, <1>6, <1>7, <1>8
  DEF Next, Loop, Environment

(* Pruning takes the oldest of more than are kept, all of them still there, so
   what it leaves is as many as are kept, all of them newer. *)
LEMMA Pruning ==
  ASSUME TypeOK, Kept, RemoveOldest, Backups(dir') = Backups(dir) \ {Oldest(left)}
  PROVE  /\ left' \subseteq Backups(dir')
         /\ Cardinality(left') >= Keep
         /\ Oldest(left) \in left /\ \A u \in left' : u > Oldest(left)
<1>1. /\ left \in SUBSET Times /\ left \subseteq Backups(dir)
      /\ left' = left \ {Oldest(left)} /\ Cardinality(left) > Keep
  BY DEF TypeOK, Kept, RemoveOldest, TooMany
<1>2. IsFiniteSet(left) /\ Cardinality(left) \in Nat
  BY <1>1, Counting
<1>3. left # {}
  BY <1>1, FS_EmptySet, KeepAssumption
<1>4. Oldest(left) \in left /\ \A u \in left : Oldest(left) <= u
  BY <1>1, <1>3, LeastIsThere DEF Oldest, Times
<1>5. Cardinality(left') = Cardinality(left) - 1
  BY <1>1, <1>2, <1>4, FS_RemoveElement
<1>6. ASSUME NEW u \in left' PROVE u > Oldest(left)
  <2>1. u \in left /\ u # Oldest(left)
    BY <1>1
  <2>2. u \in Int /\ Oldest(left) \in Int
    <3>1. u \in Times /\ Oldest(left) \in Times
      BY <1>1, <1>4, <2>1
    <3>2. \A t \in Times : t \in Int
      BY DEF Times
    <3> QED BY <3>1, <3>2
  <2> QED BY <1>4, <2>1, <2>2
<1>7. left' \subseteq Backups(dir')
  BY <1>1
<1> QED BY <1>1, <1>2, <1>4, <1>5, <1>6, <1>7, KeepAssumption

(* A name that was safe is safe after every step of a process. *)
LEMMA SafeStays ==
  ASSUME TypeOK, Kept, BackupsChange, NEW t \in Times, Safe(t, Backups(dir))
  PROVE  Safe(t, Backups(dir'))
<1> DEFINE Later(names) == {u \in names : u > t}
<1>b. Backups(dir) \in SUBSET Times /\ Backups(dir') \in SUBSET Times
  BY DEF Backups
<1>m. ASSUME NEW S \in SUBSET Times, S \subseteq Later(Backups(dir')), Cardinality(S) >= Keep
      PROVE  Safe(t, Backups(dir'))
  <2>1. Later(Backups(dir')) \in SUBSET Times
    BY <1>b
  <2>2. Cardinality(S) <= Cardinality(Later(Backups(dir')))
    BY <1>m, <2>1, Counting
  <2>3. Cardinality(S) \in Nat /\ Cardinality(Later(Backups(dir'))) \in Nat
    BY <2>1, Counting
  <2> QED BY <1>m, <2>2, <2>3, KeepAssumption DEF Safe
<1>1. CASE Backups(dir) \subseteq Backups(dir')
  <2>1. CASE t \in Backups(dir)
    BY <1>1, <2>1 DEF Safe
  <2>2. CASE Cardinality(Later(Backups(dir))) >= Keep
    <3>1. Later(Backups(dir)) \in SUBSET Times
      BY <1>b
    <3> QED BY <1>1, <1>m, <2>2, <3>1
  <2> QED BY <2>1, <2>2 DEF Safe
<1>2. CASE RemoveOldest /\ Backups(dir') = Backups(dir) \ {Oldest(left)}
  <2>1. /\ left' \subseteq Backups(dir') /\ Cardinality(left') >= Keep
        /\ Oldest(left) \in left /\ \A u \in left' : u > Oldest(left)
    BY <1>2, Pruning
  <2>2. /\ Oldest(left) \in Times /\ left' \in SUBSET Times
        /\ \A u \in Times : u \in Int
    <3>1. \A u \in Times : u \in Int
      BY DEF Times
    <3> QED BY <1>b, <2>1, <3>1 DEF TypeOK
  <2>3. CASE t <= Oldest(left)
    <3>1. \A u \in left' : u > t
      BY <2>1, <2>2, <2>3
    <3> QED BY <1>m, <2>1, <2>2, <3>1
  <2>4. CASE t > Oldest(left)
    <3>1. CASE t \in Backups(dir)
      <4>1. t # Oldest(left)
        BY <2>2, <2>4
      <4> QED BY <1>2, <3>1, <4>1 DEF Safe
    <3>2. CASE Cardinality(Later(Backups(dir))) >= Keep
      <4>1. \A u \in Later(Backups(dir)) : u # Oldest(left)
        BY <1>b, <2>2, <2>4
      <4>2. Later(Backups(dir)) \subseteq Later(Backups(dir'))
        BY <1>2, <4>1
      <4>3. Later(Backups(dir)) \in SUBSET Times
        BY <1>b
      <4> QED BY <1>m, <3>2, <4>2, <4>3
    <3> QED BY <3>1, <3>2 DEF Safe
  <2> QED BY <2>2, <2>3, <2>4
<1> QED BY <1>1, <1>2 DEF BackupsChange

(* The invariant holds at the start. *)
LEMMA KeptInit == Init => Kept
BY DEF Init, Kept

(* Every step keeps it. *)
LEMMA KeptStep ==
  ASSUME TypeOK, TypeOK', Whole, Kept, [Next]_vars
  PROVE  Kept'
<1>d. /\ SurvivorsChange
      /\ \/ BackupsChange
         \/ step' = "off" /\ \E c \in survives : Backups(dir') = Backups(c)
  BY BackupsStep DEF Kept
<1>s. ASSUME step' # "off", NEW t \in Times, Safe(t, Backups(dir))
      PROVE  Safe(t, Backups(dir'))
  BY <1>d, <1>s, SafeStays
<1>1. dir' \in survives'
  BY <1>d DEF SurvivorsChange
<1> DEFINE Page == shown' # 0 /\ step' # "off" => Safe(shown', Backups(dir'))
           Fate == /\ step' \in {"clear", "vacuum", "vacuuming", "sync", "rename"} => ~err'
                   /\ step' \in {"syncdir", "prune", "remove"} => ~err'
                   /\ step' = "drop" => err'
           Made == /\ step' \in {"syncdir", "prune", "remove"} => Safe(name', Backups(dir'))
                   /\ step' = "record" /\ ~err' => Safe(name', Backups(dir'))
           Listed == step' = "remove" => left' \subseteq Backups(dir')
<1> SUFFICES Page /\ Fate /\ Made /\ Listed
  BY <1>1 DEF Kept
<1>t. name \in Times /\ shown \in Times \cup {0}
  BY DEF TypeOK
<1>p. ASSUME UNCHANGED shown, step' # "off" => step # "off" PROVE Page
  BY <1>p, <1>s, <1>t DEF Kept
<1>2. CASE Seed
  <2>1. CASE shown' = shown
    BY <1>2, <1>p, <2>1 DEF Seed
  <2>2. CASE Backups(dir) # {} /\ shown' = Max(Backups(dir))
    <3>1. shown' \in Backups(dir) /\ dir' = dir
      BY <1>2, <2>2, NewestIsThere DEF Seed, disk, Backups
    <3> QED BY <1>2, <3>1 DEF Seed, Safe
  <2> QED BY <1>2, <2>1, <2>2 DEF Seed
<1>3. CASE Leave \/ Crash \/ PowerLoss
  BY <1>3 DEF Leave, Crash, PowerLoss
<1>4. CASE Start
  BY <1>4 DEF Start
<1>5. CASE Fire
  BY <1>5, <1>p DEF Fire
<1>6. CASE Clear \/ Vacuum \/ VacuumEnds \/ SyncFile
  <2>1. UNCHANGED shown /\ step # "off"
    BY <1>6 DEF Clear, Vacuum, VacuumEnds, SyncFile, Writing
  <2>2. \/ step' \in {"vacuum", "vacuuming", "sync", "rename"} /\ ~err'
        \/ step' \in {"record", "drop"} /\ err'
    BY <1>6 DEF Clear, Vacuum, VacuumEnds, SyncFile, Proceed, Abort, Kept
  <2> QED BY <1>p, <2>1, <2>2
<1>7. CASE Rename
  <2>1. UNCHANGED <<shown, name>> /\ step = "rename"
    BY <1>7 DEF Rename, Writing
  <2>2. CASE step' = "drop" /\ err'
    BY <1>p, <2>1, <2>2
  <2>3. CASE step' = "syncdir" /\ err' = err
             /\ dir' = [dir EXCEPT ![Final] = dir[Temp], ![Temp] = "none"]
    <3>1. dir[Temp] = "whole"
      BY <2>1 DEF Whole
    <3>2. dir'[<<"backup", name>>] = "whole"
      BY <1>t, <2>3, <3>1, DirectoryOps DEF TypeOK, Directories, Temp, Final
    <3>3. Safe(name', Backups(dir'))
      BY <1>t, <2>1, <3>2 DEF Safe, Backups
    <3> QED BY <1>p, <2>1, <2>3, <3>3 DEF Kept
  <2> QED BY <1>7, <2>2, <2>3 DEF Rename, Proceed, Abort, ChangeDir
<1>8. CASE SyncDir \/ ListForPrune \/ Pruned
  <2>1. UNCHANGED <<shown, name, err, dir>>
    BY <1>8 DEF SyncDir, ListForPrune, Pruned, Proceed, Writing, disk
  <2>2. /\ step \in {"syncdir", "prune", "remove"}
        /\ step' \in {"prune", "remove", "record"}
        /\ step' = "remove" => left' = Backups(dir)
    BY <1>8 DEF SyncDir, ListForPrune, Pruned, Proceed
  <2> QED BY <1>p, <2>1, <2>2 DEF Kept
<1>9. CASE RemoveOldest
  <2>1. UNCHANGED <<shown, name, err>> /\ step = "remove" /\ step' = "remove"
    BY <1>9 DEF RemoveOldest
  <2>2. Made
    BY <1>s, <1>t, <2>1 DEF Kept
  <2>3. left \subseteq Backups(dir) /\ left' \subseteq left
    BY <1>9, <2>1 DEF Kept, RemoveOldest
  <2>4. CASE Backups(dir) \subseteq Backups(dir')
    BY <1>p, <2>1, <2>2, <2>3, <2>4 DEF Kept
  <2>5. CASE Backups(dir') = Backups(dir) \ {Oldest(left)}
    BY <1>9, <1>p, <2>1, <2>2, <2>5, Pruning DEF Kept
  <2> QED BY <1>d, <2>1, <2>4, <2>5 DEF BackupsChange
<1>10. CASE DropTemp
  <2>1. step = "drop" /\ step' = "record" /\ UNCHANGED <<shown, err>>
    BY <1>10 DEF DropTemp, Writing
  <2> QED BY <1>p, <2>1 DEF Kept
<1>11. CASE Record
  <2>1. /\ step = "record" /\ step' = "wait" /\ dir' = dir
        /\ shown' = shown \/ (~err /\ shown' = name)
    BY <1>11 DEF Record, Looped, disk
  <2> QED BY <1>p, <2>1 DEF Kept
<1>12. CASE Tick \/ Shutdown \/ (\E t \in Times : SetClock(t)) \/ UNCHANGED vars
  <2>1. UNCHANGED <<step, name, err, left, shown>>
    BY <1>12 DEF Tick, Shutdown, SetClock, vars, memory
  <2>2. step = "remove" => Backups(dir) \subseteq Backups(dir')
    <3>1. CASE Tick
      BY <3>1, SameBackups DEF Tick, TypeOK
    <3>2. CASE UNCHANGED dir
      BY <3>2
    <3> QED BY <1>12, <3>1, <3>2 DEF Shutdown, SetClock, vars, disk
  <2>3. Page /\ Fate
    BY <1>p, <2>1 DEF Kept
  <2>4. Made
    BY <1>s, <1>t, <2>1 DEF Kept
  <2>5. Listed
    BY <2>1, <2>2 DEF Kept
  <2> QED BY <2>3, <2>4, <2>5
<1> QED
  BY <1>2, <1>3, <1>4, <1>5, <1>6, <1>7, <1>8, <1>9, <1>10, <1>11, <1>12
  DEF Next, Loop, Environment

(* The invariant the backups rest on. *)
LEMMA BackupsInvariant == Spec => [](TypeOK /\ Whole /\ Kept)
<1>1. Init => TypeOK /\ Whole /\ Kept
  BY TypeInit, WholeInit, KeptInit
<1>2. ASSUME TypeOK, Whole, Kept, [Next]_vars PROVE (TypeOK /\ Whole /\ Kept)'
  <2>1. TypeOK'
    BY <1>2, DiskStep, MemoryStep DEF TypeOK
  <2>2. Whole' /\ Kept'
    BY <1>2, <2>1, WholeStep, KeptStep
  <2> QED BY <2>1, <2>2
<1> QED
  BY <1>1, <1>2, PTL DEF Spec

(* The newest backup on the page is in the directory, or pruning took it for as
   many newer ones as are kept: a failed, cancelled or repeated backup never
   makes the page name one that is gone (seed, prune, record,
   backup.go:132-147, 174-199, 265-277). *)
THEOREM PageNamesABackup == Spec => []ShownIsKept
<1>1. Kept => ShownIsKept
  BY DEF Kept, Safe, ShownIsKept
<1> QED
  BY <1>1, BackupsInvariant, PTL

(* How many backups are safe is a number that some directory has. *)
LEMMA SafeBackupsIsLeast ==
  ASSUME TypeOK, dir \in survives
  PROVE  /\ \E d \in survives : SafeBackups = Cardinality(Backups(d))
         /\ \A d \in survives : SafeBackups <= Cardinality(Backups(d))
<1> DEFINE Counts == {Cardinality(Backups(d)) : d \in survives}
<1>1. \A d \in survives : Backups(d) \in SUBSET Times
  BY DEF Backups
<1>2. Counts \subseteq Nat /\ Counts # {}
  BY <1>1, Counting
<1> QED BY <1>2, LeastIsThere DEF SafeBackups

(* One step of KeepIsKept: what a power loss may leave after the step has as many
   backups as something it might have left before, or as many as are kept. *)
LEMMA KeepStep ==
  ASSUME TypeOK, TypeOK', Whole, Kept, [Next]_vars
  PROVE  SafeBackups' >= Min({Keep, SafeBackups})
<1>d. /\ SurvivorsChange
      /\ \/ BackupsChange
         \/ step' = "off" /\ \E c \in survives : Backups(dir') = Backups(c)
  BY BackupsStep DEF Kept
<1>c. \A d : Backups(d) \in SUBSET Times /\ Cardinality(Backups(d)) \in Nat
  <2>1. \A d : Backups(d) \in SUBSET Times
    BY DEF Backups
  <2> QED BY <2>1, Counting
<1>o. /\ \E d \in survives : SafeBackups = Cardinality(Backups(d))
      /\ \A d \in survives : SafeBackups <= Cardinality(Backups(d))
  BY SafeBackupsIsLeast DEF Kept
<1>n. \E d \in survives' : SafeBackups' = Cardinality(Backups(d))
  <2> DEFINE Counts == {Cardinality(Backups(d)) : d \in survives'}
  <2>1. Counts \subseteq Nat /\ Counts # {}
    BY <1>c, <1>d DEF SurvivorsChange
  <2> QED BY <2>1, LeastIsThere DEF SafeBackups
<1>1. ASSUME NEW d \in survives'
      PROVE  Cardinality(Backups(d)) >= Keep \/ Cardinality(Backups(d)) >= SafeBackups
  <2>1. CASE \E c \in survives : Backups(d) = Backups(c)
    BY <1>c, <1>o, <2>1
  <2>2. CASE d = dir' /\ BackupsChange
    <3>1. CASE Backups(dir) \subseteq Backups(dir')
      <4>1. Cardinality(Backups(dir)) <= Cardinality(Backups(dir'))
        BY <1>c, <3>1, Counting
      <4> QED BY <1>c, <1>o, <2>2, <4>1 DEF Kept
    <3>2. CASE RemoveOldest /\ Backups(dir') = Backups(dir) \ {Oldest(left)}
      <4>1. left' \subseteq Backups(dir') /\ Cardinality(left') >= Keep
        BY <3>2, Pruning
      <4>2. Cardinality(left') <= Cardinality(Backups(dir'))
        BY <1>c, <4>1, Counting
      <4>3. Cardinality(left') \in Nat
        BY <4>1, <1>c, Counting
      <4> QED BY <1>c, <2>2, <4>1, <4>2, <4>3, KeepAssumption
    <3> QED BY <2>2, <3>1, <3>2 DEF BackupsChange
  <2> QED BY <1>d, <2>1, <2>2 DEF SurvivorsChange
<1>2. SafeBackups \in Nat /\ SafeBackups' \in Nat
  BY <1>c, <1>o, <1>n
<1>3. SafeBackups' >= Keep \/ SafeBackups' >= SafeBackups
  BY <1>1, <1>n
<1> QED BY <1>2, <1>3, MinOfTwo, KeepAssumption

(* No step, of the program or of its surroundings, lowers the number of backups
   a power loss would leave below the number to keep (RunOnce and prune,
   backup.go:150-170, 265-277). *)
THEOREM NeverTooFew == Spec => KeepIsKept
<1>1. ASSUME TypeOK, TypeOK', Whole, Kept, [Next]_vars
      PROVE  [SafeBackups' >= Min({Keep, SafeBackups})]_vars
  BY <1>1, KeepStep
<1> QED
  BY <1>1, BackupsInvariant, PTL DEF Spec, KeepIsKept
=============================================================================
