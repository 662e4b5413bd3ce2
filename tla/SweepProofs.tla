---------------------------- MODULE SweepProofs ----------------------------
(***************************************************************************)
(* Proofs about Sweep, for any interfaces, hosts and addresses and any     *)
(* number of disturbances.                                                 *)
(***************************************************************************)
EXTENDS Sweep, TLAPS

(* The placeholder of a sweep without a mover is an interface. *)
LEMMA AnyIfaceType == AnyIface \in Ifaces
  BY IfacesAssumption DEF AnyIface

-----------------------------------------------------------------------------
(* What the row operations keep *)

(* A counted row stays within the cap. *)
LEMMA CappedType == \A n \in Nat : Capped(n) \in 0..CopyCap
  BY BoundsAssumption DEF Capped

(* An insert changes one row count. *)
LEMMA InsertedType ==
  ASSUME NEW t \in [Claims -> 0..CopyCap], NEW c \in Claims
  PROVE  /\ Inserted(t, c) \in [Claims -> 0..CopyCap]
         /\ \A d \in Claims \ {c} : Inserted(t, c)[d] = t[d]
         /\ Inserted(t, c)[c] = Capped(t[c] + 1)
  BY CappedType, BoundsAssumption DEF Inserted

(* RemoveIfaceIPsInSubnetExcept only removes rows. *)
LEMMA RetiredType ==
  ASSUME NEW t \in [Claims -> 0..CopyCap], NEW i, NEW keep
  PROVE  /\ Retired(t, i, keep) \in [Claims -> 0..CopyCap]
         /\ \A c \in Claims : Retired(t, i, keep)[c] \in {0, t[c]}
  BY BoundsAssumption DEF Retired

(* ClaimDHCPLease only removes rows. *)
LEMMA ClaimedType ==
  ASSUME NEW t \in [Claims -> 0..CopyCap], NEW i, NEW ip
  PROVE  /\ Claimed(t, i, ip) \in [Claims -> 0..CopyCap]
         /\ \A c \in Claims : Claimed(t, i, ip)[c] \in {0, t[c]}
  BY BoundsAssumption DEF Claimed

(* UpsertIPAssignmentFrom touches no row of another interface. *)
LEMMA UpsertedType ==
  ASSUME NEW t \in [Claims -> 0..CopyCap], NEW i \in Ifaces, NEW ip \in IPs,
         NEW kind \in Kinds, NEW u \in Upserted(t, i, ip, kind)
  PROVE  /\ u \in [Claims -> 0..CopyCap]
         /\ \A c \in Claims : c[1] # i => u[c] = t[c]
<1> DEFINE d == <<i, ip, "dhcp">>
           s == <<i, ip, "static">>
           k == <<i, ip, kind>>
           less == [t EXCEPT ![d] = @ - 1]
<1>1. d \in Claims /\ s \in Claims /\ k \in Claims /\ d[1] = i /\ s[1] = i /\ k[1] = i
  BY DEF Claims, Kinds
<1>2. CASE u = t
  BY <1>2
<1>3. CASE u = Inserted(t, k)
  BY <1>1, <1>3, InsertedType
<1>4. CASE t[d] > 0 /\ u = Inserted(less, s)
  <2>1. less \in [Claims -> 0..CopyCap] /\ \A c \in Claims : c[1] # i => less[c] = t[c]
    BY <1>1, <1>4, BoundsAssumption
  <2> HIDE DEF less, s, d, k
  <2>2. /\ u \in [Claims -> 0..CopyCap]
        /\ \A c \in Claims \ {s} : u[c] = less[c]
    BY <1>1, <1>4, <2>1, InsertedType
  <2> QED BY <1>1, <2>1, <2>2
<1>5. u = t \/ u = Inserted(t, k) \/ (t[d] > 0 /\ u = Inserted(less, s))
  BY DEF Upserted
<1> QED
  BY <1>2, <1>3, <1>4, <1>5

-----------------------------------------------------------------------------
(* Types *)

(* The types hold at the start. *)
LEMMA TypeInit == Init => TypeOK
  BY AnyIfaceType, MacsAssumption, BoundsAssumption
  DEF Init, TypeOK, Answers, Results, NoRows, AllDead, NoMacs, NoMisses, IPs, Steps, Claims

(* The part of TypeOK about the database. *)
InventoryOK ==
  /\ mac \in [Ifaces -> Answers \cup {"free"}]
  /\ \A i, j \in Ifaces : mac[i] \in Macs /\ mac[i] = mac[j] => i = j
  /\ rows \in [Claims -> 0..CopyCap]
  /\ \A c \in Claims : mac[c[1]] = "free" => rows[c] = 0

(* And the part about the sweep's own state. *)
SweepOK ==
  /\ step \in Steps
  /\ cursor \in 1..LastIP + 1
  /\ step \in {"match", "assign", "retire", "create"} => cursor \in IPs
  /\ result \in [IPs -> Results]
  /\ step \in {"assign", "retire", "create"} => result[cursor] \in Answers
  /\ known \in [Claims -> 0..CopyCap]
  /\ knownMac \in [Ifaces -> Answers \cup {"free"}]
  /\ seen \subseteq Ifaces
  /\ mover \in Ifaces
  /\ misses \in [Ifaces -> 0..2]
  /\ conflicts \subseteq IPs
  /\ alerted \subseteq IPs
  /\ excused \subseteq Ifaces

(* Every step keeps the tables well formed: one interface per MAC, no row without
   its interface. *)
LEMMA InventoryStep ==
  ASSUME TypeOK, [Next]_vars
  PROVE  InventoryOK'
<1> USE DEF TypeOK, InventoryOK
<1>1. ASSUME UNCHANGED inventory PROVE InventoryOK'
  BY <1>1 DEF inventory
<1>2. CASE Probe \/ List \/ Skip \/ LookUp \/ CloseLoop \/ Check \/ ProbeBadly
           \/ LookUpFails \/ WriteFails \/ ReadFails \/ Restart \/ UNCHANGED vars
  BY <1>1, <1>2 DEF Probe, List, Skip, LookUp, CloseLoop, Check, ProbeBadly, LookUpFails,
                    WriteFails, ReadFails, Restart, vars, inventory
<1>3. ASSUME NEW i \in Ifaces, Credit(i) PROVE InventoryOK'
  BY <1>1, <1>3 DEF Credit
<1>4. ASSUME NEW m \in Macs, NEW to \in Places, Move(m, to) PROVE InventoryOK'
  BY <1>1, <1>4 DEF Move
<1>5. CASE Assign
  <2>1. CASE mover \in Free
    BY <1>1, <1>5, <2>1 DEF Assign, inventory
  <2>2. CASE mover \notin Free
    <3> DEFINE new == <<mover, cursor, "dhcp">>
    <3>1. new \in Claims /\ new[1] = mover /\ mac' = mac /\ rows' = Inserted(rows, new)
      BY <1>5, <2>2 DEF Assign, Claims, Kinds
    <3>2. mac[mover] # "free"
      BY <2>2 DEF Free
    <3> HIDE DEF new
    <3>3. rows' \in [Claims -> 0..CopyCap] /\ \A c \in Claims \ {new} : rows'[c] = rows[c]
      BY <3>1, InsertedType
    <3> QED BY <3>1, <3>2, <3>3
  <2> QED BY <2>1, <2>2
<1>6. CASE Retire
  <2>1. mac' = mac /\ rows' = Retired(rows, mover, cursor)
    BY <1>6 DEF Retire
  <2>2. rows' \in [Claims -> 0..CopyCap] /\ \A c \in Claims : rows'[c] \in {0, rows[c]}
    BY <2>1, RetiredType
  <2> QED BY <2>1, <2>2
<1>7. CASE Create
  <2>1. CASE CreateFails
    BY <1>1, <1>7, <2>1 DEF Create
  <2>2. CASE ~CreateFails
    <3>1. PICK i \in Free : /\ mac' = [mac EXCEPT ![i] = result[cursor]]
                            /\ rows' = Inserted(rows, <<i, cursor, "dhcp">>)
      BY <1>7, <2>2 DEF Create
    <3>2. i \in Ifaces /\ cursor \in IPs
      BY <1>7 DEF Create, Free
    <3> DEFINE new == <<i, cursor, "dhcp">>
    <3>3. new \in Claims /\ new[1] = i
      BY <3>2 DEF Claims, Kinds
    <3>4. result[cursor] \in Answers
      BY <1>7 DEF Create
    <3>5. \A j \in Ifaces : result[cursor] \in Macs => mac[j] # result[cursor]
      BY <2>2 DEF CreateFails, WithMac
    <3> HIDE DEF new
    <3>6. rows' \in [Claims -> 0..CopyCap] /\ \A c \in Claims \ {new} : rows'[c] = rows[c]
      BY <3>1, <3>3, InsertedType DEF new
    <3>7. result[cursor] # "free"
      BY <3>4, MacsAssumption DEF Answers
    <3> QED BY <3>1, <3>2, <3>3, <3>4, <3>5, <3>6, <3>7
  <2> QED BY <2>1, <2>2
<1>8. ASSUME NEW m \in Macs, NEW ip \in IPs, NEW kind \in Kinds, ApplyEntry(m, ip, kind)
      PROVE  InventoryOK'
  <2>1. PICK i \in IF WithMac(m) = {} THEN Free ELSE WithMac(m) :
          /\ mac' = [mac EXCEPT ![i] = m]
          /\ \E table \in Upserted(rows, i, ip, kind) :
               rows' = IF kind = "dhcp" THEN Claimed(table, i, ip) ELSE table
    BY <1>8 DEF ApplyEntry
  <2>2. PICK table \in Upserted(rows, i, ip, kind) :
          rows' = IF kind = "dhcp" THEN Claimed(table, i, ip) ELSE table
    BY <2>1
  <2>3. i \in Ifaces /\ \A j \in Ifaces \ {i} : mac[j] # m
    BY <2>1 DEF Free, WithMac
  <2>4. table \in [Claims -> 0..CopyCap] /\ \A c \in Claims : c[1] # i => table[c] = rows[c]
    BY <2>2, <2>3, UpsertedType
  <2>5. /\ rows' \in [Claims -> 0..CopyCap]
        /\ \A c \in Claims : c[1] # i => rows'[c] \in {0, rows[c]}
    BY <2>2, <2>4, ClaimedType
  <2>6. m # "free" /\ m \in Answers
    BY MacsAssumption DEF Answers
  <2> QED BY <2>1, <2>3, <2>5, <2>6
<1>9. ASSUME NEW ip \in IPs, NEW kind \in Kinds, SetKind(ip, kind) PROVE InventoryOK'
  <2> DEFINE both(c) == rows[<<c[1], ip, "dhcp">>] + rows[<<c[1], ip, "static">>]
  <2>1. mac' = mac
    BY <1>9 DEF SetKind
  <2>2. ASSUME NEW c \in Claims
        PROVE  /\ rows[<<c[1], ip, "dhcp">>] \in Nat /\ rows[<<c[1], ip, "static">>] \in Nat
               /\ Capped(both(c)) \in 0..CopyCap
               /\ mac[c[1]] = "free" => both(c) = 0
    <3>1. <<c[1], ip, "dhcp">> \in Claims /\ <<c[1], ip, "static">> \in Claims
      BY DEF Claims, Kinds
    <3>2. rows[<<c[1], ip, "dhcp">>] \in Nat /\ rows[<<c[1], ip, "static">>] \in Nat
      BY <3>1
    <3> QED BY <3>1, <3>2, CappedType
  <2>3. Capped(0) = 0
    BY BoundsAssumption DEF Capped
  <2> HIDE DEF both
  <2>4. rows' = [c \in Claims |-> IF c[2] # ip THEN rows[c]
                                  ELSE IF c[3] # kind THEN 0 ELSE Capped(both(c))]
    BY <1>9 DEF SetKind, both
  <2>5. ASSUME NEW c \in Claims
        PROVE  rows'[c] \in 0..CopyCap /\ (mac[c[1]] = "free" => rows'[c] = 0)
    <3>1. rows'[c] \in {rows[c], 0, Capped(both(c))}
      BY <2>4
    <3>2. mac[c[1]] = "free" => Capped(both(c)) = 0
      BY <2>2, <2>3
    <3>3. /\ 0 \in 0..CopyCap
          /\ rows[c] \in 0..CopyCap
          /\ Capped(both(c)) \in 0..CopyCap
      <4>1. 0 \in 0..CopyCap
        BY BoundsAssumption
      <4>2. rows[c] \in 0..CopyCap
        OBVIOUS
      <4>3. Capped(both(c)) \in 0..CopyCap
        BY <2>2
      <4> QED BY <4>1, <4>2, <4>3
    <3>4. mac[c[1]] = "free" => rows[c] = 0
      OBVIOUS
    <3> QED BY <3>1, <3>2, <3>3, <3>4
  <2>6. rows' \in [Claims -> 0..CopyCap]
    BY <2>4, <2>5
  <2> QED BY <2>1, <2>5, <2>6
<1>10. ASSUME NEW i \in Ifaces, Delete(i) PROVE InventoryOK'
  BY <1>10, BoundsAssumption, MacsAssumption DEF Delete
<1> QED
  BY <1>2, <1>3, <1>4, <1>5, <1>6, <1>7, <1>8, <1>9, <1>10 DEF Next, SweepStep, Environment

(* Going on to the next address keeps the cursor where it belongs. *)
LEMMA NextIPType ==
  ASSUME TypeOK, NextIP, step \in {"match", "retire", "create"}
  PROVE  /\ step' \in {"match", "close"}
         /\ cursor' \in 1..LastIP + 1
         /\ step' = "match" => cursor' \in IPs
  BY BoundsAssumption DEF TypeOK, NextIP, IPs

(* Every step keeps the types of the local variables of the sweep. *)
LEMMA SweepStateStep ==
  ASSUME TypeOK, [Next]_vars
  PROVE  SweepOK'
<1> USE DEF TypeOK, SweepOK
<1>1. ASSUME UNCHANGED <<sweep, conflicts, alerted>>, excused' \subseteq Ifaces PROVE SweepOK'
  BY <1>1 DEF sweep
<1>2. ASSUME NEW m \in Macs, NEW to \in Places, Move(m, to) PROVE SweepOK'
  BY <1>1, <1>2 DEF Move
<1>3. ASSUME NEW m \in Macs, NEW ip \in IPs, NEW kind \in Kinds, ApplyEntry(m, ip, kind)
      PROVE  SweepOK'
  BY <1>1, <1>3 DEF ApplyEntry
<1>4. ASSUME NEW ip \in IPs, NEW kind \in Kinds, SetKind(ip, kind) PROVE SweepOK'
  BY <1>1, <1>4 DEF SetKind
<1>5. ASSUME NEW i \in Ifaces, Delete(i) PROVE SweepOK'
  BY <1>1, <1>5 DEF Delete
<1>6. CASE Probe \/ ProbeBadly
  BY <1>6 DEF Probe, ProbeBadly, Goto, Steps
<1>7. CASE List
  BY <1>7, BoundsAssumption DEF List, Steps, NoMisses, IPs
<1>8. CASE Skip
  BY <1>8, NextIPType DEF Skip, Steps
<1>9. ASSUME NEW i \in Ifaces, Credit(i) PROVE SweepOK'
  BY <1>9, NextIPType DEF Credit, Steps
<1>10. CASE LookUp
  <2>1. mover' \in Ifaces
    BY <1>10 DEF LookUp, WithMac
  <2>2. step' \in {"assign", "create"} /\ cursor' = cursor /\ cursor \in IPs
    BY <1>10 DEF LookUp, Unmatched, Goto
  <2> QED BY <1>10, <2>1, <2>2 DEF LookUp, Unmatched, Steps
<1>11. CASE Assign
  BY <1>11 DEF Assign, Goto, Steps
<1>12. CASE Retire
  BY <1>12, NextIPType, AnyIfaceType DEF Retire, Steps
<1>13. CASE Create
  <2>1. seen' \subseteq Ifaces
    BY <1>13 DEF Create, Free
  <2> QED BY <1>13, <2>1, NextIPType DEF Create, Steps
<1>14. CASE CloseLoop
  <2>1. misses' \in [Ifaces -> 0..2]
    BY <1>14 DEF CloseLoop
  <2> QED BY <1>14, <2>1, BoundsAssumption DEF CloseLoop, Steps
<1>15. CASE Check \/ Restart \/ ReadFails
  <2>1. /\ AllDead \in [IPs -> Results] /\ NoRows \in [Claims -> 0..CopyCap]
        /\ NoMacs \in [Ifaces -> Answers \cup {"free"}] /\ NoMisses \in [Ifaces -> 0..2]
    BY BoundsAssumption DEF AllDead, NoRows, NoMacs, NoMisses, Results, Answers
  <2>2. conflicts' \subseteq IPs /\ alerted' \subseteq IPs
    BY <1>15 DEF Check, Restart, ReadFails, Conflicting
  <2>3. SweepOver
    BY <1>15 DEF Check, Restart, ReadFails
  <2>4. step' = "idle" /\ cursor' \in 1..LastIP + 1 /\ mover' \in Ifaces
    BY <2>3, AnyIfaceType, BoundsAssumption DEF SweepOver
  <2> QED BY <2>1, <2>2, <2>3, <2>4 DEF SweepOver, Steps
<1>16. CASE WriteFails
  <2>1. CASE step = "assign"
    BY <1>16, <2>1 DEF WriteFails, Goto, Steps
  <2>2. CASE step \in {"retire", "create"}
    BY <1>16, <2>2, NextIPType, AnyIfaceType DEF WriteFails, Steps
  <2> QED BY <1>16, <2>1, <2>2 DEF WriteFails
<1>17. CASE LookUpFails
  <2>1. step' = "create" /\ cursor' = cursor /\ cursor \in IPs /\ excused' \subseteq Ifaces
    BY <1>17 DEF LookUpFails, Unmatched, Goto, WithMac
  <2> QED BY <1>17, <2>1 DEF LookUpFails, Unmatched, Steps
<1>18. CASE UNCHANGED vars
  BY <1>1, <1>18 DEF vars, sweep
<1> QED
  BY <1>2, <1>3, <1>4, <1>5, <1>6, <1>7, <1>8, <1>9, <1>10, <1>11, <1>12, <1>13, <1>14,
     <1>15, <1>16, <1>17, <1>18 DEF Next, SweepStep, Environment

(* Every step keeps the types of the network and the budget. *)
LEMMA RestStep ==
  ASSUME TypeOK, [Next]_vars
  PROVE  host' \in [Macs -> Places] /\ budget' \in 0..Budget
<1> USE DEF TypeOK
<1>1. ASSUME Disturb PROVE budget' \in 0..Budget
  BY <1>1, BoundsAssumption DEF Disturb
<1>2. CASE SweepStep \/ UNCHANGED vars
  BY <1>2 DEF SweepStep, Probe, List, Skip, Credit, LookUp, Assign, Retire, Create, CloseLoop,
              Check, vars
<1>3. CASE ProbeBadly
  BY <1>3, BoundsAssumption DEF ProbeBadly
<1>4. CASE LookUpFails \/ WriteFails \/ ReadFails \/ Restart
  BY <1>1, <1>4 DEF LookUpFails, WriteFails, ReadFails, Restart
<1>5. ASSUME NEW m \in Macs, NEW to \in Places, Move(m, to)
      PROVE  host' \in [Macs -> Places] /\ budget' \in 0..Budget
  <2>1. host' = [host EXCEPT ![m] = to]
    BY <1>5 DEF Move
  <2>2. budget' >= 0 /\ (budget' = budget - 2 \/ budget' = budget - 1)
    <3> HIDE DEF TypeOK
    <3> QED BY <1>5 DEF Move
  <2>3. host' \in [Macs -> Places]
    BY <2>1
  <2>4. budget' \in 0..Budget
    BY <2>2, BoundsAssumption
  <2> QED BY <2>3, <2>4
<1>6. ASSUME NEW m \in Macs, NEW ip \in IPs, NEW kind \in Kinds, ApplyEntry(m, ip, kind)
      PROVE  host' = host /\ budget' \in 0..Budget
  BY <1>1, <1>6 DEF ApplyEntry
<1>7. ASSUME NEW ip \in IPs, NEW kind \in Kinds, SetKind(ip, kind)
      PROVE  host' = host /\ budget' \in 0..Budget
  BY <1>1, <1>7 DEF SetKind
<1>8. ASSUME NEW i \in Ifaces, Delete(i) PROVE host' = host /\ budget' \in 0..Budget
  BY <1>1, <1>8 DEF Delete
<1> QED
  BY <1>2, <1>3, <1>4, <1>5, <1>6, <1>7, <1>8 DEF Next, Environment

(* Every step keeps the types. *)
LEMMA TypeStep == TypeOK /\ [Next]_vars => TypeOK'
<1> SUFFICES ASSUME TypeOK, [Next]_vars PROVE TypeOK'
  OBVIOUS
<1>1. InventoryOK' /\ SweepOK'
  BY InventoryStep, SweepStateStep
<1>2. host' \in [Macs -> Places] /\ budget' \in 0..Budget
  BY RestStep
<1> QED
  BY <1>1, <1>2 DEF TypeOK, InventoryOK, SweepOK

(* The tables stay well formed: no two interfaces with one MAC, no address of
   a deleted interface, whatever the sweep, the integrations and the user do
   in whatever order (0001_init.sql, device.go). *)
THEOREM TypeCorrect == Spec => []TypeOK
<1>1. Init => TypeOK
  BY TypeInit
<1>2. TypeOK /\ [Next]_vars => TypeOK'
  BY TypeStep
<1> QED
  BY <1>1, <1>2, PTL DEF Spec, Safety

(* An action of the sweep only adds static rows: of the two statements that
   write rows, AssignIP inserts and the removal is limited to DHCP rows
   (device.go:269-270). *)
THEOREM StaticAddressesSurvive == Spec => StaticSurvivesSweeps
<1>1. ASSUME TypeOK, SweepStep
      PROVE  \A i \in Ifaces, ip \in IPs :
               rows[<<i, ip, "static">>] <= rows'[<<i, ip, "static">>]
  <2> SUFFICES ASSUME NEW i \in Ifaces, NEW ip \in IPs
               PROVE  rows[<<i, ip, "static">>] <= rows'[<<i, ip, "static">>]
    OBVIOUS
  <2> DEFINE s == <<i, ip, "static">>
  <2>1. s \in Claims /\ s[1] = i /\ s[3] = "static"
    BY DEF Claims, Kinds
  <2>2. rows \in [Claims -> 0..CopyCap] /\ rows[s] \in 0..CopyCap
    BY <1>1, <2>1 DEF TypeOK
  <2>3. ASSUME NEW c \in Claims, c[3] = "dhcp", rows' = Inserted(rows, c)
        PROVE  rows'[s] = rows[s]
    <3>1. s # c
      BY <2>1, <2>3
    <3> HIDE DEF s
    <3> QED BY <2>1, <2>2, <2>3, <3>1, InsertedType
  <2>4. CASE UNCHANGED rows
    BY <2>2, <2>4
  <2>5. CASE Assign
    <3>1. CASE mover \in Free
      BY <1>1, <2>4, <2>5, <3>1 DEF Assign
    <3>2. CASE mover \notin Free
      <4>1. <<mover, cursor, "dhcp">> \in Claims /\ rows' = Inserted(rows, <<mover, cursor, "dhcp">>)
        BY <1>1, <2>5, <3>2 DEF Assign, TypeOK, Claims, Kinds
      <4> QED BY <2>2, <2>3, <4>1
    <3> QED BY <3>1, <3>2
  <2>6. CASE Retire
    BY <2>1, <2>2, <2>6 DEF Retire, Retired
  <2>7. CASE Create
    <3>1. CASE CreateFails
      BY <2>4, <2>7, <3>1 DEF Create, inventory
    <3>2. CASE ~CreateFails
      <4>1. PICK j \in Free : rows' = Inserted(rows, <<j, cursor, "dhcp">>)
        BY <2>7, <3>2 DEF Create
      <4>2. <<j, cursor, "dhcp">> \in Claims
        BY <1>1, <2>7 DEF Create, TypeOK, Free, Claims, Kinds
      <4> QED BY <2>2, <2>3, <4>1, <4>2
    <3> QED BY <3>1, <3>2
  <2>8. CASE Probe \/ List \/ Skip \/ (\E k \in Ifaces : Credit(k)) \/ LookUp \/ CloseLoop \/ Check
    BY <2>4, <2>8 DEF Probe, List, Skip, Credit, LookUp, CloseLoop, Check, inventory
  <2> QED BY <1>1, <2>5, <2>6, <2>7, <2>8 DEF SweepStep
<1>2. TypeOK /\ [Next]_vars =>
        [SweepStep => \A i \in Ifaces, ip \in IPs :
           rows[<<i, ip, "static">>] <= rows'[<<i, ip, "static">>]]_vars
  BY <1>1
<1> QED
  BY <1>2, TypeCorrect, PTL DEF Spec, Safety, StaticSurvivesSweeps

-----------------------------------------------------------------------------
(* What a sweep under way knows *)

Looping == step \in {"match", "assign", "retire", "create"}
Judging == Looping \/ step \in {"close", "check"}

(* An interface of the snapshot keeps its MAC as long as it is not deleted. *)
SnapshotOK ==
  Judging =>
    /\ \A i \in Ifaces \ excused : mac[i] = knownMac[i] \/ knownMac[i] = "free"
    /\ \A i, j \in Ifaces : knownMac[i] \in Macs /\ knownMac[i] = knownMac[j] => i = j
    /\ \A c \in Claims : known[c] > 0 => knownMac[c[1]] # "free"

(* The interface being moved is the one whose MAC answered. *)
MoverOK ==
  step \in {"assign", "retire"} =>
    /\ result[cursor] \in Macs
    /\ mover \notin excused => knownMac[mover] \in {result[cursor], "free"}
    /\ \A i \in Ifaces \ excused : knownMac[i] = result[cursor] => mover = i

(* createUnknown is reached only for a MAC no listed interface has. *)
StrangerOK ==
  step = "create" =>
    \A i \in Ifaces \ excused : result[cursor] \in Macs => knownMac[i] # result[cursor]

(* The addresses dealt with so far. *)
Done(ip) == step \in {"close", "check"} \/ (Looping /\ ip < cursor)

AnsweredAt(i, ip) ==
  /\ result[ip] \in Macs /\ knownMac[i] = result[ip]
  /\ \A j \in Claimants(known, ip) : knownMac[j] # NoMac

(* Whoever answered at an address dealt with is among the seen ... *)
SeenEnough ==
  \A i \in Ifaces \ excused, ip \in IPs : Done(ip) /\ AnsweredAt(i, ip) => i \in seen

(* ... and whoever is among the seen did answer, one way or the other. *)
Reason(i) ==
  \/ knownMac[i] = "free"
  \/ \E ip \in IPs : result[ip] \in Macs /\ knownMac[i] = result[ip]
  \/ \E ip \in IPs : /\ Holds(known, i, ip) /\ result[ip] \in Answers
                     /\ ~MacConflict(knownMac[i], result[ip])
SeenReason == Judging => \A i \in seen \ excused : Reason(i)

IInv ==
  /\ TypeOK /\ SnapshotOK /\ MoverOK /\ StrangerOK /\ SeenEnough /\ SeenReason
  /\ MissIsDeserved /\ SilentIsMissed

-----------------------------------------------------------------------------
(* Inductiveness: first the steps of others, then those that only hand over,
   then those that finish with an address, and the closing loop. *)

Verdicts == MissIsDeserved /\ SilentIsMissed
Loop == SnapshotOK /\ MoverOK /\ StrangerOK /\ SeenEnough /\ SeenReason

(* A step of somebody else: the sweep's own state stays, deletions are recorded. *)
LEMMA Meanwhile ==
  ASSUME TypeOK, Loop, Verdicts, UNCHANGED sweep, excused \subseteq excused',
         \A i \in Ifaces \ excused' : mac'[i] = mac[i] \/ mac[i] = "free"
  PROVE  Loop' /\ Verdicts'
<1> USE DEF sweep
<1>1. SnapshotOK'
  BY DEF Loop, SnapshotOK, Judging, Looping
<1>2. MoverOK' /\ StrangerOK'
  BY DEF Loop, MoverOK, StrangerOK
<1>3. SeenEnough'
  BY DEF Loop, SeenEnough, Done, Looping, AnsweredAt, Claimants, Holds
<1>4. SeenReason'
  BY DEF Loop, SeenReason, Reason, Judging, Looping, Holds, MacConflict
<1>5. Verdicts'
  BY DEF Verdicts, MissIsDeserved, SilentIsMissed, MacAnswered, NothingProbed, Claimants, Holds
<1> QED BY <1>1, <1>2, <1>3, <1>4, <1>5 DEF Loop

(* Before the snapshot is taken there is nothing to keep. *)
LEMMA Outside ==
  ASSUME step' \in {"idle", "list"}
  PROVE  Loop' /\ Verdicts'
  BY DEF Loop, Verdicts, SnapshotOK, MoverOK, StrangerOK, SeenEnough, SeenReason,
         MissIsDeserved, SilentIsMissed, Judging, Looping, Done

(* Finishing with an address: whoever answered there is seen, and whoever became
   seen has a reason. *)
LEMMA Advance ==
  ASSUME TypeOK, Loop, NextIP, step \in {"match", "retire", "create"},
         UNCHANGED <<result, known, knownMac, excused>>,
         seen \subseteq seen',
         \A i \in Ifaces \ excused : mac'[i] = mac[i] \/ mac[i] = "free",
         \A i \in Ifaces \ excused : AnsweredAt(i, cursor) => i \in seen',
         \A i \in seen' \ (seen \cup excused) : Reason(i)
  PROVE  Loop' /\ Verdicts'
<1>1. /\ step' \in {"match", "close"} /\ cursor' = cursor + 1 /\ cursor \in IPs /\ Looping
      /\ step' = "close" => cursor = LastIP
  BY DEF NextIP, TypeOK, Looping
<1>2. SnapshotOK'
  BY <1>1 DEF Loop, SnapshotOK, Judging, Looping
<1>3. MoverOK' /\ StrangerOK' /\ Verdicts'
  BY <1>1 DEF MoverOK, StrangerOK, Verdicts, MissIsDeserved, SilentIsMissed
<1>4. SeenEnough'
  <2> SUFFICES ASSUME NEW i \in Ifaces \ excused, NEW ip \in IPs, Done(ip)', AnsweredAt(i, ip)
               PROVE  i \in seen'
    BY DEF SeenEnough, AnsweredAt, Claimants, Holds
  <2>1. ip < cursor \/ ip = cursor
    BY <1>1, BoundsAssumption DEF Done, Looping, IPs
  <2>2. CASE ip < cursor
    <3>1. Done(ip)
      BY <1>1, <2>2 DEF Done
    <3> QED BY <3>1 DEF Loop, SeenEnough
  <2>3. CASE ip = cursor
    BY <2>3
  <2> QED BY <2>1, <2>2, <2>3
<1>5. SeenReason'
  <2>1. \A i \in seen' \ excused : Reason(i)
    BY <1>1 DEF Loop, SeenReason, Judging
  <2> QED BY <2>1 DEF SeenReason, Reason, Holds, MacConflict
<1> QED BY <1>2, <1>3, <1>4, <1>5 DEF Loop

(* The closing loop: nobody who answered is left, and nobody silent was seen. *)
LEMMA ClosingLoop ==
  ASSUME TypeOK, Loop, CloseLoop
  PROVE  Loop' /\ Verdicts'
<1> USE DEF CloseLoop
<1> DEFINE unc(i) == {c \in Claims : c[1] = i /\ known[c] > 0 /\ Missed(i, c[2])}
<1>1. SnapshotOK' /\ MoverOK' /\ StrangerOK'
  BY DEF Loop, SnapshotOK, MoverOK, StrangerOK, Judging, Looping, inventory
<1>2. SeenEnough'
  BY DEF Loop, SeenEnough, Done, AnsweredAt, Claimants, Holds
<1>3. SeenReason'
  BY DEF Loop, SeenReason, Reason, Judging, Looping, Holds, MacConflict
<1>4. \A i \in Ifaces : /\ unc(i) = {} => misses'[i] = 0
                        /\ unc(i) # {} => misses'[i] > 0
  <2> DEFINE count(u) == IF u = {} THEN 0
                         ELSE IF \E c \in u : u = {c} /\ known[c] = 1 THEN 1 ELSE 2
  <2>1. misses' = [i \in Ifaces |-> count(unc(i))]
    OBVIOUS
  <2>2. \A u : (u = {} => count(u) = 0) /\ (u # {} => count(u) > 0)
    OBVIOUS
  <2> HIDE DEF unc, count
  <2> QED BY <2>1, <2>2
<1>5. ASSUME NEW i \in Ifaces \ excused, MacAnswered(i)
      PROVE  unc(i) = {}
  <2>1. i \in seen
    BY <1>5 DEF Loop, SeenEnough, Done, AnsweredAt, MacAnswered
  <2> QED BY <2>1 DEF Missed
<1>6. ASSUME NEW i \in Ifaces, NothingProbed(i)
      PROVE  unc(i) = {}
  <2> SUFFICES ASSUME NEW c \in Claims, c[1] = i, known[c] > 0, Missed(i, c[2]) PROVE FALSE
    OBVIOUS
  <2>1. Holds(known, i, c[2]) /\ c[2] \in IPs
    BY DEF Holds, Claims
  <2> QED BY <1>6, <2>1 DEF NothingProbed, Missed
<1>7. MissIsDeserved'
  <2> HIDE DEF unc
  <2> QED BY <1>4, <1>5, <1>6 DEF MissIsDeserved, MacAnswered, NothingProbed, Claimants, Holds
<1>8. ASSUME NEW i \in Ifaces \ excused, NEW ip \in IPs, Holds(known, i, ip),
             \A q \in IPs : Holds(known, i, q) =>
               result[q] = "dead" \/ (result[q] \in Macs \ {knownMac[i]} /\ knownMac[i] # NoMac),
             \A q \in IPs : result[q] \in Macs => result[q] # knownMac[i]
      PROVE  unc(i) # {}
  <2>1. PICK kind \in Kinds : known[<<i, ip, kind>>] > 0
    BY <1>8 DEF Holds
  <2>2. <<i, ip, kind>> \in Claims
    BY DEF Claims
  <2>3. knownMac[i] # "free" /\ knownMac[i] \in Answers
    BY <2>1, <2>2 DEF Loop, SnapshotOK, Judging, TypeOK
  <2>4. ASSUME NEW q \in IPs, Holds(known, i, q)
        PROVE  /\ result[q] # "error"
               /\ result[q] \in Answers => MacConflict(knownMac[i], result[q])
    BY <1>8, <2>3, <2>4, MacsAssumption DEF MacConflict, Answers
  <2>5. i \notin seen
    <3>1. ~Reason(i)
      BY <1>8, <2>3, <2>4 DEF Reason
    <3> QED BY <3>1 DEF Loop, SeenReason, Judging
  <2>6. Missed(i, ip)
    BY <1>8, <2>4, <2>5 DEF Missed
  <2> QED BY <2>1, <2>2, <2>6
<1>9. SilentIsMissed'
  <2> HIDE DEF unc
  <2> QED BY <1>4, <1>8 DEF SilentIsMissed, Holds
<1> QED BY <1>1, <1>2, <1>3, <1>7, <1>9 DEF Loop, Verdicts

(* FindIfaceByMAC returns the listed interface with that MAC, or one created since;
   nobody is found only if nobody listed has it. *)
LEMMA LookingUp ==
  ASSUME TypeOK, Loop, LookUp
  PROVE  Loop' /\ Verdicts'
<1> USE DEF LookUp, Unmatched, Goto
<1>1. /\ step = "match" /\ step' \in {"assign", "create"} /\ cursor' = cursor
      /\ UNCHANGED <<mac, result, known, knownMac, seen, excused>>
  BY DEF inventory
<1>2. SnapshotOK'
  BY <1>1 DEF Loop, SnapshotOK, Judging, Looping
<1>3. MoverOK'
  <2> SUFFICES ASSUME step' = "assign" PROVE MoverOK'
    BY <1>1 DEF MoverOK
  <2>1. result[cursor] \in Macs /\ mover' \in WithMac(result[cursor])
    OBVIOUS
  <2>2. mover' \in Ifaces /\ mac[mover'] = result[cursor]
    BY <2>1 DEF WithMac
  <2>3. mover' \notin excused => knownMac[mover'] \in {result[cursor], "free"}
    BY <1>1, <2>2 DEF Loop, SnapshotOK, Judging, Looping
  <2>4. ASSUME NEW i \in Ifaces \ excused, knownMac[i] = result[cursor] PROVE mover' = i
    <3>1. mac[i] = result[cursor]
      BY <1>1, <2>1, <2>4, MacsAssumption DEF Loop, SnapshotOK, Judging, Looping
    <3> QED BY <2>1, <2>2, <3>1 DEF TypeOK
  <2> QED BY <1>1, <2>1, <2>3, <2>4 DEF MoverOK
<1>4. StrangerOK'
  <2> SUFFICES ASSUME step' = "create", NEW i \in Ifaces \ excused, result[cursor] \in Macs
               PROVE  knownMac[i] # result[cursor]
    BY <1>1 DEF StrangerOK
  <2>1. result[cursor] = NoMac \/ WithMac(result[cursor]) = {}
    OBVIOUS
  <2>2. mac[i] # result[cursor]
    BY <2>1, MacsAssumption DEF WithMac
  <2> QED BY <1>1, <2>2, MacsAssumption DEF Loop, SnapshotOK, Judging, Looping
<1>5. SeenEnough'
  BY <1>1 DEF Loop, SeenEnough, Done, Looping, AnsweredAt, Claimants, Holds
<1>6. SeenReason' /\ Verdicts'
  BY <1>1 DEF Loop, SeenReason, Reason, Judging, Looping, Holds, MacConflict,
              Verdicts, MissIsDeserved, SilentIsMissed
<1> QED BY <1>2, <1>3, <1>4, <1>5, <1>6 DEF Loop

(* A lookup that fails takes a listed interface for a stranger; that interface
   is excused. *)
LEMMA LookingUpInVain ==
  ASSUME TypeOK, Loop, LookUpFails
  PROVE  Loop' /\ Verdicts'
<1>1. /\ step = "match" /\ step' = "create" /\ cursor' = cursor /\ result[cursor] \in Macs
      /\ UNCHANGED <<mac, result, known, knownMac, seen>>
      /\ excused' = excused \cup WithMac(result[cursor])
  BY DEF LookUpFails, Unmatched, Goto, inventory
<1>2. SnapshotOK' /\ MoverOK'
  BY <1>1 DEF Loop, SnapshotOK, MoverOK, Judging, Looping
<1>3. StrangerOK'
  <2> SUFFICES ASSUME NEW i \in Ifaces \ excused' PROVE knownMac[i] # result[cursor]
    BY <1>1 DEF StrangerOK
  <2>1. mac[i] # result[cursor]
    BY <1>1 DEF WithMac
  <2> QED BY <1>1, <2>1, MacsAssumption DEF Loop, SnapshotOK, Judging, Looping
<1>4. SeenEnough'
  BY <1>1 DEF Loop, SeenEnough, Done, Looping, AnsweredAt, Claimants, Holds
<1>5. SeenReason' /\ Verdicts'
  BY <1>1 DEF Loop, SeenReason, Reason, Judging, Looping, Holds, MacConflict,
              Verdicts, MissIsDeserved, SilentIsMissed
<1> QED BY <1>2, <1>3, <1>4, <1>5 DEF Loop

(* A known address is credited to its claimant: if its own MAC answered there,
   the claimant cannot be anybody else's. *)
LEMMA Crediting ==
  ASSUME TypeOK, Loop, NEW k \in Ifaces, Credit(k)
  PROVE  Loop' /\ Verdicts'
<1> USE DEF Credit
<1>1. /\ step = "match" /\ NextIP /\ seen' = seen \cup {k} /\ cursor \in IPs
      /\ UNCHANGED <<mac, result, known, knownMac, excused>>
  BY DEF inventory, TypeOK
<1>2. ASSUME NEW i \in Ifaces \ excused, AnsweredAt(i, cursor) PROVE i = k
  <2>1. knownMac[k] # NoMac /\ knownMac[i] = result[cursor] /\ result[cursor] \in Macs
    BY <1>2 DEF AnsweredAt
  <2>2. knownMac[k] \in Answers
    <3>1. PICK kind \in Kinds : known[<<k, cursor, kind>>] > 0
      BY DEF Claimants, Holds
    <3>2. <<k, cursor, kind>> \in Claims
      BY <1>1 DEF Claims
    <3>3. knownMac[k] # "free"
      BY <1>1, <3>1, <3>2 DEF Loop, SnapshotOK, Judging, Looping
    <3> QED BY <3>3 DEF TypeOK
  <2>3. knownMac[k] = result[cursor]
    BY <2>1, <2>2 DEF Fits, MacConflict, Answers
  <2> QED BY <1>1, <2>1, <2>3 DEF Loop, SnapshotOK, Judging, Looping
<1>3. Reason(k)
  BY <1>1 DEF Reason, Claimants, Fits
<1> QED BY <1>1, <1>2, <1>3, Advance

(* Nobody answered at a silent address. *)
LEMMA Skipping ==
  ASSUME TypeOK, Loop, Skip
  PROVE  Loop' /\ Verdicts'
<1>1. /\ step = "match" /\ NextIP /\ result[cursor] \notin Answers
      /\ UNCHANGED <<mac, result, known, knownMac, seen, excused>>
  BY DEF Skip, inventory
<1>2. \A i \in Ifaces : ~AnsweredAt(i, cursor)
  BY <1>1 DEF AnsweredAt, Answers
<1> QED BY <1>1, <1>2, Advance

(* The interface that moved counts as seen, whatever became of its rows. *)
LEMMA Moving ==
  ASSUME TypeOK, Loop, step = "retire", NextIP, seen' = seen \cup {mover},
         UNCHANGED <<mac, result, known, knownMac, excused>>
  PROVE  Loop' /\ Verdicts'
<1>1. cursor \in IPs /\ MoverOK
  BY DEF TypeOK, Loop
<1>2. \A i \in Ifaces \ excused : AnsweredAt(i, cursor) => i \in seen'
  BY <1>1 DEF MoverOK, AnsweredAt
<1>3. mover \notin excused => Reason(mover)
  BY <1>1 DEF MoverOK, Reason
<1> QED BY <1>2, <1>3, Advance

(* Nobody listed has the stranger's MAC; the new interface was not listed. *)
LEMMA Creating ==
  ASSUME TypeOK, Loop, step = "create", NextIP,
         UNCHANGED <<result, known, knownMac, excused>>,
         \/ UNCHANGED <<mac, seen>>
         \/ \E i \in Free : /\ mac' = [mac EXCEPT ![i] = result[cursor]]
                            /\ seen' = seen \cup {i}
  PROVE  Loop' /\ Verdicts'
<1>1. \A i \in Ifaces \ excused : ~AnsweredAt(i, cursor)
  BY DEF Loop, StrangerOK, AnsweredAt
<1>2. CASE UNCHANGED <<mac, seen>>
  BY <1>1, <1>2, Advance
<1>3. ASSUME NEW k \in Free, mac' = [mac EXCEPT ![k] = result[cursor]], seen' = seen \cup {k}
      PROVE  Loop' /\ Verdicts'
  <2>1. k \in Ifaces /\ mac[k] = "free"
    BY DEF Free
  <2>2. \A i \in Ifaces : mac'[i] = mac[i] \/ mac[i] = "free"
    BY <1>3, <2>1 DEF TypeOK
  <2>3. k \notin excused => Reason(k)
    BY <2>1 DEF Loop, SnapshotOK, Judging, Looping, Reason
  <2> QED BY <1>1, <1>3, <2>2, <2>3, Advance
<1> QED BY <1>2, <1>3

(* The snapshot is true when it is taken. *)
LEMMA Listing ==
  ASSUME TypeOK, List
  PROVE  Loop' /\ Verdicts'
<1> USE DEF List
<1>1. /\ step' = "match" /\ cursor' = 1 /\ known' = rows /\ knownMac' = mac
      /\ mac' = mac /\ seen' = {} /\ excused' = {}
  BY DEF inventory
<1>2. SnapshotOK'
  BY <1>1 DEF SnapshotOK, TypeOK
<1>3. MoverOK' /\ StrangerOK' /\ SeenReason' /\ Verdicts'
  BY <1>1 DEF MoverOK, StrangerOK, SeenReason, Verdicts, MissIsDeserved, SilentIsMissed
<1>4. SeenEnough'
  BY <1>1, BoundsAssumption DEF SeenEnough, Done, Looping, IPs
<1> QED BY <1>2, <1>3, <1>4 DEF Loop

(* AssignIP touches rows only, not what the sweep goes by. *)
LEMMA Assigning ==
  ASSUME TypeOK, Loop, step = "assign", Goto("retire"),
         UNCHANGED <<mac, result, known, knownMac, seen, mover, excused>>
  PROVE  Loop' /\ Verdicts'
<1>1. step' = "retire" /\ cursor' = cursor
  BY DEF Goto
<1>2. SnapshotOK' /\ MoverOK' /\ StrangerOK'
  BY <1>1 DEF Loop, SnapshotOK, MoverOK, StrangerOK, Judging, Looping
<1>3. SeenEnough'
  BY <1>1 DEF Loop, SeenEnough, Done, Looping, AnsweredAt, Claimants, Holds
<1>4. SeenReason' /\ Verdicts'
  BY <1>1 DEF Loop, SeenReason, Reason, Judging, Looping, Holds, MacConflict,
              Verdicts, MissIsDeserved, SilentIsMissed
<1> QED BY <1>2, <1>3, <1>4 DEF Loop

(* Every step keeps the inductive invariant. *)
LEMMA InvStep == IInv /\ [Next]_vars => IInv'
<1> SUFFICES ASSUME TypeOK, Loop, Verdicts, [Next]_vars PROVE Loop' /\ Verdicts'
  BY TypeStep DEF IInv, Loop, Verdicts
<1>1. CASE Probe \/ ProbeBadly \/ Check \/ ReadFails \/ Restart
  BY <1>1, Outside DEF Probe, ProbeBadly, Check, ReadFails, Restart, SweepOver, Goto
<1>2. CASE List
  BY <1>2, Listing
<1>3. CASE Skip
  BY <1>3, Skipping
<1>4. ASSUME NEW i \in Ifaces, Credit(i) PROVE Loop' /\ Verdicts'
  BY <1>4, Crediting
<1>5. CASE LookUp
  BY <1>5, LookingUp
<1>6. CASE Assign
  BY <1>6, Assigning DEF Assign
<1>7. CASE Retire
  BY <1>7, Moving DEF Retire
<1>8. CASE Create
  <2>1. \/ UNCHANGED <<mac, seen>>
        \/ \E i \in Free : /\ mac' = [mac EXCEPT ![i] = result[cursor]]
                           /\ seen' = seen \cup {i}
    BY <1>8 DEF Create, inventory
  <2> QED BY <1>8, <2>1, Creating DEF Create
<1>9. CASE CloseLoop
  BY <1>9, ClosingLoop
<1>10. CASE WriteFails
  <2>1. UNCHANGED <<mac, result, known, knownMac, excused>>
    BY <1>10 DEF WriteFails, inventory
  <2>2. CASE step = "assign"
    BY <1>10, <2>1, <2>2, Assigning DEF WriteFails
  <2>3. CASE step = "retire"
    BY <1>10, <2>1, <2>3, Moving DEF WriteFails
  <2>4. CASE step = "create"
    BY <1>10, <2>1, <2>4, Creating DEF WriteFails
  <2> QED BY <1>10, <2>2, <2>3, <2>4 DEF WriteFails
<1>11. ASSUME NEW m \in Macs, NEW to \in Places, Move(m, to) PROVE Loop' /\ Verdicts'
  BY <1>11, Meanwhile DEF Move, inventory
<1>12. ASSUME NEW m \in Macs, NEW ip \in IPs, NEW kind \in Kinds, ApplyEntry(m, ip, kind)
       PROVE  Loop' /\ Verdicts'
  <2>1. PICK i \in IF WithMac(m) = {} THEN Free ELSE WithMac(m) : mac' = [mac EXCEPT ![i] = m]
    BY <1>12 DEF ApplyEntry
  <2>2. i \in Ifaces /\ mac[i] \in {m, "free"}
    BY <2>1 DEF Free, WithMac
  <2>3. \A j \in Ifaces : mac'[j] = mac[j] \/ mac[j] = "free"
    BY <2>1, <2>2 DEF TypeOK
  <2> QED BY <1>12, <2>3, Meanwhile DEF ApplyEntry
<1>13. ASSUME NEW ip \in IPs, NEW kind \in Kinds, SetKind(ip, kind) PROVE Loop' /\ Verdicts'
  BY <1>13, Meanwhile DEF SetKind
<1>14. ASSUME NEW i \in Ifaces, Delete(i) PROVE Loop' /\ Verdicts'
  <2>1. \A j \in Ifaces \ {i} : mac'[j] = mac[j]
    BY <1>14 DEF Delete, TypeOK
  <2> QED BY <1>14, <2>1, Meanwhile DEF Delete
<1>15. CASE LookUpFails
  BY <1>15, LookingUpInVain
<1>16. CASE UNCHANGED vars
  BY <1>16, Meanwhile DEF vars, sweep
<1> QED
  BY <1>1, <1>2, <1>3, <1>4, <1>5, <1>6, <1>7, <1>8, <1>9, <1>10, <1>11, <1>12, <1>13, <1>14,
     <1>15, <1>16 DEF Next, SweepStep, Environment

(* The inductive invariant: the sweep's snapshot stays true of the MACs of the
   interfaces nobody deleted, and those are credited exactly when they answered. *)
THEOREM Invariance == Spec => []IInv
<1>1. Init => IInv
  BY TypeInit
  DEF Init, IInv, SnapshotOK, MoverOK, StrangerOK, SeenEnough, SeenReason, Judging, Looping,
      Done, MissIsDeserved, SilentIsMissed
<1> QED BY <1>1, InvStep, PTL DEF Spec, Safety

(* No miss is counted against an interface whose MAC answered the sweep, or none
   of whose addresses could be probed (engine.go:120-121, 136-166). *)
THEOREM AnsweringIsNeverMissed == Spec => []MissIsDeserved
<1>1. IInv => MissIsDeserved
  BY DEF IInv
<1> QED BY <1>1, Invariance, PTL

(* Silence is counted: a newcomer at its address does not keep an absent host
   online (engine.go:132-136, 160-166). *)
THEOREM SilenceIsMissed == Spec => []SilentIsMissed
<1>1. IInv => SilentIsMissed
  BY DEF IInv
<1> QED BY <1>1, Invariance, PTL

(* The tracker forgets no announced conflict and remembers none that ended
   (conflict.go:13-21), restarts included. *)
THEOREM TrackerIsExact == Spec => []TrackerIsAnnounced
<1>1. Init => TrackerIsAnnounced
  BY DEF Init, TrackerIsAnnounced
<1>2. TrackerIsAnnounced /\ [Next]_vars => TrackerIsAnnounced'
  BY DEF TrackerIsAnnounced, Next, SweepStep, Environment, vars, Probe, ProbeBadly, List, Skip,
         Credit, LookUp, Assign, Retire, Create, CloseLoop, Check, Move, ApplyEntry, SetKind,
         Delete, Restart, LookUpFails, WriteFails, ReadFails
<1> QED BY <1>1, <1>2, PTL DEF Spec, Safety
=============================================================================
