---------------------------- MODULE ImportsProofs ----------------------------
(***************************************************************************)
(* What holds of the syncs for any guests, any number of devices and any   *)
(* number of failures and rivals.  A run may mark a device missing only    *)
(* when it has resolved its whole list; the invariant says of every guest  *)
(* it has handled that the run knows the guest's device, although devices  *)
(* come and go, and ids are used again, while it runs (Resolved).          *)
(***************************************************************************)
EXTENDS Imports, TLAPS, WellFoundedInduction

(* The id of the next row is not in use (INTEGER PRIMARY KEY). *)
LEMMA NextIdIsFree ==
  ASSUME devices \in SUBSET Ids
  PROVE  NextId \notin devices
<1>1. ASSUME devices = {} PROVE NextId \notin devices
  BY <1>1
<1>2. ASSUME devices # {} PROVE NextId \notin devices
  <2> DEFINE Gaps == {MaxDevices - d : d \in devices}
  <2>1. Gaps \subseteq Nat /\ Gaps # {}
    <3>1. ASSUME NEW d \in devices PROVE MaxDevices - d \in Nat
      BY BoundsAssumption DEF Ids
    <3> QED BY <1>2, <3>1
  <2>2. PICK g \in Gaps : \A h \in Gaps : <<h, g>> \notin OpToRel(<, Nat)
    BY <2>1, WFMin, NatLessThanWellFounded
  <2>3. PICK d \in devices : g = MaxDevices - d
    OBVIOUS
  <2>4. ASSUME NEW e \in devices PROVE d >= e
    <3>1. MaxDevices - e \in Gaps /\ MaxDevices - e \in Nat /\ g \in Nat
      BY <2>1
    <3>2. ~(MaxDevices - e < g)
      BY <2>2, <3>1 DEF OpToRel
    <3> QED BY <2>3, <3>1, <3>2, BoundsAssumption DEF Ids
  <2>5. \E m \in devices : \A e \in devices : m >= e
    BY <2>4
  <2>6. Max(devices) \in devices /\ \A e \in devices : Max(devices) >= e
    BY <2>5 DEF Max
  <2>7. NextId = Max(devices) + 1
    BY <1>2 DEF NextId
  <2> HIDE DEF NextId, Max
  <2>8. ASSUME NextId \in devices PROVE FALSE
    <3>1. Max(devices) >= NextId /\ Max(devices) \in Ids
      BY <2>6, <2>8
    <3> QED BY <2>7, <3>1, BoundsAssumption DEF Ids
  <2> QED BY <2>8
<1> QED BY <1>1, <1>2

-----------------------------------------------------------------------------
(* The invariant *)

(* Where the run is says what it knows. *)
InGuest == {"create", "fields", "mac", "add", "adopt", "ifaces", "addresses"}
Placed ==
  /\ at \in InGuest => guest \in todo
  /\ at \in {"fields", "mac", "adopt"} => kind = "proxmox"
  /\ at = "create" /\ kind = "wireguard" => DevicesOf(guest) = {}
  /\ at = "reconcile" => complete /\ todo = {} /\ list # {}
  /\ kind = "proxmox" => bare = {}

(* The run knows the device of the guest it is handling and, while it is    *)
(* complete, of every guest it has handled: no other device is the guest's. *)
Resolved ==
  /\ at \in InGuest \ {"create"} => devID \in Ids /\ DevicesOf(guest) \subseteq {devID}
  /\ complete => \A g \in list \ todo : DevicesOf(g) \subseteq seen

IInv == TypeOK /\ Placed /\ Resolved

(* A VMID has one device. *)
Unique == \A d, e \in devices : row[d].vmid # None /\ row[d].vmid = row[e].vmid => d = e

LEMMA Inserting ==
  ASSUME TypeOK, NEW r \in Rows, Insert(NextId, r), r.vmid # None => DevicesOf(r.vmid) = {}
  PROVE  /\ devices' \in SUBSET Ids /\ devices \subseteq devices' /\ NextId \in Ids
         /\ row' \in [Ids -> Rows]
         /\ Unique'
         /\ \A g \in Guests : DevicesOf(g)' = IF r.vmid = g THEN {NextId} ELSE DevicesOf(g)
<1>1. /\ NextId \in Ids /\ devices' = devices \cup {NextId}
      /\ row' = [row EXCEPT ![NextId] = r]
      /\ devices \in SUBSET Ids /\ row \in [Ids -> Rows]
  BY DEF Insert, TypeOK
<1>2. NextId \notin devices
  BY <1>1, NextIdIsFree
<1>3. /\ row' \in [Ids -> Rows] /\ row'[NextId] = r
      /\ \A d \in devices : row'[d] = row[d] /\ d # NextId
  BY <1>1, <1>2
<1>4. ASSUME NEW g \in Guests
      PROVE  DevicesOf(g)' = IF r.vmid = g THEN {NextId} ELSE DevicesOf(g)
  <2>1. CASE r.vmid = g
    <3>1. DevicesOf(g) = {}
      BY <2>1, NoneAssumption
    <3> QED BY <1>1, <1>3, <2>1, <3>1 DEF DevicesOf
  <2>2. CASE r.vmid # g
    BY <1>1, <1>3, <2>2 DEF DevicesOf
  <2> QED BY <2>1, <2>2
<1>5. Unique'
  <2> SUFFICES ASSUME NEW d \in devices', NEW e \in devices',
                      row'[d].vmid # None, row'[d].vmid = row'[e].vmid
               PROVE  d = e
    BY DEF Unique
  <2>1. CASE d \in devices /\ e \in devices
    BY <1>3, <2>1 DEF TypeOK
  <2>2. CASE d = NextId \/ e = NextId
    BY <1>1, <1>3, <2>2 DEF DevicesOf
  <2> QED BY <1>1, <2>1, <2>2
<1> QED BY <1>1, <1>3, <1>4, <1>5

LEMMA Keeping ==
  ASSUME TypeOK, devices' \subseteq devices, \A d \in devices' : row'[d].vmid = row[d].vmid
  PROVE  /\ Unique'
         /\ \A g \in Guests : DevicesOf(g)' \subseteq DevicesOf(g)
BY DEF TypeOK, Unique, DevicesOf

(* A guest gets a device only from the run that is handling it, which has   *)
(* just seen that there is none.                                            *)
Given(g) == g = guest /\ at = "create" /\ devID' \in Ids /\ DevicesOf(g)' = {devID'}
            /\ at' \in {"fields", "add"}
Tables ==
  /\ devices' \in SUBSET Ids /\ row' \in [Ids -> Rows] /\ Unique'
  /\ \A g \in Guests : DevicesOf(g)' \subseteq DevicesOf(g) \/ Given(g)

LEMMA TablesStep ==
  ASSUME IInv, [Next]_vars
  PROVE  Tables
<1> USE NoneAssumption, BoundsAssumption DEF IInv
<1> DEFINE Blank(source, vmid) == NewRow(source, vmid) \in Rows /\ NewRow(source, vmid).vmid = vmid
<1>1. /\ \A v \in Guests \cup {None}, s \in Sources : Blank(s, v)
      /\ guest \in Guests \cup {None} /\ TypeOK
      /\ at = "create" => guest \in Guests
      /\ devices \in SUBSET Ids /\ row \in [Ids -> Rows]
  BY DEF TypeOK, NewRow, Rows, Sources, Kinds, Placed, InGuest
<1>2. CASE UNCHANGED <<devices, row>>
  <2>1. devices' \in SUBSET Ids /\ row' \in [Ids -> Rows] /\ Unique'
    BY <1>2 DEF TypeOK, Unique
  <2>2. \A g \in Guests : DevicesOf(g)' = DevicesOf(g)
    BY <1>2 DEF DevicesOf
  <2> QED BY <2>1, <2>2 DEF Tables
<1>3. ASSUME NEW s \in Sources, Insert(NextId, NewRow(s, None))
      PROVE  Tables
  <2>1. NewRow(s, None) \in Rows /\ NewRow(s, None).vmid = None
    BY <1>1
  <2>2. /\ devices' \in SUBSET Ids /\ row' \in [Ids -> Rows] /\ Unique'
        /\ \A g \in Guests : DevicesOf(g)' = IF None = g THEN {NextId} ELSE DevicesOf(g)
    BY <1>1, <1>3, <2>1, Inserting
  <2> QED BY <2>2 DEF Tables
<1>4. ASSUME NEW s \in Sources, Insert(NextId, NewRow(s, guest)), DevicesOf(guest) = {},
             at = "create", devID' = NextId, at' \in {"fields", "add"}
      PROVE  Tables
  <2>1. NewRow(s, guest) \in Rows /\ NewRow(s, guest).vmid = guest /\ guest \in Guests
    BY <1>1, <1>4
  <2>2. /\ devices' \in SUBSET Ids /\ row' \in [Ids -> Rows] /\ Unique' /\ NextId \in Ids
        /\ \A g \in Guests : DevicesOf(g)' = IF guest = g THEN {NextId} ELSE DevicesOf(g)
    BY <1>1, <1>4, <2>1, Inserting
  <2> QED BY <1>4, <2>2 DEF Tables, Given
<1>5. ASSUME devices' \subseteq devices, row' \in [Ids -> Rows],
             \A d \in devices' : row'[d].vmid = row[d].vmid
      PROVE  Tables
  <2>1. Unique' /\ \A g \in Guests : DevicesOf(g)' \subseteq DevicesOf(g)
    BY <1>1, <1>5, Keeping
  <2> QED BY <1>1, <1>5, <2>1 DEF Tables
<1>6. CASE CreateGuest
  BY <1>2, <1>4, <1>6 DEF CreateGuest, Sources, Kinds
<1>7. CASE CreatePeer
  BY <1>4, <1>7 DEF CreatePeer, Placed, Sources, Kinds
<1>8. CASE LeaseCreates
  BY <1>3, <1>8 DEF LeaseCreates, Sources, Kinds
<1>9. CASE Found
  BY <1>3, <1>9 DEF Found, Sources, Kinds
<1>10. CASE Adopt
  <2>1. NoRow \in Rows
    BY DEF NoRow, NewRow, Rows, Sources, Kinds
  <2>2. CASE UNCHANGED <<devices, row>>
    BY <1>2, <2>2
  <2>3. CASE \E from : devices' = devices \ {from} /\ row' = [row EXCEPT ![from] = NoRow]
    BY <1>1, <1>5, <2>1, <2>3
  <2> QED BY <1>10, <2>2, <2>3 DEF Adopt
<1>11. CASE DeleteDevice
  <2>1. NoRow \in Rows
    BY DEF NoRow, NewRow, Rows, Sources, Kinds
  <2>2. PICK d \in devices : devices' = devices \ {d} /\ row' = [row EXCEPT ![d] = NoRow]
    BY <1>11 DEF DeleteDevice, Delete
  <2> QED BY <1>1, <1>5, <2>1, <2>2
<1>12. CASE Reconcile
  <2>1. devices' = devices
    BY <1>12 DEF Reconcile
  <2>2. ASSUME NEW d \in Ids
        PROVE  row'[d] \in Rows /\ row'[d].vmid = row[d].vmid
    <3>1. row[d] \in Rows /\ (d \in seen) \in BOOLEAN
      BY <1>1
    <3>2. row'[d] = row[d] \/ \E m \in BOOLEAN : row'[d] = [row[d] EXCEPT !.missing = m]
      BY <1>12 DEF Reconcile, Marked
    <3> QED BY <3>1, <3>2 DEF Rows
  <2>3. row' \in [Ids -> Rows]
    BY <1>12, <2>2 DEF Reconcile
  <2> QED BY <1>1, <1>5, <2>1, <2>2, <2>3
<1>13. CASE Review \/ Annotate
  <2>1. devices' = devices
    BY <1>13 DEF Review, Annotate
  <2>2. PICK d \in devices : row' = [row EXCEPT ![d].reviewed = TRUE, ![d].own = TRUE]
                          \/ row' = [row EXCEPT ![d].kept = TRUE]
    BY <1>13 DEF Review, Annotate
  <2>3. row[d] \in Rows /\ d \in Ids
    BY <1>1
  <2>4. /\ [row[d] EXCEPT !.reviewed = TRUE, !.own = TRUE] \in Rows
        /\ [row[d] EXCEPT !.kept = TRUE] \in Rows
        /\ [row[d] EXCEPT !.reviewed = TRUE, !.own = TRUE].vmid = row[d].vmid
        /\ [row[d] EXCEPT !.kept = TRUE].vmid = row[d].vmid
    BY <2>3 DEF Rows
  <2>5. row' \in [Ids -> Rows] /\ row'[d].vmid = row[d].vmid
        /\ \A e \in devices : e # d => row'[e] = row[e]
    BY <1>1, <2>2, <2>3, <2>4
  <2> QED BY <1>1, <1>5, <2>1, <2>5
<1>14. CASE Reconcile \/ CreateGuest \/ CreatePeer \/ LeaseCreates \/ Found \/ Adopt \/ DeleteDevice
            \/ Review \/ Annotate
  BY <1>6, <1>7, <1>8, <1>9, <1>10, <1>11, <1>12, <1>13, <1>14
<1>15. CASE UNCHANGED vars
  BY <1>2, <1>15 DEF vars, tables
<1>16. CASE List \/ Nodes \/ FindGuest \/ Fields \/ FindMAC \/ AddMAC \/ AllHandled \/ FindPeer
            \/ AddPeerIface \/ PeerIface \/ Addresses
  BY <1>2, <1>16 DEF List, Nodes, FindGuest, Fields, FindMAC, AddMAC, AllHandled, FindPeer,
     AddPeerIface, PeerIface, Addresses, tables
<1>17. CASE Failures \/ LeaseFinds \/ LeaseAdds \/ GuestMoves
  BY <1>2, <1>17 DEF Failures, RunFails, LookupFails, GuestFails, LeaseFinds, LeaseAdds,
     GuestMoves, tables
<1> QED
  BY <1>14, <1>15, <1>16, <1>17 DEF Next, Run, Others

(* The columns keep their types. *)
LEMMA TypeStep ==
  ASSUME IInv, [Next]_vars
  PROVE  TypeOK'
<1> USE NoneAssumption, BoundsAssumption DEF IInv, TypeOK, Placed, InGuest, Ids
<1>1. /\ devices' \in SUBSET Ids /\ row' \in [Ids -> Rows]
      /\ \A d, e \in devices' : row'[d].vmid # None /\ row'[d].vmid = row'[e].vmid => d = e
  BY TablesStep DEF Tables, Unique
<1>2. CASE List
  BY <1>1, <1>2 DEF List, tables, ifaces, current
<1>3. CASE Nodes
  BY <1>1, <1>3 DEF Nodes, tables, ifaces, current
<1>4. CASE FindGuest
  BY <1>1, <1>4 DEF FindGuest, tables, ifaces, DevicesOf
<1>5. CASE CreateGuest
  BY <1>1, <1>5 DEF CreateGuest, Handled, Insert, ifaces
<1>6. CASE Fields
  BY <1>1, <1>6 DEF Fields, Handled, tables, ifaces, current
<1>7. CASE FindMAC
  BY <1>1, <1>7 DEF FindMAC, Handled, tables, ifaces, current
<1>8. CASE AddMAC
  BY <1>1, <1>8 DEF AddMAC, Handled
<1>9. CASE Adopt
  BY <1>1, <1>9 DEF Adopt, Handled, Held, Adoptable
<1>10. CASE AllHandled
  BY <1>1, <1>10 DEF AllHandled, Idle, tables, ifaces, current
<1>11. CASE Reconcile
  BY <1>1, <1>11 DEF Reconcile, Idle, ifaces
<1>12. CASE FindPeer
  BY <1>1, <1>12 DEF FindPeer, tables, ifaces, DevicesOf
<1>13. CASE CreatePeer
  BY <1>1, <1>13 DEF CreatePeer, Insert, ifaces
<1>14. CASE AddPeerIface
  BY <1>1, <1>14 DEF AddPeerIface, Idle, current
<1>15. CASE PeerIface
  BY <1>1, <1>15 DEF PeerIface, Idle, tables, ifaces, current
<1>16. CASE Addresses
  BY <1>1, <1>16 DEF Addresses, Handled, Idle, tables, ifaces
<1>17. CASE RunFails
  BY <1>1, <1>17 DEF RunFails, Event, Idle, tables, ifaces
<1>18. CASE LookupFails
  <2>1. budget' \in 0..MaxEvents
    BY <1>18 DEF LookupFails, Event
  <2>2. todo' \in SUBSET list /\ complete' = FALSE
    BY <1>18 DEF LookupFails
  <2> QED BY <1>1, <1>18, <2>1, <2>2 DEF LookupFails, tables, ifaces, current
<1>19. CASE GuestFails
  BY <1>1, <1>19 DEF GuestFails, Event, Handled, tables, ifaces
<1>20. CASE LeaseFinds
  BY <1>1, <1>20 DEF LeaseFinds, Event, tables, ifaces, sync, current
<1>21. CASE LeaseCreates
  BY <1>1, <1>21 DEF LeaseCreates, Insert, ifaces, sync, current
<1>22. CASE LeaseAdds
  BY <1>1, <1>22 DEF LeaseAdds, Resting, sync, current
<1>23. CASE Found
  BY <1>1, <1>23 DEF Found, Event, Insert, sync, current
<1>24. CASE Review
  BY <1>1, <1>24 DEF Review, Event, ifaces, sync, current
<1>25. CASE Annotate
  BY <1>1, <1>25 DEF Annotate, Event, ifaces, sync, current
<1>26. CASE DeleteDevice
  BY <1>1, <1>26 DEF DeleteDevice, Event, Delete, sync, current
<1>27. CASE GuestMoves
  BY <1>1, <1>27 DEF GuestMoves, Event, tables, ifaces, sync, current
<1>28. CASE UNCHANGED vars
  BY <1>1, <1>28 DEF vars, tables, ifaces, sync, current
<1> QED
  BY <1>2, <1>3, <1>4, <1>5, <1>6, <1>7, <1>8, <1>9, <1>10, <1>11, <1>12, <1>13, <1>14,
     <1>15, <1>16, <1>17, <1>18, <1>19, <1>20, <1>21, <1>22, <1>23, <1>24, <1>25, <1>26,
     <1>27, <1>28 DEF Next, Run, Failures, Others

(* The run knows where it is. *)
LEMMA PlacedStep ==
  ASSUME IInv, [Next]_vars
  PROVE  Placed'
<1> USE NoneAssumption DEF IInv, TypeOK, Placed, InGuest, Kinds, DevicesOf
<1>1. \A g \in Guests :
        \/ \A d \in devices' : row'[d].vmid = g => d \in devices /\ row[d].vmid = g
        \/ /\ g = guest /\ at = "create" /\ devID' \in Ids /\ at' \in {"fields", "add"}
           /\ \A d \in devices' : row'[d].vmid = g => d = devID'
  BY TablesStep DEF Tables, Given
<1>2. CASE List
  BY <1>1, <1>2 DEF List, tables, ifaces, current
<1>3. CASE Nodes
  BY <1>1, <1>3 DEF Nodes, tables, ifaces, current
<1>4. CASE FindGuest
  BY <1>1, <1>4 DEF FindGuest, tables, ifaces, DevicesOf
<1>5. CASE CreateGuest
  BY <1>1, <1>5 DEF CreateGuest, Handled, Insert, ifaces
<1>6. CASE Fields
  BY <1>1, <1>6 DEF Fields, Handled, tables, ifaces, current
<1>7. CASE FindMAC
  BY <1>1, <1>7 DEF FindMAC, Handled, tables, ifaces, current
<1>8. CASE AddMAC
  BY <1>1, <1>8 DEF AddMAC, Handled
<1>9. CASE Adopt
  BY <1>1, <1>9 DEF Adopt, Handled, Held, Adoptable
<1>10. CASE AllHandled
  BY <1>1, <1>10 DEF AllHandled, Idle, tables, ifaces, current
<1>11. CASE Reconcile
  BY <1>1, <1>11 DEF Reconcile, Idle, ifaces
<1>12. CASE FindPeer
  BY <1>1, <1>12 DEF FindPeer, tables, ifaces, DevicesOf
<1>13. CASE CreatePeer
  BY <1>1, <1>13 DEF CreatePeer, Insert, ifaces
<1>14. CASE AddPeerIface
  BY <1>1, <1>14 DEF AddPeerIface, Idle, current
<1>15. CASE PeerIface
  BY <1>1, <1>15 DEF PeerIface, Idle, tables, ifaces, current
<1>16. CASE Addresses
  BY <1>1, <1>16 DEF Addresses, Handled, Idle, tables, ifaces
<1>17. CASE RunFails
  BY <1>1, <1>17 DEF RunFails, Event, Idle, tables, ifaces
<1>18. CASE LookupFails
  BY <1>1, <1>18 DEF LookupFails, Event, tables, ifaces, current
<1>19. CASE GuestFails
  BY <1>1, <1>19 DEF GuestFails, Event, Handled, tables, ifaces
<1>20. CASE LeaseFinds
  BY <1>1, <1>20 DEF LeaseFinds, Event, tables, ifaces, sync, current
<1>21. CASE LeaseCreates
  BY <1>1, <1>21 DEF LeaseCreates, Insert, ifaces, sync, current
<1>22. CASE LeaseAdds
  BY <1>1, <1>22 DEF LeaseAdds, Resting, sync, current
<1>23. CASE Found
  BY <1>1, <1>23 DEF Found, Event, Insert, sync, current
<1>24. CASE Review
  BY <1>1, <1>24 DEF Review, Event, ifaces, sync, current
<1>25. CASE Annotate
  BY <1>1, <1>25 DEF Annotate, Event, ifaces, sync, current
<1>26. CASE DeleteDevice
  BY <1>1, <1>26 DEF DeleteDevice, Event, Delete, sync, current
<1>27. CASE GuestMoves
  BY <1>1, <1>27 DEF GuestMoves, Event, tables, ifaces, sync, current
<1>28. CASE UNCHANGED vars
  BY <1>1, <1>28 DEF vars, tables, ifaces, sync, current
<1> QED
  BY <1>2, <1>3, <1>4, <1>5, <1>6, <1>7, <1>8, <1>9, <1>10, <1>11, <1>12, <1>13, <1>14,
     <1>15, <1>16, <1>17, <1>18, <1>19, <1>20, <1>21, <1>22, <1>23, <1>24, <1>25, <1>26,
     <1>27, <1>28 DEF Next, Run, Failures, Others

(* The run knows the devices of the guests it has handled. *)
LEMMA ResolvedStep ==
  ASSUME IInv, [Next]_vars
  PROVE  Resolved'
<1>a. 0 \notin Ids
  BY BoundsAssumption DEF Ids
<1> USE NoneAssumption, <1>a DEF IInv, TypeOK, Placed, Resolved, InGuest, Kinds, DevicesOf
<1>1. \A g \in Guests :
        \/ \A d \in devices' : row'[d].vmid = g => d \in devices /\ row[d].vmid = g
        \/ /\ g = guest /\ at = "create" /\ devID' \in Ids /\ at' \in {"fields", "add"}
           /\ \A d \in devices' : row'[d].vmid = g => d = devID'
  BY TablesStep DEF Tables, Given
<1>2. CASE List
  BY <1>1, <1>2 DEF List, tables, ifaces, current
<1>3. CASE Nodes
  BY <1>1, <1>3 DEF Nodes, tables, ifaces, current
<1>4. CASE FindGuest
  BY <1>1, <1>4 DEF FindGuest, tables, ifaces, DevicesOf
<1>5. CASE CreateGuest
  BY <1>1, <1>5 DEF CreateGuest, Handled, Insert, ifaces
<1>6. CASE Fields
  BY <1>1, <1>6 DEF Fields, Handled, tables, ifaces, current
<1>7. CASE FindMAC
  BY <1>1, <1>7 DEF FindMAC, Handled, tables, ifaces, current
<1>8. CASE AddMAC
  BY <1>1, <1>8 DEF AddMAC, Handled
<1>9. CASE Adopt
  BY <1>1, <1>9 DEF Adopt, Handled, Held, Adoptable
<1>10. CASE AllHandled
  BY <1>1, <1>10 DEF AllHandled, Idle, tables, ifaces, current
<1>11. CASE Reconcile
  BY <1>1, <1>11 DEF Reconcile, Idle, ifaces
<1>12. CASE FindPeer
  BY <1>1, <1>12 DEF FindPeer, tables, ifaces, DevicesOf
<1>13. CASE CreatePeer
  BY <1>1, <1>13 DEF CreatePeer, Insert, ifaces
<1>14. CASE AddPeerIface
  BY <1>1, <1>14 DEF AddPeerIface, Idle, current
<1>15. CASE PeerIface
  BY <1>1, <1>15 DEF PeerIface, Idle, tables, ifaces, current
<1>16. CASE Addresses
  BY <1>1, <1>16 DEF Addresses, Handled, Idle, tables, ifaces
<1>17. CASE RunFails
  BY <1>1, <1>17 DEF RunFails, Event, Idle, tables, ifaces
<1>18. CASE LookupFails
  BY <1>1, <1>18 DEF LookupFails, Event, tables, ifaces, current
<1>19. CASE GuestFails
  BY <1>1, <1>19 DEF GuestFails, Event, Handled, tables, ifaces
<1>20. CASE LeaseFinds
  BY <1>1, <1>20 DEF LeaseFinds, Event, tables, ifaces, sync, current
<1>21. CASE LeaseCreates
  BY <1>1, <1>21 DEF LeaseCreates, Insert, ifaces, sync, current
<1>22. CASE LeaseAdds
  BY <1>1, <1>22 DEF LeaseAdds, Resting, sync, current
<1>23. CASE Found
  BY <1>1, <1>23 DEF Found, Event, Insert, sync, current
<1>24. CASE Review
  BY <1>1, <1>24 DEF Review, Event, ifaces, sync, current
<1>25. CASE Annotate
  BY <1>1, <1>25 DEF Annotate, Event, ifaces, sync, current
<1>26. CASE DeleteDevice
  BY <1>1, <1>26 DEF DeleteDevice, Event, Delete, sync, current
<1>27. CASE GuestMoves
  BY <1>1, <1>27 DEF GuestMoves, Event, tables, ifaces, sync, current
<1>28. CASE UNCHANGED vars
  BY <1>1, <1>28 DEF vars, tables, ifaces, sync, current
<1> QED
  BY <1>2, <1>3, <1>4, <1>5, <1>6, <1>7, <1>8, <1>9, <1>10, <1>11, <1>12, <1>13, <1>14,
     <1>15, <1>16, <1>17, <1>18, <1>19, <1>20, <1>21, <1>22, <1>23, <1>24, <1>25, <1>26,
     <1>27, <1>28 DEF Next, Run, Failures, Others

-----------------------------------------------------------------------------
(* The theorems *)

LEMMA Initially == Init => IInv
<1> SUFFICES ASSUME Init PROVE IInv
  OBVIOUS
<1>1. NoRow \in Rows
  BY DEF NoRow, NewRow, Rows, Sources, Kinds
<1>2. TypeOK
  BY <1>1, BoundsAssumption DEF Init, TypeOK, Resting
<1>3. Placed /\ Resolved
  BY DEF Init, Placed, Resolved, InGuest
<1> QED BY <1>2, <1>3 DEF IInv

LEMMA Invariant == Spec => []IInv
<1>1. IInv /\ [Next]_vars => IInv'
  BY TypeStep, PlacedStep, ResolvedStep DEF IInv
<1> QED BY Initially, <1>1, PTL DEF Spec

(* Every column keeps its type; in particular an interface's device is a   *)
(* row of the table, and no two devices have the same VMID or public key,  *)
(* whatever the sync finds, makes, adopts and deletes.                     *)
THEOREM TypeCorrect == Spec => []TypeOK
<1>1. IInv => TypeOK
  BY DEF IInv
<1> QED BY Invariant, <1>1, PTL

(* RunOnce hands ReconcileUpstream the ids it has resolved; a device it     *)
(* then marks missing is the device of no guest in the list it was given,   *)
(* which was not empty, although devices were created, deleted and given    *)
(* their ids again while the run went through the list.                     *)
THEOREM OnlyTheAbsentGoMissing == Spec => MissingWasAbsent
<1> DEFINE A == \A d \in devices \cap devices' :
                  row'[d].missing /\ ~row[d].missing => list # {} /\ row[d].vmid \notin list
<1>1. ASSUME IInv, [Next]_vars PROVE [A]_vars
  <2> USE NoneAssumption
  <2> SUFFICES ASSUME NEW d \in devices, d \in devices', row'[d].missing, ~row[d].missing
               PROVE  list # {} /\ row[d].vmid \notin list
    OBVIOUS
  <2>1. /\ devices \subseteq Ids /\ row \in [Ids -> Rows] /\ d \in Ids /\ row[d] \in Rows
        /\ list \subseteq Guests
    BY <1>1 DEF IInv, TypeOK
  <2>2. CASE Reconcile
    <3>1. complete /\ todo = {} /\ list # {} /\ \A g \in list : DevicesOf(g) \subseteq seen
      BY <1>1, <2>2 DEF Reconcile, IInv, Placed, Resolved
    <3>2. row'[d] = row[d] \/ row'[d] = [row[d] EXCEPT !.missing = ~(d \in seen)]
      BY <2>1, <2>2 DEF Reconcile, Marked
    <3>3. d \notin seen
      BY <2>1, <3>2 DEF Rows
    <3> QED BY <3>1, <3>3 DEF DevicesOf
  <2>3. ASSUME NEW r, r.missing = FALSE, Insert(NextId, r) PROVE FALSE
    <3>1. NextId \notin devices
      BY <2>1, NextIdIsFree
    <3> QED BY <2>1, <2>3, <3>1 DEF Insert
  <2>4. CASE CreateGuest \/ CreatePeer \/ LeaseCreates \/ Found
    <3>1. \A s, v : NewRow(s, v).missing = FALSE
      BY DEF NewRow
    <3> QED BY <2>3, <2>4, <3>1 DEF CreateGuest, CreatePeer, LeaseCreates, Found
  <2>5. CASE Adopt \/ DeleteDevice
    BY <2>1, <2>5 DEF Adopt, DeleteDevice, Delete, NoRow, NewRow
  <2>6. CASE Review \/ Annotate
    <3>1. PICK e \in devices : row' = [row EXCEPT ![e].reviewed = TRUE, ![e].own = TRUE]
                            \/ row' = [row EXCEPT ![e].kept = TRUE]
      BY <2>6 DEF Review, Annotate
    <3>2. row'[d].missing = row[d].missing
      BY <2>1, <3>1 DEF Rows
    <3> QED BY <3>2
  <2>7. CASE UNCHANGED row
    BY <2>7
  <2>8. CASE List \/ Nodes \/ FindGuest \/ Fields \/ FindMAC \/ AddMAC \/ AllHandled \/ FindPeer
             \/ AddPeerIface \/ PeerIface \/ Addresses \/ UNCHANGED vars
    BY <2>7, <2>8 DEF List, Nodes, FindGuest, Fields, FindMAC, AddMAC, AllHandled, FindPeer,
       AddPeerIface, PeerIface, Addresses, tables, vars
  <2>9. CASE Failures \/ LeaseFinds \/ LeaseAdds \/ GuestMoves
    BY <2>7, <2>9 DEF Failures, RunFails, LookupFails, GuestFails, LeaseFinds, LeaseAdds,
       GuestMoves, tables
  <2> QED BY <1>1, <2>2, <2>4, <2>5, <2>6, <2>8, <2>9 DEF Next, Run, Others
<1>2. IInv /\ [Next]_vars => [A]_vars
  BY <1>1
<1> QED BY Invariant, <1>2, PTL DEF Spec, MissingWasAbsent

(* AdoptDiscoveredIface asks again in its transaction what FindIfaceByMAC's *)
(* answer left open: it takes no reviewed device's interface, and deletes   *)
(* only a device with nothing on it that a person made (device.go:203-245). *)
THEOREM PeopleKeepTheirDevices == Spec => ReviewedIsLeftAlone
<1> DEFINE A == Adopt =>
                  /\ \A g \in Guests : holder'[g] # holder[g] =>
                       ~row[holder[g]].reviewed /\ row[holder[g]].source # "manual"
                  /\ \A d \in devices \ devices' :
                       ~row[d].reviewed /\ ~row[d].kept /\ \A g \in Guests : holder'[g] # d
<1>1. ASSUME IInv, Adopt PROVE A
  <2> DEFINE from == holder[guest]
             moves == devID \in devices /\ Adoptable(from)
             empty == Held(from) \subseteq {guest} /\ from # devID /\ ~row[from].kept
                      /\ ~row[from].reviewed
  <2>1. /\ holder' = IF moves THEN [holder EXCEPT ![guest] = devID] ELSE holder
        /\ moves /\ empty => devices' = devices \ {from}
        /\ ~(moves /\ empty) => devices' = devices
    BY <1>1 DEF Adopt
  <2>2. moves => ~row[from].reviewed /\ row[from].source # "manual"
    BY DEF Adoptable, Discovered
  <2>3. holder \in [Guests -> devices \cup {0}] /\ guest \in Guests
    BY <1>1 DEF IInv, TypeOK, Placed, InGuest, Adopt
  <2>4. ASSUME NEW g \in Guests, holder'[g] # holder[g]
        PROVE  ~row[holder[g]].reviewed /\ row[holder[g]].source # "manual"
    <3>1. moves /\ g = guest
      BY <2>1, <2>3, <2>4
    <3> QED BY <2>2, <3>1
  <2>5. ASSUME NEW d \in devices \ devices'
        PROVE  ~row[d].reviewed /\ ~row[d].kept /\ \A g \in Guests : holder'[g] # d
    <3>1. moves /\ empty /\ d = from
      BY <2>1, <2>5
    <3>2. ASSUME NEW g \in Guests, holder'[g] = d PROVE FALSE
      <4>1. CASE g = guest
        BY <2>1, <2>3, <3>1, <3>2, <4>1
      <4>2. CASE g # guest
        <5>1. g \in Held(from)
          BY <2>1, <2>3, <3>1, <3>2, <4>2 DEF Held
        <5> QED BY <3>1, <4>2, <5>1
      <4> QED BY <4>1, <4>2
    <3> QED BY <3>1, <3>2
  <2> QED BY <2>4, <2>5
<1>2. IInv /\ [Next]_vars => [A]_vars
  BY <1>1
<1> QED BY Invariant, <1>2, PTL DEF Spec, ReviewedIsLeftAlone
=============================================================================
