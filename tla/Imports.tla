------------------------------- MODULE Imports -------------------------------
(***************************************************************************)
(* One machine, several finders.  The Proxmox sync keeps a device for each *)
(* guest, gives it the interface with the guest's MAC (taking it from a    *)
(* device a sweep made for the same machine), and marks the devices of     *)
(* guests that are gone.  Sweeps and lease syncs make devices for MACs     *)
(* they do not know, and people review, annotate and delete devices, all   *)
(* at any moment of the sync.  The WireGuard sync does the same for peers, *)
(* whose interfaces have no MAC: a behaviour has one of the two syncs.     *)
(*                                                                         *)
(* Kept: the statements and transactions of RunOnce, upsertGuest,          *)
(* attachMAC, AdoptDiscoveredIface, ReconcileUpstream and upsertByMAC, and *)
(* upsertPeer of WireGuard, the unique indexes on MAC, VMID and public     *)
(* key, cascading deletes, row ids that SQLite uses again, failing         *)
(* statements, empty and stale lists, restarts.  Abstracted: a guest has   *)
(* one MAC and the model uses the guest for both; a peer's public key is   *)
(* written as a VMID; all a person can add to a device is one flag.  Left  *)
(* out: nodes (their upsert can end the run), parents, events, presence,   *)
(* which Presence models, addresses, which Sweep models, and the reuse of  *)
(* interface ids (device ids are used again).                              *)
(***************************************************************************)
EXTENDS Integers, FiniteSetsExt

CONSTANTS
  Guests,     \* VMIDs, each with a MAC; public keys of peers
  None,       \* no VMID
  MaxDevices, \* bound: device ids
  MaxEvents   \* bound: failures, restarts, guests moving, devices found and edited

ASSUME NoneAssumption == None \notin Guests
ASSUME BoundsAssumption == MaxDevices \in Nat /\ MaxEvents \in Nat

VARIABLES
  devices,  \* ids of the device rows
  row,      \* [Ids -> Rows]: their columns
  holder,   \* [Guests -> id or 0]: device_id of the iface row with the MAC
  bare,     \* ids of the devices that have an interface without a MAC
  kind,     \* "proxmox" or "wireguard": the sync of this behaviour
  upstream, \* SUBSET Guests: the guests Proxmox has
  at,       \* what the sync does next
  list,     \* the guest list it got
  todo,     \* the guests of it not handled yet
  guest,    \* the one it is handling
  devID,    \* its device
  seen,     \* ids of the devices resolved so far
  complete, \* BOOLEAN: every guest so far was resolved
  lease,    \* [at, mac, dev]: a lease sync in upsertByMAC
  budget    \* events left

ifaces == <<holder, bare>>
tables == <<devices, row, ifaces, kind>>
current == <<guest, devID>>
sync == <<at, list, todo, current, seen, complete>>
vars == <<tables, upstream, sync, lease, budget>>

Ids == 1..MaxDevices
Kinds == {"proxmox", "wireguard"}
Sources == Kinds \cup {"scan", "dhcp", "manual"}
Rows == [source : Sources, vmid : Guests \cup {None}, reviewed : BOOLEAN,
         missing : BOOLEAN, kept : BOOLEAN, own : BOOLEAN]

(* CreateDevice: only what a sweep found starts unreviewed.  No column says *)
(* whether that was a person: own does, history of who entered or reviewed  *)
(* the device.                                                              *)
NewRow(source, vmid) ==
  [source |-> source, vmid |-> vmid, reviewed |-> source # "scan",
   missing |-> FALSE, kept |-> FALSE, own |-> source = "manual"]
NoRow == NewRow("manual", None)

(* The id SQLite gives the next row. *)
NextId == IF devices = {} THEN 1 ELSE Max(devices) + 1

DevicesOf(g) == {d \in devices : row[d].vmid = g}
Held(d) == {g \in Guests : holder[g] = d}

(* Discovered: a device AdoptDiscoveredIface may take an interface from. *)
Discovered(d) == row[d].source \in {"scan", "dhcp"} /\ ~row[d].reviewed

TypeOK ==
  /\ devices \in SUBSET Ids
  /\ row \in [Ids -> Rows]
  /\ holder \in [Guests -> devices \cup {0}]
  /\ \A d, e \in devices : row[d].vmid # None /\ row[d].vmid = row[e].vmid => d = e
  /\ bare \in SUBSET devices
  /\ kind \in Kinds
  /\ upstream \in SUBSET Guests
  /\ at \in {"idle", "nodes", "guests", "create", "fields", "mac", "add", "adopt",
            "ifaces", "addresses", "reconcile"}
  /\ list \in SUBSET Guests /\ todo \in SUBSET list
  /\ guest \in Guests \cup {None} /\ devID \in Ids \cup {0}
  /\ seen \in SUBSET Ids
  /\ complete \in BOOLEAN
  /\ lease \in [at : {"idle", "create", "add"}, mac : Guests \cup {None}, dev : Ids \cup {0}]
  /\ budget \in 0..MaxEvents

Resting == [at |-> "idle", mac |-> None, dev |-> 0]

Init ==
  /\ devices = {} /\ row = [d \in Ids |-> NoRow]
  /\ holder = [g \in Guests |-> 0]
  /\ bare = {}
  /\ kind \in Kinds
  /\ upstream \in SUBSET Guests
  /\ at = "idle" /\ list = {} /\ todo = {}
  /\ guest = None /\ devID = 0 /\ seen = {} /\ complete = TRUE
  /\ lease = Resting
  /\ budget = MaxEvents

Event == budget > 0 /\ budget' = budget - 1

-----------------------------------------------------------------------------
(* Effects on the tables. *)

Insert(d, r) ==
  /\ d \in Ids
  /\ devices' = devices \cup {d}
  /\ row' = [row EXCEPT ![d] = r]

(* A mutant of Delete: the interfaces stay behind. *)
DeleteRowOnly(d) ==
  /\ devices' = devices \ {d}
  /\ row' = [row EXCEPT ![d] = NoRow]
  /\ UNCHANGED ifaces

(* DeleteDevice, with the cascade to its interfaces. *)
Delete(d) ==
  /\ devices' = devices \ {d}
  /\ row' = [row EXCEPT ![d] = NoRow]
  /\ holder' = [g \in Guests |-> IF holder[g] = d THEN 0 ELSE holder[g]]
  /\ bare' = bare \ {d}

-----------------------------------------------------------------------------
(* The Proxmox sync. *)

Idle ==
  /\ at' = "idle" /\ list' = {} /\ todo' = {}
  /\ guest' = None /\ devID' = 0 /\ seen' = {} /\ complete' = TRUE

(* ListGuests; `wg show ... dump`. *)
List ==
  /\ at = "idle"
  /\ at' = IF kind = "proxmox" THEN "nodes" ELSE "guests"
  /\ list' = upstream /\ todo' = upstream
  /\ UNCHANGED <<tables, upstream, current, seen, complete, lease, budget>>

(* upsertNode for every node. *)
Nodes ==
  /\ at = "nodes"
  /\ at' = "guests"
  /\ UNCHANGED <<tables, upstream, list, todo, current, seen, complete, lease, budget>>

(* The run ends early: the list, a node, the timeout, a restart.  A token  *)
(* without its privileges lists nothing, which ends the run as well.       *)
RunFails ==
  /\ at # "idle" /\ Event
  /\ Idle
  /\ UNCHANGED <<tables, upstream, lease>>

(* FindProxmoxGuest, for any guest of the list: their order is Proxmox's.  *)
FindGuest ==
  /\ at = "guests" /\ kind = "proxmox"
  /\ \E g \in todo :
       /\ guest' = g
       /\ IF DevicesOf(g) = {} THEN at' = "create" /\ devID' = 0
          ELSE at' = "fields" /\ devID' \in DevicesOf(g)
  /\ UNCHANGED <<tables, upstream, list, todo, seen, complete, lease, budget>>

(* upsertGuest returns: without a device the list is not complete. *)
Handled(d, whole) ==
  /\ at' = "guests" /\ todo' = todo \ {guest}
  /\ guest' = None /\ devID' = 0
  /\ seen' = IF d = 0 THEN seen ELSE seen \cup {d}
  /\ complete' = whole
  /\ UNCHANGED list

(* A mutant of LookupFails: the run is taken for complete all the same. *)
LookupFailsUnnoticed ==
  /\ at = "guests" /\ kind = "proxmox" /\ Event
  /\ \E g \in todo :
       /\ todo' = todo \ {g}
       /\ UNCHANGED <<tables, upstream, at, list, current, seen, complete, lease>>

(* Neither FindProxmoxGuest nor CreateDevice gave a device. *)
LookupFails ==
  /\ at = "guests" /\ kind = "proxmox" /\ Event
  /\ \E g \in todo :
       /\ todo' = todo \ {g} /\ complete' = FALSE
       /\ UNCHANGED <<tables, upstream, at, list, current, seen, lease>>

(* CreateDevice; a VMID that has a device by now is refused. *)
CreateGuest ==
  /\ at = "create" /\ kind = "proxmox"
  /\ IF DevicesOf(guest) = {}
     THEN /\ Insert(NextId, NewRow("proxmox", guest))
          /\ at' = "fields" /\ devID' = NextId
          /\ UNCHANGED <<list, todo, guest, seen, complete>>
     ELSE /\ Handled(0, FALSE)
          /\ UNCHANGED <<devices, row>>
  /\ UNCHANGED <<ifaces, kind, upstream, lease, budget>>

(* SetProxmoxGuestParent, SetCustomField, GuestMACs.  The custom field of  *)
(* a device deleted meanwhile is refused, but the guest counts as seen.    *)
Fields ==
  /\ at = "fields"
  /\ IF devID \in devices
     THEN at' = "mac" /\ UNCHANGED <<list, todo, current, seen, complete>>
     ELSE Handled(devID, complete)
  /\ UNCHANGED <<tables, upstream, lease, budget>>

(* A statement of upsertGuest fails once the device is known. *)
GuestFails ==
  /\ at \in {"fields", "mac", "add", "adopt"} /\ kind = "proxmox" /\ Event
  /\ Handled(devID, complete)
  /\ UNCHANGED <<tables, upstream, lease>>

(* attachMAC: FindIfaceByMAC. *)
FindMAC ==
  /\ at = "mac"
  /\ IF holder[guest] = devID THEN Handled(devID, complete)
     ELSE /\ at' = IF holder[guest] = 0 THEN "add" ELSE "adopt"
          /\ UNCHANGED <<list, todo, current, seen, complete>>
  /\ UNCHANGED <<tables, upstream, lease, budget>>

(* AddIface: refused when the device is gone or the MAC has an interface. *)
AddMAC ==
  /\ at = "add" /\ kind = "proxmox"
  /\ holder' = IF devID \in devices /\ holder[guest] = 0
               THEN [holder EXCEPT ![guest] = devID] ELSE holder
  /\ Handled(devID, complete)
  /\ UNCHANGED <<devices, row, bare, kind, upstream, lease, budget>>

(* A mutant of Adoptable: FindIfaceByMAC's answer is all that is asked. *)
AdoptableAsFound(d) == d \in devices

(* The condition of AdoptDiscoveredIface's UPDATE. *)
Adoptable(d) == d \in devices /\ Discovered(d)

(* AdoptDiscoveredIface, one transaction: the interface moves, and the     *)
(* device it leaves is deleted when nothing else is on it.  Nothing moves  *)
(* when the interface or the guest's device is gone by now.                *)
Adopt ==
  LET from == holder[guest]
      moves == devID \in devices /\ Adoptable(from)
      empty == Held(from) \subseteq {guest} /\ from # devID /\ ~row[from].kept /\ ~row[from].reviewed
  IN /\ at = "adopt"
     /\ holder' = IF moves THEN [holder EXCEPT ![guest] = devID] ELSE holder
     /\ IF moves /\ empty
        THEN devices' = devices \ {from} /\ row' = [row EXCEPT ![from] = NoRow]
        ELSE UNCHANGED <<devices, row>>
     /\ Handled(devID, complete)
     /\ UNCHANGED <<bare, kind, upstream, lease, budget>>

(* A run that resolved every guest of a list that is not empty reconciles. *)
AllHandled ==
  /\ at = "guests" /\ todo = {}
  /\ IF complete /\ list # {}
     THEN at' = "reconcile" /\ UNCHANGED <<list, todo, current, seen, complete>>
     ELSE Idle
  /\ UNCHANGED <<tables, upstream, lease, budget>>

(* A mutant of Marked: a guest that is back stays marked. *)
MarkedForGood(r, resolved) == r.missing \/ ~resolved

(* ReconcileUpstream's verdict on a device in its scope. *)
Marked(r, resolved) == ~resolved

(* ReconcileUpstream, one transaction. *)
Reconcile ==
  /\ at = "reconcile"
  /\ row' = [d \in Ids |->
       IF d \in devices /\ row[d].source = kind /\ row[d].vmid # None
       THEN [row[d] EXCEPT !.missing = Marked(row[d], d \in seen)]
       ELSE row[d]]
  /\ Idle
  /\ UNCHANGED <<devices, ifaces, kind, upstream, lease, budget>>

-----------------------------------------------------------------------------
(* The WireGuard sync: List, AllHandled and Reconcile are as above, but an *)
(* error of any peer ends the run.                                         *)

(* FindDeviceByWGPubKey, for any peer of the dump. *)
FindPeer ==
  /\ at = "guests" /\ kind = "wireguard"
  /\ \E p \in todo :
       /\ guest' = p
       /\ IF DevicesOf(p) = {} THEN at' = "create" /\ devID' = 0
          ELSE at' = "ifaces" /\ devID' \in DevicesOf(p)
  /\ UNCHANGED <<tables, upstream, list, todo, seen, complete, lease, budget>>

(* CreateDevice; no other sync makes peers, and runs do not overlap. *)
CreatePeer ==
  /\ at = "create" /\ kind = "wireguard"
  /\ Insert(NextId, NewRow("wireguard", guest))
  /\ at' = "add" /\ devID' = NextId
  /\ UNCHANGED <<ifaces, kind, upstream, list, todo, guest, seen, complete, lease, budget>>

(* AddIface without a MAC, in a statement of its own: refused when the     *)
(* device is gone.                                                         *)
AddPeerIface ==
  /\ at = "add" /\ kind = "wireguard"
  /\ IF devID \in devices
     THEN /\ bare' = bare \cup {devID}
          /\ at' = "addresses"
          /\ UNCHANGED <<list, todo, current, seen, complete>>
     ELSE Idle /\ UNCHANGED bare
  /\ UNCHANGED <<devices, row, holder, kind, upstream, lease, budget>>

(* ListIfaces: a known peer without an interface is an error. *)
PeerIface ==
  /\ at = "ifaces"
  /\ IF devID \in bare
     THEN at' = "addresses" /\ UNCHANGED <<list, todo, current, seen, complete>>
     ELSE Idle
  /\ UNCHANGED <<tables, upstream, lease, budget>>

(* SyncIntegrationIPs, which cannot add an address when the interface is   *)
(* gone, then MarkSeen or MarkMissed.                                      *)
Addresses ==
  /\ at = "addresses"
  /\ Handled(devID, complete) \/ (devID \notin bare /\ Idle)
  /\ UNCHANGED <<tables, upstream, lease, budget>>

-----------------------------------------------------------------------------
(* Everybody else. *)

(* upsertByMAC: an unknown MAC gets a device, and in another statement its *)
(* interface, which is refused when somebody else added it in between.     *)
LeaseFinds ==
  /\ lease.at = "idle" /\ Event
  /\ \E g \in Guests :
       holder[g] = 0 /\ lease' = [at |-> "create", mac |-> g, dev |-> 0]
  /\ UNCHANGED <<tables, upstream, sync>>

LeaseCreates ==
  /\ lease.at = "create"
  /\ Insert(NextId, NewRow("dhcp", None))
  /\ lease' = [lease EXCEPT !.at = "add", !.dev = NextId]
  /\ UNCHANGED <<ifaces, kind, upstream, sync, budget>>

LeaseAdds ==
  /\ lease.at = "add"
  /\ holder' = IF lease.dev \in devices /\ holder[lease.mac] = 0
               THEN [holder EXCEPT ![lease.mac] = lease.dev] ELSE holder
  /\ lease' = Resting
  /\ UNCHANGED <<devices, row, bare, kind, upstream, sync, budget>>

(* CreateDiscoveredDevice, one transaction, or a device entered by hand. *)
Found ==
  /\ Event
  /\ \E g \in Guests, source \in {"scan", "manual"} :
       /\ holder[g] = 0
       /\ Insert(NextId, NewRow(source, None))
       /\ holder' = [holder EXCEPT ![g] = NextId]
  /\ UNCHANGED <<bare, kind, upstream, sync, lease>>

(* A person reviews a device, or leaves notes, tags or links on it. *)
Review ==
  /\ Event
  /\ \E d \in devices : row' = [row EXCEPT ![d].reviewed = TRUE, ![d].own = TRUE]
  /\ UNCHANGED <<devices, ifaces, kind, upstream, sync, lease>>

Annotate ==
  /\ Event
  /\ \E d \in devices : row' = [row EXCEPT ![d].kept = TRUE]
  /\ UNCHANGED <<devices, ifaces, kind, upstream, sync, lease>>

DeleteDevice ==
  /\ Event
  /\ \E d \in devices : Delete(d)
  /\ UNCHANGED <<kind, upstream, sync, lease>>

(* A guest is created or destroyed in Proxmox. *)
GuestMoves ==
  /\ Event
  /\ \E g \in Guests : upstream' = (upstream \cup {g}) \ (upstream \cap {g})
  /\ UNCHANGED <<tables, sync, lease>>

-----------------------------------------------------------------------------
Run ==
  \/ List \/ Nodes \/ FindGuest \/ CreateGuest \/ Fields \/ FindMAC
  \/ AddMAC \/ Adopt \/ AllHandled \/ Reconcile
  \/ FindPeer \/ CreatePeer \/ AddPeerIface \/ PeerIface \/ Addresses
Failures == RunFails \/ LookupFails \/ GuestFails
Others ==
  \/ LeaseFinds \/ LeaseCreates \/ LeaseAdds \/ Found
  \/ Review \/ Annotate \/ DeleteDevice \/ GuestMoves

Next == Run \/ Failures \/ Others

(* The sync runs every minute and its steps go on when they do not fail. *)
Spec == Init /\ [][Next]_vars /\ WF_vars(Run)

-----------------------------------------------------------------------------
(* A device is only marked missing by a run whose list was not empty and   *)
(* did not have its guest: never because a guest of the list could not be  *)
(* looked up, or its device was found and a later step failed.             *)
MissingWasAbsent ==
  [][\A d \in devices \cap devices' :
       row'[d].missing /\ ~row[d].missing => list # {} /\ row[d].vmid \notin list]_vars

(* The sync takes an interface only from a device nobody has reviewed at   *)
(* that moment, and the device it deletes then has no interface, no review *)
(* and nothing a person added, whatever it looked like when the MAC was    *)
(* looked up.                                                              *)
ReviewedIsLeftAlone ==
  [][Adopt =>
       /\ \A g \in Guests : holder'[g] # holder[g] =>
            ~row[holder[g]].reviewed /\ row[holder[g]].source # "manual"
       /\ \A d \in devices \ devices' :
            ~row[d].reviewed /\ ~row[d].kept /\ \A g \in Guests : holder'[g] # d]_vars

(* "The scan or Pi-hole most likely found the guest first", and the guest   *)
(* takes its interface over "unless the user has reviewed the device"       *)
(* (attachMAC, sync.go:148-152; device.go:191-193): so it does, whichever of *)
(* the two found it, when no person entered or reviewed the device.         *)
DiscoveredIsMerged ==
  [][Adopt /\ devID \in devices =>
       \A from \in devices :
         from = holder[guest] /\ row[from].source \in {"scan", "dhcp"} /\ ~row[from].own
           => holder'[guest] = devID]_vars

(* A guest's device has its interface, or a person's device keeps it; a     *)
(* peer's device has one without a MAC.                                     *)
HasIface(d, g) ==
  \/ kind = "wireguard" /\ d \in bare
  \/ kind = "proxmox" /\ holder[g] = d
  \/ kind = "proxmox" /\ holder[g] \in devices /\ row[holder[g]].own

(* What DiscoveredIsMerged fails of: a lease sync found the guest first, and *)
(* its device keeps the interface although nobody reviewed it.              *)
KeptByLease(g) ==
  /\ kind = "proxmox" /\ holder[g] \in devices
  /\ row[holder[g]].source = "dhcp" /\ ~row[holder[g]].own

(* A device was deleted between a lease sync's CreateDevice and AddIface and *)
(* its id went to another guest's device, which has the interface since     *)
(* (upsertByMAC, leases.go:111 and 121).                                    *)
OnAnotherGuest(g) ==
  /\ kind = "proxmox" /\ holder[g] \in devices
  /\ row[holder[g]].vmid \notin {None, g}

(* The inventory says of every guest what Proxmox says: it has a device,   *)
(* which is not marked and has its interface, and the devices of guests    *)
(* that are gone are marked.  With no guest left nothing can be said.      *)
AsUpstream ==
  upstream # {} =>
    \A g \in Guests :
      IF g \in upstream
      THEN \E d \in DevicesOf(g) :
             ~row[d].missing /\ (HasIface(d, g) \/ KeptByLease(g) \/ OnAnotherGuest(g))
      ELSE \A d \in DevicesOf(g) : row[d].missing

(* A run ended between CreateDevice and AddIface of a peer: every later run *)
(* ends there until somebody deletes the device (upsertPeer, sync.go:141).  *)
StuckPeer == kind = "wireguard" /\ \E g \in upstream : \E d \in DevicesOf(g) : d \notin bare

(* Once nothing else changes, the inventory comes to agree with the guest  *)
(* or peer list for good, whatever failed before and whoever interfered:   *)
(* a later run repairs what an earlier one left (RunOnce, upsertGuest,     *)
(* upsertPeer).  Three exceptions are named: the interface of a guest that *)
(* a lease sync found first or put on another guest's device, and a stuck  *)
(* peer, which keeps the rest of a later run from being done.              *)
Settles == <>[](AsUpstream \/ StuckPeer)
=============================================================================
