------------------------------- MODULE Sweep -------------------------------
(***************************************************************************)
(* One subnet's sweep (Engine.RunSubnet, internal/scan/engine.go): how the *)
(* answers of the network and its ARP table are reconciled with the        *)
(* interfaces and addresses in the database, while hosts move, the DHCP    *)
(* integrations and the user write to the same tables, and a slow name     *)
(* lookup makes the sweep's snapshot of the addresses old.                 *)
(*                                                                         *)
(* A step of the sweep is a database statement or transaction together     *)
(* with the computation on local variables before it.  Interfaces are      *)
(* identified by their database id, which is free again after a delete.    *)
(* What being seen or missed does to iface_status is Presence's subject;   *)
(* here a sweep collects whom it saw and how often it counted a miss.      *)
(***************************************************************************)
EXTENDS Integers, FiniteSets

CONSTANTS
  Ifaces,   \* interface ids
  Macs,     \* MAC addresses of the hosts on the network
  NoMac,    \* an interface without a MAC; an IP without an ARP entry
  LastIP,   \* the subnet's addresses are 1..LastIP
  MaxAddrs, \* the addresses of the subnet one host may answer at
  CopyCap,  \* identical address rows counted before the model saturates
  Budget    \* disturbances: moves, edits, leases, unreliable probes, restarts;
            \*   hosts with several addresses count as one

ASSUME IfacesAssumption == IsFiniteSet(Ifaces) /\ Ifaces # {}
ASSUME MacsAssumption ==
  NoMac \notin Macs /\ (Macs \cup {NoMac}) \cap {"dead", "error", "free"} = {}
ASSUME BoundsAssumption ==
  LastIP \in Nat \ {0} /\ MaxAddrs \in Nat /\ CopyCap \in Nat \ {0} /\ Budget \in Nat

IPs == 1..LastIP
Kinds == {"dhcp", "static"}
Claims == Ifaces \X IPs \X Kinds
Places == {ips \in SUBSET IPs : Cardinality(ips) <= MaxAddrs}
Aliased(places) == \E m \in Macs : Cardinality(places[m]) > 1

VARIABLES
  mac,        \* [Ifaces -> iface.mac, or "free" for an id not in use]
  rows,       \* [Claims -> how many ip_assignment rows say this]
  host,       \* [Macs -> the IPs the host answers at, none when it is away]
  step,       \* where RunSubnet is
  cursor,     \* the address it is dealing with
  result,     \* [IPs -> what the probe and the ARP table said]
  known,      \* the rows as ListSubnetIfaceIPs returned them,
  knownMac,   \*   and the MACs joined to them
  seen,       \* RunSubnet's seen
  mover,      \* the interface FindIfaceByMAC returned
  misses,     \* [Ifaces -> MarkMissed calls this sweep made, 2 for more]
  conflicts,  \* conflictTracker.seen of this subnet
  alerted,    \* history: conflicts announced and not found clear since
  excused,    \* history: interfaces deleted since ListSubnetIfaceIPs, or not
              \*   found because the lookup of their MAC failed
  budget      \* disturbances left

inventory == <<mac, rows>>
sweep == <<step, cursor, result, known, knownMac, seen, mover, misses>>
vars == <<mac, rows, host, step, cursor, result, known, knownMac, seen, mover, misses,
          conflicts, alerted, excused, budget>>

Steps == {"idle", "list", "match", "assign", "retire", "create", "close", "check"}
Answers == Macs \cup {NoMac}             \* alive, with the ARP table's MAC
Results == Answers \cup {"dead", "error"}

AnyIface == CHOOSE i \in Ifaces : TRUE
NoRows == [c \in Claims |-> 0]
AllDead == [ip \in IPs |-> "dead"]
NoMacs == [i \in Ifaces |-> NoMac]
NoMisses == [i \in Ifaces |-> 0]

Holds(table, i, ip) == \E kind \in Kinds : table[<<i, ip, kind>>] > 0
Claimants(table, ip) == {i \in Ifaces : Holds(table, i, ip)}
WithMac(m) == {i \in Ifaces : mac[i] = m}
Free == {i \in Ifaces : mac[i] = "free"}

TypeOK ==
  /\ mac \in [Ifaces -> Answers \cup {"free"}]
  /\ \A i, j \in Ifaces : mac[i] \in Macs /\ mac[i] = mac[j] => i = j
  /\ rows \in [Claims -> 0..CopyCap]
  /\ \A c \in Claims : mac[c[1]] = "free" => rows[c] = 0
  /\ host \in [Macs -> Places]
  /\ step \in Steps
  /\ cursor \in 1..LastIP + 1
  /\ step \in {"match", "assign", "retire", "create"} => cursor \in IPs
  /\ result \in [IPs -> Results]
  /\ step \in {"assign", "retire", "create"} => result[cursor] \in Answers
  /\ known \in [Claims -> 0..CopyCap]
  /\ knownMac \in [Ifaces -> Answers \cup {"free"}]
  /\ seen \subseteq Ifaces
  /\ mover \in Ifaces
  /\ misses \in [Ifaces -> 0..2]
  /\ conflicts \subseteq IPs
  /\ alerted \subseteq IPs
  /\ excused \subseteq Ifaces
  /\ budget \in 0..Budget

Init ==
  /\ mac = [i \in Ifaces |-> "free"]
  /\ rows = NoRows
  /\ host \in [Macs -> Places]
  /\ step = "idle" /\ cursor = 1
  /\ result = AllDead /\ known = NoRows /\ knownMac = NoMacs
  /\ seen = {} /\ mover = AnyIface /\ misses = NoMisses
  /\ conflicts = {} /\ alerted = {} /\ excused = {}
  /\ budget = IF Aliased(host) THEN Budget - 1 ELSE Budget
  /\ budget >= 0

-----------------------------------------------------------------------------
(* Row operations *)

Capped(n) == IF n > CopyCap THEN CopyCap ELSE n

(* INSERT INTO ip_assignment; nothing makes (iface, ip) unique. *)
Inserted(table, c) ==
  [table EXCEPT ![c] = Capped(@ + 1)]

(* Mutants: without the condition on kind; the address kept, not the others. *)
RetiredAll(table, i, keep) ==
  [c \in Claims |-> IF c[1] = i /\ c[2] # keep THEN 0 ELSE table[c]]
RetiredKept(table, i, keep) ==
  [c \in Claims |-> IF c[1] = i /\ c[2] = keep /\ c[3] = "dhcp" THEN 0 ELSE table[c]]

(* RemoveIfaceIPsInSubnetExcept: the interface's other DHCP rows go. *)
Retired(table, i, keep) ==
  [c \in Claims |-> IF c[1] = i /\ c[2] # keep /\ c[3] = "dhcp" THEN 0 ELSE table[c]]

-----------------------------------------------------------------------------
(* The sweep *)

Goto(to) == step' = to /\ UNCHANGED cursor

(* RunSubnet has returned: its local variables are gone. *)
SweepOver ==
  /\ step' = "idle" /\ cursor' = 1
  /\ result' = AllDead /\ known' = NoRows /\ knownMac' = NoMacs
  /\ seen' = {} /\ mover' = AnyIface /\ misses' = NoMisses /\ excused' = {}

NextIP ==
  /\ cursor' = cursor + 1
  /\ step' = IF cursor = LastIP THEN "close" ELSE "match"

(* A faithful answer: any one of the hosts at the address, or silence. *)
Truth(ip) ==
  LET there == {m \in Macs : ip \in host[m]}
  IN IF there = {} THEN {"dead"} ELSE there

(* Sweeper.Sweep, the ARP table and confirmPresence: what each address said. *)
Probe ==
  /\ step = "idle"
  /\ \E answer \in [IPs -> Results] :
       /\ \A ip \in IPs : answer[ip] \in Truth(ip)
       /\ result' = answer
  /\ Goto("list")
  /\ UNCHANGED <<inventory, host, known, knownMac, seen, mover, misses, conflicts, alerted, excused, budget>>

(* The same with one address misread (a probe could not be sent, a reply was
   lost, it came from a routed address without an ARP entry, or the entry is
   still that of a host which just left), or with the ARP table unreadable.  A
   sweep that fails as a whole (most probes failed, cancelled) changes nothing
   and is not a step. *)
ProbeBadly ==
  /\ step = "idle" /\ budget > 0
  /\ \E answer \in [IPs -> Results] :
       /\ \/ \E bad \in IPs : /\ answer[bad] \notin Truth(bad)
                              /\ \A ip \in IPs \ {bad} : answer[ip] \in Truth(ip)
          \/ \A ip \in IPs : answer[ip] = IF Truth(ip) = {"dead"} THEN "dead" ELSE NoMac
       /\ result' = answer
  /\ Goto("list")
  /\ budget' = budget - 1
  /\ UNCHANGED <<inventory, host, known, knownMac, seen, mover, misses, conflicts, alerted, excused>>

(* ListSubnetIfaceIPs; the slow name lookups (resolveAll) come after it. *)
List ==
  /\ step = "list"
  /\ known' = rows /\ knownMac' = mac
  /\ seen' = {} /\ misses' = NoMisses /\ excused' = {}
  /\ step' = "match" /\ cursor' = 1
  /\ UNCHANGED <<inventory, host, result, mover, conflicts, alerted, budget>>

(* Mutant: any claim on an address is credited with an answer there. *)
NeverConflict(m, arp) == m \in Macs /\ arp \in Macs /\ FALSE

(* macConflict *)
MacConflict(m, arp) == m \in Macs /\ arp \in Macs /\ m # arp

Fits(i) == ~MacConflict(knownMac[i], result[cursor])

(* Silence and a probe that could not run leave the address to the closing loop. *)
Skip ==
  /\ step = "match" /\ result[cursor] \notin Answers
  /\ NextIP
  /\ UNCHANGED <<inventory, host, result, known, knownMac, seen, mover, misses, conflicts, alerted, excused, budget>>

(* The address is known and ARP does not contradict it.  knownByIP keeps one
   claimant of the address, whichever the query returned last. *)
Credit(i) ==
  /\ step = "match" /\ result[cursor] \in Answers
  /\ i \in Claimants(known, cursor) /\ Fits(i)
  /\ seen' = seen \cup {i}
  /\ NextIP
  /\ UNCHANGED <<inventory, host, result, known, knownMac, mover, misses, conflicts, alerted, excused, budget>>

(* Nobody is known there, or ARP contradicts the claimant that was kept. *)
Unmatched ==
  /\ step = "match" /\ result[cursor] \in Answers
  /\ \/ Claimants(known, cursor) = {}
     \/ \E i \in Claimants(known, cursor) : ~Fits(i)

(* Then the MAC decides (FindIfaceByMAC): a known interface has moved here, or
   this is a machine never seen. *)
LookUp ==
  /\ Unmatched
  /\ \/ /\ result[cursor] \in Macs
        /\ \E i \in WithMac(result[cursor]) : mover' = i
        /\ Goto("assign")
     \/ /\ result[cursor] = NoMac \/ WithMac(result[cursor]) = {}
        /\ UNCHANGED mover
        /\ Goto("create")
  /\ UNCHANGED <<inventory, host, result, known, knownMac, seen, misses, conflicts, alerted, excused, budget>>

(* AssignIP; it fails, unnoticed, if the interface was deleted meanwhile. *)
Assign ==
  /\ step = "assign"
  /\ rows' = IF mover \in Free THEN rows ELSE Inserted(rows, <<mover, cursor, "dhcp">>)
  /\ Goto("retire")
  /\ UNCHANGED <<mac, host, result, known, knownMac, seen, mover, misses, conflicts, alerted, excused, budget>>

(* RemoveIfaceIPsInSubnetExcept, the ip_changed event and markSeen. *)
Retire ==
  /\ step = "retire"
  /\ rows' = Retired(rows, mover, cursor)
  /\ seen' = seen \cup {mover}
  /\ mover' = AnyIface
  /\ NextIP
  /\ UNCHANGED <<mac, host, result, known, knownMac, misses, conflicts, alerted, excused, budget>>

(* Mutant: no unique index on iface.mac. *)
CreateAlways == Free = {}

(* The transaction of createUnknown fails if somebody created an interface with
   that MAC meanwhile (and, here, if the model has run out of ids). *)
CreateFails == Free = {} \/ (result[cursor] \in Macs /\ WithMac(result[cursor]) # {})

(* createUnknown: device, interface and address in one transaction. *)
Create ==
  /\ step = "create"
  /\ IF CreateFails
     THEN UNCHANGED <<inventory, seen>>
     ELSE \E i \in Free :
            /\ mac' = [mac EXCEPT ![i] = result[cursor]]
            /\ rows' = Inserted(rows, <<i, cursor, "dhcp">>)
            /\ seen' = seen \cup {i}
  /\ NextIP
  /\ UNCHANGED <<host, result, known, knownMac, mover, misses, conflicts, alerted, excused, budget>>

(* Mutant: an unanswered probe and one that could not run are the same. *)
MissedOnError(i, ip) ==
  i \notin seen /\ (result[ip] \in Answers => MacConflict(knownMac[i], result[ip]))

(* Whether the closing loop counts a miss for a row (i, ip) of the snapshot. *)
Missed(i, ip) ==
  /\ i \notin seen
  /\ result[ip] # "error"
  /\ result[ip] \in Answers => MacConflict(knownMac[i], result[ip])

(* The closing loop: one MarkMissed per row.  It reads only local variables,
   so it is one step; a deleted interface has no status row left to count. *)
CloseLoop ==
  /\ step = "close"
  /\ misses' =
       [i \in Ifaces |->
          LET uncredited == {c \in Claims : c[1] = i /\ known[c] > 0 /\ Missed(i, c[2])}
          IN IF uncredited = {} THEN 0
             ELSE IF \E c \in uncredited : uncredited = {c} /\ known[c] = 1 THEN 1 ELSE 2]
  /\ step' = "check" /\ cursor' = 1
  /\ UNCHANGED <<inventory, host, result, known, knownMac, seen, mover, conflicts, alerted, excused, budget>>

Conflicting == {ip \in IPs : Cardinality(Claimants(rows, ip)) > 1}

(* Mutant: the tracker is added to and never replaced. *)
CheckKeeps ==
  /\ step = "check"
  /\ conflicts' = conflicts \cup Conflicting
  /\ alerted' = (alerted \cup (Conflicting \ conflicts)) \cap Conflicting
  /\ SweepOver
  /\ UNCHANGED <<inventory, host, budget>>

(* checkConflicts: announce what was not conflicting at the last check. *)
Check ==
  /\ step = "check"
  /\ conflicts' = Conflicting
  /\ alerted' = (alerted \cup (Conflicting \ conflicts)) \cap Conflicting
  /\ SweepOver
  /\ UNCHANGED <<inventory, host, budget>>

-----------------------------------------------------------------------------
(* Everything else that happens meanwhile *)

Disturb == budget > 0 /\ budget' = budget - 1

(* A host joins, leaves or changes its addresses; one with several answers at
   each of them with the same MAC. *)
Move(m, to) ==
  /\ host[m] # to
  /\ host' = [host EXCEPT ![m] = to]
  /\ budget' = IF Aliased(host') /\ ~Aliased(host) THEN budget - 2 ELSE budget - 1
  /\ budget' >= 0
  /\ UNCHANGED <<inventory, sweep, conflicts, alerted, excused>>

(* UpsertIPAssignmentFrom: insert the row, or make one row that exists static. *)
Upserted(table, i, ip, kind) ==
  IF ~Holds(table, i, ip) THEN {Inserted(table, <<i, ip, kind>>)}
  ELSE IF kind = "static" /\ table[<<i, ip, "dhcp">>] > 0
  THEN {Inserted([table EXCEPT ![<<i, ip, "dhcp">>] = @ - 1], <<i, ip, "static">>)}
       \cup (IF table[<<i, ip, "static">>] > 0 THEN {table} ELSE {})
  ELSE {table}

(* ClaimDHCPLease: the interface's other leases and the others' leases of ip. *)
Claimed(table, i, ip) ==
  [c \in Claims |->
     IF c[3] = "dhcp" /\ ((c[1] = i) # (c[2] = ip)) THEN 0 ELSE table[c]]

(* leases.Apply for one entry: the interface with the MAC, created if there is
   none, is given the address; a lease (not a reservation) retires other claims. *)
ApplyEntry(m, ip, kind) ==
  /\ Disturb
  /\ \E i \in (IF WithMac(m) = {} THEN Free ELSE WithMac(m)) :
       /\ mac' = [mac EXCEPT ![i] = m]
       /\ \E table \in Upserted(rows, i, ip, kind) :
            rows' = IF kind = "dhcp" THEN Claimed(table, i, ip) ELSE table
  /\ UNCHANGED <<host, sweep, conflicts, alerted, excused>>

(* SetIPKind from the grid's panel: every row of the address changes kind. *)
SetKind(ip, kind) ==
  /\ Disturb
  /\ Claimants(rows, ip) # {}
  /\ rows' = [c \in Claims |->
       IF c[2] # ip THEN rows[c]
       ELSE IF c[3] # kind THEN 0
       ELSE Capped(rows[<<c[1], ip, "dhcp">>] + rows[<<c[1], ip, "static">>])]
  /\ UNCHANGED <<mac, host, sweep, conflicts, alerted, excused>>

(* The user deletes the device; its interface and addresses go with it. *)
Delete(i) ==
  /\ Disturb
  /\ i \notin Free
  /\ mac' = [mac EXCEPT ![i] = "free"]
  /\ rows' = [c \in Claims |-> IF c[1] = i THEN 0 ELSE rows[c]]
  /\ excused' = excused \cup {i}
  /\ UNCHANGED <<host, sweep, conflicts, alerted>>

(* netis restarts: what RunSubnet and the conflict tracker remembered is lost. *)
Restart ==
  /\ Disturb
  /\ SweepOver
  /\ conflicts' = {} /\ alerted' = {}
  /\ UNCHANGED <<inventory, host>>

(* The error of FindIfaceByMAC is discarded: the interface counts as unknown,
   and createUnknown will fail on its MAC. *)
LookUpFails ==
  /\ Disturb
  /\ Unmatched /\ result[cursor] \in Macs
  /\ Goto("create")
  /\ excused' = excused \cup WithMac(result[cursor])
  /\ UNCHANGED <<inventory, host, result, known, knownMac, seen, mover, misses, conflicts, alerted>>

(* A write of the sweep fails.  Assign's and Retire's errors are discarded and
   the interface counts as seen; createUnknown's leaves nobody seen. *)
WriteFails ==
  /\ Disturb
  /\ \/ step = "assign" /\ Goto("retire") /\ UNCHANGED <<seen, mover>>
     \/ step = "retire" /\ NextIP /\ seen' = seen \cup {mover} /\ mover' = AnyIface
     \/ step = "create" /\ NextIP /\ UNCHANGED <<seen, mover>>
  /\ UNCHANGED <<inventory, host, result, known, knownMac, misses, conflicts, alerted, excused>>

(* ListSubnetIfaceIPs or ConflictingIPs fails: the sweep ends there. *)
ReadFails ==
  /\ Disturb
  /\ step \in {"list", "check"}
  /\ SweepOver
  /\ UNCHANGED <<inventory, host, conflicts, alerted>>

-----------------------------------------------------------------------------
SweepStep ==
  \/ Probe \/ List \/ Skip \/ (\E i \in Ifaces : Credit(i)) \/ LookUp
  \/ Assign \/ Retire \/ Create \/ CloseLoop \/ Check

Environment ==
  \/ ProbeBadly \/ LookUpFails \/ WriteFails \/ ReadFails \/ Restart
  \/ \E m \in Macs : \E to \in Places : Move(m, to)
  \/ \E m \in Macs, ip \in IPs, kind \in Kinds : ApplyEntry(m, ip, kind)
  \/ \E ip \in IPs, kind \in Kinds : SetKind(ip, kind)
  \/ \E i \in Ifaces : Delete(i)

Next == SweepStep \/ Environment

Safety == Init /\ [][Next]_vars

(* The scheduler sweeps a listed subnet again and again (Scheduler's
   PeriodicSweeps), and a sweep under way goes on. *)
Spec == Safety /\ WF_vars(SweepStep)

-----------------------------------------------------------------------------
(* Properties *)

MacAnswered(i) ==
  \E ip \in IPs : /\ result[ip] \in Macs /\ knownMac[i] = result[ip]
                 /\ \A j \in Claimants(known, ip) : knownMac[j] # NoMac

NothingProbed(i) == \A ip \in IPs : Holds(known, i, ip) => result[ip] = "error"

(* engine.go:120-121, 136-157: no sweep counts a miss against an interface whose
   MAC answered it, at whatever address and whoever else claims that address,
   unless the lookup of that MAC failed, nor against one none of whose addresses
   could be probed.  (An interface
   without a MAC takes the credit for any answer at its address, so answers
   there prove nothing about others.) *)
MissIsDeserved ==
  step = "check" =>
    \A i \in Ifaces \ excused : MacAnswered(i) \/ NothingProbed(i) => misses[i] = 0

(* engine.go:132-136, 161-163: an interface all of whose addresses were silent or
   answered by another machine, and whose MAC answered nowhere, is missed: the
   newcomer at its address does not keep it online. *)
SilentIsMissed ==
  step = "check" =>
    \A i \in Ifaces \ excused :
      (/\ \E ip \in IPs : Holds(known, i, ip)
       /\ \A ip \in IPs : Holds(known, i, ip) =>
            result[ip] = "dead" \/ (result[ip] \in Macs \ {knownMac[i]} /\ knownMac[i] # NoMac)
       /\ \A ip \in IPs : result[ip] \in Macs => result[ip] # knownMac[i])
      => misses[i] > 0

(* device.go:269-270: a sweep never removes a static address, whatever its
   owner, and wherever the host has moved. *)
StaticSurvivesSweeps ==
  [][SweepStep => \A i \in Ifaces, ip \in IPs :
       rows[<<i, ip, "static">>] <= rows'[<<i, ip, "static">>]]_vars

(* conflict.go:13-17, 21: the tracker holds exactly the conflicts announced and
   not found clear since, so that a standing conflict is announced once and one
   that returns is announced again. *)
TrackerIsAnnounced == conflicts = alerted

(* Once the network and the other writers leave it alone, every host that
   answers and is alone at its addresses ends up as an interface with its MAC
   that is seen by every sweep and claims one of them, whatever the history of
   moves, swaps, stale and duplicate claims, edits in mid-sweep and misread
   probes; unless interfaces without a MAC claim the addresses (or the model has
   no interface id left for it).  A host with two addresses is moved from one to
   the other by each sweep and back. *)
Converged ==
  step = "check" =>
    \A m \in Macs :
      (/\ host[m] # {}
       /\ \A n \in Macs \ {m} : host[n] \cap host[m] = {}
       /\ \A ip \in host[m] : \A j \in Claimants(known, ip) : knownMac[j] # NoMac
       /\ WithMac(m) # {} \/ Free # {})
      => \E i \in WithMac(m) \cap seen : \E ip \in host[m] : Holds(rows, i, ip)

Converges == <>[]Converged

(* docs/discovery.md:17-18 counts missed sweeps: one sweep, at most one miss. *)
OneMissPerSweep == \A i \in Ifaces : misses[i] <= 1

(* engine.go:144, "known device moved to a new IP": the interface ip_changed is
   announced for did not claim the address already when the sweep listed them. *)
MovedToNewAddress == step = "assign" => ~Holds(known, mover, cursor)
=============================================================================
