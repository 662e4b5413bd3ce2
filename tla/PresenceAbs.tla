---------------------------- MODULE PresenceAbs ----------------------------
(***************************************************************************)
(* What the presence tracking of netis promises, whatever statements it is *)
(* made of: an interface is online, offline or never seen, and every       *)
(* change between online and offline is one caller's: it owes the event    *)
(* for it, or has an error in its hands in place of the answer and the     *)
(* event is lost.  A debt is settled once (the event is written, its write *)
(* failed, the error is dealt with); it is never copied to a second caller,    *)
(* never made without a change, and no change is made without one.         *)
(* status.go:8-18 and 46-50 state this contract.                           *)
(***************************************************************************)
CONSTANTS
  Ifaces,    \* interfaces
  Callers    \* goroutines that record sightings: subnet sweeps, WireGuard sync

VARIABLES
  status,    \* [Ifaces -> "none", "online" or "offline"]
  owing      \* [Callers -> the event a caller has still to emit, an error, or Nothing]

vars == <<status, owing>>

Nothing == <<>>
Owe(i, what) == <<i, what>>

Init ==
  /\ status = [i \in Ifaces |-> "none"]
  /\ owing = [c \in Callers |-> Nothing]

(* c created the interface; it owes device_new, which also covers the first *)
(* sighting.                                                                *)
Discover(c, i) ==
  /\ owing[c] = Nothing
  /\ owing' = [owing EXCEPT ![c] = Owe(i, "new")]
  /\ UNCHANGED status

FirstSighting(c, i) ==
  /\ owing[c] = Owe(i, "new")
  /\ status[i] # "online"
  /\ status' = [status EXCEPT ![i] = "online"]
  /\ UNCHANGED owing

ComeOnline(c, i) ==
  /\ owing[c] = Nothing
  /\ status[i] # "online"
  /\ status' = [status EXCEPT ![i] = "online"]
  /\ \E what \in {"online", "error"} : owing' = [owing EXCEPT ![c] = Owe(i, what)]

GoOffline(c, i) ==
  /\ owing[c] = Nothing
  /\ status[i] = "online"
  /\ status' = [status EXCEPT ![i] = "offline"]
  /\ \E what \in {"offline", "error"} : owing' = [owing EXCEPT ![c] = Owe(i, what)]

(* The event is written, its write fails, or the error is dealt with. *)
Settle(c) ==
  /\ owing[c] # Nothing
  /\ owing' = [owing EXCEPT ![c] = Nothing]
  /\ UNCHANGED status

(* The interface is deleted; what is owed about it stays owed. *)
Forget(i) ==
  /\ status[i] # "none"
  /\ status' = [status EXCEPT ![i] = "none"]
  /\ UNCHANGED owing

Next ==
  \/ \E c \in Callers : \E i \in Ifaces :
       Discover(c, i) \/ FirstSighting(c, i) \/ ComeOnline(c, i) \/ GoOffline(c, i)
  \/ \E c \in Callers : Settle(c)
  \/ \E i \in Ifaces : Forget(i)

Safety == Init /\ [][Next]_vars

Spec == Safety /\ \A c \in Callers : WF_vars(Settle(c))
=============================================================================
