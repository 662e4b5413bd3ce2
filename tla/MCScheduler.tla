---------------------------- MODULE MCScheduler ----------------------------
(* Scheduler on a small instance.  One subnet is swept on its interval; the   *)
(* other only on request, so that no tick makes up for a lost request, and it *)
(* is deleted and created again at any moment.  SchedulerProofs has the       *)
(* invariants for every table and every edit of it.                           *)
EXTENDS Scheduler

Forms(s) == IF s = AnySubnet THEN {"auto"} ELSE {"manual", "absent"}
Tables == {table \in [Subnets -> Rows] : \A s \in Subnets : table[s] \in Forms(s)}
EditedSpec ==
  Init /\ subnet \in Tables /\ [][Next /\ subnet' \in Tables]_vars /\ Fairness
=============================================================================
