---------------------------- MODULE MCPresence ----------------------------
(* Presence on small instances: the constants are in the two .cfg files. *)
EXTENDS Presence
=============================================================================
