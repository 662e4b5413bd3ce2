------------------------------ MODULE MCBackup ------------------------------
(* Backup on a small instance: two backups kept, four possible names. *)
EXTENDS Backup
=============================================================================
