------------------------------ MODULE MCImports ------------------------------
(* Imports on small instances: see MCImports.cfg and MCImportsMerge.cfg. *)
EXTENDS Imports
=============================================================================
