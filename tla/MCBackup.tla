-------------------------------- MODULE MCBackup --------------------------------
(* The instance of Backup. *)
EXTENDS Backup
=============================================================================
