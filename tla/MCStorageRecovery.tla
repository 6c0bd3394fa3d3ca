-------------------------- MODULE MCStorageRecovery --------------------------
(* Model values for the run of StorageRecovery.                             *)
EXTENDS StorageRecovery

MCVolumes == 1 .. 6

=============================================================================
