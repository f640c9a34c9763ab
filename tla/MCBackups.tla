----------------------------- MODULE MCBackups -----------------------------
(* The instance of Backups for TLC. *)
EXTENDS Backups

=============================================================================
