-------------------------------- MODULE MCSync --------------------------------
(* Small instances of Sync; peers are interchangeable where none is a laggard. *)
EXTENDS Sync
=============================================================================
