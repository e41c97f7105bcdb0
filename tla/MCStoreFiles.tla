---------------------------- MODULE MCStoreFiles ----------------------------
(***************************************************************************)
(* A small instance of StoreFiles: two processes, one after the other, in  *)
(* a run's own file; and one run beside unattributed/, whose lines share   *)
(* bodies.                                                                 *)
(***************************************************************************)
EXTENDS StoreFiles, TLC

CONSTANTS r

=============================================================================
