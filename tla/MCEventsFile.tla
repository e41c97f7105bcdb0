---------------------------- MODULE MCEventsFile ----------------------------
(***************************************************************************)
(* A small instance of EventsFile: two processes that append to the one    *)
(* file of unattributed/ at once.                                          *)
(***************************************************************************)
EXTENDS EventsFile

=============================================================================
