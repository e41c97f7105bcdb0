----------------------------- MODULE MCServices -----------------------------
(***************************************************************************)
(* A small instance of Services: a channel and a charge.                   *)
(***************************************************************************)
EXTENDS Services

=============================================================================
