------------------------------- MODULE MCFlow -------------------------------
(***************************************************************************)
(* A small instance of Flow: two steps may raise, and a streamed answer    *)
(* has three chunks of one or two bytes under a cap of three.              *)
(***************************************************************************)
EXTENDS Flow

Chunks == {<<"x">>, <<"x", "nl">>}

=============================================================================
