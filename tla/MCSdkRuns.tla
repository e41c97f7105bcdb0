----------------------------- MODULE MCSdkRuns -----------------------------
(***************************************************************************)
(* A small instance of SdkRuns: two tasks, two runs and two transports.    *)
(***************************************************************************)
EXTENDS SdkRuns

CONSTANTS c1, c2, http, httpx

TwoTransports == <<http, httpx>>

=============================================================================
