-------------------------- MODULE MCShadowSession --------------------------
(***************************************************************************)
(* Small instances of ShadowSession for TLC: two runs that use one key on  *)
(* one object, a second object for a conflicting use of the key, and a     *)
(* request of each kind that is decided differently.                       *)
(***************************************************************************)
EXTENDS ShadowSession, TLC

CONSTANTS r1, r2, k1, o1, o2

Request(run, kind, key, obj, checked, target) ==
    [run |-> run, kind |-> kind, key |-> key, obj |-> obj, checked |-> checked, target |-> target]

Keyed1   == Request(r1, "write", k1, o1, TRUE, FALSE)
Keyed2   == Request(r2, "write", k1, o1, TRUE, FALSE)
OtherUse == Request(r1, "write", k1, o2, FALSE, FALSE)
Unkeyed  == Request(r1, "unknown", NoKey, o1, FALSE, FALSE)
ReadIt   == Request(r1, "read", NoKey, o1, FALSE, FALSE)
Target   == Request(r1, "write", k1, o1, FALSE, TRUE)

MixedRequests == {Keyed1, Keyed2, OtherUse, Unkeyed, ReadIt, Target}
OneRunRequests == {Keyed1, ReadIt}

FlowSymmetry == Permutations(Flows)

=============================================================================
