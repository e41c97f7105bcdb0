----------------------------- MODULE MCCommands -----------------------------
(***************************************************************************)
(* A small instance of Commands for TLC: every command line, the runs a    *)
(* store can hold, and a command that succeeds, fails or is killed; and    *)
(* the maps of two services, three overrides and four flags.               *)
(***************************************************************************)
EXTENDS Commands

Reported == {0, 1, -15}

\* A command's run, a run that only requests named, and the SDK's: one it could
\* not capture, or only describe, is not replayable.
Stored ==
    {[entrypoint |-> "none", args |-> "nothing", replayable |-> r, argv |-> r] : r \in BOOLEAN}
    \cup {s \in StoredRuns : ~s.argv /\ s.args # "nothing" /\ (s.args = "description" => ~s.replayable)}

-----------------------------------------------------------------------------
(* Maps: one service with one or two routes and a host that may be a         *)
(* credential, and one that claims the rest of the domain, in which a        *)
(* built-in host is.                                                         *)

Api == <<"com", "x", "api">>
Hooks == <<"com", "x", "hooks">>
Other == <<"com", "x", "w">>
Secret == <<"com", "x", "secret">>

BuiltIn == {Secret}

Route(method, path, kind, keys) ==
    [method |-> method, path |-> path, kind |-> kind, keys |-> keys,
     target |-> Self, forward_auth |-> FALSE]

FirstRoutes ==
    {Route(method, path, kind, keys) :
        method \in {"GET", "POST", "DELETE", AnyMethod}, path \in {<<"r">>, <<Hole>>},
        kind \in {"read", "write", "llm"}, keys \in {{}, {"live_because"}, {"fixture"}}}

SecondRoutes == {<<>>, <<Route("POST", <<"r">>, "write", {})>>, <<Route(AnyMethod, <<Hole>>, "unknown", {})>>}

Host(labels, wild, credential) == [labels |-> labels, wild |-> wild, credential |-> credential]

ServiceA ==
    {[service |-> "a", hosts |-> {Host(Api, FALSE, FALSE), Host(Hooks, FALSE, c)}, style |-> style,
      default_kind |-> kind, target |-> Self, target_reads |-> FALSE, routes |-> <<first>> \o second] :
        c \in BOOLEAN, style \in {"rest", "rpc"}, kind \in {NoKind, "read", "write"},
        first \in FirstRoutes, second \in SecondRoutes}

ServiceB ==
    [service |-> "b", hosts |-> {Host(<<"com", "x">>, TRUE, FALSE)}, style |-> "rest",
     default_kind |-> NoKind, target |-> Self, target_reads |-> FALSE,
     routes |-> <<Route("GET", <<Hole>>, "read", {})>>]

\* No maps at all is a damaged installation.
AllShipped == {<<a, ServiceB>> : a \in ServiceA} \cup {<<>>}

Override(target, reads, routes) ==
    [service |-> "a", target |-> target, target_reads |-> reads, routes |-> routes]

RouteOverride(target, auth) ==
    [method |-> "POST", path |-> <<"r">>, target |-> target, forward_auth |-> auth]

AllOverrides ==
    {Override(<<Loopback>>, <<TRUE>>, <<>>),
     Override(<<"far">>, <<>>, <<RouteOverride(<<Self>>, <<>>)>>),
     Override(<<>>, <<>>, <<RouteOverride(<<"far">>, <<TRUE>>), RouteOverride(<<>>, <<FALSE>>)>>)}

Flag(host, path, target, reads) == [host |-> host, path |-> path, target |-> target, reads |-> reads]

AllFlags ==
    {Flag(Hooks, <<>>, <<"far">>, FALSE), Flag(Other, <<>>, <<Loopback>>, TRUE),
     Flag(Api, <<"r">>, <<"far">>, FALSE), Flag(Secret, <<>>, <<"far">>, FALSE)}

AllAllowed == {{}, {"far"}}

AllRequests ==
    [host : {Api, Hooks, Other, Secret, <<"org", "y">>}, method : {"GET", "POST", "DELETE"}, path : {<<"r">>, <<"q">>}]

=============================================================================
