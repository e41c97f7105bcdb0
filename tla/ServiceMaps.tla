---------------------------- MODULE ServiceMaps ----------------------------
(***************************************************************************)
(* The service maps from the shipped files to a request: how a list of     *)
(* maps is checked, overridden and given targets, what a request is        *)
(* classified as, and who answers it.  A host is a sequence of labels,     *)
(* last label first, so that a wildcard host is a proper prefix; a path is *)
(* a sequence of segments, and Hole a `{name}` segment of a route's path.  *)
(***************************************************************************)
EXTENDS Integers, Sequences, FiniteSets, SequencesExt, FiniteSetsExt

CONSTANTS
    Shipped,    \* the lists of maps an installation may ship
    Overrides,  \* the documents an overrides file may hold
    Flags,      \* the --target and --target-reads flags of a command
    Allowed,    \* the hosts --allow-remote-target may name
    CredentialPathHosts, \* whose paths are credentials, in every map
    Requests    \* what the agent may send: host, method and path

Kinds == {"read", "write", "llm", "telemetry", "unknown"}
NoKind == "none"  \* no default kind: it is left to the method

Targets == STRING \ {"live", "irimi"}  \* hosts, and Self and Loopback

\* A field an override or a flag need not have.
Optional(S) == {s \in Seq(S) : Len(s) <= 1}

RouteShape ==
    [method : STRING, path : Seq(STRING), kind : Kinds, keys : SUBSET STRING,
     target : Targets, forward_auth : BOOLEAN]
HostShape ==
    {h \in [labels : Seq(STRING), wild : BOOLEAN, credential : BOOLEAN] : h.wild => ~h.credential}
MapShape ==
    [service : STRING, hosts : SUBSET HostShape, style : {"rest", "rpc"},
     default_kind : Kinds \cup {NoKind}, target : Targets, target_reads : BOOLEAN,
     routes : Seq(RouteShape)]
RouteOverrideShape ==
    [method : STRING, path : Seq(STRING), target : Optional(Targets), forward_auth : Optional(BOOLEAN)]
OverrideShape ==
    [service : STRING, target : Optional(Targets), target_reads : Optional(BOOLEAN),
     routes : Seq(RouteOverrideShape)]
FlagShape == [host : Seq(STRING), path : Seq(STRING), target : Optional(Targets), reads : BOOLEAN]

\* What the parser lets through (loader.py).
ASSUME MapsAssumption ==
    /\ Shipped \subseteq Seq(MapShape)
    /\ Overrides \subseteq OverrideShape
    /\ Flags \subseteq FlagShape
    /\ Requests \subseteq [host : Seq(STRING), method : STRING, path : Seq(STRING)]

VARIABLES
    stage,      \* how far `load` is
    maps,       \* the maps as merged so far
    allow,      \* allow_target_hosts
    sent        \* the request decided last: its classification and who answers

mapVars == <<stage, maps, allow, sent>>

LiveKinds == {"read", "llm", "telemetry"}
TargetableKinds == {"write", "unknown"}
ComparedKinds == TargetableKinds \cup {"llm"}
SafeMethods == {"GET", "HEAD", "OPTIONS"}
DestructiveMethods == {"DELETE", "PUT", "PATCH"}
AnyMethod == "*"
Self == "self"         \* no target: irimi answers
Loopback == "loopback" \* any loopback host
Hole == "{}"

-----------------------------------------------------------------------------
(* Matching (servicemaps/model.py).                                         *)

Claims(sm, host) ==
    {h \in sm.hosts : IF h.wild THEN h.labels # host /\ IsPrefix(h.labels, host) ELSE h.labels = host}

\* The longest pattern wins, and an exact host is longer than any pattern of it.
Weight(h) == Len(h.labels)

ServiceFor(host) ==
    {sm \in ToSet(maps) :
        \E h \in Claims(sm, host) :
            \A other \in ToSet(maps) : \A g \in Claims(other, host) : Weight(g) <= Weight(h)}

MatchPath(pattern, path) ==
    /\ Len(pattern) = Len(path)
    /\ \A i \in DOMAIN path : pattern[i] \in {Hole, path[i]}

Holes(pattern) == Cardinality({i \in DOMAIN pattern : pattern[i] = Hole})

\* The positions of the routes that answer a method and a path.
Matching(sm, method, path) ==
    {i \in DOMAIN sm.routes : /\ sm.routes[i].method \in {AnyMethod, method}
                              /\ MatchPath(sm.routes[i].path, path)}

\* The fewest holes, first in file order.
MatchRoute(sm, method, path) ==
    {sm.routes[i] : i \in {j \in Matching(sm, method, path) :
        \A k \in Matching(sm, method, path) :
            \/ Holes(sm.routes[j].path) < Holes(sm.routes[k].path)
            \/ Holes(sm.routes[j].path) = Holes(sm.routes[k].path) /\ j <= k}}

ServiceTargetFor(sm, kind) ==
    IF kind \in TargetableKinds \/ (kind = "read" /\ sm.target_reads) THEN sm.target ELSE Self

TargetFor(sm, route) == IF route.target # Self THEN route.target ELSE ServiceTargetFor(sm, route.kind)

-----------------------------------------------------------------------------
(* The rules (servicemaps/rules.py).                                        *)

\* Mutant: any method but `*` may be named by a live route, whatever it does.
CheckLiveKindNamed(route) == route.kind \in LiveKinds => route.method # AnyMethod

\* A live route names its method, and one that destroys says why it is live.
CheckLiveKindMethods(route) ==
    route.kind \in LiveKinds =>
        /\ route.method # AnyMethod
        /\ route.method \in DestructiveMethods => "live_because" \in route.keys

CheckRouteRules(sm) ==
    \A i \in DOMAIN sm.routes :
        LET route == sm.routes[i] IN
        /\ \A j \in DOMAIN sm.routes :
               <<sm.routes[j].method, sm.routes[j].path>> = <<route.method, route.path>> => i = j
        /\ "live_because" \in route.keys => route.kind \in LiveKinds
        /\ "compare_ignores" \in route.keys => route.kind \in ComparedKinds
        /\ route.keys \cap {"fixture", "precondition", "fires"} # {} => route.kind \notin LiveKinds
        /\ CheckLiveKindMethods(route)
        /\ sm.style = "rest" /\ route.kind = "read" /\ route.method \notin SafeMethods =>
               "live_because" \in route.keys

CheckUnique ==
    \A i, j \in DOMAIN maps :
        i # j =>
            /\ maps[i].service # maps[j].service
            /\ \A g \in maps[i].hosts, h \in maps[j].hosts : <<g.labels, g.wild>> # <<h.labels, h.wild>>

\* No live kind is a service's default.
ParseDefaultKind(sm) == sm.default_kind \notin LiveKinds

CheckTargetHost(target) == target \in {Self, Loopback} \cup allow

\* The built-in ones and the map's own.
CredentialHosts(sm) == CredentialPathHosts \cup {h.labels : h \in {g \in sm.hosts : g.credential}}

CheckCredentialPathTargets(sm) ==
    (\E h \in sm.hosts : ~h.wild /\ h.labels \in CredentialHosts(sm)) =>
        /\ sm.target \in {Self, Loopback}
        /\ \A route \in ToSet(sm.routes) : TargetFor(sm, route) \in {Self, Loopback}

ValidateTargets(sm) ==
    /\ sm.target_reads => sm.target # Self
    /\ CheckTargetHost(sm.target)
    /\ \A route \in ToSet(sm.routes) :
           /\ route.target # Self => route.kind \in TargetableKinds
           /\ route.forward_auth => TargetFor(sm, route) # Self
           /\ CheckTargetHost(route.target)
    /\ CheckCredentialPathTargets(sm)

-----------------------------------------------------------------------------
(* Loading (servicemaps/loader.py).                                         *)

MapsInit ==
    /\ stage = "read"
    /\ maps \in Shipped
    /\ allow \in Allowed
    /\ sent = <<>>

Refuse(at) ==
    /\ stage = at
    /\ stage' = "refused"
    /\ UNCHANGED <<maps, allow, sent>>

ParsesAll == maps # <<>> /\ CheckUnique /\ \A sm \in ToSet(maps) : ParseDefaultKind(sm) /\ CheckRouteRules(sm)

LoadShipped ==
    /\ stage = "read" /\ ParsesAll
    /\ stage' = "shipped"
    /\ UNCHANGED <<maps, allow, sent>>

\* An override may set a service's target and target_reads, and a route's target
\* and forward_auth, of a service and a route that exist.
Given(value, base) == IF value = <<>> THEN base ELSE value[1]

SameRoute(a, b) == a.method = b.method /\ a.path = b.path

\* What the last entry to name a field says of it.
LastSaid(said, base) ==
    LET named == {i \in DOMAIN said : said[i] # <<>>}
    IN IF named = {} THEN base ELSE said[Max(named)][1]

OverrideRoute(route, o) ==
    LET entries == {i \in DOMAIN o.routes : SameRoute(o.routes[i], route)}
    IN [route EXCEPT
           !.target = LastSaid([i \in entries |-> o.routes[i].target], @),
           !.forward_auth = LastSaid([i \in entries |-> o.routes[i].forward_auth], @)]

OverrideApplies(o) ==
    /\ \E sm \in ToSet(maps) : sm.service = o.service
    /\ \A sm \in ToSet(maps) : sm.service = o.service =>
           \A r \in ToSet(o.routes) :
               \E route \in ToSet(sm.routes) : SameRoute(route, r)

Overridden(sm, o) ==
    [sm EXCEPT !.routes = [i \in DOMAIN @ |-> OverrideRoute(@[i], o)],
               !.target = Given(o.target, @),
               !.target_reads = Given(o.target_reads, @)]

ApplyOverrides(o) ==
    /\ stage = "shipped" /\ OverrideApplies(o)
    /\ maps' = [i \in DOMAIN maps |-> IF maps[i].service = o.service THEN Overridden(maps[i], o) ELSE maps[i]]
    /\ UNCHANGED <<stage, allow, sent>>

OverridesDone ==
    /\ stage = "shipped"
    /\ stage' = "overridden"
    /\ UNCHANGED <<maps, allow, sent>>

\* --target sets the service's, or that of every write and unknown route the path
\* names, verbatim or by matching it; --target-reads has no target.
NamesRoute(route, path) == route.path = path \/ MatchPath(route.path, path)

Hits(sm, path) ==
    {i \in DOMAIN sm.routes : sm.routes[i].kind \in TargetableKinds /\ NamesRoute(sm.routes[i], path)}

TargetedRoutes(sm, f) ==
    [i \in DOMAIN sm.routes |->
        IF i \in Hits(sm, f.path) THEN [sm.routes[i] EXCEPT !.target = Given(f.target, @)]
        ELSE sm.routes[i]]

Targeted(sm, f) ==
    IF f.path = <<>> THEN [sm EXCEPT !.target = Given(f.target, @), !.target_reads = @ \/ f.reads]
    ELSE [sm EXCEPT !.routes = TargetedRoutes(sm, f), !.target_reads = @ \/ f.reads]

FlagApplies(f) ==
    /\ ServiceFor(f.host) # {}
    /\ \A sm \in ServiceFor(f.host) : f.path # <<>> => Hits(sm, f.path) # {}

ApplyCliTargets(f) ==
    /\ stage = "overridden" /\ FlagApplies(f)
    /\ maps' = [i \in DOMAIN maps |-> IF maps[i] \in ServiceFor(f.host) THEN Targeted(maps[i], f) ELSE maps[i]]
    /\ UNCHANGED <<stage, allow, sent>>

FlagsDone ==
    /\ stage = "overridden"
    /\ stage' = "merged"
    /\ UNCHANGED <<maps, allow, sent>>

Validated == \A sm \in ToSet(maps) : ValidateTargets(sm)

Validate ==
    /\ stage = "merged" /\ Validated
    /\ stage' = "serving"
    /\ UNCHANGED <<maps, allow, sent>>

-----------------------------------------------------------------------------
(* Deciding (servicemaps/classify.py, decide/targets.py, decide/policy.py).  *)

\* The scope rule again: a live kind on an unsafe method its route did not name.
ApplyScopeRule(kind, method, routes) ==
    IF /\ kind \in LiveKinds /\ method \notin SafeMethods
       /\ \A route \in routes : route.method # method
    THEN "unknown"
    ELSE kind

ByMethod(method) == IF method \in SafeMethods THEN "read" ELSE "unknown"

KindOf(sms, routes, method) ==
    CASE routes # {} -> (CHOOSE route \in routes : TRUE).kind
      [] routes = {} /\ \E sm \in sms : sm.default_kind # NoKind ->
             (CHOOSE sm \in sms : TRUE).default_kind
      [] OTHER -> ByMethod(method)

RoutesFor(sms, r) == UNION {MatchRoute(sm, r.method, r.path) : sm \in sms}

Classify(r) ==
    LET sms    == ServiceFor(r.host)
        routes == RoutesFor(sms, r)
    IN [services |-> sms, routes |-> routes,
        kind |-> ApplyScopeRule(KindOf(sms, routes, r.method), r.method, routes)]

\* An unmatched request still goes to the service's target.
TargetOf(sm, c) ==
    IF c.routes = {} THEN ServiceTargetFor(sm, c.kind)
    ELSE TargetFor(sm, CHOOSE route \in c.routes : TRUE)

\* The scope rule again: every path of a credential host is a credential.
Resolve(r, c) ==
    IF c.services = {} THEN Self
    ELSE LET sm     == CHOOSE s \in c.services : TRUE
             target == TargetOf(sm, c)
         IN IF r.host \in CredentialHosts(sm) /\ target # Loopback THEN Self ELSE target

\* ShadowPolicy.decide: a target answers, a live kind is forwarded, irimi answers.
Answerer(target, kind) ==
    CASE target # Self -> target
      [] target = Self /\ kind \in LiveKinds -> "live"
      [] OTHER -> "irimi"

Decide(r) ==
    LET c == Classify(r)
    IN /\ stage = "serving" /\ sent = <<>> \* no request bears on another
       /\ sent' = [request |-> r, kind |-> c.kind, routes |-> c.routes, services |-> c.services,
                   by |-> Answerer(Resolve(r, c), c.kind)]
       /\ UNCHANGED <<stage, maps, allow>>

MapsNext ==
    \/ LoadShipped
    \/ ~ParsesAll /\ Refuse("read")
    \/ \E o \in Overrides : ApplyOverrides(o)
    \/ \E o \in Overrides : ~OverrideApplies(o) /\ Refuse("shipped")
    \/ OverridesDone
    \/ \E f \in Flags : ApplyCliTargets(f)
    \/ \E f \in Flags : ~FlagApplies(f) /\ Refuse("overridden")
    \/ FlagsDone
    \/ Validate
    \/ ~Validated /\ Refuse("merged")
    \/ \E r \in Requests : Decide(r)

-----------------------------------------------------------------------------

Decided == sent # <<>>

\* Whatever a map, an override or a flag says, a request that is forwarded to the
\* real service either has a safe method or matched a route that names exactly its
\* method, and says why when that method destroys (rules.py:23 "no classification
\* that forwards live may apply to an unsafe method it did not name").
LiveOnlyAsNamed ==
    Decided /\ sent.by = "live" /\ sent.request.method \notin SafeMethods =>
        \E route \in sent.routes :
            /\ route.method = sent.request.method /\ route.kind \in LiveKinds
            /\ route.method \in DestructiveMethods => "live_because" \in route.keys

\* A target off this machine answers only if it was allowed, and never a request
\* to a host whose path is a credential, also if only a wildcard claims that; and a
\* service with a target and no target of a route's own is not half irimi: every
\* other write and unknown request to it goes to that target, listed or not
\* (decide/targets.py:82).
TargetsAnswerTheirService ==
    Decided =>
        /\ sent.by \notin {"live", "irimi", Loopback} => sent.by \in allow
        /\ \A sm \in sent.services :
               /\ sent.request.host \in CredentialHosts(sm) => sent.by \in {"live", "irimi", Loopback}
               /\ /\ sm.target # Self
                  /\ sent.request.host \in CredentialHosts(sm) => sm.target = Loopback
                  /\ \A route \in ToSet(sm.routes) : route.target = Self
                  => /\ sent.kind \in TargetableKinds => sent.by = sm.target
                     /\ sent.kind = "read" => sent.by = IF sm.target_reads THEN sm.target ELSE "live"

\* Every request is answered by whom the maps, overrides and flags allow: the real
\* service only for what a map names, a target for all of its service's.
AnsweredAsMapped == LiveOnlyAsNamed /\ TargetsAnswerTheirService

=============================================================================
