--------------------------- MODULE RouteTranslate ---------------------------
(***************************************************************************)
(* How the policy generator turns the listeners a gateway serves, and the  *)
(* routes admitted to them, into frontends with rules (gateway/nginx).     *)
(*                                                                         *)
(* A pointer of the code is a sequence of at most one element: <<>> is nil.*)
(* A name is the sequence of its parts, each a number that keeps their     *)
(* alphabetical order, so a joined string is a concatenation.  A served    *)
(* listener is [gw, name, port, protocol, host, cert, routes]; a route is  *)
(* [kind, name, hosts, rules] and a rule of a route is [matches, refs,     *)
(* redirect].  A match is [path, query, headers, method], whose terms have *)
(* a match type and a value length.  An attached timeout policy is         *)
(* [kind, name, default, override].                                        *)
(***************************************************************************)
EXTENDS GatewayRules, SequencesExt

Nil == <<>>

(* The record every rule of a load balancer is, with nothing set.          *)
EmptyRule ==
    [id |-> Nil, prio |-> 0, matcher |-> TRUE, dslx |-> <<>>,
     domain |-> <<>>, cert |-> Nil, svcs |-> <<>>, source |-> Nil,
     timeout |-> Nil, auth |-> Nil, otel |-> Nil, waf |-> Nil,
     redirect |-> Nil, src |-> Nil, backends |-> <<>>, proto |-> "auto"]

EmptyFrontend ==
    [alb |-> Nil, name |-> Nil, port |-> 0, protocol |-> "tcp",
     rules |-> {}, cert |-> Nil, svcs |-> <<>>, group |-> Nil,
     backends |-> Nil, timeout |-> Nil, redirect |-> Nil,
     keepalive |-> FALSE, conflict |-> FALSE]

ToOP(type) ==
    CASE type \in {"nil", "Exact"} -> <<"EQ">>
      [] type = "PathPrefix" -> <<"STARTS_WITH">>
      [] type = "RegularExpression" -> <<"REGEX">>
      [] OTHER -> Nil

(* One bad reference spoils the whole list.                                *)
BackendRefsToService(refs) ==
    IF \A i \in DOMAIN refs : refs[i].ok
    THEN <<[i \in DOMAIN refs |-> refs[i].svc]>>
    ELSE Nil

(* An empty intersection falls back to the hosts of the route.             *)
JoinHostnames(host, hosts) ==
    CASE host = <<>> -> hosts
      [] host # <<>> /\ hosts = {} -> {host}
      [] OTHER -> LET both == FindIntersection(host, hosts)
                  IN  IF both = {} THEN hosts ELSE both

Term(type, ops) == [type |-> type, values |-> ops]
Value(op, size) == [op |-> op, size |-> size, args |-> 1]

HostTerm(hosts) ==
    CASE hosts = {} -> <<>>
      [] \E h \in hosts : hosts = {h} /\ HasPrefixStar(h) ->
            <<Term("HOST", <<Value("ENDS_WITH", 1)>>)>>
      [] OTHER -> <<Term("HOST", <<Value("IN", Cardinality(hosts))>>)>>

(* Nil when a match type of the query, the path or a header is unknown.    *)
HttpRuleMatchToDSLX(hosts, m) ==
    LET Terms(type, ts) ==
            [i \in DOMAIN ts |->
                Term(type, <<Value(ToOP(ts[i].type)[1], ts[i].size)>>)]
        known == \A t \in Range(m.query \o m.path \o m.headers) :
                    ToOP(t.type) # Nil
    IN  IF ~known THEN Nil
        ELSE <<HostTerm(hosts) \o Terms("PARAM", m.query)
               \o Terms("URL", m.path) \o Terms("HEADER", m.headers)
               \o Terms("METHOD", m.method)>>

DefaultMatch == [path |-> <<[type |-> "PathPrefix", size |-> 1]>>,
                 query |-> <<>>, headers |-> <<>>, method |-> <<>>]

PatchHttpRouteDefaultMatch(rule) ==
    IF rule.matches = <<>> THEN <<DefaultMatch>> ELSE rule.matches

GenRuleIdViaCtx(l, route, i, j) ==
    <<l.port>> \o l.gw \o l.name \o route.name \o <<i, j>>

(* The annotation is returned only when it cannot be parsed, and then the  *)
(* parsed number is zero.                                                  *)
GetRulePriority(route) == 0

(* policyattachment: the policies attached to the gateway and to the route,*)
(* weakest first: the defaults of the gateway, of the route, the overrides *)
(* of the route, of the gateway.                                           *)
GetConfigList(attached, l, route) ==
    LET On(kind, name) == {p \in attached : p.kind = kind /\ p.name = name}
        gw == On("Gateway", l.gw)
        rt == {p \in attached : p.kind \in SupportKindSet
                                /\ p.name = route.name}
        One(ps, f) == IF ps = {} THEN <<>> ELSE (CHOOSE p \in ps : TRUE)[f]
    IN  One(gw, "default") \o One(rt, "default")
        \o One(rt, "override") \o One(gw, "override")

(* Later entries replace the keys earlier ones set.                        *)
GetConfig(list) ==
    IF list = <<>> THEN Nil
    ELSE <<FoldLeft(LAMBDA acc, c : c @@ acc, list[1], list)>>

TimeoutOnRule(attached, l, route) == GetConfig(GetConfigList(attached, l, route))

ApplyRedirectFilter(rule) == rule.redirect

(* One rule per match; Nil when its match or its backends are invalid.     *)
GenerateHttpRule(l, route, i, j, attached) ==
    LET rule == route.rules[i]
        dslx == HttpRuleMatchToDSLX(JoinHostnames(l.host, route.hosts),
                                    PatchHttpRouteDefaultMatch(rule)[j])
        svcs == BackendRefsToService(rule.refs)
    IN  IF dslx = Nil \/ svcs = Nil THEN Nil
        ELSE <<[EmptyRule EXCEPT
                  !.id = GenRuleIdViaCtx(l, route, i, j),
                  !.prio = GetRulePriority(route),
                  !.dslx = dslx[1], !.svcs = svcs[1],
                  !.timeout = TimeoutOnRule(attached, l, route),
                  !.redirect = ApplyRedirectFilter(rule)]>>

(* getCert: a listener without a certificate or a host has no https rule.  *)
GenerateHttpsRule(l, route, i, j, attached) ==
    LET rule == GenerateHttpRule(l, route, i, j, attached)
    IN  IF rule = Nil \/ l.cert = Nil \/ l.host = <<>> THEN Nil
        ELSE <<[rule[1] EXCEPT !.domain = l.host, !.cert = l.cert]>>

(* Every listener, route, rule and match, flattened.                       *)
IterHttpListener(lss) ==
    UNION {UNION {UNION {
        {<<l, r, i, j>> : j \in DOMAIN PatchHttpRouteDefaultMatch(r.rules[i])} :
            i \in DOMAIN r.rules} :
            r \in {q \in Range(l.routes) : q.kind = "HTTPRoute"}} : l \in lss}

GroupListenerByProtocol(lss, protocol, port) ==
    {l \in Range(lss) : l.protocol = protocol /\ l.port = port}

PortsOf(lss) == {l.port : l \in Range(lss)}

(* A port whose routes give no rule has no frontend.                       *)
TranslateHttp(lss, attached) ==
    {ft \in {[EmptyFrontend EXCEPT
                !.port = port, !.protocol = "http",
                !.rules = UNION {Range(GenerateHttpRule(c[1], c[2], c[3], c[4],
                                                        attached)) :
                    c \in IterHttpListener(
                            GroupListenerByProtocol(lss, "HTTP", port))}] :
              port \in PortsOf(lss)} : ft.rules # {}}

TranslateHttps(lss, attached) ==
    {ft \in {[EmptyFrontend EXCEPT
                !.port = port, !.protocol = "https",
                !.rules = UNION {Range(GenerateHttpsRule(c[1], c[2], c[3], c[4],
                                                         attached)) :
                    c \in IterHttpListener(
                            GroupListenerByProtocol(lss, "HTTPS", port))}] :
              port \in PortsOf(lss)} : ft.rules # {}}

(* A tcp listener is translated when it has exactly one route, a TCPRoute  *)
(* of one rule; the others are passed over.                                *)
TcpFits(l) ==
    /\ l.protocol = "TCP"
    /\ Len(l.routes) = 1
    /\ l.routes[1].kind = "TCPRoute"
    /\ Len(l.routes[1].rules) = 1

TcpFrontend(l, attached) ==
    LET route == l.routes[1]
    IN  [EmptyFrontend EXCEPT
           !.port = l.port, !.protocol = "tcp",
           !.rules = {[EmptyRule EXCEPT
                         !.id = <<l.port>> \o route.name,
                         !.svcs = BackendRefsToService(route.rules[1].refs)[1],
                         !.timeout = TimeoutOnRule(attached, l, route)]}]

(* Mutated form: a listener without a fitting route ends the translation.  *)
TransLateTcpStops(lss, attached) ==
    LET bad == {i \in DOMAIN lss : ~TcpFits(lss[i])}
        done == {i \in DOMAIN lss : \A b \in bad : i < b}
    IN  {TcpFrontend(lss[i], attached) : i \in done}

(* Backends that cannot be resolved end the translation of the listeners   *)
(* that follow; of two listeners of a port the last one stays.             *)
TransLateTcp(lss, attached) ==
    LET fits == {i \in DOMAIN lss : TcpFits(lss[i])}
        bad == {i \in fits :
                  BackendRefsToService(lss[i].routes[1].rules[1].refs) = Nil}
        done == {i \in fits : \A b \in bad : i < b}
        last == {i \in done : \A k \in done :
                                lss[k].port = lss[i].port => k <= i}
    IN  {TcpFrontend(lss[i], attached) : i \in last}

(* The routes of all udp listeners of a port count together.               *)
UdpRoutes(lss, port) ==
    UNION {{<<l.name, r>> : r \in {q \in Range(l.routes) : q.kind = "UDPRoute"}} :
             l \in GroupListenerByProtocol(lss, "UDP", port)}

TransLateUdp(lss) ==
    LET Route(p) == (CHOOSE u \in UdpRoutes(lss, p) : TRUE)[2]
        fits == {p \in PortsOf(lss) :
                    /\ Cardinality(UdpRoutes(lss, p)) = 1
                    /\ Len(Route(p).rules) = 1
                    /\ BackendRefsToService(Route(p).rules[1].refs) # Nil}
    IN  {[EmptyFrontend EXCEPT
            !.port = p, !.protocol = "udp",
            !.svcs = BackendRefsToService(Route(p).rules[1].refs)[1],
            !.group = <<p>> \o Route(p).name] : p \in fits}

(* gateway/nginx GetLBConfig: the listeners of the metrics and reserved    *)
(* ports are left out, the rest is translated protocol by protocol.        *)
GatewayFrontends(all, attached) ==
    LET lss == SelectSeq(all, ReservedPortFilter)
    IN  TranslateHttp(lss, attached) \cup TranslateHttps(lss, attached)
        \cup TransLateTcp(lss, attached) \cup TransLateUdp(lss)
=============================================================================
