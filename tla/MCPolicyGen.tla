----------------------------- MODULE MCPolicyGen ----------------------------
(***************************************************************************)
(* Small worlds for PolicyGen, in families that each exercise one part of  *)
(* the generation.  A name <<f, i, j, ...>> takes the i-th, j-th, ... of   *)
(* the alternatives of family f; a world changes within its family.        *)
(***************************************************************************)
EXTENDS PolicyGen

(* Services: web has two pods, api one, ext an external name, gone no      *)
(* endpoints, named a port given by name in two subsets.                   *)
Port(name, port, target, app) ==
    [name |-> name, port |-> port, protocol |-> "TCP", target |-> target,
     app |-> app]
Svc(type, ports, eps, hosts) ==
    [type |-> type, ports |-> ports, eps |-> eps, hosts |-> hosts]
Subset(addrs, name, port) ==
    [addrs |-> addrs, ports |-> <<[name |-> name, port |-> port]>>]

Web == Svc("ClusterIP", <<Port("a", 80, 8080, "https")>>,
           <<<<Subset(<<"p1", "p2">>, "a", 8080)>>>>, Nil)
Api(addrs) == Svc("NodePort", <<Port("x", 81, 9, ""), Port("a", 80, 0, "")>>,
           <<<<Subset(addrs, "a", 8000), Subset(<<"p9">>, "a", 8000)>>>>, Nil)
Ext(hosts) == Svc("ExternalName", <<>>, Nil, hosts)
Gone == Svc("ClusterIP", <<Port("a", 80, 8080, "")>>, Nil, Nil)

Ns == <<1>>
Services(api, ext) ==
    [svcs |-> (<<Ns, <<11>>>> :> Web) @@ (<<Ns, <<12>>>> :> Api(api))
              @@ (<<Ns, <<13>>>> :> Ext(ext)) @@ (<<Ns, <<14>>>> :> Gone),
     cross |-> FALSE, slices |-> <<>>]

(* The same with slices of another cluster.                                *)
Crossed(api) ==
    [Services(api, Nil) EXCEPT
       !.cross = TRUE,
       !.slices = <<[ns |-> Ns, name |-> <<12, 5>>, port |-> 8001,
                     portName |-> "a", addrs |-> <<"q1">>],
                    [ns |-> Ns, name |-> <<15>>, port |-> 8002,
                     portName |-> "b", addrs |-> <<"q2">>]>>]

Ref(name, weight) == [ns |-> Ns, name |-> <<name>>, port |-> 80, weight |-> weight]

Url(op, size) == Term("URL", <<Value(op, size)>>)
Host(op) == Term("HOST", <<Value(op, 1)>>)

Rule(name, refs) ==
    [name |-> <<name>>, prio |-> 5, matcher |-> TRUE,
     dslx |-> <<Url("STARTS_WITH", 1)>>, domain |-> <<>>, cert |-> Nil,
     source |-> Nil, svcs |-> refs, proto |-> "auto", timeout |-> Nil,
     auth |-> Nil, waf |-> Nil, otel |-> Nil, redirect |-> Nil, legacy |-> Nil]

Frontend(name, port, protocol) ==
    [name |-> <<name>>, port |-> port, protocol |-> protocol, cert |-> Nil,
     svcs |-> Nil, timeout |-> Nil, auth |-> Nil, otel |-> Nil, waf |-> Nil,
     redirect |-> Nil, keepalive |-> FALSE, ingress |-> FALSE]

Base ==
    [conf |-> [name |-> <<900>>, timeout |-> Nil, auth |-> Nil, otel |-> Nil,
               waf |-> Nil, sslRedirect |-> FALSE, httpPort |-> Nil,
               enabled |-> {"alb"}],
     fts |-> {}, rules |-> {}, ings |-> {}, listeners |-> <<>>,
     attached |-> {}, cluster |-> Services(<<"p3">>, Nil), cms |-> {},
     secrets |-> {}, conflict |-> {}, vip |-> FALSE, dns |-> TRUE]

(* Weights and services: two services of a rule and a default backend.     *)
BackendIds == {1} \X (1..3) \X (1..3) \X (1..3) \X (1..3)
BackendWorld(i) ==
    LET a == <<0, 1, 150>>[i[2]]
        b == <<0 - 1, 1, 100>>[i[3]]
        default == <<Nil, <<<<Ref(12, 100)>>>>, <<<<Ref(15, 100)>>>>>>[i[4]]
        cluster == <<Services(<<>>, Nil), Services(<<"p3">>, <<<<"h1">>>>),
                     Crossed(<<"p3">>)>>[i[5]]
    IN  [Base EXCEPT
        !.fts = {[Frontend(701, 80, "http") EXCEPT !.svcs = default],
                 [Frontend(702, 90, "tcp") EXCEPT
                    !.svcs = <<<<Ref(13, 100)>>>>]},
        !.rules = {<<<<701>>, Rule(101, <<Ref(11, a), Ref(12, b)>>)>>,
                   <<<<701>>, Rule(102, <<Ref(14, 100)>>)>>},
        !.cluster = cluster]

Timeout(ms) == <<("read" :> ms)>>
Otel(on, sampler) ==
    <<IF sampler = "" THEN [enable |-> on]
      ELSE [enable |-> on, sampler |-> sampler]>>
Waf(snippet, cm, core) ==
    <<[enable |-> TRUE, core |-> core, snippet |-> snippet, cm |-> cm]>>

(* Settings on two rules of a frontend, the frontend and the alb.          *)
ConfigIds == {2} \X (1..4) \X (1..3) \X (1..3) \X (1..2) \X (1..2)
ConfigWorld(i) ==
    LET t == <<<<Nil, Nil, Nil>>, <<Timeout(1), Nil, Timeout(3)>>,
               <<Timeout(1), Timeout(2), Nil>>,
               <<Nil, Timeout(2), Timeout(3)>>>>[i[2]]
        o == <<<<Nil, Nil, Nil>>,
               <<Otel("true", "ratio"), Nil, Otel("false", "")>>,
               <<Otel("true", "ratio"), Otel("false", ""),
                 Otel("true", "parent")>>>>[i[3]]
        w == <<<<Nil, Nil, Nil, Nil>>,
               <<Waf("", "m1", TRUE), Nil, Waf("s1", "m1", TRUE), <<"basic">>>>,
               <<Nil, Waf("", "", TRUE), Nil, Nil>>>>[i[4]]
    IN  [Base EXCEPT
        !.conf.timeout = t[1], !.conf.otel = o[1], !.conf.waf = w[1],
        !.fts = {[Frontend(701, 80, "http") EXCEPT
                    !.timeout = t[2], !.otel = o[2], !.waf = w[2]],
                 [Frontend(702, 90, "tcp") EXCEPT !.timeout = t[2],
                    !.svcs = <<<<Ref(11, 100)>>>>]},
        !.rules = {<<<<701>>, [Rule(101, <<Ref(11, 100)>>) EXCEPT
                    !.timeout = t[3], !.otel = o[3], !.waf = w[3],
                    !.auth = w[4]]>>,
                   <<<<701>>, Rule(102, <<Ref(11, 100)>>)>>},
        !.cms = <<{}, {"m1"}>>[i[5]], !.dns = (i[6] = 1)]

(* Two https ports that share domains.                                     *)
CertIds == {3} \X (1..4) \X (1..2) \X (1..2) \X (1..2)
CertWorld(i) ==
    LET c == <<<<<<1>>, <<2>>, <<3>>>>, <<<<3>>, <<2>>, <<1>>>>,
               <<<<1>>, <<0 - 1>>, <<1>>>>, <<Nil, <<2>>, <<3>>>>>>[i[2]]
        d == <<<<"a", "com">>, <<"*", "com">>>>[i[3]]
    IN  [Base EXCEPT
        !.fts = {[Frontend(701, 443, "https") EXCEPT !.cert = <<9>>],
                 Frontend(702, 8443, "https")},
        !.rules = {<<<<701>>, [Rule(101, <<>>) EXCEPT
                      !.domain = <<"a", "com">>, !.cert = c[1]]>>,
                   <<<<701>>, [Rule(102, <<>>) EXCEPT
                      !.domain = d, !.cert = c[2]]>>,
                   <<<<702>>, [Rule(103, <<>>) EXCEPT
                      !.domain = d, !.cert = c[3]]>>},
        !.secrets = <<{1, 2, 3, 9}, {2, 3}>>[i[4]],
        !.conflict = <<{}, {<<702>>}>>[i[5]]]

(* Orders of matching: hosts, paths, a default backend and a redirect.     *)
OrderIds == {4} \X (1..2) \X (1..3) \X (1..2) \X (1..2) \X (1..2)
OrderWorld(i) ==
    [Base EXCEPT
        !.conf.sslRedirect = (i[2] = 1),
        !.fts = {[Frontend(701, 80, "http") EXCEPT
                    !.svcs = <<<<Ref(11, 100)>>>>,
                    !.redirect = <<Nil, <<[NoRedirect EXCEPT !.url = "/x"]>>>>[i[4]],
                    !.keepalive = TRUE],
                 Frontend(702, 0, "http"), Frontend(703, 92, "odd")},
        !.rules = {<<<<701>>, [Rule(101, <<Ref(11, 100)>>) EXCEPT
                      !.dslx = <<Host("EQ")>>, !.prio = <<1, 5, 10>>[i[3]]]>>,
                   <<<<701>>, [Rule(102, <<Ref(11, 100)>>) EXCEPT
                      !.dslx = <<Host("ENDS_WITH"),
                        Term("URL", <<Value("EQ", 9), Value("REGEX", 9)>>)>>]>>,
                   <<<<701>>, [Rule(103, <<Ref(11, 100)>>) EXCEPT
                      !.dslx = <<Term("HEADER", <<[Value("EQ", 1) EXCEPT
                                                     !.args = 0],
                                                  Value("EQ", 1)>>)>>]>>,
                   <<<<701>>, [Rule(104, <<>>) EXCEPT !.matcher = FALSE,
                      !.legacy = <<[url |-> "/u", code |-> 302]>>]>>},
        !.conflict = <<{}, {<<701>>}>>[i[5]], !.vip = (i[6] = 1)]

Ann(keys, val) == [k \in keys |-> val]

(* An ingress with annotations on the http and https frontends.            *)
IngressIds == {5} \X (1..2) \X (1..6) \X (1..3)
IngressWorld(i) ==
    LET a == <<Ann({<<"nginx", "ssl-redirect">>}, "true"),
               Ann({<<"alb", "force-ssl-redirect">>}, "true"),
               Ann({<<"nginx", "force-ssl-redirect">>}, "true")
                 @@ Ann({<<"index", "redirect-port">>}, "443"),
               Ann({<<"nginx", "permanent-redirect">>}, "/p"),
               Ann({<<"nginx", "temporal-redirect">>}, "/t")
                 @@ Ann({<<"nginx", "permanent-redirect-code">>}, "301"),
               Ann({}, "")>>[i[3]]
        more == <<Ann({}, ""),
                  Ann({<<"nginx", "read">>}, "3") @@ Ann({<<"index", "read">>}, "7ms")
                    @@ Ann({<<"nginx", "enable-modsecurity">>}, "true")
                    @@ Ann({<<"nginx", "modsecurity-snippet">>}, "s2"),
                  Ann({<<"alb", "send">>}, "soon")
                    @@ Ann({<<"nginx", "enable-opentelemetry">>}, "true")>>[i[4]]
    IN  [Base EXCEPT
        !.fts = {[Frontend(701, 80, "http") EXCEPT !.ingress = TRUE],
                 [Frontend(702, 443, "https") EXCEPT !.ingress = TRUE]},
        !.ings = {[host |-> <<"a", "com">>, tls |-> <<{}, {<<"a", "com">>}>>[i[2]],
                   ann |-> a @@ more,
                   rule |-> [Rule(30, <<Ref(11, 100)>>) EXCEPT
                               !.source = <<<<31>>>>]]}]

Match(type) == [path |-> <<[type |-> type, size |-> 3]>>, query |-> <<>>,
                headers |-> <<>>, method |-> <<>>]
RouteRule(matches, ok) ==
    [matches |-> matches, refs |-> <<[ok |-> ok, svc |-> Ref(11, 100)]>>,
     redirect |-> Nil]
Route(kind, name, hosts, rules) ==
    [kind |-> kind, name |-> <<name>>, hosts |-> hosts, rules |-> rules]
Served(name, port, protocol, host, routes) ==
    [gw |-> <<60>>, name |-> <<name>>, port |-> port, protocol |-> protocol,
     host |-> host, cert |-> IF protocol = "HTTPS" THEN <<4>> ELSE Nil,
     routes |-> routes]

HttpRoute(type, ok) ==
    Route("HTTPRoute", 40, {<<"b", "com">>},
          <<RouteRule(<<Match("Exact"), Match(type)>>, ok),
            RouteRule(<<>>, TRUE)>>)
TcpRoute(ok) == Route("TCPRoute", 41, {}, <<RouteRule(<<>>, ok)>>)
UdpRoute == Route("UDPRoute", 42, {}, <<RouteRule(<<>>, TRUE)>>)
Attached(kind, name) ==
    {[kind |-> kind, name |-> <<name>>, default |-> Timeout(4),
      override |-> Timeout(5)]}

(* Gateways next to the alb's own frontends.                               *)
GatewayIds == {6} \X (1..2) \X (1..2) \X (1..3) \X (1..2) \X (1..2) \X (1..4)
GatewayWorld(i) ==
    LET type == <<"PathPrefix", "RegularExpression", "Unknown">>[i[4]]
        ok == (i[5] = 1)
    IN  [Base EXCEPT
        !.conf.enabled = <<{"alb", "gateway"}, {"gateway"}>>[i[2]],
        !.secrets = {4},
        !.fts = {Frontend(701, 80, "http"),
                 [Frontend(702, 82, "tcp") EXCEPT !.svcs = <<<<Ref(11, 1)>>>>]},
        !.rules = {<<<<701>>, Rule(101, <<Ref(11, 100)>>)>>},
        !.listeners = <<Served(51, 80, "HTTP", <<<<>>, <<"*", "com">>>>[i[3]],
                               <<HttpRoute(type, ok)>>),
                        Served(52, 81, "TCP", <<>>, <<>>),
                        Served(53, 82, "TCP", <<>>, <<TcpRoute(TRUE)>>),
                        Served(54, <<84, 1936>>[i[6]], "TCP", <<>>,
                               <<TcpRoute(ok)>>),
                        Served(55, 443, "HTTPS", <<"*", "com">>,
                               <<HttpRoute("PathPrefix", TRUE)>>),
                        Served(56, 53, "UDP", <<>>, <<UdpRoute>>)>>,
        !.attached = <<{}, Attached("TCPRoute", 41), Attached("HTTPRoute", 40),
                       Attached("Gateway", 60)>>[i[7]],
        !.vip = TRUE]

MCWorldOf(i) ==
    CASE i[1] = 1 -> BackendWorld(i) [] i[1] = 2 -> ConfigWorld(i)
      [] i[1] = 3 -> CertWorld(i)    [] i[1] = 4 -> OrderWorld(i)
      [] i[1] = 5 -> IngressWorld(i) [] i[1] = 6 -> GatewayWorld(i)

AllWorlds == UNION {BackendIds, ConfigIds, CertIds, OrderIds, IngressIds,
                    GatewayIds}

NoPorts == {1936}
=============================================================================
