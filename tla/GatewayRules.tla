---------------------------- MODULE GatewayRules ----------------------------
(***************************************************************************)
(* Which routes a gateway listener admits: the filters the gateway         *)
(* controller of an alb (gateway/ctl) runs over the listeners of a gateway *)
(* and over the routes that name them, and the selection the policy        *)
(* generator (gateway/nginx) makes from the statuses those filters left.   *)
(*                                                                         *)
(* A host name is the sequence of its labels, <<"*", "com">> for "*.com".  *)
(* A listener is [name, protocol, port, host, from, sel, kinds]: host is   *)
(* <<>> when it is not set, from says which namespaces may attach ("same", *)
(* "all", "selector"), sel is the set of namespaces the selector matches.  *)
(* A route is [kind, ns, hosts, refs], refs being [gw, section] records    *)
(* whose namespace and section are set.                                    *)
(***************************************************************************)
EXTENDS Naturals, Sequences, FiniteSets

CONSTANTS GatewayNs,      \* the namespace the gateways live in
          ReservedPorts   \* the metrics port, 1936 and 11782

HasPrefixStar(host) == Len(host) > 1 /\ host[1] = "*"

(* strings.HasSuffix of host and the wildcard without its star, ".com": at *)
(* least one label before it.                                              *)
HasSuffix(host, wild) ==
    LET n == Len(host)
        m == Len(wild) - 1
    IN  n > m /\ SubSeq(host, n - m + 1, n) = SubSeq(wild, 2, m + 1)

MatchDomain(host, route) ==
    \/ HasPrefixStar(host) /\ ~HasPrefixStar(route) /\ HasSuffix(route, host)
    \/ ~HasPrefixStar(host) /\ HasPrefixStar(route) /\ HasSuffix(host, route)
    \/ (HasPrefixStar(host) <=> HasPrefixStar(route)) /\ host = route

FindIntersection(lsHost, routeHosts) ==
    IF routeHosts = {} THEN {lsHost}
    ELSE {rh \in routeHosts : MatchDomain(lsHost, rh)}

SupportKind(protocol) ==
    CASE protocol \in {"HTTP", "HTTPS"} -> {"HTTPRoute"}
      [] protocol = "TCP" -> {"TCPRoute"}
      [] protocol = "UDP" -> {"UDPRoute"}
      [] OTHER -> {}

SupportKindSet == {"HTTPRoute", "TCPRoute", "UDPRoute"}

IsSupported(protocol, kind) == kind \in SupportKind(protocol)

RouteCouldAttach(ls, route) ==
    CASE ls.from = "same" -> route.ns = GatewayNs
      [] ls.from = "selector" -> route.ns \in ls.sel
      [] OTHER -> TRUE

CommonFilter(ls, route) ==
    RouteCouldAttach(ls, route) /\ IsSupported(ls.protocol, route.kind)

HostNameFilter(ls, route) ==
    \/ ls.host = <<>>
    \/ route.kind # "HTTPRoute"
    \/ FindIntersection(ls.host, route.hosts) # {}

ReservedPortFilter(ls) == ls.port \notin ReservedPorts

FilteListenerInvalidKind(ls) == ls.kinds \subseteq SupportKindSet

(* Groups of more than one listener with the same key are skipped, and a   *)
(* group of one has no second member: nobody is ever marked conflicting.   *)
FilteListenerConflictProtocol(all) ==
    LET Same(l) == {k \in all : /\ k.protocol = l.protocol
                                /\ k.port = l.port
                                /\ k.host = l.host}
    IN  UNION {Same(l) \ {l} : l \in {k \in all : Cardinality(Same(k)) <= 1}}

ListenerValid(ls, all) ==
    ls \notin FilteListenerConflictProtocol(all) /\ FilteListenerInvalidKind(ls)

IsRefToGateway(ref, g) == ref.gw = g

IsRefsToGateway(route, g) == \E ref \in route.refs : IsRefToGateway(ref, g)

(* A route is accepted on a reference when the section names a listener    *)
(* and no filter rejects it; whether the listener is valid does not matter *)
(* here.                                                                   *)
FilteRoutes(lss, route, ref) ==
    \E ls \in lss : /\ ls.name = ref.section
                    /\ CommonFilter(ls, route)
                    /\ HostNameFilter(ls, route)
                    /\ ReservedPortFilter(ls)
=============================================================================
