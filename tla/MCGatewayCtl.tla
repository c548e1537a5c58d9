--------------------------- MODULE MCGatewayCtl ---------------------------
(***************************************************************************)
(* Instances of GatewayCtl: an exclusive gateway and a shared one, a route *)
(* that names a listener of both.  The listeners of the gateways may be    *)
(* narrowed to another host or given a kind that is not supported; the     *)
(* route may change its host or drop a reference.                          *)
(***************************************************************************)
EXTENDS GatewayCtl, TLC

CONSTANTS h, r1

Listener(host, from, kinds) ==
    [name |-> "web", protocol |-> "HTTP", port |-> 80, host |-> host,
     from |-> from, sel |-> {}, kinds |-> kinds]

Open == {Listener(<<"*", "com">>, "all", {"HTTPRoute"})}
Narrow == {Listener(<<"b", "com">>, "all", {"HTTPRoute"})}
Odd == {Listener(<<"*", "com">>, "all", {"HTTPRoute", "GRPCRoute"})}

Route(host, gws) ==
    [kind |-> "HTTPRoute", ns |-> "team", hosts |-> {host},
     refs |-> {[gw |-> x, section |-> "web"] : x \in gws}]

TheGws == {g, h}
TheSpecs == {Open, Narrow, Odd}
TheRoutes == {Route(<<"a", "com">>, {g, h}), Route(<<"a", "org">>, {g, h}),
              Route(<<"a", "com">>, {h})}
AllOpen == [x \in TheGws |-> Open]
BothRefs == [r \in R |-> Route(<<"a", "com">>, {g, h})]
=============================================================================
