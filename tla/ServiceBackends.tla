--------------------------- MODULE ServiceBackends --------------------------
(***************************************************************************)
(* How a service of a rule becomes the backends of an upstream             *)
(* (driver/kubernetes.go, controller/cli/policy_backend.go).               *)
(*                                                                         *)
(* A service is [type, ports, eps, hosts].  A port of it is [name, port,   *)
(* protocol, target, app], target being 0 for a port that is given by      *)
(* name.  eps is nil when there is no endpoints object; otherwise it holds *)
(* a sequence of subsets [addrs, ports].  hosts is what the external name  *)
(* resolves to, nil when it does not.  A slice of another cluster is       *)
(* [ns, name, port, portName, addrs].  A reference to a service is         *)
(* [ns, name, port, weight]; names are sequences of numbers.               *)
(***************************************************************************)
EXTENDS Integers, SequencesExt

LOCAL None == <<>>

FtProtocolToServiceProtocol(protocol) == IF protocol = "udp" THEN "UDP" ELSE "TCP"

(* The number of a protocol in a key.                                      *)
ProtocolPart(protocol) == IF protocol = "UDP" THEN 2 ELSE 1

(* The parts of the key are joined without marking where one ends.         *)
GenerateServiceKey(ref, protocol) ==
    ref.ns \o ref.name \o <<ProtocolPart(protocol), ref.port>>

(* One port for all subsets: a port given by name takes the number of the  *)
(* last subset that has it.  0 when there is none.                         *)
FindContainerPort(svc, port, protocol) ==
    LET hits == SelectSeq(svc.ports,
                  LAMBDA p : p.protocol = protocol /\ p.port = port)
        all == FlattenSeq([i \in DOMAIN svc.eps[1] |-> svc.eps[1][i].ports])
        named == SelectSeq(all, LAMBDA e : e.name = hits[1].name)
    IN  CASE hits = <<>> -> 0
          [] hits # <<>> /\ hits[1].target # 0 -> hits[1].target
          [] OTHER -> IF named = <<>> THEN 0 ELSE Last(named).port

Backend(ip, port, app, other) ==
    [ip |-> ip, port |-> port, app |-> app, other |-> other]

(* mergeSubmarinerCrossClusterBackends: the slices whose name begins with  *)
(* the service's.                                                          *)
CrossClusterBackends(slices, ref, portName) ==
    LET mine == SelectSeq(slices,
                  LAMBDA s : /\ s.ns = ref.ns
                             /\ IsPrefix(ref.name, s.name)
                             /\ portName = "" \/ portName = s.portName)
    IN  FlattenSeq([i \in DOMAIN mine |->
            [k \in DOMAIN mine[i].addrs |->
                Backend(mine[i].addrs[k], mine[i].port, "", TRUE)]])

(* Nil is an error: the endpoints or the container port are not there.     *)
GetEndPointAddress(svc, ref, protocol, cross, slices) ==
    LET port == FindContainerPort(svc, ref.port, protocol)
        spec == CHOOSE p \in Range(svc.ports) :
                    p.protocol = protocol /\ p.port = ref.port
        subsets == svc.eps[1]
        local == FlattenSeq([i \in DOMAIN subsets |->
                    [k \in DOMAIN subsets[i].addrs |->
                        Backend(subsets[i].addrs[k], port, spec.app, FALSE)]])
    IN  IF svc.eps = None \/ port = 0 THEN None
        ELSE <<local \o (IF cross THEN CrossClusterBackends(slices, ref, spec.name)
                         ELSE <<>>)>>

(* The address of an external name has the port of the reference.          *)
GetExternalNameAddress(svc, ref) ==
    IF svc.hosts = None THEN None
    ELSE <<[i \in DOMAIN svc.hosts[1] |->
              Backend(svc.hosts[1][i], ref.port, "", FALSE)]>>

(* cluster is [svcs, cross, slices], svcs a function of <<ns, name>>.      *)
GetServiceAddress(cluster, ref, protocol) ==
    IF <<ref.ns, ref.name>> \notin DOMAIN cluster.svcs
    THEN IF cluster.cross
         THEN <<CrossClusterBackends(cluster.slices, ref, "")>> ELSE None
    ELSE LET svc == cluster.svcs[<<ref.ns, ref.name>>]
         IN  CASE svc.type \in {"ClusterIP", "NodePort", "LoadBalancer"} ->
                    GetEndPointAddress(svc, ref, protocol,
                                       cluster.cross, cluster.slices)
               [] svc.type = "ExternalName" -> GetExternalNameAddress(svc, ref)
               [] OTHER -> None

(* The references whose addresses are looked up: those of a rule that      *)
(* redirects are not.                                                      *)
WantedServices(fts) ==
    UNION {{<<FtProtocolToServiceProtocol(ft.protocol), ref>> :
              ref \in Range(ft.svcs) \cup
                      UNION {Range(r.svcs) : r \in {x \in ft.rules :
                                                      x.redirect = None}}} :
            ft \in fts}

(* loadServices: one lookup per key; a failed one leaves no entry.         *)
LoadServices(cluster, fts) ==
    LET found == {w \in WantedServices(fts) :
                    GetServiceAddress(cluster, w[2], w[1]) # None}
        Key(w) == GenerateServiceKey(w[2], w[1])
    IN  [k \in {Key(w) : w \in found} |->
            LET w == CHOOSE x \in found : Key(x) = k
            IN  GetServiceAddress(cluster, w[2], w[1])[1]]

Clamp(weight) == CASE weight > 100 -> 100 [] weight < 0 -> 0 [] OTHER -> weight

(* The share of a service's weight each of its n backends gets, rounded to *)
(* the nearest and at least 1 when the service has a weight.               *)
WeightOf(weight, total, n) ==
    LET w == (2 * weight * 100 + total * n) \div (2 * total * n)
    IN  IF w = 0 /\ weight # 0 THEN 1 ELSE w

(* Mutated form: a small share is rounded away.                            *)
GenerateBackendRounded(map, refs, protocol) ==
    LET sum == FoldLeft(LAMBDA acc, r : acc + Clamp(r.weight), 0, refs)
        total == IF sum = 0 THEN 100 ELSE sum
        Of(r) == LET k == GenerateServiceKey(r, protocol)
                 IN  IF k \in DOMAIN map THEN map[k] ELSE <<>>
    IN  FlattenSeq([i \in DOMAIN refs |->
            LET bs == SelectSeq(Of(refs[i]), LAMBDA b : b.port # 0)
            IN  [k \in DOMAIN bs |->
                    [at |-> bs[k], svc |-> refs[i],
                     weight |-> (Clamp(refs[i].weight) * 100)
                                  \div (total * Len(Of(refs[i])))]]])

(* When every weight is zero the total is taken as 100 and all backends    *)
(* get zero.                                                               *)
GenerateBackend(map, refs, protocol) ==
    LET sum == FoldLeft(LAMBDA acc, r : acc + Clamp(r.weight), 0, refs)
        total == IF sum = 0 THEN 100 ELSE sum
        Of(r) == LET k == GenerateServiceKey(r, protocol)
                 IN  IF k \in DOMAIN map THEN map[k] ELSE <<>>
    IN  FlattenSeq([i \in DOMAIN refs |->
            LET bs == SelectSeq(Of(refs[i]), LAMBDA b : b.port # 0)
            IN  [k \in DOMAIN bs |->
                    [at |-> bs[k], svc |-> refs[i],
                     weight |-> WeightOf(Clamp(refs[i].weight), total,
                                         Len(Of(refs[i])))]]])

(* FillUpBackends on one frontend.  A rule whose protocol is left to its   *)
(* backends speaks https when one of them says so.                         *)
FillFrontend(map, ft) ==
    LET protocol == FtProtocolToServiceProtocol(ft.protocol)
        Proto(r, bs) ==
            CASE r.proto # "auto" -> r.proto
              [] OTHER -> IF \E b \in Range(bs) : b.at.app = "https"
                          THEN "https" ELSE "http"
    IN  [ft EXCEPT
           !.rules = {LET bs == GenerateBackend(map, r.svcs, protocol)
                      IN  [r EXCEPT !.backends = bs, !.proto = Proto(r, bs)] :
                        r \in ft.rules},
           !.backends = IF ft.svcs = <<>> THEN @
                        ELSE <<GenerateBackend(map, ft.svcs, protocol)>>]

FillUpBackends(cluster, fts) ==
    LET map == LoadServices(cluster, fts)
    IN  {FillFrontend(map, ft) : ft \in fts}
=============================================================================
