------------------------------ MODULE PolicyGen -----------------------------
(***************************************************************************)
(* The generation of the policy file and of nginx.conf from the resources  *)
(* of the cluster (controller/nginx.go, controller/cli, ngxconf,           *)
(* sync_lb_service.go).  A generation reads the cluster at several moments *)
(* while the cluster changes: the frontends and routes are loaded first,   *)
(* then the services and config maps, last the secrets; then the policies, *)
(* the ports of the VIP service and nginx.conf are made.                   *)
(*                                                                         *)
(* A world is a record of the resources:                                   *)
(*   conf     the alb: name, timeout, auth, otel, waf, sslRedirect,        *)
(*            httpPort, and enabled: a subset of {"alb", "gateway"}        *)
(*   fts      frontend resources: name, port, protocol, cert, svcs (nil or *)
(*            the default services), timeout, auth, otel, waf, redirect,   *)
(*            keepalive, ingress (whether ingress rules go to it)          *)
(*   rules    pairs <<ft name, rule resource>>                             *)
(*   ings     ingresses, each with the base rule resource made from it     *)
(*   listeners, attached    what gateways serve and the policies on them   *)
(*   cluster  services, see ServiceBackends                                *)
(*   cms      the config maps of waf settings that exist                   *)
(*   secrets  the secrets that hold a valid certificate                    *)
(*   conflict the names of frontends whose port another process holds      *)
(*   vip      whether this instance leads and the VIP service exists       *)
(***************************************************************************)
EXTENDS RuleExt, ServiceBackends

CONSTANTS Worlds,      \* names of worlds: sequences of numbers, the first
                       \* of which is a family of worlds
          WorldOf(_),  \* the world of a name
          MaxEdit,     \* how often the world changes
          MetricsPort

ASSUME PolicyAssumption == MaxEdit \in Nat /\ MetricsPort \in Nat

VARIABLES world,       \* the name of the present world
          edits,
          stage,       \* "idle", "loaded", "filled", "dead"
          lb,          \* the load balancer under construction
          out,         \* nil or what was last written
          vip          \* the ports of the VIP service

vars == <<world, edits, stage, lb, out, vip>>

(* --------------------------- loading ---------------------------------- *)

ProtocolNumber(protocol) ==
    CASE protocol = "grpc" -> 1 [] protocol = "http" -> 2
      [] protocol = "https" -> 3 [] protocol = "tcp" -> 4
      [] protocol = "udp" -> 5

(* Frontend.String: alb, port and protocol.                                *)
FtString(ft) == ft.alb \o <<ft.port, ProtocolNumber(ft.protocol)>>

IsValidProtocol(protocol) == protocol \in {"http", "https", "tcp", "udp", "grpc"}

IsStreamMode(ft) == ft.protocol \in {"tcp", "udp"}

(* The rules of a frontend: the ones a user wrote and the ones made from   *)
(* the ingresses.                                                          *)
RulesOf(w, cr) ==
    {r[2] : r \in {x \in w.rules : x[1] = cr.name}} \cup
    (IF ~cr.ingress THEN {}
     ELSE {IngressWithFtAnnotationToRule(cr, i, [i.rule EXCEPT !.name = cr.name \o @]) :
             i \in w.ings})

(* One frontend resource: an unknown protocol is taken for tcp.            *)
LoadFrontend(w, cr) ==
    LET base == [EmptyFrontend EXCEPT
                   !.alb = w.conf.name, !.name = cr.name, !.port = cr.port,
                   !.protocol = IF IsValidProtocol(cr.protocol)
                                THEN cr.protocol ELSE "tcp",
                   !.cert = cr.cert,
                   !.rules = {RuleToInternalRule(r, cr, w.conf) :
                                r \in RulesOf(w, cr)},
                   !.conflict = cr.name \in w.conflict]
        ft == IF cr.svcs = Nil THEN base
              ELSE [base EXCEPT !.svcs = cr.svcs[1], !.group = FtString(base)]
    IN  IF IsStreamMode(ft) THEN InitL4Ft(ft, cr, w.conf)
        ELSE InitL7Ft(ft, cr, w.conf)

(* AlbCli.GetLBConfig with patrol: a frontend without a port is left out.  *)
AlbFrontends(w) == {LoadFrontend(w, cr) : cr \in {c \in w.fts : c.port > 0}}

Same(ft, other) == ft.protocol = other.protocol /\ ft.port = other.port

(* A frontend of a gateway whose protocol and port an alb frontend has is  *)
(* dropped, except for http and https: it takes a copy of the alb's rules. *)
MergeLBConfig(alb, gateway) ==
    LET Rival(g) == {a \in alb : Same(a, g)}
        Merged(g) == IF Rival(g) = {} THEN g
                     ELSE [g EXCEPT !.rules = @ \cup (CHOOSE a \in Rival(g) :
                                                         TRUE).rules]
    IN  alb \cup {Merged(g) : g \in {x \in gateway :
                    Rival(x) = {} \/ x.protocol \in {"http", "https"}}}

(* A disabled side contributes nothing.                                    *)
GetLBConfig(w) ==
    MergeLBConfig(IF "alb" \in w.conf.enabled THEN AlbFrontends(w) ELSE {},
                  IF "gateway" \in w.conf.enabled
                  THEN GatewayFrontends(w.listeners, w.attached) ELSE {})

(* ------------------------ certificates -------------------------------- *)

CertProtocol == {"https", "grpc"}

CertFts(fts) == {ft \in fts : ~ft.conflict /\ ft.protocol \in CertProtocol}

(* A certificate is a number that keeps the order of the names; a negative *)
(* one has a name that is not of the form namespace_name.                  *)
ParseCertificateName(cert) == cert > 0

(* The default certificate of a port.                                      *)
GetPortDefaultCert(fts) ==
    {[domain |-> <<>>, port |-> ft.port, cert |-> ft.cert[1]] :
        ft \in {f \in CertFts(fts) : f.cert # Nil
                                     /\ ParseCertificateName(f.cert[1])}}

(* Per port and domain the certificates of the rules.                      *)
GetCertsFromRule(fts) ==
    UNION {{[domain |-> r.domain, port |-> ft.port, cert |-> r.cert[1]] :
              r \in {x \in ft.rules : /\ x.domain # <<>> /\ x.cert # Nil
                                      /\ ParseCertificateName(x.cert[1])}} :
             ft \in CertFts(fts)}

(* The certificate of a port and a domain: the first by name.              *)
FirstCert(raw, domain, port) ==
    Min({x.cert : x \in {y \in raw : y.domain = domain /\ y.port = port}})

(* Mutated form: a domain is the key even when several ports have it.      *)
FormatCertsMapByDomain(raw) ==
    {[domain |-> r.domain, port |-> 0,
      cert |-> Min({x.cert : x \in {y \in raw : y.domain = r.domain}})] :
        r \in raw}

(* The key is the domain when one port has it, else domain and port.       *)
FormatCertsMap(raw) ==
    LET Ports(d) == {x.port : x \in {y \in raw : y.domain = d}}
    IN  {[domain |-> r.domain,
          port |-> IF Cardinality(Ports(r.domain)) = 1 THEN 0 ELSE r.port,
          cert |-> FirstCert(raw, r.domain, r.port)] : r \in raw}

(* getCertMap, with the certificate of the metrics port: an entry whose    *)
(* secret cannot be used is left out.                                      *)
GetCertMap(fts, secrets) ==
    {e \in FormatCertsMap(GetCertsFromRule(fts)) \cup GetPortDefaultCert(fts) :
        e.cert \in secrets}
    \cup {[domain |-> <<>>, port |-> MetricsPort, cert |-> 0]}

(* What the data plane looks up for a server name on a port (cert_tool.lua)*)
(* in this order: the name, the name on the port, the wildcard above it,   *)
(* the wildcard on the port.                                               *)
LookupCert(map, domain, port) ==
    LET wild == <<"*">> \o Tail(domain)
        Hit(d, p) == {e.cert : e \in {x \in map : x.domain = d /\ x.port = p}}
        tries == <<Hit(domain, 0), Hit(domain, port), Hit(wild, 0),
                   Hit(wild, port)>>
        hits == {i \in DOMAIN tries : tries[i] # {}}
    IN  IF hits = {} THEN {} ELSE tries[Min(hits)]

(* --------------------------- policies --------------------------------- *)

(* Lexicographic order of names.                                           *)
NameLess(a, b) ==
    \E i \in DOMAIN b :
        /\ \A j \in 1..(i - 1) : j \in DOMAIN a /\ a[j] = b[j]
        /\ i \in DOMAIN a => a[i] < b[i]

(* DSLX.Priority.                                                          *)
Priority(dslx) ==
    LET Url(v) == CASE v.op = "EQ" -> 2000
                    [] v.op = "STARTS_WITH" -> 1000 + v.size + 2
                    [] v.op = "REGEX" -> 1000 + v.size
                    [] OTHER -> 0
        OfTerm(t) == CASE t.type = "HOST" ->
                            CASE t.values[1].op \in {"EQ", "IN"} -> 50000
                              [] t.values[1].op = "ENDS_WITH" -> 10000
                              [] OTHER -> 0
                       [] t.type = "URL" ->
                            FoldLeft(LAMBDA acc, v : acc + Url(v), 0, t.values)
                       [] OTHER -> 100 * Len(t.values)
    IN  FoldLeft(LAMBDA acc, t : acc + OfTerm(t), 0, dslx)

(* DSLX2Internal refuses a value without an argument among several.        *)
DslOk(dslx) ==
    \A t \in Range(dslx) :
        Len(t.values) > 1 => \A v \in Range(t.values) : v.args > 0

(* The length of the expression, a unit for each operator and argument.    *)
InternalDSLLen(dslx) ==
    FoldLeft(LAMBDA acc, t : acc + 1 +
        FoldLeft(LAMBDA sum, v : sum + 1 + v.size, 0, t.values), 0, dslx)

(* Policies.Less: p is tried before q.                                     *)
Less(p, q) ==
    CASE p.prio # q.prio -> p.prio < q.prio
      [] p.prio = q.prio /\ p.complex # q.complex -> p.complex > q.complex
      [] p.prio = q.prio /\ p.complex = q.complex /\ p.dslLen # q.dslLen ->
            p.dslLen > q.dslLen
      [] OTHER -> NameLess(p.rule, q.rule)

(* InternalRuleToL7Policy; its references are the sources of the rule.     *)
InternalRuleToL7Policy(ft, rule) ==
    ToPolicy(rule,
      [EmptyPolicy EXCEPT
         !.ft = FtString(ft), !.port = ft.port, !.rule = rule.id,
         !.prio = rule.prio, !.complex = Priority(rule.dslx),
         !.dslLen = InternalDSLLen(rule.dslx), !.upstream = rule.id,
         !.proto = rule.proto, !.refs = rule.src])

(* The policy of the frontend itself, when it has default services or a    *)
(* redirect.                                                               *)
DefaultPolicy(ft) ==
    LET base == [EmptyPolicy EXCEPT !.ft = FtString(ft), !.port = ft.port,
                                    !.rule = ft.name, !.refs = <<<<>>>>]
        router == IF ft.backends = Nil THEN base
                  ELSE [MakeItMatchLast(base) EXCEPT !.upstream = ft.group]
    IN  IF ft.backends # Nil \/ NeedL7DefaultPolicy(ft)
        THEN {InitL7DefaultPolicy(ft, router)} ELSE {}

(* initHttpModeFt: a rule without a matcher or with a bad one is skipped.  *)
InitHttpModeFt(ft) ==
    {InternalRuleToL7Policy(ft, r) :
        r \in {x \in ft.rules : x.matcher /\ DslOk(x.dslx)}}
    \cup DefaultPolicy(ft)

(* getName: the upstream and the rule of a stream frontend.                *)
StreamName(ft) ==
    CASE ft.rules # {} -> (CHOOSE r \in ft.rules : TRUE).id
      [] ft.rules = {} -> ft.group

InitStreamModeFt(ft) ==
    {InitL4DefaultPolicy(ft,
       [EmptyPolicy EXCEPT !.ft = FtString(ft), !.port = ft.port,
                           !.rule = StreamName(ft), !.upstream = StreamName(ft)])}

FtProtocolToBackendMode(protocol) ==
    IF protocol \in {"http", "https"} THEN "http" ELSE protocol

(* A default group without backends is left out.                           *)
PickAllBackendGroup(fts) ==
    UNION {{[name |-> r.id, mode |-> FtProtocolToBackendMode(ft.protocol),
             backends |-> r.backends] : r \in ft.rules}
           \cup (IF ft.backends \in {Nil, <<<<>>>>} THEN {}
                 ELSE {[name |-> ft.group,
                        mode |-> FtProtocolToBackendMode(ft.protocol),
                        backends |-> ft.backends[1]]})
           : ft \in {f \in fts : ~f.conflict}}

HttpPolicies(fts) ==
    UNION {InitHttpModeFt(ft) : ft \in {f \in fts : ~f.conflict
                                                   /\ ~IsStreamMode(f)}}

StreamPolicies(fts) ==
    UNION {InitStreamModeFt(ft) : ft \in {f \in fts : ~f.conflict
                                                     /\ IsStreamMode(f)}}

(* MergeSamePolicyConfig: a stream policy keeps its configuration.         *)
GenerateAlbPolicy(fts, secrets, dns) ==
    LET http == HttpPolicies(fts)
    IN  [certs |-> GetCertMap(fts, secrets),
         http |-> {InitHttpShare(p) : p \in http},
         stream |-> {[p EXCEPT !.plugins = ToMaps(p)] : p \in StreamPolicies(fts)},
         share |-> UpdatePolicyAfterUniq(Shared(http), dns),
         groups |-> PickAllBackendGroup(fts)]

Panics(fts) == \E p \in HttpPolicies(fts) : SharePanics(p)

(* --------------------------- nginx.conf ------------------------------- *)

(* CollectAndFetchRefs: the config maps of the rules that can be read.     *)
CollectAndFetchRefs(fts, cms) ==
    {r.waf[1].raw.cm : r \in {x \in UNION {ft.rules : ft \in fts} :
                                 x.waf # Nil}} \cap cms

(* GenLocation: a snippet excludes the config map and the core rules, a    *)
(* config map excludes the core rules.                                     *)
GenLocation(raw, cms) ==
    [snippet |-> raw.snippet,
     cm |-> IF raw.snippet = "" /\ raw.cm \in cms THEN raw.cm ELSE "",
     core |-> raw.core /\ raw.snippet = "" /\ raw.cm = ""]

(* UpdateNgxTmpl of the waf extension: one location per key.               *)
WafLocations(ft, cms) ==
    LET wafs == {r.waf[1] : r \in {x \in ft.rules : x.waf # Nil}}
    IN  [key \in {w.key : w \in wafs} |->
            GenLocation((CHOOSE w \in wafs : w.key = key).raw, cms)]

ServedFts(fts) == {ft \in fts : ~ft.conflict}

(* Mutated form: a port that is taken by another process gets a server.    *)
GenerateNginxTemplateConfigAll(fts, cms) ==
    {[ft |-> FtString(ft), port |-> ft.port, protocol |-> ft.protocol,
      locations |-> WafLocations(ft, cms), keepalive |-> ft.keepalive] :
        ft \in fts}

(* The servers of nginx.conf.  (For a frontend in conflict the keepalive   *)
(* extension adds an entry without protocol, which no server is made of.)  *)
GenerateNginxTemplateConfig(fts, cms) ==
    {[ft |-> FtString(ft), port |-> ft.port, protocol |-> ft.protocol,
      locations |-> WafLocations(ft, cms), keepalive |-> ft.keepalive] :
        ft \in ServedFts(fts)}

(* ------------------------- the VIP service ---------------------------- *)

(* SyncLbSvcPort: a port per frontend and the metrics port.                *)
LbSvcPorts(fts) ==
    {[protocol |-> "metrics", port |-> MetricsPort]}
    \cup {[protocol |-> ft.protocol, port |-> ft.port] : ft \in fts}

(* The API server refuses a service with two ports of a number and a       *)
(* transport, or of a name.                                                *)
PortsClash(fts) ==
    LET Transport(p) == IF p = "udp" THEN "UDP" ELSE "TCP"
    IN  \/ \E f, g \in fts : f # g /\ f.port = g.port
                             /\ Transport(f.protocol) = Transport(g.protocol)
        \/ \E f \in fts : f.port = MetricsPort /\ f.protocol # "udp"

SyncLbSvcPort(w, fts) == IF w.vip /\ ~PortsClash(fts) THEN LbSvcPorts(fts) ELSE vip

(* --------------------------- the loop --------------------------------- *)

Init == /\ world \in Worlds
        /\ edits = 0
        /\ stage = "idle"
        /\ lb = Nil
        /\ out = Nil
        /\ vip = {}

(* Mutated form: the load balancer of the last generation is used again.   *)
LoadOnce ==
    /\ stage = "idle"
    /\ stage' = "loaded"
    /\ lb' = IF lb # Nil THEN lb
             ELSE <<[fts |-> GetLBConfig(WorldOf(world)), loaded |-> world,
                     filled |-> world, cms |-> {}]>>
    /\ UNCHANGED <<world, edits, out, vip>>

Load ==
    /\ stage = "idle"
    /\ stage' = "loaded"
    /\ lb' = <<[fts |-> GetLBConfig(WorldOf(world)), loaded |-> world,
                filled |-> world, cms |-> {}]>>
    /\ UNCHANGED <<world, edits, out, vip>>

(* FillUpBackends and CollectAndFetchRefs.                                 *)
Fill ==
    /\ stage = "loaded"
    /\ stage' = "filled"
    /\ LET w == WorldOf(world)
           fts == FillUpBackends(w.cluster, lb[1].fts)
       IN  lb' = <<[lb[1] EXCEPT !.fts = fts, !.filled = world,
                                 !.cms = CollectAndFetchRefs(fts, w.cms)]>>
    /\ UNCHANGED <<world, edits, out, vip>>

(* GenerateAlbPolicy, SyncLbSvcPort, GenerateNginxTemplateConfig.          *)
Publish ==
    /\ stage = "filled"
    /\ ~Panics(lb[1].fts)
    /\ stage' = "idle"
    /\ LET w == WorldOf(world)
           fts == lb[1].fts
       IN  /\ out' = <<[policy |-> GenerateAlbPolicy(fts, w.secrets, w.dns),
                        conf |-> GenerateNginxTemplateConfig(fts, lb[1].cms),
                        fts |-> fts, loaded |-> lb[1].loaded,
                        filled |-> lb[1].filled, made |-> world]>>
           /\ vip' = SyncLbSvcPort(w, fts)
    /\ UNCHANGED <<world, edits, lb>>

(* The process dies; its container starts it again.  The files stay.       *)
Panic ==
    /\ stage = "filled"
    /\ Panics(lb[1].fts)
    /\ stage' = "dead"
    /\ lb' = Nil
    /\ UNCHANGED <<world, edits, out, vip>>

Restart ==
    /\ stage = "dead"
    /\ stage' = "idle"
    /\ UNCHANGED <<world, edits, lb, out, vip>>

(* The world changes in one respect.                                       *)
Edit ==
    /\ edits < MaxEdit
    /\ edits' = edits + 1
    /\ \E i \in 2..Len(world) :
         \E v \in {u[i] : u \in {x \in Worlds : x[1] = world[1]}} :
            /\ v # world[i]
            /\ world' = [world EXCEPT ![i] = v]
    /\ UNCHANGED <<stage, lb, out, vip>>

Next == Load \/ Fill \/ Publish \/ Panic \/ Restart \/ Edit

Spec == Init /\ [][Next]_vars

(* The loop never stands still: in every stage one of its steps can be     *)
(* taken, and is.                                                          *)
Advance == stage' \in {"idle", "loaded", "filled", "dead"} \ {stage}

FairSpec == Spec /\ WF_stage(Advance)

(* --------------------------- properties ------------------------------- *)

O == out[1]
Loaded == WorldOf(O.loaded)

Written == O.policy.http \cup O.policy.stream

(* Every policy names its rule and its port, holds no configuration that   *)
(* is shared, and lists each configuration it uses; references lead to an  *)
(* entry of their kind.                                                    *)
TypeOK ==
    /\ world \in Worlds
    /\ edits \in 0..MaxEdit
    /\ stage \in {"idle", "loaded", "filled", "dead"}
    /\ stage \in {"loaded", "filled"} => lb # Nil
    /\ out # Nil =>
         /\ \A p \in Written : p.port > 0 /\ p.plugins \subseteq
                {"timeout", "otel", "auth", "redirect"}
         /\ \A p \in O.policy.http :
              \A k \in p.plugins \ SkipMerge :
                 /\ p[k] = Nil
                 /\ k \in DOMAIN p.refs[1]
                 /\ p.refs[1][k] \in DOMAIN O.policy.share
                 /\ p.refs[1][k].kind = k

(* The configuration a policy uses, followed through its reference.        *)
Effective(p, k) ==
    IF k \in SkipMerge \/ k \notin p.plugins THEN p[k]
    ELSE O.policy.share[p.refs[1][k]]

(* The resources a written policy came from.                               *)
Origins(p) ==
    UNION {{[cr |-> r, ft |-> c] : r \in {x \in RulesOf(Loaded, c) :
                                            x.name = p.rule}} : c \in Loaded.fts}

Strongest(chain) == IF chain = <<>> THEN Nil ELSE <<chain[1]>>

OtelSetting(chain, s, default) ==
    LET set == {i \in DOMAIN chain : s \in DOMAIN chain[i]}
    IN  IF set = {} THEN default ELSE chain[Min(set)][s]

(* A request meets the timeout and the authentication of its rule, else    *)
(* of the frontend, else of the alb, and every otel setting from the       *)
(* strongest of the three that makes it; sharing equal configurations      *)
(* between policies never gives a policy another one's (extctl.go          *)
(* MergeSamePolicyConfig, timeout.go, auth.go and otel.go ToInternalRule). *)
ConfigRight ==
    out # Nil =>
      \A p \in O.policy.http : \A o \in Origins(p) :
        LET alb == Loaded.conf
            otel == o.cr.otel \o o.ft.otel \o alb.otel
        IN  /\ Effective(p, "timeout") =
                  Strongest(o.cr.timeout \o o.ft.timeout \o alb.timeout)
            /\ Effective(p, "auth") =
                  Strongest(o.cr.auth \o o.ft.auth \o alb.auth)
            /\ (Effective(p, "otel") # Nil) <=>
                  (OtelSetting(otel, "enable", "false") = "true")
            /\ Effective(p, "otel") # Nil =>
                  Effective(p, "otel")[1]["sampler"] =
                    OtelSetting(otel, "sampler", "always_on")

(* The addresses of a service as the cluster knows them: a port given by   *)
(* name is the one its own subset has.                                     *)
Addresses(cluster, ref, protocol) ==
    LET svc == cluster.svcs[<<ref.ns, ref.name>>]
        fits == {p \in Range(svc.ports) : p.protocol = protocol
                                         /\ p.port = ref.port}
        Ports(sub, p) == IF p.target # 0 THEN {p.target}
                         ELSE {e.port : e \in {x \in Range(sub.ports) :
                                                  x.name = p.name}}
    IN  CASE <<ref.ns, ref.name>> \notin DOMAIN cluster.svcs -> {}
          [] OTHER ->
               IF svc.type = "ExternalName"
               THEN {<<h, ref.port>> : h \in UNION {Range(x) : x \in Range(svc.hosts)}}
               ELSE UNION {UNION {Range(sub.addrs) \X Ports(sub, p) : p \in fits} :
                             sub \in UNION {Range(x) : x \in Range(svc.eps)}}

(* The upstream a policy names exists once, and holds the addresses its    *)
(* services had when the generation looked them up; a backend has a weight *)
(* exactly when its service has one, and of two services with as many      *)
(* backends the heavier one's are not lighter (policy_backend.go           *)
(* generateBackend, pickAllBackendGroup; kubernetes.go GetEndPointAddress).*)
(* Only a default policy without any backend names a missing upstream.     *)
BackendsRight ==
    out # Nil =>
      \A ft \in ServedFts(O.fts) :
        LET protocol == FtProtocolToServiceProtocol(ft.protocol)
            cluster == WorldOf(O.filled).cluster
            Right(name, refs) ==
              LET groups == {g \in O.policy.groups : g.name = name}
                  bs == UNION {Range(g.backends) : g \in groups}
                  Count(r) == Cardinality({b \in bs : b.svc = r})
              IN  /\ Cardinality(groups) = 1
                  /\ \A r \in Range(refs) :
                       {<<b.at.ip, b.at.port>> : b \in {x \in bs : x.svc = r
                                                         /\ ~x.at.other}}
                         = Addresses(cluster, r, protocol)
                  /\ \A b \in bs : b.weight = 0 <=> Clamp(b.svc.weight) = 0
                  /\ \A b, c \in bs :
                       /\ Count(b.svc) = Count(c.svc)
                       /\ b.svc.weight >= c.svc.weight
                       => b.weight >= c.weight
        IN  /\ \A r \in {x \in ft.rules : x.redirect = Nil} : Right(r.id, r.svcs)
            /\ ft.backends \notin {Nil, <<<<>>>>} => Right(ft.group, ft.svcs)
            /\ \A p \in Written :
                 p.ft = FtString(ft) /\ p.upstream # Nil =>
                   \/ \E g \in O.policy.groups : g.name = p.upstream
                   \/ ft.backends = <<<<>>>>

HostOp(p) ==
    LET rules == UNION {ft.rules : ft \in O.fts}
    IN  {t.values[1].op : t \in {x \in UNION {Range(r.dslx) : r \in
            {y \in rules : y.id = p.rule}} : x.type = "HOST"}}

(* On a port the redirect of a frontend is tried before every rule and its *)
(* default backend after every rule; among rules of one priority a         *)
(* concrete host is tried before a generic one (types.go MakeItMatchFirst, *)
(* MakeItMatchLast, helper.go Less, v1/types.go Priority).                 *)
MatchOrder ==
    out # Nil =>
      \A p, q \in O.policy.http :
        p.port = q.port /\ p # q =>
          LET ftp == \E ft \in O.fts : ft.name # Nil /\ ft.name = p.rule
              ftq == \E ft \in O.fts : ft.name # Nil /\ ft.name = q.rule
          IN  /\ ftp /\ ~ftq /\ p.redirect # Nil => Less(p, q) /\ ~Less(q, p)
              /\ ftp /\ ~ftq /\ p.redirect = Nil => Less(q, p) /\ ~Less(p, q)
              /\ /\ ~ftp /\ ~ftq /\ p.prio = q.prio
                 /\ HostOp(p) \cap {"EQ", "IN"} # {}
                 /\ HostOp(q) = {"ENDS_WITH"}
                 => Less(p, q) /\ ~Less(q, p)

(* A client that names a domain on an https port gets the certificate the  *)
(* rules of that port give the domain, if its secret is valid, whatever    *)
(* the other ports give it (cert.go composed with cert_tool.lua).          *)
CertRight ==
    out # Nil =>
      LET raw == GetCertsFromRule(O.fts)
      IN  \A r \in raw :
            LET cert == FirstCert(raw, r.domain, r.port)
            IN  cert \in WorldOf(O.made).secrets =>
                  LookupCert(O.policy.certs, r.domain, r.port) = {cert}

(* A policy that sends a request to a location finds it in the server of   *)
(* its frontend, with the settings of its own rule (waf.go ToPolicy and    *)
(* UpdateNgxTmpl).                                                         *)
LocationRight ==
    out # Nil =>
      \A p \in O.policy.http : p.loc # Nil =>
        \E server \in O.conf :
          /\ server.ft = p.ft
          /\ p.loc[1] \in DOMAIN server.locations
          /\ \A o \in Origins(p) :
               LET own == Strongest(o.cr.waf \o o.ft.waf \o Loaded.conf.waf)
               IN  /\ own # Nil
                   /\ server.locations[p.loc[1]] =
                        GenLocation(own[1], WorldOf(O.filled).cms)

(* nginx.conf has a server for exactly the ports that have policies or may *)
(* have them; a frontend whose port another process holds is in neither    *)
(* file (policy.go GenerateAlbPolicy, ngxconf_tmpl.go).                    *)
ConfAgrees ==
    out # Nil =>
      LET ports == {s.port : s \in O.conf}
      IN  /\ \A p \in Written : \E s \in O.conf : s.ft = p.ft /\ s.port = p.port
          /\ \A s \in O.conf : s.protocol \in {"tcp", "udp"} =>
                \E p \in O.policy.stream : p.port = s.port
          /\ \A c \in Loaded.fts : c.name \in Loaded.conflict =>
                \A s \in O.conf :
                   s.ft # Loaded.conf.name \o <<c.port, ProtocolNumber(c.protocol)>>

(* No https frontend sends the requests of an ingress back to itself: a    *)
(* redirect made from annotations leaves the port, the host or the path    *)
(* (redirect.go IngressWithFtAnnotationToRule).                            *)
NoRedirectLoop ==
    out # Nil =>
      \A p \in O.policy.http : \A o \in Origins(p) :
        o.ft.protocol = "https" /\ o.cr.source # Nil /\ p.redirect # Nil =>
          LET r == p.redirect[1]
          IN  r.url # "" \/ r.host # "" \/ r.port \notin {0, o.ft.port}

(* A policy is the one its rule asks for: its configuration, its location  *)
(* and its redirect (extctl.go, waf.go, redirect.go).                      *)
PolicyRight == ConfigRight /\ LocationRight /\ NoRedirectLoop

(* Every rule of a frontend and every match of a route that a gateway      *)
(* serves has its policy on its port: no other listener, route or frontend *)
(* takes it away (nginx.go MergeLBConfig, httproute.go, tcp.go).           *)
EveryRuleServed ==
    out # Nil =>
      LET w == Loaded
          Has(port, id) == \E p \in Written : p.port = port /\ p.rule = id
          alb == IF "alb" \in w.conf.enabled THEN w.fts ELSE {}
      IN  /\ \A c \in alb : c.name \notin w.conflict /\ c.protocol \in {"http", "https"}
               => \A r \in RulesOf(w, c) : r.matcher /\ DslOk(r.dslx)
                     => Has(c.port, r.name)
          /\ "gateway" \in w.conf.enabled =>
              \A l \in Range(w.listeners) : l.port \notin ReservedPorts =>
                /\ l.protocol = "HTTP" =>
                    \A r \in Range(l.routes) : r.kind = "HTTPRoute" =>
                      \A i \in DOMAIN r.rules :
                        (\A b \in Range(r.rules[i].refs) : b.ok) =>
                          \A j \in DOMAIN r.rules[i].matches :
                            (\A t \in Range(r.rules[i].matches[j].path) :
                                t.type # "Unknown")
                            => Has(l.port, <<l.port>> \o l.gw \o l.name
                                             \o r.name \o <<i, j>>)
                /\ /\ TcpFits(l)
                   /\ \A m \in Range(w.listeners) : TcpFits(m) =>
                        \A b \in Range(m.routes[1].rules[1].refs) : b.ok
                   /\ ~\E c \in alb : c.port = l.port /\ c.protocol = "tcp"
                   => Has(l.port, <<l.port>> \o l.routes[1].name)

(* What was written was read from the cluster as it is now, and the VIP    *)
(* service has its ports, unless the API server refuses them.              *)
Current ==
    /\ out # Nil
    /\ O.loaded = world /\ O.filled = world /\ O.made = world
    /\ WorldOf(world).vip /\ ~PortsClash(O.fts) => vip = LbSvcPorts(O.fts)

(* Once the cluster stops changing, the files and the VIP service come to  *)
(* be those of the cluster as it is, unless the generation panics for ever *)
(* (alb.go: the reload loop generates again and again).                    *)
Settles == <>[]Current \/ []<>(stage = "dead")

(* The policies of every http rule have a reference map to share their     *)
(* configuration through: "source init in RuleToInternalRule"              *)
(* (policy_l7.go:71).                                                      *)
SourcesMade == stage = "filled" => ~Panics(lb[1].fts)
=============================================================================
