----------------------------- MODULE AlbConfig -----------------------------
(***************************************************************************)
(* The configuration of an alb on its way from the resource to the         *)
(* running instance: the operator fills in defaults and lets settings      *)
(* overrule one another (NewALB2Config), writes the result into the        *)
(* environment of the two containers, and the instance reads it back       *)
(* (AlbRunCfgFromEnv).                                                     *)
(*                                                                         *)
(* spec.config is a record with the fields the user has set.  A name with  *)
(* slashes is the sequence of its parts; a quantity is a number with its   *)
(* unit; a map whose values do not matter is the set of its entries.       *)
(***************************************************************************)
EXTENDS Naturals, Sequences, TLC

MaxInt == 3000     \* bound: the numbers an environment variable may hold

\* The map f, with the entries of g under the keys that f lacks.
Overlay(f, g) ==
  [x \in DOMAIN f \cup DOMAIN g |-> IF x \in DOMAIN f THEN f[x] ELSE g[x]]

-----------------------------------------------------------------------------
(* Defaults. *)

Limit(cpu, mem) == [CPU |-> cpu, Memory |-> mem]
Cores(n) == [n |-> n, unit |-> ""]
Milli(n) == [n |-> n, unit |-> "m"]
Mega(n) == [n |-> n, unit |-> "Mi"]
Giga(n) == [n |-> n, unit |-> "Gi"]

DefaultResources ==
  [NginxLimits |-> Limit(Cores(2), Giga(2)), NginxRequests |-> Limit(Milli(50), Mega(128)),
   AlbLimits |-> Limit(Milli(200), Giga(2)), AlbRequests |-> Limit(Milli(50), Mega(128))]

DefaultConfig ==
  [NetworkMode |-> "host", Replicas |-> 3, NodeSelector |-> {}, AntiAffinityKey |-> "local",
   EnableAlb |-> TRUE, EnablePrometheus |-> "true", EnablePortprobe |-> "true",
   EnablePortProject |-> FALSE, EnableIPV6 |-> "true", EnableHTTP2 |-> "true",
   EnableIngress |-> "true", DefaultIngressClass |-> FALSE, EnableCrossClusters |-> "false",
   EnableGzip |-> "true", EnableGoMonitor |-> FALSE, EnableProfile |-> FALSE,
   PolicyZip |-> FALSE, ReadonlyFS |-> TRUE,
   DefaultSSLCert |-> "", DefaultSSLStrategy |-> "Never",
   IngressHTTPPort |-> 80, IngressHTTPSPort |-> 443, MetricsPort |-> 1936,
   GoMonitorPort |-> 1937, WorkerLimit |-> 8, ResyncPeriod |-> 300, Backlog |-> 2048,
   ReloadTimeout |-> 600, Interval |-> 5, MaxTermSeconds |-> 30,
   Gateway |-> <<>>, Resources |-> <<>>, Projects |-> {}, PortProjects |-> <<>>,
   BindNIC |-> "{}", Vip |-> <<>>, Overwrite |-> <<>>]

\* What the user wrote wins, field by field, in each resource too.
NewExternalAlbConfigWithDefault(spec) ==
  LET ec == Overlay(spec, DefaultConfig)
  IN [ec EXCEPT !.Resources =
        [r \in DOMAIN DefaultResources |->
           IF r \in DOMAIN ec.Resources THEN Overlay(ec.Resources[r], DefaultResources[r])
           ELSE DefaultResources[r]]]

-----------------------------------------------------------------------------
(* The operator's configuration. *)

\* toBool of a flag that is a string.
IsTrue(x) == x \in {"true", "True", "TRUE"}

\* "less 1c will be 1. 600m=>1 1800m>2 2000m>2".
CpuPresetToCore(q) ==
  LET val == IF q.unit = "m" THEN (q.n + 999) \div 1000 ELSE q.n
  IN IF val < 1 THEN 1 ELSE val

\* A quantity as the API server prints it: in the largest unit that leaves it whole.
Canonical(q) ==
  CASE q.unit = "m" /\ q.n % 1000 = 0  -> Cores(q.n \div 1000)
    [] q.unit = "Mi" /\ q.n % 1024 = 0 -> Giga(q.n \div 1024)
    [] OTHER -> q

ToResource(limits, requests) ==
  [Limits |-> Limit(Canonical(limits.CPU), Canonical(limits.Memory)),
   Requests |-> Limit(Canonical(requests.CPU), Canonical(requests.Memory))]

MergeController(ec) ==
  [BackLog |-> ec.Backlog, NetworkMode |-> ec.NetworkMode, MetricsPort |-> ec.MetricsPort,
   HttpPort |-> ec.IngressHTTPPort, HttpsPort |-> ec.IngressHTTPSPort,
   SSLCert |-> ec.DefaultSSLCert, DefaultSSLStrategy |-> ec.DefaultSSLStrategy,
   MaxTermSeconds |-> ec.MaxTermSeconds, ReloadTimeout |-> ec.ReloadTimeout,
   Interval |-> ec.Interval, CpuPreset |-> CpuPresetToCore(ec.Resources.NginxLimits.CPU),
   WorkerLimit |-> ec.WorkerLimit, ResyncPeriod |-> ec.ResyncPeriod,
   GoMonitorPort |-> ec.GoMonitorPort]

\* EnablePortProject is left out: it concerns the operator alone (see MergeProject).
FlagsFromCr(ec, vip) ==
  [EnableAlb |-> ec.EnableAlb, EnablePrometheus |-> IsTrue(ec.EnablePrometheus),
   EnablePortProbe |-> IsTrue(ec.EnablePortprobe), EnableIPV6 |-> IsTrue(ec.EnableIPV6),
   EnableHTTP2 |-> IsTrue(ec.EnableHTTP2), EnableGzip |-> IsTrue(ec.EnableGzip),
   EnableCrossClusters |-> IsTrue(ec.EnableCrossClusters),
   EnableGoMonitor |-> ec.EnableGoMonitor, EnableProfile |-> ec.EnableProfile,
   EnableIngress |-> IsTrue(ec.EnableIngress), PolicyZip |-> ec.PolicyZip,
   EnableLbSvc |-> vip.EnableLbSvc]

MergeDeploy(ec) ==
  [Replicas |-> ec.Replicas, AntiAffinityKey |-> ec.AntiAffinityKey,
   NodeSelector |-> ec.NodeSelector,
   NginxResource |-> ToResource(ec.Resources.NginxLimits, ec.Resources.NginxRequests),
   AlbResource |-> ToResource(ec.Resources.AlbLimits, ec.Resources.AlbRequests)]

MergeProject(ec) ==
  [EnablePortProject |-> ec.EnablePortProject, Projects |-> ec.Projects,
   PortProjects |-> ec.PortProjects]

MergeOperatorFlags(ec) ==
  [DefaultIngressClass |-> ec.DefaultIngressClass, ReadOnlyFs |-> ec.ReadonlyFS]

NoVip == [EnableLbSvc |-> FALSE, LbSvcAnnotations |-> {}]
NoOverwrite == [Image |-> <<>>, Configmap |-> {}]
NoGateway == [Enable |-> FALSE, Mode |-> "", Class |-> <<>>, GatewayName |-> "", GatewayNS |-> ""]

\* Mutated form: the instance is not told of its load balancer service.
EnableVipServiceOnly(a) == [a EXCEPT !.Vip.EnableLbSvc = TRUE]

EnableVip(a) == [a EXCEPT !.Vip.EnableLbSvc = TRUE, !.Flags.EnableLbSvc = TRUE]

EnableContainerMode(a) ==
  [a EXCEPT !.Controller.NetworkMode = "container", !.Flags.EnablePortProbe = FALSE]

GatewayOff(g) ==
  \/ "Enable" \in DOMAIN g /\ ~g.Enable
  \/ "Enable" \notin DOMAIN g /\ "Mode" \notin DOMAIN g

\* A gateway without a mode is a shared one, with the alb's name if it has none.
SharedGateway(g, a) ==
  [a EXCEPT !.Gateway = [NoGateway EXCEPT !.Enable = TRUE, !.Mode = "shared",
                           !.Class = IF "Name" \in DOMAIN g THEN g.Name ELSE <<a.Name>>]]

\* Its own gateway: the name may carry a namespace.  It takes a load balancer service and
\* the container network, and turns the rest of the alb off.
StandAloneGateway(g, a) ==
  LET parts == Len(g.Name)
      own == EnableContainerMode(EnableVip(a))
  IN [own EXCEPT
        !.Gateway = [NoGateway EXCEPT !.Enable = TRUE, !.Mode = "standalone",
                       !.GatewayName = IF parts \in {1, 2} THEN g.Name[1] ELSE a.Name,
                       !.GatewayNS = IF parts = 2 THEN g.Name[2] ELSE a.Ns],
        !.Flags.EnableAlb = FALSE, !.Flags.EnableIngress = FALSE,
        !.Flags.EnablePortProbe = FALSE]

GatewayFromCr(ec, a) ==
  LET g == ec.Gateway
  IN CASE GatewayOff(g) -> a
       [] ~GatewayOff(g) /\ ("Mode" \notin DOMAIN g \/ g.Mode = "shared") -> SharedGateway(g, a)
       [] ~GatewayOff(g) /\ "Mode" \in DOMAIN g /\ g.Mode = "standalone" /\ "Name" \in DOMAIN g
            -> StandAloneGateway(g, a)
       [] OTHER -> a

\* Merge: the order matters, the gateway overrules what came before it.
NewALB2Config(name, ns, spec) ==
  LET ec == NewExternalAlbConfigWithDefault(spec)
      vip == Overlay(ec.Vip, NoVip)
  IN GatewayFromCr(ec,
       [Name |-> name, Ns |-> ns, Vip |-> vip, Gateway |-> NoGateway,
        Controller |-> MergeController(ec), Flags |-> FlagsFromCr(ec, vip),
        Deploy |-> MergeDeploy(ec), Project |-> MergeProject(ec), BindNic |-> ec.BindNIC,
        Overwrite |-> Overlay(ec.Overwrite, NoOverwrite), OpFlags |-> MergeOperatorFlags(ec)])

\* What the type of spec.config lets a user write: a field may be missing.
Optional(r, f, S) == f \in DOMAIN r => r[f] \in S
NumberField == {"IngressHTTPPort", "IngressHTTPSPort", "MetricsPort", "GoMonitorPort", "WorkerLimit",
                "ResyncPeriod", "Backlog", "ReloadTimeout", "Interval", "MaxTermSeconds"}
FlagField == {"EnableAlb", "EnableGoMonitor", "EnableProfile", "PolicyZip"}
ExternalAlbConfig(spec) ==
  /\ \A f \in NumberField : Optional(spec, f, 0..MaxInt)
  /\ \A f \in FlagField : Optional(spec, f, BOOLEAN)
  /\ "Vip" \in DOMAIN spec => Optional(spec.Vip, "EnableLbSvc", BOOLEAN)
  /\ "Resources" \in DOMAIN spec /\ "NginxLimits" \in DOMAIN spec.Resources
       /\ "CPU" \in DOMAIN spec.Resources.NginxLimits
       => CpuPresetToCore(spec.Resources.NginxLimits.CPU) \in 0..MaxInt

-----------------------------------------------------------------------------
(* Into the environment and back. *)

IntToEnv(x) == ToString(x)
BoolToEnv(x) == IF x THEN "true" ELSE "false"
ToInt(s) == CHOOSE n \in 0..MaxInt : ToString(n) = s
ToBool(s) == IsTrue(s)

\* strconv.Itoa: no two numbers print alike.
ASSUME Decimals == \A m, n \in 0..MaxInt : IntToEnv(m) = IntToEnv(n) => m = n

GatewayEnvs(g) ==
  CASE ~g.Enable -> [GATEWAY_ENABLE |-> "false"]
    [] g.Enable /\ g.Mode = "shared" ->
         [GATEWAY_ENABLE |-> "true", GATEWAY_MODE |-> g.Mode, GATEWAY_CLASSNAME |-> g.Class]
    [] OTHER ->
         [GATEWAY_ENABLE |-> "true", GATEWAY_MODE |-> g.Mode,
          GATEWAY_NAME |-> g.GatewayName, GATEWAY_NS |-> g.GatewayNS]

AlbEnvs(a) ==
  LET c == a.Controller
      f == a.Flags
  IN [NAME |-> a.Name, NAMESPACE |-> a.Ns, NETWORK_MODE |-> c.NetworkMode,
      ENABLE_VIP |-> BoolToEnv(f.EnableLbSvc), DEFAULT_SSL_STRATEGY |-> c.DefaultSSLStrategy,
      DEFAULT_SSL_CERTIFICATE |-> c.SSLCert, MAX_TERM_SECONDS |-> IntToEnv(c.MaxTermSeconds),
      RELOAD_TIMEOUT |-> IntToEnv(c.ReloadTimeout), INTERVAL |-> IntToEnv(c.Interval),
      ENABLE_PROMETHEUS |-> BoolToEnv(f.EnablePrometheus),
      ENABLE_PORTPROBE |-> BoolToEnv(f.EnablePortProbe), ENABLE_IPV6 |-> BoolToEnv(f.EnableIPV6),
      ENABLE_HTTP2 |-> BoolToEnv(f.EnableHTTP2), ENABLE_GZIP |-> BoolToEnv(f.EnableGzip),
      ENABLE_GO_MONITOR |-> BoolToEnv(f.EnableGoMonitor),
      ENABLE_PROFILE |-> BoolToEnv(f.EnableProfile),
      GO_MONITOR_PORT |-> IntToEnv(c.GoMonitorPort), BACKLOG |-> IntToEnv(c.BackLog),
      POLICY_ZIP |-> BoolToEnv(f.PolicyZip),
      SERVE_CROSSCLUSTERS |-> BoolToEnv(f.EnableCrossClusters),
      SERVE_INGRESS |-> BoolToEnv(f.EnableIngress), METRICS_PORT |-> IntToEnv(c.MetricsPort),
      RESYNC_PERIOD |-> IntToEnv(c.ResyncPeriod), WORKER_LIMIT |-> IntToEnv(c.WorkerLimit),
      CPU_PRESET |-> IntToEnv(c.CpuPreset), INGRESS_HTTP_PORT |-> IntToEnv(c.HttpPort),
      INGRESS_HTTPS_PORT |-> IntToEnv(c.HttpsPort), ALB_ENABLE |-> BoolToEnv(f.EnableAlb)]

GetALBContainerEnvs(a) == Overlay(AlbEnvs(a), GatewayEnvs(a.Gateway))

\* inject: the variables of the annotation alb.cpaas.io/nginx-env.
GetNginxContainerEnvs(a, ver, inject) ==
  [SYNC_POLICY_INTERVAL |-> "1", CLEAN_METRICS_INTERVAL |-> "2592000",
   DEFAULT_SSL_STRATEGY |-> a.Controller.DefaultSSLStrategy,
   INGRESS_HTTPS_PORT |-> IntToEnv(a.Controller.HttpsPort),
   MAX_TERM_SECONDS |-> IntToEnv(a.Controller.MaxTermSeconds),
   POLICY_ZIP |-> BoolToEnv(a.Flags.PolicyZip),
   NAME |-> a.Name, ALB_NS |-> a.Ns, ALB_VER |-> ToString(ver), INJECTED |-> inject]

ControllerFromEnv(env) ==
  [BackLog |-> ToInt(env.BACKLOG), NetworkMode |-> env.NETWORK_MODE,
   MetricsPort |-> ToInt(env.METRICS_PORT), HttpPort |-> ToInt(env.INGRESS_HTTP_PORT),
   HttpsPort |-> ToInt(env.INGRESS_HTTPS_PORT), SSLCert |-> env.DEFAULT_SSL_CERTIFICATE,
   DefaultSSLStrategy |-> env.DEFAULT_SSL_STRATEGY,
   MaxTermSeconds |-> ToInt(env.MAX_TERM_SECONDS),
   ReloadTimeout |-> ToInt(env.RELOAD_TIMEOUT), Interval |-> ToInt(env.INTERVAL),
   CpuPreset |-> ToInt(env.CPU_PRESET), WorkerLimit |-> ToInt(env.WORKER_LIMIT),
   ResyncPeriod |-> ToInt(env.RESYNC_PERIOD), GoMonitorPort |-> ToInt(env.GO_MONITOR_PORT)]

FlagsFromEnv(env) ==
  [EnableAlb |-> ToBool(env.ALB_ENABLE), EnablePrometheus |-> ToBool(env.ENABLE_PROMETHEUS),
   EnablePortProbe |-> ToBool(env.ENABLE_PORTPROBE), EnableIPV6 |-> ToBool(env.ENABLE_IPV6),
   EnableHTTP2 |-> ToBool(env.ENABLE_HTTP2), EnableGzip |-> ToBool(env.ENABLE_GZIP),
   EnableCrossClusters |-> ToBool(env.SERVE_CROSSCLUSTERS),
   EnableGoMonitor |-> ToBool(env.ENABLE_GO_MONITOR),
   EnableProfile |-> ToBool(env.ENABLE_PROFILE), EnableIngress |-> ToBool(env.SERVE_INGRESS),
   PolicyZip |-> ToBool(env.POLICY_ZIP), EnableLbSvc |-> ToBool(env.ENABLE_VIP)]

\* Mutated form: name and namespace of the gateway are swapped.
GatewayFromEnvSwapped(env) ==
  CASE ~ToBool(env.GATEWAY_ENABLE) -> NoGateway
    [] ToBool(env.GATEWAY_ENABLE) /\ env.GATEWAY_MODE = "standalone" ->
         [NoGateway EXCEPT !.Enable = TRUE, !.Mode = "standalone",
                           !.GatewayName = env.GATEWAY_NS, !.GatewayNS = env.GATEWAY_NAME]
    [] OTHER ->
         [NoGateway EXCEPT !.Enable = TRUE, !.Mode = "shared", !.Class = env.GATEWAY_CLASSNAME]

GatewayFromEnv(env) ==
  CASE ~ToBool(env.GATEWAY_ENABLE) -> NoGateway
    [] ToBool(env.GATEWAY_ENABLE) /\ env.GATEWAY_MODE = "standalone" ->
         [NoGateway EXCEPT !.Enable = TRUE, !.Mode = "standalone",
                           !.GatewayName = env.GATEWAY_NAME, !.GatewayNS = env.GATEWAY_NS]
    [] OTHER ->
         [NoGateway EXCEPT !.Enable = TRUE, !.Mode = "shared", !.Class = env.GATEWAY_CLASSNAME]

\* What the instance runs with.
AlbRunCfgFromEnv(env) ==
  [Name |-> env.NAME, Ns |-> env.NAMESPACE, Controller |-> ControllerFromEnv(env),
   Flags |-> FlagsFromEnv(env), Gateway |-> GatewayFromEnv(env)]

\* GetGatewayCfg: the gateways the instance watches.
GatewaySelector(run) ==
  CASE ~run.Gateway.Enable -> <<>>
    [] run.Gateway.Enable /\ run.Gateway.Mode = "standalone" ->
         <<"gateway", run.Gateway.GatewayNS, run.Gateway.GatewayName>>
    [] OTHER -> <<"class">> \o run.Gateway.Class
=============================================================================
