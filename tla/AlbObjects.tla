----------------------------- MODULE AlbObjects -----------------------------
(***************************************************************************)
(* The objects an alb is deployed with: what the operator generates from   *)
(* its configuration, and the comparisons that decide about an update.     *)
(*                                                                         *)
(* A map of labels is a set of pairs.  A map that may be missing is a      *)
(* sequence: <<>> for nil.  Parts of an object that are the same for every *)
(* alb and every version (commands, security context, update strategy,     *)
(* file names) are left out.                                               *)
(***************************************************************************)
EXTENDS AlbConfig, FiniteSets

-----------------------------------------------------------------------------
(* Labels. *)

\* ALB2ResourceLabel; long: whether namespace_name has 63 characters or more.
ALBLabel(a, long) ==
  {<<"albname", a.Name>>, <<"albns", a.Ns>>}
    \cup IF long THEN {} ELSE {<<"legacy", a.Ns, a.Name>>}
OperatorLabel(ver) == {<<"version", ToString(ver)>>, <<"managed-by", "alb-operator">>}
ALB2ResourceLabel(a, long, ver) == ALBLabel(a, long) \cup OperatorLabel(ver)

ServiceName(a) == <<"service_name", "alb2", a.Name>>

\* genExpectAlb: the labels of the alb itself.
ExpectAlbLabel(a) ==
  {<<"project", p>> : p \in a.Project.Projects}
    \cup (IF a.Project.EnablePortProject THEN {<<"role", "port">>} ELSE {})
    \cup (IF a.Overwrite.Configmap = {} THEN {} ELSE {<<"overwrite-configmap", "true">>})

-----------------------------------------------------------------------------
(* The deployment. *)

\* The last patch for this version decides, image by image; Target: the versions a patch is
\* for, all of them if it names none; an image that is not patched is <<>>.
GenImagePatch(a, ver) ==
  LET own == <<"operator", ToString(ver)>>
      forAlb(p) == ver \in p.Target /\ p.Alb # <<>>
      forNginx(p) == ver \in p.Target /\ p.Nginx # <<>>
      albs == SelectSeq(a.Overwrite.Image, forAlb)
      nginxs == SelectSeq(a.Overwrite.Image, forNginx)
  IN [alb |-> IF albs = <<>> THEN own ELSE albs[Len(albs)].Alb,
      nginx |-> IF nginxs = <<>> THEN own ELSE nginxs[Len(nginxs)].Nginx]

HasImagePatch(a, ver) ==
  \E i \in DOMAIN a.Overwrite.Image :
    LET p == a.Overwrite.Image[i] IN ver \in p.Target /\ (p.Alb # <<>> \/ p.Nginx # <<>>)

\* Mutated form: the selector follows the version.
PodSelectorByVersion(a, ver) == {ServiceName(a), <<"alb2/version", ToString(ver)>>}

\* "不能动这里的label,否则会因为label不一致导致更新失败".
PodSelector(a, ver) == {ServiceName(a), <<"service/name", "deployment", a.Name>>}

TypeLabel(a) == <<"alb2/type", a.Deploy.AntiAffinityKey>>

ExpectPodLabel(a, ver) ==
  {<<"product", "Platform-Center">>, <<"pod_type", "alb">>, <<"alb2/version", ToString(ver)>>,
   ServiceName(a), <<"service/name", "deployment", a.Name>>}
    \cup IF a.Controller.NetworkMode = "host" THEN {TypeLabel(a)} ELSE {}

\* On the host network two albs of one group must not share a node.
GenExpectAffinity(a) ==
  [label |-> TypeLabel(a),
   rule |-> IF a.Controller.NetworkMode = "host" THEN "required" ELSE "preferred"]

Tolerations(tolerateAll) ==
  IF tolerateAll THEN {"all"}
  ELSE {"master", "control-plane", "cpaas-system", "not-ready"}

\* What a user writes besides spec.config, in annotations: tolerate-all and nginx-env.
ExpectConfig(a, long, ver, ann) ==
  LET img == GenImagePatch(a, ver)
      host == a.Controller.NetworkMode = "host"
  IN [Spec |-> [DeployLabel |-> ALB2ResourceLabel(a, long, ver), Replica |-> a.Deploy.Replicas,
                Hostnetwork |-> host,
                Dnspolicy |-> IF host THEN "ClusterFirstWithHostNet" ELSE "ClusterFirst",
                PodLabel |-> ExpectPodLabel(a, ver), PodSelector |-> PodSelector(a, ver),
                Nodeselector |-> <<a.Deploy.NodeSelector>>,
                Tolerations |-> Tolerations(ann.tolerateAll),
                Affinity |-> GenExpectAffinity(a), ServiceAccount |-> a.Name],
      Alb |-> [Image |-> img.alb, Env |-> GetALBContainerEnvs(a), ReadOnly |-> a.OpFlags.ReadOnlyFs,
               Resource |-> a.Deploy.AlbResource, ProbePort |-> 0],
      Nginx |-> [Image |-> img.nginx, Env |-> GetNginxContainerEnvs(a, ver, ann.nginxEnv),
                 ReadOnly |-> a.OpFlags.ReadOnlyFs, Resource |-> a.Deploy.NginxResource,
                 ProbePort |-> a.Controller.MetricsPort],
      Vol |-> [ConfigMap |-> a.Name,
               Mounts |-> [alb2 |-> {"share-conf", "tweak-conf"},
                           nginx |-> {"share-conf", "tweak-conf", "nginx-run"}]]]

\* Generate: the whole pod template is replaced; an empty node selector becomes nil.
Generate(a, long, ver, ann) ==
  [ExpectConfig(a, long, ver, ann) EXCEPT
     !.Spec.Nodeselector = IF Head(@) = {} THEN <<>> ELSE @]

\* The API server keeps no empty map.
Stored(depl) ==
  [depl EXCEPT !.Spec.Nodeselector = IF @ = <<>> \/ @ = <<{}>> THEN <<>> ELSE @]

\* pickConfigFromDeploy: what is compared.  The selector is read from the pod's labels, the
\* DNS policy not at all.
PickConfigFromDeploy(depl) ==
  [depl EXCEPT !.Spec.PodSelector = depl.Spec.PodLabel, !.Spec.Dnspolicy = ""]

NeedUpdate(cur, latest) == PickConfigFromDeploy(cur) # PickConfigFromDeploy(latest)

\* What the API server asks of a deployment and of its update.
ValidDeploy(depl) == depl.Spec.PodSelector \subseteq depl.Spec.PodLabel
ValidDeployUpdate(cur, latest) ==
  ValidDeploy(latest) /\ latest.Spec.PodSelector = cur.Spec.PodSelector

-----------------------------------------------------------------------------
(* Configmaps, services, classes. *)

\* FindConfigmapPatch: whether a configmap overwrites the snippets of this version.
HasConfigmapPatch(a, ver) == \E target \in a.Overwrite.Configmap : ver \in target

\* genExpectConfigmap; snippets: those of the overwriting configmap, or "base".  The
\* binding of interfaces is never overwritten.
GenConfigmap(a, snippets) == [snippets |-> snippets, bind_nic |-> a.BindNic]

GenPortInfoConfigmap(a) == [range |-> a.Project.PortProjects]

\* patchMonitorSvcDefaultConfig.
PatchMonitorSvc(a, long, ver) ==
  LET port(name, n) == IF n = 0 THEN <<>> ELSE <<[Name |-> name, Port |-> n]>>
  IN [Labels |-> ALB2ResourceLabel(a, long, ver) \cup {ServiceName(a)},
      Selector |-> {ServiceName(a)},
      Ports |-> <<[Name |-> "https-metrics", Port |-> a.Controller.MetricsPort]>>
                  \o port("http", a.Controller.HttpPort)
                  \o port("https", a.Controller.HttpsPort)]

\* The labels and the selector that patchLbSvcDefaultConfig gives a load balancer service.
PatchLbSvc(a, long, ver) ==
  [Labels |-> ALB2ResourceLabel(a, long, ver) \cup {<<"service_type", "lb">>},
   Selector |-> {ServiceName(a)}]

\* findNeedDeleteAnnotation: the keys written last time that are not wanted any more.
FindNeedDeleteAnnotation(last, latest) == {k[1] : k \in last} \ {k[1] : k \in latest}

\* Mutated form: annotations are only added.
PatchLbAnnotationsOnly(ann, last, latest) ==
  {k \in ann : k[1] \notin {w[1] : w \in latest}} \cup latest

\* The annotations after the update: what others wrote stays.
PatchLbAnnotations(ann, last, latest) ==
  LET gone == FindNeedDeleteAnnotation(last, latest)
  IN {k \in ann : k[1] \notin gone \cup {w[1] : w \in latest}} \cup latest

\* The first entry with the port decides; a port of its own is a range of one.
GetProjectByPort(port, portProjects) ==
  LET hits == {n \in DOMAIN portProjects : port \in portProjects[n].ports}
  IN IF hits = {} THEN {}
     ELSE portProjects[CHOOSE n \in hits : \A m \in hits : n <= m].projects

GenProjects(a) ==
  LET http == GetProjectByPort(a.Controller.HttpPort, a.Project.PortProjects)
      https == GetProjectByPort(a.Controller.HttpsPort, a.Project.PortProjects)
  IN CASE ~a.Project.EnablePortProject -> a.Project.Projects
       [] a.Project.EnablePortProject /\ "ALL_ALL" \in http -> https
       [] a.Project.EnablePortProject /\ "ALL_ALL" \notin http /\ "ALL_ALL" \in https -> http
       [] OTHER -> http \cap https

GenExpectIngressClass(a, long, ver) ==
  [Labels |-> ALB2ResourceLabel(a, long, ver), Default |-> a.OpFlags.DefaultIngressClass,
   Projects |-> GenProjects(a), Controller |-> "alb2"]

\* The gatewayclass has the name of the alb, whatever class the instance serves.
GenGatewayClass(a) == [Name |-> a.Name, Parameters |-> a.Name]

\* The three objects the instance gets its rights from; the rules come with the version.
GenClusterRole(a, long, ver) ==
  [Rules |-> ver, Labels |-> ALB2ResourceLabel(a, long, ver)]
GenClusterRoleBind(a, long, ver) ==
  [Subject |-> a.Name, Labels |-> ALB2ResourceLabel(a, long, ver)]
GenServiceAccount(a, long, ver) ==
  [Name |-> a.Name, Labels |-> ALB2ResourceLabel(a, long, ver)]

\* FeatureCr and the comparison of DoUpdate: by the address alone.
FeatureCr(addr) == [host |-> addr]
=============================================================================
