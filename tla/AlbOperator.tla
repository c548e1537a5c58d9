---------------------------- MODULE AlbOperator ----------------------------
(***************************************************************************)
(* The operator: it deploys an alb from its resource and takes it down.    *)
(*                                                                         *)
(* One worker takes the key of the alb from the work queue, reads the alb  *)
(* and every object that belongs to it, works out what they should be and  *)
(* makes one API call after the other.  Between any two calls users edit   *)
(* or delete the alb, the alb instance reports port conflicts or gives up  *)
(* its finalizer, the cluster reports replicas and addresses, and objects  *)
(* are deleted by others.  What wakes the operator is modelled too: an     *)
(* object whose event does not lead back to the alb wakes nobody.          *)
(*                                                                         *)
(* A configuration is known by a name; what it says, and what the objects  *)
(* made from it hold, is worked out by AlbConfig and AlbObjects, so that   *)
(* an object is described by the configuration and the version it was last *)
(* written from.                                                           *)
(***************************************************************************)
EXTENDS AlbObjects

CONSTANTS
  Conf,       \* the configurations users write
  SpecOf(_),  \* what one says: spec.config, and the annotations that go with it
  Migrated,   \* the configurations a migration left in the backup annotation
  Version,    \* versions of the operator: 1..n, installed in this order
  LbName,     \* random names of load balancer services
  OverData,   \* contents of the configmap that overwrites the nginx snippets
  LongName,   \* whether namespace_name of the alb has 63 characters or more
  Drifting,   \* the objects others may delete
  Lagging,    \* the objects whose creation the cache may see late
  Stubborn,   \* the objects whose deletion may fail in Destroy
  None,       \* no object, no configuration
  Faulty,     \* what may happen: a subset of FaultKind
  MaxEdit,    \* bound: edits by users
  MaxFault    \* bound: failed calls, crashes, upgrades, drifts, late caches

FaultKind == {"fail", "dropFail", "crash", "upgrade", "drift", "unready", "lag"}

Rbac == {"role", "bind", "sa"}
Kind == Rbac \cup {"deploy", "common", "portinfo", "monitor", "feature", "ingressclass",
                   "gatewayclass", "lease"}
Thing == Kind \cup LbName

\* What the operator makes of each configuration of the alb ns/alb.
CfgOf == [c \in Conf |-> NewALB2Config("alb", "ns", SpecOf(c).spec)]
DeployOf ==
  [c \in Conf |-> [v \in Version |-> Generate(CfgOf[c], LongName, v, SpecOf(c).ann)]]
MonitorOf == [c \in Conf |-> [v \in Version |-> PatchMonitorSvc(CfgOf[c], LongName, v)]]
LbOf == [c \in Conf |-> [v \in Version |-> PatchLbSvc(CfgOf[c], LongName, v)]]
ClassOf == [c \in Conf |-> [v \in Version |-> GenExpectIngressClass(CfgOf[c], LongName, v)]]
RbacOf ==
  LET a == [Name |-> "alb", Ns |-> "ns"]
  IN [v \in Version |-> [role |-> GenClusterRole(a, LongName, v),
                         bind |-> GenClusterRoleBind(a, LongName, v),
                         sa |-> GenServiceAccount(a, LongName, v)]]
AlbLabelOf == [c \in Conf |-> ExpectAlbLabel(CfgOf[c])]
AnnotationOf(c) == CfgOf[c].Vip.LbSvcAnnotations

Address == {"none", "ip"}

\* The annotation of whoever provides load balancers.
Cloud == <<"cloud", "1">>
Annotation == {Cloud} \cup UNION {AnnotationOf(c) : c \in Conf}

\* ver and conf: what it was last written from (None if the configuration plays no part);
\* over, addr and ann: the snippets of the configmap, the address of the Feature and the
\* annotations of a load balancer service; got: what the cluster reports of it (replicas
\* ready, an address).
Obj == [ver : Version, conf : Conf \cup {None}, over : OverData \cup {"base"}, addr : Address,
        ann : SUBSET Annotation, got : {"yes", "no"}]
State == {"Pending", "Progressing", "Warning", "Running"}
Status == [ports : {"clean", "conflict"}, deploy : {"Unset"} \cup State, addr : Address,
           ver : {0} \cup Version, patch : {"unset", "patched", "not patch"}, state : State]
Alb == [conf : Conf \cup {None}, backup : Conf \cup {None}, ignore : {"yes", "no"},
        label : {{}} \cup {AlbLabelOf[c] : c \in Conf}, fin : SUBSET {"op", "inst"},
        deleting : {"yes", "no"}, st : Status]
Over == [data : OverData, label : {"yes", "no"}]

ASSUME OperatorConstants ==
  /\ Migrated \subseteq Conf
  /\ Version = 1..Cardinality(Version) /\ 1 \in Version
  /\ LongName \in BOOLEAN
  /\ Drifting \subseteq Kind /\ Lagging \subseteq Thing /\ Stubborn \subseteq Thing
  /\ Faulty \subseteq FaultKind
  /\ LbName \cap Kind = {}
  /\ None \notin Conf \cup LbName \cup Alb \cup Obj \cup Over
  /\ MaxEdit \in Nat /\ MaxFault \in Nat

ASSUME ConfTyped == \A c \in Conf : ExternalAlbConfig(SpecOf(c).spec)

\* What nothing in the code enforces.  No configuration sets the annotation of whoever
\* provides load balancers, and none gives the class of a shared gateway another name than
\* the gatewayclass, which is named after the alb.
CloudKeyFree == \A c \in Conf : \A k \in AnnotationOf(c) : k[1] # Cloud[1]
OwnClass(spec) ==
  "Gateway" \in DOMAIN spec =>
    LET g == spec.Gateway
    IN "Name" \in DOMAIN g /\ ("Mode" \in DOMAIN g => g.Mode = "shared") => g.Name = <<"alb">>
OwnClasses == \A c \in Conf : OwnClass(SpecOf(c).spec)

VARIABLES
  alb,      \* the alb resource, None once it is gone
  obj,      \* its objects on the API server
  over,     \* the configmap of the user that overwrites snippets, or None
  unseen,   \* the objects the operator's cache has not seen yet
  queued,   \* whether the alb's key is in the work queue: "yes" or "no"
  phase,    \* whether the worker is "idle" or makes calls: "run"
  plan,     \* the API calls left to make
  after,    \* whether the key is queued again when they are made: "requeue" or "done"
  moved,    \* whether the alb has changed since the worker read it: "yes" or "no"
  version,  \* the version of the running operator
  grace,    \* whether the ten seconds since the deletion are "running" or "over"
  edits, faults

cluster == <<alb, obj, over>>
worker == <<phase, plan, after, moved>>
vars == <<cluster, unseen, queued, worker, version, grace, edits, faults>>

Call ==
  [do : {"create", "update", "delete", "drop"}, what : Thing, from : Obj \cup {None}, new : Obj]
    \cup [do : {"alb"}, alb : Alb] \cup [do : {"status"}, st : Status] \cup [do : {"label"}]

TypeOK ==
  /\ alb \in Alb \cup {None} /\ obj \in [Thing -> Obj \cup {None}]
  /\ over \in Over \cup {None} /\ unseen \subseteq Thing
  /\ queued \in {"yes", "no"} /\ phase \in {"idle", "run"}
  /\ plan \in Seq(Call) /\ after \in {"requeue", "done"} /\ moved \in {"yes", "no"}
  /\ version \in Version /\ grace \in {"running", "over"}
  /\ edits \in 0..MaxEdit /\ faults \in 0..MaxFault

\* Mutated form: the state of a new alb has no default.
StatelessStatus == [ports |-> "clean", deploy |-> "Unset", addr |-> "none", ver |-> 0,
                    patch |-> "unset", state |-> ""]

NoStatus == [ports |-> "clean", deploy |-> "Unset", addr |-> "none", ver |-> 0,
             patch |-> "unset", state |-> "Pending"]

\* A user has just created the alb, or a migration has left its configuration in an
\* annotation.
Init ==
  /\ \E c \in Conf \cup {None}, b \in Migrated \cup {None} :
       /\ (c = None) # (b = None)
       /\ alb = [conf |-> c, backup |-> b, ignore |-> "no", label |-> {}, fin |-> {},
                 deleting |-> "no", st |-> NoStatus]
  /\ obj = [t \in Thing |-> None]
  /\ over \in {None} \cup [data : OverData, label : {"no"}]
  /\ unseen = {} /\ queued = "yes"
  /\ phase = "idle" /\ plan = <<>> /\ after = "done" /\ moved = "no"
  /\ version = 1 /\ grace = "running" /\ edits = 0 /\ faults = 0

-----------------------------------------------------------------------------
(* What wakes the operator. *)

\* The keys of the labels every object of the alb has.
LabelKeys == {l[1] : l \in ALB2ResourceLabel([Name |-> "alb", Ns |-> "ns"], LongName, version)}

\* getAlbKeyFromObjectNew gives up when there IS a namespace label.
FindKeyNew(labels) == "albname" \in labels /\ "albns" \notin labels /\ "version" \in labels
FindKeyLegacy(labels) == "legacy" \in labels /\ "version" \in labels

\* GetAlbKeyFromObject, and the version both ignoreNonAlbObj and ObjToALbKey ask for.
LeadsToAlb(o) ==
  /\ FindKeyNew(LabelKeys) \/ FindKeyLegacy(LabelKeys)
  /\ o.ver = version

\* The work queue after object t was updated to o, or was o when it was deleted: only
\* deployments and services are watched.
QueueAfter(t, o) ==
  IF t \in {"deploy", "monitor"} \cup LbName /\ LeadsToAlb(o) THEN "yes" ELSE queued

Fault(kind) ==
  /\ kind \in Faulty
  /\ faults < MaxFault /\ faults' = faults + 1

\* Someone else than the worker writes the alb: the API server will refuse an update made
\* from an older copy, and the event queues the key.
WriteAlb(a) ==
  /\ alb' = a /\ moved' = "yes" /\ queued' = "yes"

-----------------------------------------------------------------------------
(* Users. *)

UserEdit == edits < MaxEdit /\ edits' = edits + 1

EditConf(c) ==
  /\ UserEdit
  /\ alb # None /\ alb.deleting = "no" /\ alb.conf # None /\ alb.conf # c
  /\ WriteAlb([alb EXCEPT !.conf = c])
  /\ UNCHANGED <<obj, over, unseen, phase, plan, after, version, grace, faults>>

\* The annotation alb.cpaas.io/ignoreme comes or goes.
FlipIgnore ==
  /\ UserEdit
  /\ alb # None /\ alb.deleting = "no"
  /\ WriteAlb([alb EXCEPT !.ignore = IF @ = "no" THEN "yes" ELSE "no"])
  /\ UNCHANGED <<obj, over, unseen, phase, plan, after, version, grace, faults>>

\* Without a finalizer the API server removes the alb at once.
DeleteAlb ==
  /\ UserEdit
  /\ alb # None /\ alb.deleting = "no"
  /\ WriteAlb(IF alb.fin = {} THEN None ELSE [alb EXCEPT !.deleting = "yes"])
  /\ UNCHANGED <<obj, over, unseen, phase, plan, after, version, grace, faults>>

\* The configmap is created, or edited in place.  Its event finds the albs that have the
\* label and name the configmap (configMapToAlb), if it has the label itself.
EditOver(d) ==
  /\ UserEdit
  /\ over # None => over.data # d
  /\ over' = IF over = None THEN [data |-> d, label |-> "no"] ELSE [over EXCEPT !.data = d]
  /\ queued' = IF /\ over'.label = "yes"
                  /\ alb # None /\ <<"overwrite-configmap", "true">> \in alb.label
                  /\ alb.conf # None /\ CfgOf[alb.conf].Overwrite.Configmap # {}
               THEN "yes" ELSE queued
  /\ UNCHANGED <<alb, obj, unseen, worker, version, grace, faults>>

-----------------------------------------------------------------------------
(* The alb instance, the cluster and others. *)

\* The instance writes what its port probe found (see PortProbe) from a fresh copy.
ReportPorts(p) ==
  /\ alb # None /\ alb.st.ports # p
  /\ obj["deploy"] # None /\ Fault("unready")
  /\ WriteAlb([alb EXCEPT !.st.ports = p])
  /\ UNCHANGED <<obj, over, unseen, phase, plan, after, version, grace, edits>>

\* The instance has taken its addresses off the ingresses (see IngressStatus) and gives up
\* its finalizer.
InstanceCleanup ==
  /\ alb # None /\ alb.deleting = "yes" /\ "inst" \in alb.fin
  /\ obj["deploy"] # None /\ obj["deploy"].got = "yes"
  /\ WriteAlb(IF alb.fin = {"inst"} THEN None ELSE [alb EXCEPT !.fin = @ \ {"inst"}])
  /\ UNCHANGED <<obj, over, unseen, phase, plan, after, version, grace, edits, faults>>

GracePasses ==
  /\ alb # None /\ alb.deleting = "yes" /\ grace = "running"
  /\ grace' = "over"
  /\ UNCHANGED <<cluster, unseen, queued, worker, version, edits, faults>>

Report(t, got) ==
  /\ obj' = [obj EXCEPT ![t].got = got,
                        ![t].ann = IF t \in LbName THEN @ \cup {Cloud} ELSE @]
  /\ queued' = QueueAfter(t, obj[t])
  /\ UNCHANGED <<alb, over, unseen, worker, version, grace, edits>>

\* The replicas of the deployment are ready, and its leader has its lease; or the load
\* balancer service was given an address, and an annotation with it.
ClusterReports(t) ==
  /\ t \in {"deploy"} \cup LbName /\ obj[t] # None /\ obj[t].got = "no"
  /\ Report(t, "yes")
  /\ UNCHANGED faults

Plain == [ver |-> version, conf |-> None, over |-> "base", addr |-> "none", ann |-> {},
          got |-> "no"]

TakeLease ==
  /\ obj["deploy"] # None /\ obj["deploy"].got = "yes" /\ obj["lease"] = None
  /\ alb # None /\ alb.deleting = "no"
  /\ obj' = [obj EXCEPT !["lease"] = Plain]
  /\ UNCHANGED <<alb, over, unseen, queued, worker, version, grace, edits, faults>>

\* A replica fails.
LoseReplica ==
  /\ obj["deploy"] # None /\ obj["deploy"].got = "yes" /\ Fault("unready")
  /\ Report("deploy", "no")

\* Someone deletes an object.
Drift(k) ==
  /\ k \in Drifting /\ obj[k] # None /\ Fault("drift")
  /\ obj' = [obj EXCEPT ![k] = None] /\ unseen' = unseen \ {k}
  /\ queued' = QueueAfter(k, obj[k])
  /\ UNCHANGED <<alb, over, worker, version, grace, edits>>

\* The objects that carry an owner reference to the alb.
Owned == {"common", "portinfo", "deploy", "monitor"} \cup LbName

\* The garbage collector deletes what a deleted alb owned.
Collect(t) ==
  /\ alb = None /\ t \in Owned /\ obj[t] # None
  /\ obj' = [obj EXCEPT ![t] = None] /\ unseen' = unseen \ {t}
  /\ UNCHANGED <<alb, over, queued, worker, version, grace, edits, faults>>

\* The cache catches up.
See(t) ==
  /\ t \in unseen
  /\ unseen' = unseen \ {t}
  /\ UNCHANGED <<cluster, queued, worker, version, grace, edits, faults>>

\* The operator restarts, or a newer one takes its place; both list every alb first.
Restart(v) ==
  /\ \/ v = version /\ Fault("crash")
     \/ v = version + 1 /\ Fault("upgrade")
  /\ version' = v
  /\ phase' = "idle" /\ plan' = <<>> /\ after' = "done" /\ moved' = "no"
  /\ queued' = "yes" /\ unseen' = {}
  /\ UNCHANGED <<cluster, grace, edits>>

-----------------------------------------------------------------------------
(* What the objects should be. *)

UsesOver(c) == HasConfigmapPatch(CfgOf[c], version)

\* What the cache holds (LoadAlbDeploy).
Cur(t) == IF t \in unseen THEN None ELSE obj[t]

\* DeleteOrCreateOrUpdate: cur is what the cache holds, new what it should be.
Migrate(t, wanted, differs, new) ==
  LET call(do) == <<[do |-> do, what |-> t, from |-> Cur(t), new |-> new]>>
  IN CASE Cur(t) # None /\ ~wanted -> call("delete")
       [] Cur(t) = None /\ wanted  -> call("create")
       [] Cur(t) # None /\ wanted /\ differs -> call("update")
       [] OTHER -> <<>>

\* The rights do not depend on the configuration.
RbacDiffers(t, o) == RbacOf[o.ver][t] # RbacOf[version][t]
MigrateRbac(t) == Migrate(t, TRUE, RbacDiffers(t, Cur(t)), Plain)

\* NeedUpdate for every pair of deployments.
DeployDiffersTable ==
  [c \in Conf |-> [d \in Conf |-> [v \in Version |-> [w \in Version |->
     NeedUpdate(Stored(DeployOf[c][v]), DeployOf[d][w])]]]]
DeployDiffers(o, a) == DeployDiffersTable[o.conf][a.conf][o.ver][version]
MigrateDeploy(a) ==
  Migrate("deploy", TRUE, DeployDiffers(Cur("deploy"), a), [Plain EXCEPT !.conf = a.conf])

\* The configmaps are compared by their data.
Snippets(c) == IF UsesOver(c) THEN over.data ELSE "base"
CommonDiffers(o, a) ==
  GenConfigmap(CfgOf[o.conf], o.over) # GenConfigmap(CfgOf[a.conf], Snippets(a.conf))
MigrateCommon(a) ==
  Migrate("common", TRUE, CommonDiffers(Cur("common"), a),
          [Plain EXCEPT !.conf = a.conf, !.over = Snippets(a.conf)])

PortInfoDiffers(o, a) == GenPortInfoConfigmap(CfgOf[o.conf]) # GenPortInfoConfigmap(CfgOf[a.conf])
MigratePortInfo(a) ==
  Migrate("portinfo", TRUE, PortInfoDiffers(Cur("portinfo"), a), [Plain EXCEPT !.conf = a.conf])

\* genMonitorSvcUpdate.
MonitorDiffers(o, a) == MonitorOf[o.conf][o.ver] # MonitorOf[a.conf][version]
MigrateMonitor(a) ==
  Migrate("monitor", TRUE, MonitorDiffers(Cur("monitor"), a), [Plain EXCEPT !.conf = a.conf])

\* genLbSvcUpdate: the service is patched in place; last: the annotations it was given
\* last, which it remembers itself.
LbWanted(c) == CfgOf[c].Vip.EnableLbSvc
LbAnnotations(o, a) == PatchLbAnnotations(o.ann, AnnotationOf(o.conf), AnnotationOf(a.conf))
LbDiffers(o, a) ==
  \/ LbOf[o.conf][o.ver] # LbOf[a.conf][version]
  \/ AnnotationOf(o.conf) # AnnotationOf(a.conf) \/ LbAnnotations(o, a) # o.ann
MigrateLb(l, a) ==
  LET ann == IF Cur(l) = None THEN AnnotationOf(a.conf) ELSE LbAnnotations(Cur(l), a)
  IN Migrate(l, LbWanted(a.conf), LbDiffers(Cur(l), a), [Plain EXCEPT !.conf = a.conf, !.ann = ann])

\* The Feature of an alb that no longer serves ingresses is left alone.
IngressOn(c) == CfgOf[c].Flags.EnableIngress
FeatureDiffers(o, a) == FeatureCr(o.addr) # FeatureCr(a.st.addr)
MigrateFeature(a) ==
  IF ~IngressOn(a.conf) THEN <<>>
  ELSE Migrate("feature", TRUE, FeatureDiffers(Cur("feature"), a), [Plain EXCEPT !.addr = a.st.addr])

IngressClassDiffers(o, a) == ClassOf[o.conf][o.ver] # ClassOf[a.conf][version]
MigrateIngressClass(a) ==
  Migrate("ingressclass", IngressOn(a.conf), IngressClassDiffers(Cur("ingressclass"), a),
          [Plain EXCEPT !.conf = a.conf])

\* The expected gatewayclass IS the current one, edited in place, so no difference is ever
\* found.
SharedGatewayOn(c) == CfgOf[c].Gateway.Enable /\ CfgOf[c].Gateway.Mode = "shared"
MigrateGatewayClass(a) == Migrate("gatewayclass", SharedGatewayOn(a.conf), FALSE, Plain)

\* GenExpectDeployStatus.
DeployState(d) ==
  CASE d = None -> "Pending" [] d # None /\ d.got = "yes" -> "Running" [] OTHER -> "Progressing"

\* GenAddressStatusFromSvc.
AddressOk(svc, c) == IF svc = None THEN ~LbWanted(c) ELSE svc.got = "yes" /\ LbWanted(c)

\* MergeAlbStatus.
MergeState(deploy, ports, addressOk, c) ==
  CASE deploy # "Running" -> deploy
    [] deploy = "Running" /\ ports = "conflict" -> "Warning"
    [] deploy = "Running" /\ ports = "clean" /\ LbWanted(c) /\ ~addressOk -> "Progressing"
    [] OTHER -> "Running"

\* GenExpectStatus; svc: the load balancer service in use, or None.
ExpectStatus(a, svc) ==
  LET deploy == DeployState(Cur("deploy"))
  IN [ports |-> a.st.ports, deploy |-> deploy,
      addr |-> IF svc # None /\ svc.got = "yes" THEN "ip" ELSE "none",
      ver |-> version,
      patch |-> IF HasImagePatch(CfgOf[a.conf], version) THEN "patched" ELSE "not patch",
      state |-> MergeState(deploy, a.st.ports, AddressOk(svc, a.conf), a.conf)]

\* Ready: until then the operator looks again every three seconds.
Ready(st) == st.state = "Running"

-----------------------------------------------------------------------------
(* The worker. *)

\* The worker takes the key; calls: what it will do, then: whether it looks again.
Take(calls, then) ==
  /\ phase = "idle" /\ queued = "yes"
  /\ phase' = "run" /\ queued' = "no" /\ moved' = "no"
  /\ plan' = calls /\ after' = then
  /\ UNCHANGED <<cluster, unseen, version, grace, edits, faults>>

Managed == alb # None /\ alb.ignore = "no" /\ (alb.conf # None \/ alb.backup # None)

\* The alb is gone, is to be ignored, or is none of the operator's.
Ignore == ~Managed /\ Take(<<>>, "done")

\* HandleBackupAnnotation.
MigrateBackup ==
  /\ Managed /\ alb.conf = None
  /\ Take(<<[do |-> "alb", alb |-> [alb EXCEPT !.conf = alb.backup]]>>, "requeue")

AddFinalizers ==
  /\ Managed /\ alb.conf # None /\ "op" \notin alb.fin
  /\ Take(<<[do |-> "alb", alb |-> [alb EXCEPT !.fin = {"op", "inst"}]]>>, "requeue")

\* The load balancer service the worker finds: one that the cache lists, if there is any.
SeenLb == {l \in LbName : Cur(l) # None}
FoundLb == IF SeenLb = {} THEN {None} ELSE SeenLb
Svc(l) == IF l = None THEN None ELSE Cur(l)

\* A delete of Destroy: only what the cache holds is deleted.
Drop(t) ==
  IF Cur(t) = None THEN <<>>
  ELSE <<[do |-> "drop", what |-> t, from |-> None, new |-> Plain]>>

\* Mutated form: the ingressclass is forgotten.
DestroyCallsShort(l) ==
  Drop("common") \o Drop("portinfo") \o Drop("deploy") \o Drop("gatewayclass")
    \o Drop("feature") \o Drop("monitor") \o (IF l = None THEN <<>> ELSE Drop(l))
    \o Drop("role") \o Drop("bind") \o Drop("sa") \o Drop("lease")

\* The order of Destroy; l: the load balancer service found, or None.
DestroyCalls(l) ==
  Drop("common") \o Drop("portinfo") \o Drop("deploy") \o Drop("gatewayclass")
    \o Drop("ingressclass") \o Drop("feature") \o Drop("monitor")
    \o (IF l = None THEN <<>> ELSE Drop(l))
    \o Drop("role") \o Drop("bind") \o Drop("sa") \o Drop("lease")

\* Mutated form: the instance is not waited for.
BeginDestroyAtOnce(l) ==
  /\ Managed /\ alb.conf # None /\ "op" \in alb.fin /\ alb.deleting = "yes"
  /\ l \in FoundLb
  /\ Take(<<[do |-> "alb", alb |-> [alb EXCEPT !.fin = {}]]>>, "requeue")

\* The alb is deleted and its instance has given up its finalizer, or had its time: until
\* then the key stays in the queue.  Destroy deletes what the cache holds; then both
\* finalizers go.
BeginDestroy(l) ==
  /\ Managed /\ alb.conf # None /\ "op" \in alb.fin /\ alb.deleting = "yes"
  /\ "inst" \notin alb.fin \/ grace = "over"
  /\ l \in FoundLb
  /\ Take(DestroyCalls(l) \o <<[do |-> "alb", alb |-> [alb EXCEPT !.fin = {}]]>>, "requeue")

\* updateOverwriteConfigmapIfNeed.
LabelOver(c) ==
  IF UsesOver(c) /\ over # None /\ over.label = "no" THEN <<[do |-> "label"]>> ELSE <<>>

\* The order of DoUpdate; l: the load balancer service found, or the name of a new one.
UpdateCalls(a, l) ==
  MigrateRbac("role") \o MigrateRbac("bind") \o MigrateRbac("sa") \o MigrateDeploy(a)
    \o MigrateCommon(a) \o MigratePortInfo(a) \o MigrateMonitor(a) \o MigrateLb(l, a)
    \o MigrateFeature(a) \o MigrateIngressClass(a) \o MigrateGatewayClass(a)

StatusCall(a, svc) ==
  IF ExpectStatus(a, svc) = a.st THEN <<>>
  ELSE <<[do |-> "status", st |-> ExpectStatus(a, svc)]>>

\* A configmap that is named but missing is an error: the key stays in the queue.  Labels
\* of the alb that must change are all that is done in this round.
BeginUpdate(l, name) ==
  /\ Managed /\ alb.conf # None /\ "op" \in alb.fin /\ alb.deleting = "no"
  /\ UsesOver(alb.conf) => over # None
  /\ l \in FoundLb /\ name \in IF l = None THEN {n \in LbName : obj[n] = None} ELSE {l}
  /\ LET found == Svc(l)
         rest == UpdateCalls(alb, name) \o StatusCall(alb, found)
         same == alb.label = AlbLabelOf[alb.conf]
         relabel == [alb EXCEPT !.label = AlbLabelOf[alb.conf]]
         settled == ExpectStatus(alb, found) = alb.st /\ Ready(alb.st)
     IN Take(LabelOver(alb.conf) \o IF same THEN rest ELSE <<[do |-> "alb", alb |-> relabel]>>,
             IF same /\ settled THEN "done" ELSE "requeue")

-----------------------------------------------------------------------------
(* The API calls. *)

\* The next call is of this sort, and it is made.
Next1(do) == phase = "run" /\ plan # <<>> /\ Head(plan).do = do
Made == plan' = Tail(plan) /\ UNCHANGED <<phase, after>>

\* What the API server refuses: to create what exists, to write what does not, a
\* deployment whose selector changes or misses its own pods, a service or an alb that was
\* read at an older version.  Deployments and configmaps are written without a version.
Refused(c) ==
  CASE c.do = "create" ->
         \/ obj[c.what] # None
         \/ c.what = "deploy" /\ ~ValidDeploy(DeployOf[c.new.conf][c.new.ver])
    [] c.do = "update" ->
         \/ obj[c.what] = None
         \/ c.what \in LbName /\ obj[c.what] # c.from
         \/ /\ c.what = "deploy" /\ obj["deploy"] # None
            /\ ~ValidDeployUpdate(DeployOf[obj["deploy"].conf][obj["deploy"].ver],
                                  DeployOf[c.new.conf][c.new.ver])
    [] c.do = "delete" -> obj[c.what] = None
    [] c.do \in {"alb", "status"} -> moved = "yes"
    [] OTHER -> FALSE

CallCreate ==
  /\ Next1("create") /\ Made
  /\ LET c == Head(plan) IN
     /\ ~Refused(c)
     /\ obj' = [obj EXCEPT ![c.what] = c.new]
     /\ \/ UNCHANGED <<unseen, faults>>
        \/ c.what \in Lagging /\ unseen' = unseen \cup {c.what} /\ Fault("lag")
  /\ UNCHANGED <<alb, over, queued, moved, version, grace, edits>>

CallUpdate ==
  /\ Next1("update") /\ Made
  /\ LET c == Head(plan)
         new == [c.new EXCEPT !.got = obj[c.what].got]
     IN /\ ~Refused(c)
        /\ obj' = [obj EXCEPT ![c.what] = new]
        /\ queued' = QueueAfter(c.what, new)
  /\ UNCHANGED <<alb, over, unseen, moved, version, grace, edits, faults>>

\* A delete of an ordinary round, or one of Destroy.
CallDelete ==
  /\ Next1("delete") \/ Next1("drop")
  /\ Made
  /\ LET c == Head(plan) IN
     /\ obj[c.what] # None
     /\ obj' = [obj EXCEPT ![c.what] = None]
     /\ queued' = QueueAfter(c.what, obj[c.what])
  /\ UNCHANGED <<alb, over, unseen, moved, version, grace, edits, faults>>

\* Destroy logs an error and goes on.
CallDropFails ==
  /\ Next1("drop") /\ Made
  /\ \/ obj[Head(plan).what] = None /\ UNCHANGED faults
     \/ Head(plan).what \in Stubborn /\ Fault("dropFail")
  /\ UNCHANGED <<cluster, unseen, queued, moved, version, grace, edits>>

\* The API server takes the alb only from a copy of its latest version, and removes it
\* with its last finalizer.
CallAlb ==
  /\ Next1("alb") /\ Made
  /\ moved = "no"
  /\ LET a == Head(plan).alb
     IN alb' = IF a.deleting = "yes" /\ a.fin = {} THEN None ELSE a
  /\ UNCHANGED <<obj, over, unseen, queued, moved, version, grace, edits, faults>>

\* Mutated form: the status is written whatever the version.
CallStatusBlind ==
  /\ Next1("status") /\ Made /\ alb # None
  /\ alb' = [alb EXCEPT !.st = Head(plan).st] /\ queued' = "yes"
  /\ UNCHANGED <<obj, over, unseen, moved, version, grace, edits, faults>>

CallStatus ==
  /\ Next1("status") /\ Made
  /\ moved = "no"
  /\ alb' = [alb EXCEPT !.st = Head(plan).st] /\ queued' = "yes"
  /\ UNCHANGED <<obj, over, unseen, moved, version, grace, edits, faults>>

CallLabel ==
  /\ Next1("label") /\ Made
  /\ over' = [over EXCEPT !.label = "yes"]
  /\ UNCHANGED <<alb, obj, unseen, queued, moved, version, grace, edits, faults>>

\* An error ends the round, and the key is queued again.
CallFails ==
  /\ phase = "run" /\ plan # <<>> /\ Head(plan).do # "drop"
  /\ \/ Refused(Head(plan)) /\ UNCHANGED faults
     \/ Fault("fail")
  /\ phase' = "idle" /\ plan' = <<>> /\ after' = "done" /\ queued' = "yes"
  /\ UNCHANGED <<cluster, unseen, moved, version, grace, edits>>

Done ==
  /\ phase = "run" /\ plan = <<>>
  /\ phase' = "idle" /\ after' = "done"
  /\ queued' = IF after = "requeue" THEN "yes" ELSE queued
  /\ UNCHANGED <<cluster, unseen, plan, moved, version, grace, edits, faults>>

-----------------------------------------------------------------------------
Worker ==
  \/ CallCreate \/ CallUpdate \/ CallDelete \/ CallDropFails
  \/ CallAlb \/ CallStatus \/ CallLabel \/ CallFails \/ Done
  \/ Ignore \/ MigrateBackup \/ AddFinalizers
  \/ \E l \in LbName \cup {None} :
       BeginDestroy(l) \/ \E name \in LbName : BeginUpdate(l, name)

User ==
  \/ \E c \in Conf : EditConf(c)
  \/ FlipIgnore \/ DeleteAlb
  \/ \E d \in OverData : EditOver(d)

\* What the cluster will do in the end.
Cluster ==
  \/ GracePasses \/ TakeLease
  \/ \E t \in {"deploy"} \cup LbName : ClusterReports(t)
  \/ \E t \in Owned : Collect(t)
  \/ \E t \in Thing : See(t)

Upset ==
  \/ \E p \in {"clean", "conflict"} : ReportPorts(p)
  \/ LoseReplica
  \/ \E k \in Kind : Drift(k)
  \/ \E v \in Version : Restart(v)

Next == Worker \/ User \/ Cluster \/ Upset \/ InstanceCleanup

Spec == Init /\ [][Next]_vars

\* The work queue hands out what it holds, rate-limited and delayed keys included; the
\* cluster brings replicas and addresses up, its clock runs and its caches catch up.  The
\* instance owes nothing: it may be dead.
Fairness == WF_vars(Worker) /\ WF_vars(Cluster)
FairSpec == Spec /\ Fairness

-----------------------------------------------------------------------------
(* Properties. *)

\* The alb resource lives the way AlbLife says.
Life == INSTANCE AlbLife WITH
  life <- IF alb = None THEN "gone"
          ELSE IF alb.deleting = "yes" THEN "leaving"
          ELSE IF "op" \in alb.fin THEN "guarded" ELSE "fresh",
  inst <- IF alb # None /\ "inst" \in alb.fin THEN "yes" ELSE "no",
  grace <- grace

\* handleInitOrDelete implements AlbLife: nothing makes an alb leave before its instance
\* has given up its finalizer or the grace period is over.
LivesByTheBook == Life!LifeSpec

\* The port conflicts of the status are the instance's: no status update of the operator
\* (GenExpectStatus copies them) writes an older report over a newer one.
PortReportKept ==
  [][alb # None /\ alb' # None /\ alb'.st.ports # alb.st.ports
       => \E p \in {"clean", "conflict"} : ReportPorts(p)]_vars

\* What a finished reconcile leaves: all that the configuration asks for, at this version,
\* nothing else, and a status that says so.
Settled ==
  /\ "op" \in alb.fin /\ alb.label = AlbLabelOf[alb.conf]
  /\ \A t \in Rbac : obj[t] # None /\ ~RbacDiffers(t, obj[t])
  /\ obj["deploy"] # None /\ ~DeployDiffers(obj["deploy"], alb)
  /\ obj["common"] # None /\ ~CommonDiffers(obj["common"], alb)
  /\ obj["portinfo"] # None /\ ~PortInfoDiffers(obj["portinfo"], alb)
  /\ obj["monitor"] # None /\ ~MonitorDiffers(obj["monitor"], alb)
  /\ IF IngressOn(alb.conf)
     THEN /\ obj["ingressclass"] # None /\ ~IngressClassDiffers(obj["ingressclass"], alb)
          /\ obj["feature"] # None /\ ~FeatureDiffers(obj["feature"], alb)
     ELSE obj["ingressclass"] = None
  /\ (obj["gatewayclass"] # None) = SharedGatewayOn(alb.conf)
  /\ \A l \in LbName : obj[l] # None => LbWanted(alb.conf) /\ ~LbDiffers(obj[l], alb)
  /\ LbWanted(alb.conf) => \E l \in LbName : obj[l] # None /\ alb.st.addr = "ip"
  /\ alb.st.ver = version
  /\ alb.st.state = IF alb.st.ports = "conflict" THEN "Warning" ELSE "Running"

Exempt ==
  \/ alb.ignore = "yes"
  \/ alb.conf # None /\ UsesOver(alb.conf) /\ over = None

\* Whatever users, failures, drifts and upgrades did, reconciles bring the deployment, the
\* services, the status and the rest to what the configuration asks for, or, once the alb
\* is deleted, bring it to an end.
Converges == <>[](alb = None \/ Exempt \/ Settled)

\* What the pods of the deployment run with.
RunOf == [c \in Conf |-> [v \in Version |-> AlbRunCfgFromEnv(DeployOf[c][v].Alb.Env)]]

\* The parts of a settled alb agree with each other: the instance believes in a load
\* balancer service, an ingressclass and a gatewayclass exactly when there is one, it uses
\* the network its pods are on, services and probes reach its port for metrics and its
\* pods, pods on the host network keep clear of each other, and both containers have the
\* same settings.
PartsAgree ==
  alb # None /\ alb.conf # None /\ Settled =>
    LET o == obj["deploy"]
        depl == DeployOf[o.conf][o.ver]
        run == RunOf[o.conf][o.ver]
        mon == MonitorOf[obj["monitor"].conf][obj["monitor"].ver]
        shared(n) == depl.Alb.Env[n] = depl.Nginx.Env[n]
    IN /\ run.Flags.EnableLbSvc = (\E l \in LbName : obj[l] # None)
       /\ run.Flags.EnableIngress = (obj["ingressclass"] # None)
       /\ obj["gatewayclass"] # None
            => GatewaySelector(run) = <<"class", GenGatewayClass(CfgOf[alb.conf]).Name>>
       /\ depl.Spec.Hostnetwork = (run.Controller.NetworkMode = "host")
       /\ run.Controller.MetricsPort = mon.Ports[1].Port
       /\ run.Controller.MetricsPort = depl.Nginx.ProbePort
       /\ mon.Selector \subseteq depl.Spec.PodLabel
       /\ \A l \in LbName :
            obj[l] # None => LbOf[obj[l].conf][obj[l].ver].Selector \subseteq depl.Spec.PodLabel
       /\ depl.Spec.Hostnetwork
            => /\ depl.Spec.Affinity.rule = "required"
               /\ depl.Spec.Affinity.label \in depl.Spec.PodLabel
       /\ \A n \in {"NAME", "DEFAULT_SSL_STRATEGY", "INGRESS_HTTPS_PORT", "MAX_TERM_SECONDS",
                    "POLICY_ZIP"} : shared(n)

\* The instance of a settled alb runs with what the configuration asks for, whatever way
\* it took through the environment of its container.
RunsAsAsked ==
  alb # None /\ alb.conf # None /\ Settled =>
    LET run == RunOf[obj["deploy"].conf][obj["deploy"].ver]
        cfg == CfgOf[alb.conf]
    IN /\ run.Name = cfg.Name /\ run.Ns = cfg.Ns
       /\ run.Controller = cfg.Controller /\ run.Flags = cfg.Flags /\ run.Gateway = cfg.Gateway

\* "当lbsvcannotation 从 a:1,b:1变成 a:1时，需要把b:1删掉": the load balancer service of a
\* settled alb has the annotations of the configuration and those of others, no older ones.
LbAnnotated ==
  alb # None /\ alb.conf # None /\ Settled =>
    \A l \in LbName : obj[l] # None =>
      obj[l].ann = AnnotationOf(alb.conf) \cup IF obj[l].got = "yes" THEN {Cloud} ELSE {}

\* What a reconcile settles on is right as a whole: its parts agree, the instance runs as
\* the configuration asks, and the service is annotated as it asks (depl_ctl.go Update).
SettledRight == PartsAgree /\ RunsAsAsked /\ LbAnnotated

\* "all clear now": when the alb is gone and nothing is under way, no object that only the
\* operator deletes is left.
NothingLeft ==
  alb = None /\ phase = "idle" => \A t \in Thing \ Owned : obj[t] = None
=============================================================================
