----------------------------- MODULE GatewayCtl -----------------------------
(***************************************************************************)
(* The gateway controller inside an alb (gateway/ctl), the policy          *)
(* generator that reads what it wrote (gateway/nginx/driver.go), and the   *)
(* operator's gateway controller beside them (module StandaloneGateway).   *)
(*                                                                         *)
(* Every gateway is handled by one controller: g by the alb the operator   *)
(* built for it, as long as there is one, the others by an alb that always *)
(* runs.  A controller decides from the gateway and the routes as it read  *)
(* them, writes the gateway's status and then the status of every route,   *)
(* one call after the other.  A write of an object that changed since it   *)
(* was read is refused.  For the gateway that is an error and the request  *)
(* is retried; for a route it is logged and forgotten.                     *)
(*                                                                         *)
(* The policy generator keeps no state: Served is what it would serve now. *)
(***************************************************************************)
EXTENDS StandaloneGateway, GatewayRules

CONSTANTS R,         \* the routes
          GwSpecs,   \* the listener sets a gateway may be given
          RtSpecs,   \* the specifications a route may be given
          Start,     \* Start[x]: the listeners of gateway x at first
          StartRt    \* StartRt[r]: the specification of route r at first

(* The references of a route are [gw, section] records.                    *)
ASSUME GatewayConstants ==
    /\ Start \in [Gw -> GwSpecs]
    /\ StartRt \in [R -> RtSpecs]
    /\ \A spec \in RtSpecs : \A ref \in spec.refs :
          ref = [gw |-> ref.gw, section |-> ref.section]

VARIABLES rt,     \* rt[r]: the route object r
          ctl,    \* ctl[x]: the reconcile of gateway x
          q,      \* the gateways whose request is in the work queue
          lost    \* <<x, r>>: the controller of x failed to write route r

vars == <<gw, rt, ctl, q, lost, opVars>>

CIdle == [at |-> "idle", lst |-> [gen |-> 0, ready |-> {}], acc |-> "unknown",
          att |-> 0, todo |-> {}, new |-> [r \in R |-> {}],
          gfresh |-> "yes", rfresh |-> {}]

Created(lss, class) ==
    [there |-> "yes", class |-> class, label |-> 0, gen |-> 1, lss |-> lss,
     acc |-> "unknown", lst |-> [gen |-> 0, ready |-> {}], att |-> 0]

ReadyNames(lss) == {ls.name : ls \in {k \in lss : ListenerValid(k, lss)}}

RefsTo(x, spec) == {ref \in spec.refs : IsRefToGateway(ref, x)}

(* Mutated form: the verdict is stamped with the next generation.          *)
JudgeAhead(lss, spec, gen, x) ==
    {[ref |-> ref, gen |-> gen + 1,
      ok |-> IF FilteRoutes(lss, spec, ref) THEN "yes" ELSE "no"]
     : ref \in RefsTo(x, spec)}

Judge(lss, spec, gen, x) ==
    {[ref |-> ref, gen |-> gen,
      ok |-> IF FilteRoutes(lss, spec, ref) THEN "yes" ELSE "no"]
     : ref \in RefsTo(x, spec)}

(* The shared gateways are handled already, g is or has just been created. *)
Settled(x) ==
    [Created(Start[x], "shared") EXCEPT
        !.acc = "true", !.lst = [gen |-> 1, ready |-> ReadyNames(Start[x])],
        !.att = Cardinality({r \in R : \E ref \in RefsTo(x, StartRt[r]) :
                                          FilteRoutes(Start[x], StartRt[r], ref)})]

Init ==
    \E settled \in BOOLEAN :
       /\ OpInit(settled)
       /\ gw = [x \in Gw |->
                  IF x # g THEN Settled(x)
                  ELSE IF settled
                  THEN [Settled(g) EXCEPT !.class = "exclusive", !.label = 1]
                  ELSE Created(Start[g], "exclusive")]
       /\ rt = [r \in R |->
                  [gen |-> 1, spec |-> StartRt[r],
                   st |-> UNION {Judge(Start[x], StartRt[r], 1, x)
                                 : x \in IF settled THEN Gw ELSE Gw \ {g}}]]
       /\ ctl = [x \in Gw |-> CIdle]
       /\ q = {}
       /\ lost = {}

UpWith(a) == (Gw \ {g}) \cup
             {x \in {g} : \E n \in AlbName : a[n] \in {"pending", "running", "leaving"}}

Up == UpWith(albs)

AlbReady(x) == x # g \/ \E n \in AlbName : albs[n] = "running"

(***************************************************************************)
(* What the policy generator takes from the statuses.                      *)
(***************************************************************************)
IsListenerReady(x, ls) ==
    gw[x].lst.gen = gw[x].gen /\ ls.name \in gw[x].lst.ready

(* Mutated form: the generation a route status was written for is ignored. *)
IsRouteReadyAnyGen(r, ref) ==
    \E e \in rt[r].st : e.ref = ref /\ e.ok = "yes"

IsRouteReady(r, ref) ==
    \E e \in rt[r].st : e.ref = ref /\ e.gen = rt[r].gen /\ e.ok = "yes"

FilterMetricsListener(lss) == {ls \in lss : ls.port \notin ReservedPorts}

ListListener(x) == {ls \in gw[x].lss : gw[x].there = "yes" /\ IsListenerReady(x, ls)}

Ref(x, ls) == [gw |-> x, section |-> ls.name]

Attached(x, ls) ==
    {r \in R : Ref(x, ls) \in rt[r].spec.refs /\ IsRouteReady(r, Ref(x, ls))}

Served(x) ==
    UNION {{ls.name} \X Attached(x, ls) : ls \in FilterMetricsListener(ListListener(x))}

(***************************************************************************)
(* What the filters say of the gateway and the routes as they are now.     *)
(***************************************************************************)
Verdicts(x, r) == Judge(gw[x].lss, rt[r].spec, rt[r].gen, x)

AttachedRoutes(x) ==
    Cardinality({e \in UNION {Verdicts(x, r) \X {r} : r \in R} : e[1].ok = "yes"})

Admitted(x) ==
    UNION {{n} \X {r \in R : \E e \in Verdicts(x, r) : e.ref.section = n /\ e.ok = "yes"}
           : n \in ReadyNames(gw[x].lss)}

(* The entries of this gateway's references are replaced, every other one  *)
(* is kept, those of references the route no longer has included.          *)
UpdateRoute(x, r) ==
    {e \in rt[r].st : \A v \in Verdicts(x, r) : v.ref # e.ref} \cup Verdicts(x, r)

(***************************************************************************)
(* The reconcile of a gateway.                                             *)
(***************************************************************************)
ListRoutesByGateway(x) == {r \in R : IsRefsToGateway(rt[r].spec, x)}

(* Mutated form: only the statuses of the listeners are compared.          *)
SameListenerStatus(x, plan) == gw[x].lst = plan.lst /\ gw[x].att = plan.att

SameGatewayStatus(x, plan) ==
    gw[x].lst = plan.lst /\ gw[x].acc = plan.acc /\ gw[x].att = plan.att

(* The statuses that differ are the routes to write (SameStatus).  The     *)
(* gateway's status is also written, and the request repeated, while the   *)
(* alb is not running.                                                     *)
Plan(x) ==
    LET new == [r \in R |-> IF r \in ListRoutesByGateway(x) THEN UpdateRoute(x, r) ELSE {}]
        todo == {r \in ListRoutesByGateway(x) : new[r] # rt[r].st}
        status == [lst |-> [gen |-> gw[x].gen, ready |-> ReadyNames(gw[x].lss)],
                   acc |-> IF AlbReady(x) THEN "true" ELSE "unknown",
                   att |-> AttachedRoutes(x)]
        plan(at) == [at |-> at, lst |-> status.lst, acc |-> status.acc, att |-> status.att,
                     todo |-> todo, new |-> new, gfresh |-> "yes", rfresh |-> todo]
    IN  IF AlbReady(x) /\ SameGatewayStatus(x, status)
        THEN IF todo = {} THEN CIdle ELSE plan("routes")
        ELSE plan("gw")

Begin(x) ==
    /\ x \in q \cap Up
    /\ ctl[x].at = "idle"
    /\ q' = q \ {x}
    /\ \E plan \in {Plan(x)} :
          /\ ctl' = [ctl EXCEPT ![x] = IF gw[x].there = "yes" THEN plan ELSE CIdle]
          /\ lost' = lost \ ({x} \X (R \ plan.todo))
    /\ UNCHANGED <<gw, rt, opVars>>

(* A gateway object is written: filterSelectedGateway lets every event of  *)
(* the gateway through, the writer's own included.  The repetition after   *)
(* ten seconds, while the alb is not running, adds nothing to it: the alb  *)
(* turning to running is an event as well.                                 *)
GwWritten(x, new) ==
    /\ gw' = [gw EXCEPT ![x] = new]
    /\ q' = IF new # gw[x] THEN q \cup ({x} \cap Up) ELSE q
    /\ OpNotices(x, gw[x], new)

Outdate(c) == IF c.at = "idle" THEN c ELSE [c EXCEPT !.gfresh = "no"]

AfterGw(c) == IF c.todo = {} THEN CIdle ELSE [c EXCEPT !.at = "routes"]

(* updateGatewayStatus; an error ends the pass before any route is written *)
WriteGw(x) ==
    /\ ctl[x].at = "gw"
    /\ IF ctl[x].gfresh = "no" \/ gw[x].there = "no"
       THEN /\ ctl' = [ctl EXCEPT ![x] = CIdle]
            /\ q' = q \cup {x}
            /\ UNCHANGED <<gw, opq, op>>
       ELSE /\ GwWritten(x, [gw[x] EXCEPT !.lst = ctl[x].lst, !.acc = ctl[x].acc,
                                          !.att = ctl[x].att])
            /\ ctl' = [ctl EXCEPT ![x] = AfterGw(@)]
    /\ UNCHANGED <<rt, lost, albs, seen, turns, mishap>>

Forget(c, r) ==
    IF c.todo = {r} THEN CIdle ELSE [c EXCEPT !.todo = @ \ {r}, !.rfresh = @ \ {r}]

(* Mutated form: the status is written without looking at the version.     *)
WriteRouteForced(x, r) ==
    /\ ctl[x].at = "routes" /\ r \in ctl[x].todo
    /\ rt' = [rt EXCEPT ![r].st = ctl[x].new[r]]
    /\ ctl' = [ctl EXCEPT ![x] = Forget(@, r)]
    /\ UNCHANGED <<gw, q, lost, opVars>>

WriteRoute(x, r) ==
    /\ ctl[x].at = "routes" /\ r \in ctl[x].todo
    /\ r \in ctl[x].rfresh
    /\ rt' = [rt EXCEPT ![r].st = ctl[x].new[r]]
    /\ ctl' = [y \in Gw |-> IF y = x THEN Forget(ctl[y], r)
                            ELSE [ctl[y] EXCEPT !.rfresh = @ \ {r}]]
    /\ lost' = lost \ {<<x, r>>}
    /\ UNCHANGED <<gw, q, opVars>>

(* The write is refused or fails: the error is logged, the loop goes on to *)
(* the next route, and the reconcile ends without an error.                *)
LoseRoute(x, r) ==
    /\ ctl[x].at = "routes" /\ r \in ctl[x].todo
    /\ \/ r \notin ctl[x].rfresh /\ UNCHANGED <<turns, mishap>>
       \/ r \in ctl[x].rfresh /\ Strikes("fail")
    /\ ctl' = [ctl EXCEPT ![x] = Forget(@, r)]
    /\ lost' = lost \cup {<<x, r>>}
    /\ UNCHANGED <<gw, rt, q, albs, seen, opq, op>>

(***************************************************************************)
(* The users, the albs and the operator.                                   *)
(***************************************************************************)
UserGw(x, new) ==
    /\ Turn
    /\ new # gw[x]
    /\ GwWritten(x, new)
    /\ ctl' = [ctl EXCEPT ![x] = Outdate(@)]
    /\ UNCHANGED <<rt, lost, albs, seen>>

EditListeners(x) ==
    \E lss \in GwSpecs : /\ gw[x].there = "yes"
                         /\ lss # gw[x].lss
                         /\ UserGw(x, [gw[x] EXCEPT !.lss = lss, !.gen = @ + 1])
                         /\ UNCHANGED mishap

(* The gateway becomes exclusive again.                                    *)
ComesBack == mishap' = mishap \cup {"back"}

EditClass == \E c \in {"exclusive", "shared"} :
                /\ gw[g].there = "yes"
                /\ c # gw[g].class
                /\ UserGw(g, [gw[g] EXCEPT !.class = c, !.gen = @ + 1])
                /\ IF c = "exclusive" THEN ComesBack ELSE UNCHANGED mishap

DeleteGw == /\ gw[g].there = "yes"
            /\ UserGw(g, [gw[g] EXCEPT !.there = "no"])
            /\ UNCHANGED mishap

CreateGw == /\ gw[g].there = "no"
            /\ UserGw(g, Created(gw[g].lss, "exclusive"))
            /\ ComesBack

(* Mutated form: the routes are watched for one of their references.       *)
WatchRoutesOne(spec) == {CHOOSE y \in {ref.gw : ref \in spec.refs} : TRUE} \cap Up

(* The predicate looks at the new object only, and drops events that leave *)
(* the generation as it was.                                               *)
WatchRoutes(spec) == {ref.gw : ref \in spec.refs} \cap Up

EditRoute(r) ==
    \E spec \in RtSpecs \ {rt[r].spec} :
       /\ Turn
       /\ rt' = [rt EXCEPT ![r].spec = spec, ![r].gen = @ + 1]
       /\ q' = q \cup WatchRoutes(spec)
       /\ ctl' = [x \in Gw |-> [ctl[x] EXCEPT !.rfresh = @ \ {r}]]
       /\ UNCHANGED <<gw, lost, albs, seen, opq, op, mishap>>

(* A step of the albs: a controller starts with its alb, hears of its      *)
(* state changes, and ends with it.                                        *)
CtlFollowsAlbs ==
    /\ q' = IF g \notin UpWith(albs') THEN q \ {g}
            ELSE IF albs' # albs THEN q \cup {g} ELSE q
    /\ IF g \in UpWith(albs') THEN UNCHANGED <<ctl, lost>>
       ELSE /\ ctl' = [ctl EXCEPT ![g] = CIdle]
            /\ lost' = lost \cup ({g} \X ctl[g].todo)
    /\ UNCHANGED rt

AlbStep == AlbNext /\ CtlFollowsAlbs /\ UNCHANGED gw

(* The operator's writes of g are seen by the alb's controller.            *)
CtlFollowsOp ==
    /\ q' = IF gw' # gw \/ albs' # albs THEN q \cup ({g} \cap UpWith(albs')) ELSE q
    /\ ctl' = IF gw' # gw THEN [ctl EXCEPT ![g] = Outdate(@)] ELSE ctl
    /\ UNCHANGED <<rt, lost>>

OpStep == OpNext /\ CtlFollowsOp

CtlStep(x) == \/ Begin(x)
              \/ WriteGw(x)
              \/ \E r \in R : WriteRoute(x, r) \/ LoseRoute(x, r)

UserStep == \/ \E x \in Gw : EditListeners(x)
            \/ EditClass
            \/ DeleteGw
            \/ CreateGw
            \/ \E r \in R : EditRoute(r)

Next == AlbStep \/ OpStep \/ UserStep \/ \E x \in Gw : CtlStep(x)

Spec == Init /\ [][Next]_vars

(* The work queues are served and the caches follow; the users and the     *)
(* failures owe nothing.                                                   *)
AlbProgress(n) ==
    (SeeAlb(n) \/ AlbRuns(n) \/ AlbFreed(n)) /\ CtlFollowsAlbs /\ UNCHANGED gw

Fairness ==
    /\ WF_vars(OpStep)
    /\ \A n \in AlbName : WF_vars(AlbProgress(n))
    /\ \A x \in Gw : WF_vars(CtlStep(x))

FairSpec == Spec /\ Fairness

(***************************************************************************)
(* Properties.                                                             *)
(***************************************************************************)
(* The type invariant of the gateways, the routes and the controllers.     *)
TypeOK ==
    /\ OpTypeOK
    /\ \A x \in Gw : /\ gw[x].there \in {"yes", "no"}
                     /\ gw[x].label \in 0..NAlb
                     /\ gw[x].lst.gen <= gw[x].gen
                     /\ ctl[x].at \in {"idle", "gw", "routes"}
                     /\ ctl[x].rfresh \subseteq R
    /\ \A r \in R : \A e \in rt[r].st : e.gen <= rt[r].gen
    /\ q \subseteq Gw
    /\ lost \subseteq Gw \X R

(* At most one alb is alive for the gateway, unless the controller looked  *)
(* for albs while one it had built was not yet in its cache                *)
(* (standalone_gateway/gateway/reconciler.go, findOrbuildAlb).             *)
NoTwin == "unseen" \notin mishap => \A m, n \in Live : m = n

(* A controller that has nothing queued and wrote every route of its last  *)
(* pass has left statuses from which exactly the admitted routes are       *)
(* served: no edit of a gateway or a route slips past the watches, and no  *)
(* verdict on an older generation is used (gateway/nginx/driver.go).       *)
QuietIsRight ==
    \A x \in Up \ q :
       ctl[x].at = "idle" /\ gw[x].there = "yes" /\ lost \cap ({x} \X R) = {}
          => Served(x) = Admitted(x)

(* A route that is served although the gateway or the route, as they are   *)
(* now, do not admit it is one whose status the controller is about to     *)
(* correct, or failed to correct: a verdict on an older listener or route  *)
(* is not used (ObservedGeneration, gateway/nginx/driver.go).              *)
ServedInError ==
    \A x \in Up : \A p \in Served(x) \ Admitted(x) :
       \/ ctl[x].at = "routes" /\ p[2] \in ctl[x].todo
       \/ <<x, p[2]>> \in lost

(* What is served is what is admitted, up to the writes that are under way *)
(* or were lost (gateway/nginx/driver.go).                                 *)
ServedRight == QuietIsRight /\ ServedInError

(* A status write of a route changes the entries of one gateway only ("we  *)
(* must keep condition which ref to other gateway", gateway.go).           *)
KeepsOthers ==
    [][\A r \in R : rt'[r].st # rt[r].st =>
          \E x \in Gw : \A e \in (rt[r].st \ rt'[r].st) \cup (rt'[r].st \ rt[r].st) :
             e.ref.gw = x]_vars

(* In the end an exclusive gateway names a running alb, and a gateway that *)
(* is gone or of another class has none, unless the controller looked for  *)
(* albs while one was not in its cache.  Only when a user deleted the alb, *)
(* or the gateway left and came back, may the gateway be stuck with the    *)
(* name of an alb that is gone.                                            *)
AlbFollowsGateway ==
    <>[]("unseen" \notin mishap =>
            IF gw[g].there = "yes" /\ gw[g].class = "exclusive"
            THEN /\ gw[g].label # 0
                 /\ \/ albs[gw[g].label] = "running"
                    \/ mishap \cap {"back", "albdel"} # {} /\ albs[gw[g].label] = "gone"
            ELSE \A n \in AlbName : albs[n] \in {"none", "gone"})

(* In the end the Accepted condition says whether the alb runs, although   *)
(* the operator and the alb's controller both write it, and the routes are *)
(* served as admitted unless a route write was lost.                       *)
StatusSettles ==
    <>[](\A x \in Up : gw[x].there = "yes" =>
            /\ AlbReady(x) => gw[x].acc = "true"
            /\ lost \cap ({x} \X R) = {} => Served(x) = Admitted(x))
=============================================================================
