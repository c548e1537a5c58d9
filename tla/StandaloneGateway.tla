-------------------------- MODULE StandaloneGateway --------------------------
(***************************************************************************)
(* The operator's gateway controller (pkg/operator/controllers/            *)
(* standalone_gateway/gateway): a gateway of the class exclusive-gateway   *)
(* gets an alb of its own.  The controller finds or creates the alb, names *)
(* it in a label of the gateway, withdraws the gateway's Accepted          *)
(* condition while the alb is not running, and deletes the albs it finds   *)
(* when the gateway is deleted or changes its class.                       *)
(*                                                                         *)
(* The gateways, their specification and their status are shared with the  *)
(* alb's own gateway controller (module GatewayCtl); this module owns the  *)
(* albs and the operator's work.  An alb name is random and never reused:  *)
(* the names are 1, 2, ..., taken in turn, 0 stands for no name, and a     *)
(* name that was used ends as "gone".                                      *)
(***************************************************************************)
EXTENDS Naturals, FiniteSets

CONSTANTS Gw,        \* the gateways
          g,         \* the one of them whose class is (at first) exclusive
          NAlb,      \* how many albs the operator builds at most
          Faulty,    \* the failures that may happen
          MaxTurn    \* how many edits and failures there are in one run

ASSUME OpConstants == g \in Gw /\ NAlb \in Nat \ {0} /\ MaxTurn \in Nat \ {0}

VARIABLES gw,      \* gw[x]: the gateway object x
          albs,    \* albs[n]: how far the alb n has come
          seen,    \* the albs in the operator's cache
          opq,     \* "yes" when the request for g is in the work queue
          op,      \* the operator's reconcile of g
          turns,   \* the edits and failures that may still come
          mishap   \* the races that have happened so far

AlbName == 1..NAlb

opVars == <<albs, seen, opq, op, turns, mishap>>

AlbState == {"none", "pending", "running", "leaving", "gone"}

Idle == [at |-> "idle", alb |-> 0, todo |-> {}, then |-> "idle",
         fresh |-> "yes"]

OpAt == {"idle", "delete", "unlabel", "status", "create", "label"}

(* The gateway is new, or an alb of its own runs already.                  *)
OpInit(settled) ==
    /\ albs = [n \in AlbName |-> IF settled /\ n = 1 THEN "running" ELSE "none"]
    /\ seen = IF settled THEN {1} ELSE {}
    /\ opq = IF settled THEN "no" ELSE "yes"
    /\ op = Idle
    /\ turns = IF settled THEN MaxTurn ELSE MaxTurn - 1
    /\ mishap = {}

(* An edit or a failure uses up a turn; a failure is recorded.             *)
Turn == turns > 0 /\ turns' = turns - 1

Strikes(kind) == kind \in Faulty /\ Turn /\ mishap' = mishap \cup {kind}

Live == {n \in AlbName : albs[n] \in {"pending", "running"}}

(***************************************************************************)
(* Events.  ignoreNotSharedGateway lets a gateway event through when the   *)
(* class is, or was, the exclusive one; watchAlb lets an alb event through *)
(* when the gateway exists, and for an update when the state changed.      *)
(***************************************************************************)
(* Mutated form: only the new class is looked at.                          *)
IgnoreNotSharedNow(old, new) == new.class = "exclusive"

IgnoreNotSharedGateway(old, new) ==
    "exclusive" \in {old.class, new.class}

WatchAlb == IF gw[g].there = "yes" THEN "yes" ELSE opq

(* Another client wrote gateway x: the copy the operator read is outdated. *)
OpNotices(x, old, new) ==
    /\ opq' = IF x = g /\ IgnoreNotSharedGateway(old, new) THEN "yes" ELSE opq
    /\ op' = IF x = g /\ op.at # "idle" THEN [op EXCEPT !.fresh = "no"] ELSE op

SeeAlb(n) ==
    /\ albs[n] \notin {"none", "gone"}
    /\ n \notin seen
    /\ seen' = seen \cup {n}
    /\ opq' = WatchAlb
    /\ UNCHANGED <<albs, op, turns, mishap>>

(* The alb's controller brings it up, loses it and lets it go.             *)
AlbRuns(n) ==
    /\ albs[n] = "pending"
    /\ albs' = [albs EXCEPT ![n] = "running"]
    /\ opq' = IF n \in seen THEN WatchAlb ELSE opq
    /\ UNCHANGED <<seen, op, turns, mishap>>

AlbFlaps(n) ==
    /\ albs[n] = "running"
    /\ Strikes("flap")
    /\ albs' = [albs EXCEPT ![n] = "pending"]
    /\ opq' = IF n \in seen THEN WatchAlb ELSE opq
    /\ UNCHANGED <<seen, op>>

AlbFreed(n) ==
    /\ albs[n] = "leaving"
    /\ albs' = [albs EXCEPT ![n] = "gone"]
    /\ seen' = seen \ {n}
    /\ UNCHANGED <<opq, op, turns, mishap>>

UserDeletesAlb(n) ==
    /\ n \in Live
    /\ Strikes("albdel")
    /\ albs' = [albs EXCEPT ![n] = "leaving"]
    /\ UNCHANGED <<seen, opq, op>>

(***************************************************************************)
(* The reconcile.  Each call to the API server is a step of its own; an    *)
(* error puts the request back into the queue.                             *)
(***************************************************************************)
(* Mutated form: findAlb returns the albs that are running.                *)
FindAlbRunning == {n \in seen : albs[n] = "running"}

(* findAlb lists the cache: an alb that is being deleted is found as well. *)
FindAlb == seen

(* The albs found are deleted one by one; then the reconcile ends, or      *)
(* takes the label off the gateway (gatewayclassChange).                   *)
GatewayDeleted(then) ==
    [Idle EXCEPT !.at = IF FindAlb = {} THEN then ELSE "delete",
                 !.todo = FindAlb, !.then = then]

UpdateGatewayStatus(n) ==
    IF albs[n] # "running" /\ gw[g].acc = "true"
    THEN [Idle EXCEPT !.at = "status"] ELSE Idle

FindOrbuildAlb ==
    IF FindAlb = {} THEN {[Idle EXCEPT !.at = "create"]}
    ELSE {[Idle EXCEPT !.at = "label", !.alb = n] : n \in FindAlb}

(* When the label names an alb the cache does not hold the reconcile ends  *)
(* with an error and changes nothing: no plan, the request stays queued.   *)
Reconcile ==
    CASE gw[g].there = "no" -> {GatewayDeleted("idle")}
      [] gw[g].there = "yes" /\ gw[g].class # "exclusive" ->
            {GatewayDeleted("unlabel")}
      [] gw[g].there = "yes" /\ gw[g].class = "exclusive" /\ gw[g].label = 0 ->
            FindOrbuildAlb
      [] OTHER -> {UpdateGatewayStatus(n) : n \in {gw[g].label} \cap seen}

(* The race a plan can hide: it looks for albs while one that exists is    *)
(* not in the cache.                                                       *)
RacesOf(plan) ==
    IF /\ Live \ seen # {}
       /\ plan.at \notin {"status", "label"}
       /\ gw[g].there = "yes" /\ gw[g].class = "exclusive" => gw[g].label = 0
    THEN {"unseen"} ELSE {}

OpTake ==
    /\ op.at = "idle"
    /\ opq = "yes"
    /\ opq' = "no"
    /\ \E plan \in Reconcile :
          /\ op' = plan
          /\ mishap' = mishap \cup RacesOf(plan)
    /\ UNCHANGED <<albs, seen, turns, gw>>

Retry == /\ op' = Idle
         /\ opq' = "yes"

Advance(at) == /\ op' = IF at = "idle" THEN Idle ELSE [op EXCEPT !.at = at, !.todo = {}]
               /\ UNCHANGED opq

OpCreate ==
    /\ op.at = "create"
    /\ \E n \in AlbName :
          /\ albs[n] = "none"
          /\ \A k \in 1..(n - 1) : albs[k] # "none"
          /\ albs' = [albs EXCEPT ![n] = "pending"]
          /\ op' = [op EXCEPT !.at = "label", !.alb = n]
    /\ UNCHANGED <<seen, opq, turns, mishap, gw>>

(* Deleting an alb the API server no longer has is an error as well.       *)
OpDelete(n) ==
    /\ op.at = "delete"
    /\ n \in op.todo
    /\ IF albs[n] = "gone"
       THEN Retry /\ UNCHANGED albs
       ELSE /\ albs' = [albs EXCEPT ![n] = "leaving"]
            /\ IF op.todo = {n} THEN Advance(op.then)
               ELSE op' = [op EXCEPT !.todo = @ \ {n}] /\ UNCHANGED opq
    /\ UNCHANGED <<seen, turns, mishap, gw>>

(* An update of the copy the operator read: refused when it is outdated.   *)
OpWrites(new) ==
    /\ IF op.fresh = "no" \/ gw[g].there = "no"
       THEN Retry /\ UNCHANGED gw
       ELSE /\ gw' = [gw EXCEPT ![g] = new]
            /\ op' = Idle
            /\ opq' = IF new # gw[g] /\ IgnoreNotSharedGateway(gw[g], new)
                      THEN "yes" ELSE opq
    /\ UNCHANGED <<albs, seen, turns, mishap>>

OpLabel ==
    /\ op.at = "label"
    /\ OpWrites([gw[g] EXCEPT !.label = op.alb])

OpUnlabel ==
    /\ op.at = "unlabel"
    /\ OpWrites([gw[g] EXCEPT !.label = 0])

OpStatus ==
    /\ op.at = "status"
    /\ OpWrites([gw[g] EXCEPT !.acc = "unknown"])

(* A call fails: nothing is changed and the request is tried again.        *)
OpFails ==
    /\ op.at # "idle"
    /\ Strikes("opfail")
    /\ Retry
    /\ UNCHANGED <<albs, seen, gw>>

(***************************************************************************)
(* Steps that leave the gateways alone, and steps that may write them.     *)
(***************************************************************************)
AlbNext == \E n \in AlbName :
              \/ SeeAlb(n)
              \/ AlbRuns(n)
              \/ AlbFlaps(n)
              \/ AlbFreed(n)
              \/ UserDeletesAlb(n)

OpNext == \/ OpTake
          \/ OpCreate
          \/ \E n \in AlbName : OpDelete(n)
          \/ OpLabel
          \/ OpUnlabel
          \/ OpStatus
          \/ OpFails

OpTypeOK ==
    /\ albs \in [AlbName -> AlbState]
    /\ seen \subseteq AlbName
    /\ opq \in {"yes", "no"}
    /\ op.at \in OpAt
    /\ op.alb \in 0..NAlb
    /\ op.todo \subseteq AlbName
    /\ op.fresh \in {"yes", "no"}
    /\ op.then \in {"idle", "unlabel"}
    /\ turns \in 0..MaxTurn
=============================================================================
