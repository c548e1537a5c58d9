------------------------------ MODULE AlbLife ------------------------------
(***************************************************************************)
(* What the operator and an alb instance promise each other about the life *)
(* of an alb resource: the operator guards it with two finalizers before   *)
(* it deploys anything, and once a user deletes the resource the operator  *)
(* lets it go only when the instance has given up its own finalizer or the *)
(* grace period is over.  AlbOperator implements this specification, and   *)
(* IngressStatus uses it in the place of the operator.                     *)
(***************************************************************************)
VARIABLES
  life,   \* "fresh" without the operator's finalizer, "guarded", "leaving", "gone"
  inst,   \* whether the instance's finalizer is on it: "yes" or "no"
  grace   \* whether the time to wait for the instance is "running" or "over"

lifeVars == <<life, inst, grace>>

LifeOK ==
  /\ life \in {"fresh", "guarded", "leaving", "gone"}
  /\ inst \in {"yes", "no"}
  /\ grace \in {"running", "over"}

LifeInit == life = "fresh" /\ inst = "no" /\ grace = "running"

\* Both finalizers go on in one update.
Guard ==
  /\ life = "fresh"
  /\ life' = "guarded" /\ inst' = "yes"
  /\ UNCHANGED grace

\* A user deletes the alb: without a finalizer it is gone at once.
Leave ==
  /\ \/ life = "fresh" /\ life' = "gone"
     \/ life = "guarded" /\ life' = "leaving"
  /\ UNCHANGED <<inst, grace>>

\* The instance has cleaned up after itself.
InstanceDone ==
  /\ life = "leaving" /\ inst = "yes"
  /\ inst' = "no"
  /\ UNCHANGED <<life, grace>>

\* Ten seconds have passed since the deletion.
GraceOver ==
  /\ life = "leaving" /\ grace = "running"
  /\ grace' = "over"
  /\ UNCHANGED <<life, inst>>

\* The operator removes both finalizers.
Free ==
  /\ life = "leaving"
  /\ inst = "no" \/ grace = "over"
  /\ life' = "gone" /\ inst' = "no"
  /\ UNCHANGED grace

LifeNext == Guard \/ Leave \/ InstanceDone \/ GraceOver \/ Free

LifeSpec == LifeInit /\ [][LifeNext]_lifeVars
=============================================================================
