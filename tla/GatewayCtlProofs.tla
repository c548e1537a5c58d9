-------------------------- MODULE GatewayCtlProofs --------------------------
(***************************************************************************)
(* Proofs about GatewayCtl, for any gateways, routes, listeners, edits and *)
(* failures: the types, the one alb of a gateway, and that what is served  *)
(* is what is admitted.                                                    *)
(***************************************************************************)
EXTENDS GatewayCtl, TLAPS

\* The prover of every leaf that names none.
USE ZenonT(30)

-----------------------------------------------------------------------------
(* The operator. *)

OpState == [at : OpAt, alb : 0..NAlb, todo : SUBSET AlbName, then : {"idle", "unlabel"},
            fresh : {"yes", "no"}]

OpInv ==
    /\ albs \in [AlbName -> AlbState] /\ seen \subseteq AlbName /\ opq \in {"yes", "no"}
    /\ op \in OpState
    /\ turns \in 0..MaxTurn

LEMMA OpInvInit == Init => OpInv
BY OpConstants, SMTT(30) DEF Init, OpInit, OpInv, Idle, OpState, OpAt, AlbName, AlbState, OpConstants

LEMMA IdleTyped == Idle \in OpState
BY OpConstants, SMTT(30) DEF Idle, OpState, OpAt, OpConstants

(* The edits of a reconcile's record that the steps make.                  *)
LEMMA OpEdits ==
    ASSUME NEW o \in OpState, NEW at \in OpAt
    PROVE  /\ [o EXCEPT !.at = at, !.todo = {}] \in OpState
           /\ \A n \in 0..NAlb : [o EXCEPT !.at = at, !.alb = n] \in OpState
BY DEF OpState

LEMMA TurnTyped ==
    ASSUME OpInv, Turn PROVE turns' \in 0..MaxTurn
BY OpConstants, SMTT(30) DEF OpInv, Turn, OpConstants

LEMMA AlbNextTyped ==
    ASSUME OpInv, AlbNext PROVE OpInv'
<1> USE DEF OpInv
<1>1. ASSUME NEW n \in AlbName, SeeAlb(n) PROVE OpInv'
    BY <1>1 DEF SeeAlb, WatchAlb
<1>2. ASSUME NEW n \in AlbName, AlbRuns(n) PROVE OpInv'
    BY <1>2 DEF AlbRuns, WatchAlb, AlbState
<1>3. ASSUME NEW n \in AlbName, AlbFlaps(n) PROVE OpInv'
    BY <1>3, TurnTyped DEF AlbFlaps, WatchAlb, AlbState, Strikes
<1>4. ASSUME NEW n \in AlbName, AlbFreed(n) PROVE OpInv'
    BY <1>4 DEF AlbFreed, AlbState
<1>5. ASSUME NEW n \in AlbName, UserDeletesAlb(n) PROVE OpInv'
    BY <1>5, TurnTyped DEF UserDeletesAlb, AlbState, Strikes
<1> QED
    BY <1>1, <1>2, <1>3, <1>4, <1>5 DEF AlbNext

LEMMA ReconcileTyped ==
    ASSUME OpInv PROVE Reconcile \subseteq OpState
<1>1. \A then \in {"idle", "unlabel"} : GatewayDeleted(then) \in OpState
    BY IdleTyped DEF OpInv, GatewayDeleted, FindAlb, OpState, OpAt
<1>2. \A n : UpdateGatewayStatus(n) \in OpState
    BY IdleTyped DEF UpdateGatewayStatus, OpState, OpAt
<1>3. FindOrbuildAlb \subseteq OpState
    <2>1. [Idle EXCEPT !.at = "create"] \in OpState
        BY IdleTyped DEF OpState, OpAt
    <2>2. \A n \in FindAlb : [Idle EXCEPT !.at = "label", !.alb = n] \in OpState
        <3>1. "label" \in OpAt /\ FindAlb \subseteq 0..NAlb
            BY SMTT(30) DEF OpInv, FindAlb, OpAt, AlbName
        <3> QED
            BY <3>1, IdleTyped, OpEdits
    <2> QED
        BY <2>1, <2>2 DEF FindOrbuildAlb
<1> QED
    BY <1>1, <1>2, <1>3 DEF Reconcile

LEMMA OpNextTyped ==
    ASSUME OpInv, OpNext PROVE OpInv'
<1>1. CASE OpTake
    BY <1>1, ReconcileTyped DEF OpTake, OpInv
<1>2. CASE OpCreate
    <2>1. PICK n \in AlbName : /\ albs' = [albs EXCEPT ![n] = "pending"]
                               /\ op' = [op EXCEPT !.at = "label", !.alb = n]
        BY <1>2 DEF OpCreate
    <2>2. op' \in OpState
        <3>1. op \in OpState /\ "label" \in OpAt /\ n \in 0..NAlb
            BY SMTT(30) DEF OpInv, OpAt, AlbName
        <3> QED
            BY <2>1, <3>1, OpEdits
    <2>3. albs' \in [AlbName -> AlbState]
        BY <2>1 DEF OpInv, AlbState
    <2> QED
        BY <1>2, <2>2, <2>3 DEF OpCreate, OpInv
<1>3. ASSUME NEW n \in AlbName, OpDelete(n) PROVE OpInv'
    <2>1. albs' \in [AlbName -> AlbState]
        BY <1>3 DEF OpDelete, OpInv, AlbState
    <2>2. op' \in OpState /\ opq' \in {"yes", "no"}
        <3>1. op \in OpState /\ op.then \in OpAt /\ op.todo \subseteq AlbName
            BY DEF OpInv, OpState, OpAt
        <3>2. CASE Retry
            BY <3>2, IdleTyped DEF Retry
        <3>3. CASE Advance(op.then)
            BY <3>1, <3>3, IdleTyped, OpEdits DEF Advance, OpInv
        <3>4. CASE op' = [op EXCEPT !.todo = op.todo \ {n}] /\ UNCHANGED opq
            <4>1. op.todo \ {n} \in SUBSET AlbName
                BY <3>1
            <4> QED
                BY <3>1, <3>4, <4>1 DEF OpInv, OpState
        <3> QED
            BY <1>3, <3>2, <3>3, <3>4 DEF OpDelete
    <2> QED
        BY <1>3, <2>1, <2>2 DEF OpDelete, OpInv
<1>4. ASSUME NEW new, OpWrites(new) PROVE OpInv'
    BY <1>4, IdleTyped DEF OpWrites, OpInv, Retry
<1>5. CASE OpFails
    BY <1>5, IdleTyped, TurnTyped DEF OpFails, OpInv, Retry, Strikes
<1> QED
    BY <1>1, <1>2, <1>3, <1>4, <1>5 DEF OpNext, OpLabel, OpUnlabel, OpStatus

LEMMA NoticesTyped ==
    ASSUME OpInv, NEW x, NEW old, NEW new, OpNotices(x, old, new)
    PROVE  opq' \in {"yes", "no"} /\ op' \in OpState
BY DEF OpInv, OpNotices, OpState

LEMMA CtlStepOp ==
    ASSUME OpInv, UserStep \/ \E x \in Gw : CtlStep(x)
    PROVE  /\ OpInv'
           /\ albs' = albs /\ seen' = seen
           /\ op'.at = op.at
           /\ mishap \subseteq mishap'
<1> DEFINE Good == OpInv' /\ albs' = albs /\ seen' = seen /\ op'.at = op.at /\ mishap \subseteq mishap'
<1>1. ASSUME NEW x, NEW new, UserGw(x, new), mishap \subseteq mishap' PROVE Good
    <2>1. op'.at = op.at
        BY <1>1 DEF UserGw, GwWritten, OpNotices, OpInv, OpState
    <2> QED
        BY <1>1, <2>1, TurnTyped, NoticesTyped DEF UserGw, GwWritten, OpInv
<1>2. ASSUME NEW x \in Gw, Begin(x) PROVE Good
    BY <1>2 DEF Begin, opVars, OpInv
<1>3. ASSUME NEW x \in Gw, WriteGw(x) PROVE Good
    <2>1. CASE UNCHANGED <<opq, op>>
        BY <1>3, <2>1 DEF WriteGw, OpInv
    <2>2. ASSUME NEW new, GwWritten(x, new) PROVE Good
        <3>1. op'.at = op.at
            BY <2>2 DEF GwWritten, OpNotices, OpInv, OpState
        <3> QED
            BY <1>3, <2>2, <3>1, NoticesTyped DEF WriteGw, GwWritten, OpInv
    <2> QED
        BY <1>3, <2>1, <2>2 DEF WriteGw
<1>4. ASSUME NEW x \in Gw, NEW r \in R, WriteRoute(x, r) PROVE Good
    BY <1>4 DEF WriteRoute, opVars, OpInv
<1>5. ASSUME NEW x \in Gw, NEW r \in R, LoseRoute(x, r) PROVE Good
    BY <1>5, TurnTyped DEF LoseRoute, OpInv, Strikes
<1>6. ASSUME NEW r \in R, EditRoute(r) PROVE Good
    BY <1>6, TurnTyped DEF EditRoute, OpInv
<1>7. ASSUME UserStep PROVE Good
    BY <1>1, <1>6, <1>7 DEF UserStep, EditListeners, EditClass, DeleteGw, CreateGw, ComesBack
<1> HIDE DEF Good
<1>8. Good
    BY <1>2, <1>3, <1>4, <1>5, <1>7 DEF CtlStep
<1> QED
    BY <1>8 DEF Good

LEMMA OpInvStep == OpInv /\ [Next]_vars => OpInv'
<1> SUFFICES ASSUME OpInv, [Next]_vars PROVE OpInv'
    OBVIOUS
<1>1. CASE UNCHANGED vars
    BY <1>1 DEF vars, opVars, OpInv
<1>2. CASE AlbStep
    BY <1>2, AlbNextTyped DEF AlbStep
<1>3. CASE OpStep
    BY <1>3, OpNextTyped DEF OpStep
<1>4. CASE UserStep \/ \E x \in Gw : CtlStep(x)
    BY <1>4, CtlStepOp
<1> QED
    BY <1>1, <1>2, <1>3, <1>4 DEF Next

(* An alb is only created when none is alive, and one at a time.           *)
OneLive ==
    "unseen" \notin mishap =>
       /\ op.at = "create" => Live = {}
       /\ \A m, n \in Live : m = n

LEMMA OneLiveInit == Init => OneLive
BY SMTT(30) DEF Init, OpInit, OneLive, Live, Idle

LEMMA OneLiveStep == OpInv /\ OneLive /\ [Next]_vars => OneLive'
<1> SUFFICES ASSUME OpInv, OneLive, [Next]_vars PROVE OneLive'
    OBVIOUS
<1>0. OpInv'
    BY OpInvStep
<1>1. ASSUME Live' \subseteq Live, mishap \subseteq mishap', op'.at = "create" => op.at = "create"
      PROVE  OneLive'
    BY <1>1 DEF OneLive
<1>2. CASE UNCHANGED vars
    BY <1>1, <1>2 DEF vars, opVars, Live
<1>3. CASE AlbStep
    <2>1. Live' \subseteq Live
        BY <1>3 DEF AlbStep, AlbNext, SeeAlb, AlbRuns, AlbFlaps, AlbFreed, UserDeletesAlb,
                    Live, OpInv
    <2> QED
        BY <1>1, <1>3, <2>1 DEF AlbStep, AlbNext, SeeAlb, AlbRuns, AlbFlaps, AlbFreed,
                                UserDeletesAlb, Strikes
<1>4. CASE UserStep \/ \E x \in Gw : CtlStep(x)
    BY <1>1, <1>4, CtlStepOp DEF Live
<1>5. CASE OpTake
    <2>1. PICK plan \in Reconcile : op' = plan /\ mishap' = mishap \cup RacesOf(plan)
        BY <1>5 DEF OpTake
    <2>2. Live' = Live
        BY <1>5 DEF OpTake, Live
    <2>3. CASE plan.at = "create"
        <3>1. /\ FindAlb = {}
              /\ gw[g].there = "yes" /\ gw[g].class = "exclusive" => gw[g].label = 0
            <4>1. \A then \in {"idle", "unlabel"} : GatewayDeleted(then).at # "create"
                BY DEF GatewayDeleted, Idle
            <4>2. \A n : UpdateGatewayStatus(n).at # "create"
                BY DEF UpdateGatewayStatus, Idle
            <4>3. plan \in FindOrbuildAlb /\ gw[g].label = 0
                BY <2>3, <4>1, <4>2 DEF Reconcile
            <4>4. \A n : [Idle EXCEPT !.at = "label", !.alb = n].at # "create"
                BY DEF Idle
            <4> QED
                BY <2>3, <4>3, <4>4 DEF FindOrbuildAlb
        <3>2. Live # {} => "unseen" \in mishap'
            BY <2>1, <2>3, <3>1 DEF RacesOf, FindAlb
        <3> QED
            BY <2>1, <2>2, <3>2 DEF OneLive
    <2> QED
        BY <1>1, <2>1, <2>2, <2>3
<1>6. CASE OpCreate
    <2>1. PICK n \in AlbName : /\ albs' = [albs EXCEPT ![n] = "pending"]
                               /\ op' = [op EXCEPT !.at = "label", !.alb = n]
        BY <1>6 DEF OpCreate
    <2>2. op'.at # "create"
        BY <2>1 DEF OpInv, OpState
    <2>3. Live' \subseteq Live \cup {n}
        BY <2>1 DEF Live, OpInv
    <2>4. mishap' = mishap /\ op.at = "create"
        BY <1>6 DEF OpCreate
    <2> QED
        BY <2>2, <2>3, <2>4 DEF OneLive
<1>7. ASSUME NEW n \in AlbName, OpDelete(n) PROVE OneLive'
    <2>1. op'.at # "create"
        <3>1. op.at = "delete" /\ op.then # "create" /\ op \in OpState
            BY <1>7 DEF OpDelete, OpInv, OpState
        <3>2. CASE Retry
            BY <3>2 DEF Retry, Idle
        <3>3. CASE Advance(op.then)
            BY <3>1, <3>3 DEF Advance, Idle, OpState
        <3>4. CASE op' = [op EXCEPT !.todo = op.todo \ {n}]
            BY <3>1, <3>4 DEF OpState
        <3> QED
            BY <1>7, <3>2, <3>3, <3>4 DEF OpDelete
    <2>2. Live' \subseteq Live
        BY <1>7 DEF OpDelete, Live, OpInv
    <2> QED
        BY <1>1, <1>7, <2>1, <2>2 DEF OpDelete
<1>8. ASSUME NEW new, OpWrites(new) PROVE OneLive'
    BY <1>1, <1>8, SMTT(30) DEF OpWrites, Retry, Idle, Live
<1>9. CASE OpFails
    BY <1>1, <1>9 DEF OpFails, Retry, Idle, Live, Strikes
<1>10. CASE OpStep
    BY <1>5, <1>6, <1>7, <1>8, <1>9, <1>10
    DEF OpStep, OpNext, OpLabel, OpUnlabel, OpStatus
<1> QED
    BY <1>2, <1>3, <1>4, <1>10 DEF Next

(* NoTwin: however many albs the operator builds for the gateway over      *)
(* time, at most one of them is alive (findOrbuildAlb), unless it looked   *)
(* for albs while its cache lacked one.                                    *)
THEOREM NoTwinAlbs == Spec => []NoTwin
<1>1. OneLive => NoTwin
    BY DEF OneLive, NoTwin
<1> QED
    BY <1>1, OpInvInit, OpInvStep, OneLiveInit, OneLiveStep, PTL DEF Spec

-----------------------------------------------------------------------------
(* The types of the gateways, the routes and their controllers. *)

Ready == {{}} \cup {ReadyNames(lss) : lss \in GwSpecs}
ListenerStatus == [gen : Nat, ready : Ready]

Verdict == [ref : UNION {spec.refs : spec \in RtSpecs}, gen : Nat, ok : {"yes", "no"}]

Count == {0} \cup {Cardinality(S) : S \in SUBSET R}
             \cup {Cardinality(S) : S \in SUBSET (Verdict \X R)}

GwState ==
    [there : {"yes", "no"}, class : {"exclusive", "shared"}, label : 0..NAlb, gen : Nat,
     lss : GwSpecs, acc : {"true", "unknown"}, lst : ListenerStatus, att : Count]

RtState == [gen : Nat, spec : RtSpecs, st : SUBSET Verdict]

CtlState ==
    [at : {"idle", "gw", "routes"}, lst : ListenerStatus, acc : {"true", "unknown"},
     att : Count, todo : SUBSET R, new : [R -> SUBSET Verdict], gfresh : {"yes", "no"},
     rfresh : SUBSET R]

CtlInv ==
    /\ gw \in [Gw -> GwState] /\ rt \in [R -> RtState] /\ ctl \in [Gw -> CtlState]
    /\ q \subseteq Gw /\ lost \subseteq Gw \X R

LEMMA JudgeTyped ==
    ASSUME NEW lss, NEW spec \in RtSpecs, NEW gen \in Nat, NEW x
    PROVE  Judge(lss, spec, gen, x) \in SUBSET Verdict
BY SMTT(30) DEF Judge, RefsTo, Verdict

LEMMA StatusTyped ==
    ASSUME NEW gen \in Nat, NEW lss \in GwSpecs
    PROVE  /\ [gen |-> gen, ready |-> ReadyNames(lss)] \in ListenerStatus
           /\ [gen |-> 0, ready |-> {}] \in ListenerStatus
BY DEF ListenerStatus, Ready

LEMMA CreatedTyped ==
    ASSUME NEW lss \in GwSpecs, NEW class \in {"exclusive", "shared"}
    PROVE  Created(lss, class) \in GwState
<1>1. [gen |-> 0, ready |-> {}] \in ListenerStatus /\ 0 \in Count /\ 0 \in 0..NAlb
    BY OpConstants, SMTT(30) DEF ListenerStatus, Ready, Count, OpConstants
<1> QED
    BY <1>1 DEF Created, GwState

LEMMA CIdleTyped == CIdle \in CtlState
<1>1. [gen |-> 0, ready |-> {}] \in ListenerStatus /\ 0 \in Count
    BY DEF ListenerStatus, Ready, Count
<1>2. [r \in R |-> {}] \in [R -> SUBSET Verdict]
    OBVIOUS
<1> QED
    BY <1>1, <1>2 DEF CIdle, CtlState

LEMMA SettledTyped ==
    ASSUME NEW x \in Gw, NEW label \in 0..NAlb, NEW class \in {"exclusive", "shared"}
    PROVE  /\ Settled(x) \in GwState
           /\ [Settled(x) EXCEPT !.class = class, !.label = label] \in GwState
<1> DEFINE att == Cardinality({r \in R : \E ref \in RefsTo(x, StartRt[r]) :
                                          FilteRoutes(Start[x], StartRt[r], ref)})
           lst == [gen |-> 1, ready |-> ReadyNames(Start[x])]
<1>1. Start[x] \in GwSpecs
    BY GatewayConstants DEF GatewayConstants
<1>2. att \in Count
    BY DEF Count
<1>3. lst \in ListenerStatus
    BY <1>1, StatusTyped
<1>4. Created(Start[x], "shared") \in GwState
    BY <1>1, CreatedTyped
<1>5. Settled(x) = [Created(Start[x], "shared") EXCEPT !.acc = "true", !.lst = lst, !.att = att]
    BY DEF Settled
<1> HIDE DEF att, lst
<1>6. Settled(x) \in GwState
    BY <1>2, <1>3, <1>4, <1>5 DEF GwState
<1> QED
    BY <1>6 DEF GwState

LEMMA CtlInvInit == Init => CtlInv
<1> SUFFICES ASSUME Init PROVE CtlInv
    OBVIOUS
<1> USE GatewayConstants, OpConstants DEF GatewayConstants, OpConstants
<1>1. PICK settled \in BOOLEAN :
         /\ gw = [x \in Gw |->
                  IF x # g THEN Settled(x)
                  ELSE IF settled
                  THEN [Settled(g) EXCEPT !.class = "exclusive", !.label = 1]
                  ELSE Created(Start[g], "exclusive")]
         /\ rt = [r \in R |->
                  [gen |-> 1, spec |-> StartRt[r],
                   st |-> UNION {Judge(Start[x], StartRt[r], 1, x)
                                 : x \in IF settled THEN Gw ELSE Gw \ {g}}]]
    BY DEF Init
<1>2. gw \in [Gw -> GwState]
    <2>1. Created(Start[g], "exclusive") \in GwState
        BY CreatedTyped
    <2>2. [Settled(g) EXCEPT !.class = "exclusive", !.label = 1] \in GwState
        <3>1. 1 \in 0..NAlb /\ "exclusive" \in {"exclusive", "shared"}
            BY SMTT(30)
        <3> QED
            BY <3>1, SettledTyped
    <2>3. \A x \in Gw : Settled(x) \in GwState
        <3>1. 0 \in 0..NAlb
            BY SMTT(30)
        <3> QED
            BY <3>1, SettledTyped
    <2> QED
        BY <1>1, <2>1, <2>2, <2>3
<1>3. rt \in [R -> RtState]
    <2>1. ASSUME NEW r \in R
          PROVE  UNION {Judge(Start[x], StartRt[r], 1, x)
                        : x \in IF settled THEN Gw ELSE Gw \ {g}} \in SUBSET Verdict
        BY JudgeTyped, SMTT(30)
    <2> QED
        BY <1>1, <2>1 DEF RtState
<1> QED
    BY <1>2, <1>3, CIdleTyped DEF Init, CtlInv

(* What a reconcile starts with.                                           *)
LEMMA UpdateRouteTyped ==
    ASSUME CtlInv, NEW x, NEW r \in R
    PROVE  Verdicts(x, r) \in SUBSET Verdict /\ UpdateRoute(x, r) \in SUBSET Verdict
BY JudgeTyped DEF CtlInv, RtState, Verdicts, UpdateRoute

NewOf(x) == [r \in R |-> IF r \in ListRoutesByGateway(x) THEN UpdateRoute(x, r) ELSE {}]
TodoOf(x) == {r \in ListRoutesByGateway(x) : NewOf(x)[r] # rt[r].st}

LEMMA PlanShape ==
    ASSUME CtlInv, NEW x \in Gw
    PROVE  /\ Plan(x) \in CtlState
           /\ \/ Plan(x) = CIdle /\ TodoOf(x) = {} /\ gw[x].lst.gen = gw[x].gen
              \/ /\ Plan(x).at = "routes" /\ TodoOf(x) # {} /\ gw[x].lst.gen = gw[x].gen
                 /\ Plan(x).todo = TodoOf(x) /\ Plan(x).new = NewOf(x)
              \/ /\ Plan(x).at = "gw" /\ Plan(x).gfresh = "yes"
                 /\ Plan(x).lst = [gen |-> gw[x].gen, ready |-> ReadyNames(gw[x].lss)]
                 /\ Plan(x).todo = TodoOf(x) /\ Plan(x).new = NewOf(x)
<1> DEFINE lst == [gen |-> gw[x].gen, ready |-> ReadyNames(gw[x].lss)]
           acc == IF AlbReady(x) THEN "true" ELSE "unknown"
           att == AttachedRoutes(x)
           plan == [at |-> "gw", lst |-> lst, acc |-> acc, att |-> att, todo |-> TodoOf(x),
                    new |-> NewOf(x), gfresh |-> "yes", rfresh |-> TodoOf(x)]
<1>1. Plan(x) = IF AlbReady(x) /\ SameGatewayStatus(x, plan)
                THEN IF TodoOf(x) = {} THEN CIdle ELSE [plan EXCEPT !.at = "routes"]
                ELSE plan
    BY DEF Plan, NewOf, TodoOf, SameGatewayStatus
<1>2. gw[x] \in GwState
    BY DEF CtlInv
<1>3. lst \in ListenerStatus
    BY <1>2, StatusTyped DEF GwState
<1>4. att \in Count
    <2>1. UNION {Verdicts(x, r) \X {r} : r \in R} \subseteq Verdict \X R
        BY UpdateRouteTyped, SMTT(30)
    <2> QED
        BY <2>1 DEF AttachedRoutes, Count
<1>5. NewOf(x) \in [R -> SUBSET Verdict]
    BY UpdateRouteTyped DEF NewOf
<1>6. TodoOf(x) \subseteq R
    BY DEF TodoOf, ListRoutesByGateway
<1>7. acc \in {"true", "unknown"} /\ lst.gen = gw[x].gen
    OBVIOUS
<1> HIDE DEF lst, att, acc
<1>8. plan \in CtlState
    BY <1>3, <1>4, <1>5, <1>6, <1>7 DEF CtlState
<1>9. [plan EXCEPT !.at = "routes"] \in CtlState
    BY <1>8 DEF CtlState
<1>10. SameGatewayStatus(x, plan) => gw[x].lst.gen = gw[x].gen
    BY <1>7 DEF SameGatewayStatus
<1>11. CASE Plan(x) = plan
    BY <1>8, <1>11, SMTT(30) DEF lst
<1>12. CASE Plan(x) = [plan EXCEPT !.at = "routes"] /\ SameGatewayStatus(x, plan) /\ TodoOf(x) # {}
    BY <1>9, <1>10, <1>12
<1>13. CASE Plan(x) = CIdle /\ SameGatewayStatus(x, plan) /\ TodoOf(x) = {}
    BY <1>10, <1>13, CIdleTyped
<1> QED
    BY <1>1, <1>11, <1>12, <1>13

-----------------------------------------------------------------------------
(* What the steps of the albs, the operator and the users mean for the controllers. *)

(* What the controllers decide from is as it was.                          *)
SameGw(x) == /\ gw'[x].there = gw[x].there /\ gw'[x].gen = gw[x].gen
             /\ gw'[x].lss = gw[x].lss /\ gw'[x].lst = gw[x].lst

LEMMA OutdateTyped ==
    ASSUME NEW c \in CtlState
    PROVE  /\ Outdate(c) \in CtlState
           /\ Outdate(c) = c \/ Outdate(c).gfresh = "no"
           /\ Outdate(c).at = c.at /\ Outdate(c).todo = c.todo /\ Outdate(c).new = c.new
           /\ Outdate(c).rfresh = c.rfresh /\ Outdate(c).lst = c.lst
           /\ c.at = "idle" => Outdate(c) = c
           /\ c.at # "idle" => Outdate(c).gfresh = "no"
BY DEF Outdate, CtlState

LEMMA AlbEffect ==
    ASSUME OpInv, CtlInv, AlbStep
    PROVE  /\ gw' = gw /\ rt' = rt
           /\ ctl' \in [Gw -> CtlState] /\ q' \subseteq Gw
           /\ lost \subseteq lost' /\ lost' \subseteq Gw \X R
           /\ \A x \in Gw : \/ ctl'[x] = ctl[x]
                            \/ ctl'[x] = CIdle /\ {x} \X ctl[x].todo \subseteq lost'
           /\ \A x \in Up' \ q' : x \in Up \ q /\ ctl'[x] = ctl[x]
<1> USE OpConstants DEF OpConstants
<1>1. CtlFollowsAlbs /\ gw' = gw
    BY DEF AlbStep
<1>2. CASE g \in UpWith(albs')
    <2>1. UNCHANGED <<ctl, lost, rt>> /\ q' = IF albs' # albs THEN q \cup {g} ELSE q
        BY <1>1, <1>2 DEF CtlFollowsAlbs
    <2>2. \A x \in Up' \ q' : x \in Up \ q
        BY <2>1 DEF Up, UpWith
    <2> QED
        BY <1>1, <2>1, <2>2 DEF CtlInv
<1>3. CASE g \notin UpWith(albs')
    <2>1. /\ q' = q \ {g} /\ rt' = rt
          /\ ctl' = [ctl EXCEPT ![g] = CIdle] /\ lost' = lost \cup ({g} \X ctl[g].todo)
        BY <1>1, <1>3 DEF CtlFollowsAlbs
    <2>2. ctl[g].todo \subseteq R
        BY DEF CtlInv, CtlState
    <2>3. \A x \in Up' : x # g /\ x \in Up
        BY <1>3 DEF Up, UpWith
    <2>4. Up' \subseteq Gw
        BY DEF Up, UpWith
    <2>5. ctl' \in [Gw -> CtlState]
        BY <2>1, CIdleTyped DEF CtlInv
    <2> QED
        BY <1>1, <2>1, <2>2, <2>3, <2>4, <2>5 DEF CtlInv
<1> QED
    BY <1>2, <1>3

LEMMA OpWriteEffect ==
    ASSUME CtlInv, NEW label \in 0..NAlb, NEW acc \in {"true", "unknown"}
    PROVE  /\ [gw[g] EXCEPT !.label = label] \in GwState
           /\ [gw[g] EXCEPT !.acc = acc] \in GwState
BY OpConstants DEF CtlInv, GwState, OpConstants

LEMMA OpEffect ==
    ASSUME OpInv, CtlInv, OpStep
    PROVE  /\ rt' = rt /\ lost' = lost
           /\ gw' \in [Gw -> GwState] /\ ctl' \in [Gw -> CtlState] /\ q' \subseteq Gw
           /\ \A x \in Gw : SameGw(x)
           /\ \A x \in Gw : ctl'[x] = ctl[x] \/ ctl'[x] = Outdate(ctl[x])
           /\ \A x \in Up' \ q' : x \in Up \ q /\ gw'[x] = gw[x] /\ ctl'[x] = ctl[x]
<1> USE OpConstants DEF OpConstants
<1>1. OpNext /\ CtlFollowsOp
    BY DEF OpStep
<1>2. \/ gw' = gw
      \/ \E new \in GwState :
            /\ gw' = [gw EXCEPT ![g] = new]
            /\ new.there = gw[g].there /\ new.gen = gw[g].gen
            /\ new.lss = gw[g].lss /\ new.lst = gw[g].lst
    <2>1. gw[g] \in GwState /\ op.alb \in 0..NAlb /\ 0 \in 0..NAlb
        BY SMTT(30) DEF CtlInv, OpInv, OpState
    <2>2. CASE OpTake \/ OpCreate \/ (\E n \in AlbName : OpDelete(n)) \/ OpFails
        BY <2>2 DEF OpTake, OpCreate, OpDelete, OpFails
    <2>3. CASE OpLabel
        <3>1. gw' = gw \/ gw' = [gw EXCEPT ![g] = [gw[g] EXCEPT !.label = op.alb]]
            BY <2>3 DEF OpLabel, OpWrites
        <3> QED
            BY <2>1, <3>1, SMTT(30) DEF GwState
    <2>4. CASE OpUnlabel
        <3>1. gw' = gw \/ gw' = [gw EXCEPT ![g] = [gw[g] EXCEPT !.label = 0]]
            BY <2>4 DEF OpUnlabel, OpWrites
        <3> QED
            BY <2>1, <3>1, SMTT(30) DEF GwState
    <2>5. CASE OpStatus
        <3>1. gw' = gw \/ gw' = [gw EXCEPT ![g] = [gw[g] EXCEPT !.acc = "unknown"]]
            BY <2>5 DEF OpStatus, OpWrites
        <3> QED
            BY <2>1, <3>1, SMTT(30) DEF GwState
    <2> QED
        BY <1>1, <2>2, <2>3, <2>4, <2>5 DEF OpNext
<1>3. gw' \in [Gw -> GwState] /\ \A x \in Gw : SameGw(x)
    BY <1>2 DEF CtlInv, SameGw
<1>4. rt' = rt /\ lost' = lost
    BY <1>1 DEF CtlFollowsOp
<1>5. ctl' = IF gw' # gw THEN [ctl EXCEPT ![g] = Outdate(@)] ELSE ctl
    BY <1>1 DEF CtlFollowsOp
<1>6. Outdate(ctl[g]) \in CtlState
    BY OutdateTyped DEF CtlInv
<1>7. /\ ctl' \in [Gw -> CtlState]
      /\ \A x \in Gw : ctl'[x] = ctl[x] \/ ctl'[x] = Outdate(ctl[x])
    BY <1>5, <1>6 DEF CtlInv
<1>8. q' = IF gw' # gw \/ albs' # albs THEN q \cup ({g} \cap UpWith(albs')) ELSE q
    BY <1>1 DEF CtlFollowsOp
<1>9. ASSUME NEW x \in Up' \ q' PROVE x \in Up \ q /\ gw'[x] = gw[x] /\ ctl'[x] = ctl[x]
    <2>1. CASE gw' = gw /\ albs' = albs
        BY <1>5, <1>8, <1>9, <2>1 DEF Up, UpWith
    <2>2. CASE ~(gw' = gw /\ albs' = albs)
        <3>1. x # g /\ x \in Up \ q /\ x \in Gw
            BY <1>8, <1>9, <2>2 DEF Up, UpWith
        <3>2. gw'[x] = gw[x]
            BY <1>2, <3>1 DEF CtlInv
        <3>3. ctl'[x] = ctl[x]
            BY <1>5, <3>1 DEF CtlInv
        <3> QED
            BY <3>1, <3>2, <3>3
    <2> QED
        BY <2>1, <2>2
<1> QED
    BY <1>3, <1>4, <1>7, <1>8, <1>9 DEF CtlInv

(* A user writes gateway x: what the controllers saw of it is older now,   *)
(* or it is gone.                                                          *)
WrittenByUser(x) ==
    /\ rt' = rt /\ lost' = lost /\ albs' = albs
    /\ gw' \in [Gw -> GwState] /\ \A y \in Gw \ {x} : gw'[y] = gw[y]
    /\ \/ gw'[x].there = "no" /\ gw'[x].gen = gw[x].gen /\ gw'[x].lss = gw[x].lss
                              /\ gw'[x].lst = gw[x].lst
       \/ gw'[x].gen = gw[x].gen + 1 /\ gw'[x].lst = gw[x].lst
       \/ gw'[x].gen = 1 /\ gw'[x].lst.gen = 0
    /\ ctl' = [ctl EXCEPT ![x] = Outdate(@)]
    /\ q \subseteq q' /\ q' \subseteq Gw /\ (x \in Up => x \in q')

LEMMA UserEffect ==
    ASSUME CtlInv, UserStep
    PROVE  (\E x \in Gw : WrittenByUser(x)) \/ (\E r \in R : EditRoute(r))
<1> USE OpConstants DEF OpConstants
<1>1. ASSUME NEW x \in Gw, NEW new \in GwState, UserGw(x, new),
             \/ new.there = "no" /\ new.gen = gw[x].gen /\ new.lss = gw[x].lss
                                 /\ new.lst = gw[x].lst
             \/ new.gen = gw[x].gen + 1 /\ new.lst = gw[x].lst
             \/ new.gen = 1 /\ new.lst.gen = 0
      PROVE  WrittenByUser(x)
    BY <1>1 DEF UserGw, GwWritten, WrittenByUser, CtlInv, Up, UpWith
<1>2. ASSUME NEW x \in Gw, EditListeners(x) PROVE WrittenByUser(x)
    <2>1. PICK lss \in GwSpecs : UserGw(x, [gw[x] EXCEPT !.lss = lss, !.gen = @ + 1])
        BY <1>2 DEF EditListeners
    <2> DEFINE new == [gw[x] EXCEPT !.lss = lss, !.gen = @ + 1]
    <2>2. new \in GwState /\ new.gen = gw[x].gen + 1 /\ new.lst = gw[x].lst
        <3>1. gw[x] \in GwState
            BY DEF CtlInv
        <3>2. gw[x].gen \in Nat /\ gw[x].gen + 1 \in Nat
            BY <3>1, SMTT(30) DEF GwState
        <3> QED
            BY <3>1, <3>2 DEF GwState
    <2> HIDE DEF new
    <2> QED
        BY <1>1, <2>1, <2>2 DEF new
<1>3. ASSUME EditClass PROVE WrittenByUser(g)
    <2>1. PICK c \in {"exclusive", "shared"} :
            UserGw(g, [gw[g] EXCEPT !.class = c, !.gen = @ + 1])
        BY <1>3 DEF EditClass
    <2> DEFINE new == [gw[g] EXCEPT !.class = c, !.gen = @ + 1]
    <2>2. new \in GwState /\ new.gen = gw[g].gen + 1 /\ new.lst = gw[g].lst
        <3>1. gw[g] \in GwState
            BY DEF CtlInv
        <3>2. gw[g].gen \in Nat /\ gw[g].gen + 1 \in Nat
            BY <3>1, SMTT(30) DEF GwState
        <3> QED
            BY <3>1, <3>2 DEF GwState
    <2> QED
        BY <1>1, <2>1, <2>2
<1>4. ASSUME DeleteGw PROVE WrittenByUser(g)
    <2> DEFINE new == [gw[g] EXCEPT !.there = "no"]
    <2>1. UserGw(g, new)
        BY <1>4 DEF DeleteGw
    <2>2. /\ new \in GwState /\ new.there = "no" /\ new.gen = gw[g].gen
          /\ new.lss = gw[g].lss /\ new.lst = gw[g].lst
        BY DEF CtlInv, GwState
    <2> QED
        BY <1>1, <2>1, <2>2
<1>5. ASSUME CreateGw PROVE WrittenByUser(g)
    <2> DEFINE new == Created(gw[g].lss, "exclusive")
    <2>1. UserGw(g, new)
        BY <1>5 DEF CreateGw
    <2>2. gw[g].lss \in GwSpecs
        BY DEF CtlInv, GwState
    <2>3. new \in GwState
        BY <2>2, CreatedTyped
    <2>4. new.gen = 1 /\ new.lst.gen = 0
        BY DEF Created
    <2> QED
        BY <1>1, <2>1, <2>3, <2>4
<1> QED
    BY <1>2, <1>3, <1>4, <1>5 DEF UserStep

-----------------------------------------------------------------------------
(* The steps of a controller. *)

LEMMA BeginEffect ==
    ASSUME CtlInv, NEW x \in Gw, Begin(x)
    PROVE  /\ CtlInv' /\ UNCHANGED <<gw, rt, albs>>
           /\ q' = q \ {x} /\ ctl[x].at = "idle"
           /\ \A y \in Gw \ {x} : ctl'[y] = ctl[y]
           /\ ctl'[x] = IF gw[x].there = "yes" THEN Plan(x) ELSE CIdle
           /\ lost' = lost \ ({x} \X (R \ TodoOf(x)))
<1>1. Plan(x) \in CtlState /\ Plan(x).todo = TodoOf(x)
    <2>1. CIdle.todo = {}
        BY DEF CIdle
    <2> QED
        BY <2>1, PlanShape
<1>2. ctl' = [ctl EXCEPT ![x] = IF gw[x].there = "yes" THEN Plan(x) ELSE CIdle]
    BY DEF Begin
<1> QED
    BY <1>1, <1>2, CIdleTyped DEF Begin, CtlInv, opVars

LEMMA ForgetTyped ==
    ASSUME NEW c \in CtlState, NEW r \in R
    PROVE  /\ Forget(c, r) \in CtlState
           /\ \/ c.todo = {r} /\ Forget(c, r) = CIdle
              \/ /\ Forget(c, r).todo = c.todo \ {r} /\ Forget(c, r).rfresh = c.rfresh \ {r}
                 /\ Forget(c, r).at = c.at /\ Forget(c, r).new = c.new
                 /\ Forget(c, r).lst = c.lst /\ Forget(c, r).gfresh = c.gfresh
BY CIdleTyped DEF Forget, CtlState

(* A route was written: the copies of it are old.                          *)
Stale(c, r) == [c EXCEPT !.rfresh = @ \ {r}]

LEMMA StaleTyped ==
    ASSUME NEW c \in CtlState, NEW r \in R
    PROVE  /\ Stale(c, r) \in CtlState
           /\ Stale(c, r).rfresh = c.rfresh \ {r} /\ Stale(c, r).todo = c.todo
           /\ Stale(c, r).at = c.at /\ Stale(c, r).new = c.new
           /\ Stale(c, r).lst = c.lst /\ Stale(c, r).gfresh = c.gfresh
BY DEF Stale, CtlState

(* The controller wrote the status of gateway x, or was refused.           *)
StatusWritten(x) ==
    /\ ctl[x].at = "gw" /\ ctl[x].gfresh = "yes" /\ gw[x].there = "yes"
    /\ \A y \in Gw \ {x} : gw'[y] = gw[y] /\ ctl'[y] = ctl[y]
    /\ gw'[x].there = "yes" /\ gw'[x].gen = gw[x].gen /\ gw'[x].lss = gw[x].lss
    /\ gw'[x].lst = ctl[x].lst
    /\ ctl'[x] = AfterGw(ctl[x])
    /\ q \subseteq q'

StatusRefused(x) ==
    /\ ctl[x].at = "gw" /\ gw' = gw
    /\ ctl'[x] = CIdle /\ \A y \in Gw \ {x} : ctl'[y] = ctl[y]
    /\ q' = q \cup {x}

LEMMA AfterGwTyped ==
    ASSUME NEW c \in CtlState
    PROVE  /\ AfterGw(c) \in CtlState
           /\ \/ c.todo = {} /\ AfterGw(c) = CIdle
              \/ /\ c.todo # {} /\ AfterGw(c).at = "routes" /\ AfterGw(c).todo = c.todo
                 /\ AfterGw(c).new = c.new /\ AfterGw(c).rfresh = c.rfresh
BY CIdleTyped DEF AfterGw, CtlState

LEMMA WriteGwEffect ==
    ASSUME CtlInv, NEW x \in Gw, WriteGw(x)
    PROVE  /\ CtlInv' /\ UNCHANGED <<rt, lost, albs>>
           /\ StatusWritten(x) \/ StatusRefused(x)
<1>1. UNCHANGED <<rt, lost, albs>> /\ ctl[x].at = "gw" /\ ctl[x] \in CtlState /\ gw[x] \in GwState
    BY DEF WriteGw, CtlInv
<1>2. CASE ctl[x].gfresh = "no" \/ gw[x].there = "no"
    <2>1. ctl' = [ctl EXCEPT ![x] = CIdle] /\ q' = q \cup {x} /\ gw' = gw
        BY <1>2 DEF WriteGw
    <2> QED
        BY <1>1, <2>1, CIdleTyped DEF CtlInv, StatusRefused
<1>3. CASE ~(ctl[x].gfresh = "no" \/ gw[x].there = "no")
    <2> DEFINE new == [gw[x] EXCEPT !.lst = ctl[x].lst, !.acc = ctl[x].acc, !.att = ctl[x].att]
    <2>1. GwWritten(x, new) /\ ctl' = [ctl EXCEPT ![x] = AfterGw(@)]
        BY <1>3 DEF WriteGw
    <2>2. /\ new \in GwState /\ new.there = gw[x].there /\ new.gen = gw[x].gen
          /\ new.lss = gw[x].lss /\ new.lst = ctl[x].lst
        BY <1>1 DEF CtlState, GwState
    <2> HIDE DEF new
    <2>3. gw' = [gw EXCEPT ![x] = new] /\ q \subseteq q' /\ q' \subseteq Gw
        BY <2>1 DEF GwWritten, CtlInv
    <2>4. ctl[x].gfresh = "yes" /\ gw[x].there = "yes"
        BY <1>1, <1>3 DEF CtlState, GwState
    <2>5. AfterGw(ctl[x]) \in CtlState
        BY <1>1, AfterGwTyped
    <2> QED
        BY <1>1, <2>1, <2>2, <2>3, <2>4, <2>5 DEF CtlInv, StatusWritten
<1> QED
    BY <1>2, <1>3

LEMMA WriteRouteEffect ==
    ASSUME CtlInv, NEW x \in Gw, NEW r \in R, WriteRoute(x, r)
    PROVE  /\ CtlInv' /\ UNCHANGED <<gw, q, albs>>
           /\ ctl[x].at = "routes" /\ r \in ctl[x].todo \cap ctl[x].rfresh
           /\ \A s \in R \ {r} : rt'[s] = rt[s]
           /\ rt'[r].st = ctl[x].new[r] /\ rt'[r].spec = rt[r].spec /\ rt'[r].gen = rt[r].gen
           /\ ctl'[x] = Forget(ctl[x], r) /\ \A y \in Gw \ {x} : ctl'[y] = Stale(ctl[y], r)
           /\ lost' = lost \ {<<x, r>>}
<1>1. rt[r] \in RtState /\ ctl[x].new[r] \in SUBSET Verdict
    BY SMTT(30) DEF CtlInv, CtlState
<1>2. rt' = [rt EXCEPT ![r] = [rt[r] EXCEPT !.st = ctl[x].new[r]]]
    BY DEF WriteRoute
<1>3. [rt[r] EXCEPT !.st = ctl[x].new[r]] \in RtState
    BY <1>1 DEF RtState
<1>4. rt' \in [R -> RtState] /\ \A s \in R \ {r} : rt'[s] = rt[s]
    BY <1>2, <1>3 DEF CtlInv
<1>5. rt'[r].st = ctl[x].new[r] /\ rt'[r].spec = rt[r].spec /\ rt'[r].gen = rt[r].gen
    BY <1>1, <1>2 DEF CtlInv, RtState
<1>6. ctl' = [y \in Gw |-> IF y = x THEN Forget(ctl[y], r) ELSE Stale(ctl[y], r)]
    BY DEF WriteRoute, Stale
<1>7. ctl' \in [Gw -> CtlState]
    BY <1>6, ForgetTyped, StaleTyped DEF CtlInv
<1> QED
    BY <1>4, <1>5, <1>6, <1>7 DEF WriteRoute, CtlInv, opVars

LEMMA LoseRouteEffect ==
    ASSUME CtlInv, NEW x \in Gw, NEW r \in R, LoseRoute(x, r)
    PROVE  /\ CtlInv' /\ UNCHANGED <<gw, rt, q, albs>>
           /\ ctl[x].at = "routes" /\ r \in ctl[x].todo
           /\ ctl'[x] = Forget(ctl[x], r) /\ \A y \in Gw \ {x} : ctl'[y] = ctl[y]
           /\ lost' = lost \cup {<<x, r>>}
<1>1. Forget(ctl[x], r) \in CtlState
    BY ForgetTyped DEF CtlInv
<1> QED
    BY <1>1, SMTT(30) DEF LoseRoute, CtlInv

LEMMA EditRouteEffect ==
    ASSUME CtlInv, NEW r \in R, EditRoute(r)
    PROVE  /\ CtlInv' /\ UNCHANGED <<gw, lost, albs>>
           /\ \A s \in R \ {r} : rt'[s] = rt[s]
           /\ rt'[r].gen = rt[r].gen + 1 /\ rt'[r].st = rt[r].st
           /\ \A x \in Gw : ctl'[x] = Stale(ctl[x], r)
           /\ q \subseteq q' /\ \A x \in Up \ q' : RefsTo(x, rt'[r].spec) = {}
<1>1. PICK spec \in RtSpecs :
         /\ rt' = [rt EXCEPT ![r].spec = spec, ![r].gen = @ + 1]
         /\ q' = q \cup WatchRoutes(spec)
         /\ ctl' = [x \in Gw |-> [ctl[x] EXCEPT !.rfresh = @ \ {r}]]
         /\ UNCHANGED <<gw, lost, albs>>
    BY DEF EditRoute
<1>2. rt[r] \in RtState
    BY DEF CtlInv
<1>3. rt[r].gen \in Nat /\ rt[r].gen + 1 \in Nat
    BY <1>2, SMTT(30) DEF RtState
<1>4. rt'[r] = [rt[r] EXCEPT !.spec = spec, !.gen = rt[r].gen + 1]
    BY <1>1, <1>2 DEF CtlInv, RtState
<1>5. /\ rt'[r] \in RtState /\ rt'[r].spec = spec /\ rt'[r].gen = rt[r].gen + 1
      /\ rt'[r].st = rt[r].st
    BY <1>2, <1>3, <1>4 DEF RtState
<1>6. (\A s \in R \ {r} : rt'[s] = rt[s]) /\ rt' \in [R -> RtState]
    BY <1>1, <1>5 DEF CtlInv
<1>7. ctl' \in [Gw -> CtlState] /\ \A x \in Gw : ctl'[x] = Stale(ctl[x], r)
    BY <1>1, StaleTyped DEF CtlInv, Stale
<1>8. Up \subseteq Gw
    BY OpConstants DEF Up, UpWith, OpConstants
<1>9. \A x \in Up \ q' : RefsTo(x, spec) = {}
    BY <1>1 DEF WatchRoutes, RefsTo, IsRefToGateway
<1> QED
    BY <1>1, <1>5, <1>6, <1>7, <1>8, <1>9 DEF CtlInv, WatchRoutes

LEMMA CtlInvStep == OpInv /\ CtlInv /\ [Next]_vars => CtlInv'
<1> SUFFICES ASSUME OpInv, CtlInv, [Next]_vars PROVE CtlInv'
    OBVIOUS
<1>1. CASE UNCHANGED vars
    BY <1>1 DEF vars, CtlInv
<1>2. CASE AlbStep
    BY <1>2, AlbEffect DEF CtlInv
<1>3. CASE OpStep
    BY <1>3, OpEffect DEF CtlInv
<1>4. CASE UserStep
    <2>1. ASSUME NEW x \in Gw, WrittenByUser(x) PROVE CtlInv'
        BY <2>1, OutdateTyped DEF WrittenByUser, CtlInv
    <2> QED
        BY <1>4, <2>1, UserEffect, EditRouteEffect
<1>5. CASE \E x \in Gw : CtlStep(x)
    BY <1>5, BeginEffect, WriteGwEffect, WriteRouteEffect, LoseRouteEffect DEF CtlStep
<1> QED
    BY <1>1, <1>2, <1>3, <1>4, <1>5 DEF Next

-----------------------------------------------------------------------------
(* The status of a gateway. *)

(* The reconcile of x has read the gateway as it is now.                   *)
Planned(x) == ctl[x].at = "gw" /\ ctl[x].gfresh = "yes"

(* The gateway's status was written for the gateway as it is now.          *)
Observed(x) == gw[x].there = "yes" /\ gw[x].lst.gen = gw[x].gen

StatusInv ==
    \A x \in Gw :
       /\ gw[x].lst.gen <= gw[x].gen
       /\ gw[x].lst.gen = gw[x].gen => gw[x].lst.ready = ReadyNames(gw[x].lss)
       /\ Planned(x) => ctl[x].lst = [gen |-> gw[x].gen, ready |-> ReadyNames(gw[x].lss)]

LEMMA StartForms ==
    ASSUME Init, NEW x \in Gw
    PROVE  gw[x] \in {Settled(x), [Settled(x) EXCEPT !.class = "exclusive", !.label = 1],
                      Created(Start[x], "exclusive")}
<1>1. PICK settled \in BOOLEAN :
        gw = [y \in Gw |-> IF y # g THEN Settled(y)
                           ELSE IF settled
                           THEN [Settled(g) EXCEPT !.class = "exclusive", !.label = 1]
                           ELSE Created(Start[g], "exclusive")]
    BY DEF Init
<1>2. CASE x = g
    BY <1>1, <1>2
<1>3. CASE x # g
    BY <1>1, <1>3
<1> QED
    BY <1>2, <1>3

LEMMA StatusInit == Init => StatusInv
<1> SUFFICES ASSUME Init, NEW x \in Gw
             PROVE  /\ gw[x].lst.gen <= gw[x].gen
                    /\ gw[x].lst.gen = gw[x].gen => gw[x].lst.ready = ReadyNames(gw[x].lss)
                    /\ ~Planned(x)
    BY DEF StatusInv
<1>1. ~Planned(x)
    BY SMTT(30) DEF Init, CIdle, Planned
<1>2. gw[x] \in {Settled(x), [Settled(x) EXCEPT !.class = "exclusive", !.label = 1],
                 Created(Start[x], "exclusive")}
    BY StartForms
<1>3. /\ Settled(x).lst.gen = 1 /\ Settled(x).gen = 1 /\ Settled(x).lss = Start[x]
      /\ Settled(x).lst.ready = ReadyNames(Start[x])
    BY DEF Settled, Created
<1>4. Created(Start[x], "exclusive").lst.gen = 0 /\ Created(Start[x], "exclusive").gen = 1
    BY DEF Created
<1>5. ASSUME gw[x] = [Settled(x) EXCEPT !.class = "exclusive", !.label = 1]
      PROVE  /\ gw[x].lst = Settled(x).lst /\ gw[x].gen = Settled(x).gen
             /\ gw[x].lss = Settled(x).lss
    BY <1>5 DEF Settled, Created
<1> QED
    BY <1>1, <1>2, <1>3, <1>4, <1>5, SMTT(30)

LEMMA StatusStep == OpInv /\ CtlInv /\ StatusInv /\ [Next]_vars => StatusInv'
<1> SUFFICES ASSUME OpInv, CtlInv, StatusInv, [Next]_vars PROVE StatusInv'
    OBVIOUS
<1> DEFINE Good(y) ==
       /\ gw[y].lst.gen <= gw[y].gen
       /\ gw[y].lst.gen = gw[y].gen => gw[y].lst.ready = ReadyNames(gw[y].lss)
       /\ Planned(y) => ctl[y].lst = [gen |-> gw[y].gen, ready |-> ReadyNames(gw[y].lss)]
<1>a. \A y \in Gw : Good(y)
    BY DEF StatusInv
<1>f. \A y \in Gw : gw[y] \in GwState /\ ctl[y] \in CtlState
    BY DEF CtlInv
<1>b. \A y \in Gw : gw[y].gen \in Nat /\ gw[y].lst.gen \in Nat
    BY <1>f DEF GwState, ListenerStatus
<1>c. CIdle.at = "idle"
    BY DEF CIdle
<1>d. ASSUME NEW y \in Gw, SameGw(y),
             \/ /\ ctl'[y].lst = ctl[y].lst /\ ctl'[y].at = ctl[y].at
                /\ ctl'[y].gfresh = ctl[y].gfresh
             \/ ctl'[y].at # "gw" \/ ctl'[y].gfresh = "no"
      PROVE  Good(y)'
    BY <1>a, <1>d DEF SameGw, Planned
<1>e. ASSUME NEW y \in Gw, gw'[y] = gw[y] PROVE SameGw(y)
    BY <1>e DEF SameGw
<1>1. CASE UNCHANGED vars
    BY <1>1, <1>d, <1>e DEF vars, StatusInv
<1>2. CASE AlbStep
    BY <1>2, <1>c, <1>d, <1>e, AlbEffect DEF StatusInv
<1>3. CASE OpStep
    <2>1. ASSUME NEW y \in Gw PROVE Good(y)'
        <3>1. SameGw(y) /\ (ctl'[y] = ctl[y] \/ ctl'[y] = Outdate(ctl[y]))
            BY <1>3, OpEffect
        <3>2. ctl'[y] = ctl[y] \/ ctl'[y].gfresh = "no"
            BY <1>f, <3>1, OutdateTyped
        <3> QED
            BY <1>d, <3>1, <3>2
    <2> QED
        BY <2>1 DEF StatusInv
<1>4. ASSUME NEW x \in Gw, WrittenByUser(x) PROVE StatusInv'
    <2>1. ASSUME NEW y \in Gw, y # x PROVE Good(y)'
        BY <1>4, <1>d, <1>e, <2>1 DEF WrittenByUser, CtlInv
    <2>2. ctl'[x] = Outdate(ctl[x])
        BY <1>4 DEF WrittenByUser, CtlInv
    <2>3. ~Planned(x)'
        <3>1. ctl'[x].at = "idle" \/ ctl'[x].gfresh = "no"
            BY <1>f, <2>2, OutdateTyped, SMTT(30)
        <3> QED
            BY <3>1 DEF Planned
    <2>4. /\ gw'[x].lst.gen <= gw'[x].gen
          /\ gw'[x].lst.gen = gw'[x].gen => gw'[x].lst.ready = ReadyNames(gw'[x].lss)
        <3>1. CASE gw'[x].gen = gw[x].gen /\ gw'[x].lss = gw[x].lss /\ gw'[x].lst = gw[x].lst
            BY <1>a, <3>1
        <3>2. CASE gw'[x].gen = gw[x].gen + 1 /\ gw'[x].lst = gw[x].lst
            <4>1. gw[x].lst.gen <= gw[x].gen /\ gw[x].lst.gen \in Nat /\ gw[x].gen \in Nat
                BY <1>a, <1>b
            <4> QED
                BY <3>2, <4>1, SMTT(30)
        <3>3. CASE gw'[x].gen = 1 /\ gw'[x].lst.gen = 0
            BY <3>3, SMTT(30)
        <3> QED
            BY <1>4, <3>1, <3>2, <3>3 DEF WrittenByUser
    <2> QED
        BY <2>1, <2>3, <2>4 DEF StatusInv
<1>5. ASSUME NEW r \in R, EditRoute(r) PROVE StatusInv'
    <2>1. ASSUME NEW y \in Gw PROVE Good(y)'
        BY <1>5, <1>f, <1>d, <1>e, EditRouteEffect, StaleTyped, SMTT(30)
    <2> QED
        BY <2>1 DEF StatusInv
<1>6. ASSUME NEW x \in Gw, Begin(x) PROVE StatusInv'
    <2>1. ASSUME NEW y \in Gw, y # x PROVE Good(y)'
        BY <1>6, <1>d, <1>e, <2>1, BeginEffect
    <2>2. CASE ctl'[x].at # "gw"
        BY <1>6, <1>d, <1>e, <2>1, <2>2, BeginEffect DEF StatusInv
    <2>3. CASE ctl'[x].at = "gw"
        <3>1. ctl'[x] = Plan(x) /\ gw' = gw
            BY <1>6, <1>c, <2>3, BeginEffect
        <3>2. Plan(x).lst = [gen |-> gw[x].gen, ready |-> ReadyNames(gw[x].lss)]
            BY <1>c, <2>3, <3>1, PlanShape
        <3> QED
            BY <1>a, <2>1, <3>1, <3>2 DEF StatusInv
    <2> QED
        BY <2>2, <2>3
<1>7. ASSUME NEW x \in Gw, WriteGw(x) PROVE StatusInv'
    <2>1. CASE StatusRefused(x)
        BY <2>1, <1>c, <1>d, <1>e DEF StatusRefused, StatusInv
    <2>2. CASE StatusWritten(x)
        <3>1. ASSUME NEW y \in Gw, y # x PROVE Good(y)'
            BY <1>d, <1>e, <2>2, <3>1 DEF StatusWritten
        <3>2. ctl[x].lst = [gen |-> gw[x].gen, ready |-> ReadyNames(gw[x].lss)]
            BY <1>a, <2>2 DEF StatusWritten, Planned
        <3>3. ctl'[x].at # "gw"
            BY <1>f, <1>c, <2>2, AfterGwTyped DEF StatusWritten
        <3>4. Good(x)'
            BY <1>b, <2>2, <3>2, <3>3, SMTT(30) DEF StatusWritten, Planned
        <3> QED
            BY <3>1, <3>4 DEF StatusInv
    <2> QED
        BY <1>7, <2>1, <2>2, WriteGwEffect
<1>8. ASSUME NEW x \in Gw, NEW r \in R, WriteRoute(x, r) PROVE StatusInv'
    <2>1. ASSUME NEW y \in Gw, y # x PROVE Good(y)'
        BY <1>8, <1>f, <1>d, <1>e, <2>1, WriteRouteEffect, StaleTyped, SMTT(30)
    <2>2. Good(x)'
        BY <1>8, <1>f, <1>c, <1>d, <1>e, WriteRouteEffect, ForgetTyped, SMTT(30)
    <2> QED
        BY <2>1, <2>2 DEF StatusInv
<1>9. ASSUME NEW x \in Gw, NEW r \in R, LoseRoute(x, r) PROVE StatusInv'
    <2>1. ASSUME NEW y \in Gw, y # x PROVE Good(y)'
        BY <1>9, <1>d, <1>e, <2>1, LoseRouteEffect
    <2>2. Good(x)'
        BY <1>9, <1>f, <1>c, <1>d, <1>e, LoseRouteEffect, ForgetTyped, SMTT(30)
    <2> QED
        BY <2>1, <2>2 DEF StatusInv
<1>10. CASE UserStep
    BY <1>4, <1>5, <1>10, UserEffect
<1>11. CASE \E x \in Gw : CtlStep(x)
    BY <1>6, <1>7, <1>8, <1>9, <1>11 DEF CtlStep
<1> QED
    BY <1>1, <1>2, <1>3, <1>10, <1>11 DEF Next

-----------------------------------------------------------------------------
(* The statuses of the routes. *)

LEMMA JudgeFacts ==
    ASSUME NEW lss, NEW spec, NEW gen, NEW x
    PROVE  /\ \A v \in Judge(lss, spec, gen, x) :
                 v.ref \in RefsTo(x, spec) /\ v.ref.gw = x /\ v.gen = gen
           /\ \A ref \in RefsTo(x, spec) : \E v \in Judge(lss, spec, gen, x) : v.ref = ref
<1> DEFINE V(ref) == [ref |-> ref, gen |-> gen,
                      ok |-> IF FilteRoutes(lss, spec, ref) THEN "yes" ELSE "no"]
<1>1. Judge(lss, spec, gen, x) = {V(ref) : ref \in RefsTo(x, spec)}
    BY DEF Judge
<1>2. \A ref : V(ref).ref = ref /\ V(ref).gen = gen
    OBVIOUS
<1>3. \A ref \in RefsTo(x, spec) : ref.gw = x
    BY DEF RefsTo, IsRefToGateway
<1> HIDE DEF V
<1> QED
    BY <1>1, <1>2, <1>3

LEMMA VerdictFacts ==
    ASSUME NEW x, NEW r
    PROVE  /\ \A v \in Verdicts(x, r) :
                 v.ref \in RefsTo(x, rt[r].spec) /\ v.ref.gw = x /\ v.gen = rt[r].gen
           /\ \A ref \in RefsTo(x, rt[r].spec) : \E v \in Verdicts(x, r) : v.ref = ref
BY JudgeFacts, SMTT(30) DEF Verdicts

(* What UpdateRoute makes of a status: the verdicts on the references to x *)
(* in place of the entries for them, and everything else as it was.        *)
LEMMA UpdateFacts ==
    ASSUME NEW x, NEW r
    PROVE  /\ Verdicts(x, r) \subseteq UpdateRoute(x, r)
           /\ \A e \in UpdateRoute(x, r) :
                 e.ref \in RefsTo(x, rt[r].spec) => e \in Verdicts(x, r)
           /\ \A e \in (UpdateRoute(x, r) \ rt[r].st) \cup (rt[r].st \ UpdateRoute(x, r)) :
                 e.ref.gw = x
<1>1. UpdateRoute(x, r) =
        {e \in rt[r].st : \A v \in Verdicts(x, r) : v.ref # e.ref} \cup Verdicts(x, r)
    BY DEF UpdateRoute
<1>2. \A v \in Verdicts(x, r) : v.ref.gw = x
    BY VerdictFacts
<1>3. ASSUME NEW e \in UpdateRoute(x, r), e.ref \in RefsTo(x, rt[r].spec)
      PROVE  e \in Verdicts(x, r)
    BY <1>1, <1>3, VerdictFacts, SMTT(30)
<1> QED
    BY <1>1, <1>2, <1>3

(* A write the controller of x has prepared and the API server will take.  *)
Pending(x, r) == r \in ctl[x].todo \cap ctl[x].rfresh

EntryInv ==
    /\ \A r \in R : \A e \in rt[r].st : e.gen <= rt[r].gen
    /\ \A x \in Gw, r \in R : Pending(x, r) =>
          /\ \A e \in (ctl[x].new[r] \ rt[r].st) \cup (rt[r].st \ ctl[x].new[r]) : e.ref.gw = x
          /\ \A e \in ctl[x].new[r] : e.gen <= rt[r].gen

(* The reconcile of x decided about the gateway as it is now.              *)
Decided(x) == Planned(x) \/ (ctl[x].at = "routes" /\ Observed(x))

(* What it decided about a route that has not changed is still right.      *)
NewInv ==
    \A x \in Gw, r \in R : Pending(x, r) /\ Decided(x) => ctl[x].new[r] = UpdateRoute(x, r)

(* Only the start of a reconcile prepares a write; other steps carry it    *)
(* out or drop it, and decide nothing anew.                                *)
PendingKept(y) ==
    \A r \in R : Pending(y, r)' =>
       /\ Pending(y, r) /\ ctl'[y].new[r] = ctl[y].new[r] /\ rt'[r] = rt[r]
       /\ Decided(y)' => Decided(y) /\ gw'[y].lss = gw[y].lss

LEMMA NothingPending == ASSUME NEW r PROVE r \notin CIdle.todo /\ CIdle.at = "idle"
BY DEF CIdle

LEMMA PendingStep ==
    ASSUME OpInv, CtlInv, StatusInv, [Next]_vars, NEW y \in Gw, ~Begin(y)
    PROVE  PendingKept(y)
<1>a. gw[y] \in GwState /\ ctl[y] \in CtlState
    BY DEF CtlInv
<1>b. gw[y].gen \in Nat /\ gw[y].lst.gen \in Nat /\ gw[y].lst.gen <= gw[y].gen
    BY <1>a DEF GwState, ListenerStatus, StatusInv
<1>c. ASSUME ctl'[y] = CIdle PROVE PendingKept(y)
    BY <1>c, NothingPending DEF PendingKept, Pending
<1>d. ASSUME ctl'[y] = ctl[y], rt' = rt, SameGw(y) PROVE PendingKept(y)
    BY <1>d DEF PendingKept, Pending, Decided, Planned, Observed, SameGw
<1>e. ASSUME gw'[y] = gw[y] PROVE SameGw(y)
    BY <1>e DEF SameGw
<1>1. CASE UNCHANGED vars
    BY <1>1, <1>d, <1>e DEF vars
<1>2. CASE AlbStep
    BY <1>2, <1>c, <1>d, <1>e, AlbEffect
<1>3. CASE OpStep
    <2>1. SameGw(y) /\ rt' = rt /\ (ctl'[y] = ctl[y] \/ ctl'[y] = Outdate(ctl[y]))
        BY <1>3, OpEffect
    <2>2. CASE ctl'[y] = Outdate(ctl[y])
        BY <1>a, <2>1, <2>2, OutdateTyped, SMTT(30)
        DEF PendingKept, Pending, Decided, Planned, Observed, SameGw
    <2> QED
        BY <1>d, <2>1, <2>2
<1>4. ASSUME NEW x \in Gw, WrittenByUser(x) PROVE PendingKept(y)
    <2>1. CASE x # y
        BY <1>4, <1>d, <1>e, <2>1 DEF WrittenByUser, CtlInv
    <2>2. CASE x = y
        <3>1. ctl'[y] = Outdate(ctl[y]) /\ rt' = rt
            BY <1>4, <2>2 DEF WrittenByUser, CtlInv
        <3>2. ~Observed(y)'
            BY <1>4, <1>b, <2>2, SMTT(30) DEF WrittenByUser, Observed
        <3>3. /\ ctl'[y].todo = ctl[y].todo /\ ctl'[y].rfresh = ctl[y].rfresh
              /\ ctl'[y].new = ctl[y].new
              /\ ctl'[y].at = "idle" \/ ctl'[y].gfresh = "no"
            BY <1>a, <3>1, OutdateTyped
        <3> QED
            BY <3>1, <3>2, <3>3 DEF PendingKept, Pending, Decided, Planned
    <2> QED
        BY <2>1, <2>2
<1>5. ASSUME NEW r \in R, EditRoute(r) PROVE PendingKept(y)
    <2>1. /\ gw' = gw /\ ctl'[y] = Stale(ctl[y], r) /\ \A t \in R \ {r} : rt'[t] = rt[t]
        BY <1>5, EditRouteEffect
    <2> QED
        BY <1>a, <2>1, StaleTyped, SMTT(30) DEF PendingKept, Pending, Decided, Planned, Observed
<1>6. ASSUME NEW x \in Gw, Begin(x) PROVE PendingKept(y)
    BY <1>6, <1>d, <1>e, BeginEffect
<1>7. ASSUME NEW x \in Gw, WriteGw(x) PROVE PendingKept(y)
    <2>1. CASE x # y
        BY <1>7, <1>d, <1>e, <2>1, WriteGwEffect DEF StatusWritten, StatusRefused
    <2>2. CASE x = y /\ StatusRefused(x)
        BY <1>c, <2>2 DEF StatusRefused
    <2>3. CASE x = y /\ StatusWritten(x)
        <3>1. ctl'[y] = AfterGw(ctl[y]) /\ Planned(y) /\ gw'[y].lss = gw[y].lss
            BY <2>3 DEF StatusWritten, Planned
        <3>2. rt' = rt
            BY <1>7, WriteGwEffect
        <3> QED
            BY <1>a, <1>c, <3>1, <3>2, AfterGwTyped DEF PendingKept, Pending, Decided
    <2> QED
        BY <1>7, <2>1, <2>2, <2>3, WriteGwEffect
<1>8. ASSUME NEW x \in Gw, NEW r \in R, WriteRoute(x, r) PROVE PendingKept(y)
    <2>1. gw' = gw /\ \A t \in R \ {r} : rt'[t] = rt[t]
        BY <1>8, WriteRouteEffect
    <2>2. CASE x # y
        <3>1. ctl'[y] = Stale(ctl[y], r)
            BY <1>8, <2>2, WriteRouteEffect, SMTT(30)
        <3> QED
            BY <1>a, <2>1, <3>1, StaleTyped, SMTT(30) DEF PendingKept, Pending, Decided, Planned, Observed
    <2>3. CASE x = y
        <3>1. ctl'[y] = Forget(ctl[y], r)
            BY <1>8, <2>3, WriteRouteEffect
        <3> QED
            BY <1>a, <1>c, <2>1, <3>1, ForgetTyped, SMTT(30)
            DEF PendingKept, Pending, Decided, Planned, Observed
    <2> QED
        BY <2>2, <2>3
<1>9. ASSUME NEW x \in Gw, NEW r \in R, LoseRoute(x, r) PROVE PendingKept(y)
    <2>1. gw' = gw /\ rt' = rt
        BY <1>9, LoseRouteEffect
    <2>2. CASE x # y
        BY <1>9, <1>d, <1>e, <2>1, <2>2, LoseRouteEffect
    <2>3. CASE x = y
        <3>1. ctl'[y] = Forget(ctl[y], r)
            BY <1>9, <2>3, LoseRouteEffect
        <3> QED
            BY <1>a, <1>c, <2>1, <3>1, ForgetTyped, SMTT(30)
            DEF PendingKept, Pending, Decided, Planned, Observed
    <2> QED
        BY <2>2, <2>3
<1>10. CASE UserStep
    BY <1>4, <1>5, <1>10, UserEffect
<1>11. CASE \E x \in Gw : CtlStep(x)
    BY <1>6, <1>7, <1>8, <1>9, <1>11 DEF CtlStep
<1> QED
    BY <1>1, <1>2, <1>3, <1>10, <1>11 DEF Next

LEMMA BeginPending ==
    ASSUME CtlInv, NEW x \in Gw, Begin(x), NEW r \in R, Pending(x, r)'
    PROVE  ctl'[x].new[r] = UpdateRoute(x, r)
<1>1. ctl'[x] = Plan(x) /\ Plan(x) # CIdle
    BY BeginEffect, NothingPending DEF Pending
<1>2. Plan(x).todo = TodoOf(x) /\ Plan(x).new = NewOf(x)
    BY <1>1, PlanShape
<1>3. r \in ListRoutesByGateway(x)
    BY <1>1, <1>2 DEF Pending, TodoOf
<1> QED
    BY <1>1, <1>2, <1>3 DEF NewOf

LEMMA SameUpdate ==
    ASSUME NEW x, NEW r, rt'[r] = rt[r], gw'[x].lss = gw[x].lss
    PROVE  Verdicts(x, r)' = Verdicts(x, r) /\ UpdateRoute(x, r)' = UpdateRoute(x, r)
BY DEF Verdicts, UpdateRoute

LEMMA NewInit == Init => NewInv
BY NothingPending DEF Init, NewInv, Pending

LEMMA NewStep == OpInv /\ CtlInv /\ StatusInv /\ NewInv /\ [Next]_vars => NewInv'
<1> SUFFICES ASSUME OpInv, CtlInv, StatusInv, NewInv, [Next]_vars, NEW x \in Gw, NEW r \in R,
                    Pending(x, r)', Decided(x)'
             PROVE  ctl'[x].new[r] = UpdateRoute(x, r)'
    BY DEF NewInv
<1>1. CASE Begin(x)
    <2>1. rt' = rt /\ gw' = gw
        BY <1>1, BeginEffect
    <2> QED
        BY <1>1, <2>1, BeginPending, SameUpdate
<1>2. CASE ~Begin(x)
    <2>1. PendingKept(x)
        BY <1>2, PendingStep
    <2> QED
        BY <2>1, SameUpdate DEF PendingKept, NewInv
<1> QED
    BY <1>1, <1>2

(* Routes are written by controllers and by users, one at a time.          *)
LEMMA RouteWriters ==
    ASSUME OpInv, CtlInv, [Next]_vars
    PROVE  \/ rt' = rt
           \/ \E x \in Gw, r \in R : WriteRoute(x, r)
           \/ \E r \in R : EditRoute(r)
<1>1. CASE UNCHANGED vars
    BY <1>1 DEF vars
<1>2. CASE AlbStep \/ OpStep
    BY <1>2, AlbEffect, OpEffect
<1>3. CASE UserStep
    BY <1>3, UserEffect DEF WrittenByUser
<1>4. CASE \E x \in Gw : CtlStep(x)
    BY <1>4 DEF CtlStep, Begin, WriteGw, LoseRoute
<1> QED
    BY <1>1, <1>2, <1>3, <1>4 DEF Next

LEMMA EntryInit == Init => EntryInv
<1> SUFFICES ASSUME Init PROVE EntryInv
    OBVIOUS
<1>1. \A x \in Gw, r \in R : ~Pending(x, r)
    BY NothingPending DEF Init, Pending
<1>2. ASSUME NEW r \in R, NEW e \in rt[r].st PROVE e.gen = 1 /\ rt[r].gen = 1
    <2>1. PICK X : rt[r] = [gen |-> 1, spec |-> StartRt[r],
                            st |-> UNION {Judge(Start[x], StartRt[r], 1, x) : x \in X}]
        BY DEF Init
    <2>2. PICK x \in X : e \in Judge(Start[x], StartRt[r], 1, x)
        BY <1>2, <2>1, SMTT(30)
    <2> QED
        BY <2>1, <2>2, JudgeFacts, SMTT(30)
<1> QED
    BY <1>1, <1>2, SMTT(30) DEF EntryInv

LEMMA EntryStep == OpInv /\ CtlInv /\ StatusInv /\ EntryInv /\ [Next]_vars => EntryInv'
<1> SUFFICES ASSUME OpInv, CtlInv, StatusInv, EntryInv, [Next]_vars PROVE EntryInv'
    OBVIOUS
<1>0. CtlInv' /\ \A t \in R : rt[t] \in RtState
    BY CtlInvStep DEF CtlInv
<1>1. ASSUME NEW t \in R, NEW e \in rt'[t].st PROVE e.gen <= rt'[t].gen
    <2>1. CASE rt' = rt
        BY <1>1, <2>1 DEF EntryInv
    <2>2. ASSUME NEW x \in Gw, NEW r \in R, WriteRoute(x, r) PROVE e.gen <= rt'[t].gen
        <3>1. CASE t # r
            BY <1>1, <2>2, <3>1, WriteRouteEffect, SMTT(30) DEF EntryInv
        <3>2. CASE t = r
            <4>1. Pending(x, r) /\ rt'[r].st = ctl[x].new[r] /\ rt'[r].gen = rt[r].gen
                BY <2>2, WriteRouteEffect DEF Pending
            <4> QED
                BY <1>1, <3>2, <4>1 DEF EntryInv
        <3> QED
            BY <3>1, <3>2
    <2>3. ASSUME NEW r \in R, EditRoute(r) PROVE e.gen <= rt'[t].gen
        <3>1. rt'[t].st = rt[t].st /\ rt'[t].gen \in {rt[t].gen, rt[t].gen + 1}
            BY <2>3, EditRouteEffect
        <3>2. e \in Verdict /\ e.gen <= rt[t].gen
            BY <1>0, <1>1, <3>1 DEF RtState, EntryInv
        <3>3. rt[t].gen \in Nat /\ e.gen \in Nat
            BY <1>0, <3>2 DEF RtState, Verdict
        <3> QED
            BY <3>1, <3>2, <3>3, SMTT(30)
    <2> QED
        BY <2>1, <2>2, <2>3, RouteWriters
<1>2. ASSUME NEW x \in Gw, NEW r \in R, Pending(x, r)'
      PROVE  /\ \A e \in (ctl'[x].new[r] \ rt'[r].st) \cup (rt'[r].st \ ctl'[x].new[r]) :
                   e.ref.gw = x
             /\ \A e \in ctl'[x].new[r] : e.gen <= rt'[r].gen
    <2>1. CASE Begin(x)
        <3>1. rt' = rt /\ ctl'[x].new[r] = UpdateRoute(x, r)
            BY <1>2, <2>1, BeginEffect, BeginPending
        <3>2. \A e \in UpdateRoute(x, r) : e \in rt[r].st \/ e.gen = rt[r].gen
            BY VerdictFacts, SMTT(30) DEF UpdateRoute
        <3>3. rt[r].gen <= rt[r].gen
            BY <1>0, SMTT(30) DEF RtState
        <3> QED
            BY <3>1, <3>2, <3>3, UpdateFacts, SMTT(30) DEF EntryInv
    <2>2. CASE ~Begin(x)
        <3>1. PendingKept(x)
            BY <2>2, PendingStep
        <3> QED
            BY <1>2, <3>1, SMTT(30) DEF PendingKept, EntryInv
    <2> QED
        BY <2>1, <2>2
<1> QED
    BY <1>1, <1>2 DEF EntryInv

(* What the proofs below build on, of every behaviour.                     *)
BaseInv == OpInv /\ CtlInv /\ StatusInv /\ EntryInv /\ NewInv

LEMMA BaseInit == Init => BaseInv
BY OpInvInit, CtlInvInit, StatusInit, EntryInit, NewInit DEF BaseInv

LEMMA BaseStep == BaseInv /\ [Next]_vars => BaseInv'
BY OpInvStep, CtlInvStep, StatusStep, EntryStep, NewStep DEF BaseInv

(* TypeOK: in particular no status is ever of a generation that has not    *)
(* been (ObservedGeneration of the gateways' listeners and of the routes). *)
THEOREM TypeCorrect == Spec => []TypeOK
<1>1. BaseInv => TypeOK
    <2> SUFFICES ASSUME BaseInv PROVE TypeOK
        OBVIOUS
    <2>1. OpTypeOK
        BY DEF BaseInv, OpInv, OpTypeOK, OpState
    <2>2. ASSUME NEW x \in Gw
          PROVE  /\ gw[x].there \in {"yes", "no"} /\ gw[x].label \in 0..NAlb
                 /\ ctl[x].at \in {"idle", "gw", "routes"} /\ ctl[x].rfresh \subseteq R
        <3>1. gw[x] \in GwState /\ ctl[x] \in CtlState
            BY DEF BaseInv, CtlInv
        <3> QED
            BY <3>1 DEF GwState, CtlState
    <2> QED
        BY <2>1, <2>2 DEF BaseInv, CtlInv, StatusInv, EntryInv, TypeOK
<1> QED
    BY <1>1, BaseInit, BaseStep, PTL DEF Spec

(* KeepsOthers: however the controllers of several gateways race for a     *)
(* route, a write changes the entries of the writer's gateway only.        *)
THEOREM OthersKept == Spec => KeepsOthers
<1>1. ASSUME BaseInv, [Next]_vars, NEW r \in R, rt'[r].st # rt[r].st
      PROVE  \E x \in Gw : \A e \in (rt[r].st \ rt'[r].st) \cup (rt'[r].st \ rt[r].st) :
                e.ref.gw = x
    <2>1. PICK x \in Gw, t \in R : WriteRoute(x, t)
        <3>1. ASSUME NEW t \in R, EditRoute(t) PROVE rt'[r].st = rt[r].st
            BY <1>1, <3>1, EditRouteEffect DEF BaseInv
        <3> QED
            BY <1>1, <3>1, RouteWriters DEF BaseInv
    <2>2. t = r
        BY <1>1, <2>1, WriteRouteEffect, SMTT(30) DEF BaseInv
    <2>3. Pending(x, r) /\ rt'[r].st = ctl[x].new[r]
        BY <1>1, <2>1, <2>2, WriteRouteEffect DEF BaseInv, Pending
    <2> QED
        BY <1>1, <2>3, SMTT(30) DEF BaseInv, EntryInv
<1>2. BaseInv /\ [Next]_vars =>
        [\A r \in R : rt'[r].st # rt[r].st =>
           \E x \in Gw : \A e \in (rt[r].st \ rt'[r].st) \cup (rt'[r].st \ rt[r].st) :
              e.ref.gw = x]_vars
    BY <1>1
<1> QED
    BY <1>2, BaseInit, BaseStep, PTL DEF Spec, KeepsOthers

-----------------------------------------------------------------------------
(* The verdicts that are used. *)

(* Of the entries for references to x, those of the route's generation say *)
(* what the filters say now.                                               *)
Right(x, r) ==
    \A e \in rt[r].st :
       e.ref \in RefsTo(x, rt[r].spec) /\ e.gen = rt[r].gen => e \in Verdicts(x, r)

(* The write of a route is still to come in this reconcile.                *)
Due(x, r) == ctl[x].at = "routes" /\ r \in ctl[x].todo

RightInv ==
    \A x \in Gw, r \in R :
       /\ Observed(x) => Right(x, r) \/ Due(x, r) \/ <<x, r>> \in lost
       /\ Planned(x) /\ r \notin ctl[x].todo => Right(x, r)

LEMMA RightInit == Init => RightInv
<1> SUFFICES ASSUME Init, NEW x \in Gw, NEW r \in R PROVE Right(x, r)
    BY DEF RightInv
<1>1. gw[x].lss = Start[x]
    <2>1. gw[x] \in {Settled(x), [Settled(x) EXCEPT !.class = "exclusive", !.label = 1],
                     Created(Start[x], "exclusive")}
        BY StartForms
    <2>2. Settled(x).lss = Start[x] /\ Created(Start[x], "exclusive").lss = Start[x]
        BY DEF Settled, Created
    <2>3. [Settled(x) EXCEPT !.class = "exclusive", !.label = 1].lss = Settled(x).lss
        BY DEF Settled, Created
    <2> QED
        BY <2>1, <2>2, <2>3
<1>2. PICK X : rt[r] = [gen |-> 1, spec |-> StartRt[r],
                        st |-> UNION {Judge(Start[y], StartRt[r], 1, y) : y \in X}]
    BY DEF Init
<1>3. ASSUME NEW e \in rt[r].st, e.ref \in RefsTo(x, rt[r].spec) PROVE e \in Verdicts(x, r)
    <2>1. PICK y \in X : e \in Judge(Start[y], StartRt[r], 1, y)
        BY <1>2, <1>3, SMTT(30)
    <2>2. e.ref.gw = x /\ e.ref.gw = y
        BY <1>3, <2>1, JudgeFacts, SMTT(30) DEF RefsTo, IsRefToGateway
    <2> QED
        BY <1>1, <1>2, <2>1, <2>2, SMTT(30) DEF Verdicts
<1> QED
    BY <1>3 DEF Right

(* A route that a reconcile finds nothing to write for.                    *)
LEMMA NothingToDo ==
    ASSUME NEW x, NEW r \in R, r \notin TodoOf(x)
    PROVE  Right(x, r) /\ Verdicts(x, r) \subseteq rt[r].st
<1>1. CASE r \in ListRoutesByGateway(x)
    <2>1. UpdateRoute(x, r) = rt[r].st
        BY <1>1 DEF TodoOf, NewOf
    <2> QED
        BY <2>1, UpdateFacts, SMTT(30) DEF Right
<1>2. CASE r \notin ListRoutesByGateway(x)
    <2>1. RefsTo(x, rt[r].spec) = {}
        BY <1>2 DEF ListRoutesByGateway, IsRefsToGateway, RefsTo
    <2> QED
        BY <2>1, VerdictFacts DEF Right
<1> QED
    BY <1>1, <1>2

(* Nothing but the controller of x itself makes a verdict on x wrong while *)
(* its listeners stay.                                                     *)
LEMMA RightKept ==
    ASSUME BaseInv, [Next]_vars, NEW x \in Gw, NEW r \in R, Right(x, r),
           gw'[x].lss = gw[x].lss, ~WriteRoute(x, r)
    PROVE  Right(x, r)'
<1>1. ASSUME rt'[r] = rt[r] PROVE Right(x, r)'
    BY <1>1, SameUpdate DEF Right
<1>2. ASSUME NEW y \in Gw, NEW t \in R, WriteRoute(y, t) PROVE Right(x, r)'
    <2>1. CASE t # r
        BY <1>1, <1>2, <2>1, WriteRouteEffect, SMTT(30) DEF BaseInv
    <2>2. CASE t = r
        <3>1. x # y
            BY <1>2, <2>2
        <3>2. /\ rt'[r].st = ctl[y].new[r] /\ Pending(y, r)
              /\ rt'[r].spec = rt[r].spec /\ rt'[r].gen = rt[r].gen
            BY <1>2, <2>2, WriteRouteEffect DEF BaseInv, Pending
        <3>3. \A e \in rt'[r].st \ rt[r].st : e.ref.gw = y
            BY <3>2 DEF BaseInv, EntryInv
        <3>4. Verdicts(x, r)' = Verdicts(x, r)
            BY <3>2 DEF Verdicts
        <3>5. \A ref \in RefsTo(x, rt[r].spec) : ref.gw = x
            BY DEF RefsTo, IsRefToGateway
        <3> QED
            BY <3>1, <3>2, <3>3, <3>4, <3>5, SMTT(30) DEF Right
    <2> QED
        BY <2>1, <2>2
<1>3. ASSUME NEW t \in R, EditRoute(t) PROVE Right(x, r)'
    <2>1. CASE t # r
        BY <1>1, <1>3, <2>1, EditRouteEffect DEF BaseInv
    <2>2. CASE t = r
        <3>1. rt'[r].gen = rt[r].gen + 1 /\ rt'[r].st = rt[r].st
            BY <1>3, <2>2, EditRouteEffect DEF BaseInv
        <3>2. ASSUME NEW e \in rt[r].st PROVE e.gen # rt[r].gen + 1
            <4>1. e.gen <= rt[r].gen /\ rt[r] \in RtState
                BY DEF BaseInv, CtlInv, EntryInv
            <4>2. e.gen \in Nat /\ rt[r].gen \in Nat
                BY <4>1 DEF RtState, Verdict
            <4> QED
                BY <4>1, <4>2, SMTT(30)
        <3> QED
            BY <3>1, <3>2 DEF Right
    <2> QED
        BY <2>1, <2>2
<1> QED
    BY <1>1, <1>2, <1>3, RouteWriters DEF BaseInv

LEMMA RightStep == BaseInv /\ RightInv /\ [Next]_vars => RightInv'
<1> SUFFICES ASSUME BaseInv, RightInv, [Next]_vars, NEW x \in Gw, NEW r \in R
             PROVE  /\ Observed(x)' => Right(x, r)' \/ Due(x, r)' \/ <<x, r>> \in lost'
                    /\ Planned(x)' /\ r \notin ctl'[x].todo => Right(x, r)'
    BY DEF RightInv
<1> DEFINE Good == /\ Observed(x)' => Right(x, r)' \/ Due(x, r)' \/ <<x, r>> \in lost'
                   /\ Planned(x)' /\ r \notin ctl'[x].todo => Right(x, r)'
<1> SUFFICES Good
    OBVIOUS
<1>i. CIdle.at = "idle"
    BY DEF CIdle
<1>a. OpInv /\ CtlInv /\ ctl[x] \in CtlState
    BY DEF BaseInv, CtlInv
<1>b. /\ Observed(x) => Right(x, r) \/ Due(x, r) \/ <<x, r>> \in lost
      /\ Planned(x) /\ r \notin ctl[x].todo => Right(x, r)
    BY DEF RightInv
<1>c. ASSUME SameGw(x), ~WriteRoute(x, r), <<x, r>> \in lost => <<x, r>> \in lost',
             ctl'[x].at = ctl[x].at, ctl'[x].todo = ctl[x].todo,
             Planned(x)' => Planned(x)
      PROVE  Good
    BY <1>b, <1>c, RightKept DEF SameGw, Observed, Due
<1>d. gw'[x] = gw[x] => SameGw(x)
    BY DEF SameGw
<1>e. ASSUME SameGw(x), ~WriteRoute(x, r), <<x, r>> \in lost => <<x, r>> \in lost',
             ctl'[x] = CIdle, Due(x, r) => <<x, r>> \in lost'
      PROVE  Good
    BY <1>b, <1>e, RightKept, NothingPending DEF SameGw, Observed, Planned
<1>w. ASSUME WriteRoute(x, r) PROVE Good
    <2>1. /\ gw' = gw /\ ctl[x].at = "routes" /\ Pending(x, r) /\ rt'[r].st = ctl[x].new[r]
          /\ rt'[r].spec = rt[r].spec /\ rt'[r].gen = rt[r].gen
          /\ ctl'[x] = Forget(ctl[x], r)
        BY <1>a, <1>w, WriteRouteEffect DEF Pending
    <2>2. ~Planned(x)'
        BY <1>a, <2>1, <1>i, ForgetTyped DEF Planned
    <2>3. ASSUME Observed(x)' PROVE Right(x, r)'
        <3>1. Decided(x)
            BY <2>1, <2>3 DEF Decided, Observed
        <3>2. ctl[x].new[r] = UpdateRoute(x, r)
            BY <2>1, <3>1 DEF BaseInv, NewInv
        <3>3. Verdicts(x, r)' = Verdicts(x, r)
            BY <2>1 DEF Verdicts
        <3> QED
            BY <2>1, <3>2, <3>3, UpdateFacts, SMTT(30) DEF Right
    <2> QED
        BY <2>2, <2>3
<1>1. CASE UNCHANGED vars
    <2>1. ~WriteRoute(x, r) \/ WriteRoute(x, r)
        OBVIOUS
    <2> QED
        BY <1>1, <1>c, <1>d, <1>w DEF vars, Planned
<1>2. CASE AlbStep /\ ~WriteRoute(x, r)
    <2>1. gw' = gw /\ lost \subseteq lost'
        BY <1>2, <1>a, AlbEffect
    <2>2. ctl'[x] = ctl[x] \/ (ctl'[x] = CIdle /\ (r \in ctl[x].todo => <<x, r>> \in lost'))
        BY <1>2, <1>a, AlbEffect
    <2> QED
        BY <1>2, <1>c, <1>d, <1>e, <2>1, <2>2 DEF Due, Planned
<1>3. CASE OpStep /\ ~WriteRoute(x, r)
    <2>1. SameGw(x) /\ lost' = lost /\ (ctl'[x] = ctl[x] \/ ctl'[x] = Outdate(ctl[x]))
        BY <1>3, <1>a, OpEffect
    <2>2. ctl'[x].at = ctl[x].at /\ ctl'[x].todo = ctl[x].todo /\ (Planned(x)' => Planned(x))
        BY <1>a, <2>1, OutdateTyped DEF Planned
    <2> QED
        BY <1>3, <1>c, <2>1, <2>2
<1>4. ASSUME NEW y \in Gw, WrittenByUser(y), ~WriteRoute(x, r) PROVE Good
    <2>1. CASE x # y
        BY <1>4, <1>a, <1>c, <1>d, <2>1 DEF WrittenByUser, CtlInv, Planned
    <2>2. CASE x = y
        <3>1. gw[x] \in GwState /\ gw[x].lst.gen <= gw[x].gen
            BY DEF BaseInv, CtlInv, StatusInv
        <3>2. gw[x].gen \in Nat /\ gw[x].lst.gen \in Nat
            BY <3>1 DEF GwState, ListenerStatus
        <3>3. ~Observed(x)'
            BY <1>4, <2>2, <3>1, <3>2, SMTT(30) DEF WrittenByUser, Observed
        <3>4. ctl'[x] = Outdate(ctl[x])
            BY <1>4, <1>a, <2>2 DEF WrittenByUser, CtlInv
        <3>5. ~Planned(x)'
            BY <1>a, <3>4, OutdateTyped DEF Planned
        <3> QED
            BY <3>3, <3>5
    <2> QED
        BY <2>1, <2>2
<1>5. ASSUME NEW t \in R, EditRoute(t), ~WriteRoute(x, r) PROVE Good
    <2>1. gw' = gw /\ lost' = lost /\ ctl'[x] = Stale(ctl[x], t)
        BY <1>5, <1>a, EditRouteEffect
    <2> QED
        BY <1>5, <1>a, <1>c, <1>d, <2>1, StaleTyped, SMTT(30) DEF Planned
<1>6. ASSUME NEW y \in Gw, Begin(y), ~WriteRoute(x, r) PROVE Good
    <2>0. gw' = gw /\ rt' = rt /\ lost' = lost \ ({y} \X (R \ TodoOf(y)))
        BY <1>6, <1>a, BeginEffect
    <2>1. CASE x # y
        BY <1>6, <1>a, <1>c, <1>d, <2>0, <2>1, BeginEffect DEF Planned
    <2>2. CASE x = y
        <3>1. ctl[x].at = "idle" /\ ctl'[x] = IF gw[x].there = "yes" THEN Plan(x) ELSE CIdle
            BY <1>6, <1>a, <2>2, BeginEffect
        <3>2. Right(x, r) => Right(x, r)'
            BY <1>6, <2>0, RightKept
        <3>3. r \notin TodoOf(x) => Right(x, r)
            BY NothingToDo
        <3>4. Planned(x)' => ctl'[x].todo = TodoOf(x)
            BY <1>a, <3>1, PlanShape, NothingPending DEF Planned
        <3>5. Observed(x)' => Right(x, r) \/ (r \in TodoOf(x) /\ <<x, r>> \in lost)
            BY <1>b, <2>0, <3>1, <3>3 DEF Observed, Due
        <3> QED
            BY <2>0, <2>2, <3>2, <3>3, <3>4, <3>5
    <2> QED
        BY <2>1, <2>2
<1>7. ASSUME NEW y \in Gw, WriteGw(y), ~WriteRoute(x, r) PROVE Good
    <2>0. lost' = lost /\ (StatusWritten(y) \/ StatusRefused(y))
        BY <1>7, <1>a, WriteGwEffect
    <2>1. CASE x # y
        BY <1>7, <1>c, <1>d, <2>0, <2>1 DEF StatusWritten, StatusRefused, Planned
    <2>2. CASE x = y /\ StatusRefused(x)
        BY <1>7, <1>d, <1>e, <2>0, <2>2 DEF StatusRefused, Due
    <2>3. CASE x = y /\ StatusWritten(x)
        <3>1. Planned(x) /\ gw'[x].lss = gw[x].lss /\ ctl'[x] = AfterGw(ctl[x])
            BY <2>3 DEF StatusWritten, Planned
        <3>2. ~Planned(x)'
            BY <1>a, <3>1, AfterGwTyped, NothingPending DEF Planned
        <3>3. r \notin ctl[x].todo => Right(x, r)'
            BY <1>b, <1>7, <3>1, RightKept
        <3>4. r \in ctl[x].todo => Due(x, r)'
            BY <1>a, <3>1, AfterGwTyped DEF Due
        <3> QED
            BY <3>2, <3>3, <3>4
    <2> QED
        BY <2>0, <2>1, <2>2, <2>3
<1>8. ASSUME NEW y \in Gw, NEW t \in R, WriteRoute(y, t), ~WriteRoute(x, r) PROVE Good
    <2>0. gw' = gw /\ lost' = lost \ {<<y, t>>}
        BY <1>8, <1>a, WriteRouteEffect
    <2>1. CASE x # y
        <3>1. ctl'[x] = Stale(ctl[x], t)
            BY <1>8, <1>a, <2>1, WriteRouteEffect, SMTT(30)
        <3> QED
            BY <1>8, <1>a, <1>c, <1>d, <2>0, <2>1, <3>1, StaleTyped, SMTT(30) DEF Planned
    <2>2. CASE x = y /\ t # r
        <3>1. ctl'[x] = Forget(ctl[x], t) /\ ctl[x].at = "routes"
            BY <1>8, <1>a, <2>2, WriteRouteEffect
        <3>2. Due(x, r) => Due(x, r)'
            BY <1>a, <2>2, <3>1, ForgetTyped, SMTT(30) DEF Due
        <3>3. ~Planned(x)'
            BY <1>a, <3>1, <1>i, ForgetTyped, SMTT(30) DEF Planned
        <3>4. Right(x, r) => Right(x, r)'
            BY <1>8, <2>0, RightKept
        <3> QED
            BY <1>b, <2>0, <2>2, <3>2, <3>3, <3>4 DEF Observed
    <2> QED
        BY <1>8, <2>1, <2>2
<1>9. ASSUME NEW y \in Gw, NEW t \in R, LoseRoute(y, t), ~WriteRoute(x, r) PROVE Good
    <2>0. gw' = gw /\ lost' = lost \cup {<<y, t>>}
        BY <1>9, <1>a, LoseRouteEffect
    <2>1. CASE x # y
        BY <1>9, <1>a, <1>c, <1>d, <2>0, <2>1, LoseRouteEffect DEF Planned
    <2>2. CASE x = y
        <3>1. ctl'[x] = Forget(ctl[x], t) /\ ctl[x].at = "routes"
            BY <1>9, <1>a, <2>2, LoseRouteEffect
        <3>2. Due(x, r) => Due(x, r)' \/ t = r
            BY <1>a, <3>1, ForgetTyped, SMTT(30) DEF Due
        <3>3. ~Planned(x)'
            BY <1>a, <3>1, <1>i, ForgetTyped, SMTT(30) DEF Planned
        <3>4. Right(x, r) => Right(x, r)'
            BY <1>9, <2>0, RightKept
        <3> QED
            BY <1>b, <2>0, <2>2, <3>2, <3>3, <3>4 DEF Observed
    <2> QED
        BY <2>1, <2>2
<1> HIDE DEF Good
<1>10. CASE UserStep /\ ~WriteRoute(x, r)
    BY <1>4, <1>5, <1>10, <1>a, UserEffect
<1>11. ASSUME NEW y \in Gw, CtlStep(y), ~WriteRoute(x, r) PROVE Good
    BY <1>6, <1>7, <1>8, <1>9, <1>11 DEF CtlStep
<1> QED
    BY <1>1, <1>2, <1>3, <1>10, <1>11, <1>w DEF Next

(* A gateway that has no request in the queue: its status is of the        *)
(* gateway as it is now, or about to be, and a verdict that is missing was *)
(* lost or is about to be written.                                         *)
Missing(x, r) == <<x, r>> \in lost \/ (ctl[x].at # "idle" /\ r \in ctl[x].todo)

Quiet(x) ==
    /\ IF ctl[x].at = "gw" THEN ctl[x].gfresh = "yes" ELSE Observed(x)
    /\ \A r \in R : Verdicts(x, r) \subseteq rt[r].st \/ Missing(x, r)

QuietInv == \A x \in Up \ q : gw[x].there = "yes" => Quiet(x)

LEMMA UpInGw == Up \subseteq Gw
BY OpConstants DEF Up, UpWith, OpConstants

LEMMA QuietInit == Init => QuietInv
<1> SUFFICES ASSUME Init, NEW x \in Up PROVE Quiet(x)
    BY DEF QuietInv
<1>1. PICK settled \in BOOLEAN :
         /\ OpInit(settled)
         /\ gw = [y \in Gw |->
                  IF y # g THEN Settled(y)
                  ELSE IF settled
                  THEN [Settled(g) EXCEPT !.class = "exclusive", !.label = 1]
                  ELSE Created(Start[g], "exclusive")]
         /\ rt = [r \in R |->
                  [gen |-> 1, spec |-> StartRt[r],
                   st |-> UNION {Judge(Start[y], StartRt[r], 1, y)
                                 : y \in IF settled THEN Gw ELSE Gw \ {g}}]]
    BY DEF Init
<1>2. x \in Gw /\ (x # g \/ settled)
    <2>1. CASE ~settled
        <3>1. \A n \in AlbName : albs[n] = "none"
            BY <1>1, <2>1 DEF OpInit
        <3> QED
            BY <3>1, UpInGw DEF Up, UpWith
    <2> QED
        BY <2>1, UpInGw
<1>3. gw[x] \in {Settled(x), [Settled(x) EXCEPT !.class = "exclusive", !.label = 1]}
    <2>1. CASE x = g
        BY <1>1, <1>2, <2>1
    <2>2. CASE x # g
        BY <1>1, <1>2, <2>2
    <2> QED
        BY <2>1, <2>2
<1>4. /\ Settled(x).there = "yes" /\ Settled(x).lst.gen = 1 /\ Settled(x).gen = 1
      /\ Settled(x).lss = Start[x]
    BY DEF Settled, Created
<1>5. ASSUME gw[x] = [Settled(x) EXCEPT !.class = "exclusive", !.label = 1]
      PROVE  /\ gw[x].there = Settled(x).there /\ gw[x].lst = Settled(x).lst
             /\ gw[x].gen = Settled(x).gen /\ gw[x].lss = Settled(x).lss
    BY <1>5 DEF Settled, Created
<1>6. Observed(x) /\ gw[x].lss = Start[x]
    BY <1>3, <1>4, <1>5 DEF Observed
<1>7. ASSUME NEW r \in R PROVE Verdicts(x, r) \subseteq rt[r].st
    <2>1. rt[r].spec = StartRt[r] /\ rt[r].gen = 1
        BY <1>1
    <2>2. x \in IF settled THEN Gw ELSE Gw \ {g}
        BY <1>2
    <2>3. Judge(Start[x], StartRt[r], 1, x) \subseteq rt[r].st
        BY <1>1, <2>2
    <2> QED
        BY <1>6, <2>1, <2>3 DEF Verdicts
<1>8. ctl[x].at # "gw"
    BY <1>2, SMTT(30) DEF Init, CIdle
<1> QED
    BY <1>6, <1>7, <1>8 DEF Quiet

LEMMA QuietStep == BaseInv /\ QuietInv /\ [Next]_vars => QuietInv'
<1> SUFFICES ASSUME BaseInv, QuietInv, [Next]_vars, NEW x \in Up' \ q', gw'[x].there = "yes"
             PROVE  Quiet(x)'
    BY DEF QuietInv
<1>0. x \in Gw
    BY OpConstants DEF Up, UpWith, OpConstants
<1>a. OpInv /\ CtlInv /\ ctl[x] \in CtlState
    BY <1>0 DEF BaseInv, CtlInv
<1>b. x \in Up \ q /\ gw[x].there = "yes" => Quiet(x)
    BY DEF QuietInv
<1>c. ASSUME x \in Up \ q, gw'[x] = gw[x], ctl'[x].at = ctl[x].at,
             ctl'[x].gfresh = ctl[x].gfresh, ctl'[x].todo = ctl[x].todo,
             \A r \in R : <<x, r>> \in lost => <<x, r>> \in lost',
             \A r \in R : Verdicts(x, r) \subseteq rt[r].st => Verdicts(x, r)' \subseteq rt'[r].st
      PROVE  Quiet(x)'
    BY <1>b, <1>c DEF Quiet, Observed, Missing
<1>d. ASSUME gw'[x].lss = gw[x].lss, rt' = rt
      PROVE  \A r \in R : Verdicts(x, r)' = Verdicts(x, r)
    BY <1>d, SameUpdate
<1>e. albs' = albs => Up' = Up
    BY DEF Up
<1>i. CIdle.at = "idle"
    BY DEF CIdle
<1>1. CASE UNCHANGED vars
    BY <1>1, <1>c, <1>d, <1>e DEF vars, opVars
<1>2. CASE AlbStep
    <2>1. gw' = gw /\ rt' = rt /\ lost \subseteq lost' /\ x \in Up \ q /\ ctl'[x] = ctl[x]
        BY <1>2, <1>a, AlbEffect
    <2> QED
        BY <1>c, <1>d, <2>1
<1>3. CASE OpStep
    <2>1. gw'[x] = gw[x] /\ rt' = rt /\ lost = lost' /\ x \in Up \ q /\ ctl'[x] = ctl[x]
        BY <1>3, <1>a, OpEffect
    <2> QED
        BY <1>c, <1>d, <2>1
<1>4. ASSUME NEW y \in Gw, WrittenByUser(y) PROVE Quiet(x)'
    <2>1. x # y
        BY <1>4, <1>e, SMTT(30) DEF WrittenByUser
    <2>2. gw'[x] = gw[x] /\ rt' = rt /\ lost = lost' /\ x \in Up \ q /\ ctl'[x] = ctl[x]
        BY <1>0, <1>4, <1>a, <1>e, <2>1 DEF WrittenByUser, CtlInv
    <2> QED
        BY <1>c, <1>d, <2>2
<1>5. ASSUME NEW t \in R, EditRoute(t) PROVE Quiet(x)'
    <2>1. gw' = gw /\ lost' = lost /\ x \in Up \ q /\ ctl'[x] = Stale(ctl[x], t)
        BY <1>0, <1>5, <1>a, <1>e, EditRouteEffect
    <2>2. \A s \in R \ {t} : rt'[s] = rt[s]
        BY <1>5, <1>a, EditRouteEffect
    <2>3. RefsTo(x, rt'[t].spec) = {}
        BY <1>5, <1>a, <1>e, EditRouteEffect
    <2>4. Verdicts(x, t)' = {}
        <3>1. \A v \in Judge(gw'[x].lss, rt'[t].spec, rt'[t].gen, x) : v.ref \in RefsTo(x, rt'[t].spec)
            BY JudgeFacts
        <3> QED
            BY <2>3, <3>1 DEF Verdicts
    <2>5. ASSUME NEW r \in R, Verdicts(x, r) \subseteq rt[r].st
          PROVE  Verdicts(x, r)' \subseteq rt'[r].st
        <3>1. CASE r = t
            BY <2>4, <3>1
        <3>2. CASE r # t
            BY <2>1, <2>2, <2>5, <3>2, SameUpdate
        <3> QED
            BY <3>1, <3>2
    <2> QED
        BY <1>a, <1>c, <2>1, <2>5, StaleTyped, SMTT(30)
<1>6. ASSUME NEW y \in Gw, Begin(y) PROVE Quiet(x)'
    <2>0. /\ gw' = gw /\ rt' = rt /\ lost' = lost \ ({y} \X (R \ TodoOf(y))) /\ q' = q \ {y}
          /\ albs' = albs
        BY <1>6, <1>a, BeginEffect
    <2>1. CASE x # y
        <3>1. ctl'[x] = ctl[x]
            BY <1>0, <1>6, <1>a, <2>1, BeginEffect
        <3> QED
            BY <1>c, <1>d, <1>e, <2>0, <2>1, <3>1
    <2>2. CASE x = y
        <3>1. ctl'[x] = Plan(x)
            BY <1>6, <1>a, <2>0, <2>2, BeginEffect
        <3>2. \A r \in R : Verdicts(x, r)' \subseteq rt'[r].st \/ r \in TodoOf(x)
            BY <1>d, <2>0, NothingToDo
        <3>3. /\ IF Plan(x).at = "gw" THEN Plan(x).gfresh = "yes"
                 ELSE gw[x].lst.gen = gw[x].gen
              /\ TodoOf(x) = {} \/ (Plan(x).at # "idle" /\ Plan(x).todo = TodoOf(x))
            BY <1>0, <1>a, <1>i, PlanShape
        <3> QED
            BY <2>0, <3>1, <3>2, <3>3 DEF Quiet, Missing, Observed
    <2> QED
        BY <2>1, <2>2
<1>7. ASSUME NEW y \in Gw, WriteGw(y) PROVE Quiet(x)'
    <2>0. rt' = rt /\ lost' = lost /\ albs' = albs /\ (StatusWritten(y) \/ StatusRefused(y))
        BY <1>7, <1>a, WriteGwEffect
    <2>1. x \in Up \ q
        BY <1>e, <2>0 DEF StatusWritten, StatusRefused
    <2>2. CASE x # y
        BY <1>0, <1>c, <1>d, <2>0, <2>1, <2>2 DEF StatusWritten, StatusRefused
    <2>3. CASE x = y
        <3>1. StatusWritten(x)
            BY <2>0, <2>3 DEF StatusRefused
        <3>2. /\ Planned(x) /\ gw[x].there = "yes" /\ gw'[x].lss = gw[x].lss
              /\ ctl'[x] = AfterGw(ctl[x]) /\ gw'[x].lst = ctl[x].lst /\ gw'[x].gen = gw[x].gen
            BY <3>1 DEF StatusWritten, Planned
        <3>3. ctl[x].lst.gen = gw[x].gen
            <4>1. ctl[x].lst = [gen |-> gw[x].gen, ready |-> ReadyNames(gw[x].lss)]
                BY <1>0, <3>2 DEF BaseInv, StatusInv
            <4> QED
                BY <4>1, SMTT(30)
        <3>4. Observed(x)' /\ ctl'[x].at # "gw"
            BY <1>a, <1>i, <3>2, <3>3, AfterGwTyped DEF Observed
        <3>5. \A r \in R : Missing(x, r) => Missing(x, r)'
            BY <1>a, <2>0, <3>2, AfterGwTyped DEF Missing
        <3> QED
            BY <1>b, <1>d, <2>0, <2>1, <3>2, <3>4, <3>5 DEF Quiet
    <2> QED
        BY <2>2, <2>3
<1>8. ASSUME NEW y \in Gw, NEW t \in R, WriteRoute(y, t) PROVE Quiet(x)'
    <2>0. /\ gw' = gw /\ lost' = lost \ {<<y, t>>} /\ x \in Up \ q
          /\ ctl[y].at = "routes" /\ Pending(y, t) /\ rt'[t].st = ctl[y].new[t]
          /\ rt'[t].spec = rt[t].spec /\ rt'[t].gen = rt[t].gen
        BY <1>8, <1>a, <1>e, WriteRouteEffect DEF Pending
    <2>1. \A s \in R \ {t} : rt'[s] = rt[s]
        BY <1>8, <1>a, WriteRouteEffect, SMTT(30)
    <2>2. \A r \in R : Verdicts(x, r)' = Verdicts(x, r)
        <3>1. \A r \in R : rt'[r].spec = rt[r].spec /\ rt'[r].gen = rt[r].gen
            BY <2>0, <2>1
        <3> QED
            BY <2>0, <3>1 DEF Verdicts
    <2>3. CASE x # y
        <3>1. ctl'[x] = Stale(ctl[x], t)
            BY <1>0, <1>8, <1>a, <2>3, WriteRouteEffect, SMTT(30)
        <3>2. ASSUME Verdicts(x, t) \subseteq rt[t].st PROVE Verdicts(x, t) \subseteq rt'[t].st
            <4>1. \A e \in rt[t].st \ rt'[t].st : e.ref.gw = y
                BY <2>0 DEF BaseInv, EntryInv
            <4>2. \A e \in Verdicts(x, t) : e.ref.gw = x
                BY VerdictFacts, SMTT(30)
            <4> QED
                BY <2>3, <3>2, <4>1, <4>2, SMTT(30)
        <3> QED
            BY <1>a, <1>c, <2>0, <2>1, <2>2, <2>3, <3>1, <3>2, StaleTyped, SMTT(30)
    <2>4. CASE x = y
        <3>1. Quiet(x) /\ Observed(x)
            BY <1>b, <2>0, <2>4 DEF Quiet
        <3>2. ctl[x].new[t] = UpdateRoute(x, t)
            BY <1>0, <2>0, <2>4, <3>1 DEF BaseInv, NewInv, Decided
        <3>3. Verdicts(x, t) \subseteq rt'[t].st
            BY <2>0, <2>4, <3>2, UpdateFacts, SMTT(30)
        <3>4. ctl'[x] = Forget(ctl[x], t)
            BY <1>8, <1>a, <2>4, WriteRouteEffect
        <3>5. ctl'[x].at # "gw" /\ \A r \in R \ {t} : Missing(x, r) => Missing(x, r)'
            BY <1>a, <1>i, <2>0, <2>4, <3>4, ForgetTyped, SMTT(30) DEF Missing
        <3>6. \A r \in R : Verdicts(x, r)' \subseteq rt'[r].st \/ Missing(x, r)'
            BY <2>1, <2>2, <3>1, <3>3, <3>5 DEF Quiet
        <3> QED
            BY <2>0, <3>1, <3>5, <3>6 DEF Quiet, Observed
    <2> QED
        BY <2>3, <2>4
<1>9. ASSUME NEW y \in Gw, NEW t \in R, LoseRoute(y, t) PROVE Quiet(x)'
    <2>0. /\ gw' = gw /\ rt' = rt /\ lost' = lost \cup {<<y, t>>} /\ x \in Up \ q
          /\ ctl[y].at = "routes"
        BY <1>9, <1>a, <1>e, LoseRouteEffect
    <2>1. CASE x # y
        <3>1. ctl'[x] = ctl[x]
            BY <1>0, <1>9, <1>a, <2>1, LoseRouteEffect
        <3> QED
            BY <1>c, <1>d, <2>0, <3>1
    <2>2. CASE x = y
        <3>1. Quiet(x) /\ Observed(x)
            BY <1>b, <2>0, <2>2 DEF Quiet
        <3>2. ctl'[x] = Forget(ctl[x], t)
            BY <1>9, <1>a, <2>2, LoseRouteEffect
        <3>3. ctl'[x].at # "gw" /\ \A r \in R : Missing(x, r) => Missing(x, r)'
            BY <1>a, <1>i, <2>0, <2>2, <3>2, ForgetTyped, SMTT(30) DEF Missing
        <3> QED
            BY <1>d, <2>0, <3>1, <3>3 DEF Quiet, Observed
    <2> QED
        BY <2>1, <2>2
<1>10. CASE UserStep
    BY <1>4, <1>5, <1>10, <1>a, UserEffect
<1>11. CASE \E y \in Gw : CtlStep(y)
    BY <1>6, <1>7, <1>8, <1>9, <1>11 DEF CtlStep
<1> QED
    BY <1>1, <1>2, <1>3, <1>10, <1>11 DEF Next

(* What is served and what is admitted, spelled out.                       *)
LEMMA ServedForm ==
    ASSUME NEW x
    PROVE  \A p : p \in Served(x) <=>
              \E ls \in gw[x].lss, r \in R :
                 /\ p = <<ls.name, r>> /\ ls.port \notin ReservedPorts
                 /\ gw[x].there = "yes" /\ gw[x].lst.gen = gw[x].gen
                 /\ ls.name \in gw[x].lst.ready
                 /\ Ref(x, ls) \in rt[r].spec.refs
                 /\ \E e \in rt[r].st : e.ref = Ref(x, ls) /\ e.gen = rt[r].gen /\ e.ok = "yes"
<1>1. \A ls : ls \in FilterMetricsListener(ListListener(x)) <=>
                /\ ls \in gw[x].lss /\ ls.port \notin ReservedPorts
                /\ gw[x].there = "yes" /\ gw[x].lst.gen = gw[x].gen
                /\ ls.name \in gw[x].lst.ready
    BY DEF FilterMetricsListener, ListListener, IsListenerReady
<1>2. \A ls, r : r \in Attached(x, ls) <=>
                /\ r \in R /\ Ref(x, ls) \in rt[r].spec.refs
                /\ \E e \in rt[r].st : e.ref = Ref(x, ls) /\ e.gen = rt[r].gen /\ e.ok = "yes"
    BY DEF Attached, IsRouteReady
<1>3. \A p : p \in Served(x) <=>
                \E ls \in FilterMetricsListener(ListListener(x)) :
                   \E r \in Attached(x, ls) : p = <<ls.name, r>>
    BY SMTT(30) DEF Served
<1> QED
    BY <1>1, <1>2, <1>3, SMTT(30)

LEMMA AdmittedForm ==
    ASSUME NEW x
    PROVE  \A p : p \in Admitted(x) <=>
              \E n \in ReadyNames(gw[x].lss), r \in R :
                 /\ p = <<n, r>>
                 /\ \E e \in Verdicts(x, r) : e.ref.section = n /\ e.ok = "yes"
BY SMTT(30) DEF Admitted

LEMMA RefFields ==
    ASSUME NEW x, NEW ls
    PROVE  Ref(x, ls).gw = x /\ Ref(x, ls).section = ls.name
BY DEF Ref

(* A pair that is served and not admitted rests on a wrong verdict.        *)
LEMMA ServedIsAdmitted ==
    ASSUME BaseInv, NEW x \in Gw, NEW p \in Served(x)
    PROVE  /\ Observed(x) /\ p[2] \in R
           /\ Right(x, p[2]) => p \in Admitted(x)
<1>1. PICK ls \in gw[x].lss, r \in R :
                 /\ p = <<ls.name, r>>
                 /\ gw[x].there = "yes" /\ gw[x].lst.gen = gw[x].gen
                 /\ ls.name \in gw[x].lst.ready
                 /\ Ref(x, ls) \in rt[r].spec.refs
                 /\ \E e \in rt[r].st : e.ref = Ref(x, ls) /\ e.gen = rt[r].gen /\ e.ok = "yes"
    BY ServedForm, SMTT(30)
<1>2. PICK e \in rt[r].st : e.ref = Ref(x, ls) /\ e.gen = rt[r].gen /\ e.ok = "yes"
    BY <1>1
<1>3. p[2] = r
    BY <1>1
<1>4. e.ref \in RefsTo(x, rt[r].spec) /\ e.ref.section = ls.name
    BY <1>1, <1>2, RefFields, SMTT(30) DEF RefsTo, IsRefToGateway
<1>5. ls.name \in ReadyNames(gw[x].lss)
    BY <1>1 DEF BaseInv, StatusInv
<1>6. ASSUME Right(x, r) PROVE p \in Admitted(x)
    <2>1. e \in Verdicts(x, r)
        BY <1>2, <1>4, <1>6 DEF Right
    <2> QED
        BY <1>1, <1>2, <1>4, <1>5, <2>1, AdmittedForm
<1> QED
    BY <1>1, <1>3, <1>6 DEF Observed

(* A pair that is admitted and not served misses its verdict.              *)
LEMMA AdmittedIsServed ==
    ASSUME BaseInv, NEW x \in Gw, Observed(x), NEW p \in Admitted(x)
    PROVE  p[2] \in R /\ (Verdicts(x, p[2]) \subseteq rt[p[2]].st => p \in Served(x))
<1>1. PICK n \in ReadyNames(gw[x].lss), r \in R :
                 /\ p = <<n, r>>
                 /\ \E e \in Verdicts(x, r) : e.ref.section = n /\ e.ok = "yes"
    BY AdmittedForm
<1>2. PICK e \in Verdicts(x, r) : e.ref.section = n /\ e.ok = "yes"
    BY <1>1
<1>3. p[2] = r
    BY <1>1
<1>4. e.ref \in rt[r].spec.refs /\ e.ref.gw = x /\ e.gen = rt[r].gen
    BY VerdictFacts, SMTT(30) DEF RefsTo
<1>5. FilteRoutes(gw[x].lss, rt[r].spec, e.ref)
    <2> DEFINE V(ref) == [ref |-> ref, gen |-> rt[r].gen,
                          ok |-> IF FilteRoutes(gw[x].lss, rt[r].spec, ref) THEN "yes" ELSE "no"]
    <2>1. PICK ref \in RefsTo(x, rt[r].spec) : e = V(ref)
        BY DEF Verdicts, Judge
    <2>2. e.ref = ref /\ e.ok = IF FilteRoutes(gw[x].lss, rt[r].spec, ref) THEN "yes" ELSE "no"
        BY <2>1
    <2> QED
        BY <1>2, <2>2
<1>6. PICK ls \in gw[x].lss : ls.name = e.ref.section /\ ls.port \notin ReservedPorts
    BY <1>5 DEF FilteRoutes, ReservedPortFilter
<1>7. rt[r].spec \in RtSpecs
    BY DEF BaseInv, CtlInv, RtState
<1>8. e.ref = [gw |-> e.ref.gw, section |-> e.ref.section]
    BY <1>4, <1>7, GatewayConstants DEF GatewayConstants
<1>9. e.ref = Ref(x, ls)
    BY <1>4, <1>6, <1>8 DEF Ref
<1>10. gw[x].lst.ready = ReadyNames(gw[x].lss)
    BY DEF BaseInv, StatusInv, Observed
<1>11. ASSUME Verdicts(x, r) \subseteq rt[r].st PROVE p \in Served(x)
    <2>1. e \in rt[r].st
        BY <1>11
    <2>2. /\ p = <<ls.name, r>> /\ ls.port \notin ReservedPorts
          /\ gw[x].there = "yes" /\ gw[x].lst.gen = gw[x].gen
          /\ ls.name \in gw[x].lst.ready
          /\ Ref(x, ls) \in rt[r].spec.refs
        BY <1>1, <1>2, <1>4, <1>6, <1>9, <1>10 DEF Observed
    <2> QED
        BY <1>2, <1>4, <1>9, <2>1, <2>2, ServedForm, SMTT(30)
<1> QED
    BY <1>3, <1>11

(* ServedRight: the policy generator serves exactly what the filters admit *)
(* now, except where a status write of the controller is still to come or  *)
(* was lost (gateway/ctl, gateway/nginx/driver.go).                        *)
THEOREM ServedAsAdmitted == Spec => []ServedRight
<1> DEFINE Inv == BaseInv /\ RightInv /\ QuietInv
<1>1. Init => Inv
    BY BaseInit, RightInit, QuietInit
<1>2. Inv /\ [Next]_vars => Inv'
    BY BaseStep, RightStep, QuietStep
<1>3. ASSUME Inv PROVE ServedInError
    <2> SUFFICES ASSUME NEW x \in Up, NEW p \in Served(x) \ Admitted(x)
                 PROVE  Due(x, p[2]) \/ <<x, p[2]>> \in lost
        BY DEF ServedInError, Due
    <2>1. x \in Gw
        BY UpInGw
    <2>2. Observed(x) /\ p[2] \in R /\ ~Right(x, p[2])
        BY <1>3, <2>1, ServedIsAdmitted
    <2> QED
        BY <1>3, <2>1, <2>2 DEF RightInv
<1>4. ASSUME Inv PROVE QuietIsRight
    <2> SUFFICES ASSUME NEW x \in Up \ q, ctl[x].at = "idle", gw[x].there = "yes",
                        lost \cap ({x} \X R) = {}
                 PROVE  Served(x) = Admitted(x)
        BY DEF QuietIsRight
    <2>1. x \in Gw
        BY UpInGw
    <2>2. \A r \in R : <<x, r>> \notin lost
        BY SMTT(30)
    <2>3. Observed(x) /\ \A r \in R : Verdicts(x, r) \subseteq rt[r].st
        BY <1>4, <2>2 DEF QuietInv, Quiet, Missing
    <2>4. \A r \in R : Right(x, r)
        BY <1>4, <2>1, <2>2, <2>3 DEF RightInv, Due
    <2> QED
        BY <1>4, <2>1, <2>3, <2>4, ServedIsAdmitted, AdmittedIsServed
<1>5. Inv => ServedRight
    BY <1>3, <1>4 DEF ServedRight
<1> QED
    BY <1>1, <1>2, <1>5, PTL DEF Spec
=============================================================================
