-------------------------- MODULE AlbOperatorProofs --------------------------
(***************************************************************************)
(* AlbOperator implements AlbLife, keeps what the instance reports, leaves *)
(* nothing behind, and settles on what the configuration asks for, for any *)
(* configurations, versions, edits and faults.                             *)
(*                                                                         *)
(* A round of the worker reads the alb once and writes it many calls       *)
(* later.  The inductive invariants say what such a delayed write may      *)
(* still do.  LifeInv: as long as nobody else has written the alb (moved), *)
(* it keeps the finalizers, adds both to an alb that has none, or takes    *)
(* both off an alb that may leave; and it is the last call of the round,   *)
(* so that no call is made from a copy the round itself has made stale.    *)
(* PortsInv, LeftInv and AnnInv say in the same way what the calls under   *)
(* way mean for the port report, the objects and the annotations.          *)
(*                                                                         *)
(* The last part is about data: what is left of a configuration in the     *)
(* environment, in the comparisons and in the instance.                    *)
(***************************************************************************)
EXTENDS AlbOperator, Integers, TLAPS

\* The prover of every leaf that names none.
USE ZenonT(30)

-----------------------------------------------------------------------------
(* Facts about the sequences of API calls that make up a round. *)

\* A sequence of calls that ends with the only one that writes the alb, if any does.
Writes(c) == c.do \in {"alb", "status"}
LastWrites(s) == \A i \in 1..Len(s) : Writes(s[i]) => i = Len(s)
IsPlan(s) == \E S : s \in Seq(S)

\* Calls none of which writes the alb.
Quiet(s) == IsPlan(s) /\ \A i \in 1..Len(s) : ~Writes(s[i])

LEMMA RestOfPlan ==
  ASSUME NEW S, NEW s \in Seq(S), s # <<>>
  PROVE  /\ Head(s) \in S /\ Tail(s) \in Seq(S) /\ Len(Tail(s)) = Len(s) - 1
         /\ \A i \in 1..Len(Tail(s)) : Tail(s)[i] = s[i + 1]
BY SMTT(30)

LEMMA NoCalls == ASSUME NEW S, NEW s \in Seq(S), Len(s) = 0 PROVE s = <<>>
BY SMTT(30)

LEMMA EmptyQuiet == Quiet(<<>>)
BY SMTT(30) DEF Quiet, IsPlan

LEMMA OneQuiet ==
  ASSUME NEW c, ~Writes(c)
  PROVE  Quiet(<<c>>)
<1>1. <<c>> \in Seq({c}) /\ Len(<<c>>) = 1 /\ <<c>>[1] = c
  BY SMTT(30)
<1>2. IsPlan(<<c>>)
  BY <1>1 DEF IsPlan
<1>3. ASSUME NEW i \in 1..Len(<<c>>) PROVE ~Writes(<<c>>[i])
  <2>1. i = 1
    BY <1>1, SMTT(30)
  <2> QED
    BY <1>1, <2>1
<1> QED
  BY <1>2, <1>3 DEF Quiet

\* Quiet calls followed by others.
LEMMA QuietConcat ==
  ASSUME NEW s, NEW t, Quiet(s), IsPlan(t)
  PROVE  /\ IsPlan(s \o t)
         /\ \A i \in 1..Len(s \o t) : Writes((s \o t)[i]) => i > Len(s) /\ (s \o t)[i] = t[i - Len(s)]
         /\ Len(s \o t) = Len(s) + Len(t) /\ Len(s) \in Nat /\ Len(t) \in Nat
<1>1. PICK S : s \in Seq(S)
  BY DEF Quiet, IsPlan
<1>2. PICK T : t \in Seq(T)
  BY DEF IsPlan
<1>3. s \in Seq(S \cup T) /\ t \in Seq(S \cup T)
  BY <1>1, <1>2, SMTT(30)
<1>4. /\ s \o t \in Seq(S \cup T)
      /\ Len(s \o t) = Len(s) + Len(t) /\ Len(s) \in Nat /\ Len(t) \in Nat
      /\ \A i \in 1..Len(s) + Len(t) : (s \o t)[i] = IF i <= Len(s) THEN s[i] ELSE t[i - Len(s)]
  BY <1>3, SMTT(30)
<1>5. \A i \in 1..Len(s) : ~Writes(s[i])
  BY DEF Quiet
<1> QED
  BY <1>4, <1>5, SMTT(30) DEF IsPlan

LEMMA TwoQuiet ==
  ASSUME NEW s, NEW t, Quiet(s), Quiet(t)
  PROVE  Quiet(s \o t)
<1>1. IsPlan(t) /\ \A i \in 1..Len(t) : ~Writes(t[i])
  BY DEF Quiet
<1>2. ASSUME NEW i \in 1..Len(s \o t), Writes((s \o t)[i])
      PROVE  FALSE
  <2>1. i - Len(s) \in 1..Len(t) /\ (s \o t)[i] = t[i - Len(s)]
    BY <1>1, <1>2, QuietConcat, SMTT(30)
  <2> QED
    BY <1>1, <1>2, <2>1
<1> QED
  BY <1>1, <1>2, QuietConcat DEF Quiet

\* Quiet calls and then one that writes the alb.
LEMMA QuietThenOne ==
  ASSUME NEW s, NEW c, Quiet(s)
  PROVE  /\ IsPlan(s \o <<c>>) /\ LastWrites(s \o <<c>>)
         /\ \A i \in 1..Len(s \o <<c>>) : Writes((s \o <<c>>)[i]) => (s \o <<c>>)[i] = c
<1>1. <<c>> \in Seq({c}) /\ Len(<<c>>) = 1 /\ <<c>>[1] = c
  BY SMTT(30)
<1>2. IsPlan(<<c>>)
  BY <1>1 DEF IsPlan
<1> QED
  BY <1>1, <1>2, QuietConcat, SMTT(30) DEF LastWrites

\* The rest of a plan.
LEMMA TailPlan ==
  ASSUME NEW s, IsPlan(s), LastWrites(s), s # <<>>
  PROVE  /\ IsPlan(Tail(s)) /\ LastWrites(Tail(s))
         /\ Len(s) \in Nat \ {0} /\ Len(Tail(s)) = Len(s) - 1 /\ Head(s) = s[1]
         /\ \A i \in 1..Len(Tail(s)) : Tail(s)[i] = s[i + 1]
         /\ Writes(Head(s)) => Tail(s) = <<>>
<1>1. PICK S : s \in Seq(S)
  BY DEF IsPlan
<1>2. /\ Len(s) \in Nat \ {0} /\ Tail(s) \in Seq(S) /\ Len(Tail(s)) = Len(s) - 1 /\ Head(s) = s[1]
      /\ \A i \in 1..Len(Tail(s)) : Tail(s)[i] = s[i + 1]
  BY <1>1, RestOfPlan, SMTT(30)
<1>3. LastWrites(Tail(s))
  <2> SUFFICES ASSUME NEW i \in 1..Len(Tail(s)), Writes(Tail(s)[i]) PROVE i = Len(Tail(s))
    BY DEF LastWrites
  <2>1. \A j \in 1..Len(s) : Writes(s[j]) => j = Len(s)
    BY DEF LastWrites
  <2>2. i + 1 \in 1..Len(s) /\ Writes(s[i + 1])
    BY <1>2, SMTT(30)
  <2>3. i + 1 = Len(s)
    BY <2>1, <2>2
  <2>4. i \in Int /\ Len(s) \in Int /\ Len(Tail(s)) = Len(s) - 1
    BY <1>2, SMTT(30)
  <2> QED
    BY <2>3, <2>4, SMTT(30)
<1>4. ASSUME Writes(Head(s)) PROVE Tail(s) = <<>>
  <2>1. 1 \in 1..Len(s) /\ Writes(s[1])
    BY <1>2, <1>4, SMTT(30)
  <2>2. Len(s) = 1
    BY <2>1 DEF LastWrites
  <2>3. Len(Tail(s)) = 0
    BY <1>2, <2>2, SMTT(30)
  <2> QED
    BY <1>2, <2>3, NoCalls
<1> QED
  BY <1>2, <1>3, <1>4 DEF IsPlan

-----------------------------------------------------------------------------
(* What a delayed write of the alb may do. *)

\* What the finalizers of an alb can be.
Guarded(a) ==
  /\ a.fin \in {{}, {"op"}, {"op", "inst"}}
  /\ a.deleting = "yes" => "op" \in a.fin
  /\ a.fin = {"op"} => a.deleting = "yes"

\* What an alb may be written as in the present state.
MayWrite(a) ==
  /\ alb # None /\ a \in Alb /\ Guarded(alb)
  /\ \/ a.fin = alb.fin /\ a.deleting = alb.deleting
     \/ /\ alb.fin = {} /\ alb.deleting = "no"
        /\ a.fin = {"op", "inst"} /\ a.deleting = "no"
     \/ /\ alb.deleting = "yes" /\ ("inst" \notin alb.fin \/ grace = "over")
        /\ a.fin = {} /\ a.deleting = "yes"

\* What a call that writes the alb is to be, until someone else writes it.
CallOK(c) ==
  /\ c.do = "alb" /\ moved = "no" => MayWrite(c.alb)
  /\ c.do = "status" /\ moved = "no" => alb # None /\ c.st \in Status

PlanOK == IsPlan(plan) /\ LastWrites(plan) /\ \A i \in 1..Len(plan) : CallOK(plan[i])

AlbOK ==
  /\ alb \in Alb \cup {None} /\ version \in Version /\ moved \in {"yes", "no"}
  /\ grace \in {"running", "over"}
  /\ alb # None => Guarded(alb)

\* The inductive invariant.
LifeInv == AlbOK /\ PlanOK

-----------------------------------------------------------------------------
(* What the worker plans. *)

\* One create, update or delete, or nothing.
LEMMA MigrateQuiet ==
  ASSUME NEW t, NEW wanted, NEW differs, NEW new
  PROVE  Quiet(Migrate(t, wanted, differs, new))
<1> DEFINE call(do) == [do |-> do, what |-> t, from |-> Cur(t), new |-> new]
<1>1. ~Writes(call("delete")) /\ ~Writes(call("create")) /\ ~Writes(call("update"))
  BY DEF Writes
<1>2. Quiet(<<call("delete")>>) /\ Quiet(<<call("create")>>) /\ Quiet(<<call("update")>>)
  BY <1>1, OneQuiet
<1>3. \/ Migrate(t, wanted, differs, new) = <<call("delete")>>
      \/ Migrate(t, wanted, differs, new) = <<call("create")>>
      \/ Migrate(t, wanted, differs, new) = <<call("update")>>
      \/ Migrate(t, wanted, differs, new) = <<>>
  BY DEF Migrate
<1> QED
  BY <1>2, <1>3, EmptyQuiet

\* The calls of an ordinary round, up to the status.
LEMMA UpdateQuiet ==
  ASSUME NEW a, NEW l
  PROVE  Quiet(UpdateCalls(a, l))
<1>1. \A t : Quiet(MigrateRbac(t))
  BY MigrateQuiet DEF MigrateRbac
<1>2. Quiet(MigrateDeploy(a)) /\ Quiet(MigrateCommon(a)) /\ Quiet(MigratePortInfo(a))
  BY MigrateQuiet DEF MigrateDeploy, MigrateCommon, MigratePortInfo
<1>3. Quiet(MigrateMonitor(a)) /\ Quiet(MigrateLb(l, a)) /\ Quiet(MigrateFeature(a))
  BY MigrateQuiet, EmptyQuiet DEF MigrateMonitor, MigrateLb, MigrateFeature
<1>4. Quiet(MigrateIngressClass(a)) /\ Quiet(MigrateGatewayClass(a))
  BY MigrateQuiet DEF MigrateIngressClass, MigrateGatewayClass
<1> QED
  BY <1>1, <1>2, <1>3, <1>4, TwoQuiet DEF UpdateCalls

\* The deletes of Destroy.
LEMMA DestroyQuiet ==
  ASSUME NEW l
  PROVE  Quiet(DestroyCalls(l))
<1>1. ASSUME NEW t PROVE Quiet(Drop(t))
  <2>1. ~Writes([do |-> "drop", what |-> t, from |-> None, new |-> Plain])
    BY DEF Writes
  <2> QED
    BY <2>1, OneQuiet, EmptyQuiet DEF Drop
<1>2. Quiet(IF l = None THEN <<>> ELSE Drop(l))
  BY <1>1, EmptyQuiet
<1> QED
  BY <1>1, <1>2, TwoQuiet DEF DestroyCalls

LEMMA LabelQuiet ==
  ASSUME NEW c
  PROVE  Quiet(LabelOver(c))
<1>1. ~Writes([do |-> "label"])
  BY DEF Writes
<1> QED
  BY <1>1, OneQuiet, EmptyQuiet DEF LabelOver

-----------------------------------------------------------------------------
(* What is written is an alb. *)

LEMMA AlbFields ==
  ASSUME NEW a \in Alb
  PROVE  /\ a # None /\ a.st \in Status
         /\ \A c \in Conf \cup {None} : [a EXCEPT !.conf = c] \in Alb
         /\ \A y \in {"yes", "no"} : [a EXCEPT !.ignore = y] \in Alb
         /\ \A x \in {AlbLabelOf[c] : c \in Conf} : [a EXCEPT !.label = x] \in Alb
         /\ \A f \in SUBSET {"op", "inst"} : [a EXCEPT !.fin = f] \in Alb
         /\ [a EXCEPT !.deleting = "yes"] \in Alb
         /\ \A s \in Status : [a EXCEPT !.st = s] \in Alb
<1>1. a # None
  BY OperatorConstants DEF OperatorConstants
<1>2. a.st \in Status
  BY DEF Alb
<1>3. \A c \in Conf \cup {None} : [a EXCEPT !.conf = c] \in Alb
  BY DEF Alb
<1>4. \A y \in {"yes", "no"} : [a EXCEPT !.ignore = y] \in Alb
  BY DEF Alb
<1>5. \A x \in {AlbLabelOf[c] : c \in Conf} : [a EXCEPT !.label = x] \in Alb
  BY DEF Alb
<1>6. \A f \in SUBSET {"op", "inst"} : [a EXCEPT !.fin = f] \in Alb
  BY DEF Alb
<1>7. [a EXCEPT !.deleting = "yes"] \in Alb
  BY DEF Alb
<1>8. \A s \in Status : [a EXCEPT !.st = s] \in Alb
  BY DEF Alb
<1> QED
  BY <1>1, <1>2, <1>3, <1>4, <1>5, <1>6, <1>7, <1>8

LEMMA StatusRecord ==
  ASSUME NEW p \in {"clean", "conflict"}, NEW d \in {"Unset"} \cup State, NEW r \in Address,
         NEW v \in {0} \cup Version, NEW i \in {"unset", "patched", "not patch"}, NEW s \in State
  PROVE  [ports |-> p, deploy |-> d, addr |-> r, ver |-> v, patch |-> i, state |-> s] \in Status
BY DEF Status

\* The status a reconcile works out (GenExpectStatus).
LEMMA StatusTyped ==
  ASSUME NEW a \in Alb, NEW svc, version \in Version
  PROVE  ExpectStatus(a, svc) \in Status
<1> DEFINE d == DeployState(Cur("deploy"))
<1>1. a.st.ports \in {"clean", "conflict"}
  BY DEF Alb, Status
<1>2. d \in {"Pending", "Progressing", "Running"}
  BY DEF DeployState
<1>3. MergeState(d, a.st.ports, AddressOk(svc, a.conf), a.conf) \in State
  <2> HIDE DEF d
  <2>1. \/ MergeState(d, a.st.ports, AddressOk(svc, a.conf), a.conf) = d
        \/ MergeState(d, a.st.ports, AddressOk(svc, a.conf), a.conf) = "Warning"
        \/ MergeState(d, a.st.ports, AddressOk(svc, a.conf), a.conf) = "Progressing"
        \/ MergeState(d, a.st.ports, AddressOk(svc, a.conf), a.conf) = "Running"
    BY DEF MergeState
  <2> QED
    BY <1>2, <2>1 DEF State
<1>4. d \in {"Unset"} \cup State
  BY <1>2 DEF State
<1> DEFINE addr == IF svc # None /\ svc.got = "yes" THEN "ip" ELSE "none"
           patch == IF HasImagePatch(CfgOf[a.conf], version) THEN "patched" ELSE "not patch"
           state == MergeState(d, a.st.ports, AddressOk(svc, a.conf), a.conf)
<1>5. ExpectStatus(a, svc) = [ports |-> a.st.ports, deploy |-> d, addr |-> addr, ver |-> version,
                              patch |-> patch, state |-> state]
  BY DEF ExpectStatus
<1>6. addr \in Address /\ patch \in {"unset", "patched", "not patch"}
  BY DEF Address
<1>7. version \in {0} \cup Version
  OBVIOUS
<1>8. state \in State
  BY <1>3
<1> HIDE DEF d, addr, patch, state
<1>9. [ports |-> a.st.ports, deploy |-> d, addr |-> addr, ver |-> version, patch |-> patch,
       state |-> state] \in Status
  BY <1>1, <1>4, <1>6, <1>7, <1>8, StatusRecord
<1> QED
  BY <1>5, <1>9

-----------------------------------------------------------------------------
(* The invariant, one lemma for each way a step treats the alb and the plan. *)

\* Someone else writes the alb: what is planned will be refused.
LEMMA OthersWrite ==
  ASSUME LifeInv, NEW a \in Alb \cup {None}, a # None => Guarded(a), WriteAlb(a),
         UNCHANGED <<plan, version, grace>>
  PROVE  LifeInv'
<1>1. moved' = "yes" /\ alb' = a
  BY DEF WriteAlb
<1>2. AlbOK'
  BY <1>1 DEF LifeInv, AlbOK, Guarded
<1>3. PlanOK'
  BY <1>1 DEF LifeInv, PlanOK, CallOK, IsPlan, LastWrites, Writes
<1> QED
  BY <1>2, <1>3 DEF LifeInv

\* Nobody touches the alb or the plan.
LEMMA NobodyWrites ==
  ASSUME LifeInv, UNCHANGED <<alb, plan, moved, version>>, grace' \in {grace, "over"}
  PROVE  LifeInv'
<1>1. AlbOK'
  BY DEF LifeInv, AlbOK, Guarded
<1>2. ASSUME NEW i \in 1..Len(plan) PROVE CallOK(plan[i])'
  <2>1. CallOK(plan[i])
    BY DEF LifeInv, PlanOK
  <2> QED
    BY <2>1 DEF CallOK, MayWrite, Guarded
<1>3. PlanOK'
  BY <1>2 DEF LifeInv, PlanOK, IsPlan, LastWrites, Writes
<1> QED
  BY <1>1, <1>3 DEF LifeInv

\* A call that does not write the alb is made.
LEMMA CallMade ==
  ASSUME LifeInv, plan # <<>>, plan' = Tail(plan), UNCHANGED <<alb, moved, version, grace>>
  PROVE  LifeInv'
<1>1. AlbOK'
  BY DEF LifeInv, AlbOK, Guarded
<1>2. IsPlan(plan) /\ LastWrites(plan) /\ \A i \in 1..Len(plan) : CallOK(plan[i])
  BY DEF LifeInv, PlanOK
<1>3. /\ IsPlan(Tail(plan)) /\ LastWrites(Tail(plan))
      /\ Len(plan) \in Nat \ {0} /\ Len(Tail(plan)) = Len(plan) - 1
      /\ \A i \in 1..Len(Tail(plan)) : Tail(plan)[i] = plan[i + 1]
  BY <1>2, TailPlan
<1>4. ASSUME NEW i \in 1..Len(plan') PROVE CallOK(plan[i])'
  <2>1. i + 1 \in 1..Len(plan) /\ plan'[i] = plan[i + 1]
    BY <1>3, SMTT(30)
  <2>2. CallOK(plan[i + 1])
    BY <1>2, <2>1
  <2> QED
    BY <2>1, <2>2 DEF CallOK, MayWrite, Guarded
<1>5. IsPlan(plan') /\ LastWrites(plan')
  BY <1>3
<1>6. PlanOK'
  BY <1>4, <1>5 DEF PlanOK, IsPlan, LastWrites, Writes
<1> QED
  BY <1>1, <1>6 DEF LifeInv

\* The round ends.
LEMMA NothingPlanned ==
  ASSUME LifeInv, plan' = <<>>, AlbOK'
  PROVE  LifeInv'
<1>1. IsPlan(<<>>) /\ Len(<<>>) = 0
  BY EmptyQuiet DEF Quiet
<1> QED
  BY <1>1, SMTT(30) DEF LifeInv, PlanOK, LastWrites, IsPlan

\* A round begins.
LEMMA Planned ==
  ASSUME LifeInv, NEW calls, NEW then, Take(calls, then), IsPlan(calls), LastWrites(calls),
         \A i \in 1..Len(calls) :
           /\ calls[i].do = "alb" => MayWrite(calls[i].alb)
           /\ calls[i].do = "status" => alb # None /\ calls[i].st \in Status
  PROVE  LifeInv'
<1>1. UNCHANGED <<alb, version, grace>> /\ moved' = "no" /\ plan' = calls
  BY DEF Take, cluster
<1>2. AlbOK'
  BY <1>1 DEF LifeInv, AlbOK, Guarded
<1>3. ASSUME NEW i \in 1..Len(plan') PROVE CallOK(plan[i])'
  BY <1>1 DEF CallOK, MayWrite, Guarded
<1>4. PlanOK'
  BY <1>1, <1>3 DEF PlanOK, IsPlan, LastWrites, Writes
<1> QED
  BY <1>2, <1>4 DEF LifeInv

-----------------------------------------------------------------------------
(* The invariant, action by action. *)

\* The rounds that write the alb at once.
LEMMA ShortRounds ==
  ASSUME LifeInv, MigrateBackup \/ AddFinalizers
  PROVE  LifeInv'
<1>1. alb \in Alb /\ Guarded(alb)
  BY DEF LifeInv, AlbOK, MigrateBackup, AddFinalizers, Managed
<1>2. ASSUME NEW a, MayWrite(a), NEW then, Take(<<[do |-> "alb", alb |-> a]>>, then)
      PROVE  LifeInv'
  <2> DEFINE c == [do |-> "alb", alb |-> a]
  <2>1. c.do = "alb" /\ c.alb = a
    OBVIOUS
  <2> HIDE DEF c
  <2>2. <<c>> \in Seq({c}) /\ Len(<<c>>) = 1 /\ <<c>>[1] = c
    BY SMTT(30)
  <2>3. IsPlan(<<c>>)
    BY <2>2 DEF IsPlan
  <2>4. LastWrites(<<c>>)
    BY <2>2, SMTT(30) DEF LastWrites
  <2>5. \A i \in 1..Len(<<c>>) : <<c>>[i] = c
    BY <2>2, SMTT(30)
  <2>6. Take(<<c>>, then)
    BY <1>2 DEF c
  <2> QED
    BY <1>2, <2>1, <2>3, <2>4, <2>5, <2>6, Planned
<1>3. CASE MigrateBackup
  <2> DEFINE a == [alb EXCEPT !.conf = alb.backup]
  <2>1. alb.backup \in Conf \cup {None}
    BY <1>1 DEF Alb
  <2>2. a \in Alb /\ alb # None
    BY <1>1, <2>1, AlbFields
  <2>3. a.fin = alb.fin /\ a.deleting = alb.deleting
    BY <1>1 DEF Alb
  <2>4. Take(<<[do |-> "alb", alb |-> a]>>, "requeue")
    BY <1>3 DEF MigrateBackup
  <2> HIDE DEF a
  <2>5. MayWrite(a)
    BY <1>1, <2>2, <2>3 DEF MayWrite
  <2> QED
    BY <1>2, <2>4, <2>5
<1>4. CASE AddFinalizers
  <2> DEFINE a == [alb EXCEPT !.fin = {"op", "inst"}]
  <2>1. a \in Alb /\ alb # None
    BY <1>1, AlbFields
  <2>2. a.fin = {"op", "inst"} /\ a.deleting = alb.deleting
    BY <1>1 DEF Alb
  <2>3. Take(<<[do |-> "alb", alb |-> a]>>, "requeue") /\ "op" \notin alb.fin
    BY <1>4 DEF AddFinalizers
  <2> HIDE DEF a
  <2>4. alb.fin = {} /\ alb.deleting = "no"
    BY <1>1, <2>3 DEF Guarded, Alb
  <2>5. MayWrite(a)
    BY <1>1, <2>1, <2>2, <2>4 DEF MayWrite
  <2> QED
    BY <1>2, <2>3, <2>5
<1> QED
  BY <1>3, <1>4

\* Quiet calls and at most one more, which writes what it may.
LEMMA LongRound ==
  ASSUME LifeInv, NEW s, Quiet(s), NEW c, NEW then,
         c.do = "alb" => MayWrite(c.alb),
         c.do = "status" => alb # None /\ c.st \in Status,
         Take(s, then) \/ Take(s \o <<c>>, then)
  PROVE  LifeInv'
<1>1. CASE Take(s, then)
  <2>1. IsPlan(s) /\ \A i \in 1..Len(s) : ~Writes(s[i])
    BY DEF Quiet
  <2> QED
    BY <1>1, <2>1, Planned DEF Writes, LastWrites
<1>2. CASE Take(s \o <<c>>, then)
  <2>1. /\ IsPlan(s \o <<c>>) /\ LastWrites(s \o <<c>>)
        /\ \A i \in 1..Len(s \o <<c>>) : Writes((s \o <<c>>)[i]) => (s \o <<c>>)[i] = c
    BY QuietThenOne
  <2> DEFINE t == s \o <<c>>
  <2>2. \A i \in 1..Len(t) : /\ t[i].do = "alb" => MayWrite(t[i].alb)
                             /\ t[i].do = "status" => alb # None /\ t[i].st \in Status
    BY <2>1 DEF Writes
  <2> HIDE DEF t
  <2>3. Take(t, then) /\ IsPlan(t) /\ LastWrites(t)
    BY <1>2, <2>1 DEF t
  <2> QED
    BY <2>2, <2>3, Planned
<1> QED
  BY <1>1, <1>2

LEMMA DestroyRound ==
  ASSUME LifeInv, NEW l, BeginDestroy(l)
  PROVE  LifeInv'
<1> DEFINE a == [alb EXCEPT !.fin = {}]
           c == [do |-> "alb", alb |-> a]
<1>1. alb \in Alb /\ Guarded(alb)
  BY DEF LifeInv, AlbOK, BeginDestroy, Managed
<1>2. a \in Alb /\ alb # None
  BY <1>1, AlbFields
<1>3. a.fin = {} /\ a.deleting = alb.deleting
  BY <1>1 DEF Alb
<1>4. MayWrite(a)
  BY <1>1, <1>2, <1>3 DEF MayWrite, BeginDestroy
<1>5. c.do = "alb" /\ c.alb = a
  OBVIOUS
<1>6. Take(DestroyCalls(l) \o <<c>>, "requeue")
  BY DEF BeginDestroy
<1> HIDE DEF a, c
<1> QED
  BY <1>4, <1>5, <1>6, DestroyQuiet, LongRound

\* An ordinary round: quiet calls, and at most one that writes the alb.
LEMMA UpdatePlan ==
  ASSUME NEW l, NEW name, BeginUpdate(l, name)
  PROVE  \E s, c, then :
           /\ Quiet(s) /\ (Take(s, then) \/ Take(s \o <<c>>, then))
           /\ \/ c = [do |-> "alb", alb |-> [alb EXCEPT !.label = AlbLabelOf[alb.conf]]]
              \/ c = [do |-> "status", st |-> ExpectStatus(alb, Svc(l))]
<1> DEFINE first == LabelOver(alb.conf)
           calls == UpdateCalls(alb, name)
           st == ExpectStatus(alb, Svc(l))
           same == alb.label = AlbLabelOf[alb.conf]
           a == [alb EXCEPT !.label = AlbLabelOf[alb.conf]]
           then == IF same /\ st = alb.st /\ Ready(alb.st) THEN "done" ELSE "requeue"
           write == [do |-> "alb", alb |-> a]
           report == [do |-> "status", st |-> st]
<1>1. Take(first \o IF same THEN calls \o StatusCall(alb, Svc(l)) ELSE <<write>>, then)
  BY DEF BeginUpdate
<1>2. StatusCall(alb, Svc(l)) = IF st = alb.st THEN <<>> ELSE <<report>>
  BY DEF StatusCall
<1>3. Quiet(first) /\ Quiet(calls)
  BY LabelQuiet, UpdateQuiet
<1> SUFFICES \E q, c : /\ Quiet(q) /\ (Take(q, then) \/ Take(q \o <<c>>, then))
                       /\ c = write \/ c = report
  OBVIOUS
<1> HIDE DEF first, calls, st, a, then, write, report
<1>4. CASE ~same
  BY <1>1, <1>3, <1>4
<1>5. CASE same /\ st = alb.st
  <2>1. Take(first \o (calls \o <<>>), then)
    BY <1>1, <1>2, <1>5
  <2>2. Quiet(first \o (calls \o <<>>))
    BY <1>3, EmptyQuiet, TwoQuiet
  <2> QED
    BY <2>1, <2>2
<1>6. CASE same /\ st # alb.st
  <2>1. Take(first \o (calls \o <<report>>), then)
    BY <1>1, <1>2, <1>6
  <2>2. first \o (calls \o <<report>>) = (first \o calls) \o <<report>>
    <3>1. PICK S : first \in Seq(S)
      BY <1>3 DEF Quiet, IsPlan
    <3>2. PICK T : calls \in Seq(T)
      BY <1>3 DEF Quiet, IsPlan
    <3> DEFINE U == S \cup T \cup {report}
    <3>3. first \in Seq(U) /\ calls \in Seq(U) /\ <<report>> \in Seq(U)
      BY <3>1, <3>2, SMTT(30)
    <3> QED
      BY <3>3, SMTT(30)
  <2>3. Take((first \o calls) \o <<report>>, then)
    BY <2>1, <2>2
  <2>4. Quiet(first \o calls)
    BY <1>3, TwoQuiet
  <2> QED
    BY <2>3, <2>4
<1> QED
  BY <1>4, <1>5, <1>6

\* What an ordinary round writes.
LEMMA UpdateWrites ==
  ASSUME LifeInv, NEW l, NEW name, BeginUpdate(l, name)
  PROVE  LET a == [alb EXCEPT !.label = AlbLabelOf[alb.conf]]
         IN /\ alb # None /\ a \in Alb /\ Guarded(alb)
            /\ a.fin = alb.fin /\ a.deleting = alb.deleting /\ a.st = alb.st
            /\ ExpectStatus(alb, Svc(l)) \in Status
            /\ ExpectStatus(alb, Svc(l)).ports = alb.st.ports
<1> DEFINE a == [alb EXCEPT !.label = AlbLabelOf[alb.conf]]
<1>1. alb \in Alb /\ Guarded(alb) /\ version \in Version /\ alb.conf # None
  BY DEF LifeInv, AlbOK, BeginUpdate, Managed
<1>2. alb.conf \in Conf
  BY <1>1 DEF Alb
<1>3. a \in Alb /\ alb # None
  BY <1>1, <1>2, AlbFields
<1>4. a.fin = alb.fin /\ a.deleting = alb.deleting /\ a.st = alb.st
  BY <1>1 DEF Alb
<1>5. ExpectStatus(alb, Svc(l)) \in Status
  BY <1>1, StatusTyped
<1>6. ExpectStatus(alb, Svc(l)).ports = alb.st.ports
  BY DEF ExpectStatus
<1> QED
  BY <1>1, <1>3, <1>4, <1>5, <1>6

LEMMA UpdateRound ==
  ASSUME LifeInv, NEW l, NEW name, BeginUpdate(l, name)
  PROVE  LifeInv'
<1> DEFINE a == [alb EXCEPT !.label = AlbLabelOf[alb.conf]]
           st == ExpectStatus(alb, Svc(l))
<1>1. PICK s, c, then :
        /\ Quiet(s) /\ (Take(s, then) \/ Take(s \o <<c>>, then))
        /\ c = [do |-> "alb", alb |-> a] \/ c = [do |-> "status", st |-> st]
  BY UpdatePlan
<1>2. /\ alb # None /\ a \in Alb /\ Guarded(alb)
      /\ a.fin = alb.fin /\ a.deleting = alb.deleting /\ st \in Status
  BY UpdateWrites
<1> HIDE DEF a, st
<1>3. MayWrite(a)
  BY <1>2 DEF MayWrite
<1>4. \/ c.do = "alb" /\ c.alb = a
      \/ c.do = "status" /\ c.st = st
  BY <1>1, SMTT(30)
<1>5. c.do = "alb" => MayWrite(c.alb)
  BY <1>3, <1>4
<1>6. c.do = "status" => alb # None /\ c.st \in Status
  BY <1>2, <1>4
<1> QED
  BY <1>1, <1>5, <1>6, LongRound

\* A new alb has no finalizers.
LEMMA NewAlb ==
  ASSUME Init
  PROVE  alb \in Alb /\ alb.fin = {} /\ alb.deleting = "no"
<1>1. NoStatus \in Status
  BY StatusRecord DEF NoStatus, State, Address
<1> QED
  BY <1>1, OperatorConstants, SMTT(30) DEF Init, Alb, OperatorConstants

LEMMA LifeInvInit == Init => LifeInv
<1> SUFFICES ASSUME Init PROVE LifeInv
  OBVIOUS
<1>1. alb \in Alb /\ alb.fin = {} /\ alb.deleting = "no"
  BY NewAlb
<1>2. AlbOK
  BY <1>1, OperatorConstants DEF Init, AlbOK, Guarded, OperatorConstants
<1>3. plan = <<>> /\ IsPlan(<<>>) /\ Len(<<>>) = 0
  BY EmptyQuiet DEF Init, Quiet
<1> QED
  BY <1>2, <1>3, SMTT(30) DEF LifeInv, PlanOK, LastWrites

\* The calls of a round.
LEMMA CallInv ==
  ASSUME LifeInv,
         \/ CallCreate \/ CallUpdate \/ CallDelete \/ CallDropFails
         \/ CallAlb \/ CallStatus \/ CallLabel \/ CallFails \/ Done
  PROVE  LifeInv'
<1>1. AlbOK /\ IsPlan(plan) /\ LastWrites(plan)
  BY DEF LifeInv, PlanOK
<1>2. ASSUME plan # <<>>, Writes(Head(plan))
      PROVE  Tail(plan) = <<>> /\ CallOK(Head(plan))
  <2>1. /\ Len(plan) \in Nat \ {0} /\ Head(plan) = plan[1]
        /\ Writes(Head(plan)) => Tail(plan) = <<>>
    BY <1>1, <1>2, TailPlan
  <2>2. 1 \in 1..Len(plan)
    BY <2>1, SMTT(30)
  <2> QED
    BY <1>2, <2>1, <2>2 DEF LifeInv, PlanOK
<1>3. CASE CallCreate \/ CallUpdate \/ CallDelete \/ CallDropFails \/ CallLabel
  <2>1. plan # <<>> /\ plan' = Tail(plan) /\ UNCHANGED <<alb, moved, version, grace>>
    BY <1>3 DEF CallCreate, CallUpdate, CallDelete, CallDropFails, CallLabel, Next1, Made, cluster
  <2> QED
    BY <2>1, CallMade
<1>4. CASE CallAlb
  <2> DEFINE a == Head(plan).alb
  <2>1. plan # <<>> /\ Head(plan).do = "alb" /\ moved = "no"
    BY <1>4 DEF CallAlb, Next1
  <2>2. Tail(plan) = <<>> /\ MayWrite(a)
    <3>1. Writes(Head(plan))
      BY <2>1 DEF Writes
    <3>2. Tail(plan) = <<>> /\ CallOK(Head(plan))
      BY <1>2, <2>1, <3>1
    <3> QED
      BY <2>1, <3>2 DEF CallOK
  <2>3. /\ alb' = IF a.deleting = "yes" /\ a.fin = {} THEN None ELSE a
        /\ plan' = Tail(plan) /\ UNCHANGED <<moved, version, grace>>
    BY <1>4 DEF CallAlb, Made
  <2> HIDE DEF a
  <2>4. a \in Alb /\ (Guarded(a) \/ (a.deleting = "yes" /\ a.fin = {}))
    <3>1. ASSUME a.fin = alb.fin, a.deleting = alb.deleting, Guarded(alb) PROVE Guarded(a)
      BY <3>1 DEF Guarded
    <3>2. ASSUME a.fin = {"op", "inst"}, a.deleting = "no" PROVE Guarded(a)
      BY <3>2, SMTT(30) DEF Guarded
    <3>3. /\ a \in Alb /\ Guarded(alb)
          /\ \/ a.fin = alb.fin /\ a.deleting = alb.deleting
             \/ a.fin = {"op", "inst"} /\ a.deleting = "no"
             \/ a.fin = {} /\ a.deleting = "yes"
      BY <2>2 DEF MayWrite
    <3> QED
      BY <3>1, <3>2, <3>3
  <2>5. AlbOK'
    BY <1>1, <2>3, <2>4 DEF AlbOK, Guarded
  <2> QED
    BY <2>2, <2>3, <2>5, NothingPlanned
<1>5. CASE CallStatus
  <2> DEFINE s == Head(plan).st
  <2>1. plan # <<>> /\ Head(plan).do = "status" /\ moved = "no"
    BY <1>5 DEF CallStatus, Next1
  <2>2. Tail(plan) = <<>> /\ alb # None /\ s \in Status
    <3>1. Writes(Head(plan))
      BY <2>1 DEF Writes
    <3>2. Tail(plan) = <<>> /\ CallOK(Head(plan))
      BY <1>2, <2>1, <3>1
    <3> QED
      BY <2>1, <3>2 DEF CallOK
  <2>3. alb' = [alb EXCEPT !.st = s] /\ plan' = Tail(plan) /\ UNCHANGED <<moved, version, grace>>
    BY <1>5 DEF CallStatus, Made
  <2> HIDE DEF s
  <2>4. alb \in Alb /\ Guarded(alb)
    BY <1>1, <2>2 DEF AlbOK
  <2>5. alb' \in Alb /\ alb'.fin = alb.fin /\ alb'.deleting = alb.deleting
    <3>1. [alb EXCEPT !.st = s] \in Alb
      BY <2>2, <2>4, AlbFields
    <3>2. [alb EXCEPT !.st = s].fin = alb.fin /\ [alb EXCEPT !.st = s].deleting = alb.deleting
      BY <2>4 DEF Alb
    <3> QED
      BY <2>3, <3>1, <3>2
  <2>6. AlbOK'
    BY <1>1, <2>3, <2>4, <2>5 DEF AlbOK, Guarded
  <2> QED
    BY <2>2, <2>3, <2>6, NothingPlanned
<1>6. CASE CallFails
  <2>1. plan' = <<>> /\ UNCHANGED <<alb, moved, version, grace>>
    BY <1>6 DEF CallFails, cluster
  <2>2. AlbOK'
    BY <1>1, <2>1 DEF AlbOK, Guarded
  <2> QED
    BY <2>1, <2>2, NothingPlanned
<1>7. CASE Done
  BY <1>7, NobodyWrites DEF Done, cluster
<1> QED
  BY <1>3, <1>4, <1>5, <1>6, <1>7

LEMMA ClusterParts ==
  ASSUME Cluster
  PROVE  GracePasses \/ TakeLease \/ \E t \in Thing : ClusterReports(t) \/ Collect(t) \/ See(t)
BY DEF Cluster, Thing, Kind, Owned

\* Users, the instance and the cluster.
LEMMA OthersInv ==
  ASSUME LifeInv, User \/ Cluster \/ Upset \/ InstanceCleanup
  PROVE  LifeInv'
<1>1. AlbOK /\ (alb # None => alb \in Alb /\ Guarded(alb))
  BY DEF LifeInv, AlbOK
<1>2. ASSUME NEW a, alb # None, a \in Alb, a.fin = alb.fin, a.deleting = alb.deleting, WriteAlb(a),
             UNCHANGED <<plan, version, grace>>
      PROVE  LifeInv'
  <2>1. Guarded(a)
    BY <1>1, <1>2 DEF Guarded
  <2> QED
    BY <1>2, <2>1, OthersWrite
<1>3. ASSUME NEW c \in Conf, EditConf(c) PROVE LifeInv'
  <2> DEFINE a == [alb EXCEPT !.conf = c]
  <2>1. alb # None /\ WriteAlb(a) /\ UNCHANGED <<plan, version, grace>>
    BY <1>3 DEF EditConf
  <2>2. a \in Alb
    BY <1>1, <2>1, AlbFields
  <2>3. a.fin = alb.fin /\ a.deleting = alb.deleting
    BY <1>1, <2>1 DEF Alb
  <2> HIDE DEF a
  <2> QED
    BY <1>2, <2>1, <2>2, <2>3
<1>4. CASE FlipIgnore
  <2> DEFINE a == [alb EXCEPT !.ignore = IF @ = "no" THEN "yes" ELSE "no"]
  <2>1. alb # None /\ WriteAlb(a) /\ UNCHANGED <<plan, version, grace>>
    BY <1>4 DEF FlipIgnore
  <2>2. a \in Alb
    BY <1>1, <2>1, AlbFields
  <2>3. a.fin = alb.fin /\ a.deleting = alb.deleting
    BY <1>1, <2>1 DEF Alb
  <2> HIDE DEF a
  <2> QED
    BY <1>2, <2>1, <2>2, <2>3
<1>5. CASE DeleteAlb
  <2> DEFINE b == [alb EXCEPT !.deleting = "yes"]
             a == IF alb.fin = {} THEN None ELSE b
  <2>1. alb # None /\ WriteAlb(a) /\ UNCHANGED <<plan, version, grace>> /\ alb.deleting = "no"
    BY <1>5 DEF DeleteAlb
  <2>2. b \in Alb
    BY <1>1, <2>1, AlbFields
  <2>3. b.fin = alb.fin /\ b.deleting = "yes"
    BY <1>1, <2>1 DEF Alb
  <2> HIDE DEF b
  <2>4. ASSUME alb.fin # {} PROVE Guarded(b)
    BY <1>1, <2>1, <2>3, <2>4 DEF Guarded
  <2> QED
    BY <2>1, <2>2, <2>4, OthersWrite
<1>6. ASSUME NEW p \in {"clean", "conflict"}, ReportPorts(p) PROVE LifeInv'
  <2> DEFINE a == [alb EXCEPT !.st.ports = p]
             s == [alb.st EXCEPT !.ports = p]
  <2>1. alb # None /\ WriteAlb(a) /\ UNCHANGED <<plan, version, grace>>
    BY <1>6 DEF ReportPorts
  <2>2. alb.st \in Status
    BY <1>1, <2>1, AlbFields
  <2>3. s \in Status
    BY <2>2 DEF Status
  <2>4. a = [alb EXCEPT !.st = s]
    BY <1>1, <2>1 DEF Alb
  <2>5. a.fin = alb.fin /\ a.deleting = alb.deleting
    BY <1>1, <2>1 DEF Alb
  <2> HIDE DEF a, s
  <2>6. a \in Alb
    BY <1>1, <2>1, <2>3, <2>4, AlbFields
  <2> QED
    BY <1>2, <2>1, <2>5, <2>6
<1>7. CASE InstanceCleanup
  <2> DEFINE b == [alb EXCEPT !.fin = @ \ {"inst"}]
             a == IF alb.fin = {"inst"} THEN None ELSE b
  <2>1. /\ alb # None /\ WriteAlb(a) /\ UNCHANGED <<plan, version, grace>>
        /\ alb.deleting = "yes" /\ "inst" \in alb.fin
    BY <1>7 DEF InstanceCleanup
  <2>2. alb.fin = {"op", "inst"} /\ alb.fin \ {"inst"} = {"op"}
    BY <1>1, <2>1 DEF Guarded
  <2>3. b \in Alb
    BY <1>1, <2>1, <2>2, AlbFields
  <2>4. b.fin = {"op"} /\ b.deleting = "yes"
    BY <1>1, <2>1, <2>2 DEF Alb
  <2> HIDE DEF b
  <2>5. Guarded(b)
    BY <2>4 DEF Guarded
  <2> QED
    BY <2>1, <2>3, <2>5, OthersWrite
<1>8. ASSUME NEW v \in Version, Restart(v) PROVE LifeInv'
  <2>1. plan' = <<>> /\ moved' = "no" /\ version' = v /\ UNCHANGED <<alb, grace>>
    BY <1>8 DEF Restart, cluster
  <2>2. AlbOK'
    BY <1>1, <2>1 DEF AlbOK, Guarded
  <2> QED
    BY <2>1, <2>2, NothingPlanned
<1>9. ASSUME \/ \E d \in OverData : EditOver(d)
             \/ Cluster \/ LoseReplica \/ \E k \in Kind : Drift(k)
      PROVE  LifeInv'
  <2>1. UNCHANGED <<alb, plan, moved, version>> /\ grace' \in {grace, "over"}
    BY <1>9 DEF EditOver, Cluster, GracePasses, TakeLease, ClusterReports, Report, Collect, See,
                LoseReplica, Drift, worker, cluster
  <2> QED
    BY <2>1, NobodyWrites
<1> QED
  BY <1>3, <1>4, <1>5, <1>6, <1>7, <1>8, <1>9 DEF User, Upset

LEMMA LifeInvNext == LifeInv /\ [Next]_vars => LifeInv'
<1> SUFFICES ASSUME LifeInv, [Next]_vars PROVE LifeInv'
  OBVIOUS
<1>1. CASE Ignore
  <2>1. Take(<<>>, "done")
    BY <1>1 DEF Ignore
  <2>2. plan' = <<>> /\ moved' = "no" /\ UNCHANGED <<alb, version, grace>>
    BY <2>1 DEF Take, cluster
  <2>3. AlbOK'
    BY <2>2 DEF LifeInv, AlbOK, Guarded
  <2> QED
    BY <2>2, <2>3, NothingPlanned
<1>2. CASE Worker
  BY <1>1, <1>2, ShortRounds, DestroyRound, UpdateRound, CallInv DEF Worker
<1>3. CASE UNCHANGED vars
  BY <1>3, NobodyWrites DEF vars, cluster, worker
<1> QED
  BY <1>2, <1>3, OthersInv DEF Next

-----------------------------------------------------------------------------
(* The refinement. *)

\* A step that leaves the alb alone, or changes neither its finalizers nor whether it is
\* being deleted, is a stutter of AlbLife.
LEMMA Stutters ==
  ASSUME UNCHANGED grace,
         \/ UNCHANGED alb
         \/ /\ alb # None /\ alb' # None
            /\ alb'.fin = alb.fin /\ alb'.deleting = alb.deleting
  PROVE  UNCHANGED Life!lifeVars
BY DEF Life!lifeVars

\* What the worker writes.
LEMMA WorkerLife ==
  ASSUME LifeInv, CallAlb \/ CallStatus
  PROVE  [Life!LifeNext]_(Life!lifeVars)
<1>1. AlbOK /\ IsPlan(plan) /\ LastWrites(plan)
  BY DEF LifeInv, PlanOK
<1>2. plan # <<>> /\ moved = "no" /\ UNCHANGED grace
  BY DEF CallAlb, CallStatus, Next1
<1>3. CallOK(Head(plan))
  <2>1. Len(plan) \in Nat \ {0} /\ Head(plan) = plan[1]
    BY <1>1, <1>2, TailPlan
  <2>2. 1 \in 1..Len(plan)
    BY <2>1, SMTT(30)
  <2> QED
    BY <2>1, <2>2 DEF LifeInv, PlanOK
<1>4. CASE CallStatus
  <2> DEFINE s == Head(plan).st
  <2>1. Head(plan).do = "status" /\ alb' = [alb EXCEPT !.st = s]
    BY <1>4 DEF CallStatus, Next1
  <2>2. alb # None /\ s \in Status
    BY <1>2, <1>3, <2>1 DEF CallOK
  <2> HIDE DEF s
  <2>3. alb \in Alb
    BY <1>1, <2>2 DEF AlbOK
  <2>4. [alb EXCEPT !.st = s] # None
    BY <2>2, <2>3, AlbFields
  <2>5. [alb EXCEPT !.st = s].fin = alb.fin /\ [alb EXCEPT !.st = s].deleting = alb.deleting
    BY <2>3 DEF Alb
  <2> QED
    BY <1>2, <2>1, <2>2, <2>4, <2>5, Stutters
<1>5. CASE CallAlb
  <2> DEFINE a == Head(plan).alb
  <2>1. /\ Head(plan).do = "alb"
        /\ alb' = IF a.deleting = "yes" /\ a.fin = {} THEN None ELSE a
    BY <1>5 DEF CallAlb, Next1
  <2>2. MayWrite(a)
    BY <1>2, <1>3, <2>1 DEF CallOK
  <2> HIDE DEF a
  <2>3. alb # None /\ a # None /\ Guarded(alb)
    BY <2>2, AlbFields DEF MayWrite
  <2>4. CASE a.fin = alb.fin /\ a.deleting = alb.deleting
    <3>1. alb' = a
      BY <2>1, <2>3, <2>4 DEF Guarded
    <3> QED
      BY <1>2, <2>3, <2>4, <3>1, Stutters
  <2>5. CASE /\ alb.fin = {} /\ alb.deleting = "no"
             /\ a.fin = {"op", "inst"} /\ a.deleting = "no"
    <3>1. alb' = a
      BY <2>1, <2>5
    <3>2. Life!Guard
      BY <1>2, <2>3, <2>5, <3>1 DEF Life!Guard
    <3> QED
      BY <3>2 DEF Life!LifeNext
  <2>6. CASE /\ alb.deleting = "yes" /\ ("inst" \notin alb.fin \/ grace = "over")
             /\ a.fin = {} /\ a.deleting = "yes"
    <3>1. alb' = None
      BY <2>1, <2>6
    <3>2. Life!Free
      BY <1>2, <2>3, <2>6, <3>1 DEF Life!Free
    <3> QED
      BY <3>2 DEF Life!LifeNext
  <2> QED
    BY <2>2, <2>4, <2>5, <2>6 DEF MayWrite
<1> QED
  BY <1>4, <1>5

\* What users, the instance and the clock do.
LEMMA OthersLife ==
  ASSUME LifeInv, User \/ Cluster \/ Upset \/ InstanceCleanup
  PROVE  [Life!LifeNext]_(Life!lifeVars)
<1>1. AlbOK /\ (alb # None => alb \in Alb /\ Guarded(alb))
  BY DEF LifeInv, AlbOK
<1>2. ASSUME NEW c \in Conf, EditConf(c) PROVE UNCHANGED Life!lifeVars
  <2> DEFINE a == [alb EXCEPT !.conf = c]
  <2>1. alb # None /\ alb' = a /\ UNCHANGED grace
    BY <1>2 DEF EditConf, WriteAlb
  <2>2. a # None
    BY <1>1, <2>1, AlbFields
  <2>3. a.fin = alb.fin /\ a.deleting = alb.deleting
    BY <1>1, <2>1 DEF Alb
  <2> HIDE DEF a
  <2> QED
    BY <2>1, <2>2, <2>3, Stutters
<1>3. CASE FlipIgnore
  <2> DEFINE a == [alb EXCEPT !.ignore = IF @ = "no" THEN "yes" ELSE "no"]
  <2>1. alb # None /\ alb' = a /\ UNCHANGED grace
    BY <1>3 DEF FlipIgnore, WriteAlb
  <2>2. a # None
    BY <1>1, <2>1, AlbFields
  <2>3. a.fin = alb.fin /\ a.deleting = alb.deleting
    BY <1>1, <2>1 DEF Alb
  <2> HIDE DEF a
  <2> QED
    BY <2>1, <2>2, <2>3, Stutters
<1>4. CASE DeleteAlb
  <2> DEFINE b == [alb EXCEPT !.deleting = "yes"]
  <2>1. /\ alb # None /\ alb.deleting = "no" /\ alb' = IF alb.fin = {} THEN None ELSE b
        /\ UNCHANGED grace
    BY <1>4 DEF DeleteAlb, WriteAlb
  <2>2. b # None
    BY <1>1, <2>1, AlbFields
  <2>3. b.fin = alb.fin /\ b.deleting = "yes"
    BY <1>1, <2>1 DEF Alb
  <2> HIDE DEF b
  <2>4. alb.fin = {} \/ alb.fin = {"op", "inst"}
    BY <1>1, <2>1 DEF Guarded
  <2>5. Life!Leave
    BY <2>1, <2>2, <2>3, <2>4 DEF Life!Leave
  <2> QED
    BY <2>5 DEF Life!LifeNext
<1>5. ASSUME NEW p \in {"clean", "conflict"}, ReportPorts(p) PROVE UNCHANGED Life!lifeVars
  <2> DEFINE a == [alb EXCEPT !.st.ports = p]
             s == [alb.st EXCEPT !.ports = p]
  <2>1. alb # None /\ alb' = a /\ UNCHANGED grace
    BY <1>5 DEF ReportPorts, WriteAlb
  <2>2. s \in Status
    <3>1. alb.st \in Status
      BY <1>1, <2>1, AlbFields
    <3> QED
      BY <3>1 DEF Status
  <2>3. a = [alb EXCEPT !.st = s]
    BY <1>1, <2>1 DEF Alb
  <2>4. a.fin = alb.fin /\ a.deleting = alb.deleting
    BY <1>1, <2>1 DEF Alb
  <2> HIDE DEF a, s
  <2>5. a # None
    BY <1>1, <2>1, <2>2, <2>3, AlbFields
  <2> QED
    BY <2>1, <2>4, <2>5, Stutters
<1>6. CASE InstanceCleanup
  <2> DEFINE b == [alb EXCEPT !.fin = @ \ {"inst"}]
  <2>1. /\ alb # None /\ alb.deleting = "yes" /\ "inst" \in alb.fin
        /\ alb' = IF alb.fin = {"inst"} THEN None ELSE b
        /\ UNCHANGED grace
    BY <1>6 DEF InstanceCleanup, WriteAlb
  <2>2. alb.fin = {"op", "inst"} /\ alb.fin \ {"inst"} = {"op"}
    BY <1>1, <2>1 DEF Guarded
  <2>3. b # None
    BY <1>1, <2>1, <2>2, AlbFields
  <2>4. b.fin = {"op"} /\ b.deleting = "yes"
    BY <1>1, <2>1, <2>2 DEF Alb
  <2> HIDE DEF b
  <2>5. alb' = b
    BY <2>1, <2>2
  <2>6. Life!InstanceDone
    BY <2>1, <2>3, <2>4, <2>5, SMTT(30) DEF Life!InstanceDone
  <2> QED
    BY <2>6 DEF Life!LifeNext
<1>7. CASE GracePasses
  <2>1. Life!GraceOver
    BY <1>7 DEF GracePasses, Life!GraceOver, cluster
  <2> QED
    BY <2>1 DEF Life!LifeNext
<1>8. ASSUME \/ \E d \in OverData : EditOver(d)
             \/ TakeLease \/ \E t \in Thing : ClusterReports(t) \/ Collect(t) \/ See(t)
             \/ LoseReplica \/ \E k \in Kind : Drift(k)
             \/ \E v \in Version : Restart(v)
      PROVE  UNCHANGED Life!lifeVars
  <2>1. UNCHANGED <<alb, grace>>
    BY <1>8 DEF EditOver, TakeLease, ClusterReports, Report, Collect, See, LoseReplica, Drift,
                Restart, cluster
  <2> QED
    BY <2>1, Stutters
<1> QED
  BY <1>2, <1>3, <1>4, <1>5, <1>6, <1>7, <1>8, ClusterParts DEF User, Upset

LEMMA NextLife == LifeInv /\ [Next]_vars => [Life!LifeNext]_(Life!lifeVars)
<1> SUFFICES ASSUME LifeInv, [Next]_vars PROVE [Life!LifeNext]_(Life!lifeVars)
  OBVIOUS
<1>1. CASE CallAlb \/ CallStatus
  BY <1>1, WorkerLife
<1>2. ASSUME \/ Ignore \/ MigrateBackup \/ AddFinalizers
             \/ \E l \in LbName \cup {None} :
                  BeginDestroy(l) \/ \E name \in LbName : BeginUpdate(l, name)
             \/ CallCreate \/ CallUpdate \/ CallDelete \/ CallDropFails
             \/ CallLabel \/ CallFails \/ Done \/ UNCHANGED vars
      PROVE  UNCHANGED Life!lifeVars
  <2>1. ASSUME NEW calls, NEW then, Take(calls, then) PROVE UNCHANGED <<alb, grace>>
    BY <2>1 DEF Take, cluster
  <2>2. ASSUME \/ Ignore \/ MigrateBackup \/ AddFinalizers
               \/ \E l \in LbName \cup {None} :
                    BeginDestroy(l) \/ \E name \in LbName : BeginUpdate(l, name)
        PROVE  UNCHANGED <<alb, grace>>
    BY <2>1, <2>2 DEF Ignore, MigrateBackup, AddFinalizers, BeginDestroy, BeginUpdate
  <2>3. ASSUME \/ CallCreate \/ CallUpdate \/ CallDelete \/ CallDropFails
               \/ CallLabel \/ CallFails \/ Done \/ UNCHANGED vars
        PROVE  UNCHANGED <<alb, grace>>
    BY <2>3 DEF CallCreate, CallUpdate, CallDelete, CallDropFails, CallLabel, CallFails, Done,
                vars, cluster
  <2> QED
    BY <1>2, <2>2, <2>3, Stutters
<1> QED
  BY <1>1, <1>2, OthersLife DEF Next, Worker

LEMMA InitLife == Init => Life!LifeInit
<1> SUFFICES ASSUME Init PROVE Life!LifeInit
  OBVIOUS
<1>1. alb # None /\ alb.fin = {} /\ alb.deleting = "no" /\ grace = "running"
  BY NewAlb, AlbFields DEF Init
<1> QED
  BY <1>1 DEF Life!LifeInit

\* What the operator does to an alb resource, with its users, its instance and the clock,
\* is what AlbLife allows, for any configurations and versions: a reconcile that has read
\* the alb before others changed it never writes the finalizers it read (handleInitOrDelete,
\* and the optimistic lock of every write).
THEOREM ImplementsAlbLife == Spec => LivesByTheBook
<1>1. Spec => []LifeInv
  BY LifeInvInit, LifeInvNext, PTL DEF Spec
<1> QED
  BY <1>1, InitLife, NextLife, PTL DEF Spec, LivesByTheBook, Life!LifeSpec

-----------------------------------------------------------------------------
(* The rounds of the worker and their plans. *)

\* A round with something to do begins.
Begins ==
  \/ MigrateBackup \/ AddFinalizers
  \/ \E l \in LbName \cup {None} :
       BeginDestroy(l) \/ \E name \in LbName : BeginUpdate(l, name)

\* What the step of a round does to the plan.
LEMMA PlanSteps ==
  ASSUME LifeInv, [Next]_vars
  PROVE  \/ Begins
         \/ plan' = <<>>
         \/ plan' = plan /\ (moved' = "yes" \/ UNCHANGED <<alb, moved>>)
         \/ plan # <<>> /\ plan' = Tail(plan) /\ UNCHANGED <<alb, moved>>
<1>1. CASE Ignore
  BY <1>1 DEF Ignore, Take
<1>2. CASE CallCreate \/ CallUpdate \/ CallDelete \/ CallDropFails \/ CallLabel
  BY <1>2 DEF CallCreate, CallUpdate, CallDelete, CallDropFails, CallLabel, Next1, Made, cluster
<1>3. CASE CallAlb \/ CallStatus
  <2>1. plan # <<>> /\ Writes(Head(plan)) /\ plan' = Tail(plan)
    BY <1>3 DEF CallAlb, CallStatus, Next1, Made, Writes
  <2>2. IsPlan(plan) /\ LastWrites(plan)
    BY DEF LifeInv, PlanOK
  <2> QED
    BY <2>1, <2>2, TailPlan
<1>4. CASE CallFails \/ Done
  BY <1>4 DEF CallFails, Done, cluster
<1>5. CASE User \/ InstanceCleanup
  BY <1>5 DEF User, EditConf, FlipIgnore, DeleteAlb, EditOver, InstanceCleanup, WriteAlb, worker
<1>6. CASE Cluster
  BY <1>6 DEF Cluster, GracePasses, TakeLease, ClusterReports, Report, Collect, See, worker, cluster
<1>7. CASE Upset
  BY <1>7 DEF Upset, ReportPorts, LoseReplica, Report, Drift, Restart, WriteAlb, worker, cluster
<1>8. CASE UNCHANGED vars
  BY <1>8 DEF vars, worker, cluster
<1> QED
  BY <1>1, <1>2, <1>3, <1>4, <1>5, <1>6, <1>7, <1>8 DEF Next, Worker, Begins

\* Taking the key changes nothing but the worker and the queue.
LEMMA TakeKeeps ==
  ASSUME Begins
  PROVE  moved' = "no" /\ UNCHANGED <<alb, obj, over, unseen, version, faults, edits, grace>>
<1>1. ASSUME NEW calls, NEW then, Take(calls, then)
      PROVE  moved' = "no" /\ UNCHANGED <<alb, obj, over, unseen, version, faults, edits, grace>>
  BY <1>1 DEF Take, cluster
<1>2. \E calls, then : Take(calls, then)
  BY DEF Begins, MigrateBackup, AddFinalizers, BeginDestroy, BeginUpdate
<1> QED
  BY <1>1, <1>2

\* A plan of one call.
LEMMA OneCall ==
  ASSUME NEW c
  PROVE  IsPlan(<<c>>) /\ \A i \in 1..Len(<<c>>) : <<c>>[i] = c
<1>1. <<c>> \in Seq({c}) /\ Len(<<c>>) = 1 /\ <<c>>[1] = c
  BY SMTT(30)
<1>2. \A i \in 1..Len(<<c>>) : <<c>>[i] = c
  BY <1>1, SMTT(30)
<1>3. IsPlan(<<c>>)
  BY <1>1 DEF IsPlan
<1> QED
  BY <1>2, <1>3

\* What the worker will write, by the round it belongs to: the alb as it read it, up to the
\* configuration, the finalizers or the labels, or a status.
LEMMA RoundWrites ==
  ASSUME LifeInv, Begins, NEW i \in 1..Len(plan'), Writes(plan'[i])
  PROVE  LET c == plan'[i]
             copy(a) == alb \in Alb /\ a.st = alb.st /\ a.deleting = alb.deleting
         IN \/ /\ MigrateBackup \/ AddFinalizers \/ \E l, name : BeginUpdate(l, name)
               /\ c.do = "alb" /\ copy(c.alb)
               /\ c.alb.fin = alb.fin \/ c.alb.fin = {"op", "inst"}
            \/ /\ \E l \in LbName \cup {None} : BeginDestroy(l)
               /\ c.do = "alb" /\ copy(c.alb)
            \/ /\ \E l, name : BeginUpdate(l, name)
               /\ c.do = "status" /\ alb \in Alb /\ c.st.ports = alb.st.ports
<1> DEFINE copy(a) == alb \in Alb /\ a.st = alb.st /\ a.deleting = alb.deleting
<1>1. ASSUME NEW a, NEW then, Take(<<[do |-> "alb", alb |-> a]>>, then)
      PROVE  plan'[i].do = "alb" /\ plan'[i].alb = a
  <2> DEFINE c == [do |-> "alb", alb |-> a]
  <2>1. c.do = "alb" /\ c.alb = a
    OBVIOUS
  <2>2. plan' = <<c>>
    BY <1>1 DEF Take
  <2> HIDE DEF c
  <2> QED
    BY <2>1, <2>2, OneCall
<1>2. ASSUME NEW s, NEW c, NEW then, Quiet(s), Take(s, then) \/ Take(s \o <<c>>, then)
      PROVE  plan'[i] = c
  <2>1. plan' = s \/ plan' = s \o <<c>>
    BY <1>2 DEF Take
  <2>2. CASE plan' = s
    BY <1>2, <2>2 DEF Quiet
  <2>3. CASE plan' = s \o <<c>>
    BY <1>2, <2>3, QuietThenOne
  <2> QED
    BY <2>1, <2>2, <2>3
<1>3. CASE MigrateBackup
  <2> DEFINE a == [alb EXCEPT !.conf = alb.backup]
  <2>1. alb \in Alb
    BY <1>3 DEF LifeInv, AlbOK, MigrateBackup, Managed
  <2>2. copy(a) /\ a.fin = alb.fin
    BY <2>1 DEF Alb
  <2>3. plan'[i].do = "alb" /\ plan'[i].alb = a
    BY <1>1, <1>3 DEF MigrateBackup
  <2> QED
    BY <1>3, <2>2, <2>3
<1>4. CASE AddFinalizers
  <2> DEFINE a == [alb EXCEPT !.fin = {"op", "inst"}]
  <2>1. alb \in Alb
    BY <1>4 DEF LifeInv, AlbOK, AddFinalizers, Managed
  <2>2. copy(a) /\ a.fin = {"op", "inst"}
    BY <2>1 DEF Alb
  <2>3. plan'[i].do = "alb" /\ plan'[i].alb = a
    BY <1>1, <1>4 DEF AddFinalizers
  <2> QED
    BY <1>4, <2>2, <2>3
<1>5. ASSUME NEW l \in LbName \cup {None}, BeginDestroy(l)
      PROVE  plan'[i].do = "alb" /\ copy(plan'[i].alb)
  <2> DEFINE a == [alb EXCEPT !.fin = {}]
             c == [do |-> "alb", alb |-> a]
  <2>1. alb \in Alb
    BY <1>5 DEF LifeInv, AlbOK, BeginDestroy, Managed
  <2>2. copy(a) /\ c.do = "alb" /\ c.alb = a
    BY <2>1 DEF Alb
  <2>3. Take(DestroyCalls(l) \o <<c>>, "requeue")
    BY <1>5 DEF BeginDestroy
  <2> HIDE DEF a, c
  <2>4. plan'[i] = c
    BY <1>2, <2>3, DestroyQuiet
  <2> QED
    BY <2>2, <2>4
<1>6. ASSUME NEW l, NEW name, BeginUpdate(l, name)
      PROVE  \/ /\ plan'[i].do = "alb" /\ copy(plan'[i].alb) /\ plan'[i].alb.fin = alb.fin
             \/ /\ plan'[i].do = "status" /\ alb \in Alb /\ plan'[i].st.ports = alb.st.ports
  <2> DEFINE a == [alb EXCEPT !.label = AlbLabelOf[alb.conf]]
             st == ExpectStatus(alb, Svc(l))
  <2>1. PICK s, c, then :
          /\ Quiet(s) /\ (Take(s, then) \/ Take(s \o <<c>>, then))
          /\ c = [do |-> "alb", alb |-> a] \/ c = [do |-> "status", st |-> st]
    BY <1>6, UpdatePlan
  <2>2. /\ a.fin = alb.fin /\ a.deleting = alb.deleting /\ a.st = alb.st
        /\ st.ports = alb.st.ports
    BY <1>6, UpdateWrites
  <2>3. alb \in Alb
    BY <1>6 DEF LifeInv, AlbOK, BeginUpdate, Managed
  <2> HIDE DEF a, st
  <2>4. plan'[i] = c
    BY <1>2, <2>1
  <2> QED
    BY <2>1, <2>2, <2>3, <2>4, SMTT(30)
<1> QED
  BY <1>3, <1>4, <1>5, <1>6 DEF Begins

-----------------------------------------------------------------------------
(* The port report. *)

\* As long as nobody else has written the alb, what is to be written has its port report.
KeepsPorts(c) ==
  moved = "no" => /\ c.do = "alb" => c.alb.st.ports = alb.st.ports
                  /\ c.do = "status" => c.st.ports = alb.st.ports

PortsInv == \A i \in 1..Len(plan) : KeepsPorts(plan[i])

LEMMA PortsInit == Init => PortsInv
<1>1. Len(<<>>) = 0
  OBVIOUS
<1> QED
  BY <1>1, SMTT(30) DEF Init, PortsInv

LEMMA PortsStep == LifeInv /\ PortsInv /\ [Next]_vars => PortsInv'
<1> SUFFICES ASSUME LifeInv, PortsInv, [Next]_vars, NEW i \in 1..Len(plan')
             PROVE  KeepsPorts(plan[i])'
  BY DEF PortsInv
<1>1. CASE Begins
  <2>1. CASE ~Writes(plan'[i])
    BY <2>1 DEF Writes, KeepsPorts
  <2>2. CASE Writes(plan'[i])
    <3>1. \/ plan'[i].do = "alb" /\ plan'[i].alb.st = alb.st
          \/ plan'[i].do = "status" /\ plan'[i].st.ports = alb.st.ports
      BY <1>1, <2>2, RoundWrites
    <3>2. alb' = alb
      BY <1>1, TakeKeeps
    <3> QED
      BY <3>1, <3>2 DEF KeepsPorts
  <2> QED
    BY <2>1, <2>2
<1>2. CASE plan' = <<>>
  <2>1. Len(<<>>) = 0
    OBVIOUS
  <2> QED
    BY <1>2, <2>1, SMTT(30)
<1>3. CASE plan' = plan /\ (moved' = "yes" \/ UNCHANGED <<alb, moved>>)
  BY <1>3 DEF PortsInv, KeepsPorts
<1>4. CASE plan # <<>> /\ plan' = Tail(plan) /\ UNCHANGED <<alb, moved>>
  <2>1. IsPlan(plan) /\ LastWrites(plan)
    BY DEF LifeInv, PlanOK
  <2>2. i + 1 \in 1..Len(plan) /\ plan'[i] = plan[i + 1]
    BY <1>4, <2>1, TailPlan, SMTT(30)
  <2>3. KeepsPorts(plan[i + 1])
    BY <2>2 DEF PortsInv
  <2> QED
    BY <1>4, <2>2, <2>3 DEF KeepsPorts
<1> QED
  BY <1>1, <1>2, <1>3, <1>4, PlanSteps

\* The first call of a plan, in the words of the invariants.
LEMMA HeadCall ==
  ASSUME LifeInv, plan # <<>>
  PROVE  1 \in 1..Len(plan) /\ Head(plan) = plan[1] /\ CallOK(Head(plan))
<1>1. IsPlan(plan) /\ LastWrites(plan)
  BY DEF LifeInv, PlanOK
<1>2. 1 \in 1..Len(plan) /\ Head(plan) = plan[1]
  BY <1>1, TailPlan, SMTT(30)
<1> QED
  BY <1>2 DEF LifeInv, PlanOK

\* PortReportKept: a reconcile that works from an older copy of the alb never writes the
\* port conflicts it read there over what the instance has reported since (GenExpectStatus
\* copies them, and the API server refuses the copy).
THEOREM PortReportsKept == Spec => PortReportKept
<1> DEFINE Keeps == alb # None /\ alb' # None /\ alb'.st.ports # alb.st.ports
                      => \E p \in {"clean", "conflict"} : ReportPorts(p)
           Inv == LifeInv /\ PortsInv
<1>1. ASSUME LifeInv, PortsInv, Next, alb # None, alb' # None,
             ~\E p \in {"clean", "conflict"} : ReportPorts(p)
      PROVE  alb'.st.ports = alb.st.ports
  <2>1. alb \in Alb
    BY <1>1 DEF LifeInv, AlbOK
  <2>2. CASE UNCHANGED alb
    BY <2>2
  <2>3. ASSUME NEW c \in Conf, EditConf(c) PROVE alb'.st = alb.st
    BY <2>1, <2>3 DEF EditConf, WriteAlb, Alb
  <2>4. ASSUME FlipIgnore PROVE alb'.st = alb.st
    BY <2>1, <2>4 DEF FlipIgnore, WriteAlb, Alb
  <2>5. ASSUME DeleteAlb PROVE alb'.st = alb.st
    BY <1>1, <2>1, <2>5 DEF DeleteAlb, WriteAlb, Alb
  <2>6. ASSUME InstanceCleanup PROVE alb'.st = alb.st
    BY <1>1, <2>1, <2>6 DEF InstanceCleanup, WriteAlb, Alb
  <2>7. CASE CallAlb
    <3>1. plan # <<>> /\ Head(plan).do = "alb" /\ moved = "no" /\ alb' = Head(plan).alb
      BY <1>1, <2>7 DEF CallAlb, Next1
    <3>2. KeepsPorts(Head(plan))
      BY <1>1, <3>1, HeadCall DEF PortsInv
    <3> QED
      BY <3>1, <3>2 DEF KeepsPorts
  <2>8. CASE CallStatus
    <3>1. plan # <<>> /\ Head(plan).do = "status" /\ moved = "no"
          /\ alb' = [alb EXCEPT !.st = Head(plan).st]
      BY <2>8 DEF CallStatus, Next1
    <3>2. KeepsPorts(Head(plan))
      BY <1>1, <3>1, HeadCall DEF PortsInv
    <3>3. alb'.st = Head(plan).st
      BY <2>1, <3>1 DEF Alb
    <3> QED
      BY <3>1, <3>2, <3>3 DEF KeepsPorts
  <2>9. CASE Worker
    <3>1. CASE Ignore \/ CallCreate \/ CallUpdate \/ CallDelete \/ CallDropFails \/ CallLabel
               \/ CallFails \/ Done
      BY <2>2, <3>1 DEF Ignore, Take, CallCreate, CallUpdate, CallDelete, CallDropFails, CallLabel,
                        CallFails, Done, cluster
    <3> QED
      BY <2>2, <2>7, <2>8, <2>9, <3>1, TakeKeeps DEF Worker, Begins
  <2>10. CASE Cluster
    <3>1. UNCHANGED alb
      BY <2>10 DEF Cluster, GracePasses, TakeLease, ClusterReports, Report, Collect, See,
                          cluster
    <3> QED
      BY <2>2, <3>1
  <2>11. CASE \E d \in OverData : EditOver(d)
    BY <2>2, <2>11 DEF EditOver
  <2>12. CASE Upset
    <3>1. UNCHANGED alb
      BY <1>1, <2>12 DEF Upset, LoseReplica, Report, Drift, Restart, cluster
    <3> QED
      BY <2>2, <3>1
  <2> QED
    BY <1>1, <2>3, <2>4, <2>5, <2>6, <2>9, <2>10, <2>11, <2>12 DEF Next, User
<1>2. Inv /\ [Next]_vars => [Keeps]_vars
  BY <1>1
<1>3. Init => Inv
  BY LifeInvInit, PortsInit
<1>4. Inv /\ [Next]_vars => Inv'
  BY LifeInvNext, PortsStep
<1> QED
  BY <1>2, <1>3, <1>4, PTL DEF Spec, PortReportKept

-----------------------------------------------------------------------------
(* Types. *)

ObjOK == obj \in [Thing -> Obj \cup {None}] /\ over \in Over \cup {None} /\ unseen \subseteq Thing

\* The calls that concern an object of the alb.
ObjCall ==
  [do : {"create", "update", "delete", "drop"}, what : Thing, from : Obj \cup {None}, new : Obj]

\* The configmap of the user is labelled only if there is one.
Callable == IF over = None THEN {c \in Call : c.do # "label"} ELSE Call

CallsOK == plan \in Seq(Callable)

CountersOK ==
  /\ queued \in {"yes", "no"} /\ phase \in {"idle", "run"} /\ after \in {"requeue", "done"}
  /\ edits \in 0..MaxEdit /\ faults \in 0..MaxFault

TypeInv == ObjOK /\ CallsOK /\ CountersOK

LEMMA PlainTyped ==
  ASSUME version \in Version
  PROVE  /\ Plain \in Obj
         /\ \A c \in Conf : [Plain EXCEPT !.conf = c] \in Obj
         /\ \A a \in Address : [Plain EXCEPT !.addr = a] \in Obj
         /\ \A c \in Conf, o \in OverData \cup {"base"} :
              [Plain EXCEPT !.conf = c, !.over = o] \in Obj
         /\ \A c \in Conf, n \in SUBSET Annotation : [Plain EXCEPT !.conf = c, !.ann = n] \in Obj
<1>1. Plain \in Obj
  BY DEF Plain, Obj, Address
<1> QED
  BY <1>1 DEF Obj

LEMMA CallTyped ==
  ASSUME NEW do \in {"create", "update", "delete", "drop"}, NEW t \in Thing,
         NEW from \in Obj \cup {None}, NEW new \in Obj
  PROVE  [do |-> do, what |-> t, from |-> from, new |-> new] \in ObjCall
BY DEF ObjCall

LEMMA CallFields ==
  /\ \A c \in ObjCall : /\ c.do \in {"create", "update", "delete", "drop"} /\ c.what \in Thing
                        /\ c.from \in Obj \cup {None} /\ c.new \in Obj
  /\ \A c \in Call : c.do \in {"create", "update", "delete", "drop"} => c \in ObjCall
  /\ ObjCall \subseteq Callable
<1>1. \A c \in ObjCall : /\ c.do \in {"create", "update", "delete", "drop"} /\ c.what \in Thing
                         /\ c.from \in Obj \cup {None} /\ c.new \in Obj
  BY DEF ObjCall
<1>2. Call = ObjCall \cup [do : {"alb"}, alb : Alb] \cup [do : {"status"}, st : Status]
                     \cup [do : {"label"}]
  BY DEF Call, ObjCall
<1>3. \A c \in Call : c.do \in {"create", "update", "delete", "drop"} => c \in ObjCall
  BY <1>2
<1>4. ObjCall \subseteq Callable
  BY <1>1, <1>2 DEF Callable
<1> QED
  BY <1>1, <1>3, <1>4

LEMMA ShortTyped ==
  ASSUME NEW S
  PROVE  <<>> \in Seq(S) /\ \A c \in S : <<c>> \in Seq(S)
BY SMTT(30)

LEMMA ConcatTyped ==
  ASSUME NEW S, NEW s \in Seq(S), NEW t \in Seq(S)
  PROVE  s \o t \in Seq(S)
BY SMTT(30)

LEMMA WiderTyped ==
  ASSUME NEW S, NEW T, S \subseteq T, NEW s \in Seq(S)
  PROVE  s \in Seq(T)
BY SMTT(30)

\* One call, or none.
LEMMA MigrateTyped ==
  ASSUME ObjOK, NEW t \in Thing, NEW wanted, NEW differs, NEW new \in Obj
  PROVE  Migrate(t, wanted, differs, new) \in Seq(ObjCall)
<1> DEFINE call(do) == [do |-> do, what |-> t, from |-> Cur(t), new |-> new]
<1>1. Cur(t) \in Obj \cup {None}
  BY DEF ObjOK, Cur
<1>2. call("delete") \in ObjCall /\ call("create") \in ObjCall /\ call("update") \in ObjCall
  BY <1>1, CallTyped
<1>3. \/ Migrate(t, wanted, differs, new) = <<call("delete")>>
      \/ Migrate(t, wanted, differs, new) = <<call("create")>>
      \/ Migrate(t, wanted, differs, new) = <<call("update")>>
      \/ Migrate(t, wanted, differs, new) = <<>>
  BY DEF Migrate
<1> HIDE DEF call
<1> QED
  BY <1>2, <1>3, ShortTyped

LEMMA Things ==
  /\ Kind \subseteq Thing /\ LbName \subseteq Thing
  /\ {"role", "bind", "sa", "deploy", "common", "portinfo", "monitor", "feature", "ingressclass",
      "gatewayclass", "lease"} = Kind
BY DEF Thing, Kind, Rbac

\* The annotations of a load balancer service are those of configurations and the cloud's.
LEMMA AnnotationsTyped ==
  ASSUME NEW c \in Conf, NEW o \in Obj, NEW a, a.conf = c
  PROVE  AnnotationOf(c) \subseteq Annotation /\ LbAnnotations(o, a) \subseteq Annotation
<1>1. AnnotationOf(c) \subseteq Annotation
  BY DEF Annotation
<1>2. o.ann \subseteq Annotation
  BY DEF Obj
<1> QED
  BY <1>1, <1>2 DEF LbAnnotations, PatchLbAnnotations

LEMMA UpdateTyped ==
  ASSUME ObjOK, version \in Version, NEW a \in Alb, a.conf \in Conf, NEW l \in LbName,
         UsesOver(a.conf) => over # None
  PROVE  UpdateCalls(a, l) \in Seq(ObjCall)
<1>0. <<>> \in Seq(ObjCall) /\ l \in Thing /\ a.st.addr \in Address
  <2>1. a.st \in Status
    BY AlbFields
  <2>2. a.st.addr \in Address
    BY <2>1 DEF Status
  <2>3. l \in Thing
    BY Things
  <2>4. <<>> \in Seq(ObjCall)
    BY SMTT(30)
  <2> QED
    BY <2>2, <2>3, <2>4
<1>1. \A t \in Rbac : MigrateRbac(t) \in Seq(ObjCall)
  BY MigrateTyped, PlainTyped, Things DEF MigrateRbac, Rbac
<1>2. MigrateDeploy(a) \in Seq(ObjCall) /\ MigratePortInfo(a) \in Seq(ObjCall)
  BY MigrateTyped, PlainTyped, Things DEF MigrateDeploy, MigratePortInfo
<1>3. MigrateMonitor(a) \in Seq(ObjCall) /\ MigrateIngressClass(a) \in Seq(ObjCall)
  BY MigrateTyped, PlainTyped, Things DEF MigrateMonitor, MigrateIngressClass
<1>4. MigrateGatewayClass(a) \in Seq(ObjCall) /\ MigrateFeature(a) \in Seq(ObjCall)
  BY <1>0, MigrateTyped, PlainTyped, Things DEF MigrateGatewayClass, MigrateFeature
<1>5. MigrateCommon(a) \in Seq(ObjCall)
  <2>1. Snippets(a.conf) \in OverData \cup {"base"}
    BY DEF Snippets, ObjOK, Over
  <2>2. [Plain EXCEPT !.conf = a.conf, !.over = Snippets(a.conf)] \in Obj
    BY <2>1, PlainTyped
  <2> QED
    BY <2>2, MigrateTyped, Things DEF MigrateCommon
<1>6. MigrateLb(l, a) \in Seq(ObjCall)
  <2> DEFINE ann == IF Cur(l) = None THEN AnnotationOf(a.conf) ELSE LbAnnotations(Cur(l), a)
  <2>1. Cur(l) \in Obj \cup {None}
    BY <1>0 DEF ObjOK, Cur
  <2>2. AnnotationOf(a.conf) \subseteq Annotation
    BY DEF Annotation
  <2>3. ann \in SUBSET Annotation
    BY <2>1, <2>2, AnnotationsTyped
  <2>4. MigrateLb(l, a) = Migrate(l, LbWanted(a.conf), LbDiffers(Cur(l), a),
                                  [Plain EXCEPT !.conf = a.conf, !.ann = ann])
    BY DEF MigrateLb
  <2> HIDE DEF ann
  <2>5. [Plain EXCEPT !.conf = a.conf, !.ann = ann] \in Obj
    BY <2>3, PlainTyped
  <2> QED
    BY <1>0, <2>4, <2>5, MigrateTyped
<1>7. "role" \in Rbac /\ "bind" \in Rbac /\ "sa" \in Rbac
  BY DEF Rbac
<1> QED
  BY <1>1, <1>2, <1>3, <1>4, <1>5, <1>6, <1>7, ConcatTyped DEF UpdateCalls

LEMMA DropTyped ==
  ASSUME version \in Version, NEW t \in Thing
  PROVE  Drop(t) \in Seq({c \in ObjCall : c.do = "drop"})
<1> DEFINE S == {c \in ObjCall : c.do = "drop"}
           c == [do |-> "drop", what |-> t, from |-> None, new |-> Plain]
<1>1. c \in ObjCall /\ c.do = "drop"
  BY CallTyped, PlainTyped
<1>2. c \in S
  BY <1>1
<1>3. Drop(t) = <<>> \/ Drop(t) = <<c>>
  BY DEF Drop
<1> HIDE DEF c, S
<1>4. Drop(t) \in Seq(S)
  BY <1>2, <1>3, ShortTyped
<1> QED
  BY <1>4 DEF S

LEMMA DestroyTyped ==
  ASSUME version \in Version, NEW l \in LbName \cup {None}
  PROVE  DestroyCalls(l) \in Seq({c \in ObjCall : c.do = "drop"})
<1> DEFINE S == {c \in ObjCall : c.do = "drop"}
<1>1. \A t \in Thing : Drop(t) \in Seq(S)
  BY DropTyped
<1> HIDE DEF S
<1>2. (IF l = None THEN <<>> ELSE Drop(l)) \in Seq(S)
  BY <1>1, ShortTyped, Things
<1>3. \A k \in Kind : Drop(k) \in Seq(S)
  BY <1>1, Things
<1>4. DestroyCalls(l) \in Seq(S)
  BY <1>2, <1>3, Things, ConcatTyped DEF DestroyCalls
<1> QED
  BY <1>4 DEF S

LEMMA OtherCallsTyped ==
  /\ \A a \in Alb : [do |-> "alb", alb |-> a] \in Callable
  /\ \A st \in Status : [do |-> "status", st |-> st] \in Callable
  /\ over # None => [do |-> "label"] \in Callable
<1>1. ASSUME NEW a \in Alb PROVE [do |-> "alb", alb |-> a] \in Callable
  BY DEF Callable, Call
<1>2. ASSUME NEW st \in Status PROVE [do |-> "status", st |-> st] \in Callable
  BY DEF Callable, Call
<1>3. over # None => [do |-> "label"] \in Callable
  BY DEF Callable, Call
<1> QED
  BY <1>1, <1>2, <1>3

\* What a round plans can be called.
LEMMA RoundTyped ==
  ASSUME LifeInv, TypeInv, Begins
  PROVE  plan' \in Seq(Callable) /\ phase' = "run" /\ queued' = "no" /\ after' \in {"requeue", "done"}
<1>0. ObjOK /\ version \in Version /\ (alb # None => alb \in Alb)
  BY DEF TypeInv, LifeInv, AlbOK
<1>1. ASSUME NEW calls \in Seq(Callable), NEW then \in {"requeue", "done"}, Take(calls, then)
      PROVE  /\ plan' \in Seq(Callable) /\ phase' = "run" /\ queued' = "no"
             /\ after' \in {"requeue", "done"}
  BY <1>1 DEF Take
<1>2. \A a \in Alb : <<[do |-> "alb", alb |-> a]>> \in Seq(Callable)
  BY OtherCallsTyped, ShortTyped
<1>3. CASE MigrateBackup
  <2> DEFINE a == [alb EXCEPT !.conf = alb.backup]
  <2>1. Take(<<[do |-> "alb", alb |-> a]>>, "requeue") /\ alb \in Alb
    BY <1>0, <1>3 DEF MigrateBackup, Managed
  <2>2. alb.backup \in Conf \cup {None}
    BY <2>1 DEF Alb
  <2>3. a \in Alb
    BY <2>1, <2>2, AlbFields
  <2> HIDE DEF a
  <2> QED
    BY <1>1, <1>2, <2>1, <2>3
<1>4. CASE AddFinalizers
  <2> DEFINE a == [alb EXCEPT !.fin = {"op", "inst"}]
  <2>1. Take(<<[do |-> "alb", alb |-> a]>>, "requeue") /\ alb \in Alb
    BY <1>0, <1>4 DEF AddFinalizers, Managed
  <2>2. a \in Alb
    BY <2>1, AlbFields
  <2> HIDE DEF a
  <2> QED
    BY <1>1, <1>2, <2>1, <2>2
<1>5. ASSUME NEW l \in LbName \cup {None}, BeginDestroy(l)
      PROVE  /\ plan' \in Seq(Callable) /\ phase' = "run" /\ queued' = "no"
             /\ after' \in {"requeue", "done"}
  <2> DEFINE a == [alb EXCEPT !.fin = {}]
             last == <<[do |-> "alb", alb |-> a]>>
  <2>1. Take(DestroyCalls(l) \o last, "requeue") /\ alb \in Alb
    BY <1>0, <1>5 DEF BeginDestroy, Managed
  <2>2. a \in Alb
    BY <2>1, AlbFields
  <2>3. last \in Seq(Callable)
    BY <1>2, <2>2
  <2>4. {c \in ObjCall : c.do = "drop"} \subseteq Callable
    BY CallFields
  <2>5. DestroyCalls(l) \in Seq(Callable)
    BY <1>0, <2>4, DestroyTyped, WiderTyped
  <2> HIDE DEF last
  <2>6. DestroyCalls(l) \o last \in Seq(Callable)
    BY <2>3, <2>5, ConcatTyped
  <2> QED
    BY <1>1, <2>1, <2>6
<1>6. ASSUME NEW l \in LbName \cup {None}, NEW name \in LbName, BeginUpdate(l, name)
      PROVE  /\ plan' \in Seq(Callable) /\ phase' = "run" /\ queued' = "no"
             /\ after' \in {"requeue", "done"}
  <2> DEFINE first == LabelOver(alb.conf)
             calls == UpdateCalls(alb, name)
             report == StatusCall(alb, Svc(l))
             same == alb.label = AlbLabelOf[alb.conf]
             a == [alb EXCEPT !.label = AlbLabelOf[alb.conf]]
             then == IF same /\ ExpectStatus(alb, Svc(l)) = alb.st /\ Ready(alb.st)
                     THEN "done" ELSE "requeue"
             write == <<[do |-> "alb", alb |-> a]>>
  <2>1. Take(first \o IF same THEN calls \o report ELSE write, then)
    BY <1>6 DEF BeginUpdate
  <2>2. alb \in Alb /\ alb.conf \in Conf /\ (UsesOver(alb.conf) => over # None)
    <3>1. alb \in Alb /\ alb.conf # None /\ (UsesOver(alb.conf) => over # None)
      BY <1>0, <1>6 DEF BeginUpdate, Managed
    <3> QED
      BY <3>1 DEF Alb
  <2>3. calls \in Seq(Callable)
    <3>1. calls \in Seq(ObjCall)
      BY <1>0, <2>2, UpdateTyped
    <3> QED
      BY <3>1, CallFields, WiderTyped
  <2>4. report \in Seq(Callable)
    <3>1. ExpectStatus(alb, Svc(l)) \in Status
      BY <1>6, UpdateWrites
    <3>2. [do |-> "status", st |-> ExpectStatus(alb, Svc(l))] \in Callable
      BY <3>1, OtherCallsTyped
    <3> QED
      BY <3>2, ShortTyped DEF StatusCall
  <2>5. write \in Seq(Callable)
    BY <1>2, <1>6, UpdateWrites
  <2>6. first \in Seq(Callable)
    BY OtherCallsTyped, ShortTyped DEF LabelOver
  <2>7. then \in {"requeue", "done"}
    OBVIOUS
  <2> HIDE DEF first, calls, report, write, then
  <2>8. (IF same THEN calls \o report ELSE write) \in Seq(Callable)
    BY <2>3, <2>4, <2>5, ConcatTyped
  <2>9. (first \o IF same THEN calls \o report ELSE write) \in Seq(Callable)
    BY <2>6, <2>8, ConcatTyped
  <2> QED
    BY <1>1, <2>1, <2>7, <2>9
<1> QED
  BY <1>3, <1>4, <1>5, <1>6 DEF Begins

LEMMA HeadTyped ==
  ASSUME CallsOK, plan # <<>>
  PROVE  Head(plan) \in Callable /\ Head(plan) \in Call /\ Tail(plan) \in Seq(Callable)
<1>1. Head(plan) \in Callable /\ Tail(plan) \in Seq(Callable)
  BY RestOfPlan DEF CallsOK
<1> QED
  BY <1>1 DEF Callable

\* The plan of a step that leaves the user's configmap alone.
LEMMA PlanTyped ==
  ASSUME CallsOK, over' = over, plan' = plan \/ plan' = <<>> \/ (plan # <<>> /\ plan' = Tail(plan))
  PROVE  CallsOK'
<1>1. Callable' = Callable
  BY DEF Callable
<1>2. plan' \in Seq(Callable)
  BY HeadTyped, ShortTyped DEF CallsOK
<1> QED
  BY <1>1, <1>2 DEF CallsOK

\* What the calls that concern an object do.
LEMMA CallEffect ==
  ASSUME TypeInv, CallCreate \/ CallUpdate \/ CallDelete
  PROVE  LET c == Head(plan)
         IN /\ plan # <<>> /\ plan' = Tail(plan) /\ c \in ObjCall
            /\ UNCHANGED <<alb, over, moved, version, phase, after, edits, grace>>
            /\ \/ /\ CallCreate /\ c.do = "create" /\ obj[c.what] = None
                  /\ obj' = [obj EXCEPT ![c.what] = c.new]
                  /\ unseen' = unseen \/ (c.what \in Lagging /\ unseen' = unseen \cup {c.what})
               \/ /\ CallUpdate /\ c.do = "update" /\ obj[c.what] \in Obj
                  /\ c.what \in LbName => obj[c.what] = c.from
                  /\ obj' = [obj EXCEPT ![c.what] = [c.new EXCEPT !.got = obj[c.what].got]]
                  /\ unseen' = unseen
               \/ /\ CallDelete /\ c.do \in {"delete", "drop"}
                  /\ obj' = [obj EXCEPT ![c.what] = None] /\ unseen' = unseen
<1> DEFINE c == Head(plan)
<1>1. /\ plan # <<>> /\ plan' = Tail(plan)
      /\ UNCHANGED <<alb, over, moved, version, phase, after, edits, grace>>
  BY DEF CallCreate, CallUpdate, CallDelete, Next1, Made
<1>2. c.do \in {"create", "update", "delete", "drop"}
  BY DEF CallCreate, CallUpdate, CallDelete, Next1
<1>3. c \in ObjCall
  BY <1>1, <1>2, HeadTyped, CallFields DEF TypeInv
<1>4. CASE CallCreate
  <2>1. c.do = "create" /\ ~Refused(c) /\ obj' = [obj EXCEPT ![c.what] = c.new]
    BY <1>4 DEF CallCreate, Next1
  <2>2. obj[c.what] = None
    BY <2>1 DEF Refused
  <2>3. unseen' = unseen \/ (c.what \in Lagging /\ unseen' = unseen \cup {c.what})
    BY <1>4 DEF CallCreate
  <2> QED
    BY <1>1, <1>3, <1>4, <2>1, <2>2, <2>3
<1>5. CASE CallUpdate
  <2>1. /\ c.do = "update" /\ ~Refused(c) /\ unseen' = unseen
        /\ obj' = [obj EXCEPT ![c.what] = [c.new EXCEPT !.got = obj[c.what].got]]
    BY <1>5 DEF CallUpdate, Next1
  <2>2. obj[c.what] # None /\ (c.what \in LbName => obj[c.what] = c.from)
    BY <2>1 DEF Refused
  <2>3. obj[c.what] \in Obj
    BY <1>3, <2>2, CallFields DEF TypeInv, ObjOK
  <2> QED
    BY <1>1, <1>3, <1>5, <2>1, <2>2, <2>3
<1>6. CASE CallDelete
  <2>1. /\ c.do \in {"delete", "drop"} /\ obj' = [obj EXCEPT ![c.what] = None]
        /\ unseen' = unseen
    BY <1>6 DEF CallDelete, Next1
  <2> QED
    BY <1>1, <1>3, <1>6, <2>1
<1> QED
  BY <1>4, <1>5, <1>6

\* What the cluster reports of an object.
LEMMA ReportEffect ==
  ASSUME ObjOK, NEW t \in Thing, obj[t] # None, NEW got \in {"yes", "no"}, Report(t, got)
  PROVE  /\ obj[t] \in Obj /\ obj' \in [Thing -> Obj \cup {None}] /\ obj'[t] \in Obj
         /\ obj'[t].got = got /\ obj'[t].conf = obj[t].conf
         /\ obj'[t].ann = IF t \in LbName THEN obj[t].ann \cup {Cloud} ELSE obj[t].ann
         /\ \A u \in Thing \ {t} : obj'[u] = obj[u]
<1> DEFINE ann == IF t \in LbName THEN obj[t].ann \cup {Cloud} ELSE obj[t].ann
           o == [obj[t] EXCEPT !.got = got, !.ann = ann]
<1>1. obj[t] \in Obj
  BY DEF ObjOK
<1>2. obj' = [obj EXCEPT ![t] = o]
  <2>1. obj' = [obj EXCEPT ![t].got = got, ![t].ann = IF t \in LbName THEN @ \cup {Cloud} ELSE @]
    BY DEF Report
  <2>2. [obj[t] EXCEPT !.got = got].ann = obj[t].ann
    BY <1>1 DEF Obj
  <2> QED
    BY <2>1, <2>2 DEF ObjOK
<1>3. ann \in SUBSET Annotation
  BY <1>1 DEF Obj, Annotation
<1>4. o \in Obj /\ o.got = got /\ o.conf = obj[t].conf /\ o.ann = ann
  <2> HIDE DEF ann
  <2> QED
    BY <1>1, <1>3 DEF Obj
<1> HIDE DEF o
<1> QED
  BY <1>1, <1>2, <1>4 DEF ObjOK

LEMMA CountersTyped ==
  ASSUME CountersOK
  PROVE  /\ UserEdit => edits' \in 0..MaxEdit
         /\ \A k : Fault(k) => faults' \in 0..MaxFault
         /\ \A t, o : QueueAfter(t, o) \in {"yes", "no"}
<1>1. MaxEdit \in Nat /\ MaxFault \in Nat
  BY OperatorConstants DEF OperatorConstants
<1> QED
  BY <1>1, SMTT(30) DEF CountersOK, UserEdit, Fault, QueueAfter

LEMMA TypeInit == Init => TypeInv
<1> SUFFICES ASSUME Init PROVE TypeInv
  OBVIOUS
<1>1. ObjOK
  BY DEF Init, ObjOK, Over
<1>2. CallsOK
  BY ShortTyped DEF Init, CallsOK
<1>3. CountersOK
  BY OperatorConstants, SMTT(30) DEF Init, CountersOK, OperatorConstants
<1> QED
  BY <1>1, <1>2, <1>3 DEF TypeInv

\* The worker.
LEMMA WorkerTyped ==
  ASSUME LifeInv, TypeInv, Worker
  PROVE  TypeInv'
<1>0. ObjOK /\ CallsOK /\ CountersOK
  BY DEF TypeInv
<1>1. CASE Begins
  <2>1. /\ plan' \in Seq(Callable) /\ phase' = "run" /\ queued' = "no"
        /\ after' \in {"requeue", "done"}
    BY <1>1, RoundTyped
  <2>2. UNCHANGED <<obj, over, unseen, faults, edits>>
    BY <1>1, TakeKeeps
  <2>3. ObjOK' /\ CountersOK'
    BY <1>0, <2>1, <2>2 DEF ObjOK, CountersOK
  <2>4. CallsOK'
    BY <2>1, <2>2 DEF CallsOK, Callable
  <2> QED
    BY <2>3, <2>4 DEF TypeInv
<1>2. CASE Ignore
  <2>1. /\ plan' = <<>> /\ phase' = "run" /\ queued' = "no" /\ after' = "done"
        /\ UNCHANGED <<obj, over, unseen, faults, edits>>
    BY <1>2 DEF Ignore, Take, cluster
  <2>2. ObjOK' /\ CountersOK'
    BY <1>0, <2>1 DEF ObjOK, CountersOK
  <2> QED
    BY <1>0, <2>1, <2>2, PlanTyped DEF TypeInv
<1>3. CASE CallCreate \/ CallUpdate \/ CallDelete
  <2> DEFINE c == Head(plan)
  <2>1. /\ plan # <<>> /\ plan' = Tail(plan) /\ c \in ObjCall
        /\ UNCHANGED <<over, phase, after, edits>>
    BY <1>3, CallEffect
  <2>2. c.what \in Thing /\ c.new \in Obj
    BY <2>1, CallFields
  <2>3. /\ obj' \in [Thing -> Obj \cup {None}] /\ unseen' \subseteq Thing
    <3>1. ASSUME obj' = [obj EXCEPT ![c.what] = c.new] \/ obj' = [obj EXCEPT ![c.what] = None]
          PROVE  obj' \in [Thing -> Obj \cup {None}]
      BY <1>0, <2>2, <3>1 DEF ObjOK
    <3>2. ASSUME obj[c.what] \in Obj,
                 obj' = [obj EXCEPT ![c.what] = [c.new EXCEPT !.got = obj[c.what].got]]
          PROVE  obj' \in [Thing -> Obj \cup {None}]
      <4>1. obj[c.what].got \in {"yes", "no"}
        BY <3>2 DEF Obj
      <4>2. [c.new EXCEPT !.got = obj[c.what].got] \in Obj
        BY <2>2, <4>1 DEF Obj
      <4> QED
        BY <1>0, <2>2, <3>2, <4>2 DEF ObjOK
    <3>3. unseen' = unseen \/ unseen' = unseen \cup {c.what}
      BY <1>3, CallEffect
    <3>4. \/ obj' = [obj EXCEPT ![c.what] = c.new]
          \/ /\ obj[c.what] \in Obj
             /\ obj' = [obj EXCEPT ![c.what] = [c.new EXCEPT !.got = obj[c.what].got]]
          \/ obj' = [obj EXCEPT ![c.what] = None]
      BY <1>3, CallEffect
    <3> QED
      BY <1>0, <2>2, <3>1, <3>2, <3>3, <3>4 DEF ObjOK
  <2>4. queued' \in {"yes", "no"} /\ faults' \in 0..MaxFault
    <3>1. CASE CallCreate
      BY <1>0, <3>1, CountersTyped DEF CallCreate, CountersOK
    <3>2. CASE CallUpdate
      BY <1>0, <3>2, CountersTyped DEF CallUpdate, CountersOK
    <3>3. CASE CallDelete
      BY <1>0, <3>3, CountersTyped DEF CallDelete, CountersOK
    <3> QED
      BY <1>3, <3>1, <3>2, <3>3
  <2>5. ObjOK' /\ CountersOK'
    BY <1>0, <2>1, <2>3, <2>4 DEF ObjOK, CountersOK
  <2> QED
    BY <1>0, <2>1, <2>5, PlanTyped DEF TypeInv
<1>4. CASE CallDropFails
  <2>1. /\ plan # <<>> /\ plan' = Tail(plan) /\ (UNCHANGED faults \/ Fault("dropFail"))
        /\ UNCHANGED <<obj, over, unseen, queued, phase, after, edits>>
    BY <1>4 DEF CallDropFails, Next1, Made, cluster
  <2>2. ObjOK' /\ CountersOK'
    BY <1>0, <2>1, CountersTyped DEF ObjOK, CountersOK
  <2> QED
    BY <1>0, <2>1, <2>2, PlanTyped DEF TypeInv
<1>5. CASE CallAlb \/ CallStatus
  <2>1. /\ plan # <<>> /\ plan' = Tail(plan) /\ (queued' = queued \/ queued' = "yes")
        /\ UNCHANGED <<obj, over, unseen, phase, after, edits, faults>>
    BY <1>5 DEF CallAlb, CallStatus, Next1, Made
  <2>2. ObjOK' /\ CountersOK'
    BY <1>0, <2>1 DEF ObjOK, CountersOK
  <2> QED
    BY <1>0, <2>1, <2>2, PlanTyped DEF TypeInv
<1>6. CASE CallLabel
  <2>1. /\ plan # <<>> /\ plan' = Tail(plan) /\ Head(plan).do = "label"
        /\ over' = [over EXCEPT !.label = "yes"]
        /\ UNCHANGED <<obj, unseen, queued, phase, after, edits, faults>>
    BY <1>6 DEF CallLabel, Next1, Made
  <2>2. Head(plan) \in Callable /\ Tail(plan) \in Seq(Callable)
    BY <1>0, <2>1, HeadTyped
  <2>3. over # None /\ over \in Over
    BY <1>0, <2>1, <2>2 DEF Callable, ObjOK
  <2>4. over' \in Over
    BY <2>1, <2>3 DEF Over
  <2>5. ObjOK' /\ CountersOK'
    BY <1>0, <2>1, <2>4 DEF ObjOK, CountersOK
  <2>6. CallsOK'
    <3>1. Callable = Call /\ Callable' \subseteq Call
      BY <2>3 DEF Callable
    <3>2. Callable' = Call
      <4>1. None \notin Over
        BY OperatorConstants DEF OperatorConstants
      <4> QED
        BY <2>4, <4>1 DEF Callable
    <3> QED
      BY <2>1, <2>2, <3>1, <3>2 DEF CallsOK
  <2> QED
    BY <2>5, <2>6 DEF TypeInv
<1>7. CASE CallFails \/ Done
  <2>1. /\ plan' = <<>> \/ plan' = plan
        /\ UNCHANGED <<obj, over, unseen, edits>>
    BY <1>7 DEF CallFails, Done, cluster
  <2>2. CountersOK'
    BY <1>0, <1>7, CountersTyped DEF CallFails, Done, CountersOK
  <2>3. ObjOK'
    BY <1>0, <2>1 DEF ObjOK
  <2> QED
    BY <1>0, <2>1, <2>2, <2>3, PlanTyped DEF TypeInv
<1> QED
  BY <1>1, <1>2, <1>3, <1>4, <1>5, <1>6, <1>7 DEF Worker, Begins

\* Users, the instance and the cluster.
LEMMA OthersTyped ==
  ASSUME LifeInv, TypeInv, User \/ Cluster \/ Upset \/ InstanceCleanup
  PROVE  TypeInv'
<1>0. ObjOK /\ CallsOK /\ CountersOK /\ version \in Version
  BY DEF TypeInv, LifeInv, AlbOK
<1> DEFINE Kept == UNCHANGED <<plan, phase, after, over>>
<1>1. ASSUME Kept, ObjOK', queued' \in {"yes", "no"}, edits' \in 0..MaxEdit, faults' \in 0..MaxFault
      PROVE  TypeInv'
  <2>1. CallsOK'
    BY <1>0, <1>1, PlanTyped
  <2> QED
    BY <1>0, <1>1, <2>1 DEF TypeInv, CountersOK
<1>2. edits \in 0..MaxEdit /\ faults \in 0..MaxFault /\ queued \in {"yes", "no"}
  BY <1>0 DEF CountersOK
<1>3. ASSUME UNCHANGED <<obj, over, unseen>> PROVE ObjOK'
  BY <1>0, <1>3 DEF ObjOK
<1>4. ASSUME NEW c \in Conf, EditConf(c) PROVE TypeInv'
  <2>1. Kept /\ UNCHANGED <<obj, unseen, faults>> /\ UserEdit /\ queued' = "yes"
    BY <1>4 DEF EditConf, WriteAlb
  <2> QED
    BY <1>0, <1>1, <1>2, <1>3, <2>1, CountersTyped
<1>5. CASE FlipIgnore \/ DeleteAlb
  <2>1. Kept /\ UNCHANGED <<obj, unseen, faults>> /\ UserEdit /\ queued' = "yes"
    BY <1>5 DEF FlipIgnore, DeleteAlb, WriteAlb
  <2> QED
    BY <1>0, <1>1, <1>2, <1>3, <2>1, CountersTyped
<1>6. ASSUME NEW d \in OverData, EditOver(d) PROVE TypeInv'
  <2>1. /\ UNCHANGED <<obj, unseen, plan, phase, after, faults>> /\ UserEdit
        /\ over' = IF over = None THEN [data |-> d, label |-> "no"] ELSE [over EXCEPT !.data = d]
        /\ queued' \in {queued, "yes"}
    BY <1>6 DEF EditOver, worker
  <2>2. over' \in Over
    BY <1>0, <2>1 DEF ObjOK, Over
  <2>3. ObjOK'
    BY <1>0, <2>1, <2>2 DEF ObjOK
  <2>4. CountersOK'
    BY <1>0, <2>1, CountersTyped DEF CountersOK
  <2>5. CallsOK'
    <3>1. Callable' = Call
      BY <2>2, OperatorConstants DEF Callable, OperatorConstants
    <3>2. Callable \subseteq Call
      BY DEF Callable
    <3> QED
      BY <1>0, <2>1, <3>1, <3>2, WiderTyped DEF CallsOK
  <2> QED
    BY <2>3, <2>4, <2>5 DEF TypeInv
<1>7. ASSUME NEW p \in {"clean", "conflict"}, ReportPorts(p) PROVE TypeInv'
  <2>1. Kept /\ UNCHANGED <<obj, unseen, edits>> /\ Fault("unready") /\ queued' = "yes"
    BY <1>7 DEF ReportPorts, WriteAlb
  <2> QED
    BY <1>0, <1>1, <1>2, <1>3, <2>1, CountersTyped
<1>8. CASE InstanceCleanup \/ GracePasses
  <2>1. /\ Kept /\ UNCHANGED <<obj, unseen, edits, faults>> /\ queued' \in {queued, "yes"}
    BY <1>8 DEF InstanceCleanup, GracePasses, WriteAlb, worker, cluster
  <2> QED
    BY <1>1, <1>2, <1>3, <2>1
<1>9. ASSUME NEW t \in Thing, obj[t] # None, NEW got \in {"yes", "no"}, Report(t, got),
             faults' \in 0..MaxFault
      PROVE  TypeInv'
  <2>1. Kept /\ UNCHANGED <<unseen, edits>> /\ queued' = QueueAfter(t, obj[t])
    BY <1>9 DEF Report, worker
  <2>2. ObjOK'
    BY <1>0, <1>9, <2>1, ReportEffect DEF ObjOK
  <2> QED
    BY <1>0, <1>1, <1>2, <1>9, <2>1, <2>2, CountersTyped
<1>10. ASSUME NEW t \in Thing, ClusterReports(t) PROVE TypeInv'
  <2>1. obj[t] # None /\ Report(t, "yes") /\ UNCHANGED faults
    BY <1>10 DEF ClusterReports
  <2> QED
    BY <1>2, <1>9, <2>1
<1>11. CASE LoseReplica
  <2>1. obj["deploy"] # None /\ Report("deploy", "no") /\ Fault("unready")
    BY <1>11 DEF LoseReplica
  <2>2. "deploy" \in Thing
    BY Things
  <2> QED
    BY <1>0, <1>9, <2>1, <2>2, CountersTyped
<1>12. CASE TakeLease
  <2>1. /\ Kept /\ UNCHANGED <<unseen, edits, faults, queued>>
        /\ obj' = [obj EXCEPT !["lease"] = Plain]
    BY <1>12 DEF TakeLease, worker
  <2>2. ObjOK'
    BY <1>0, <2>1, Things, PlainTyped DEF ObjOK
  <2> QED
    BY <1>1, <1>2, <2>1, <2>2
<1>13. ASSUME NEW t \in Thing, Drift(t) \/ Collect(t) PROVE TypeInv'
  <2>1. /\ Kept /\ UNCHANGED <<edits>> /\ unseen' = unseen \ {t}
        /\ obj' = [obj EXCEPT ![t] = None] /\ queued' \in {queued, QueueAfter(t, obj[t])}
    BY <1>13 DEF Drift, Collect, worker
  <2>2. Fault("drift") \/ UNCHANGED faults
    BY <1>13 DEF Drift, Collect
  <2>3. ObjOK'
    BY <1>0, <2>1 DEF ObjOK
  <2> QED
    BY <1>0, <1>1, <1>2, <2>1, <2>2, <2>3, CountersTyped
<1>14. ASSUME NEW t \in Thing, See(t) PROVE TypeInv'
  <2>1. Kept /\ UNCHANGED <<obj, edits, faults, queued>> /\ unseen' = unseen \ {t}
    BY <1>14 DEF See, worker, cluster
  <2>2. ObjOK'
    BY <1>0, <2>1 DEF ObjOK
  <2> QED
    BY <1>1, <1>2, <2>1, <2>2
<1>15. ASSUME NEW v \in Version, Restart(v) PROVE TypeInv'
  <2>1. /\ UNCHANGED <<obj, over, edits>> /\ unseen' = {} /\ plan' = <<>> /\ phase' = "idle"
        /\ after' = "done" /\ queued' = "yes" /\ (Fault("crash") \/ Fault("upgrade"))
    BY <1>15 DEF Restart, cluster
  <2>2. ObjOK' /\ CountersOK'
    BY <1>0, <2>1, CountersTyped DEF ObjOK, CountersOK
  <2> QED
    BY <1>0, <2>1, <2>2, PlanTyped DEF TypeInv
<1> QED
  BY <1>4, <1>5, <1>6, <1>7, <1>8, <1>10, <1>11, <1>12, <1>13, <1>14, <1>15, Things, ClusterParts
    DEF User, Upset

LEMMA TypeStep == LifeInv /\ TypeInv /\ [Next]_vars => TypeInv'
<1> SUFFICES ASSUME LifeInv, TypeInv, [Next]_vars PROVE TypeInv'
  OBVIOUS
<1>1. CASE UNCHANGED vars
  <2>1. UNCHANGED <<obj, over, unseen, plan, queued, phase, after, edits, faults>>
    BY <1>1 DEF vars, cluster, worker
  <2>2. ObjOK' /\ CountersOK'
    BY <2>1 DEF TypeInv, ObjOK, CountersOK
  <2> QED
    BY <2>1, <2>2, PlanTyped DEF TypeInv
<1> QED
  BY <1>1, WorkerTyped, OthersTyped DEF Next

\* TypeOK: in particular every call the worker plans is one it can make when its turn
\* comes; the label of the user's configmap is put on a configmap.
THEOREM TypeCorrect == Spec => []TypeOK
<1> DEFINE Inv == LifeInv /\ TypeInv
<1>1. Init => Inv
  BY LifeInvInit, TypeInit
<1>2. Inv /\ [Next]_vars => Inv'
  BY LifeInvNext, TypeStep
<1>3. ASSUME LifeInv, TypeInv PROVE TypeOK
  <2>1. plan \in Seq(Call)
    <3>1. Callable \subseteq Call
      BY DEF Callable
    <3> QED
      BY <1>3, <3>1, WiderTyped DEF TypeInv, CallsOK
  <2> QED
    BY <1>3, <2>1 DEF TypeOK, TypeInv, ObjOK, CountersOK, LifeInv, AlbOK
<1>4. Inv => TypeOK
  BY <1>3
<1> QED
  BY <1>1, <1>2, <1>4, PTL DEF Spec

-----------------------------------------------------------------------------
(* What is left when the alb is gone. *)

\* The objects that only the operator deletes.
Left == Thing \ Owned

Creates(s) == \E i \in 1..Len(s) : s[i].do = "create"
FreesAlb(s) == \E i \in 1..Len(s) : /\ s[i].do = "alb"
                                    /\ s[i].alb.fin = {} /\ s[i].alb.deleting = "yes"
DropsOf(s) == {s[i].what : i \in {j \in 1..Len(s) : s[j].do = "drop"}}

\* The cache lags behind only on objects of the alb; nothing was made for an alb without
\* finalizers; nothing is left of one that is gone; and while its own write can still be
\* made, a round of Destroy makes nothing and will have dropped all there is.
LeftInv ==
  /\ unseen \cap Left = {}
  /\ alb # None /\ alb.fin = {} => (\A t \in Thing : obj[t] = None) /\ ~Creates(plan)
  /\ alb = None => (\A t \in Left : obj[t] = None) /\ ~Creates(plan)
  /\ moved = "no" /\ FreesAlb(plan) =>
       ~Creates(plan) /\ \A t \in Left : obj[t] = None \/ t \in DropsOf(plan)

LEMMA LeftThings ==
  ASSUME NEW t \in Left
  PROVE  /\ t \in Thing /\ t \notin LbName /\ t # "deploy" /\ t \notin Owned
         /\ t \in {"role", "bind", "sa", "feature", "ingressclass", "gatewayclass", "lease"}
BY Things DEF Left, Owned, Thing

LEMMA EmptyPlan == ~Creates(<<>>) /\ ~FreesAlb(<<>>)
<1>1. Len(<<>>) = 0
  OBVIOUS
<1> QED
  BY <1>1, SMTT(30) DEF Creates, FreesAlb

LEMMA TailFacts ==
  ASSUME NEW s, IsPlan(s), LastWrites(s), s # <<>>
  PROVE  /\ Creates(Tail(s)) => Creates(s)
         /\ FreesAlb(Tail(s)) => FreesAlb(s)
         /\ \A x \in DropsOf(s) : x \in DropsOf(Tail(s)) \/ (Head(s).do = "drop" /\ x = Head(s).what)
<1>1. /\ Len(s) \in Nat \ {0} /\ Len(Tail(s)) = Len(s) - 1 /\ Head(s) = s[1]
      /\ \A i \in 1..Len(Tail(s)) : Tail(s)[i] = s[i + 1]
  BY TailPlan
<1>2. \A i \in 1..Len(Tail(s)) : i + 1 \in 1..Len(s) /\ Tail(s)[i] = s[i + 1]
  BY <1>1, SMTT(30)
<1>3. ASSUME NEW x \in DropsOf(s)
      PROVE  x \in DropsOf(Tail(s)) \/ (Head(s).do = "drop" /\ x = Head(s).what)
  <2>1. PICK i \in 1..Len(s) : s[i].do = "drop" /\ x = s[i].what
    BY DEF DropsOf
  <2>2. CASE i = 1
    BY <1>1, <2>1, <2>2
  <2>3. CASE i # 1
    <3>1. i - 1 \in 1..Len(Tail(s)) /\ Tail(s)[i - 1] = s[i]
      <4>1. i - 1 \in 1..Len(Tail(s)) /\ (i - 1) + 1 = i
        BY <1>1, <2>3, SMTT(30)
      <4> QED
        BY <1>1, <4>1
    <3> QED
      BY <2>1, <3>1 DEF DropsOf
  <2> QED
    BY <2>2, <2>3
<1> QED
  BY <1>2, <1>3 DEF Creates, FreesAlb

LEMMA DropsConcat ==
  ASSUME NEW S, NEW s \in Seq(S), NEW t \in Seq(S)
  PROVE  DropsOf(s \o t) = DropsOf(s) \cup DropsOf(t)
<1>1. /\ Len(s \o t) = Len(s) + Len(t) /\ Len(s) \in Nat /\ Len(t) \in Nat
      /\ \A i \in 1..Len(s) + Len(t) : (s \o t)[i] = IF i <= Len(s) THEN s[i] ELSE t[i - Len(s)]
  BY SMTT(30)
<1>2. ASSUME NEW x \in DropsOf(s \o t) PROVE x \in DropsOf(s) \cup DropsOf(t)
  <2>1. PICK i \in 1..Len(s \o t) : (s \o t)[i].do = "drop" /\ x = (s \o t)[i].what
    BY DEF DropsOf
  <2>2. CASE i <= Len(s)
    <3>1. i \in 1..Len(s) /\ (s \o t)[i] = s[i]
      BY <1>1, <2>2, SMTT(30)
    <3> QED
      BY <2>1, <3>1 DEF DropsOf
  <2>3. CASE ~(i <= Len(s))
    <3>1. i - Len(s) \in 1..Len(t) /\ (s \o t)[i] = t[i - Len(s)]
      BY <1>1, <2>3, SMTT(30)
    <3> QED
      BY <2>1, <3>1 DEF DropsOf
  <2> QED
    BY <2>2, <2>3
<1>3. ASSUME NEW x \in DropsOf(s) PROVE x \in DropsOf(s \o t)
  <2>1. PICK i \in 1..Len(s) : s[i].do = "drop" /\ x = s[i].what
    BY DEF DropsOf
  <2>2. i \in 1..Len(s \o t) /\ (s \o t)[i] = s[i]
    BY <1>1, SMTT(30)
  <2> QED
    BY <2>1, <2>2 DEF DropsOf
<1>4. ASSUME NEW x \in DropsOf(t) PROVE x \in DropsOf(s \o t)
  <2>1. PICK i \in 1..Len(t) : t[i].do = "drop" /\ x = t[i].what
    BY DEF DropsOf
  <2>2. i + Len(s) \in 1..Len(s \o t) /\ (s \o t)[i + Len(s)] = t[i]
    <3>1. i + Len(s) \in 1..Len(s) + Len(t) /\ ~(i + Len(s) <= Len(s)) /\ (i + Len(s)) - Len(s) = i
      BY <1>1, SMTT(30)
    <3> QED
      BY <1>1, <3>1
  <2> QED
    BY <2>1, <2>2 DEF DropsOf
<1> QED
  BY <1>2, <1>3, <1>4

\* Destroy drops everything that is the operator's to delete and that the cache holds.
LEMMA DestroyDrops ==
  ASSUME version \in Version, NEW l \in LbName \cup {None}, NEW t \in Left, Cur(t) # None
  PROVE  t \in DropsOf(DestroyCalls(l))
<1> DEFINE S == {c \in ObjCall : c.do = "drop"}
           found == IF l = None THEN <<>> ELSE Drop(l)
<1>1. \A k \in Kind : Drop(k) \in Seq(S)
  BY DropTyped, Things
<1>2. found \in Seq(S)
  BY DropTyped, ShortTyped, Things
<1>3. t \in DropsOf(Drop(t))
  <2> DEFINE c == [do |-> "drop", what |-> t, from |-> None, new |-> Plain]
  <2>1. Drop(t) = <<c>> /\ c.do = "drop" /\ c.what = t
    BY DEF Drop
  <2> HIDE DEF c
  <2>2. 1 \in 1..Len(<<c>>) /\ <<c>>[1] = c
    BY SMTT(30)
  <2> QED
    BY <2>1, <2>2 DEF DropsOf
<1> DEFINE s1 == Drop("common") \o Drop("portinfo") \o Drop("deploy")
           s2 == s1 \o Drop("gatewayclass")
           s3 == s2 \o Drop("ingressclass")
           s4 == s3 \o Drop("feature")
           s0 == s4 \o Drop("monitor")
           s5 == s0 \o found
           s6 == s5 \o Drop("role")
           s7 == s6 \o Drop("bind")
           s8 == s7 \o Drop("sa")
           s9 == s8 \o Drop("lease")
<1>4. DestroyCalls(l) = s9
  BY DEF DestroyCalls
<1> HIDE DEF S, found
<1>5. s1 \in Seq(S)
  BY <1>1, Things, ConcatTyped
<1> HIDE DEF s1
<1>6. s2 \in Seq(S) /\ DropsOf(s2) = DropsOf(s1) \cup DropsOf(Drop("gatewayclass"))
  BY <1>1, <1>5, Things, ConcatTyped, DropsConcat, SMTT(30)
<1> HIDE DEF s2
<1>7. s3 \in Seq(S) /\ DropsOf(s3) = DropsOf(s2) \cup DropsOf(Drop("ingressclass"))
  BY <1>1, <1>6, Things, ConcatTyped, DropsConcat, SMTT(30)
<1> HIDE DEF s3
<1>8. s4 \in Seq(S) /\ DropsOf(s4) = DropsOf(s3) \cup DropsOf(Drop("feature"))
  BY <1>1, <1>7, Things, ConcatTyped, DropsConcat, SMTT(30)
<1> HIDE DEF s4
<1>9. s5 \in Seq(S) /\ DropsOf(s4) \subseteq DropsOf(s5)
  <2>1. s0 \in Seq(S) /\ DropsOf(s0) = DropsOf(s4) \cup DropsOf(Drop("monitor"))
    BY <1>1, <1>8, Things, ConcatTyped, DropsConcat, SMTT(30)
  <2> HIDE DEF s0
  <2>2. s5 \in Seq(S) /\ DropsOf(s5) = DropsOf(s0) \cup DropsOf(found)
    BY <1>2, <2>1, ConcatTyped, DropsConcat, SMTT(30)
  <2> HIDE DEF s5
  <2> QED
    BY <2>1, <2>2
<1> HIDE DEF s5
<1>10. s6 \in Seq(S) /\ DropsOf(s6) = DropsOf(s5) \cup DropsOf(Drop("role"))
  BY <1>1, <1>9, Things, ConcatTyped, DropsConcat, SMTT(30)
<1> HIDE DEF s6
<1>11. s7 \in Seq(S) /\ DropsOf(s7) = DropsOf(s6) \cup DropsOf(Drop("bind"))
  BY <1>1, <1>10, Things, ConcatTyped, DropsConcat, SMTT(30)
<1> HIDE DEF s7
<1>12. s8 \in Seq(S) /\ DropsOf(s8) = DropsOf(s7) \cup DropsOf(Drop("sa"))
  BY <1>1, <1>11, Things, ConcatTyped, DropsConcat, SMTT(30)
<1> HIDE DEF s8
<1>13. DropsOf(s9) = DropsOf(s8) \cup DropsOf(Drop("lease"))
  BY <1>1, <1>12, Things, ConcatTyped, DropsConcat, SMTT(30)
<1> HIDE DEF s9
<1> QED
  BY <1>3, <1>4, <1>6, <1>7, <1>8, <1>9, <1>10, <1>11, <1>12, <1>13, LeftThings

\* Deletes of Destroy fail, and the cache lags behind, only for objects that the garbage
\* collector deletes as well.
Dependable == Stubborn \cup Lagging \subseteq Owned

LEMMA LeftInit == Init => LeftInv
<1> SUFFICES ASSUME Init PROVE LeftInv
  OBVIOUS
<1>1. \A t \in Thing : obj[t] = None
  BY DEF Init
<1>2. \A t \in Left : obj[t] = None
  BY <1>1 DEF Left
<1> QED
  BY <1>1, <1>2, EmptyPlan DEF Init, LeftInv

\* A round that begins.
LEMMA LeftBegins ==
  ASSUME LifeInv, TypeInv, LeftInv, Begins
  PROVE  LeftInv'
<1>0. moved' = "no" /\ UNCHANGED <<alb, obj, unseen>>
  BY TakeKeeps
<1>1. alb # None /\ alb \in Alb /\ Guarded(alb) /\ version \in Version
  <2>1. alb # None
    BY DEF Begins, MigrateBackup, AddFinalizers, BeginDestroy, BeginUpdate, Managed
  <2> QED
    BY <2>1 DEF LifeInv, AlbOK
<1>2. ASSUME MigrateBackup \/ AddFinalizers PROVE ~Creates(plan')
  <2>1. PICK a : plan' = <<[do |-> "alb", alb |-> a]>>
    BY <1>2 DEF MigrateBackup, AddFinalizers, Take
  <2> DEFINE c == [do |-> "alb", alb |-> a]
  <2>2. c.do = "alb" /\ plan' = <<c>>
    BY <2>1
  <2> HIDE DEF c
  <2> QED
    BY <2>2, OneCall DEF Creates
<1>3. ASSUME alb.fin = {} PROVE (\A t \in Thing : obj[t] = None) /\ ~Creates(plan')
  <2>1. "op" \notin alb.fin
    BY <1>3
  <2>2. MigrateBackup \/ AddFinalizers
    BY <2>1 DEF Begins, BeginDestroy, BeginUpdate
  <2> QED
    BY <1>1, <1>2, <1>3, <2>2 DEF LeftInv
<1>4. ASSUME FreesAlb(plan')
      PROVE  ~Creates(plan') /\ \A t \in Left : obj[t] = None \/ t \in DropsOf(plan')
  <2>1. PICK i \in 1..Len(plan') : /\ plan'[i].do = "alb"
                                   /\ plan'[i].alb.fin = {} /\ plan'[i].alb.deleting = "yes"
    BY <1>4 DEF FreesAlb
  <2>2. Writes(plan'[i])
    BY <2>1 DEF Writes
  <2>3. PICK l \in LbName \cup {None} : BeginDestroy(l)
    <3>1. \/ \E l \in LbName \cup {None} : BeginDestroy(l)
          \/ /\ plan'[i].alb.deleting = alb.deleting
             /\ plan'[i].alb.fin = alb.fin \/ plan'[i].alb.fin = {"op", "inst"}
      BY <2>1, <2>2, RoundWrites
    <3>2. alb.deleting = "yes" => alb.fin # {}
      BY <1>1 DEF Guarded
    <3> QED
      BY <2>1, <3>1, <3>2
  <2> DEFINE d == [do |-> "alb", alb |-> [alb EXCEPT !.fin = {}]]
             S == {c \in ObjCall : c.do = "drop"}
             T == S \cup {d}
  <2>4. plan' = DestroyCalls(l) \o <<d>>
    BY <2>3 DEF BeginDestroy, Take
  <2>5. d.do = "alb"
    OBVIOUS
  <2> HIDE DEF d
  <2>6. DestroyCalls(l) \in Seq(S)
    BY <1>1, DestroyTyped
  <2>7. DestroyCalls(l) \in Seq(T) /\ <<d>> \in Seq(T)
    <3>1. S \subseteq T /\ d \in T
      OBVIOUS
    <3> HIDE DEF S, T
    <3> QED
      BY <2>6, <3>1, WiderTyped, ShortTyped
  <2>8. \A c \in T : c.do # "create"
    BY <2>5
  <2> HIDE DEF S, T
  <2>9. plan' \in Seq(T)
    BY <2>4, <2>7, ConcatTyped
  <2>10. ~Creates(plan')
    <3>1. \A j \in 1..Len(plan') : plan'[j] \in T
      BY <2>9, SMTT(30)
    <3> QED
      BY <2>8, <3>1 DEF Creates
  <2>11. DropsOf(DestroyCalls(l)) \subseteq DropsOf(plan')
    <3> DEFINE calls == DestroyCalls(l)
               last == <<d>>
    <3>1. calls \in Seq(T) /\ last \in Seq(T) /\ plan' = calls \o last
      BY <2>4, <2>7
    <3> HIDE DEF calls, last
    <3>2. DropsOf(calls \o last) = DropsOf(calls) \cup DropsOf(last)
      BY <3>1, DropsConcat, SMTT(30)
    <3>3. DropsOf(calls) \subseteq DropsOf(plan')
      BY <3>1, <3>2
    <3> QED
      BY <3>3 DEF calls
  <2>12. ASSUME NEW t \in Left, obj[t] # None PROVE t \in DropsOf(plan')
    <3>1. Cur(t) # None
      BY <2>12 DEF Cur, LeftInv
    <3> QED
      BY <1>1, <2>11, <3>1, DestroyDrops
  <2> QED
    BY <2>10, <2>12
<1>5. (unseen \cap Left = {})'
  BY <1>0 DEF LeftInv, Left, Thing, Owned
<1> QED
  BY <1>0, <1>1, <1>3, <1>4, <1>5 DEF LeftInv

\* The next call of the round is made, or fails for good.
LEMMA LeftCalls ==
  ASSUME Dependable, LifeInv, TypeInv, LeftInv,
         \/ CallCreate \/ CallUpdate \/ CallDelete \/ CallDropFails \/ CallLabel
  PROVE  LeftInv'
<1> DEFINE c == Head(plan)
<1>1. plan # <<>> /\ plan' = Tail(plan) /\ UNCHANGED <<alb, moved>>
  BY DEF CallCreate, CallUpdate, CallDelete, CallDropFails, CallLabel, Next1, Made, cluster
<1>2. /\ Creates(plan') => Creates(plan)
      /\ FreesAlb(plan') => FreesAlb(plan)
      /\ \A x \in DropsOf(plan) : x \in DropsOf(plan') \/ (c.do = "drop" /\ x = c.what)
  BY <1>1, TailFacts DEF LifeInv, PlanOK
<1>3. c.do = "create" => Creates(plan)
  BY <1>1, HeadCall DEF Creates
<1>4. obj \in [Thing -> Obj \cup {None}] /\ None \notin Obj
  BY OperatorConstants DEF TypeInv, ObjOK, OperatorConstants
<1>5. ASSUME NEW t \in Thing, obj[t] = None, ~Creates(plan) PROVE obj'[t] = None
  <2>1. CASE CallCreate \/ CallUpdate \/ CallDelete
    <3>1. c \in ObjCall /\ c.what \in Thing
      BY <2>1, CallEffect, CallFields
    <3>2. \/ obj' = [obj EXCEPT ![c.what] = None]
          \/ /\ obj[c.what] \in Obj
             /\ obj' = [obj EXCEPT ![c.what] = [c.new EXCEPT !.got = obj[c.what].got]]
      BY <1>3, <1>5, <2>1, CallEffect
    <3> QED
      BY <1>4, <1>5, <3>1, <3>2
  <2>2. CASE CallDropFails \/ CallLabel
    BY <1>5, <2>2 DEF CallDropFails, CallLabel, cluster
  <2> QED
    BY <2>1, <2>2
<1>6. ASSUME NEW t \in Left, t \in DropsOf(plan), ~Creates(plan)
      PROVE  obj'[t] = None \/ t \in DropsOf(plan')
  <2>1. CASE t \in DropsOf(plan')
    BY <2>1
  <2>2. CASE c.do = "drop" /\ t = c.what
    <3>1. CASE CallDelete
      <4>1. obj' = [obj EXCEPT ![c.what] = None]
        BY <3>1 DEF CallDelete
      <4> QED
        BY <1>4, <2>2, <4>1, LeftThings
    <3>2. CASE CallDropFails
      <4>1. (obj[t] = None \/ t \in Stubborn) /\ obj' = obj
        BY <2>2, <3>2 DEF CallDropFails, cluster
      <4> QED
        BY <4>1, LeftThings DEF Dependable
    <3>3. ~CallCreate /\ ~CallUpdate /\ ~CallLabel
      BY <2>2 DEF CallCreate, CallUpdate, CallLabel, Next1
    <3> QED
      BY <3>1, <3>2, <3>3
  <2> QED
    BY <1>2, <1>6, <2>1, <2>2
<1>7. (unseen \cap Left = {})'
  <2>1. unseen' = unseen \/ \E x \in Lagging : unseen' = unseen \cup {x}
    <3>1. CASE CallCreate \/ CallUpdate \/ CallDelete
      BY <3>1, CallEffect
    <3>2. CASE CallDropFails \/ CallLabel
      BY <3>2 DEF CallDropFails, CallLabel
    <3> QED
      BY <3>1, <3>2
  <2>2. unseen' \cap Left = {}
    BY <2>1, LeftThings DEF LeftInv, Dependable
  <2> QED
    BY <2>2 DEF Left, Thing, Owned
<1>8. \A t \in Left : t \in Thing
  BY LeftThings
<1> QED
  BY <1>1, <1>2, <1>5, <1>6, <1>7, <1>8 DEF LeftInv

\* The alb itself is written.
LEMMA LeftWrites ==
  ASSUME LifeInv, TypeInv, LeftInv, CallAlb \/ CallStatus
  PROVE  LeftInv'
<1> DEFINE c == Head(plan)
<1>1. plan # <<>> /\ plan' = Tail(plan) /\ moved = "no" /\ UNCHANGED <<obj, unseen, moved>>
  BY DEF CallAlb, CallStatus, Next1, Made
<1>2. Writes(c) /\ CallOK(c) /\ c = plan[1] /\ 1 \in 1..Len(plan)
  BY <1>1, HeadCall DEF CallAlb, CallStatus, Next1, Writes
<1>3. Tail(plan) = <<>> /\ LastWrites(plan) /\ IsPlan(plan)
  BY <1>1, <1>2, TailPlan DEF LifeInv, PlanOK
<1>4. (unseen \cap Left = {})' /\ ~Creates(plan') /\ ~FreesAlb(plan')
  BY <1>1, <1>3, EmptyPlan DEF LeftInv, Left, Thing, Owned
<1> SUFFICES /\ alb' # None /\ alb'.fin = {} => \A t \in Thing : obj[t] = None
             /\ alb' = None => \A t \in Left : obj[t] = None
  BY <1>1, <1>4 DEF LeftInv
<1>5. CASE CallStatus
  <2>1. c.do = "status" /\ alb' = [alb EXCEPT !.st = c.st]
    BY <1>5 DEF CallStatus, Next1
  <2>2. alb # None /\ c.st \in Status
    BY <1>1, <1>2, <2>1 DEF CallOK
  <2>3. alb \in Alb
    BY <2>2 DEF LifeInv, AlbOK
  <2>4. alb' # None
    BY <2>1, <2>2, <2>3, AlbFields
  <2>5. alb'.fin = alb.fin
    BY <2>1, <2>3 DEF Alb
  <2> QED
    BY <2>2, <2>4, <2>5 DEF LeftInv
<1>6. CASE CallAlb
  <2> DEFINE a == c.alb
  <2>1. c.do = "alb" /\ alb' = IF a.deleting = "yes" /\ a.fin = {} THEN None ELSE a
    BY <1>6 DEF CallAlb, Next1
  <2>2. MayWrite(a)
    BY <1>1, <1>2, <2>1 DEF CallOK
  <2>3. a # None
    BY <2>2, AlbFields DEF MayWrite
  <2>4. CASE a.deleting = "yes" /\ a.fin = {}
    <3>1. FreesAlb(plan)
      BY <1>2, <2>1, <2>4 DEF FreesAlb
    <3>2. DropsOf(plan) = {}
      <4>1. Len(plan) = 1
        <5>1. 1 = Len(plan)
          BY <1>2, <1>3 DEF LastWrites
        <5> QED
          BY <5>1
      <4>2. plan[1].do # "drop"
        BY <1>2, <2>1
      <4>3. \A j \in 1..Len(plan) : plan[j].do # "drop"
        BY <4>1, <4>2, SMTT(30)
      <4> QED
        BY <4>3 DEF DropsOf
    <3>3. \A t \in Left : obj[t] = None
      BY <1>1, <3>1, <3>2 DEF LeftInv
    <3> QED
      BY <2>1, <2>4, <3>3
  <2>5. CASE ~(a.deleting = "yes" /\ a.fin = {})
    <3>1. alb' = a /\ alb # None
      BY <2>1, <2>2, <2>5 DEF MayWrite
    <3>2. a.fin = {} => alb.fin = {}
      BY <2>2, <2>5 DEF MayWrite
    <3> QED
      BY <2>3, <3>1, <3>2 DEF LeftInv
  <2> QED
    BY <2>4, <2>5
<1> QED
  BY <1>5, <1>6

\* A step that makes no object and leaves the life of the alb alone.
LEMMA LeftKept ==
  ASSUME LeftInv, unseen' \subseteq unseen,
         \A t \in Thing : obj[t] = None => obj'[t] = None,
         plan' = plan \/ plan' = <<>>,
         \/ UNCHANGED alb /\ (UNCHANGED moved \/ plan' = <<>>)
         \/ /\ alb # None /\ (moved' = "yes" \/ plan' = <<>>)
            /\ (alb' # None /\ alb'.fin # {}) \/ alb.fin = {}
  PROVE  LeftInv'
<1>1. (unseen \cap Left = {})'
  <2>1. unseen' \cap Left = {}
    BY DEF LeftInv
  <2> QED
    BY <2>1 DEF Left, Thing, Owned
<1>2. \A t \in Left : t \in Thing
  BY LeftThings
<1>3. (Creates(plan') => Creates(plan)) /\ (FreesAlb(plan') => plan' = plan)
  BY EmptyPlan
<1>4. CASE UNCHANGED alb /\ (UNCHANGED moved \/ plan' = <<>>)
  <2>1. moved' = "no" /\ FreesAlb(plan') => moved = "no" /\ FreesAlb(plan) /\ plan' = plan
    BY <1>3, <1>4, EmptyPlan
  <2> QED
    BY <1>1, <1>2, <1>3, <1>4, <2>1 DEF LeftInv
<1>5. CASE /\ alb # None /\ (moved' = "yes" \/ plan' = <<>>)
           /\ (alb' # None /\ alb'.fin # {}) \/ alb.fin = {}
  <2>1. ~(moved' = "no" /\ FreesAlb(plan'))
    BY <1>5, EmptyPlan
  <2> QED
    BY <1>1, <1>2, <1>3, <1>5, <2>1 DEF LeftInv
<1> QED
  BY <1>4, <1>5

\* Users, the instance and the cluster.
LEMMA LeftOthers ==
  ASSUME LifeInv, TypeInv, LeftInv, User \/ Cluster \/ Upset \/ InstanceCleanup
  PROVE  LeftInv'
<1>1. obj \in [Thing -> Obj \cup {None}] /\ (alb # None => alb \in Alb /\ Guarded(alb))
  BY DEF TypeInv, ObjOK, LifeInv, AlbOK
<1>2. ASSUME NEW a, alb # None, WriteAlb(a), UNCHANGED <<obj, unseen, plan>>,
             (a # None /\ a.fin # {}) \/ alb.fin = {}
      PROVE  LeftInv'
  BY <1>2, LeftKept DEF WriteAlb
<1>3. ASSUME NEW a \in Alb, alb # None, WriteAlb(a), UNCHANGED <<obj, unseen, plan>>, a.fin = alb.fin
      PROVE  LeftInv'
  BY <1>2, <1>3, AlbFields
<1>4. ASSUME NEW c \in Conf, EditConf(c) PROVE LeftInv'
  <2> DEFINE a == [alb EXCEPT !.conf = c]
  <2>1. alb # None /\ WriteAlb(a) /\ UNCHANGED <<obj, unseen, plan>>
    BY <1>4 DEF EditConf
  <2>2. a \in Alb
    BY <1>1, <2>1, AlbFields
  <2>3. a.fin = alb.fin
    BY <1>1, <2>1 DEF Alb
  <2> HIDE DEF a
  <2> QED
    BY <1>3, <2>1, <2>2, <2>3
<1>5. CASE FlipIgnore
  <2> DEFINE a == [alb EXCEPT !.ignore = IF @ = "no" THEN "yes" ELSE "no"]
  <2>1. alb # None /\ WriteAlb(a) /\ UNCHANGED <<obj, unseen, plan>>
    BY <1>5 DEF FlipIgnore
  <2>2. a \in Alb
    BY <1>1, <2>1, AlbFields
  <2>3. a.fin = alb.fin
    BY <1>1, <2>1 DEF Alb
  <2> HIDE DEF a
  <2> QED
    BY <1>3, <2>1, <2>2, <2>3
<1>6. CASE DeleteAlb
  <2> DEFINE b == [alb EXCEPT !.deleting = "yes"]
             a == IF alb.fin = {} THEN None ELSE b
  <2>1. alb # None /\ WriteAlb(a) /\ UNCHANGED <<obj, unseen, plan>>
    BY <1>6 DEF DeleteAlb
  <2>2. b \in Alb /\ b # None
    BY <1>1, <2>1, AlbFields
  <2>3. b.fin = alb.fin
    BY <1>1, <2>1 DEF Alb
  <2> HIDE DEF b
  <2>4. (a # None /\ a.fin # {}) \/ alb.fin = {}
    BY <2>2, <2>3
  <2> HIDE DEF a
  <2> QED
    BY <1>2, <2>1, <2>4
<1>7. ASSUME NEW p \in {"clean", "conflict"}, ReportPorts(p) PROVE LeftInv'
  <2> DEFINE a == [alb EXCEPT !.st.ports = p]
  <2>1. alb # None /\ WriteAlb(a) /\ UNCHANGED <<obj, unseen, plan>>
    BY <1>7 DEF ReportPorts
  <2>2. a.fin = alb.fin
    BY <1>1, <2>1 DEF Alb
  <2>3. a # None
    <3> DEFINE st == [alb.st EXCEPT !.ports = p]
    <3>1. a = [alb EXCEPT !.st = st]
      BY <1>1, <2>1 DEF Alb
    <3>2. st \in Status
      <4>1. alb.st \in Status
        BY <1>1, <2>1, AlbFields
      <4> QED
        BY <4>1 DEF Status
    <3> HIDE DEF a, st
    <3> QED
      BY <1>1, <2>1, <3>1, <3>2, AlbFields
  <2> HIDE DEF a
  <2> QED
    BY <1>2, <2>1, <2>2, <2>3
<1>8. CASE InstanceCleanup
  <2> DEFINE b == [alb EXCEPT !.fin = @ \ {"inst"}]
             a == IF alb.fin = {"inst"} THEN None ELSE b
  <2>1. /\ alb # None /\ WriteAlb(a) /\ UNCHANGED <<obj, unseen, plan>>
        /\ alb.deleting = "yes" /\ "inst" \in alb.fin
    BY <1>8 DEF InstanceCleanup
  <2>2. alb.fin = {"op", "inst"} /\ alb.fin \ {"inst"} = {"op"} /\ alb.fin # {"inst"}
    BY <1>1, <2>1, SMTT(30) DEF Guarded
  <2>3. b \in Alb /\ b # None
    BY <1>1, <2>1, <2>2, AlbFields
  <2>4. b.fin = {"op"}
    BY <1>1, <2>1, <2>2 DEF Alb
  <2>5. a = b
    BY <2>2
  <2> HIDE DEF a, b
  <2>6. a # None /\ a.fin # {}
    BY <2>3, <2>4, <2>5
  <2> QED
    BY <1>2, <2>1, <2>6
<1>9. ASSUME UNCHANGED <<alb, moved, plan>>, unseen' \subseteq unseen,
             \A t \in Thing : obj[t] = None => obj'[t] = None
      PROVE  LeftInv'
  BY <1>9, LeftKept
<1>10. CASE GracePasses \/ (\E d \in OverData : EditOver(d)) \/ \E t \in Thing : See(t)
  BY <1>9, <1>10 DEF GracePasses, EditOver, See, worker, cluster
<1>11. ASSUME NEW t \in Thing, obj[t] # None, NEW got \in {"yes", "no"}, Report(t, got) PROVE LeftInv'
  <2>1. UNCHANGED <<alb, moved, plan, unseen>>
    BY <1>11 DEF Report, worker
  <2>2. \A u \in Thing \ {t} : obj'[u] = obj[u]
    BY <1>11, ReportEffect DEF TypeInv
  <2> QED
    BY <1>9, <1>11, <2>1, <2>2
<1>12. CASE LoseReplica \/ \E t \in Thing : ClusterReports(t)
  BY <1>11, <1>12, Things DEF LoseReplica, ClusterReports
<1>13. CASE TakeLease
  <2>1. /\ alb # None /\ alb.deleting = "no" /\ obj["deploy"] # None
        /\ UNCHANGED <<alb, moved, plan, unseen>>
    BY <1>13 DEF TakeLease, worker
  <2>2. alb.fin # {}
    BY <2>1, Things DEF LeftInv
  <2>3. ~(moved = "no" /\ FreesAlb(plan))
    <3> SUFFICES ASSUME moved = "no", FreesAlb(plan) PROVE FALSE
      OBVIOUS
    <3>1. PICK i \in 1..Len(plan) : plan[i].do = "alb" /\ plan[i].alb.deleting = "yes"
      BY DEF FreesAlb
    <3>2. MayWrite(plan[i].alb)
      BY <3>1 DEF LifeInv, PlanOK, CallOK
    <3> QED
      BY <2>1, <3>1, <3>2 DEF MayWrite
  <2>4. (unseen \cap Left = {})'
    BY <2>1 DEF LeftInv, Left, Thing, Owned
  <2> QED
    BY <2>1, <2>2, <2>3, <2>4 DEF LeftInv
<1>14. ASSUME NEW t \in Thing, Drift(t) \/ Collect(t) PROVE LeftInv'
  <2>1. /\ UNCHANGED <<alb, moved, plan>> /\ unseen' \subseteq unseen
        /\ obj' = [obj EXCEPT ![t] = None]
    BY <1>14 DEF Drift, Collect, worker
  <2> QED
    BY <1>1, <1>9, <2>1
<1>15. ASSUME NEW v \in Version, Restart(v) PROVE LeftInv'
  <2>1. plan' = <<>> /\ UNCHANGED <<alb, obj>> /\ unseen' = {}
    BY <1>15 DEF Restart, cluster
  <2> QED
    BY <2>1, LeftKept
<1> QED
  BY <1>4, <1>5, <1>6, <1>7, <1>8, <1>10, <1>12, <1>13, <1>14, <1>15, Things, ClusterParts
    DEF User, Upset

LEMMA LeftStep ==
  ASSUME Dependable, LifeInv, TypeInv, LeftInv, [Next]_vars
  PROVE  LeftInv'
<1>1. CASE Ignore
  <2>1. plan' = <<>> /\ UNCHANGED <<alb, obj, unseen>>
    BY <1>1 DEF Ignore, Take, cluster
  <2> QED
    BY <2>1, LeftKept
<1>2. CASE CallFails \/ Done \/ UNCHANGED vars
  <2>1. /\ plan' = <<>> \/ plan' = plan
        /\ UNCHANGED <<alb, obj, unseen, moved>>
    BY <1>2 DEF CallFails, Done, vars, cluster, worker
  <2> QED
    BY <2>1, LeftKept
<1> QED
  BY <1>1, <1>2, LeftBegins, LeftCalls, LeftWrites, LeftOthers DEF Next, Worker, Begins

\* NothingLeft ("all clear now"): when an alb is gone, so is every object that the garbage
\* collector would not delete, whatever was created while the alb was already being deleted
\* and wherever Destroy was interrupted (Destroy, handleInitOrDelete).  Destroy only logs
\* a delete that fails and does not delete what the cache has not seen, so that this holds
\* where neither happens to such an object.
THEOREM AllClear == ASSUME Dependable PROVE Spec => []NothingLeft
<1> DEFINE Inv == LifeInv /\ TypeInv /\ LeftInv
<1>1. Init => Inv
  BY LifeInvInit, TypeInit, LeftInit
<1>2. Inv /\ [Next]_vars => Inv'
  BY LifeInvNext, TypeStep, LeftStep
<1>3. Inv => NothingLeft
  BY DEF LeftInv, NothingLeft, Left
<1> QED
  BY <1>1, <1>2, <1>3, PTL DEF Spec

-----------------------------------------------------------------------------
(* The annotations of load balancer services. *)

\* The annotations of a service written from c; got: whether it was given an address.
AnnotatedFor(c, got) == AnnotationOf(c) \cup IF got = "yes" THEN {Cloud} ELSE {}

\* The objects whose contents are the settings of a configuration.
FromConf == {"deploy", "monitor"}

\* Calls that write a service the way its configuration asks and as they found it.
RightCall(c) ==
  /\ c.new.conf \in Conf
  /\ c.do = "create" => c.new.got = "no" /\ c.new.ann = AnnotatedFor(c.new.conf, "no")
  /\ c.do = "update" => c.from \in Obj /\ c.new.ann = AnnotatedFor(c.new.conf, c.from.got)
WrittenRight(c) ==
  /\ c.what \in LbName => RightCall(c)
  /\ c.what \in FromConf => c.new.conf \in Conf
AnnCall == {c \in Call : c.do \in {"create", "update"} => WrittenRight(c)}

\* Every service has the annotations of what it was last written from, and will have, and
\* what carries settings was written from a configuration.
Annotated(o) == o.conf \in Conf /\ o.ann = AnnotatedFor(o.conf, o.got)
AnnInv ==
  /\ \A l \in LbName : obj[l] # None => Annotated(obj[l])
  /\ \A t \in FromConf : obj[t] # None => obj[t].conf \in Conf
  /\ plan \in Seq(AnnCall)

\* The update of a service leaves nothing of its old configuration and all of the cloud's.
LEMMA PatchRight ==
  ASSUME CloudKeyFree, NEW c \in Conf, NEW d \in Conf, NEW got
  PROVE  PatchLbAnnotations(AnnotatedFor(c, got), AnnotationOf(c), AnnotationOf(d)) = AnnotatedFor(d, got)
<1> DEFINE ann == AnnotatedFor(c, got)
           keys == FindNeedDeleteAnnotation(AnnotationOf(c), AnnotationOf(d)) \cup {w[1] : w \in AnnotationOf(d)}
<1>1. \A k \in AnnotationOf(c) : k[1] \in keys
  BY DEF FindNeedDeleteAnnotation
<1>2. Cloud[1] \notin keys
  BY DEF FindNeedDeleteAnnotation, CloudKeyFree
<1>3. PatchLbAnnotations(ann, AnnotationOf(c), AnnotationOf(d)) = {k \in ann : k[1] \notin keys} \cup AnnotationOf(d)
  BY DEF PatchLbAnnotations
<1> HIDE DEF keys
<1>4. {k \in ann : k[1] \notin keys} = IF got = "yes" THEN {Cloud} ELSE {}
  BY <1>1, <1>2 DEF AnnotatedFor
<1> QED
  BY <1>3, <1>4 DEF AnnotatedFor

LEMMA FromConfKinds == FromConf \subseteq Kind /\ FromConf \subseteq Thing /\ FromConf \cap LbName = {}
<1>1. LbName \cap Kind = {}
  BY OperatorConstants DEF OperatorConstants
<1>2. FromConf \subseteq Kind
  BY Things DEF FromConf
<1> QED
  BY <1>1, <1>2 DEF Thing

LEMMA AnnCalls ==
  /\ \A c \in ObjCall :
       (c.what \in Kind /\ (c.what \in FromConf => c.new.conf \in Conf)) \/ c.do \in {"delete", "drop"}
         => c \in AnnCall
  /\ \A a \in Alb : [do |-> "alb", alb |-> a] \in AnnCall
  /\ \A st \in Status : [do |-> "status", st |-> st] \in AnnCall
  /\ [do |-> "label"] \in AnnCall
<1>1. LbName \cap Kind = {}
  BY OperatorConstants DEF OperatorConstants
<1>2. \A c \in ObjCall : c \in Call
  BY DEF ObjCall, Call
<1>3. \A c \in ObjCall :
        (c.what \in Kind /\ (c.what \in FromConf => c.new.conf \in Conf)) \/ c.do \in {"delete", "drop"}
          => c \in AnnCall
  BY <1>1, <1>2 DEF AnnCall, WrittenRight
<1>4. ASSUME NEW a \in Alb PROVE [do |-> "alb", alb |-> a] \in AnnCall
  BY DEF AnnCall, WrittenRight, Call
<1>5. ASSUME NEW st \in Status PROVE [do |-> "status", st |-> st] \in AnnCall
  BY DEF AnnCall, WrittenRight, Call
<1>6. [do |-> "label"] \in AnnCall
  BY DEF AnnCall, WrittenRight, Call
<1> QED
  BY <1>3, <1>4, <1>5, <1>6

LEMMA KindMigrates ==
  ASSUME ObjOK, NEW t \in Kind, NEW wanted, NEW differs, NEW new \in Obj,
         t \in FromConf => new.conf \in Conf
  PROVE  Migrate(t, wanted, differs, new) \in Seq(AnnCall)
<1> DEFINE call(do) == [do |-> do, what |-> t, from |-> Cur(t), new |-> new]
<1>1. Cur(t) \in Obj \cup {None} /\ t \in Thing
  BY Things DEF ObjOK, Cur
<1>2. call("delete") \in AnnCall /\ call("create") \in AnnCall /\ call("update") \in AnnCall
  BY <1>1, CallTyped, AnnCalls
<1>3. \/ Migrate(t, wanted, differs, new) = <<call("delete")>>
      \/ Migrate(t, wanted, differs, new) = <<call("create")>>
      \/ Migrate(t, wanted, differs, new) = <<call("update")>>
      \/ Migrate(t, wanted, differs, new) = <<>>
  BY DEF Migrate
<1> HIDE DEF call
<1> QED
  BY <1>2, <1>3, ShortTyped

\* The service itself: what its update keeps depends on what it is now.
LEMMA LbMigrates ==
  ASSUME CloudKeyFree, ObjOK, version \in Version, NEW l \in LbName, NEW a, a.conf \in Conf,
         obj[l] # None => Annotated(obj[l])
  PROVE  MigrateLb(l, a) \in Seq(AnnCall)
<1> DEFINE ann == IF Cur(l) = None THEN AnnotationOf(a.conf) ELSE LbAnnotations(Cur(l), a)
           new == [Plain EXCEPT !.conf = a.conf, !.ann = ann]
           call(do) == [do |-> do, what |-> l, from |-> Cur(l), new |-> new]
<1>1. /\ Cur(l) \in Obj \cup {None} /\ l \in Thing /\ (Cur(l) # None => Cur(l) = obj[l])
      /\ l \notin FromConf
  BY Things, FromConfKinds DEF ObjOK, Cur
<1>2. Cur(l) = None => ann = AnnotatedFor(a.conf, "no")
  BY DEF AnnotatedFor
<1>3. Cur(l) # None => ann = AnnotatedFor(a.conf, Cur(l).got)
  BY <1>1, PatchRight, SMTT(30) DEF LbAnnotations, Annotated
<1>4. ann \in SUBSET Annotation
  BY <1>2, <1>3 DEF AnnotatedFor, Annotation
<1>5. MigrateLb(l, a) = Migrate(l, LbWanted(a.conf), LbDiffers(Cur(l), a), new)
  BY DEF MigrateLb
<1> HIDE DEF ann
<1>6. new \in Obj /\ new.conf = a.conf /\ new.ann = ann /\ new.got = "no"
  <2>1. new \in Obj
    BY <1>4, PlainTyped
  <2> QED
    BY <2>1 DEF Plain
<1> HIDE DEF new
<1>7. call("delete") \in AnnCall
  BY <1>1, <1>6, CallTyped, AnnCalls
<1>8. Cur(l) = None => call("create") \in AnnCall
  <2> SUFFICES ASSUME Cur(l) = None PROVE call("create") \in AnnCall
    OBVIOUS
  <2>1. call("create") \in ObjCall
    BY <1>1, <1>6, CallTyped
  <2>2. RightCall(call("create"))
    BY <1>2, <1>6 DEF RightCall
  <2> QED
    BY <1>1, <2>1, <2>2 DEF AnnCall, WrittenRight, ObjCall, Call
<1>9. Cur(l) # None => call("update") \in AnnCall
  <2> SUFFICES ASSUME Cur(l) # None PROVE call("update") \in AnnCall
    OBVIOUS
  <2>1. call("update") \in ObjCall
    BY <1>1, <1>6, CallTyped
  <2>2. RightCall(call("update"))
    BY <1>1, <1>3, <1>6 DEF RightCall
  <2> QED
    BY <1>1, <2>1, <2>2 DEF AnnCall, WrittenRight, ObjCall, Call
<1>10. \/ MigrateLb(l, a) = <<call("delete")>>
       \/ MigrateLb(l, a) = <<call("create")>> /\ Cur(l) = None
       \/ MigrateLb(l, a) = <<call("update")>> /\ Cur(l) # None
       \/ MigrateLb(l, a) = <<>>
  BY <1>5 DEF Migrate
<1> HIDE DEF call
<1> QED
  BY <1>7, <1>8, <1>9, <1>10, ShortTyped

LEMMA UpdateAnnotates ==
  ASSUME CloudKeyFree, ObjOK, version \in Version, NEW a \in Alb, a.conf \in Conf, NEW l \in LbName,
         UsesOver(a.conf) => over # None, obj[l] # None => Annotated(obj[l])
  PROVE  UpdateCalls(a, l) \in Seq(AnnCall)
<1>0. /\ "deploy" \in FromConf /\ "monitor" \in FromConf /\ "portinfo" \notin FromConf
      /\ "ingressclass" \notin FromConf /\ "gatewayclass" \notin FromConf
      /\ "feature" \notin FromConf /\ "common" \notin FromConf /\ Rbac \cap FromConf = {}
  BY SMTT(30) DEF FromConf, Rbac
<1>1. \A t \in Rbac : MigrateRbac(t) \in Seq(AnnCall)
  BY <1>0, KindMigrates, PlainTyped, Things DEF MigrateRbac, Rbac
<1>2. MigrateDeploy(a) \in Seq(AnnCall) /\ MigratePortInfo(a) \in Seq(AnnCall)
  <2>1. [Plain EXCEPT !.conf = a.conf].conf \in Conf
    BY DEF Plain
  <2> QED
    BY <1>0, <2>1, KindMigrates, PlainTyped, Things DEF MigrateDeploy, MigratePortInfo
<1>3. MigrateMonitor(a) \in Seq(AnnCall) /\ MigrateIngressClass(a) \in Seq(AnnCall)
  <2>1. [Plain EXCEPT !.conf = a.conf].conf \in Conf
    BY DEF Plain
  <2> QED
    BY <1>0, <2>1, KindMigrates, PlainTyped, Things DEF MigrateMonitor, MigrateIngressClass
<1>4. MigrateGatewayClass(a) \in Seq(AnnCall) /\ MigrateFeature(a) \in Seq(AnnCall)
  <2>1. a.st \in Status
    BY AlbFields
  <2>2. a.st.addr \in Address
    BY <2>1 DEF Status
  <2> QED
    BY <1>0, <2>2, KindMigrates, PlainTyped, Things, ShortTyped DEF MigrateGatewayClass, MigrateFeature
<1>5. MigrateCommon(a) \in Seq(AnnCall)
  <2>1. Snippets(a.conf) \in OverData \cup {"base"}
    BY DEF Snippets, ObjOK, Over
  <2>2. [Plain EXCEPT !.conf = a.conf, !.over = Snippets(a.conf)] \in Obj
    BY <2>1, PlainTyped
  <2> QED
    BY <1>0, <2>2, KindMigrates, Things DEF MigrateCommon
<1>6. MigrateLb(l, a) \in Seq(AnnCall)
  BY LbMigrates
<1>7. "role" \in Rbac /\ "bind" \in Rbac /\ "sa" \in Rbac
  BY DEF Rbac
<1> QED
  BY <1>1, <1>2, <1>3, <1>4, <1>5, <1>6, <1>7, ConcatTyped DEF UpdateCalls

\* What a round plans annotates services rightly.
LEMMA RoundAnnotates ==
  ASSUME CloudKeyFree, LifeInv, TypeInv, AnnInv, Begins
  PROVE  plan' \in Seq(AnnCall) /\ obj' = obj
<1>0. ObjOK /\ version \in Version /\ (alb # None => alb \in Alb)
  BY DEF TypeInv, LifeInv, AlbOK
<1>1. ASSUME NEW calls \in Seq(AnnCall), NEW then \in {"requeue", "done"}, Take(calls, then)
      PROVE  plan' \in Seq(AnnCall) /\ obj' = obj
  BY <1>1 DEF Take, cluster
<1>2. \A a \in Alb : <<[do |-> "alb", alb |-> a]>> \in Seq(AnnCall)
  BY AnnCalls, ShortTyped
<1>3. CASE MigrateBackup
  <2> DEFINE a == [alb EXCEPT !.conf = alb.backup]
  <2>1. Take(<<[do |-> "alb", alb |-> a]>>, "requeue") /\ alb \in Alb
    BY <1>0, <1>3 DEF MigrateBackup, Managed
  <2>2. alb.backup \in Conf \cup {None}
    BY <2>1 DEF Alb
  <2>3. a \in Alb
    BY <2>1, <2>2, AlbFields
  <2> HIDE DEF a
  <2> QED
    BY <1>1, <1>2, <2>1, <2>3
<1>4. CASE AddFinalizers
  <2> DEFINE a == [alb EXCEPT !.fin = {"op", "inst"}]
  <2>1. Take(<<[do |-> "alb", alb |-> a]>>, "requeue") /\ alb \in Alb
    BY <1>0, <1>4 DEF AddFinalizers, Managed
  <2>2. a \in Alb
    BY <2>1, AlbFields
  <2> HIDE DEF a
  <2> QED
    BY <1>1, <1>2, <2>1, <2>2
<1>5. ASSUME NEW l \in LbName \cup {None}, BeginDestroy(l)
      PROVE  plan' \in Seq(AnnCall) /\ obj' = obj
  <2> DEFINE a == [alb EXCEPT !.fin = {}]
             last == <<[do |-> "alb", alb |-> a]>>
  <2>1. Take(DestroyCalls(l) \o last, "requeue") /\ alb \in Alb
    BY <1>0, <1>5 DEF BeginDestroy, Managed
  <2>2. a \in Alb
    BY <2>1, AlbFields
  <2>3. last \in Seq(AnnCall)
    BY <1>2, <2>2
  <2>4. {c \in ObjCall : c.do = "drop"} \subseteq AnnCall
    BY AnnCalls
  <2>5. DestroyCalls(l) \in Seq(AnnCall)
    BY <1>0, <2>4, DestroyTyped, WiderTyped
  <2> HIDE DEF last
  <2>6. DestroyCalls(l) \o last \in Seq(AnnCall)
    BY <2>3, <2>5, ConcatTyped
  <2> QED
    BY <1>1, <2>1, <2>6
<1>6. ASSUME NEW l \in LbName \cup {None}, NEW name \in LbName, BeginUpdate(l, name)
      PROVE  plan' \in Seq(AnnCall) /\ obj' = obj
  <2> DEFINE first == LabelOver(alb.conf)
             calls == UpdateCalls(alb, name)
             report == StatusCall(alb, Svc(l))
             same == alb.label = AlbLabelOf[alb.conf]
             a == [alb EXCEPT !.label = AlbLabelOf[alb.conf]]
             then == IF same /\ ExpectStatus(alb, Svc(l)) = alb.st /\ Ready(alb.st)
                     THEN "done" ELSE "requeue"
             write == <<[do |-> "alb", alb |-> a]>>
  <2>1. Take(first \o IF same THEN calls \o report ELSE write, then)
    BY <1>6 DEF BeginUpdate
  <2>2. alb \in Alb /\ alb.conf \in Conf /\ (UsesOver(alb.conf) => over # None)
    <3>1. alb \in Alb /\ alb.conf # None /\ (UsesOver(alb.conf) => over # None)
      BY <1>0, <1>6 DEF BeginUpdate, Managed
    <3> QED
      BY <3>1 DEF Alb
  <2>3. calls \in Seq(AnnCall)
    BY <1>0, <2>2, UpdateAnnotates DEF AnnInv
  <2>4. report \in Seq(AnnCall)
    <3>1. ExpectStatus(alb, Svc(l)) \in Status
      BY <1>6, UpdateWrites
    <3>2. [do |-> "status", st |-> ExpectStatus(alb, Svc(l))] \in AnnCall
      BY <3>1, AnnCalls
    <3> QED
      BY <3>2, ShortTyped DEF StatusCall
  <2>5. write \in Seq(AnnCall)
    BY <1>2, <1>6, UpdateWrites
  <2>6. first \in Seq(AnnCall)
    BY AnnCalls, ShortTyped DEF LabelOver
  <2>7. then \in {"requeue", "done"}
    OBVIOUS
  <2> HIDE DEF first, calls, report, write, then
  <2>8. (IF same THEN calls \o report ELSE write) \in Seq(AnnCall)
    BY <2>3, <2>4, <2>5, ConcatTyped
  <2>9. (first \o IF same THEN calls \o report ELSE write) \in Seq(AnnCall)
    BY <2>6, <2>8, ConcatTyped
  <2> QED
    BY <1>1, <2>1, <2>7, <2>9
<1> QED
  BY <1>3, <1>4, <1>5, <1>6 DEF Begins

LEMMA AnnPlanKept ==
  ASSUME plan \in Seq(AnnCall), plan' = plan \/ plan' = <<>> \/ (plan # <<>> /\ plan' = Tail(plan))
  PROVE  plan' \in Seq(AnnCall)
BY RestOfPlan, ShortTyped

\* The next call is made: an update of a service finds it as it was read.
LEMMA CallAnnotates ==
  ASSUME TypeInv, AnnInv, CallCreate \/ CallUpdate \/ CallDelete
  PROVE  AnnInv'
<1> DEFINE c == Head(plan)
<1>1. /\ plan # <<>> /\ plan' = Tail(plan) /\ c \in ObjCall
      /\ c.do \in {"create", "update", "delete", "drop"} /\ c.what \in Thing /\ c.new \in Obj
  BY CallEffect, CallFields
<1>2. plan' \in Seq(AnnCall)
  BY <1>1, AnnPlanKept DEF AnnInv
<1>3. c \in AnnCall
  BY <1>1, RestOfPlan DEF AnnInv
<1>4. obj \in [Thing -> Obj \cup {None}] /\ LbName \subseteq Thing
  BY Things DEF TypeInv, ObjOK
<1>5. ASSUME NEW l \in LbName, obj'[l] # None PROVE Annotated(obj'[l])
  <2>1. CASE l # c.what
    <3>1. obj'[l] = obj[l]
      BY <1>1, <1>4, <2>1, CallEffect
    <3> QED
      BY <1>5, <3>1 DEF AnnInv
  <2>2. CASE l = c.what /\ CallCreate
    <3>1. c.do = "create" /\ obj'[l] = c.new
      BY <1>4, <2>2 DEF CallCreate, Next1
    <3>2. RightCall(c)
      BY <1>3, <2>2, <3>1 DEF AnnCall, WrittenRight
    <3> QED
      BY <3>1, <3>2 DEF RightCall, Annotated
  <2>3. CASE l = c.what /\ CallUpdate
    <3>1. c.do = "update" /\ obj'[l] = [c.new EXCEPT !.got = obj[l].got]
      BY <1>4, <2>3 DEF CallUpdate, Next1
    <3>2. obj[l] = c.from
      BY <2>3, <3>1, CallEffect
    <3>3. RightCall(c)
      BY <1>3, <2>3, <3>1 DEF AnnCall, WrittenRight
    <3>4. obj'[l].conf = c.new.conf /\ obj'[l].ann = c.new.ann /\ obj'[l].got = obj[l].got
      BY <1>1, <3>1 DEF Obj
    <3> QED
      BY <3>1, <3>2, <3>3, <3>4 DEF RightCall, Annotated
  <2>4. CASE l = c.what /\ CallDelete
    <3>1. obj'[l] = None
      BY <1>4, <2>4 DEF CallDelete
    <3> QED
      BY <1>5, <3>1
  <2> QED
    BY <2>1, <2>2, <2>3, <2>4
<1>6. ASSUME NEW t \in FromConf, obj'[t] # None PROVE obj'[t].conf \in Conf
  <2>0. t \in Thing
    BY FromConfKinds
  <2>1. CASE t # c.what
    <3>1. obj'[t] = obj[t]
      BY <1>1, <1>4, <2>0, <2>1, CallEffect
    <3> QED
      BY <1>6, <3>1 DEF AnnInv
  <2>2. CASE t = c.what /\ CallCreate
    <3>1. c.do = "create" /\ obj'[t] = c.new
      BY <1>4, <2>0, <2>2 DEF CallCreate, Next1
    <3> QED
      BY <1>3, <2>2, <3>1 DEF AnnCall, WrittenRight
  <2>3. CASE t = c.what /\ CallUpdate
    <3>1. c.do = "update" /\ obj'[t] = [c.new EXCEPT !.got = obj[t].got]
      BY <1>4, <2>0, <2>3 DEF CallUpdate, Next1
    <3>2. obj'[t].conf = c.new.conf
      BY <1>1, <3>1 DEF Obj
    <3> QED
      BY <1>3, <2>3, <3>1, <3>2 DEF AnnCall, WrittenRight
  <2>4. CASE t = c.what /\ CallDelete
    <3>1. obj'[t] = None
      BY <1>4, <2>0, <2>4 DEF CallDelete
    <3> QED
      BY <1>6, <3>1
  <2> QED
    BY <2>1, <2>2, <2>3, <2>4
<1> QED
  BY <1>2, <1>5, <1>6 DEF AnnInv

LEMMA AnnStep ==
  ASSUME CloudKeyFree, LifeInv, TypeInv, AnnInv, [Next]_vars
  PROVE  AnnInv'
<1>1. /\ obj \in [Thing -> Obj \cup {None}] /\ LbName \subseteq Thing /\ LbName \cap Kind = {}
      /\ FromConf \subseteq Thing
  BY Things, FromConfKinds, OperatorConstants DEF TypeInv, ObjOK, OperatorConstants
<1>2. ASSUME plan' = plan \/ plan' = <<>> \/ (plan # <<>> /\ plan' = Tail(plan)),
             \A t \in LbName \cup FromConf : obj'[t] = obj[t] \/ obj'[t] = None
      PROVE  AnnInv'
  BY <1>2, AnnPlanKept DEF AnnInv
<1>3. CASE Begins
  BY <1>3, RoundAnnotates DEF AnnInv
<1>4. CASE CallCreate \/ CallUpdate \/ CallDelete
  BY <1>4, CallAnnotates
<1>5. CASE CallDropFails \/ CallAlb \/ CallStatus \/ CallLabel
  BY <1>2, <1>5 DEF CallDropFails, CallAlb, CallStatus, CallLabel, Next1, Made, cluster
<1>6. CASE Ignore \/ CallFails \/ Done \/ UNCHANGED vars
  BY <1>2, <1>6 DEF Ignore, Take, CallFails, Done, vars, cluster, worker
<1>7. CASE User \/ InstanceCleanup \/ \E p \in {"clean", "conflict"} : ReportPorts(p)
  BY <1>2, <1>7
    DEF User, EditConf, FlipIgnore, DeleteAlb, EditOver, InstanceCleanup, ReportPorts, worker
<1>8. ASSUME NEW t \in {"deploy"} \cup LbName, obj[t] # None, NEW got \in {"yes", "no"}, Report(t, got),
             t \in LbName => got = "yes"
      PROVE  AnnInv'
  <2>1. t \in Thing /\ plan' = plan
    BY <1>8, Things DEF Report, worker
  <2>2. /\ obj'[t].got = got /\ obj'[t].conf = obj[t].conf /\ obj[t] \in Obj
        /\ t \in LbName => obj'[t].ann = obj[t].ann \cup {Cloud}
        /\ \A u \in Thing \ {t} : obj'[u] = obj[u]
    BY <1>8, <2>1, ReportEffect DEF TypeInv
  <2>3. t \in LbName => Annotated(obj'[t])
    BY <1>8, <2>2 DEF AnnInv, Annotated, AnnotatedFor
  <2>4. \A u \in FromConf : obj'[u] # None => obj'[u].conf \in Conf
    BY <1>1, <1>8, <2>2 DEF AnnInv
  <2> QED
    BY <1>1, <2>1, <2>2, <2>3, <2>4 DEF AnnInv
<1>9. CASE LoseReplica
  <2>1. "deploy" \notin LbName /\ obj["deploy"] # None /\ Report("deploy", "no")
    BY <1>1, <1>9, Things DEF LoseReplica
  <2> QED
    BY <1>8, <2>1
<1>10. ASSUME NEW t \in Thing, ClusterReports(t) PROVE AnnInv'
  <2>1. t \in {"deploy"} \cup LbName /\ obj[t] # None /\ Report(t, "yes")
    BY <1>10 DEF ClusterReports
  <2> QED
    BY <1>8, <2>1
<1>11. CASE TakeLease
  <2>1. obj' = [obj EXCEPT !["lease"] = Plain] /\ plan' = plan
    BY <1>11 DEF TakeLease, worker
  <2>2. "lease" \notin FromConf /\ "lease" \notin LbName
    <3>1. "lease" \notin FromConf
      BY SMTT(30) DEF FromConf
    <3> QED
      BY <1>1, <3>1, Things
  <2> QED
    BY <1>1, <1>2, <2>1, <2>2
<1>12. ASSUME NEW t \in Thing, Drift(t) \/ Collect(t) PROVE AnnInv'
  <2>1. obj' = [obj EXCEPT ![t] = None] /\ plan' = plan
    BY <1>12 DEF Drift, Collect, worker
  <2> QED
    BY <1>1, <1>2, <2>1
<1>13. CASE GracePasses \/ \E t \in Thing : See(t)
  BY <1>2, <1>13 DEF GracePasses, See, cluster, worker
<1>14. ASSUME NEW v \in Version, Restart(v) PROVE AnnInv'
  BY <1>2, <1>14 DEF Restart, cluster
<1> QED
  BY <1>3, <1>4, <1>5, <1>6, <1>7, <1>9, <1>10, <1>11, <1>12, <1>13, <1>14, Things,
    ClusterParts DEF Next, Worker, Begins, Upset

LEMMA AnnInit == Init => AnnInv
<1>1. ASSUME Init, NEW t \in LbName \cup FromConf PROVE obj[t] = None
  BY <1>1, Things, FromConfKinds DEF Init
<1> QED
  BY <1>1, ShortTyped DEF Init, AnnInv

LEMMA AnnotatedRight == ASSUME AnnInv PROVE LbAnnotated
BY DEF AnnInv, Annotated, AnnotatedFor, LbAnnotated, Settled, LbDiffers

\* LbAnnotated, the part of SettledRight about the load balancer service: a settled alb's
\* service has exactly the annotations of its configuration and the cloud's, however often
\* the configuration, the service and the operator changed in between.  genLbSvcUpdate
\* computes them from the service as the cache shows it; that this works rests on the API
\* server refusing an update of a service that has changed since.
THEOREM ServiceAnnotated == ASSUME CloudKeyFree PROVE Spec => []LbAnnotated
<1> DEFINE Inv == LifeInv /\ TypeInv /\ AnnInv
<1>1. Init => Inv
  BY LifeInvInit, TypeInit, AnnInit
<1>2. Inv /\ [Next]_vars => Inv'
  BY LifeInvNext, TypeStep, AnnStep
<1>3. Inv => LbAnnotated
  BY AnnotatedRight
<1> QED
  BY <1>1, <1>2, <1>3, PTL DEF Spec

-----------------------------------------------------------------------------
(* What a settled alb runs with. *)

\* A field that may be missing has a value of its type once the defaults are filled in.
LEMMA OverlayTyped ==
  ASSUME NEW f, NEW g, NEW S, NEW x, x \in DOMAIN g, Optional(f, x, S), g[x] \in S
  PROVE  Overlay(f, g)[x] \in S /\ x \in DOMAIN Overlay(f, g)
<1>1. CASE x \in DOMAIN f
  <2>1. Overlay(f, g)[x] = f[x] /\ x \in DOMAIN Overlay(f, g)
    BY <1>1 DEF Overlay
  <2> QED
    BY <1>1, <2>1 DEF Optional
<1>2. CASE x \notin DOMAIN f
  <2>1. Overlay(f, g)[x] = g[x] /\ x \in DOMAIN Overlay(f, g)
    BY <1>2 DEF Overlay
  <2> QED
    BY <2>1
<1> QED
  BY <1>1, <1>2

\* Every number and every flag has a default.
LEMMA Defaults ==
  /\ \A f \in NumberField : f \in DOMAIN DefaultConfig /\ DefaultConfig[f] \in 0..MaxInt
  /\ \A f \in FlagField : f \in DOMAIN DefaultConfig /\ DefaultConfig[f] \in BOOLEAN
<1>1. \A f \in NumberField \cup FlagField : f \in DOMAIN DefaultConfig
  <2>1. /\ "IngressHTTPPort" \in DOMAIN DefaultConfig
        /\ "IngressHTTPSPort" \in DOMAIN DefaultConfig
        /\ "MetricsPort" \in DOMAIN DefaultConfig
        /\ "GoMonitorPort" \in DOMAIN DefaultConfig
        /\ "WorkerLimit" \in DOMAIN DefaultConfig
        /\ "ResyncPeriod" \in DOMAIN DefaultConfig
        /\ "Backlog" \in DOMAIN DefaultConfig
        /\ "ReloadTimeout" \in DOMAIN DefaultConfig
        /\ "Interval" \in DOMAIN DefaultConfig
        /\ "MaxTermSeconds" \in DOMAIN DefaultConfig
    BY SMTT(30) DEF DefaultConfig
  <2>2. /\ "EnableAlb" \in DOMAIN DefaultConfig
        /\ "EnableGoMonitor" \in DOMAIN DefaultConfig
        /\ "EnableProfile" \in DOMAIN DefaultConfig
        /\ "PolicyZip" \in DOMAIN DefaultConfig
    BY SMTT(30) DEF DefaultConfig
  <2> QED
    BY <2>1, <2>2 DEF NumberField, FlagField
<1>2. /\ DefaultConfig.IngressHTTPPort = 80 /\ DefaultConfig.IngressHTTPSPort = 443
      /\ DefaultConfig.MetricsPort = 1936 /\ DefaultConfig.GoMonitorPort = 1937
      /\ DefaultConfig.WorkerLimit = 8 /\ DefaultConfig.ResyncPeriod = 300
      /\ DefaultConfig.Backlog = 2048 /\ DefaultConfig.ReloadTimeout = 600
      /\ DefaultConfig.Interval = 5 /\ DefaultConfig.MaxTermSeconds = 30
  BY SMTT(30) DEF DefaultConfig
<1>3. \A f \in NumberField : DefaultConfig[f] \in 0..MaxInt
  <2> DEFINE d == DefaultConfig
             I == 0..MaxInt
  <2> HIDE DEF d
  <2>1. /\ d.IngressHTTPPort \in I /\ d.IngressHTTPSPort \in I /\ d.MetricsPort \in I
        /\ d.GoMonitorPort \in I /\ d.WorkerLimit \in I /\ d.ResyncPeriod \in I
        /\ d.Backlog \in I /\ d.ReloadTimeout \in I /\ d.Interval \in I
        /\ d.MaxTermSeconds \in I
    BY <1>2, SMTT(30) DEF MaxInt, d
  <2> HIDE DEF I
  <2>2. \A f \in NumberField : d[f] \in I
    BY <2>1 DEF NumberField
  <2> QED
    BY <2>2 DEF d, I
<1>4. /\ DefaultConfig.EnableAlb = TRUE /\ DefaultConfig.EnableGoMonitor = FALSE
      /\ DefaultConfig.EnableProfile = FALSE /\ DefaultConfig.PolicyZip = FALSE
  BY SMTT(30) DEF DefaultConfig
<1>5. \A f \in FlagField : DefaultConfig[f] \in BOOLEAN
  BY <1>4 DEF FlagField
<1> QED
  BY <1>1, <1>3, <1>5

\* BoolToEnv and ToBool, IntToEnv and ToInt: what is written is read back.
LEMMA BoolBack == ASSUME NEW x \in BOOLEAN PROVE ToBool(BoolToEnv(x)) = x
<1>1. ToBool("true") = TRUE
  BY DEF ToBool, IsTrue
<1>2. ToBool("false") = FALSE
  BY SMTT(30) DEF ToBool, IsTrue
<1>3. CASE x = TRUE
  BY <1>1, <1>3 DEF BoolToEnv
<1>4. CASE x = FALSE
  <2>1. BoolToEnv(x) = "false"
    BY <1>4 DEF BoolToEnv
  <2> QED
    BY <1>2, <1>4, <2>1
<1> QED
  BY <1>3, <1>4

LEMMA IntBack == ASSUME NEW n \in 0..MaxInt PROVE ToInt(IntToEnv(n)) = n
BY Decimals DEF ToInt, IntToEnv

\* What the environment carries of a configuration: the controller's settings, with
\* numbers within the bound, the flags and the gateway.
NumbersOK(c) ==
  /\ c.BackLog \in 0..MaxInt /\ c.MetricsPort \in 0..MaxInt /\ c.HttpPort \in 0..MaxInt
  /\ c.HttpsPort \in 0..MaxInt /\ c.MaxTermSeconds \in 0..MaxInt
  /\ c.ReloadTimeout \in 0..MaxInt /\ c.Interval \in 0..MaxInt
  /\ c.CpuPreset \in 0..MaxInt /\ c.WorkerLimit \in 0..MaxInt
  /\ c.ResyncPeriod \in 0..MaxInt /\ c.GoMonitorPort \in 0..MaxInt
ControllerOK(c) ==
  /\ c = [BackLog |-> c.BackLog, NetworkMode |-> c.NetworkMode,
          MetricsPort |-> c.MetricsPort, HttpPort |-> c.HttpPort, HttpsPort |-> c.HttpsPort,
          SSLCert |-> c.SSLCert, DefaultSSLStrategy |-> c.DefaultSSLStrategy,
          MaxTermSeconds |-> c.MaxTermSeconds, ReloadTimeout |-> c.ReloadTimeout,
          Interval |-> c.Interval, CpuPreset |-> c.CpuPreset, WorkerLimit |-> c.WorkerLimit,
          ResyncPeriod |-> c.ResyncPeriod, GoMonitorPort |-> c.GoMonitorPort]
  /\ NumbersOK(c)
FlagValuesOK(f) ==
  /\ f.EnableAlb \in BOOLEAN /\ f.EnablePrometheus \in BOOLEAN
  /\ f.EnablePortProbe \in BOOLEAN /\ f.EnableIPV6 \in BOOLEAN
  /\ f.EnableHTTP2 \in BOOLEAN /\ f.EnableGzip \in BOOLEAN
  /\ f.EnableCrossClusters \in BOOLEAN /\ f.EnableGoMonitor \in BOOLEAN
  /\ f.EnableProfile \in BOOLEAN /\ f.EnableIngress \in BOOLEAN /\ f.PolicyZip \in BOOLEAN
  /\ f.EnableLbSvc \in BOOLEAN
FlagsOK(f) ==
  /\ f = [EnableAlb |-> f.EnableAlb, EnablePrometheus |-> f.EnablePrometheus,
          EnablePortProbe |-> f.EnablePortProbe, EnableIPV6 |-> f.EnableIPV6,
          EnableHTTP2 |-> f.EnableHTTP2, EnableGzip |-> f.EnableGzip,
          EnableCrossClusters |-> f.EnableCrossClusters,
          EnableGoMonitor |-> f.EnableGoMonitor, EnableProfile |-> f.EnableProfile,
          EnableIngress |-> f.EnableIngress, PolicyZip |-> f.PolicyZip,
          EnableLbSvc |-> f.EnableLbSvc]
  /\ FlagValuesOK(f)
SharedAs(class) == [NoGateway EXCEPT !.Enable = TRUE, !.Mode = "shared", !.Class = class]
AloneAs(name, ns) ==
  [NoGateway EXCEPT !.Enable = TRUE, !.Mode = "standalone", !.GatewayName = name, !.GatewayNS = ns]
GatewayOK(g) ==
  g = NoGateway \/ (\E n : g = SharedAs(n)) \/ (\E n, s : g = AloneAs(n, s))
ConfigOK(a) ==
  /\ ControllerOK(a.Controller) /\ FlagsOK(a.Flags) /\ GatewayOK(a.Gateway)
  /\ a.Name = "alb" /\ a.Flags.EnableLbSvc = a.Vip.EnableLbSvc

\* The variables of the alb's container, each with the setting it carries.
EnvNames(e, a, c) ==
  /\ e.NAME = a.Name /\ e.NAMESPACE = a.Ns /\ e.NETWORK_MODE = c.NetworkMode
  /\ e.DEFAULT_SSL_STRATEGY = c.DefaultSSLStrategy /\ e.DEFAULT_SSL_CERTIFICATE = c.SSLCert
EnvNumbers(e, c) ==
  /\ e.MAX_TERM_SECONDS = IntToEnv(c.MaxTermSeconds)
  /\ e.RELOAD_TIMEOUT = IntToEnv(c.ReloadTimeout) /\ e.INTERVAL = IntToEnv(c.Interval)
  /\ e.GO_MONITOR_PORT = IntToEnv(c.GoMonitorPort) /\ e.BACKLOG = IntToEnv(c.BackLog)
  /\ e.METRICS_PORT = IntToEnv(c.MetricsPort)
  /\ e.RESYNC_PERIOD = IntToEnv(c.ResyncPeriod)
  /\ e.WORKER_LIMIT = IntToEnv(c.WorkerLimit) /\ e.CPU_PRESET = IntToEnv(c.CpuPreset)
  /\ e.INGRESS_HTTP_PORT = IntToEnv(c.HttpPort)
  /\ e.INGRESS_HTTPS_PORT = IntToEnv(c.HttpsPort)
EnvFlags(e, f) ==
  /\ e.ENABLE_VIP = BoolToEnv(f.EnableLbSvc)
  /\ e.ENABLE_PROMETHEUS = BoolToEnv(f.EnablePrometheus)
  /\ e.ENABLE_PORTPROBE = BoolToEnv(f.EnablePortProbe)
  /\ e.ENABLE_IPV6 = BoolToEnv(f.EnableIPV6) /\ e.ENABLE_HTTP2 = BoolToEnv(f.EnableHTTP2)
  /\ e.ENABLE_GZIP = BoolToEnv(f.EnableGzip)
  /\ e.ENABLE_GO_MONITOR = BoolToEnv(f.EnableGoMonitor)
  /\ e.ENABLE_PROFILE = BoolToEnv(f.EnableProfile)
  /\ e.POLICY_ZIP = BoolToEnv(f.PolicyZip)
  /\ e.SERVE_CROSSCLUSTERS = BoolToEnv(f.EnableCrossClusters)
  /\ e.SERVE_INGRESS = BoolToEnv(f.EnableIngress) /\ e.ALB_ENABLE = BoolToEnv(f.EnableAlb)
EnvCarries(e, a) ==
  EnvNames(e, a, a.Controller) /\ EnvNumbers(e, a.Controller) /\ EnvFlags(e, a.Flags)

\* The variables that every alb container has; those of a gateway are others.
LEMMA EnvDomain ==
  ASSUME NEW a
  PROVE  DOMAIN AlbEnvs(a) =
           {"NAME", "NAMESPACE", "NETWORK_MODE", "DEFAULT_SSL_STRATEGY",
            "DEFAULT_SSL_CERTIFICATE", "MAX_TERM_SECONDS", "RELOAD_TIMEOUT", "INTERVAL",
            "GO_MONITOR_PORT", "BACKLOG", "METRICS_PORT", "RESYNC_PERIOD", "WORKER_LIMIT",
            "CPU_PRESET", "INGRESS_HTTP_PORT", "INGRESS_HTTPS_PORT", "ENABLE_VIP",
            "ENABLE_PROMETHEUS", "ENABLE_PORTPROBE", "ENABLE_IPV6", "ENABLE_HTTP2",
            "ENABLE_GZIP", "ENABLE_GO_MONITOR", "ENABLE_PROFILE", "POLICY_ZIP",
            "SERVE_CROSSCLUSTERS", "SERVE_INGRESS", "ALB_ENABLE"}
BY SMTT(30) DEF AlbEnvs

\* GetALBContainerEnvs writes every setting under its name, and no variable of a gateway
\* hides one.
LEMMA EnvWritten == ASSUME NEW a PROVE EnvCarries(GetALBContainerEnvs(a), a)
<1>1. \A n \in DOMAIN AlbEnvs(a) : GetALBContainerEnvs(a)[n] = AlbEnvs(a)[n]
  BY DEF GetALBContainerEnvs, Overlay
<1> DEFINE d == AlbEnvs(a)
           e == GetALBContainerEnvs(a)
<1>2. EnvNames(d, a, a.Controller) /\ EnvNumbers(d, a.Controller) /\ EnvFlags(d, a.Flags)
  BY DEF AlbEnvs, EnvNames, EnvNumbers, EnvFlags
<1>3. DOMAIN d = {"NAME", "NAMESPACE", "NETWORK_MODE", "DEFAULT_SSL_STRATEGY",
            "DEFAULT_SSL_CERTIFICATE", "MAX_TERM_SECONDS", "RELOAD_TIMEOUT", "INTERVAL",
            "GO_MONITOR_PORT", "BACKLOG", "METRICS_PORT", "RESYNC_PERIOD", "WORKER_LIMIT",
            "CPU_PRESET", "INGRESS_HTTP_PORT", "INGRESS_HTTPS_PORT", "ENABLE_VIP",
            "ENABLE_PROMETHEUS", "ENABLE_PORTPROBE", "ENABLE_IPV6", "ENABLE_HTTP2",
            "ENABLE_GZIP", "ENABLE_GO_MONITOR", "ENABLE_PROFILE", "POLICY_ZIP",
            "SERVE_CROSSCLUSTERS", "SERVE_INGRESS", "ALB_ENABLE"}
  BY EnvDomain
<1> HIDE DEF d, e
<1>4. \A n \in DOMAIN d : e[n] = d[n]
  BY <1>1 DEF d, e
<1>5. EnvNames(e, a, a.Controller)
  BY <1>2, <1>3, <1>4 DEF EnvNames
<1>6. EnvNumbers(e, a.Controller)
  BY <1>2, <1>3, <1>4 DEF EnvNumbers
<1>7. EnvFlags(e, a.Flags)
  BY <1>2, <1>3, <1>4 DEF EnvFlags
<1> QED
  BY <1>5, <1>6, <1>7 DEF EnvCarries, e

\* Each of the three sorts of gateway survives the environment.
LEMMA GatewayBack ==
  ASSUME NEW a, NEW e, e = GetALBContainerEnvs(a), GatewayOK(a.Gateway)
  PROVE  GatewayFromEnv(e) = a.Gateway
<1>1. /\ "GATEWAY_ENABLE" \notin DOMAIN AlbEnvs(a) /\ "GATEWAY_MODE" \notin DOMAIN AlbEnvs(a)
      /\ "GATEWAY_CLASSNAME" \notin DOMAIN AlbEnvs(a)
      /\ "GATEWAY_NAME" \notin DOMAIN AlbEnvs(a) /\ "GATEWAY_NS" \notin DOMAIN AlbEnvs(a)
  BY EnvDomain, SMTT(30)
<1>2. ToBool("true") /\ ~ToBool("false")
  BY SMTT(30) DEF ToBool, IsTrue
<1>3. e = Overlay(AlbEnvs(a), GatewayEnvs(a.Gateway))
  BY DEF GetALBContainerEnvs
<1>4. CASE a.Gateway = NoGateway
  <2>1. GatewayEnvs(NoGateway) = [GATEWAY_ENABLE |-> "false"]
    BY DEF GatewayEnvs, NoGateway
  <2>2. Overlay(AlbEnvs(a), [GATEWAY_ENABLE |-> "false"]).GATEWAY_ENABLE = "false"
    BY <1>1 DEF Overlay
  <2>3. e.GATEWAY_ENABLE = "false"
    BY <1>3, <1>4, <2>1, <2>2
  <2> QED
    BY <1>2, <1>4, <2>3 DEF GatewayFromEnv
<1>5. ASSUME NEW n, a.Gateway = SharedAs(n) PROVE GatewayFromEnv(e) = a.Gateway
  <2> DEFINE g == [GATEWAY_ENABLE |-> "true", GATEWAY_MODE |-> "shared", GATEWAY_CLASSNAME |-> n]
  <2>1. GatewayEnvs(SharedAs(n)) = g
    BY DEF GatewayEnvs, NoGateway, SharedAs
  <2>2. /\ Overlay(AlbEnvs(a), g).GATEWAY_ENABLE = "true"
        /\ Overlay(AlbEnvs(a), g).GATEWAY_MODE = "shared"
        /\ Overlay(AlbEnvs(a), g).GATEWAY_CLASSNAME = n
    BY <1>1 DEF Overlay
  <2>3. e = Overlay(AlbEnvs(a), g)
    BY <1>3, <1>5, <2>1
  <2> HIDE DEF g
  <2>4. e.GATEWAY_ENABLE = "true" /\ e.GATEWAY_MODE = "shared" /\ e.GATEWAY_CLASSNAME = n
    BY <2>2, <2>3
  <2> QED
    BY <1>2, <1>5, <2>4 DEF GatewayFromEnv, SharedAs
<1>6. ASSUME NEW n, NEW s, a.Gateway = AloneAs(n, s) PROVE GatewayFromEnv(e) = a.Gateway
  <2> DEFINE g == [GATEWAY_ENABLE |-> "true", GATEWAY_MODE |-> "standalone",
                   GATEWAY_NAME |-> n, GATEWAY_NS |-> s]
  <2>1. GatewayEnvs(AloneAs(n, s)) = g
    BY DEF GatewayEnvs, NoGateway, AloneAs
  <2>2. /\ Overlay(AlbEnvs(a), g).GATEWAY_ENABLE = "true"
        /\ Overlay(AlbEnvs(a), g).GATEWAY_MODE = "standalone"
        /\ Overlay(AlbEnvs(a), g).GATEWAY_NAME = n /\ Overlay(AlbEnvs(a), g).GATEWAY_NS = s
    BY <1>1 DEF Overlay
  <2>3. e = Overlay(AlbEnvs(a), g)
    BY <1>3, <1>6, <2>1
  <2> HIDE DEF g
  <2>4. /\ e.GATEWAY_ENABLE = "true" /\ e.GATEWAY_MODE = "standalone"
        /\ e.GATEWAY_NAME = n /\ e.GATEWAY_NS = s
    BY <2>2, <2>3
  <2> QED
    BY <1>2, <1>6, <2>4 DEF GatewayFromEnv, AloneAs
<1> QED
  BY <1>4, <1>5, <1>6 DEF GatewayOK

\* AlbRunCfgFromEnv undoes GetALBContainerEnvs.
LEMMA RunBack ==
  ASSUME NEW a, ConfigOK(a)
  PROVE  LET run == AlbRunCfgFromEnv(GetALBContainerEnvs(a))
         IN /\ run.Name = a.Name /\ run.Ns = a.Ns
            /\ run.Controller = a.Controller /\ run.Flags = a.Flags /\ run.Gateway = a.Gateway
<1> DEFINE e == GetALBContainerEnvs(a)
<1>1. EnvCarries(e, a)
  BY EnvWritten
<1>2. ControllerFromEnv(e) = a.Controller
  <2>1. \A n \in 0..MaxInt : ToInt(IntToEnv(n)) = n
    BY IntBack
  <2>2. EnvNames(e, a, a.Controller) /\ EnvNumbers(e, a.Controller)
    BY <1>1 DEF EnvCarries
  <2>3. ControllerOK(a.Controller) /\ NumbersOK(a.Controller)
    BY DEF ConfigOK, ControllerOK
  <2> HIDE DEF e
  <2>4. /\ ToInt(e.MAX_TERM_SECONDS) = a.Controller.MaxTermSeconds
      /\ ToInt(e.RELOAD_TIMEOUT) = a.Controller.ReloadTimeout
      /\ ToInt(e.INTERVAL) = a.Controller.Interval
      /\ ToInt(e.GO_MONITOR_PORT) = a.Controller.GoMonitorPort
      /\ ToInt(e.BACKLOG) = a.Controller.BackLog
      /\ ToInt(e.METRICS_PORT) = a.Controller.MetricsPort
      /\ ToInt(e.RESYNC_PERIOD) = a.Controller.ResyncPeriod
      /\ ToInt(e.WORKER_LIMIT) = a.Controller.WorkerLimit
      /\ ToInt(e.CPU_PRESET) = a.Controller.CpuPreset
      /\ ToInt(e.INGRESS_HTTP_PORT) = a.Controller.HttpPort
      /\ ToInt(e.INGRESS_HTTPS_PORT) = a.Controller.HttpsPort
    BY <2>1, <2>2, <2>3 DEF EnvNumbers, NumbersOK
  <2> QED
    BY <2>2, <2>3, <2>4 DEF EnvNames, ControllerFromEnv, ControllerOK
<1>3. FlagsFromEnv(e) = a.Flags
  <2>1. \A x \in BOOLEAN : ToBool(BoolToEnv(x)) = x
    BY BoolBack
  <2>2. EnvFlags(e, a.Flags)
    BY <1>1 DEF EnvCarries
  <2>3. FlagsOK(a.Flags) /\ FlagValuesOK(a.Flags)
    BY DEF ConfigOK, FlagsOK
  <2> HIDE DEF e
  <2>4. /\ ToBool(e.ENABLE_VIP) = a.Flags.EnableLbSvc
      /\ ToBool(e.ENABLE_PROMETHEUS) = a.Flags.EnablePrometheus
      /\ ToBool(e.ENABLE_PORTPROBE) = a.Flags.EnablePortProbe
      /\ ToBool(e.ENABLE_IPV6) = a.Flags.EnableIPV6
      /\ ToBool(e.ENABLE_HTTP2) = a.Flags.EnableHTTP2
      /\ ToBool(e.ENABLE_GZIP) = a.Flags.EnableGzip
      /\ ToBool(e.ENABLE_GO_MONITOR) = a.Flags.EnableGoMonitor
      /\ ToBool(e.ENABLE_PROFILE) = a.Flags.EnableProfile
      /\ ToBool(e.POLICY_ZIP) = a.Flags.PolicyZip
      /\ ToBool(e.SERVE_CROSSCLUSTERS) = a.Flags.EnableCrossClusters
      /\ ToBool(e.SERVE_INGRESS) = a.Flags.EnableIngress
      /\ ToBool(e.ALB_ENABLE) = a.Flags.EnableAlb
    BY <2>1, <2>2, <2>3 DEF EnvFlags, FlagValuesOK
  <2> QED
    BY <2>3, <2>4 DEF FlagsFromEnv, FlagsOK
<1>4. GatewayFromEnv(e) = a.Gateway
  BY GatewayBack DEF ConfigOK
<1> QED
  BY <1>1, <1>2, <1>3, <1>4 DEF AlbRunCfgFromEnv, EnvCarries, EnvNames

\* What a user wrote and the defaults make a configuration that the environment can carry.
LEMMA ExternalTyped ==
  ASSUME NEW spec, ExternalAlbConfig(spec), NEW ec, ec = NewExternalAlbConfigWithDefault(spec)
  PROVE  /\ \A f \in NumberField : ec[f] \in 0..MaxInt
         /\ \A f \in FlagField : ec[f] \in BOOLEAN
         /\ Overlay(ec.Vip, NoVip).EnableLbSvc \in BOOLEAN
         /\ CpuPresetToCore(ec.Resources.NginxLimits.CPU) \in 0..MaxInt
<1> DEFINE old == Overlay(spec, DefaultConfig)
           res == [r \in DOMAIN DefaultResources |->
                     IF r \in DOMAIN old.Resources
                     THEN Overlay(old.Resources[r], DefaultResources[r])
                     ELSE DefaultResources[r]]
<1>1. ec = [old EXCEPT !.Resources = res]
  BY DEF NewExternalAlbConfigWithDefault
<1>2. /\ \A f \in NumberField : old[f] \in 0..MaxInt /\ f \in DOMAIN old
      /\ \A f \in FlagField : old[f] \in BOOLEAN /\ f \in DOMAIN old
  BY Defaults, OverlayTyped DEF ExternalAlbConfig
<1>3. "Vip" \in DOMAIN old /\ "Resources" \in DOMAIN old
  BY DEF Overlay, DefaultConfig
<1>4. /\ "Vip" \in DOMAIN spec => old.Vip = spec.Vip
      /\ "Vip" \notin DOMAIN spec => old.Vip = <<>>
      /\ "Resources" \in DOMAIN spec => old.Resources = spec.Resources
      /\ "Resources" \notin DOMAIN spec => old.Resources = <<>>
  <2>1. /\ DefaultConfig.Vip = <<>> /\ DefaultConfig.Resources = <<>>
        /\ "Vip" \in DOMAIN DefaultConfig /\ "Resources" \in DOMAIN DefaultConfig
    BY SMTT(30) DEF DefaultConfig
  <2> QED
    BY <2>1 DEF Overlay
<1> HIDE DEF old, res
<1>5. /\ \A f \in DOMAIN old : f # "Resources" => ec[f] = old[f]
      /\ ec.Resources = res
  BY <1>1, <1>3
<1>6. \A f \in NumberField \cup FlagField \cup {"Vip"} : f # "Resources"
  BY SMTT(30) DEF NumberField, FlagField
<1>7. Overlay(ec.Vip, NoVip).EnableLbSvc \in BOOLEAN
  <2>1. ec.Vip = old.Vip
    BY <1>3, <1>5, <1>6
  <2>2. Optional(ec.Vip, "EnableLbSvc", BOOLEAN)
    <3>1. "EnableLbSvc" \notin DOMAIN <<>>
      BY SMTT(30)
    <3> QED
      BY <1>4, <2>1, <3>1 DEF Optional, ExternalAlbConfig
  <2>3. "EnableLbSvc" \in DOMAIN NoVip /\ NoVip.EnableLbSvc \in BOOLEAN
    BY DEF NoVip
  <2> QED
    BY <2>2, <2>3, OverlayTyped
<1>8. CpuPresetToCore(res.NginxLimits.CPU) \in 0..MaxInt
  <2>1. "NginxLimits" \in DOMAIN DefaultResources
    BY DEF DefaultResources
  <2>2. /\ "CPU" \in DOMAIN DefaultResources.NginxLimits
        /\ CpuPresetToCore(DefaultResources.NginxLimits.CPU) \in 0..MaxInt
    <3>1. ASSUME NEW q, q.n = 2 PROVE CpuPresetToCore(q) \in 0..MaxInt
      BY <3>1, SMTT(30) DEF CpuPresetToCore, MaxInt
    <3>2. /\ "CPU" \in DOMAIN DefaultResources.NginxLimits
          /\ DefaultResources.NginxLimits.CPU.n = 2
      BY DEF DefaultResources, Limit, Cores
    <3> QED
      BY <3>1, <3>2
  <2>3. CASE "NginxLimits" \notin DOMAIN old.Resources
    <3>1. res.NginxLimits = DefaultResources.NginxLimits
      BY <2>1, <2>3 DEF res
    <3> QED
      BY <2>2, <3>1
  <2>4. CASE "NginxLimits" \in DOMAIN old.Resources
    <3> DEFINE lim == old.Resources.NginxLimits
    <3>1. res.NginxLimits = Overlay(lim, DefaultResources.NginxLimits)
      BY <2>1, <2>4 DEF res
    <3>2. old.Resources # <<>>
      BY <2>4, SMTT(30)
    <3>3. "Resources" \in DOMAIN spec /\ old.Resources = spec.Resources
      BY <1>4, <3>2
    <3>4. "CPU" \in DOMAIN lim => CpuPresetToCore(lim.CPU) \in 0..MaxInt
      BY <2>4, <3>3 DEF ExternalAlbConfig
    <3> HIDE DEF lim
    <3>5. CASE "CPU" \in DOMAIN lim
      BY <3>1, <3>4, <3>5 DEF Overlay
    <3>6. CASE "CPU" \notin DOMAIN lim
      BY <2>2, <3>1, <3>6 DEF Overlay
    <3> QED
      BY <3>5, <3>6
  <2> QED
    BY <2>3, <2>4
<1> QED
  BY <1>2, <1>5, <1>6, <1>7, <1>8

\* What a gateway of its own changes.
LEMMA ControllerKept ==
  ASSUME NEW c, ControllerOK(c) PROVE ControllerOK([c EXCEPT !.NetworkMode = "container"])
BY SMTT(30) DEF ControllerOK, NumbersOK

LEMMA FlagsKept ==
  ASSUME NEW f, FlagsOK(f), NEW v \in BOOLEAN
  PROVE  /\ FlagsOK([f EXCEPT !.EnableLbSvc = v]) /\ FlagsOK([f EXCEPT !.EnablePortProbe = v])
         /\ FlagsOK([f EXCEPT !.EnableAlb = v]) /\ FlagsOK([f EXCEPT !.EnableIngress = v])
<1>1. FlagsOK([f EXCEPT !.EnableLbSvc = v])
  BY SMTT(30) DEF FlagsOK, FlagValuesOK
<1>2. FlagsOK([f EXCEPT !.EnablePortProbe = v])
  BY SMTT(30) DEF FlagsOK, FlagValuesOK
<1>3. FlagsOK([f EXCEPT !.EnableAlb = v])
  BY SMTT(30) DEF FlagsOK, FlagValuesOK
<1>4. FlagsOK([f EXCEPT !.EnableIngress = v])
  BY SMTT(30) DEF FlagsOK, FlagValuesOK
<1> QED
  BY <1>1, <1>2, <1>3, <1>4

\* NewALB2Config: whatever the user leaves out or turns on, the environment can carry the
\* outcome, and the instance hears of a load balancer service exactly when there is one.
LEMMA ConfigRight ==
  ASSUME NEW spec, ExternalAlbConfig(spec)
  PROVE  ConfigOK(NewALB2Config("alb", "ns", spec))
<1> DEFINE ec == NewExternalAlbConfigWithDefault(spec)
           vip == Overlay(ec.Vip, NoVip)
           a == [Name |-> "alb", Ns |-> "ns", Vip |-> vip, Gateway |-> NoGateway,
                 Controller |-> MergeController(ec), Flags |-> FlagsFromCr(ec, vip),
                 Deploy |-> MergeDeploy(ec), Project |-> MergeProject(ec),
                 BindNic |-> ec.BindNIC, Overwrite |-> Overlay(ec.Overwrite, NoOverwrite),
                 OpFlags |-> MergeOperatorFlags(ec)]
           g == ec.Gateway
<1>1. NewALB2Config("alb", "ns", spec) = GatewayFromCr(ec, a)
  BY DEF NewALB2Config
<1>2. /\ \A f \in NumberField : ec[f] \in 0..MaxInt
      /\ \A f \in FlagField : ec[f] \in BOOLEAN
      /\ vip.EnableLbSvc \in BOOLEAN
      /\ CpuPresetToCore(ec.Resources.NginxLimits.CPU) \in 0..MaxInt
  BY ExternalTyped
<1>3. "EnableLbSvc" \in DOMAIN vip
  BY DEF Overlay, NoVip
<1> HIDE DEF ec, vip
<1>4. /\ ec.Backlog \in 0..MaxInt /\ ec.MetricsPort \in 0..MaxInt
      /\ ec.IngressHTTPPort \in 0..MaxInt /\ ec.IngressHTTPSPort \in 0..MaxInt
      /\ ec.MaxTermSeconds \in 0..MaxInt /\ ec.ReloadTimeout \in 0..MaxInt
      /\ ec.Interval \in 0..MaxInt /\ ec.WorkerLimit \in 0..MaxInt
      /\ ec.ResyncPeriod \in 0..MaxInt /\ ec.GoMonitorPort \in 0..MaxInt
  BY <1>2 DEF NumberField
<1>5. /\ ec.EnableAlb \in BOOLEAN /\ ec.EnableGoMonitor \in BOOLEAN
      /\ ec.EnableProfile \in BOOLEAN /\ ec.PolicyZip \in BOOLEAN
  BY <1>2 DEF FlagField
<1>6. CpuPresetToCore(ec.Resources.NginxLimits.CPU) \in 0..MaxInt
  BY <1>2
<1>7. /\ ControllerOK(MergeController(ec))
      /\ ControllerOK([MergeController(ec) EXCEPT !.NetworkMode = "container"])
  <2>1. ControllerOK(MergeController(ec))
    BY <1>4, <1>6 DEF MergeController, ControllerOK, NumbersOK
  <2> QED
    BY <2>1, ControllerKept
<1>8. \A x : IsTrue(x) \in BOOLEAN
  BY SMTT(30) DEF IsTrue
<1>9. FlagsOK(FlagsFromCr(ec, vip))
  BY <1>2, <1>5, <1>8 DEF FlagsFromCr, FlagsOK, FlagValuesOK
<1>10. ConfigOK(a)
  BY <1>7, <1>9 DEF ConfigOK, GatewayOK, FlagsFromCr
<1>11. ASSUME NEW n PROVE ConfigOK([a EXCEPT !.Gateway = SharedAs(n)])
  BY <1>7, <1>9 DEF ConfigOK, GatewayOK, FlagsFromCr
<1>12. ConfigOK(SharedGateway(g, a))
  BY <1>11 DEF SharedGateway, SharedAs
<1>13. ConfigOK(StandAloneGateway(g, a))
  <2> DEFINE b == StandAloneGateway(g, a)
  <2>1. b.Controller = [MergeController(ec) EXCEPT !.NetworkMode = "container"]
    BY DEF StandAloneGateway, EnableContainerMode, EnableVip
  <2>2. \E n, s : b.Gateway = AloneAs(n, s)
    BY DEF StandAloneGateway, EnableContainerMode, EnableVip, AloneAs
  <2>3. b.Name = "alb" /\ b.Vip.EnableLbSvc = TRUE
    BY <1>3 DEF StandAloneGateway, EnableContainerMode, EnableVip
  <2>4. b.Flags = [[[FlagsFromCr(ec, vip) EXCEPT !.EnableLbSvc = TRUE]
                     EXCEPT !.EnablePortProbe = FALSE]
                    EXCEPT !.EnableAlb = FALSE, !.EnableIngress = FALSE, !.EnablePortProbe = FALSE]
    BY DEF StandAloneGateway, EnableContainerMode, EnableVip
  <2> HIDE DEF b
  <2>5. FlagsOK(b.Flags) /\ b.Flags.EnableLbSvc = TRUE
    <3> DEFINE f1 == [FlagsFromCr(ec, vip) EXCEPT !.EnableLbSvc = TRUE]
               f2 == [f1 EXCEPT !.EnablePortProbe = FALSE]
               f3 == [f2 EXCEPT !.EnableAlb = FALSE]
               f4 == [f3 EXCEPT !.EnableIngress = FALSE]
               f5 == [f4 EXCEPT !.EnablePortProbe = FALSE]
    <3>1. b.Flags = f5
      BY <2>4
    <3>2. f5.EnableLbSvc = TRUE
      BY DEF FlagsFromCr
    <3> HIDE DEF f1, f2, f3, f4, f5
    <3>3. FlagsOK(f1)
      BY <1>9, FlagsKept DEF f1
    <3>4. FlagsOK(f2)
      BY <3>3, FlagsKept DEF f2
    <3>5. FlagsOK(f3)
      BY <3>4, FlagsKept DEF f3
    <3>6. FlagsOK(f4)
      BY <3>5, FlagsKept DEF f4
    <3>7. FlagsOK(f5)
      BY <3>6, FlagsKept DEF f5
    <3> QED
      BY <3>1, <3>2, <3>7
  <2>6. ControllerOK(b.Controller)
    BY <1>7, <2>1
  <2>7. GatewayOK(b.Gateway)
    BY <2>2 DEF GatewayOK
  <2>8. ConfigOK(b)
    BY <2>3, <2>5, <2>6, <2>7 DEF ConfigOK
  <2> QED
    BY <2>8 DEF b
<1> HIDE DEF a
<1>14. GatewayFromCr(ec, a) \in {a, SharedGateway(g, a), StandAloneGateway(g, a)}
  BY DEF GatewayFromCr
<1> QED
  BY <1>1, <1>10, <1>12, <1>13, <1>14

\* The parts of a deployment that NeedUpdate compares and the pods live by.
HasParts(x) ==
  /\ "Spec" \in DOMAIN x /\ "Alb" \in DOMAIN x /\ "Nginx" \in DOMAIN x
  /\ "Hostnetwork" \in DOMAIN x.Spec /\ "PodLabel" \in DOMAIN x.Spec
  /\ "Affinity" \in DOMAIN x.Spec
SameParts(x, y) ==
  /\ x.Alb = y.Alb /\ x.Nginx = y.Nginx
  /\ x.Spec.Hostnetwork = y.Spec.Hostnetwork /\ x.Spec.PodLabel = y.Spec.PodLabel
  /\ x.Spec.Affinity = y.Spec.Affinity
MadeFrom(x, a, v, inject) ==
  /\ x.Alb.Env = GetALBContainerEnvs(a)
  /\ x.Nginx.Env = GetNginxContainerEnvs(a, v, inject)
  /\ x.Nginx.ProbePort = a.Controller.MetricsPort
  /\ x.Spec.Hostnetwork = (a.Controller.NetworkMode = "host")
  /\ x.Spec.PodLabel = ExpectPodLabel(a, v)
  /\ x.Spec.Affinity = GenExpectAffinity(a)

\* What Generate puts where.
LEMMA DeployFields ==
  ASSUME NEW a, NEW long, NEW v, NEW ann
  PROVE  /\ HasParts(Generate(a, long, v, ann))
         /\ MadeFrom(Generate(a, long, v, ann), a, v, ann.nginxEnv)
<1>1. HasParts(Generate(a, long, v, ann))
  BY DEF Generate, ExpectConfig, HasParts
<1>2. MadeFrom(Generate(a, long, v, ann), a, v, ann.nginxEnv)
  BY DEF Generate, ExpectConfig, MadeFrom
<1> QED
  BY <1>1, <1>2

\* A deployment that needs no update has the parts wanted: normalising it for the API server
\* (Stored) and for the comparison (PickConfigFromDeploy) leaves them alone.
LEMMA PartsCompared ==
  ASSUME NEW x, NEW y, ~NeedUpdate(Stored(x), y), HasParts(x), HasParts(y)
  PROVE  SameParts(x, y)
<1> DEFINE P(d) == PickConfigFromDeploy(d)
<1>1. P(Stored(x)) = P(y)
  BY DEF NeedUpdate
<1>2. /\ P(Stored(x)).Alb = x.Alb /\ P(Stored(x)).Nginx = x.Nginx
      /\ P(Stored(x)).Spec.Hostnetwork = x.Spec.Hostnetwork
      /\ P(Stored(x)).Spec.PodLabel = x.Spec.PodLabel
      /\ P(Stored(x)).Spec.Affinity = x.Spec.Affinity
  BY DEF PickConfigFromDeploy, Stored, HasParts
<1>3. /\ P(y).Alb = y.Alb /\ P(y).Nginx = y.Nginx
      /\ P(y).Spec.Hostnetwork = y.Spec.Hostnetwork /\ P(y).Spec.PodLabel = y.Spec.PodLabel
      /\ P(y).Spec.Affinity = y.Spec.Affinity
  BY DEF PickConfigFromDeploy, HasParts
<1> HIDE DEF P
<1> QED
  BY <1>1, <1>2, <1>3 DEF SameParts

\* A deployment that needs no update carries the wanted configuration b, whatever a and
\* version it was made from.
DeployCarries(x, b, w) ==
  LET run == AlbRunCfgFromEnv(x.Alb.Env)
  IN /\ run.Name = b.Name /\ run.Ns = b.Ns
     /\ run.Controller = b.Controller /\ run.Flags = b.Flags /\ run.Gateway = b.Gateway
     /\ x.Spec.Hostnetwork = (b.Controller.NetworkMode = "host")
     /\ x.Nginx.ProbePort = b.Controller.MetricsPort
     /\ x.Spec.PodLabel = ExpectPodLabel(b, w) /\ x.Spec.Affinity = GenExpectAffinity(b)
     /\ \A n \in {"NAME", "DEFAULT_SSL_STRATEGY", "INGRESS_HTTPS_PORT", "MAX_TERM_SECONDS",
                  "POLICY_ZIP"} : x.Alb.Env[n] = x.Nginx.Env[n]

LEMMA DeployRight ==
  ASSUME NEW a, NEW b, ConfigOK(b), NEW long, NEW v, NEW w, NEW ann1, NEW ann2,
         NEW x, NEW y, x = Generate(a, long, v, ann1), y = Generate(b, long, w, ann2),
         ~NeedUpdate(Stored(x), y)
  PROVE  DeployCarries(x, b, w)
<1>1. SameParts(x, y)
  BY DeployFields, PartsCompared
<1>2. MadeFrom(y, b, w, ann2.nginxEnv)
  BY DeployFields
<1> DEFINE e == GetALBContainerEnvs(b)
           f == GetNginxContainerEnvs(b, w, ann2.nginxEnv)
<1>3. /\ e.NAME = f.NAME /\ e.DEFAULT_SSL_STRATEGY = f.DEFAULT_SSL_STRATEGY
      /\ e.INGRESS_HTTPS_PORT = f.INGRESS_HTTPS_PORT
      /\ e.MAX_TERM_SECONDS = f.MAX_TERM_SECONDS /\ e.POLICY_ZIP = f.POLICY_ZIP
  <2>1. EnvCarries(e, b)
    BY EnvWritten
  <2> HIDE DEF e
  <2> QED
    BY <2>1 DEF EnvCarries, EnvNames, EnvNumbers, EnvFlags, GetNginxContainerEnvs
<1> HIDE DEF e, f
<1>4. \A n \in {"NAME", "DEFAULT_SSL_STRATEGY", "INGRESS_HTTPS_PORT", "MAX_TERM_SECONDS",
                "POLICY_ZIP"} : e[n] = f[n]
  BY <1>3
<1>5. x.Alb.Env = e /\ x.Nginx.Env = f
  BY <1>1, <1>2 DEF e, f, SameParts, MadeFrom
<1>6. LET run == AlbRunCfgFromEnv(e)
      IN /\ run.Name = b.Name /\ run.Ns = b.Ns
         /\ run.Controller = b.Controller /\ run.Flags = b.Flags /\ run.Gateway = b.Gateway
  BY RunBack DEF e
<1> QED
  BY <1>1, <1>2, <1>4, <1>5, <1>6 DEF DeployCarries, SameParts, MadeFrom

\* The service for the metrics, and the labels its pods and those of a load balancer
\* service are found by.
LEMMA ServiceFields ==
  ASSUME NEW b, NEW long, NEW w
  PROVE  /\ PatchMonitorSvc(b, long, w).Ports[1].Port = b.Controller.MetricsPort
         /\ PatchMonitorSvc(b, long, w).Selector = {ServiceName(b)}
         /\ PatchLbSvc(b, long, w).Selector = {ServiceName(b)}
         /\ ServiceName(b) \in ExpectPodLabel(b, w)
         /\ b.Controller.NetworkMode = "host"
              => /\ TypeLabel(b) \in ExpectPodLabel(b, w)
                 /\ GenExpectAffinity(b) = [label |-> TypeLabel(b), rule |-> "required"]
<1>1. PatchMonitorSvc(b, long, w).Selector = {ServiceName(b)}
  BY DEF PatchMonitorSvc
<1>2. PatchLbSvc(b, long, w).Selector = {ServiceName(b)}
  BY DEF PatchLbSvc
<1>3. ServiceName(b) \in ExpectPodLabel(b, w)
  BY DEF ExpectPodLabel
<1>4. ASSUME b.Controller.NetworkMode = "host"
      PROVE  /\ TypeLabel(b) \in ExpectPodLabel(b, w)
             /\ GenExpectAffinity(b) = [label |-> TypeLabel(b), rule |-> "required"]
  BY <1>4 DEF ExpectPodLabel, GenExpectAffinity
<1>5. PatchMonitorSvc(b, long, w).Ports[1].Port = b.Controller.MetricsPort
  <2> DEFINE port(name, n) == IF n = 0 THEN <<>> ELSE <<[Name |-> name, Port |-> n]>>
             m == [Name |-> "https-metrics", Port |-> b.Controller.MetricsPort]
             s == port("http", b.Controller.HttpPort)
             t == port("https", b.Controller.HttpsPort)
  <2>1. PatchMonitorSvc(b, long, w).Ports = <<m>> \o s \o t
    BY DEF PatchMonitorSvc
  <2> DEFINE Port == {m, [Name |-> "http", Port |-> b.Controller.HttpPort],
                      [Name |-> "https", Port |-> b.Controller.HttpsPort]}
  <2>2. m \in Port /\ s \in Seq(Port) /\ t \in Seq(Port)
    BY SMTT(30)
  <2>3. m.Port = b.Controller.MetricsPort
    OBVIOUS
  <2> HIDE DEF m, s, t, Port
  <2>4. (<<m>> \o s \o t)[1] = m
    BY <2>2, SMTT(30)
  <2> QED
    BY <2>1, <2>3, <2>4
<1> QED
  BY <1>1, <1>2, <1>3, <1>4, <1>5

\* Whatever a user calls a shared gateway, its class is the alb's, if OwnClass holds.
LEMMA ClassRight ==
  ASSUME NEW spec, OwnClass(spec), NEW g, g = NewALB2Config("alb", "ns", spec).Gateway,
         g.Enable, g.Mode = "shared"
  PROVE  g.Class = <<"alb">>
<1> DEFINE ec == NewExternalAlbConfigWithDefault(spec)
           vip == Overlay(ec.Vip, NoVip)
           a == [Name |-> "alb", Ns |-> "ns", Vip |-> vip, Gateway |-> NoGateway,
                 Controller |-> MergeController(ec), Flags |-> FlagsFromCr(ec, vip),
                 Deploy |-> MergeDeploy(ec), Project |-> MergeProject(ec),
                 BindNic |-> ec.BindNIC, Overwrite |-> Overlay(ec.Overwrite, NoOverwrite),
                 OpFlags |-> MergeOperatorFlags(ec)]
           w == ec.Gateway
<1>1. g = GatewayFromCr(ec, a).Gateway
  BY DEF NewALB2Config
<1>2. ("Gateway" \in DOMAIN spec /\ w = spec.Gateway) \/ w = <<>>
  <2>1. /\ DefaultConfig.Gateway = <<>> /\ "Gateway" \in DOMAIN DefaultConfig
        /\ "Gateway" # "Resources"
    BY SMTT(30) DEF DefaultConfig
  <2>2. /\ "Gateway" \in DOMAIN Overlay(spec, DefaultConfig)
        /\ "Gateway" \in DOMAIN spec => Overlay(spec, DefaultConfig).Gateway = spec.Gateway
        /\ "Gateway" \notin DOMAIN spec => Overlay(spec, DefaultConfig).Gateway = <<>>
    BY <2>1 DEF Overlay
  <2>3. w = Overlay(spec, DefaultConfig).Gateway
    BY <2>1, <2>2 DEF NewExternalAlbConfigWithDefault
  <2> QED
    BY <2>2, <2>3
<1>3. a.Name = "alb" /\ a.Gateway = NoGateway /\ "Gateway" \in DOMAIN a
  OBVIOUS
<1>4. StandAloneGateway(w, a).Gateway.Mode = "standalone"
  BY DEF StandAloneGateway, EnableContainerMode, EnableVip, NoGateway
<1> HIDE DEF ec, vip, a
<1>5. SharedGateway(w, a).Gateway.Class = IF "Name" \in DOMAIN w THEN w.Name ELSE <<"alb">>
  BY <1>3 DEF SharedGateway, NoGateway
<1>6. ~NoGateway.Enable /\ "standalone" # "shared"
  BY DEF NoGateway
<1>7. \/ GatewayFromCr(ec, a) \in {a, StandAloneGateway(w, a)}
      \/ /\ GatewayFromCr(ec, a) = SharedGateway(w, a)
         /\ "Mode" \in DOMAIN w => w.Mode = "shared"
  BY DEF GatewayFromCr
<1>8. "Name" \notin DOMAIN <<>>
  BY SMTT(30)
<1>9. /\ GatewayFromCr(ec, a) = SharedGateway(w, a)
      /\ "Mode" \in DOMAIN w => w.Mode = "shared"
  BY <1>1, <1>3, <1>4, <1>6, <1>7
<1>10. "Name" \in DOMAIN w => w.Name = <<"alb">>
  BY <1>2, <1>8, <1>9 DEF OwnClass
<1> QED
  BY <1>1, <1>5, <1>9, <1>10

LEMMA OneThenOne ==
  ASSUME NEW S, NEW x \in S, NEW y \in S PROVE <<x>> \o <<y>> = <<x, y>>
<1>1. ASSUME NEW s \in Seq(S), s = <<x>> \o <<y>> PROVE Len(s) = 2 /\ s[1] = x /\ s[2] = y
  BY <1>1, SMTT(30)
<1>2. ASSUME NEW s \in Seq(S), Len(s) = 2, s[1] = x, s[2] = y PROVE s = <<x, y>>
  BY <1>2, SMTT(30)
<1>3. <<x>> \o <<y>> \in Seq(S)
  BY ShortTyped, ConcatTyped
<1> QED
  BY <1>1, <1>2, <1>3

\* The objects of a settled alb carry its configuration, whatever configurations and
\* versions they were last written from.
LEMMA SettledCarries ==
  ASSUME LifeInv, TypeInv, AnnInv, alb # None, alb.conf # None, Settled
  PROVE  LET b == CfgOf[alb.conf]
             o == obj["deploy"]
             m == obj["monitor"]
         IN /\ alb.conf \in Conf /\ ConfigOK(b)
            /\ o.conf \in Conf /\ o.ver \in Version
            /\ DeployCarries(DeployOf[o.conf][o.ver], b, version)
            /\ MonitorOf[m.conf][m.ver] = PatchMonitorSvc(b, LongName, version)
            /\ \A l \in LbName :
                 obj[l] # None => LbOf[obj[l].conf][obj[l].ver] = PatchLbSvc(b, LongName, version)
<1> DEFINE b == CfgOf[alb.conf]
           o == obj["deploy"]
           m == obj["monitor"]
<1>1. alb.conf \in Conf /\ version \in Version
  BY DEF LifeInv, AlbOK, Alb
<1>2. b = NewALB2Config("alb", "ns", SpecOf(alb.conf).spec)
  BY <1>1 DEF CfgOf
<1>3. ConfigOK(b)
  BY <1>1, <1>2, ConfTyped, ConfigRight
<1>4. /\ o \in Obj /\ m \in Obj /\ o.conf \in Conf /\ m.conf \in Conf
      /\ o.ver \in Version /\ m.ver \in Version
  <2>1. o # None /\ m # None
    BY DEF Settled
  <2>2. "deploy" \in FromConf /\ "monitor" \in FromConf
    BY DEF FromConf
  <2>3. o \in Obj /\ m \in Obj
    BY <2>1, <2>2, FromConfKinds DEF TypeInv, ObjOK
  <2>4. o.conf \in Conf /\ m.conf \in Conf
    BY <2>1, <2>2 DEF AnnInv
  <2> QED
    BY <2>3, <2>4 DEF Obj
<1> HIDE DEF b, o, m
<1>5. ~NeedUpdate(Stored(DeployOf[o.conf][o.ver]), DeployOf[alb.conf][version])
  <2>1. ~DeployDiffersTable[o.conf][alb.conf][o.ver][version]
    BY DEF Settled, DeployDiffers, o
  <2> QED
    BY <1>1, <1>4, <2>1 DEF DeployDiffersTable
<1>6. /\ DeployOf[o.conf][o.ver] = Generate(CfgOf[o.conf], LongName, o.ver, SpecOf(o.conf).ann)
      /\ DeployOf[alb.conf][version] = Generate(b, LongName, version, SpecOf(alb.conf).ann)
  BY <1>1, <1>4 DEF DeployOf, b
<1>7. DeployCarries(DeployOf[o.conf][o.ver], b, version)
  BY <1>3, <1>5, <1>6, DeployRight
<1>8. MonitorOf[m.conf][m.ver] = PatchMonitorSvc(b, LongName, version)
  <2>1. MonitorOf[m.conf][m.ver] = MonitorOf[alb.conf][version]
    BY DEF Settled, MonitorDiffers, m
  <2> QED
    BY <1>1, <2>1 DEF MonitorOf, b
<1>9. ASSUME NEW l \in LbName, obj[l] # None
      PROVE  LbOf[obj[l].conf][obj[l].ver] = PatchLbSvc(b, LongName, version)
  <2>1. LbOf[obj[l].conf][obj[l].ver] = LbOf[alb.conf][version]
    BY <1>9 DEF Settled, LbDiffers
  <2> QED
    BY <1>1, <2>1 DEF LbOf, b
<1> QED
  BY <1>1, <1>3, <1>4, <1>7, <1>8, <1>9 DEF b, o, m

\* The instance of a settled alb runs with its configuration.
LEMMA SettledRuns ==
  ASSUME LifeInv, TypeInv, AnnInv PROVE RunsAsAsked
<1> SUFFICES ASSUME alb # None, alb.conf # None, Settled PROVE RunsAsAsked
  BY DEF RunsAsAsked
<1> DEFINE o == obj["deploy"]
<1>1. /\ o.conf \in Conf /\ o.ver \in Version
      /\ DeployCarries(DeployOf[o.conf][o.ver], CfgOf[alb.conf], version)
  BY SettledCarries
<1>2. RunOf[o.conf][o.ver] = AlbRunCfgFromEnv(DeployOf[o.conf][o.ver].Alb.Env)
  BY <1>1 DEF RunOf
<1> HIDE DEF o
<1>3. LET run == RunOf[o.conf][o.ver]
          cfg == CfgOf[alb.conf]
      IN /\ run.Name = cfg.Name /\ run.Ns = cfg.Ns
         /\ run.Controller = cfg.Controller /\ run.Flags = cfg.Flags /\ run.Gateway = cfg.Gateway
  BY <1>1, <1>2 DEF DeployCarries
<1> QED
  BY <1>3 DEF RunsAsAsked, o

\* The parts of a settled alb agree.
LEMMA SettledAgrees ==
  ASSUME OwnClasses, LifeInv, TypeInv, AnnInv PROVE PartsAgree
<1> SUFFICES ASSUME alb # None, alb.conf # None, Settled PROVE PartsAgree
  BY DEF PartsAgree
<1> DEFINE b == CfgOf[alb.conf]
           o == obj["deploy"]
           m == obj["monitor"]
           depl == DeployOf[o.conf][o.ver]
           run == RunOf[o.conf][o.ver]
           mon == MonitorOf[m.conf][m.ver]
<1>1. /\ alb.conf \in Conf /\ ConfigOK(b)
      /\ o.conf \in Conf /\ o.ver \in Version
      /\ DeployCarries(depl, b, version)
      /\ mon = PatchMonitorSvc(b, LongName, version)
      /\ \A l \in LbName :
           obj[l] # None => LbOf[obj[l].conf][obj[l].ver] = PatchLbSvc(b, LongName, version)
  BY SettledCarries
<1>2. run = AlbRunCfgFromEnv(depl.Alb.Env)
  BY <1>1 DEF RunOf
<1>3. /\ LbWanted(alb.conf) = b.Vip.EnableLbSvc /\ IngressOn(alb.conf) = b.Flags.EnableIngress
      /\ SharedGatewayOn(alb.conf) = (b.Gateway.Enable /\ b.Gateway.Mode = "shared")
  BY DEF LbWanted, IngressOn, SharedGatewayOn
<1>4. SharedGatewayOn(alb.conf) => b.Gateway.Class = <<"alb">>
  <2>1. b = NewALB2Config("alb", "ns", SpecOf(alb.conf).spec) /\ OwnClass(SpecOf(alb.conf).spec)
    BY <1>1 DEF CfgOf, OwnClasses
  <2> HIDE DEF b
  <2> QED
    BY <1>3, <2>1, ClassRight
<1> HIDE DEF b, o, m, depl, run, mon
<1>5. /\ run.Controller = b.Controller /\ run.Flags = b.Flags /\ run.Gateway = b.Gateway
      /\ depl.Spec.Hostnetwork = (b.Controller.NetworkMode = "host")
      /\ depl.Nginx.ProbePort = b.Controller.MetricsPort
      /\ depl.Spec.PodLabel = ExpectPodLabel(b, version)
      /\ depl.Spec.Affinity = GenExpectAffinity(b)
      /\ \A n \in {"NAME", "DEFAULT_SSL_STRATEGY", "INGRESS_HTTPS_PORT", "MAX_TERM_SECONDS",
                   "POLICY_ZIP"} : depl.Alb.Env[n] = depl.Nginx.Env[n]
  BY <1>1, <1>2 DEF DeployCarries
<1>6. /\ b.Name = "alb" /\ b.Flags.EnableLbSvc = b.Vip.EnableLbSvc
      /\ b.Flags.EnableLbSvc \in BOOLEAN /\ b.Flags.EnableIngress \in BOOLEAN
  BY <1>1 DEF ConfigOK, FlagsOK, FlagValuesOK
<1>7. run.Flags.EnableLbSvc = (\E l \in LbName : obj[l] # None)
  <2>1. LbWanted(alb.conf) <=> \E l \in LbName : obj[l] # None
    BY DEF Settled
  <2> QED
    BY <1>3, <1>5, <1>6, <2>1
<1>8. run.Flags.EnableIngress = (obj["ingressclass"] # None)
  <2>1. IngressOn(alb.conf) <=> obj["ingressclass"] # None
    BY DEF Settled
  <2> QED
    BY <1>3, <1>5, <1>6, <2>1
<1>9. obj["gatewayclass"] # None => GatewaySelector(run) = <<"class", GenGatewayClass(b).Name>>
  <2> SUFFICES ASSUME obj["gatewayclass"] # None
               PROVE  GatewaySelector(run) = <<"class", GenGatewayClass(b).Name>>
    OBVIOUS
  <2>1. SharedGatewayOn(alb.conf)
    BY DEF Settled
  <2>2. run.Gateway.Enable /\ run.Gateway.Mode = "shared" /\ run.Gateway.Class = <<"alb">>
    BY <1>3, <1>4, <1>5, <2>1
  <2>3. GatewaySelector(run) = <<"class">> \o <<"alb">>
    BY <2>2 DEF GatewaySelector
  <2>4. <<"class">> \o <<"alb">> = <<"class", "alb">>
    <3>1. "class" \in {"class", "alb"} /\ "alb" \in {"class", "alb"}
      OBVIOUS
    <3> QED
      BY <3>1, OneThenOne
  <2>5. GenGatewayClass(b).Name = "alb"
    BY <1>6 DEF GenGatewayClass
  <2> QED
    BY <2>3, <2>4, <2>5
<1>10. /\ mon.Ports[1].Port = b.Controller.MetricsPort /\ mon.Selector = {ServiceName(b)}
       /\ ServiceName(b) \in ExpectPodLabel(b, version)
       /\ \A l \in LbName :
            obj[l] # None => LbOf[obj[l].conf][obj[l].ver].Selector = {ServiceName(b)}
  BY <1>1, ServiceFields
<1>11. depl.Spec.Hostnetwork
         => depl.Spec.Affinity.rule = "required" /\ depl.Spec.Affinity.label \in depl.Spec.PodLabel
  <2> SUFFICES ASSUME depl.Spec.Hostnetwork
               PROVE  /\ depl.Spec.Affinity.rule = "required"
                      /\ depl.Spec.Affinity.label \in depl.Spec.PodLabel
    OBVIOUS
  <2>1. /\ TypeLabel(b) \in ExpectPodLabel(b, version)
        /\ GenExpectAffinity(b) = [label |-> TypeLabel(b), rule |-> "required"]
    BY <1>5, ServiceFields
  <2>2. /\ [label |-> TypeLabel(b), rule |-> "required"].rule = "required"
        /\ [label |-> TypeLabel(b), rule |-> "required"].label = TypeLabel(b)
    OBVIOUS
  <2> QED
    BY <1>5, <2>1, <2>2
<1>12. /\ depl.Spec.Hostnetwork = (run.Controller.NetworkMode = "host")
       /\ run.Controller.MetricsPort = mon.Ports[1].Port
       /\ run.Controller.MetricsPort = depl.Nginx.ProbePort
       /\ mon.Selector \subseteq depl.Spec.PodLabel
       /\ \A l \in LbName :
            obj[l] # None => LbOf[obj[l].conf][obj[l].ver].Selector \subseteq depl.Spec.PodLabel
  BY <1>5, <1>10
<1> QED
  BY <1>5, <1>7, <1>8, <1>9, <1>11, <1>12 DEF PartsAgree, b, o, m, depl, run, mon

\* SettledRight: whatever configurations, versions, faults and hands of others an alb went
\* through, once a reconcile leaves it settled (depl_ctl.go Update) its instance runs with
\* the configuration asked for, services, classes, probes and pods agree with it, and the
\* load balancer service has its annotations.  The comparisons that decide about an update
\* leave parts out and work on normalised copies; that nothing the pods live by is lost in
\* them, nor on the way through the environment, is what the proof shows.  OwnClasses is
\* needed: the gatewayclass has the alb's name even when the instance is told another one.
THEOREM SettledIsRight == ASSUME CloudKeyFree, OwnClasses PROVE Spec => []SettledRight
<1> DEFINE Inv == LifeInv /\ TypeInv /\ AnnInv
<1>1. Init => Inv
  BY LifeInvInit, TypeInit, AnnInit
<1>2. Inv /\ [Next]_vars => Inv'
  BY LifeInvNext, TypeStep, AnnStep
<1>3. Inv => PartsAgree /\ RunsAsAsked
  BY SettledRuns, SettledAgrees
<1>4. Inv => SettledRight
  BY <1>3, AnnotatedRight DEF SettledRight
<1> QED
  BY <1>1, <1>2, <1>4, PTL DEF Spec
=============================================================================
