--------------------------- MODULE PortProbeProofs ---------------------------
(***************************************************************************)
(* Proofs about PortProbe: every variable keeps its type, and a new port   *)
(* status of the alb names only pods the leader knows.                     *)
(*                                                                         *)
(* The type invariant is inductive.  It is proved in parts, one lemma per  *)
(* kind of step: the cluster, the informers, the reports of a pod, and the *)
(* two halves of the leader's round.                                       *)
(***************************************************************************)
EXTENDS PortProbe, TLAPS

\* The prover of every leaf that names none.
USE ZenonT(30)

\* A step of the cluster or of the election leaves the reports on the server alone.
LEMMA ClusterTyped ==
  ASSUME TypeOK, NEW p \in Pod,
         StartPod(p) \/ DeletePod(p) \/ Elect(p) \/ \E f \in Ft : Flip(p, f)
  PROVE  TypeOK'
<1>1. CASE StartPod(p)
  BY <1>1, ProbeConstants, SMTT(30) DEF StartPod, TypeOK, ProbeConstants, server, PortStatus, Reports
<1>2. CASE DeletePod(p)
  <2>1. NoReports \in Reports /\ NoConflicts \in PortStatus
    BY DEF NoReports, Reports, Report, NoConflicts, PortStatus
  <2>2. [f \in Ft |-> NoReports] \in [Ft -> Reports] /\ [f \in Ft |-> <<>>] \in [Ft -> Seq(Reports)]
    BY <2>1, SMTT(30)
  <2>3. /\ cache' \in [Pod -> [Ft -> Reports]] /\ watch' \in [Pod -> [Ft -> Seq(Reports)]]
        /\ albCache' \in [Pod -> PortStatus] /\ albWatch' \in [Pod -> Seq(PortStatus)]
    BY <1>2, <2>1, <2>2, SMTT(30) DEF DeletePod, TypeOK
  <2>4. /\ seenPods' \in [Pod -> SUBSET Pod] /\ busy' \in [Pod -> SUBSET Ft]
        /\ pods' \subseteq used' /\ used' \subseteq Pod /\ leader' \in used'
        /\ churn' \in 0..MaxChurn /\ flips' \in 0..MaxFlip /\ faults' \in 0..MaxFault
    BY <1>2, ProbeConstants, SMTT(30) DEF DeletePod, TypeOK, ProbeConstants
  <2>5. \A q \in Pod : Len(albWatch'[q]) <= MaxLag /\ \A f \in Ft : Len(watch'[q][f]) <= MaxLag
    BY <1>2, ProbeConstants, SMTT(30) DEF DeletePod, TypeOK, ProbeConstants
  <2> QED
    BY <1>2, <2>3, <2>4, <2>5 DEF DeletePod, TypeOK, server
<1>3. CASE Elect(p)
  BY <1>3 DEF Elect, TypeOK, server, caches, bounds
<1>4. ASSUME NEW f \in Ft, Flip(p, f) PROVE TypeOK'
  BY <1>4, ProbeConstants, SMTT(30) DEF Flip, TypeOK, server, caches, ProbeConstants
<1> QED
  BY <1>1, <1>2, <1>3, <1>4

\* The informers move the head of a queue to the cache.
LEMMA InformTyped ==
  ASSUME TypeOK, NEW p \in Pod, Inform(p)
  PROVE  TypeOK'
<1>1. CASE SeePods(p)
  BY <1>1 DEF SeePods, TypeOK, server, bounds
<1>2. CASE SeeAlb(p)
  <2>1. /\ Head(albWatch[p]) \in PortStatus /\ Tail(albWatch[p]) \in Seq(PortStatus)
        /\ Len(Tail(albWatch[p])) <= MaxLag
    BY <1>2, ProbeConstants, SMTT(30) DEF SeeAlb, TypeOK, ProbeConstants
  <2> QED
    BY <1>2, <2>1 DEF SeeAlb, TypeOK, server, bounds
<1>3. ASSUME NEW f \in Ft, SeeFt(p, f) PROVE TypeOK'
  <2>1. /\ Head(watch[p][f]) \in Reports /\ Tail(watch[p][f]) \in Seq(Reports)
        /\ Len(Tail(watch[p][f])) <= MaxLag
    BY <1>3, ProbeConstants, SMTT(30) DEF SeeFt, TypeOK, ProbeConstants
  <2>2. cache' \in [Pod -> [Ft -> Reports]] /\ watch' \in [Pod -> [Ft -> Seq(Reports)]]
    BY <1>3, <2>1 DEF SeeFt, TypeOK
  <2>3. \A q \in Pod, g \in Ft : Len(watch'[q][g]) <= MaxLag
    BY <1>3, <2>1 DEF SeeFt, TypeOK
  <2> QED
    BY <1>3, <2>2, <2>3 DEF SeeFt, TypeOK, server, bounds
<1> QED
  BY <1>1, <1>2, <1>3 DEF Inform

\* patchFtStatus appends the new version to the queues of the running pods.
LEMMA PatchTyped ==
  ASSUME TypeOK, NEW new \in [Ft -> Reports], PatchFt(new)
  PROVE  /\ inst' = new
         /\ watch' \in [Pod -> [Ft -> Seq(Reports)]]
         /\ \A q \in Pod, f \in Ft : Len(watch'[q][f]) <= MaxLag
<1>1. ASSUME NEW q \in Pod, NEW f \in Ft
      PROVE  watch'[q][f] \in Seq(Reports) /\ Len(watch'[q][f]) <= MaxLag
  <2>1. watch[q][f] \in Seq(Reports) /\ Len(watch[q][f]) <= MaxLag /\ new[f] \in Reports
    BY DEF TypeOK
  <2>2. CASE q \in pods /\ new[f] # inst[f]
    <3>1. watch'[q][f] = Append(watch[q][f], new[f]) /\ Len(watch[q][f]) < MaxLag
      BY <2>2 DEF PatchFt
    <3>2. Len(Append(watch[q][f], new[f])) = Len(watch[q][f]) + 1
      BY <2>1, SMTT(30)
    <3> QED
      BY <2>1, <3>1, <3>2, ProbeConstants, SMTT(30) DEF ProbeConstants
  <2>3. CASE ~(q \in pods /\ new[f] # inst[f])
    BY <2>1, <2>3 DEF PatchFt
  <2> QED
    BY <2>2, <2>3
<1>2. watch' = [q \in Pod |-> [f \in Ft |-> watch'[q][f]]]
  BY DEF PatchFt
<1> QED
  BY <1>1, <1>2 DEF PatchFt

\* A worker's report changes its own key only, so pods without a name yet have none.
LEMMA ReportTyped ==
  ASSUME TypeOK, NEW p \in Pod, NEW f \in Ft, WorkerDetectAndMaskConflictPort(p, f)
  PROVE  TypeOK'
<1> DEFINE report == IF f \in busy[p] THEN "conflict" ELSE "free"
           new    == [inst EXCEPT ![f][p] = report]
<1>1. p \in pods /\ p \in used /\ report \in Report
  BY DEF WorkerDetectAndMaskConflictPort, TypeOK, Report
<1>2. new \in [Ft -> Reports] /\ \A g \in Ft, q \in Pod \ used : new[g][q] = "none"
  BY <1>1 DEF TypeOK, Reports
<1>3. /\ UpdateFrontendStatus(p, f, report)
      /\ UNCHANGED <<pods, used, leader, busy, seenPods, albCache, albWatch, flips, churn>>
  BY DEF WorkerDetectAndMaskConflictPort
<1> HIDE DEF report
<1>4. CASE UNCHANGED <<server, cache, watch, faults>>
  BY <1>3, <1>4 DEF TypeOK, server
<1>5. CASE /\ cache' = [cache EXCEPT ![p][f][p] = report]
           /\ \/ PatchFt(new) /\ UNCHANGED <<albStatus, faults>>
              \/ Fails("patchReport") /\ UNCHANGED <<server, watch>>
  <2>1. cache' \in [Pod -> [Ft -> Reports]]
    BY <1>1, <1>5 DEF TypeOK, Reports
  <2>2. CASE PatchFt(new) /\ UNCHANGED <<albStatus, faults>>
    <3> HIDE DEF new
    <3>1. /\ inst' = new /\ watch' \in [Pod -> [Ft -> Seq(Reports)]]
          /\ \A q \in Pod, g \in Ft : Len(watch'[q][g]) <= MaxLag
      BY <1>2, <2>2, PatchTyped
    <3> QED
      BY <1>2, <1>3, <2>1, <2>2, <3>1 DEF TypeOK
  <2>3. CASE Fails("patchReport") /\ UNCHANGED <<server, watch>>
    BY <1>3, <2>1, <2>3, ProbeConstants, SMTT(30) DEF TypeOK, server, Fails, ProbeConstants
  <2> QED
    BY <1>5, <2>2, <2>3
<1> QED
  BY <1>3, <1>4, <1>5 DEF UpdateFrontendStatus

\* Cleaning up only takes reports away.
LEMMA CleanUpTyped ==
  ASSUME TypeOK, NEW p \in Pod, CleanUpOldPodStatus(p),
         UNCHANGED <<pods, used, leader, busy, seenPods, flips, churn>>
  PROVE  TypeOK'
<1> DEFINE Clean(reports) ==
      [f \in Ft |-> [q \in Pod |-> IF q \in Dirty(p, f) THEN "none" ELSE reports[f][q]]]
<1>1. Clean(cache[p]) \in [Ft -> Reports] /\ Clean(inst) \in [Ft -> Reports]
  BY SMTT(30) DEF TypeOK, Reports, Report
<1>2. \A f \in Ft, q \in Pod \ used : Clean(inst)[f][q] = "none"
  BY DEF TypeOK
<1>3. /\ cache' = [cache EXCEPT ![p] = Clean(cache[p])]
      /\ \/ PatchFt(Clean(inst)) /\ UNCHANGED faults
         \/ Fails("patchCleanup") /\ UNCHANGED <<inst, watch>>
      /\ UNCHANGED <<albStatus, albCache, albWatch>>
  BY DEF CleanUpOldPodStatus
<1> DEFINE new == Clean(inst)
           own == Clean(cache[p])
<1>4. /\ cache' = [cache EXCEPT ![p] = own] /\ own \in [Ft -> Reports] /\ new \in [Ft -> Reports]
      /\ \A f \in Ft, q \in Pod \ used : new[f][q] = "none"
      /\ \/ PatchFt(new) /\ UNCHANGED faults
         \/ Fails("patchCleanup") /\ UNCHANGED <<inst, watch>>
  BY <1>1, <1>2, <1>3
<1> HIDE DEF new, own
<1>5. cache' \in [Pod -> [Ft -> Reports]]
  BY <1>4 DEF TypeOK
<1>6. CASE PatchFt(new) /\ UNCHANGED faults
  <2>1. /\ inst' = new /\ watch' \in [Pod -> [Ft -> Seq(Reports)]]
        /\ \A q \in Pod, g \in Ft : Len(watch'[q][g]) <= MaxLag
    BY <1>4, <1>6, PatchTyped
  <2> QED
    BY <1>3, <1>4, <1>5, <1>6, <2>1 DEF TypeOK
<1>7. CASE Fails("patchCleanup") /\ UNCHANGED <<inst, watch>>
  BY <1>3, <1>5, <1>7, ProbeConstants, SMTT(30) DEF TypeOK, Fails, ProbeConstants
<1> QED
  BY <1>4, <1>6, <1>7

\* The summary goes to the server, to the cache of the leader and to every watch.
LEMMA SummaryTyped ==
  ASSUME TypeOK, NEW p \in Pod, UpdateAlbStatus(p),
         UNCHANGED <<pods, used, leader, busy, seenPods, flips, churn>>
  PROVE  TypeOK'
<1> DEFINE status == CurPortConflictStatus(p)
<1>1. status \in PortStatus
  BY DEF CurPortConflictStatus, PortStatus
<1>2. albCache' = [albCache EXCEPT ![p] = status] /\ UNCHANGED <<inst, cache, watch>>
  BY DEF UpdateAlbStatus
<1>3. albCache' \in [Pod -> PortStatus]
  BY <1>1, <1>2 DEF TypeOK
<1>4. CASE /\ \A q \in pods : Len(albWatch[q]) < MaxLag
           /\ albStatus' = status
           /\ albWatch' = [q \in Pod |-> IF q \in pods THEN Append(albWatch[q], status)
                                                       ELSE albWatch[q]]
           /\ UNCHANGED faults
  <2> HIDE DEF status
  <2>1. ASSUME NEW q \in Pod
        PROVE  albWatch'[q] \in Seq(PortStatus) /\ Len(albWatch'[q]) <= MaxLag
    <3>1. albWatch[q] \in Seq(PortStatus) /\ Len(albWatch[q]) <= MaxLag
      BY DEF TypeOK
    <3>2. CASE q \in pods
      <4>1. albWatch'[q] = Append(albWatch[q], status) /\ Len(albWatch[q]) < MaxLag
        BY <1>4, <3>2
      <4>2. Len(Append(albWatch[q], status)) = Len(albWatch[q]) + 1
        BY <3>1, SMTT(30)
      <4> QED
        BY <1>1, <3>1, <4>1, <4>2, ProbeConstants, SMTT(30) DEF ProbeConstants
    <3>3. CASE q \notin pods
      BY <1>4, <3>1, <3>3
    <3> QED
      BY <3>2, <3>3
  <2>2. albWatch' \in [Pod -> Seq(PortStatus)]
    BY <1>4, <2>1
  <2> QED
    BY <1>1, <1>2, <1>3, <1>4, <2>1, <2>2 DEF TypeOK
<1>5. CASE UNCHANGED <<albStatus, albWatch, faults>>
  BY <1>2, <1>3, <1>5 DEF TypeOK
<1>6. CASE Fails("updateAlb") /\ UNCHANGED <<albStatus, albWatch>>
  BY <1>2, <1>3, <1>6, ProbeConstants, SMTT(30) DEF TypeOK, Fails, ProbeConstants
<1> QED
  BY <1>4, <1>5, <1>6 DEF UpdateAlbStatus

\* Every variable of the port probe keeps its type, and a pod that never ran has no report.
THEOREM TypeCorrect == Spec => []TypeOK
<1>1. Init => TypeOK
  <2> SUFFICES ASSUME Init PROVE TypeOK
    OBVIOUS
  <2>1. NoReports \in Reports /\ NoConflicts \in PortStatus
    BY DEF NoReports, Reports, Report, NoConflicts, PortStatus
  <2>2. /\ inst \in [Ft -> Reports] /\ cache \in [Pod -> [Ft -> Reports]]
        /\ albStatus \in PortStatus /\ albCache \in [Pod -> PortStatus]
    BY <2>1 DEF Init
  <2>3. /\ watch \in [Pod -> [Ft -> Seq(Reports)]] /\ albWatch \in [Pod -> Seq(PortStatus)]
        /\ \A p \in Pod : Len(albWatch[p]) <= MaxLag /\ \A f \in Ft : Len(watch[p][f]) <= MaxLag
    BY ProbeConstants, SMTT(30) DEF Init, ProbeConstants
  <2>4. /\ pods \subseteq used /\ used \subseteq Pod /\ leader \in used
        /\ seenPods \in [Pod -> SUBSET Pod] /\ busy \in [Pod -> SUBSET Ft]
        /\ flips \in 0..MaxFlip /\ churn \in 0..MaxChurn /\ faults \in 0..MaxFault
    BY ProbeConstants, SMTT(30) DEF Init, ProbeConstants
  <2>5. \A f \in Ft, p \in Pod \ used : inst[f][p] = "none"
    BY DEF Init, NoReports
  <2> QED
    BY <2>2, <2>3, <2>4, <2>5 DEF TypeOK
<1>2. TypeOK /\ [Next]_vars => TypeOK'
  <2> SUFFICES ASSUME TypeOK, [Next]_vars PROVE TypeOK'
    OBVIOUS
  <2>1. CASE UNCHANGED vars
    BY <2>1 DEF vars, server, caches, bounds, TypeOK
  <2>2. ASSUME NEW p \in Pod, LeaderUpdateAlbPortStatus(p) PROVE TypeOK'
    BY <2>2, CleanUpTyped, SummaryTyped DEF LeaderUpdateAlbPortStatus
  <2>3. ASSUME NEW p \in Pod,
               \/ StartPod(p) \/ DeletePod(p) \/ Elect(p) \/ Inform(p)
               \/ \E f \in Ft : Flip(p, f) \/ WorkerDetectAndMaskConflictPort(p, f)
        PROVE  TypeOK'
    BY <2>3, ClusterTyped, InformTyped, ReportTyped
  <2> QED
    BY <2>1, <2>2, <2>3 DEF Next
<1> QED
  BY <1>1, <1>2, PTL DEF Spec

\* Only the leader's summary changes the status of the alb, and it is made when no report
\* in the leader's cache is of a pod the leader does not know.
LEMMA SummaryStep ==
  ASSUME TypeOK, [Next]_vars, albStatus' # albStatus, NEW f \in Ft
  PROVE  albStatus'[f] \subseteq seenPods[leader]
<1>1. PICK p \in Pod : LeaderUpdateAlbPortStatus(p)
  BY DEF Next, vars, server, StartPod, DeletePod, Elect, Inform, SeePods, SeeAlb, SeeFt, Flip,
         WorkerDetectAndMaskConflictPort, UpdateFrontendStatus
<1>2. p = leader /\ Dirty(p, f) = {} /\ UpdateAlbStatus(p)
  BY <1>1 DEF LeaderUpdateAlbPortStatus, CleanUpOldPodStatus
<1>3. albStatus' = CurPortConflictStatus(p)
  BY <1>2 DEF UpdateAlbStatus
<1>4. albStatus'[f] = {q \in Pod : cache[p][f][q] = "conflict"}
  BY <1>3 DEF CurPortConflictStatus
<1> QED
  BY <1>2, <1>4 DEF Dirty

\* A new port status of the alb names only pods in the leader's pod list, for any number of
\* pods and frontends, any lag of the caches and any failed calls.
THEOREM SummaryNamesKnownPods == Spec => SummaryOfKnownPods
<1>1. TypeOK /\ [Next]_vars =>
        [albStatus' # albStatus => \A f \in Ft : albStatus'[f] \subseteq seenPods[leader]]_vars
  BY SummaryStep
<1> QED
  BY <1>1, TypeCorrect, PTL DEF Spec, SummaryOfKnownPods
=============================================================================
