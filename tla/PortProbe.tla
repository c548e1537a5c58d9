------------------------------ MODULE PortProbe ------------------------------
(***************************************************************************)
(* Port conflicts: how every alb pod reports the ports that another        *)
(* process of its host listens on, and how the leader cleans up and sums   *)
(* up the reports.                                                         *)
(*                                                                         *)
(* A report is a key of status.instances of the frontend, one per pod.     *)
(* Every pod reads frontends from its informer cache, which trails the API *)
(* server by the watch events it has not handled, and changes the cached   *)
(* object itself before it patches the server.                             *)
(***************************************************************************)
EXTENDS Naturals, Sequences, FiniteSets

CONSTANTS
  Pod,        \* names of alb pods; a name is used once
  Ft,         \* frontends on tcp-based ports
  First,      \* the pods running at the beginning
  Faulty,     \* what may go wrong: a subset of FaultKind
  MaxFlip,    \* bound: ports taken or released by other processes
  MaxChurn,   \* bound: pods started or deleted
  MaxFault,   \* bound: failed API calls
  MaxLag      \* bound: watch events a pod may be behind

FaultKind == {"patchReport", "patchCleanup", "updateAlb"}

ASSUME ProbeConstants ==
  /\ First \subseteq Pod /\ First # {}
  /\ Faulty \subseteq FaultKind
  /\ MaxFlip \in Nat /\ MaxChurn \in Nat /\ MaxFault \in Nat
  /\ MaxLag \in Nat \ {0}

VARIABLES
  pods,       \* the alb pods that exist
  used,       \* the names given so far
  leader,     \* the pod that believes to be the leader
  seenPods,   \* the pods in a pod's own pod informer
  busy,       \* busy[p]: the frontends whose port is taken on the host of p
  inst,       \* the server's reports: a function from pods to Report per frontend
  cache,      \* the frontends in a pod's cache
  watch,      \* the versions of a frontend a pod has not handled yet
  albStatus,  \* the server's port status: the pods in conflict per frontend
  albCache,   \* the alb in a pod's cache
  albWatch,   \* the versions of the alb a pod has not handled yet
  flips, churn, faults

server == <<inst, albStatus>>
caches == <<seenPods, cache, watch, albCache, albWatch>>
bounds == <<flips, churn, faults>>
vars == <<pods, used, leader, busy, server, caches, bounds>>

Report == {"none", "free", "conflict"}
Reports == [Pod -> Report]
PortStatus == [Ft -> SUBSET Pod]

TypeOK ==
  /\ pods \subseteq used /\ used \subseteq Pod /\ leader \in used
  /\ seenPods \in [Pod -> SUBSET Pod]
  /\ busy \in [Pod -> SUBSET Ft]
  /\ inst \in [Ft -> Reports] /\ (\A f \in Ft, p \in Pod \ used : inst[f][p] = "none")
  /\ cache \in [Pod -> [Ft -> Reports]]
  /\ watch \in [Pod -> [Ft -> Seq(Reports)]]
  /\ albStatus \in PortStatus /\ albCache \in [Pod -> PortStatus]
  /\ albWatch \in [Pod -> Seq(PortStatus)]
  /\ \A p \in Pod : Len(albWatch[p]) <= MaxLag /\ \A f \in Ft : Len(watch[p][f]) <= MaxLag
  /\ flips \in 0..MaxFlip /\ churn \in 0..MaxChurn /\ faults \in 0..MaxFault

NoReports == [p \in Pod |-> "none"]
NoConflicts == [f \in Ft |-> {}]

Init ==
  /\ pods = First /\ used = First /\ leader \in First
  /\ seenPods = [p \in Pod |-> First]
  /\ busy = [p \in Pod |-> {}]
  /\ inst = [f \in Ft |-> NoReports]
  /\ cache = [p \in Pod |-> [f \in Ft |-> NoReports]]
  /\ watch = [p \in Pod |-> [f \in Ft |-> <<>>]]
  /\ albStatus = NoConflicts
  /\ albCache = [p \in Pod |-> NoConflicts]
  /\ albWatch = [p \in Pod |-> <<>>]
  /\ flips = 0 /\ churn = 0 /\ faults = 0

-----------------------------------------------------------------------------
(* The cluster. *)

\* Another process of the host takes the port, or lets go of it.
Flip(p, f) ==
  /\ flips < MaxFlip /\ flips' = flips + 1
  /\ p \in pods
  /\ busy' = [busy EXCEPT ![p] = (@ \ {f}) \cup ({f} \ @)]
  /\ UNCHANGED <<pods, used, leader, server, caches, churn, faults>>

\* A new pod lists everything before it starts to watch.
StartPod(p) ==
  /\ churn < MaxChurn /\ churn' = churn + 1
  /\ p \in Pod \ used
  /\ pods' = pods \cup {p} /\ used' = used \cup {p}
  /\ seenPods' = [seenPods EXCEPT ![p] = pods']
  /\ cache' = [cache EXCEPT ![p] = inst]
  /\ albCache' = [albCache EXCEPT ![p] = albStatus]
  /\ UNCHANGED <<leader, busy, server, watch, albWatch, flips, faults>>

\* What the pod knew is gone with it.
DeletePod(p) ==
  /\ churn < MaxChurn /\ churn' = churn + 1
  /\ p \in pods /\ pods \ {p} # {}
  /\ pods' = pods \ {p}
  /\ busy' = [busy EXCEPT ![p] = {}]
  /\ seenPods' = [seenPods EXCEPT ![p] = First]
  /\ cache' = [cache EXCEPT ![p] = [f \in Ft |-> NoReports]]
  /\ watch' = [watch EXCEPT ![p] = [f \in Ft |-> <<>>]]
  /\ albCache' = [albCache EXCEPT ![p] = NoConflicts]
  /\ albWatch' = [albWatch EXCEPT ![p] = <<>>]
  /\ UNCHANGED <<used, leader, server, flips, faults>>

\* The lease of a leader that is gone passes to another pod.
Elect(p) ==
  /\ leader \notin pods /\ p \in pods
  /\ leader' = p
  /\ UNCHANGED <<pods, used, busy, server, caches, bounds>>

\* The informers: the pod list, one event of a frontend, one event of the alb.
SeePods(p) ==
  /\ p \in pods /\ seenPods[p] # pods
  /\ seenPods' = [seenPods EXCEPT ![p] = pods]
  /\ UNCHANGED <<pods, used, leader, busy, server, cache, watch, albCache, albWatch, bounds>>

SeeFt(p, f) ==
  /\ p \in pods /\ watch[p][f] # <<>>
  /\ cache' = [cache EXCEPT ![p][f] = Head(watch[p][f])]
  /\ watch' = [watch EXCEPT ![p][f] = Tail(@)]
  /\ UNCHANGED <<pods, used, leader, busy, server, seenPods, albCache, albWatch, bounds>>

SeeAlb(p) ==
  /\ p \in pods /\ albWatch[p] # <<>>
  /\ albCache' = [albCache EXCEPT ![p] = Head(albWatch[p])]
  /\ albWatch' = [albWatch EXCEPT ![p] = Tail(@)]
  /\ UNCHANGED <<pods, used, leader, busy, server, seenPods, cache, watch, bounds>>

Fails(kind) ==
  /\ kind \in Faulty
  /\ faults < MaxFault /\ faults' = faults + 1

-----------------------------------------------------------------------------
(* The probe. *)

\* patchFtStatus: a merge patch of the keys that differ, and an event for every pod.
PatchFt(new) ==
  /\ \A p \in pods, f \in Ft : new[f] # inst[f] => Len(watch[p][f]) < MaxLag
  /\ inst' = new
  /\ watch' = [p \in Pod |-> [f \in Ft |->
       IF p \in pods /\ new[f] # inst[f] THEN Append(watch[p][f], new[f]) ELSE watch[p][f]]]

\* UpdateFrontendStatus compares with the cached object, changes it and patches.  No
\* report counts as a report of no conflict.
UpdateFrontendStatus(p, f, report) ==
  IF (cache[p][f][p] = "conflict") = (report = "conflict")
  THEN UNCHANGED <<server, cache, watch, faults>>
  ELSE /\ cache' = [cache EXCEPT ![p][f][p] = report]
       /\ \/ PatchFt([inst EXCEPT ![f][p] = report]) /\ UNCHANGED <<albStatus, faults>>
          \/ Fails("patchReport") /\ UNCHANGED <<server, watch>>

\* Mutated form: a port that became free again is not reported.
WorkerOnlyConflicts(p, f) ==
  /\ p \in pods /\ f \in busy[p]
  /\ UpdateFrontendStatus(p, f, "conflict")
  /\ UNCHANGED <<pods, used, leader, busy, seenPods, albCache, albWatch, flips, churn>>

\* WorkerDetectAndMaskConflictPort, for one frontend.
WorkerDetectAndMaskConflictPort(p, f) ==
  /\ p \in pods
  /\ UpdateFrontendStatus(p, f, IF f \in busy[p] THEN "conflict" ELSE "free")
  /\ UNCHANGED <<pods, used, leader, busy, seenPods, albCache, albWatch, flips, churn>>

\* The reports of pods that are not in the pod list.
Dirty(p, f) == {q \in Pod : cache[p][f][q] # "none" /\ q \notin seenPods[p]}

\* cleanUpOldPodStatus deletes the keys from the cached object and from the server; an
\* error of the patch is logged.
CleanUpOldPodStatus(p) ==
  LET Clean(reports) ==
        [f \in Ft |-> [q \in Pod |-> IF q \in Dirty(p, f) THEN "none" ELSE reports[f][q]]]
  IN  /\ cache' = [cache EXCEPT ![p] = Clean(cache[p])]
      /\ \/ PatchFt(Clean(inst)) /\ UNCHANGED faults
         \/ Fails("patchCleanup") /\ UNCHANGED <<inst, watch>>
      /\ UNCHANGED <<albStatus, albCache, albWatch>>

\* genCurPortConflictStatus.
CurPortConflictStatus(p) == [f \in Ft |-> {q \in Pod : cache[p][f][q] = "conflict"}]

\* UpdateAlbStatus: the server refuses an object whose version is not the newest one.
\* The cached alb has the new status already.
UpdateAlbStatus(p) ==
  LET status == CurPortConflictStatus(p) IN
  /\ albCache' = [albCache EXCEPT ![p] = status]
  /\ \/ /\ albWatch[p] = <<>>
        /\ \A q \in pods : Len(albWatch[q]) < MaxLag
        /\ albStatus' = status
        /\ albWatch' = [q \in Pod |-> IF q \in pods THEN Append(albWatch[q], status)
                                                    ELSE albWatch[q]]
        /\ UNCHANGED faults
     \/ albWatch[p] # <<>> /\ UNCHANGED <<albStatus, albWatch, faults>>
     \/ Fails("updateAlb") /\ UNCHANGED <<albStatus, albWatch>>
  /\ UNCHANGED <<inst, cache, watch>>

\* Mutated form: the summary is made without cleaning up.
LeaderNoCleanUp(p) ==
  /\ p \in pods /\ p = leader
  /\ CurPortConflictStatus(p) # albCache[p] /\ UpdateAlbStatus(p)
  /\ UNCHANGED <<pods, used, leader, busy, seenPods, flips, churn>>

\* LeaderUpdateAlbPortStatus: a round that cleans up leaves the summary to the next one.
LeaderUpdateAlbPortStatus(p) ==
  /\ p \in pods /\ p = leader
  /\ \/ (\E f \in Ft : Dirty(p, f) # {}) /\ CleanUpOldPodStatus(p)
     \/ /\ \A f \in Ft : Dirty(p, f) = {}
        /\ CurPortConflictStatus(p) # albCache[p]
        /\ UpdateAlbStatus(p)
  /\ UNCHANGED <<pods, used, leader, busy, seenPods, flips, churn>>

Inform(p) == SeePods(p) \/ SeeAlb(p) \/ \E f \in Ft : SeeFt(p, f)

Next ==
  \E p \in Pod :
    \/ StartPod(p) \/ DeletePod(p) \/ Elect(p)
    \/ Inform(p)
    \/ LeaderUpdateAlbPortStatus(p)
    \/ \E f \in Ft : Flip(p, f) \/ WorkerDetectAndMaskConflictPort(p, f)

\* Every pod runs a round every INTERVAL, watches deliver, a lost lease is taken.
Fairness ==
  \A p \in Pod :
    /\ WF_vars(Elect(p)) /\ WF_vars(SeePods(p)) /\ WF_vars(SeeAlb(p))
    /\ WF_vars(LeaderUpdateAlbPortStatus(p))
    /\ \A f \in Ft : WF_vars(SeeFt(p, f)) /\ WF_vars(WorkerDetectAndMaskConflictPort(p, f))

Spec == Init /\ [][Next]_vars

FairSpec == Spec /\ Fairness

-----------------------------------------------------------------------------
(* Properties. *)

InConflict(f) == {p \in pods : f \in busy[p]}

\* If no call fails: once ports and pods stop changing, the reports on every frontend name
\* exactly the pods that have the conflict, no pod that is gone has a report left, and the
\* port status of the alb says the same (UpdateFrontendStatus, cleanUpOldPodStatus).
ReportsConverge ==
  [](faults = 0) =>
    <>[](\A f \in Ft :
           /\ {p \in Pod : inst[f][p] = "conflict"} = InConflict(f)
           /\ \A p \in Pod \ pods : inst[f][p] = "none"
           /\ albStatus[f] = InConflict(f))

\* The leader cleans up before it sums up: a new port status of the alb never names a
\* pod that is not in the pod list of the leader, whatever calls failed before.
SummaryOfKnownPods ==
  [][albStatus' # albStatus => \A f \in Ft : albStatus'[f] \subseteq seenPods[leader]]_vars
=============================================================================
