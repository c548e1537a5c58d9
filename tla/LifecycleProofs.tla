--------------------------- MODULE LifecycleProofs ---------------------------
(***************************************************************************)
(* Proofs about Lifecycle, for any number of processes, faults and         *)
(* signals: the types, and that at most one process acts as the leader.    *)
(*                                                                         *)
(* OneActs speaks of loops, but nothing in a loop looks at the lease: a    *)
(* loop runs on because the flag was set, the flag was set because news of *)
(* an acquired lease was due.  The inductive invariant ties each link of   *)
(* that chain to the lease itself for as long as the process is awake and  *)
(* its election is not cancelled.  It rests on the exit of a process that  *)
(* loses the lease: with SkipExit the chain breaks.                        *)
(***************************************************************************)
EXTENDS Lifecycle, TLAPS

\* The prover of every leaf that names none.
USE ZenonT(30)

\* A process whose election goes on and that was never kept from running.
Sound(r) == r.lectx = "on" /\ r.frozen = "no"

\* It is about to be told that it leads, believes it leads, or works as a leader.
Acts(r) == r.news = "due" \/ r.flag = "yes" \/ r.loop \in {"run", "busy"}

\* Nothing happens before Start; the lease is only released, and the election only left,
\* by a process that was told to stop.
Orderly(r) ==
  /\ r.at # "started" => r.le = "idle" /\ ~Acts(r)
  /\ r.le \in {"released", "out"} => r.lectx = "off"

\* The inductive invariant.
ActsWithLease ==
  \A p \in Pod : /\ Orderly(pod[p])
                 /\ Sound(pod[p]) /\ Acts(pod[p]) => lease = p /\ pod[p].le = "lead"

\* A step of process p writes its own record only.
LEMMA SetOne ==
  ASSUME TypeOK, NEW p \in Pod, NEW r \in Process, Set(p, r)
  PROVE  pod' \in [Pod -> Process] /\ pod'[p] = r /\ \A q \in Pod : q # p => pod'[q] = pod[q]
BY DEF TypeOK, Set

LEMMA DownTyped == Down \in Process
BY DEF Down, Process

\* A new value of one field.
LEMMA Fields ==
  ASSUME NEW r \in Process
  PROVE  /\ \A v \in {"booting", "started"} : [r EXCEPT !.at = v] \in Process
         /\ \A v \in {"starting", "terminating"} : [r EXCEPT !.phase = v] \in Process
         /\ \A v \in {"sent", "phase", "taken"} : [r EXCEPT !.sig = v] \in Process
         /\ \A v \in {"off"} : [r EXCEPT !.lectx = v] \in Process
         /\ \A v \in {"try", "lead", "released", "out"} : [r EXCEPT !.le = v] \in Process
         /\ \A v \in {"due", "told"} : [r EXCEPT !.news = v] \in Process
         /\ \A v \in {"yes", "no"} : [r EXCEPT !.flag = v] \in Process
         /\ \A v \in {"run", "busy", "end"} : [r EXCEPT !.loop = v] \in Process
         /\ \A v \in {"none", "running", "terminating"} : [r EXCEPT !.read = v] \in Process
         /\ \A v \in {"open", "closed"} : [r EXCEPT !.port = v] \in Process
         /\ \A v \in {"yes", "no"} : [r EXCEPT !.early = v] \in Process
         /\ \A v \in {"yes", "was"} : [r EXCEPT !.frozen = v] \in Process
<1>1. ASSUME NEW v \in {"booting", "started"} PROVE [r EXCEPT !.at = v] \in Process
  BY <1>1 DEF Process
<1>2. ASSUME NEW v \in {"starting", "terminating"} PROVE [r EXCEPT !.phase = v] \in Process
  BY <1>2 DEF Process
<1>3. ASSUME NEW v \in {"sent", "phase", "taken"} PROVE [r EXCEPT !.sig = v] \in Process
  BY <1>3 DEF Process
<1>4. ASSUME NEW v \in {"off"} PROVE [r EXCEPT !.lectx = v] \in Process
  BY <1>4 DEF Process
<1>5. ASSUME NEW v \in {"try", "lead", "released", "out"} PROVE [r EXCEPT !.le = v] \in Process
  BY <1>5 DEF Process
<1>6. ASSUME NEW v \in {"due", "told"} PROVE [r EXCEPT !.news = v] \in Process
  BY <1>6, SMTT(30) DEF Process
<1>7. ASSUME NEW v \in {"yes", "no"} PROVE [r EXCEPT !.flag = v] \in Process
  BY <1>7, SMTT(30) DEF Process
<1>8. ASSUME NEW v \in {"run", "busy", "end"} PROVE [r EXCEPT !.loop = v] \in Process
  BY <1>8, SMTT(30) DEF Process
<1>9. ASSUME NEW v \in {"none", "running", "terminating"} PROVE [r EXCEPT !.read = v] \in Process
  BY <1>9, SMTT(30) DEF Process
<1>10. ASSUME NEW v \in {"open", "closed"} PROVE [r EXCEPT !.port = v] \in Process
  BY <1>10, SMTT(30) DEF Process
<1>11. ASSUME NEW v \in {"yes", "no"} PROVE [r EXCEPT !.early = v] \in Process
  BY <1>11, SMTT(30) DEF Process
<1>12. ASSUME NEW v \in {"yes", "was"} PROVE [r EXCEPT !.frozen = v] \in Process
  BY <1>12, SMTT(30) DEF Process
<1> QED
  BY <1>1, <1>2, <1>3, <1>4, <1>5, <1>6, <1>7, <1>8, <1>9, <1>10, <1>11, <1>12

\* Every step of a process keeps the types.
LEMMA StepTyped ==
  ASSUME TypeOK, NEW p \in Pod, Step(p) \/ Disturb(p)
  PROVE  TypeOK'
<1> USE LifeAssumption DEF LifeAssumption
<1>a. pod[p] \in Process
  BY DEF TypeOK
<1>b. Stopped(pod[p]) \in Process
  BY <1>a, DownTyped, Fields DEF Stopped
<1>c. [Down EXCEPT !.at = "booting"] \in Process
  BY DownTyped, Fields
<1>1. CASE Boot(p)
  BY <1>1, <1>c DEF Boot, Set, TypeOK
<1>2. CASE Start(p)
  <2> DEFINE e == IF pod[p].early = "no" /\ pod[p].phase = "terminating" THEN "yes" ELSE pod[p].early
  <2>1. e \in {"yes", "no"}
    BY <1>a DEF Process
  <2>2. [pod[p] EXCEPT !.at = "started", !.phase = "starting", !.le = "try", !.early = e] \in Process
    BY <1>a, <2>1, Fields
  <2> QED
    BY <1>2, <2>2 DEF Start, Set, TypeOK
<1>3. CASE OnSigTerm(p)
  <2>1. [pod[p] EXCEPT !.sig = "phase", !.phase = "terminating"] \in Process
    BY <1>a, Fields
  <2> QED
    BY <1>3, <2>1 DEF OnSigTerm, Set, TypeOK
<1>4. CASE LeCancel(p)
  <2>1. [pod[p] EXCEPT !.sig = "taken", !.lectx = "off"] \in Process
    BY <1>a, Fields
  <2> QED
    BY <1>4, <2>1 DEF LeCancel, Set, TypeOK
<1>5. CASE Acquire(p)
  BY <1>5, <1>a, Fields DEF Acquire, Set, TypeOK
<1>6. CASE BecomeLeader(p)
  <2>1. [pod[p] EXCEPT !.news = "told", !.flag = "yes"] \in Process
    BY <1>a, Fields
  <2> QED
    BY <1>6, <2>1 DEF BecomeLeader, Set, TypeOK
<1>7. CASE Release(p)
  <2>1. [pod[p] EXCEPT !.le = "released"] \in Process
    BY <1>a, Fields
  <2> QED
    BY <1>7, <2>1 DEF Release, Set, TypeOK
<1>8. CASE OnStoppedLeading(p)
  BY <1>8, <1>a, Fields DEF OnStoppedLeading, Set, TypeOK
<1>9. CASE LoseLeader(p)
  BY <1>9, <1>b, DownTyped DEF LoseLeader, Set, TypeOK
<1>10. CASE Thaw(p)
  <2>1. [pod[p] EXCEPT !.frozen = "was"] \in Process
    BY <1>a, Fields
  <2> QED
    BY <1>10, <2>1 DEF Thaw, Set, TypeOK
<1>11. CASE WaitUtilIMLeader(p)
  <2>1. [pod[p] EXCEPT !.loop = "run"] \in Process
    BY <1>a, Fields
  <2> QED
    BY <1>11, <2>1 DEF WaitUtilIMLeader, Set, TypeOK
<1>12. CASE BeginItem(p)
  <2>1. [pod[p] EXCEPT !.loop = "busy"] \in Process
    BY <1>a, Fields
  <2> QED
    BY <1>12, <2>1 DEF BeginItem, Set, TypeOK
<1>13. CASE EndItem(p)
  <2>1. [pod[p] EXCEPT !.loop = "run"] \in Process
    BY <1>a, Fields
  <2> QED
    BY <1>13, <2>1 DEF EndItem, Set, TypeOK
<1>14. CASE EndLoop(p)
  <2>1. [pod[p] EXCEPT !.loop = "end"] \in Process
    BY <1>a, Fields
  <2> QED
    BY <1>14, <2>1 DEF EndLoop, Set, TypeOK
<1>15. CASE GenerateConf(p)
  <2>1. [pod[p] EXCEPT !.read = IF pod[p].phase = "terminating" THEN "terminating" ELSE "running"] \in Process
    BY <1>a, Fields
  <2> QED
    BY <1>15, <2>1 DEF GenerateConf, Set, TypeOK
<1>16. CASE ReloadLoadBalancer(p)
  BY <1>16, <1>a, Fields DEF ReloadLoadBalancer, Set, TypeOK
<1>17. CASE SigTerm(p)
  <2>1. [pod[p] EXCEPT !.sig = "sent"] \in Process
    BY <1>a, Fields
  <2> QED
    BY <1>17, <2>1, SMTT(30) DEF SigTerm, Set, TypeOK
<1>18. CASE Kill(p)
  BY <1>18, <1>b, DownTyped DEF Kill, Set, TypeOK
<1>19. CASE RenewFails(p)
  BY <1>19, <1>b, DownTyped, SMTT(30) DEF RenewFails, Fault, Set, TypeOK
<1>20. CASE Freeze(p)
  <2>1. [pod[p] EXCEPT !.frozen = "yes"] \in Process
    BY <1>a, Fields
  <2> QED
    BY <1>20, <2>1, SMTT(30) DEF Freeze, Fault, Set, TypeOK
<1>21. CASE Dies(p)
  BY <1>21, <1>b, DownTyped, SMTT(30) DEF Dies, Fault, Set, TypeOK
<1> QED
  BY <1>1, <1>2, <1>3, <1>4, <1>5, <1>6, <1>7, <1>8, <1>9, <1>10, <1>11, <1>12, <1>13, <1>14, <1>15, <1>16, <1>17, <1>18, <1>19, <1>20, <1>21 DEF Step, Disturb

\* So does every other step.
LEMMA NextTyped ==
  ASSUME TypeOK, [Next]_vars
  PROVE  TypeOK'
<1>1. CASE LeaseExpires
  BY <1>1 DEF LeaseExpires, TypeOK
<1>2. CASE UNCHANGED vars
  BY <1>2 DEF vars, TypeOK
<1> QED
  BY <1>1, <1>2, StepTyped DEF Next

LEMMA InitTyped == Init => TypeOK
BY DownTyped, LifeAssumption, SMTT(30) DEF Init, TypeOK, LifeAssumption

\* If p keeps the invariant and the lease does not leave another process, all keep it.
LEMMA OneAtATime ==
  ASSUME TypeOK, ActsWithLease, NEW p \in Pod, NEW r \in Process, Set(p, r),
         Orderly(r), Sound(r) /\ Acts(r) => lease' = p /\ r.le = "lead",
         lease' = lease \/ lease \in {None, p}
  PROVE  ActsWithLease'
<1> SUFFICES ASSUME NEW q \in Pod
             PROVE  /\ Orderly(pod'[q])
                    /\ Sound(pod'[q]) /\ Acts(pod'[q]) => lease' = q /\ pod'[q].le = "lead"
  BY DEF ActsWithLease
<1>1. CASE q = p
  BY <1>1, SetOne
<1>2. CASE q # p
  BY <1>2, SetOne, LifeAssumption DEF ActsWithLease, LifeAssumption
<1> QED
  BY <1>1, <1>2

\* A process that is down does nothing.
LEMMA DownOrderly == Orderly(Down) /\ ~Acts(Down)
BY DEF Orderly, Acts, Down

\* Every step of a process keeps the invariant.
LEMMA StepActs ==
  ASSUME SkipExit = FALSE, TypeOK, ActsWithLease, NEW p \in Pod, Step(p) \/ Disturb(p)
  PROVE  ActsWithLease'
<1>a. pod[p] \in Process /\ Orderly(pod[p])
      /\ (Sound(pod[p]) /\ Acts(pod[p]) => lease = p /\ pod[p].le = "lead")
  BY DEF TypeOK, ActsWithLease
<1>b. Stopped(pod[p]) = Down
  BY DEF Stopped
<1>1. CASE Boot(p)
  <2> DEFINE r == [Down EXCEPT !.at = "booting"]
  <2>1. Set(p, r) /\ r \in Process
    BY <1>1, <1>a, StepTyped DEF Boot, Set, TypeOK
  <2>2. Orderly(r) /\ (Sound(r) /\ Acts(r) => lease' = p /\ r.le = "lead")
    BY <1>1, <1>a, SMTT(30) DEF Boot, Down, Orderly, Sound, Acts, Process
  <2>3. lease' = lease \/ lease \in {None, p}
    BY <1>1 DEF Boot
  <2> QED
    BY <2>1, <2>2, <2>3, OneAtATime
<1>2. CASE Start(p)
  <2> DEFINE r == [pod[p] EXCEPT !.at = "started", !.phase = "starting", !.le = "try", !.early = IF pod[p].early = "no" /\ pod[p].phase = "terminating" THEN "yes" ELSE pod[p].early]
  <2>1. Set(p, r) /\ r \in Process
    BY <1>2, <1>a, StepTyped DEF Start, Set, TypeOK
  <2>2. Orderly(r) /\ (Sound(r) /\ Acts(r) => lease' = p /\ r.le = "lead")
    BY <1>2, <1>a DEF Start, Orderly, Sound, Acts, Process
  <2>3. lease' = lease \/ lease \in {None, p}
    BY <1>2 DEF Start
  <2> QED
    BY <2>1, <2>2, <2>3, OneAtATime
<1>3. CASE OnSigTerm(p)
  <2> DEFINE r == [pod[p] EXCEPT !.sig = "phase", !.phase = "terminating"]
  <2>1. Set(p, r) /\ r \in Process
    BY <1>3, <1>a, StepTyped DEF OnSigTerm, Set, TypeOK
  <2>2. Orderly(r) /\ (Sound(r) /\ Acts(r) => lease' = p /\ r.le = "lead")
    BY <1>3, <1>a DEF OnSigTerm, Orderly, Sound, Acts, Process
  <2>3. lease' = lease \/ lease \in {None, p}
    BY <1>3 DEF OnSigTerm
  <2> QED
    BY <2>1, <2>2, <2>3, OneAtATime
<1>4. CASE LeCancel(p)
  <2> DEFINE r == [pod[p] EXCEPT !.sig = "taken", !.lectx = "off"]
  <2>1. Set(p, r) /\ r \in Process
    BY <1>4, <1>a, StepTyped DEF LeCancel, Set, TypeOK
  <2>2. Orderly(r) /\ (Sound(r) /\ Acts(r) => lease' = p /\ r.le = "lead")
    BY <1>4, <1>a DEF LeCancel, Orderly, Sound, Acts, Process
  <2>3. lease' = lease \/ lease \in {None, p}
    BY <1>4 DEF LeCancel
  <2> QED
    BY <2>1, <2>2, <2>3, OneAtATime
<1>5. CASE Acquire(p)
  <2> DEFINE r == [pod[p] EXCEPT !.le = "lead", !.news = "due"]
  <2>1. Set(p, r) /\ r \in Process
    BY <1>5, <1>a, StepTyped DEF Acquire, Set, TypeOK
  <2>2. Orderly(r) /\ (Sound(r) /\ Acts(r) => lease' = p /\ r.le = "lead")
    BY <1>5, <1>a DEF Acquire, Orderly, Sound, Acts, Process
  <2>3. lease' = lease \/ lease \in {None, p}
    BY <1>5 DEF Acquire
  <2> QED
    BY <2>1, <2>2, <2>3, OneAtATime
<1>6. CASE BecomeLeader(p)
  <2> DEFINE r == [pod[p] EXCEPT !.news = "told", !.flag = "yes"]
  <2>1. Set(p, r) /\ r \in Process
    BY <1>6, <1>a, StepTyped DEF BecomeLeader, Set, TypeOK
  <2>2. Orderly(r) /\ (Sound(r) /\ Acts(r) => lease' = p /\ r.le = "lead")
    BY <1>6, <1>a DEF BecomeLeader, Orderly, Sound, Acts, Process
  <2>3. lease' = lease \/ lease \in {None, p}
    BY <1>6 DEF BecomeLeader
  <2> QED
    BY <2>1, <2>2, <2>3, OneAtATime
<1>7. CASE Release(p)
  <2> DEFINE r == [pod[p] EXCEPT !.le = "released"]
  <2>1. Set(p, r) /\ r \in Process
    BY <1>7, <1>a, StepTyped DEF Release, Set, TypeOK
  <2>2. Orderly(r) /\ (Sound(r) /\ Acts(r) => lease' = p /\ r.le = "lead")
    BY <1>7, <1>a DEF Release, Orderly, Sound, Acts, Process
  <2>3. lease' = lease \/ lease \in {None, p}
    BY <1>7 DEF Release
  <2> QED
    BY <2>1, <2>2, <2>3, OneAtATime
<1>8. CASE OnStoppedLeading(p)
  <2> DEFINE r == [pod[p] EXCEPT !.le = "out", !.flag = "no"]
  <2>1. Set(p, r) /\ r \in Process
    BY <1>8, <1>a, StepTyped DEF OnStoppedLeading, Set, TypeOK
  <2>2. Orderly(r) /\ (Sound(r) /\ Acts(r) => lease' = p /\ r.le = "lead")
    BY <1>8, <1>a DEF OnStoppedLeading, Orderly, Sound, Acts, Process
  <2>3. lease' = lease \/ lease \in {None, p}
    BY <1>8 DEF OnStoppedLeading
  <2> QED
    BY <2>1, <2>2, <2>3, OneAtATime
<1>9. CASE LoseLeader(p)
  BY <1>9, <1>b, OneAtATime, DownTyped, DownOrderly DEF LoseLeader
<1>10. CASE Thaw(p)
  <2> DEFINE r == [pod[p] EXCEPT !.frozen = "was"]
  <2>1. Set(p, r) /\ r \in Process
    BY <1>10, <1>a, StepTyped DEF Thaw, Set, TypeOK
  <2>2. Orderly(r) /\ (Sound(r) /\ Acts(r) => lease' = p /\ r.le = "lead")
    BY <1>10, <1>a DEF Thaw, Orderly, Sound, Acts, Process
  <2>3. lease' = lease \/ lease \in {None, p}
    BY <1>10 DEF Thaw
  <2> QED
    BY <2>1, <2>2, <2>3, OneAtATime
<1>11. CASE WaitUtilIMLeader(p)
  <2> DEFINE r == [pod[p] EXCEPT !.loop = "run"]
  <2>1. Set(p, r) /\ r \in Process
    BY <1>11, <1>a, StepTyped DEF WaitUtilIMLeader, Set, TypeOK
  <2>2. Orderly(r) /\ (Sound(r) /\ Acts(r) => lease' = p /\ r.le = "lead")
    BY <1>11, <1>a DEF WaitUtilIMLeader, AmILeader, Orderly, Sound, Acts, Process
  <2>3. lease' = lease \/ lease \in {None, p}
    BY <1>11 DEF WaitUtilIMLeader
  <2> QED
    BY <2>1, <2>2, <2>3, OneAtATime
<1>12. CASE BeginItem(p)
  <2> DEFINE r == [pod[p] EXCEPT !.loop = "busy"]
  <2>1. Set(p, r) /\ r \in Process
    BY <1>12, <1>a, StepTyped DEF BeginItem, Set, TypeOK
  <2>2. Orderly(r) /\ (Sound(r) /\ Acts(r) => lease' = p /\ r.le = "lead")
    BY <1>12, <1>a DEF BeginItem, Orderly, Sound, Acts, Process
  <2>3. lease' = lease \/ lease \in {None, p}
    BY <1>12 DEF BeginItem
  <2> QED
    BY <2>1, <2>2, <2>3, OneAtATime
<1>13. CASE EndItem(p)
  <2> DEFINE r == [pod[p] EXCEPT !.loop = "run"]
  <2>1. Set(p, r) /\ r \in Process
    BY <1>13, <1>a, StepTyped DEF EndItem, Set, TypeOK
  <2>2. Orderly(r) /\ (Sound(r) /\ Acts(r) => lease' = p /\ r.le = "lead")
    BY <1>13, <1>a DEF EndItem, Orderly, Sound, Acts, Process
  <2>3. lease' = lease \/ lease \in {None, p}
    BY <1>13 DEF EndItem
  <2> QED
    BY <2>1, <2>2, <2>3, OneAtATime
<1>14. CASE EndLoop(p)
  <2> DEFINE r == [pod[p] EXCEPT !.loop = "end"]
  <2>1. Set(p, r) /\ r \in Process
    BY <1>14, <1>a, StepTyped DEF EndLoop, Set, TypeOK
  <2>2. Orderly(r) /\ (Sound(r) /\ Acts(r) => lease' = p /\ r.le = "lead")
    BY <1>14, <1>a DEF EndLoop, Orderly, Sound, Acts, Process
  <2>3. lease' = lease \/ lease \in {None, p}
    BY <1>14 DEF EndLoop
  <2> QED
    BY <2>1, <2>2, <2>3, OneAtATime
<1>15. CASE GenerateConf(p)
  <2> DEFINE r == [pod[p] EXCEPT !.read = IF pod[p].phase = "terminating" THEN "terminating" ELSE "running"]
  <2>1. Set(p, r) /\ r \in Process
    BY <1>15, <1>a, StepTyped DEF GenerateConf, Set, TypeOK
  <2>2. Orderly(r) /\ (Sound(r) /\ Acts(r) => lease' = p /\ r.le = "lead")
    BY <1>15, <1>a DEF GenerateConf, Orderly, Sound, Acts, Process
  <2>3. lease' = lease \/ lease \in {None, p}
    BY <1>15 DEF GenerateConf
  <2> QED
    BY <2>1, <2>2, <2>3, OneAtATime
<1>16. CASE ReloadLoadBalancer(p)
  <2> DEFINE r == [pod[p] EXCEPT !.read = "none", !.port = IF pod[p].read = "running" THEN "open" ELSE "closed"]
  <2>1. Set(p, r) /\ r \in Process
    BY <1>16, <1>a, StepTyped DEF ReloadLoadBalancer, Set, TypeOK
  <2>2. Orderly(r) /\ (Sound(r) /\ Acts(r) => lease' = p /\ r.le = "lead")
    BY <1>16, <1>a, SMTT(30) DEF ReloadLoadBalancer, Orderly, Sound, Acts, Process
  <2>3. lease' = lease \/ lease \in {None, p}
    BY <1>16 DEF ReloadLoadBalancer
  <2> QED
    BY <2>1, <2>2, <2>3, OneAtATime
<1>17. CASE SigTerm(p)
  <2> DEFINE r == [pod[p] EXCEPT !.sig = "sent"]
  <2>1. Set(p, r) /\ r \in Process
    BY <1>17, <1>a, StepTyped DEF SigTerm, Set, TypeOK
  <2>2. Orderly(r) /\ (Sound(r) /\ Acts(r) => lease' = p /\ r.le = "lead")
    BY <1>17, <1>a DEF SigTerm, Orderly, Sound, Acts, Process
  <2>3. lease' = lease \/ lease \in {None, p}
    BY <1>17 DEF SigTerm
  <2> QED
    BY <2>1, <2>2, <2>3, OneAtATime
<1>18. CASE Kill(p)
  BY <1>18, <1>b, OneAtATime, DownTyped, DownOrderly DEF Kill
<1>19. CASE RenewFails(p)
  BY <1>19, <1>b, OneAtATime, DownTyped, DownOrderly DEF RenewFails
<1>20. CASE Freeze(p)
  <2> DEFINE r == [pod[p] EXCEPT !.frozen = "yes"]
  <2>1. Set(p, r) /\ r \in Process
    BY <1>20, <1>a, StepTyped DEF Freeze, Set, TypeOK
  <2>2. Orderly(r) /\ (Sound(r) /\ Acts(r) => lease' = p /\ r.le = "lead")
    BY <1>20, <1>a DEF Freeze, Orderly, Sound, Acts, Process
  <2>3. lease' = lease \/ lease \in {None, p}
    BY <1>20 DEF Freeze
  <2> QED
    BY <2>1, <2>2, <2>3, OneAtATime
<1>21. CASE Dies(p)
  BY <1>21, <1>b, OneAtATime, DownTyped, DownOrderly DEF Dies
<1> QED
  BY <1>1, <1>2, <1>3, <1>4, <1>5, <1>6, <1>7, <1>8, <1>9, <1>10, <1>11, <1>12, <1>13, <1>14, <1>15, <1>16, <1>17, <1>18, <1>19, <1>20, <1>21 DEF Step, Disturb

\* Time passes for the lease only when nobody renews it, and a sound leader does.
LEMMA ExpiryActs ==
  ASSUME TypeOK, ActsWithLease, LeaseExpires
  PROVE  ActsWithLease'
<1> SUFFICES ASSUME NEW q \in Pod, Sound(pod[q]), Acts(pod[q])
             PROVE  FALSE
  BY DEF ActsWithLease, LeaseExpires
<1>1. lease = q /\ pod[q].le = "lead" /\ pod[q].frozen = "no"
  BY DEF ActsWithLease, Sound
<1> QED
  BY <1>1 DEF LeaseExpires

LEMMA InitActs == Init => ActsWithLease
BY DownOrderly DEF Init, ActsWithLease

\* All the variables of Lifecycle keep their types.
THEOREM TypeCorrect == Spec => []TypeOK
<1>1. Init => TypeOK
  BY InitTyped
<1>2. TypeOK /\ [Next]_vars => TypeOK'
  BY NextTyped
<1> QED
  BY <1>1, <1>2, PTL DEF Spec

\* At most one process works as the leader, for any number of processes, renewals that
\* fail, freezes, deaths and handovers, the exceptions of OneActs apart: whoever acts,
\* with its election going on and awake all the time, holds the lease.
THEOREM LeaderActsAlone ==
  ASSUME SkipExit = FALSE
  PROVE  Spec => []OneActs
<1>1. Init => TypeOK /\ ActsWithLease
  BY InitTyped, InitActs
<1>2. TypeOK /\ ActsWithLease /\ [Next]_vars => (TypeOK /\ ActsWithLease)'
  <2> SUFFICES ASSUME TypeOK, ActsWithLease, [Next]_vars
               PROVE  ActsWithLease'
    BY NextTyped
  <2>1. CASE UNCHANGED vars
    BY <2>1 DEF vars, ActsWithLease
  <2> QED
    BY <2>1, StepActs, ExpiryActs DEF Next
<1>3. TypeOK /\ ActsWithLease => OneActs
  BY SMTT(30) DEF TypeOK, Process, ActsWithLease, OneActs, Sound, Acts
<1> QED
  BY <1>1, <1>2, <1>3, PTL DEF Spec
=============================================================================
