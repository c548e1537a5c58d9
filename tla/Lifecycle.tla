------------------------------ MODULE Lifecycle ------------------------------
(***************************************************************************)
(* The life of the alb processes of one load balancer: start, the signal   *)
(* handler, the leader election, the loops that only the leader runs       *)
(* (ingress, resync, gateway controller), the reload loop that every       *)
(* process runs, and the end (cmd/alb, controller/alb, controller/leader,  *)
(* controller/state).                                                      *)
(*                                                                         *)
(* The election itself is client-go's: a lease that its holder renews,     *)
(* that is released when the election context is cancelled and that        *)
(* expires when nobody renews it.  client-go calls OnNewLeader in a        *)
(* goroutine of its own, and OnStoppedLeading after the lease is released. *)
(***************************************************************************)
EXTENDS Naturals, FiniteSets

CONSTANTS Pod,       \* the processes of the alb
          None,      \* no holder
          SkipExit,  \* the flag that keeps a process alive that lost the lease
          Faulty,    \* which faults may happen
          MaxFault,  \* how many of them
          MaxTerm    \* how many pods are told to stop

ASSUME LifeAssumption ==
    None \notin Pod /\ SkipExit \in BOOLEAN /\ MaxFault \in Nat /\ MaxTerm \in Nat

VARIABLES pod,     \* pod[p]: the process p
          lease,   \* the holder of the lease
          faults,  \* the faults so far
          terms    \* how many pods were told to stop

vars == <<pod, lease, faults, terms>>

Down == [at |-> "down", phase |-> "starting", sig |-> "none", lectx |-> "on",
         le |-> "idle", news |-> "none", flag |-> "no", loop |-> "wait",
         read |-> "none", port |-> "closed", early |-> "no", frozen |-> "no"]

Init == /\ pod = [p \in Pod |-> Down]
        /\ lease = None
        /\ faults = 0
        /\ terms = 0

Up(p) == pod[p].at # "down"

Awake(p) == pod[p].frozen # "yes"

AmILeader(p) == pod[p].flag = "yes"

Fault(kind) == /\ kind \in Faulty
               /\ faults < MaxFault
               /\ faults' = faults + 1

Set(p, r) == pod' = [pod EXCEPT ![p] = r]

(***************************************************************************)
(* Start: run() starts the signal goroutine and calls Start, which sets    *)
(* the phase, starts the election, the leader's loops and the reload loop. *)
(***************************************************************************)
Boot(p) ==
    /\ ~Up(p)
    /\ Set(p, [Down EXCEPT !.at = "booting"])
    /\ UNCHANGED <<lease, faults, terms>>

(* Mutated form: nothing of the election is started.                       *)
StartAlone(p) ==
    /\ pod[p].at = "booting"
    /\ Set(p, [pod[p] EXCEPT !.at = "started", !.phase = "starting"])
    /\ UNCHANGED <<lease, faults, terms>>

(* The phase is set without looking at it: a SIGTERM handled before is     *)
(* forgotten.                                                              *)
Start(p) ==
    /\ pod[p].at = "booting"
    /\ Set(p, [pod[p] EXCEPT !.at = "started", !.phase = "starting", !.le = "try",
                             !.early = IF @ = "no" /\ pod[p].phase = "terminating"
                                       THEN "yes" ELSE @])
    /\ UNCHANGED <<lease, faults, terms>>

(***************************************************************************)
(* The signal handler: the phase first, then the election context.         *)
(***************************************************************************)
SigTerm(p) ==
    /\ Up(p) /\ pod[p].sig = "none"
    /\ terms < MaxTerm
    /\ terms' = terms + 1
    /\ Set(p, [pod[p] EXCEPT !.sig = "sent"])
    /\ UNCHANGED <<lease, faults>>

(* Mutated form: the election is left alone.                               *)
OnSigTermPhaseOnly(p) ==
    /\ pod[p].sig = "sent" /\ Awake(p)
    /\ Set(p, [pod[p] EXCEPT !.sig = "taken", !.phase = "terminating"])
    /\ UNCHANGED <<lease, faults, terms>>

OnSigTerm(p) ==
    /\ pod[p].sig = "sent" /\ Awake(p)
    /\ Set(p, [pod[p] EXCEPT !.sig = "phase", !.phase = "terminating"])
    /\ UNCHANGED <<lease, faults, terms>>

LeCancel(p) ==
    /\ pod[p].sig = "phase" /\ Awake(p)
    /\ Set(p, [pod[p] EXCEPT !.sig = "taken", !.lectx = "off"])
    /\ UNCHANGED <<lease, faults, terms>>

(* The pod is killed when its grace period is over; a new one may boot.    *)
Kill(p) ==
    /\ pod[p].sig = "taken"
    /\ Set(p, Down)
    /\ UNCHANGED <<lease, faults, terms>>

(***************************************************************************)
(* The election loop.                                                      *)
(***************************************************************************)
Acquire(p) ==
    /\ pod[p].le = "try" /\ pod[p].lectx = "on"
    /\ lease = None
    /\ lease' = p
    /\ Set(p, [pod[p] EXCEPT !.le = "lead", !.news = "due"])
    /\ UNCHANGED <<faults, terms>>

(* OnNewLeader with the own identity, whenever its goroutine gets to run.  *)
BecomeLeader(p) ==
    /\ pod[p].news = "due" /\ Awake(p)
    /\ Set(p, [pod[p] EXCEPT !.news = "told", !.flag = "yes"])
    /\ UNCHANGED <<lease, faults, terms>>

(* ReleaseOnCancel: the lease is free before the callback has run and      *)
(* before any loop of the leader has ended.                                *)
Release(p) ==
    /\ pod[p].le = "lead" /\ pod[p].lectx = "off" /\ Awake(p)
    /\ lease' = IF lease = p THEN None ELSE lease
    /\ Set(p, [pod[p] EXCEPT !.le = "released"])
    /\ UNCHANGED <<faults, terms>>

OnStoppedLeading(p) ==
    /\ \/ pod[p].le = "released"
       \/ pod[p].le = "try" /\ pod[p].lectx = "off"
    /\ Awake(p)
    /\ Set(p, [pod[p] EXCEPT !.le = "out", !.flag = "no"])
    /\ UNCHANGED <<lease, faults, terms>>

(* OnStoppedLeading when nobody cancelled: the process exits.              *)
(* Mutated form: it goes on as a process that does not lead.               *)
StoppedStays(r) == [r EXCEPT !.le = "out", !.flag = "no"]

Stopped(r) == IF SkipExit THEN [r EXCEPT !.le = "out", !.flag = "no"] ELSE Down

(* The lease could not be renewed before the deadline, which is before its *)
(* end; or the holder wakes up and finds that it is someone else's.        *)
RenewFails(p) ==
    /\ pod[p].le = "lead" /\ pod[p].lectx = "on" /\ Awake(p)
    /\ Fault("renew")
    /\ Set(p, Stopped(pod[p]))
    /\ UNCHANGED <<lease, terms>>

LoseLeader(p) ==
    /\ pod[p].le = "lead" /\ pod[p].lectx = "on" /\ Awake(p)
    /\ lease # p
    /\ Set(p, Stopped(pod[p]))
    /\ UNCHANGED <<lease, faults, terms>>

(* Nobody renews: the holder is gone, or does not get to run.              *)
LeaseExpires ==
    /\ lease # None
    /\ pod[lease].le # "lead" \/ pod[lease].frozen = "yes"
    /\ lease' = None
    /\ UNCHANGED <<pod, faults, terms>>

Freeze(p) ==
    /\ pod[p].le = "lead" /\ pod[p].frozen = "no"
    /\ Fault("freeze")
    /\ Set(p, [pod[p] EXCEPT !.frozen = "yes"])
    /\ UNCHANGED <<lease, terms>>

Thaw(p) ==
    /\ pod[p].frozen = "yes"
    /\ Set(p, [pod[p] EXCEPT !.frozen = "was"])
    /\ UNCHANGED <<lease, faults, terms>>

(***************************************************************************)
(* The loops of the leader: they wait for the flag, work item by item, and *)
(* look at the context between two items.                                  *)
(***************************************************************************)
WaitUtilIMLeader(p) ==
    /\ pod[p].at = "started" /\ pod[p].loop = "wait" /\ AmILeader(p) /\ Awake(p)
    /\ Set(p, [pod[p] EXCEPT !.loop = "run"])
    /\ UNCHANGED <<lease, faults, terms>>

BeginItem(p) ==
    /\ pod[p].loop = "run" /\ pod[p].lectx = "on" /\ Awake(p)
    /\ Set(p, [pod[p] EXCEPT !.loop = "busy"])
    /\ UNCHANGED <<lease, faults, terms>>

EndItem(p) ==
    /\ pod[p].loop = "busy" /\ Awake(p)
    /\ Set(p, [pod[p] EXCEPT !.loop = "run"])
    /\ UNCHANGED <<lease, faults, terms>>

EndLoop(p) ==
    /\ pod[p].loop = "run" /\ pod[p].lectx = "off" /\ Awake(p)
    /\ Set(p, [pod[p] EXCEPT !.loop = "end"])
    /\ UNCHANGED <<lease, faults, terms>>

(***************************************************************************)
(* The reload loop runs whether the process leads or not; the phase it     *)
(* reads decides whether the nginx.conf it writes keeps the metrics port,  *)
(* which the load balancer in front checks.  A round that takes too long   *)
(* ends in a panic.                                                        *)
(***************************************************************************)
GenerateConf(p) ==
    /\ pod[p].at = "started" /\ pod[p].read = "none" /\ Awake(p)
    /\ Set(p, [pod[p] EXCEPT !.read = IF pod[p].phase = "terminating"
                                      THEN "terminating" ELSE "running"])
    /\ UNCHANGED <<lease, faults, terms>>

(* Mutated form: the port is opened whatever the phase.                    *)
ReloadLoadBalancerOpen(p) ==
    /\ pod[p].read # "none" /\ Awake(p)
    /\ Set(p, [pod[p] EXCEPT !.read = "none", !.port = "open"])
    /\ UNCHANGED <<lease, faults, terms>>

ReloadLoadBalancer(p) ==
    /\ pod[p].read # "none" /\ Awake(p)
    /\ Set(p, [pod[p] EXCEPT !.read = "none",
                             !.port = IF pod[p].read = "running" THEN "open" ELSE "closed"])
    /\ UNCHANGED <<lease, faults, terms>>

(* The driver cannot be made, or a reload takes too long, or ctrl-c: the   *)
(* process is gone at once and the lease is not released.                  *)
Dies(p) ==
    /\ pod[p].at = "started"
    /\ Fault("dies")
    /\ Set(p, Down)
    /\ UNCHANGED <<lease, terms>>

Step(p) ==
    \/ Boot(p) \/ Start(p)
    \/ OnSigTerm(p) \/ LeCancel(p)
    \/ Acquire(p) \/ BecomeLeader(p) \/ Release(p) \/ OnStoppedLeading(p)
    \/ LoseLeader(p) \/ Thaw(p)
    \/ WaitUtilIMLeader(p) \/ BeginItem(p) \/ EndItem(p) \/ EndLoop(p)
    \/ GenerateConf(p) \/ ReloadLoadBalancer(p)

Disturb(p) == SigTerm(p) \/ Kill(p) \/ RenewFails(p) \/ Freeze(p) \/ Dies(p)

Next == LeaseExpires \/ \E p \in Pod : Step(p) \/ Disturb(p)

Spec == Init /\ [][Next]_vars

(***************************************************************************)
(* Fairness: goroutines of a process that is not frozen get to run, the    *)
(* kubelet restarts a process that ended, time passes for the lease.       *)
(* Nothing says that a signal comes, or that the grace period is short.    *)
(***************************************************************************)
Fairness ==
    /\ WF_vars(LeaseExpires)
    /\ \A p \in Pod :
        /\ WF_vars(Boot(p)) /\ WF_vars(Start(p))
        /\ WF_vars(OnSigTerm(p)) /\ WF_vars(LeCancel(p))
        /\ WF_vars(Acquire(p)) /\ WF_vars(BecomeLeader(p))
        /\ WF_vars(Release(p) \/ OnStoppedLeading(p) \/ LoseLeader(p))
        /\ WF_vars(Thaw(p))
        /\ WF_vars(WaitUtilIMLeader(p)) /\ WF_vars(EndItem(p))
        /\ WF_vars(EndLoop(p))
        /\ WF_vars(GenerateConf(p) \/ ReloadLoadBalancer(p))

FairSpec == Spec /\ Fairness

(***************************************************************************)
(* Properties                                                              *)
(***************************************************************************)
(* The states of a process.                                                *)
Process ==
    [at : {"down", "booting", "started"}, phase : {"starting", "terminating"},
     sig : {"none", "sent", "phase", "taken"}, lectx : {"on", "off"},
     le : {"idle", "try", "lead", "released", "out"}, news : {"none", "due", "told"},
     flag : {"yes", "no"}, loop : {"wait", "run", "busy", "end"},
     read : {"none", "running", "terminating"}, port : {"open", "closed"},
     early : {"yes", "no"}, frozen : {"no", "yes", "was"}]

(* The type of the variables.                                              *)
TypeOK ==
    /\ pod \in [Pod -> Process] /\ lease \in Pod \cup {None}
    /\ faults \in 0..MaxFault /\ terms \in 0..MaxTerm

(* Two processes are inside an item of a leader's loop at the same time    *)
(* only when one of them finishes the item it had begun before its         *)
(* election was cancelled (the lease is released first, leader.go:97), or  *)
(* was kept from running for longer than the lease.  A process that loses  *)
(* the lease any other way, or whose OnNewLeader callback runs late,       *)
(* never works beside the new leader.                                      *)
OneActs ==
    \A p, q \in Pod :
        p # q /\ pod[p].loop = "busy" /\ pod[q].loop = "busy" =>
            \E x \in {p, q} : pod[x].lectx = "off" \/ pod[x].frozen # "no"

(* A process told to stop gives the lease up and ends the leader's loops,  *)
(* also when the callback that makes it a leader runs after the one that   *)
(* ends its time as one.                                                   *)
HandsOver ==
    \A p \in Pod :
        pod[p].sig = "taken" ~> lease # p /\ pod[p].loop \in {"wait", "end"}

(* A process told to stop ends up with its metrics port closed, so that    *)
(* the load balancer in front takes it out, unless the signal was handled  *)
(* before Start had set the phase to starting (alb.go:47).                 *)
ClosesPort ==
    \A p \in Pod :
        pod[p].sig = "taken" /\ pod[p].at = "started" /\ pod[p].early = "no"
            ~> pod[p].port = "closed"

(* A process told to stop does leave its place: to the next leader, and to *)
(* the processes the load balancer still reaches (leader.go, alb.go).      *)
Retires == HandsOver /\ ClosesPort

(* There is a working leader again and again, as long as not every process *)
(* has been told to stop: after a lost lease, a freeze, a death with the   *)
(* lease in hand or a handover.                                            *)
SomeoneLeads ==
    []<>(\/ \A p \in Pod : pod[p].sig # "none"
         \/ \E p \in Pod : pod[p].flag = "yes" /\ lease = p
                             /\ pod[p].loop \in {"run", "busy"})
=============================================================================
