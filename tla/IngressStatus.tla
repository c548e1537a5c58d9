--------------------------- MODULE IngressStatus ---------------------------
(***************************************************************************)
(* The addresses in the status of an ingress, written by the controllers   *)
(* of several albs.                                                        *)
(*                                                                         *)
(* The controller of an alb adds the alb's address, with the ports the     *)
(* ingress needs, at the end of a reconcile, and takes addresses away in   *)
(* its event handlers: when an alb is edited or deleted, and when an       *)
(* ingress moves to another class.  Both edit the copy of the ingress in   *)
(* the informer cache and then send it; the API server takes it if nobody  *)
(* wrote the ingress in between.  What becomes of a deleted alb is AlbLife,*)
(* which AlbOperator implements.                                           *)
(***************************************************************************)
EXTENDS Naturals, Sequences, FiniteSets

CONSTANTS
  Alb,        \* the albs of a namespace, each with one controller that leads
  Ing,        \* ingresses
  Address,    \* addresses of albs
  Port,       \* ports of frontends
  Shape,      \* the ingresses users write: a subset of IngSpec
  Scope,      \* for each alb, the configurations users give it: a subset of AlbSpec
  Start,      \* the configuration each alb starts with
  None,       \* no ingress, no work
  PromptWatch,   \* whether the cache catches up before a worker takes up an ingress
  Faulty,     \* the calls the API server may fail, each kind once: a subset of FaultKind
  MaxEdit     \* bound: edits by users

\* class: the albs its ingress class admits; need: the ports it needs.
IngSpec == [class : SUBSET Alb, need : SUBSET Port \ {{}}]
\* address: what listAddress finds; covers: the ingresses in the projects of the alb.
AlbSpec == [address : Address, covers : SUBSET Ing]

\* An update that fills a status up, one that takes an address off, one of the finalizers.
FaultKind == {"fill", "remove", "release"}

ASSUME StatusConstants ==
  /\ Shape \subseteq IngSpec /\ Scope \in [Alb -> SUBSET AlbSpec]
  /\ Start \in [Alb -> AlbSpec] /\ \A a \in Alb : Start[a] \in Scope[a]
  /\ PromptWatch \in BOOLEAN /\ Faulty \subseteq FaultKind
  /\ None \notin Ing \cup Alb
  /\ MaxEdit \in Nat

VARIABLES
  alb,      \* the albs as users configured them
  life, inst, grace,   \* per alb, see AlbLife
  ing,      \* the ingresses
  st,       \* the status of an ingress on the API server: a set of (address, port)
  cache,    \* the ingress in the cache of a controller, [spec, st], its own edits included
  fresh,    \* whether that copy is of the latest version: "yes" or "no"
  queue,    \* the ingresses a controller is to reconcile
  cur,      \* the update its worker is about to send: [ing, own, st, base], or None
  strip,    \* the ingresses its ingress handler is to take its address off
  events,   \* the alb events its alb handler has not handled
  task,     \* what its alb handler is doing: [drop, left, free], or None
  edits,
  faults    \* the kinds of calls that have failed

albs == <<alb, life, inst, grace>>
ings == <<ing, st>>
work == <<queue, cur>>
handler == <<strip, events, task>>
vars == <<albs, ings, cache, fresh, work, handler, edits, faults>>

Entry == Address \X Port
\* own: the address the alb had; base: whether the copy is still of the latest version.
Update == [ing : Ing, own : Address, st : SUBSET Entry, base : {"latest", "old"}]
ASSUME NoneIsNoUpdate == None \notin Update
\* drop: addresses to take off; left: the ingresses still to do; free: the alb whose
\* finalizer goes at the end, or None.
Task == [drop : SUBSET Address, left : SUBSET Ing, free : Alb \cup {None}]
\* An alb was edited from one address to another, with or without a loss; or is deleted.
Event == [alb : Alb, kind : {"edit", "delete"}, drop : SUBSET Address]

\* The type invariant: an alb has a configuration its users give it, every entry of a
\* status is an address with a port, and every fault is one of the allowed ones.
TypeOK ==
  /\ alb \in [Alb -> AlbSpec] /\ \A a \in Alb : alb[a] \in Scope[a]
  /\ life \in [Alb -> {"guarded", "leaving", "gone"}]
  /\ inst \in [Alb -> {"yes", "no"}] /\ grace \in [Alb -> {"running", "over"}]
  /\ ing \in [Ing -> Shape] /\ st \in [Ing -> SUBSET Entry]
  /\ cache \in [Alb -> [Ing -> [spec : Shape, st : SUBSET Entry]]]
  /\ strip \in [Alb -> SUBSET Ing] /\ fresh \in [Alb -> [Ing -> {"yes", "no"}]]
  /\ queue \in [Alb -> SUBSET Ing]
  /\ cur \in [Alb -> Update \cup {None}]
  /\ events \in [Alb -> Seq(Event)] /\ task \in [Alb -> Task \cup {None}]
  /\ edits \in 0..MaxEdit /\ faults \subseteq Faulty

\* Every controller has just started and syncs every ingress (SyncAll).
Init ==
  /\ alb = Start
  /\ life = [a \in Alb |-> "guarded"] /\ inst = [a \in Alb |-> "yes"]
  /\ grace = [a \in Alb |-> "running"]
  /\ ing \in [Ing -> Shape] /\ st = [i \in Ing |-> {}]
  /\ cache = [a \in Alb |-> [i \in Ing |-> [spec |-> ing[i], st |-> {}]]]
  /\ strip = [a \in Alb |-> {}] /\ fresh = [a \in Alb |-> [i \in Ing |-> "yes"]]
  /\ queue = [a \in Alb |-> Ing] /\ cur = [a \in Alb |-> None]
  /\ events = [a \in Alb |-> <<>>] /\ task = [a \in Alb |-> None]
  /\ edits = 0 /\ faults = {}

-----------------------------------------------------------------------------
Running(a) == life[a] # "gone"

\* CheckShouldHandleViaIngressClass, and ShouldHandleIngress.
OurClass(a, spec) == a \in spec.class
Handles(a, i, spec) == OurClass(a, spec) /\ i \in alb[a].covers

Fault(kind) == kind \in Faulty \ faults /\ faults' = faults \cup {kind}

UserEdit == edits < MaxEdit /\ edits' = edits + 1

\* After a write of ingress i every cached copy, and every update on its way, is of an
\* older version.  Controller b, if any, has just finished its update.
Outdate(i, b) ==
  /\ fresh' = [a \in Alb |-> [fresh[a] EXCEPT ![i] = "no"]]
  /\ cur' = [a \in Alb |-> IF a = b \/ cur[a] = None THEN None
                           ELSE IF cur[a].ing = i THEN [cur[a] EXCEPT !.base = "old"] ELSE cur[a]]

Store(i, entries, b) == st' = [st EXCEPT ![i] = entries] /\ Outdate(i, b)

Without(entries, addresses) == {e \in entries : e[1] \notin addresses}

-----------------------------------------------------------------------------
(* Users and the operator. *)

\* An edit that takes away an address or a project makes the handler take the old and the
\* new address off every ingress (onAlbChangeUpdateIngressStatus).
EditAlb(a, s) ==
  /\ UserEdit
  /\ life[a] = "guarded" /\ alb[a] # s
  /\ alb' = [alb EXCEPT ![a] = s]
  /\ LET lost == s.address # alb[a].address \/ ~(alb[a].covers \subseteq s.covers)
         drop == IF lost THEN {alb[a].address, s.address} ELSE {}
     IN events' = [events EXCEPT ![a] = Append(@, [alb |-> a, kind |-> "edit", drop |-> drop])]
  /\ UNCHANGED <<life, inst, grace, ings, cache, fresh, work, strip, task, faults>>

\* Every controller of the namespace hears of a write of an alb that is being deleted.
Announce(a) ==
  events' = [b \in Alb |-> IF Running(b)
               THEN Append(events[b], [alb |-> a, kind |-> "delete", drop |-> {alb[a].address}])
               ELSE events[b]]

DeleteAlb(a) ==
  /\ UserEdit
  /\ life[a] = "guarded" /\ life' = [life EXCEPT ![a] = "leaving"]
  /\ Announce(a)
  /\ UNCHANGED <<alb, inst, grace, ings, cache, fresh, work, strip, task, faults>>

EditIngress(i, s) ==
  /\ UserEdit
  /\ ing[i] # s
  /\ ing' = [ing EXCEPT ![i] = s]
  /\ Outdate(i, None)
  /\ UNCHANGED <<albs, st, cache, queue, handler, faults>>

GracePasses(a) ==
  /\ life[a] = "leaving" /\ grace[a] = "running"
  /\ grace' = [grace EXCEPT ![a] = "over"]
  /\ UNCHANGED <<alb, life, inst, ings, cache, fresh, work, handler, edits, faults>>

\* The operator lets the alb go, and its pods stop.
OperatorFrees(a) ==
  /\ life[a] = "leaving" /\ (inst[a] = "no" \/ grace[a] = "over")
  /\ life' = [life EXCEPT ![a] = "gone"] /\ inst' = [inst EXCEPT ![a] = "no"]
  /\ queue' = [queue EXCEPT ![a] = {}] /\ cur' = [cur EXCEPT ![a] = None]
  /\ strip' = [strip EXCEPT ![a] = {}]
  /\ events' = [events EXCEPT ![a] = <<>>] /\ task' = [task EXCEPT ![a] = None]
  /\ UNCHANGED <<alb, grace, ings, cache, fresh, edits, faults>>

-----------------------------------------------------------------------------
(* What the informers and the handlers of controller a do. *)

\* The ingress informer brings the latest version, once the handler is done with the one
\* before.  The handler looks at a change of the ingress, and not of its status alone.
SeeIngress(a, i) ==
  /\ Running(a) /\ i \notin strip[a]
  /\ fresh[a][i] = "no" /\ fresh' = [fresh EXCEPT ![a][i] = "yes"]
  /\ cache' = [cache EXCEPT ![a][i] = [spec |-> ing[i], st |-> st[i]]]
  /\ LET was == OurClass(a, cache[a][i].spec)
         is == OurClass(a, ing[i])
         changed == ing[i] # cache[a][i].spec
     IN /\ queue' = [queue EXCEPT ![a] = IF changed /\ (was \/ is) THEN @ \cup {i} ELSE @]
        /\ strip' = [strip EXCEPT ![a] = IF changed /\ was /\ ~is THEN @ \cup {i} ELSE @]
  /\ UNCHANGED <<albs, ings, cur, events, task, edits, faults>>

\* Take addresses off the cached ingress and send it.  The cached copy is edited whether
\* or not the API server takes the update; a failure is only logged.
RemoveIngressStatusAddress(a, i, drop) ==
  LET kept == Without(cache[a][i].st, drop)
  IN /\ cache' = [cache EXCEPT ![a][i].st = kept]
     /\ IF kept # cache[a][i].st /\ fresh[a][i] = "yes"
        THEN \/ Store(i, kept, None) /\ UNCHANGED faults
             \/ Fault("remove") /\ UNCHANGED <<st, fresh, cur>>
        ELSE UNCHANGED <<st, fresh, cur, faults>>

\* onIngressclassChange.
StripIngress(a, i) ==
  /\ i \in strip[a] /\ strip' = [strip EXCEPT ![a] = @ \ {i}]
  /\ RemoveIngressStatusAddress(a, i, {alb[a].address})
  /\ UNCHANGED <<albs, ing, queue, events, task, edits>>

\* Mutated form: the handler gives up the finalizer of an alb that was only edited.
HandleEventFrees(a) ==
  /\ task[a] = None /\ events[a] # <<>>
  /\ events' = [events EXCEPT ![a] = Tail(@)]
  /\ task' = [task EXCEPT ![a] = [drop |-> Head(events[a]).drop, left |-> Ing,
                                 free |-> Head(events[a]).alb]]
  /\ UNCHANGED <<albs, ings, cache, fresh, work, strip, edits, faults>>

\* The next alb event.  A deletion of any alb of the namespace is handled, an edit only of
\* the controller's own alb.
HandleEvent(a) ==
  /\ task[a] = None /\ events[a] # <<>>
  /\ events' = [events EXCEPT ![a] = Tail(@)]
  /\ LET e == Head(events[a])
     IN task' = [task EXCEPT ![a] =
          [drop |-> e.drop, left |-> IF e.drop = {} THEN {} ELSE Ing,
           free |-> IF e.kind = "delete" THEN e.alb ELSE None]]
  /\ UNCHANGED <<albs, ings, cache, fresh, work, strip, edits, faults>>

HandleOne(a, i) ==
  /\ task[a] # None /\ i \in task[a].left
  /\ task' = [task EXCEPT ![a].left = @ \ {i}]
  /\ RemoveIngressStatusAddress(a, i, task[a].drop)
  /\ UNCHANGED <<albs, ing, queue, strip, events, edits>>

\* The end of onAlbDelete: the finalizer goes, whatever became of the ingresses.
ReleaseAlb(a) ==
  /\ task[a] # None /\ task[a].left = {} /\ task[a].free # None
  /\ task' = [task EXCEPT ![a] = None]
  /\ LET b == task[a].free
     IN \/ /\ inst[b] = "yes" /\ inst' = [inst EXCEPT ![b] = "no"]
           /\ Announce(b) /\ UNCHANGED faults
        \/ inst[b] = "no" /\ UNCHANGED <<inst, events, faults>>
        \/ Fault("release") /\ UNCHANGED <<inst, events>>
  /\ UNCHANGED <<alb, life, grace, ings, cache, fresh, work, strip, edits>>

\* Mutated form: the handler of an edit ends without SyncAll.
ResyncNothing(a) ==
  /\ task[a] # None /\ task[a].left = {} /\ task[a].free = None
  /\ task' = [task EXCEPT ![a] = None]
  /\ UNCHANGED <<albs, ings, cache, fresh, work, strip, events, edits, faults>>

\* The end of the handler of an edit: SyncAll.
ResyncAll(a) ==
  /\ task[a] # None /\ task[a].left = {} /\ task[a].free = None
  /\ task' = [task EXCEPT ![a] = None]
  /\ queue' = [queue EXCEPT ![a] = Ing]
  /\ UNCHANGED <<albs, ings, cache, fresh, cur, strip, events, edits, faults>>

-----------------------------------------------------------------------------
(* The worker of controller a. *)

\* Mutated form: the port of a protocol that is switched off, 0, is filled in too.
FillupZeroPort(a, c) == c.st \cup ({alb[a].address} \X (c.spec.need \cup {0}))

\* FillupIngressStatus: the address of the alb with every port the ingress needs.
FillupIngressStatus(a, c) == c.st \cup ({alb[a].address} \X c.spec.need)

\* Reconcile up to the update: the cached copy is filled up, and that copy is to be sent.
Reconcile(a, i) ==
  /\ i \in queue[a] /\ cur[a] = None
  /\ PromptWatch => fresh[a][i] = "yes"
  /\ queue' = [queue EXCEPT ![a] = @ \ {i}]
  /\ LET c == cache[a][i]
         filled == FillupIngressStatus(a, c)
     IN IF Handles(a, i, c.spec) /\ filled # c.st
        THEN /\ cache' = [cache EXCEPT ![a][i].st = filled]
             /\ cur' = [cur EXCEPT ![a] = [ing |-> i, own |-> alb[a].address, st |-> filled,
                                            base |-> IF fresh[a][i] = "yes" THEN "latest" ELSE "old"]]
        ELSE UNCHANGED <<cache, cur>>
  /\ UNCHANGED <<albs, ings, fresh, handler, edits, faults>>

\* The ingress is queued again after a failure (AddRateLimited).
Requeue(a, i) ==
  /\ queue' = [queue EXCEPT ![a] = @ \cup {i}] /\ cur' = [cur EXCEPT ![a] = None]
  /\ UNCHANGED <<st, fresh>>

\* Mutated form: the status is written whatever the version of the copy.
SendStatusForced(a) ==
  /\ cur[a] # None
  /\ Store(cur[a].ing, cur[a].st, a)
  /\ UNCHANGED <<albs, ing, cache, queue, handler, edits, faults>>

\* UpdateStatus: refused when the copy is old.
SendStatus(a) ==
  /\ cur[a] # None
  /\ \/ /\ cur[a].base = "latest" /\ Store(cur[a].ing, cur[a].st, a)
        /\ UNCHANGED <<queue, faults>>
     \/ cur[a].base = "old" /\ Requeue(a, cur[a].ing) /\ UNCHANGED faults
     \/ Fault("fill") /\ Requeue(a, cur[a].ing)
  /\ UNCHANGED <<albs, ing, cache, handler, edits>>

-----------------------------------------------------------------------------
User ==
  \/ \E a \in Alb : \E s \in Scope[a] : EditAlb(a, s)
  \/ \E a \in Alb : DeleteAlb(a)
  \/ \E i \in Ing, s \in Shape : EditIngress(i, s)

Operator(a) == GracePasses(a) \/ OperatorFrees(a)

Watch(a) == \E i \in Ing : SeeIngress(a, i)

Handler(a) ==
  \/ \E i \in Ing : StripIngress(a, i) \/ HandleOne(a, i)
  \/ HandleEvent(a) \/ ReleaseAlb(a) \/ ResyncAll(a)

Worker(a) == SendStatus(a) \/ (\E i \in Ing : Reconcile(a, i))

Next ==
  \/ User
  \/ \E a \in Alb : Operator(a) \/ Watch(a) \/ Handler(a) \/ Worker(a)

Spec == Init /\ [][Next]_vars

\* The watch delivers, and the handler and the worker goroutines run; users do as they like.
FairSpec ==
  /\ Spec
  /\ \A a \in Alb : WF_vars(Operator(a)) /\ WF_vars(Watch(a)) /\ WF_vars(Handler(a)) /\ WF_vars(Worker(a))

-----------------------------------------------------------------------------
(* Properties. *)

Life(a) == INSTANCE AlbLife WITH life <- life[a], inst <- inst[a], grace <- grace[a]

\* Controllers keep their side of AlbLife: a finalizer is given up only for an alb that is
\* being deleted (onAlbDelete), whatever stale events they still handle.
KeepsLife == [][\A a \in Alb : Life(a)!LifeNext \/ UNCHANGED Life(a)!lifeVars]_vars

\* Two controllers never undo each other: an entry appears only by the controller whose
\* alb has that address, and vanishes only by one told to take that address off
\* (UpdateIngressStatus, RemoveIngressStatusAaddress and the version check between them).
\* After a failed call the edited copy stays in the cache and goes out with a later one.
NoLostUpdate ==
  [][faults \cap {"fill", "remove"} = {} => \A i \in Ing :
       /\ \A e \in st'[i] \ st[i] :
            \E a \in Alb : cur[a] # None /\ cur[a].ing = i /\ cur[a].own = e[1]
       /\ \A e \in st[i] \ st'[i] :
            \E a \in Alb : \/ i \in strip[a] /\ alb[a].address = e[1]
                           \/ task[a] # None /\ i \in task[a].left /\ e[1] \in task[a].drop]_vars

\* In the end the status of an ingress shows the address and the needed ports of every alb
\* that handles it and stays, unless a call to write it failed (NeedUpdateIngressStatus at
\* the end of each Reconcile; the races with handlers and with other albs included).
HandlersShown ==
  <>[]("fill" \notin faults => \A a \in Alb, i \in Ing :
         life[a] = "guarded" /\ Handles(a, i, ing[i]) =>
           {alb[a].address} \X ing[i].need \subseteq st[i])
=============================================================================
