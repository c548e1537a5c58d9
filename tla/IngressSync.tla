----------------------------- MODULE IngressSync -----------------------------
(***************************************************************************)
(* The ingress controller: it turns ingresses into frontends and rules.    *)
(*                                                                         *)
(* One worker takes the key of an ingress from the work queue, compares    *)
(* the rules it finds in its informer cache with the rules the ingress     *)
(* asks for, and then makes one API call after the other.  The cache       *)
(* trails the API server by the watch events it has not handled; users     *)
(* edit ingresses between any two calls.                                   *)
(*                                                                         *)
(* An ingress or a service the informer has not seen yet is one the user   *)
(* has not written yet: ing and services are what the informers hold.      *)
(***************************************************************************)
EXTENDS Naturals, Sequences, FiniteSets

CONSTANTS
  Ing,        \* keys of ingresses
  Service,    \* services behind a path
  Index,      \* positions of a path in an ingress (rule index, path index)
  Proto,      \* protocols with a configured port: a subset of {"http", "https"}
  Shape,      \* the ingresses users write: a subset of Spec of an ingress, see IngSpec
  RuleName,   \* the random names of rules
  UserRules,  \* the rules users made
  None,       \* no ingress, no service, no frontend, no rule
  FullSync,   \* the flag FULL_SYNC: whether the resync loop runs
  Faulty,     \* what may happen: a subset of FaultKind
  MaxEdit,    \* bound: edits of ingresses
  MaxFault,   \* bound: crashes, failed calls, services that come or go
  MaxLag      \* bound: watch events the cache may be behind

FaultKind == {"lag", "crash", "service", "error", "earlyResync"}

\* ours: whether the ingress class and the project make this alb handle it, "class" when
\* only the class does; need: the protocols it needs (getIngressFtTypes); backend: its
\* default backend.
IngSpec ==
  [ours : {"yes", "class", "no"}, need : SUBSET Proto, paths : [Index -> Service \cup {None}],
   backend : Service \cup {None}]

\* A rule: its source ingress (None: a user made it), its place in it, what it serves.
Rule == [name : RuleName, source : Ing \cup {None}, proto : Proto, index : Index,
         service : Service]
\* A frontend: the ingress it was made for, its default backend.
Frontend == [source : Ing \cup {None}, backend : Service \cup {None}]

ASSUME SyncConstants ==
  /\ Proto \subseteq {"http", "https"}
  /\ Shape \subseteq IngSpec
  /\ UserRules \subseteq Rule
  /\ \A r, s \in UserRules : r.source = None /\ (r.name = s.name => r = s)
  /\ None \notin Ing \cup Service \cup RuleName \cup IngSpec \cup Frontend
  /\ Faulty \subseteq FaultKind
  /\ FullSync \in BOOLEAN
  /\ MaxEdit \in Nat /\ MaxFault \in Nat /\ MaxLag \in Nat \ {0}

VARIABLES
  ing,        \* the ingresses, None when there is none
  services,   \* the services that exist
  rules,      \* the rules of the API server
  fts,        \* the frontends of the API server, None when there is none
  ruleCache, ftCache,   \* both, in the informer cache
  ruleWatch, ftWatch,   \* their versions that the cache has not seen yet
  queue,      \* the work queue
  cur,        \* the key being reconciled, or None
  plan,       \* the API calls left to make for cur
  edits, faults

server == <<rules, fts>>
cached == <<ruleCache, ftCache, ruleWatch, ftWatch>>
worker == <<queue, cur, plan>>
vars == <<ing, services, server, cached, worker, edits, faults>>

FtValue == Frontend \cup {None}

FtCall == [do : {"createFt", "updateFt", "wipeFt"}, proto : Proto, old : FtValue, new : Frontend]
NewRuleCall == [do : {"create"}, proto : Proto, index : Index, service : Service]
RuleCall ==
  [do : {"dedup", "delete", "update", "purge"}, proto : Proto, rule : Rule, service : Service]
Call == FtCall \cup NewRuleCall \cup RuleCall

StoreOK ==
  /\ ing \in [Ing -> Shape \cup {None}] /\ services \subseteq Service
  /\ rules \subseteq Rule /\ ruleCache \subseteq Rule
  /\ ruleWatch \in Seq(SUBSET Rule)
  /\ fts \in [Proto -> FtValue] /\ ftCache \in [Proto -> FtValue]
  /\ ftWatch \in [Proto -> Seq(FtValue)]
  /\ \A r, s \in rules : r.name = s.name => r = s

WorkerOK ==
  /\ queue \subseteq Ing /\ cur \in Ing \cup {None} /\ plan \subseteq Call
  /\ cur = None => plan = {}
  /\ edits \in 0..MaxEdit /\ faults \in 0..MaxFault

TypeOK == StoreOK /\ WorkerOK

Init ==
  /\ ing = [i \in Ing |-> None] /\ services = Service
  /\ rules = UserRules /\ ruleCache = UserRules
  /\ fts = [p \in Proto |-> IF \E r \in UserRules : r.proto = p
                            THEN [source |-> None, backend |-> None] ELSE None]
  /\ ftCache = fts
  /\ ruleWatch = <<>> /\ ftWatch = [p \in Proto |-> <<>>]
  /\ queue = {} /\ cur = None /\ plan = {}
  /\ edits = 0 /\ faults = 0

-----------------------------------------------------------------------------
(* The users and the API server. *)

\* ShouldHandleIngress.
ShouldHandle(spec) == spec # None /\ spec.ours = "yes"

\* CheckShouldHandleViaIngressClass.
OurClass(spec) == spec # None /\ spec.ours # "no"

\* A user creates, edits or deletes an ingress, and the event handler enqueues it if the
\* old or the new one is of our class.
EditIngress(i, spec) ==
  /\ edits < MaxEdit /\ edits' = edits + 1
  /\ ing[i] # spec
  /\ ing' = [ing EXCEPT ![i] = spec]
  /\ queue' = IF OurClass(ing[i]) \/ OurClass(spec) THEN queue \cup {i} ELSE queue
  /\ UNCHANGED <<services, server, cached, cur, plan, faults>>

Fault(kind) ==
  /\ kind \in Faulty
  /\ faults < MaxFault /\ faults' = faults + 1

\* A service comes or goes.  Nothing is enqueued.
FlipService(s) ==
  /\ Fault("service")
  /\ services' = (services \ {s}) \cup ({s} \ services)
  /\ UNCHANGED <<ing, server, cached, worker, edits>>

WriteRules(new) ==
  /\ rules' = new
  /\ IF "lag" \in Faulty
     THEN /\ Len(ruleWatch) < MaxLag
          /\ ruleWatch' = Append(ruleWatch, new) /\ UNCHANGED ruleCache
     ELSE ruleCache' = new /\ UNCHANGED ruleWatch

\* A write of a frontend; local is the frontend in the cache, which the writer may have
\* changed as well.
WriteFt(p, new, local) ==
  /\ fts' = [fts EXCEPT ![p] = new]
  /\ IF "lag" \in Faulty
     THEN /\ Len(ftWatch[p]) < MaxLag
          /\ ftWatch' = [ftWatch EXCEPT ![p] = Append(@, new)]
          /\ ftCache' = [ftCache EXCEPT ![p] = local]
     ELSE ftCache' = [ftCache EXCEPT ![p] = new] /\ UNCHANGED ftWatch

SeeRules ==
  /\ ruleWatch # <<>>
  /\ ruleCache' = Head(ruleWatch) /\ ruleWatch' = Tail(ruleWatch)
  /\ UNCHANGED <<ing, services, server, ftCache, ftWatch, worker, edits, faults>>

SeeFt(p) ==
  /\ ftWatch[p] # <<>>
  /\ ftCache' = [ftCache EXCEPT ![p] = Head(ftWatch[p])]
  /\ ftWatch' = [ftWatch EXCEPT ![p] = Tail(@)]
  /\ UNCHANGED <<ing, services, server, ruleCache, ruleWatch, worker, edits, faults>>

-----------------------------------------------------------------------------
(* What an ingress asks for. *)

\* generateExpect: a path whose service cannot be resolved is left out.
ExpectIndex(spec) == {n \in Index : spec.paths[n] \in services}

\* generateExpectFrontend fails when the default backend cannot be resolved.
ExpectFails(spec) == spec.backend # None /\ spec.backend \notin services

\* Mutated form: the source of a rule is not looked at.
FindAnyRule(p, i) == {r \in ruleCache : ftCache[p] # None /\ r.proto = p}

\* FindIngressRule, on the rules of a frontend in the cache.
FindIngressRule(p, i) ==
  {r \in ruleCache : ftCache[p] # None /\ r.proto = p /\ r.source = i}

\* Mutated form: the frontend is taken for granted.
SyncFtActionExisting(i, p) == {}

\* genSyncFtAction: create the frontend, or give it the first default backend.
SyncFtAction(i, p) ==
  LET spec == ing[i]
      new  == [source |-> i, backend |-> spec.backend]
      old  == ftCache[p]
  IN  CASE p \notin spec.need -> {}
        [] p \in spec.need /\ old = None ->
             {[do |-> "createFt", proto |-> p, old |-> None, new |-> new]}
        [] p \in spec.need /\ old # None /\ old.backend = None /\ spec.backend # None ->
             {[do |-> "updateFt", proto |-> p, old |-> old, new |-> new]}
        [] OTHER -> {}

\* Mutated form: no rule is noted as the first of its position.
FirstRulesNone(exist) == {{}}

\* The lister's order is random, and the first rule of a position is the one that counts.
FirstRules(exist) ==
  {S \in SUBSET exist : \A r \in exist : \E s \in S : {t \in S : t.index = r.index} = {s}}

\* Mutated form: rules are compared by what they are, not by position.
SyncRuleActionByHash(i, p, first) ==
  LET spec   == ing[i]
      expect == IF p \in spec.need THEN ExpectIndex(spec) ELSE {}
      exist  == FindIngressRule(p, i)
      Same(r, n) == r.index = n /\ r.service = spec.paths[n]
  IN  {[do |-> "create", proto |-> p, index |-> n, service |-> spec.paths[n]] :
         n \in {n \in expect : \A r \in exist : ~Same(r, n)}}
      \cup {[do |-> "delete", proto |-> p, rule |-> r, service |-> r.service] :
              r \in {r \in exist : \A n \in expect : ~Same(r, n)}}

\* genSyncRuleAction: first are the first rules of their positions.  A rule may be in the
\* list of deletions twice, as a duplicate and as unexpected.
SyncRuleAction(i, p, first) ==
  LET spec   == ing[i]
      expect == IF p \in spec.need THEN ExpectIndex(spec) ELSE {}
      exist  == FindIngressRule(p, i)
      On(do, r, s) == [do |-> do, proto |-> p, rule |-> r, service |-> s]
  IN  {[do |-> "create", proto |-> p, index |-> n, service |-> spec.paths[n]] :
         n \in expect \ {r.index : r \in exist}}
      \cup {On("dedup", r, r.service) : r \in exist \ first}
      \cup {On("delete", r, r.service) : r \in {r \in exist : r.index \notin expect}}
      \cup {On("update", r, spec.paths[r.index]) :
              r \in {r \in first : r.index \in expect /\ r.service # spec.paths[r.index]}}

\* Mutated form: the default backend of the frontend is not wiped.
CleanUpRulesOnly(i) ==
  {[do |-> "purge", proto |-> r.proto, rule |-> r, service |-> r.service] :
     r \in UNION {FindIngressRule(p, i) : p \in Proto}}

\* cleanUpThisIngress.
CleanUpAction(i) ==
  {[do |-> "wipeFt", proto |-> p, old |-> ftCache[p],
    new |-> [source |-> None, backend |-> None]] :
     p \in {p \in Proto : ftCache[p] # None /\ ftCache[p].source = i}}
  \cup {[do |-> "purge", proto |-> r.proto, rule |-> r, service |-> r.service] :
          r \in UNION {FindIngressRule(p, i) : p \in Proto}}

-----------------------------------------------------------------------------
(* The worker. *)

\* doUpdate: the http frontend, else the https one, else the rules of both.
SyncPlans(i) ==
  LET http  == IF "http" \in Proto THEN SyncFtAction(i, "http") ELSE {}
      https == IF "https" \in Proto THEN SyncFtAction(i, "https") ELSE {}
      exist == UNION {FindIngressRule(p, i) : p \in Proto}
  IN  CASE http # {} -> {http}
        [] http = {} /\ https # {} -> {https}
        [] OTHER ->
             {UNION {SyncRuleAction(i, p, first[p]) : p \in Proto} :
                first \in {f \in [Proto -> SUBSET exist] :
                             \A p \in Proto : f[p] \in FirstRules(FindIngressRule(p, i))}}

\* Reconcile, up to the first call.  A failure of generateExpect requeues the key.  The
\* status of the ingress is written last and is left out: when that fails the key is put
\* back, as after a call of the plan that failed.
Reconcile(i) ==
  /\ cur = None /\ i \in queue
  /\ ~(ShouldHandle(ing[i]) /\ ExpectFails(ing[i]))
  /\ queue' = queue \ {i}
  /\ plan' \in IF ShouldHandle(ing[i]) THEN SyncPlans(i) ELSE {CleanUpAction(i)}
  /\ cur' = IF plan' = {} THEN None ELSE i
  /\ UNCHANGED <<ing, services, server, cached, edits, faults>>

\* doUpdateRule: creations, deletions, updates; http before https.  Cleaning up wipes
\* a frontend before its rules are deleted.
Rank(call) ==
  LET step == [createFt |-> 0, updateFt |-> 0, wipeFt |-> 0, create |-> 1,
               dedup |-> 2, delete |-> 3, update |-> 4, purge |-> 5]
  IN  step[call.do] + (IF call.proto = "https" THEN 10 ELSE 0)

NextCalls == {c \in plan : \A d \in plan : Rank(c) <= Rank(d)}

\* What the server says: objects are found by name, updates name the version they change.
Answer(call) ==
  CASE call.do = "createFt" -> IF fts[call.proto] = None THEN "ok" ELSE "exists"
    [] call.do \in {"updateFt", "wipeFt"} ->
         IF fts[call.proto] = call.old THEN "ok" ELSE "conflict"
    [] call.do = "update" -> IF call.rule \in rules THEN "ok" ELSE "conflict"
    [] call.do \in {"dedup", "delete", "purge"} ->
         IF \E r \in rules : r.name = call.rule.name THEN "ok" ELSE "notFound"
    [] OTHER -> "ok"

\* The frontend in the cache after the call: cleanUpThisIngress wipes the cached object
\* itself, before it calls the server.
Local(call) ==
  IF call.do = "wipeFt" /\ ftCache[call.proto] = call.old THEN call.new ELSE ftCache[call.proto]

\* The names of the rules that anyone still knows of: a random name is none of these.
UsedNames ==
  {r.name : r \in rules \cup ruleCache \cup UNION {ruleWatch[n] : n \in 1..Len(ruleWatch)}}
  \cup {c.rule.name : c \in {c \in plan : c.do \in {"dedup", "delete", "update", "purge"}}}

FreshName == CHOOSE n \in RuleName : n \notin UsedNames

\* The effect of a call the server accepts.
ApplyFt(call) ==
  /\ call.do \in {"createFt", "updateFt", "wipeFt"}
  /\ WriteFt(call.proto, call.new, Local(call))
  /\ UNCHANGED <<rules, ruleCache, ruleWatch>>

ApplyCreate(call) ==
  /\ call.do = "create"
  /\ RuleName \ UsedNames # {}
  /\ WriteRules(rules \cup {[name |-> FreshName, source |-> cur, proto |-> call.proto,
                            index |-> call.index, service |-> call.service]})
  /\ UNCHANGED <<fts, ftCache, ftWatch>>

ApplyUpdate(call) ==
  /\ call.do = "update"
  /\ WriteRules((rules \ {call.rule}) \cup {[call.rule EXCEPT !.service = call.service]})
  /\ UNCHANGED <<fts, ftCache, ftWatch>>

ApplyDelete(call) ==
  /\ call.do \in {"dedup", "delete", "purge"}
  /\ WriteRules({r \in rules : r.name # call.rule.name})
  /\ UNCHANGED <<fts, ftCache, ftWatch>>

Apply(call) == ApplyFt(call) \/ ApplyCreate(call) \/ ApplyUpdate(call) \/ ApplyDelete(call)

\* The server is left alone; a wipe has changed the cache all the same.
Refuse(call) ==
  /\ ftCache' = [ftCache EXCEPT ![call.proto] = Local(call)]
  /\ UNCHANGED <<server, ruleCache, ruleWatch, ftWatch>>

\* Whether the reconciliation goes on: doUpdate always stops after a frontend, cleaning up
\* ignores NotFound, and doUpdateRule ignores every error of a deletion but NotFound.
GoesOn(call, answer) ==
  \/ call.do \in {"wipeFt", "create", "update"} /\ answer = "ok"
  \/ call.do = "purge" /\ answer \in {"ok", "notFound"}
  \/ call.do \in {"dedup", "delete"} /\ answer # "notFound"

\* processNextWorkItem: an error puts the key back.
After(call, answer) ==
  /\ plan' = IF GoesOn(call, answer) THEN plan \ {call} ELSE {}
  /\ cur' = IF plan' = {} THEN None ELSE cur
  /\ queue' = IF GoesOn(call, answer) THEN queue ELSE queue \cup {cur}

\* One API call: answered, or failed, with the effect or without it.
DoCall(call) ==
  /\ call \in NextCalls
  /\ \/ Answer(call) = "ok" /\ Apply(call) /\ After(call, "ok") /\ UNCHANGED faults
     \/ Answer(call) # "ok" /\ Refuse(call) /\ After(call, Answer(call)) /\ UNCHANGED faults
     \/ Fault("error") /\ Refuse(call) /\ After(call, "error")
     \/ Answer(call) = "ok" /\ Fault("error") /\ Apply(call) /\ After(call, "error")
  /\ UNCHANGED <<ing, services, edits>>

\* The pod dies; the next leader lists everything, and enqueues every ingress (SyncAll).
Crash ==
  /\ Fault("crash")
  /\ ruleCache' = rules /\ ftCache' = fts
  /\ ruleWatch' = <<>> /\ ftWatch' = [p \in Proto |-> <<>>]
  /\ queue' = {i \in Ing : ing[i] # None}
  /\ cur' = None /\ plan' = {}
  /\ UNCHANGED <<ing, services, server, edits>>

\* FindHandledIngressKey.
HandledKeys ==
  {i \in Ing : \/ \E p \in Proto : ftCache[p] # None /\ ftCache[p].source = i
               \/ \E p \in Proto : FindIngressRule(p, i) # {}}

\* The resync period is long: informers and worker have finished by then, unless the
\* tick comes early.
ResyncDue ==
  \/ "earlyResync" \in Faulty
  \/ /\ queue = {} /\ cur = None
     /\ ruleWatch = <<>> /\ \A p \in Proto : ftWatch[p] = <<>>

\* Mutated form: only ingresses that exist are looked at.
OnResyncExisting ==
  /\ FullSync /\ ResyncDue
  /\ \A i \in Ing : ~(ShouldHandle(ing[i]) /\ ExpectFails(ing[i]))
  /\ queue' = queue \cup {i \in Ing : ShouldHandle(ing[i]) /\ {} \notin SyncPlans(i)}
  /\ UNCHANGED <<ing, services, server, cached, cur, plan, edits, faults>>

\* OnResync enqueues the ingresses that are not in step, and the keys that are handled
\* and should not be.  It gives up when one ingress has an unresolvable default backend.
OnResync ==
  /\ FullSync /\ ResyncDue
  /\ \A i \in Ing : ~(ShouldHandle(ing[i]) /\ ExpectFails(ing[i]))
  /\ queue' = queue
       \cup {i \in Ing : ShouldHandle(ing[i]) /\ {} \notin SyncPlans(i)}
       \cup {i \in HandledKeys : ~ShouldHandle(ing[i])}
  /\ UNCHANGED <<ing, services, server, cached, cur, plan, edits, faults>>

Next ==
  \/ \E i \in Ing : Reconcile(i) \/ \E spec \in Shape \cup {None} : EditIngress(i, spec)
  \/ \E call \in plan : DoCall(call)
  \/ SeeRules \/ \E p \in Proto : SeeFt(p)
  \/ \E s \in Service : FlipService(s)
  \/ Crash \/ OnResync

Spec == Init /\ [][Next]_vars

\* The worker and the informers run, the work queue is fair, the resync loop ticks.
Fairness ==
  /\ \A i \in Ing : SF_vars(Reconcile(i))
  /\ WF_vars(\E call \in plan : DoCall(call))
  /\ WF_vars(SeeRules) /\ \A p \in Proto : WF_vars(SeeFt(p))
  /\ WF_vars(OnResync)

FairSpec == Spec /\ Fairness

-----------------------------------------------------------------------------
(* Properties. *)

RulesOf(i, p, n) == {r \in rules : r.source = i /\ r.proto = p /\ r.index = n}

\* The positions of an ingress that should have a rule on the frontend of p.
Wanted(i, p) ==
  IF ShouldHandle(ing[i]) /\ p \in ing[i].need THEN ExpectIndex(ing[i]) ELSE {}

\* A rule never comes before its frontend (doUpdate makes the frontend and requeues).
RulesHaveFrontend == \A r \in rules : fts[r.proto] # None

\* A path has at most one rule per frontend (genSyncRuleAction creates a rule only for a
\* position that has none).
OneRulePerPath ==
  \A i \in Ing, p \in Proto, n \in Index : \A r, s \in RulesOf(i, p, n) : r = s

\* A rule is created, changed or deleted only for the ingress being reconciled: rules of
\* other ingresses and of users stay as they are.
OnlyOwnRules ==
  [][\A r \in (rules \ rules') \cup (rules' \ rules) : r.source # None /\ r.source = cur]_vars

\* A path that stays in the ingress never loses its last rule, unless the ingress is
\* about to be reconciled again.
RuleKept ==
  [][\A i \in Ing, p \in Proto : \A n \in Wanted(i, p) \cap Wanted(i, p)' :
       RulesOf(i, p, n) # {} => RulesOf(i, p, n)' # {} \/ i \in queue']_vars

InStep ==
  \A i \in Ing, p \in Proto :
    /\ \A n \in Index \ Wanted(i, p) : RulesOf(i, p, n) = {}
    /\ \A n \in Wanted(i, p) :
         \E r \in RulesOf(i, p, n) : RulesOf(i, p, n) = {r} /\ r.service = ing[i].paths[n]

\* Every default backend can be resolved: otherwise resync gives up.
Resolvable == \A i \in Ing : ~(ShouldHandle(ing[i]) /\ ExpectFails(ing[i]))

\* Once users stop editing, every ingress ends up with exactly the rules it asks for, and
\* an ingress that is gone with none (Reconcile and OnResync).
RulesConverge == <>[](Resolvable => InStep)

\* No frontend keeps the default backend of an ingress that is gone, and an ingress that
\* has a default backend gives it to a frontend without one.
BackendsConverge ==
  <>[](Resolvable => \A p \in Proto : fts[p] # None =>
        /\ fts[p].source # None => ShouldHandle(ing[fts[p].source])
        /\ fts[p].backend = None =>
             \A i \in Ing : ShouldHandle(ing[i]) /\ p \in ing[i].need => ing[i].backend = None)

\* Rules and default backends both end up as the ingresses ask.
ResourcesConverge == RulesConverge /\ BackendsConverge
=============================================================================
