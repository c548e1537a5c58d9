-------------------------- MODULE IngressSyncProofs --------------------------
(***************************************************************************)
(* Proofs about IngressSync, for any ingresses, services, lag and faults.  *)
(***************************************************************************)
EXTENDS IngressSync, TLAPS

\* The prover of every leaf that names none.
USE ZenonT(30)

\* What the three kinds of calls have in common, and how to tell them apart.
LEMMA CallKinds ==
  ASSUME NEW c \in Call
  PROVE  /\ c.proto \in Proto
         /\ c.do \in {"createFt", "updateFt", "wipeFt"} => c \in FtCall
         /\ c.do = "create" => c \in NewRuleCall
         /\ c.do \in {"dedup", "delete", "update", "purge"} => c \in RuleCall
         /\ c \in FtCall => c.do \in {"createFt", "updateFt", "wipeFt"}
         /\ c \in NewRuleCall => c.do = "create"
         /\ c \in RuleCall => c.do \in {"dedup", "delete", "update", "purge"}
<1>1. CASE c \in FtCall
  BY <1>1 DEF FtCall, NewRuleCall, RuleCall
<1>2. CASE c \in NewRuleCall
  BY <1>2 DEF FtCall, NewRuleCall, RuleCall
<1>3. CASE c \in RuleCall
  BY <1>3 DEF FtCall, NewRuleCall, RuleCall
<1> QED
  BY <1>1, <1>2, <1>3 DEF Call

LEMMA FtCallFields ==
  ASSUME NEW c \in FtCall PROVE c.proto \in Proto /\ c.old \in FtValue /\ c.new \in Frontend
BY DEF FtCall

LEMMA NewRuleCallFields ==
  ASSUME NEW c \in NewRuleCall PROVE c.proto \in Proto /\ c.index \in Index /\ c.service \in Service
BY DEF NewRuleCall

LEMMA RuleCallFields ==
  ASSUME NEW c \in RuleCall PROVE c.proto \in Proto /\ c.rule \in Rule /\ c.service \in Service
BY DEF RuleCall

\* The ingress that is handled is one the users wrote.
LEMMA HandledSpec ==
  ASSUME TypeOK, NEW i \in Ing, ShouldHandle(ing[i])
  PROVE  ing[i] \in IngSpec
BY SyncConstants DEF SyncConstants, TypeOK, StoreOK, ShouldHandle

\* genSyncFtAction asks for calls on frontends.
LEMMA SyncFtTyped ==
  ASSUME TypeOK, NEW i \in Ing, ShouldHandle(ing[i]), NEW p \in Proto
  PROVE  \A c \in SyncFtAction(i, p) : c \in FtCall /\ c.do # "wipeFt"
<1>1. ing[i].backend \in Service \cup {None}
  BY HandledSpec DEF IngSpec
<1> DEFINE new == [source |-> i, backend |-> ing[i].backend]
<1>2. new \in Frontend /\ ftCache[p] \in FtValue /\ None \in FtValue
  BY <1>1 DEF Frontend, FtValue, TypeOK, StoreOK
<1>3. SyncFtAction(i, p) \subseteq
        {[do |-> "createFt", proto |-> p, old |-> None, new |-> new],
         [do |-> "updateFt", proto |-> p, old |-> ftCache[p], new |-> new]}
  BY DEF SyncFtAction
<1> HIDE DEF new
<1>4. /\ [do |-> "createFt", proto |-> p, old |-> None, new |-> new] \in FtCall
      /\ [do |-> "updateFt", proto |-> p, old |-> ftCache[p], new |-> new] \in FtCall
  BY <1>2 DEF FtCall
<1> QED
  BY <1>3, <1>4, SMTT(30)

\* FindIngressRule returns rules of the ingress in the cache.
LEMMA FoundRules ==
  ASSUME TypeOK, NEW i \in Ing, NEW p \in Proto, NEW r \in FindIngressRule(p, i)
  PROVE  /\ r \in ruleCache /\ r \in Rule /\ r.proto = p /\ r.source = i
         /\ r.index \in Index /\ r.service \in Service
BY DEF FindIngressRule, TypeOK, StoreOK, Rule

\* genSyncRuleAction: new rules on paths that have none, and calls on rules it found.
LEMMA SyncRuleShape ==
  ASSUME TypeOK, NEW i \in Ing, ShouldHandle(ing[i]), NEW p \in Proto,
         NEW first \in SUBSET FindIngressRule(p, i), NEW c \in SyncRuleAction(i, p, first)
  PROVE  \/ /\ c \in NewRuleCall /\ c.proto = p /\ p \in ing[i].need
            /\ c.service = ing[i].paths[c.index]
            /\ \A r \in FindIngressRule(p, i) : r.index # c.index
         \/ c \in RuleCall /\ c.proto = p /\ c.rule \in FindIngressRule(p, i)
<1> DEFINE spec   == ing[i]
           expect == IF p \in spec.need THEN ExpectIndex(spec) ELSE {}
           exist  == FindIngressRule(p, i)
<1>1. \A n \in expect : n \in Index /\ spec.paths[n] \in Service /\ p \in spec.need
  BY DEF ExpectIndex, TypeOK, StoreOK
<1>2. CASE \E n \in expect \ {r.index : r \in exist} :
             c = [do |-> "create", proto |-> p, index |-> n, service |-> spec.paths[n]]
  <2>1. PICK n \in expect \ {r.index : r \in exist} :
             c = [do |-> "create", proto |-> p, index |-> n, service |-> spec.paths[n]]
    BY <1>2
  <2>2. n \in Index /\ spec.paths[n] \in Service /\ p \in spec.need
    BY <1>1, <2>1
  <2>3. \A r \in exist : r.index # n
    BY <2>1
  <2> HIDE DEF expect, exist
  <2>4. c \in NewRuleCall /\ c.proto = p /\ c.index = n /\ c.service = spec.paths[n]
    BY <2>1, <2>2 DEF NewRuleCall
  <2> QED
    BY <2>2, <2>3, <2>4 DEF exist
<1>3. CASE \E do \in {"dedup", "delete", "update"}, r \in exist, s \in Service :
             c = [do |-> do, proto |-> p, rule |-> r, service |-> s]
  <2>1. PICK do \in {"dedup", "delete", "update"}, r \in exist, s \in Service :
             c = [do |-> do, proto |-> p, rule |-> r, service |-> s]
    BY <1>3
  <2>2. r \in Rule
    BY <2>1, FoundRules
  <2> QED
    BY <2>1, <2>2 DEF RuleCall
<1>4. \A r \in exist : r.service \in Service
  BY FoundRules
<1>5. SyncRuleAction(i, p, first) =
      {[do |-> "create", proto |-> p, index |-> n, service |-> spec.paths[n]] :
         n \in expect \ {r.index : r \in exist}}
      \cup {[do |-> "dedup", proto |-> p, rule |-> r, service |-> r.service] : r \in exist \ first}
      \cup {[do |-> "delete", proto |-> p, rule |-> r, service |-> r.service] :
              r \in {r \in exist : r.index \notin expect}}
      \cup {[do |-> "update", proto |-> p, rule |-> r, service |-> spec.paths[r.index]] :
              r \in {r \in first : r.index \in expect /\ r.service # spec.paths[r.index]}}
  BY DEF SyncRuleAction
<1> HIDE DEF expect, exist, spec
<1>6. \/ \E n \in expect \ {r.index : r \in exist} :
             c = [do |-> "create", proto |-> p, index |-> n, service |-> spec.paths[n]]
      \/ \E r \in exist : c = [do |-> "dedup", proto |-> p, rule |-> r, service |-> r.service]
      \/ \E r \in exist : c = [do |-> "delete", proto |-> p, rule |-> r, service |-> r.service]
      \/ \E r \in first : /\ r.index \in expect
                          /\ c = [do |-> "update", proto |-> p, rule |-> r,
                                  service |-> spec.paths[r.index]]
  BY <1>5
<1>7. first \subseteq exist
  BY DEF exist
<1> QED
  BY <1>1, <1>2, <1>3, <1>4, <1>6, <1>7

\* cleanUpThisIngress wipes frontends and deletes rules it found.
LEMMA CleanUpShape ==
  ASSUME TypeOK, NEW i \in Ing, NEW c \in CleanUpAction(i)
  PROVE  \/ c \in FtCall
         \/ c \in RuleCall /\ \E p \in Proto : c.rule \in FindIngressRule(p, i)
<1> DEFINE wiped == [source |-> None, backend |-> None]
<1>1. wiped \in Frontend
  BY DEF Frontend
<1>2. CASE \E p \in Proto : c = [do |-> "wipeFt", proto |-> p, old |-> ftCache[p], new |-> wiped]
  <2>1. PICK p \in Proto : c = [do |-> "wipeFt", proto |-> p, old |-> ftCache[p], new |-> wiped]
    BY <1>2
  <2>2. ftCache[p] \in FtValue
    BY DEF TypeOK, StoreOK
  <2> HIDE DEF wiped
  <2> QED
    BY <1>1, <2>1, <2>2 DEF FtCall
<1>3. CASE \E p \in Proto : \E r \in FindIngressRule(p, i) :
             c = [do |-> "purge", proto |-> r.proto, rule |-> r, service |-> r.service]
  <2>0. PICK p \in Proto : \E r \in FindIngressRule(p, i) :
             c = [do |-> "purge", proto |-> r.proto, rule |-> r, service |-> r.service]
    BY <1>3
  <2>1. PICK r \in FindIngressRule(p, i) :
             c = [do |-> "purge", proto |-> r.proto, rule |-> r, service |-> r.service]
    BY <2>0
  <2>2. r \in Rule /\ r.proto \in Proto /\ r.service \in Service
    BY <2>1, FoundRules
  <2> QED
    BY <2>1, <2>2 DEF RuleCall
<1> QED
  BY <1>2, <1>3 DEF CleanUpAction

\* A plan is the calls for one frontend, or those for the rules of every frontend the
\* ingress needs, all of which exist.
LEMMA SyncPlanShape ==
  ASSUME TypeOK, NEW i \in Ing, ShouldHandle(ing[i]), NEW P \in SyncPlans(i)
  PROVE  \/ \A c \in P : c \in FtCall /\ c.do # "wipeFt"
         \/ /\ \A p \in Proto : p \in ing[i].need => ftCache[p] # None
            /\ \A c \in P : \E p \in Proto : \E first \in SUBSET FindIngressRule(p, i) :
                 first \in FirstRules(FindIngressRule(p, i)) /\ c \in SyncRuleAction(i, p, first)
<1> DEFINE http  == IF "http" \in Proto THEN SyncFtAction(i, "http") ELSE {}
           https == IF "https" \in Proto THEN SyncFtAction(i, "https") ELSE {}
           exist == UNION {FindIngressRule(p, i) : p \in Proto}
           Firsts == {f \in [Proto -> SUBSET exist] :
                        \A p \in Proto : f[p] \in FirstRules(FindIngressRule(p, i))}
<1>1. \A c \in http \cup https : c \in FtCall /\ c.do # "wipeFt"
  BY SyncFtTyped
<1>2. \/ P = http \/ P = https
      \/ /\ http = {} /\ https = {}
         /\ P \in {UNION {SyncRuleAction(i, p, first[p]) : p \in Proto} : first \in Firsts}
  BY DEF SyncPlans
<1>3. CASE /\ http = {} /\ https = {}
           /\ P \in {UNION {SyncRuleAction(i, p, first[p]) : p \in Proto} : first \in Firsts}
  <2>1. \A p \in Proto : SyncFtAction(i, p) = {}
    BY <1>3, SyncConstants DEF SyncConstants
  <2>2. \A p \in Proto : p \in ing[i].need => ftCache[p] # None
    BY <2>1 DEF SyncFtAction
  <2>3. PICK first \in Firsts : P = UNION {SyncRuleAction(i, p, first[p]) : p \in Proto}
    BY <1>3
  <2>4. \A p \in Proto : /\ first[p] \in SUBSET FindIngressRule(p, i)
                         /\ first[p] \in FirstRules(FindIngressRule(p, i))
    BY <2>3 DEF FirstRules
  <2>5. \A c \in P : \E p \in Proto : c \in SyncRuleAction(i, p, first[p])
    BY <2>3
  <2> QED
    BY <2>2, <2>4, <2>5
<1> QED
  BY <1>1, <1>2, <1>3

\* Every plan consists of calls.
LEMMA PlanTyped ==
  ASSUME TypeOK, NEW i \in Ing, NEW P \in IF ShouldHandle(ing[i]) THEN SyncPlans(i) ELSE {CleanUpAction(i)}
  PROVE  P \subseteq Call
<1>1. CASE ShouldHandle(ing[i])
  BY <1>1, SyncPlanShape, SyncRuleShape DEF Call
<1>2. CASE ~ShouldHandle(ing[i])
  BY <1>2, CleanUpShape DEF Call
<1> QED
  BY <1>1, <1>2

\* A write of the rules keeps the types.
LEMMA WriteRulesTyped ==
  ASSUME TypeOK, NEW new \in SUBSET Rule, WriteRules(new)
  PROVE  rules' = new /\ ruleCache' \subseteq Rule /\ ruleWatch' \in Seq(SUBSET Rule)
<1>1. rules' = new
  BY DEF WriteRules
<1>2. CASE "lag" \in Faulty
  <2>1. ruleWatch' = Append(ruleWatch, new) /\ ruleCache' = ruleCache
    BY <1>2 DEF WriteRules
  <2> QED
    BY <1>1, <2>1, SMTT(30) DEF TypeOK, StoreOK
<1>3. CASE "lag" \notin Faulty
  BY <1>1, <1>3 DEF WriteRules, TypeOK, StoreOK
<1> QED
  BY <1>2, <1>3

\* A write of a frontend keeps the types.
LEMMA WriteFtTyped ==
  ASSUME TypeOK, NEW p \in Proto, NEW new \in FtValue, NEW local \in FtValue, WriteFt(p, new, local)
  PROVE  /\ fts' \in [Proto -> FtValue] /\ ftCache' \in [Proto -> FtValue]
         /\ ftWatch' \in [Proto -> Seq(FtValue)]
<1>1. fts' \in [Proto -> FtValue]
  BY DEF WriteFt, TypeOK, StoreOK
<1>2. CASE "lag" \in Faulty
  <2>1. /\ ftWatch' = [ftWatch EXCEPT ![p] = Append(ftWatch[p], new)]
        /\ ftCache' = [ftCache EXCEPT ![p] = local]
    BY <1>2 DEF WriteFt
  <2>2. Append(ftWatch[p], new) \in Seq(FtValue)
    BY SMTT(30) DEF TypeOK, StoreOK
  <2> QED
    BY <1>1, <2>1, <2>2 DEF TypeOK, StoreOK
<1>3. CASE "lag" \notin Faulty
  BY <1>1, <1>3 DEF WriteFt, TypeOK, StoreOK
<1> QED
  BY <1>2, <1>3

\* A call is one of the plan of cur.
LEMMA CurrentCall ==
  ASSUME TypeOK, NEW c \in plan
  PROVE  c \in Call /\ cur \in Ing
BY DEF TypeOK, WorkerOK

LEMMA LocalTyped ==
  ASSUME TypeOK, NEW c \in Call
  PROVE  Local(c) \in FtValue
<1>1. ftCache[c.proto] \in FtValue
  BY CallKinds DEF TypeOK, StoreOK
<1>2. c.do = "wipeFt" => c.new \in FtValue
  BY CallKinds, FtCallFields DEF FtValue
<1> QED
  BY <1>1, <1>2 DEF Local

\* A new rule has a name no rule has.
LEMMA FreshNameIsFresh ==
  ASSUME RuleName \ UsedNames # {}
  PROVE  FreshName \in RuleName /\ FreshName \notin UsedNames
BY DEF FreshName

\* The rule a creation adds.
NewRule(c) == [name |-> FreshName, source |-> cur, proto |-> c.proto, index |-> c.index,
               service |-> c.service]

LEMMA NewRuleTyped ==
  ASSUME TypeOK, NEW c \in plan, c.do = "create", RuleName \ UsedNames # {}
  PROVE  /\ NewRule(c) \in Rule /\ NewRule(c).name = FreshName /\ NewRule(c).source = cur
         /\ NewRule(c).proto = c.proto /\ NewRule(c).index = c.index
         /\ \A r \in rules : r.name # FreshName
<1>1. c \in NewRuleCall /\ cur \in Ing
  BY CurrentCall, CallKinds
<1>2. c.proto \in Proto /\ c.index \in Index /\ c.service \in Service
  BY <1>1, NewRuleCallFields
<1>3. FreshName \in RuleName /\ \A r \in rules : r.name # FreshName
  BY FreshNameIsFresh DEF UsedNames
<1> QED
  BY <1>1, <1>2, <1>3 DEF NewRule, Rule

\* The rule an update writes.
ChangedRule(c) == [c.rule EXCEPT !.service = c.service]

LEMMA ChangedRuleTyped ==
  ASSUME TypeOK, NEW c \in plan, c.do = "update"
  PROVE  /\ c.rule \in Rule /\ ChangedRule(c) \in Rule
         /\ ChangedRule(c).name = c.rule.name /\ ChangedRule(c).source = c.rule.source
         /\ ChangedRule(c).proto = c.rule.proto /\ ChangedRule(c).index = c.rule.index
<1>1. c \in RuleCall
  BY CurrentCall, CallKinds
<1>2. c.rule \in Rule /\ c.service \in Service
  BY <1>1, RuleCallFields
<1> QED
  BY <1>2 DEF ChangedRule, Rule

\* What an accepted call does to the rules.
Created(c) == RuleName \ UsedNames # {} /\ WriteRules(rules \cup {NewRule(c)})
Updated(c) == c.rule \in rules /\ WriteRules((rules \ {c.rule}) \cup {ChangedRule(c)})
Deleted(c) == WriteRules({r \in rules : r.name # c.rule.name})

\* An API call writes a frontend, or the rules, or at most the frontend in the cache.
LEMMA CallCases ==
  ASSUME NEW c \in plan, DoCall(c)
  PROVE  \/ /\ c.do \in {"createFt", "updateFt", "wipeFt"} /\ WriteFt(c.proto, c.new, Local(c))
            /\ UNCHANGED <<rules, ruleCache, ruleWatch>>
         \/ c.do = "create" /\ Created(c) /\ UNCHANGED <<fts, ftCache, ftWatch>>
         \/ c.do = "update" /\ Updated(c) /\ UNCHANGED <<fts, ftCache, ftWatch>>
         \/ /\ c.do \in {"dedup", "delete", "purge"} /\ Deleted(c)
            /\ UNCHANGED <<fts, ftCache, ftWatch>>
         \/ Refuse(c)
<1>1. Refuse(c) \/ (Answer(c) = "ok" /\ Apply(c))
  BY DEF DoCall
<1>2. CASE Answer(c) = "ok" /\ Apply(c)
  <2>1. CASE ApplyFt(c)
    BY <2>1 DEF ApplyFt
  <2>2. CASE ApplyCreate(c)
    BY <2>2 DEF ApplyCreate, Created, NewRule
  <2>3. CASE ApplyUpdate(c)
    <3>1. c.do = "update" => c.rule \in rules
      BY <1>2 DEF Answer
    <3> QED
      BY <2>3, <3>1 DEF ApplyUpdate, Updated, ChangedRule
  <2>4. CASE ApplyDelete(c)
    BY <2>4 DEF ApplyDelete, Deleted
  <2> QED
    BY <1>2, <2>1, <2>2, <2>3, <2>4 DEF Apply
<1> QED
  BY <1>1, <1>2

LEMMA CallStoreTyped ==
  ASSUME TypeOK, NEW c \in plan, DoCall(c)
  PROVE  StoreOK'
<1>1. c \in Call
  BY CurrentCall
<1>2. ing' = ing /\ services' = services
  BY DEF DoCall
<1> USE DEF TypeOK, StoreOK
<1>3. CASE /\ c.do \in {"createFt", "updateFt", "wipeFt"} /\ WriteFt(c.proto, c.new, Local(c))
           /\ UNCHANGED <<rules, ruleCache, ruleWatch>>
  <2>1. c.proto \in Proto /\ c.new \in FtValue /\ Local(c) \in FtValue
    BY <1>1, <1>3, CallKinds, FtCallFields, LocalTyped DEF FtValue
  <2> QED
    BY <1>2, <1>3, <2>1, WriteFtTyped
<1>4. CASE c.do = "create" /\ Created(c) /\ UNCHANGED <<fts, ftCache, ftWatch>>
  <2>1. rules \cup {NewRule(c)} \in SUBSET Rule
    BY <1>4, NewRuleTyped DEF Created
  <2>2. rules' = rules \cup {NewRule(c)} /\ ruleCache' \subseteq Rule /\ ruleWatch' \in Seq(SUBSET Rule)
    BY <1>4, <2>1, WriteRulesTyped DEF Created
  <2>3. \A r \in rules : r.name # NewRule(c).name
    BY <1>4, NewRuleTyped DEF Created
  <2> QED
    BY <1>2, <1>4, <2>1, <2>2, <2>3
<1>5. CASE c.do = "update" /\ Updated(c) /\ UNCHANGED <<fts, ftCache, ftWatch>>
  <2>1. (rules \ {c.rule}) \cup {ChangedRule(c)} \in SUBSET Rule
    BY <1>5, ChangedRuleTyped
  <2>2. /\ rules' = (rules \ {c.rule}) \cup {ChangedRule(c)}
        /\ ruleCache' \subseteq Rule /\ ruleWatch' \in Seq(SUBSET Rule)
    BY <1>5, <2>1, WriteRulesTyped DEF Updated
  <2>3. \A r \in rules \ {c.rule} : r.name # ChangedRule(c).name
    BY <1>5, ChangedRuleTyped, SMTT(30) DEF Updated
  <2> QED
    BY <1>2, <1>5, <2>1, <2>2, <2>3
<1>6. CASE /\ c.do \in {"dedup", "delete", "purge"} /\ Deleted(c)
           /\ UNCHANGED <<fts, ftCache, ftWatch>>
  <2>1. {r \in rules : r.name # c.rule.name} \in SUBSET Rule
    OBVIOUS
  <2>2. /\ rules' = {r \in rules : r.name # c.rule.name}
        /\ ruleCache' \subseteq Rule /\ ruleWatch' \in Seq(SUBSET Rule)
    BY <1>6, <2>1, WriteRulesTyped DEF Deleted
  <2> QED
    BY <1>2, <1>6, <2>1, <2>2
<1>7. CASE Refuse(c)
  BY <1>1, <1>2, <1>7, CallKinds, LocalTyped DEF Refuse, server
<1> QED
  BY <1>3, <1>4, <1>5, <1>6, <1>7, CallCases

LEMMA CallWorkerTyped ==
  ASSUME TypeOK, NEW c \in plan, DoCall(c)
  PROVE  WorkerOK'
<1>1. cur \in Ing
  BY CurrentCall
<1>2. PICK answer : After(c, answer)
  BY DEF DoCall
<1>3. queue' \subseteq Ing /\ cur' \in Ing \cup {None} /\ plan' \subseteq Call
  BY <1>1, <1>2 DEF After, TypeOK, WorkerOK
<1>4. cur' = None => plan' = {}
  BY <1>1, <1>2, SyncConstants DEF After, SyncConstants
<1>5. edits' = edits /\ (faults' = faults \/ (faults < MaxFault /\ faults' = faults + 1))
  BY DEF DoCall, Fault
<1>6. edits' \in 0..MaxEdit /\ faults' \in 0..MaxFault
  BY <1>5, SyncConstants, SMTT(30) DEF SyncConstants, TypeOK, WorkerOK
<1> QED
  BY <1>3, <1>4, <1>6 DEF WorkerOK

LEMMA TypeInit == Init => TypeOK
<1> SUFFICES ASSUME Init PROVE TypeOK
  OBVIOUS
<1>1. [source |-> None, backend |-> None] \in FtValue /\ None \in FtValue
  BY DEF FtValue, Frontend
<1>2. fts \in [Proto -> FtValue]
  BY <1>1 DEF Init
<1>3. StoreOK
  BY <1>2, SyncConstants, SMTT(30) DEF Init, SyncConstants, StoreOK
<1>4. WorkerOK
  BY SyncConstants, SMTT(30) DEF Init, SyncConstants, WorkerOK
<1> QED
  BY <1>3, <1>4 DEF TypeOK

LEMMA TypeStep == TypeOK /\ [Next]_vars => TypeOK'
<1> SUFFICES ASSUME TypeOK, [Next]_vars PROVE TypeOK'
  OBVIOUS
<1> USE SyncConstants
<1>1. ASSUME NEW i \in Ing, Reconcile(i) PROVE TypeOK'
  <2>1. plan' \subseteq Call
    BY <1>1, PlanTyped DEF Reconcile
  <2>2. StoreOK'
    BY <1>1 DEF Reconcile, TypeOK, StoreOK, server, cached
  <2>3. WorkerOK'
    BY <1>1, <2>1 DEF Reconcile, TypeOK, WorkerOK, SyncConstants
  <2> QED
    BY <2>2, <2>3 DEF TypeOK
<1>2. ASSUME NEW i \in Ing, NEW spec \in Shape \cup {None}, EditIngress(i, spec) PROVE TypeOK'
  <2>1. StoreOK'
    BY <1>2 DEF EditIngress, TypeOK, StoreOK, server, cached
  <2>2. WorkerOK'
    BY <1>2, SMTT(30) DEF EditIngress, TypeOK, WorkerOK, SyncConstants
  <2> QED
    BY <2>1, <2>2 DEF TypeOK
<1>3. ASSUME NEW c \in plan, DoCall(c) PROVE TypeOK'
  BY <1>3, CallStoreTyped, CallWorkerTyped DEF TypeOK
<1>4. ASSUME SeeRules PROVE TypeOK'
  <2>1. Head(ruleWatch) \in SUBSET Rule /\ Tail(ruleWatch) \in Seq(SUBSET Rule)
    BY <1>4, SMTT(30) DEF SeeRules, TypeOK, StoreOK
  <2>2. StoreOK'
    BY <1>4, <2>1 DEF SeeRules, TypeOK, StoreOK, server
  <2>3. WorkerOK'
    BY <1>4 DEF SeeRules, TypeOK, WorkerOK, worker
  <2> QED
    BY <2>2, <2>3 DEF TypeOK
<1>5. ASSUME NEW p \in Proto, SeeFt(p) PROVE TypeOK'
  <2>1. Head(ftWatch[p]) \in FtValue /\ Tail(ftWatch[p]) \in Seq(FtValue)
    BY <1>5, SMTT(30) DEF SeeFt, TypeOK, StoreOK
  <2>2. StoreOK'
    BY <1>5, <2>1 DEF SeeFt, TypeOK, StoreOK, server
  <2>3. WorkerOK'
    BY <1>5 DEF SeeFt, TypeOK, WorkerOK, worker
  <2> QED
    BY <2>2, <2>3 DEF TypeOK
<1>6. ASSUME NEW s \in Service, FlipService(s) PROVE TypeOK'
  <2>1. StoreOK'
    BY <1>6 DEF FlipService, TypeOK, StoreOK, server, cached
  <2>2. WorkerOK'
    BY <1>6, SMTT(30) DEF FlipService, Fault, TypeOK, WorkerOK, worker, SyncConstants
  <2> QED
    BY <2>1, <2>2 DEF TypeOK
<1>7. ASSUME Crash PROVE TypeOK'
  <2>1. StoreOK'
    BY <1>7, SMTT(30) DEF Crash, TypeOK, StoreOK, server
  <2>2. WorkerOK'
    BY <1>7, SMTT(30) DEF Crash, Fault, TypeOK, WorkerOK, SyncConstants
  <2> QED
    BY <2>1, <2>2 DEF TypeOK
<1>8. ASSUME OnResync PROVE TypeOK'
  <2>1. StoreOK'
    BY <1>8 DEF OnResync, TypeOK, StoreOK, server, cached
  <2>2. WorkerOK'
    BY <1>8 DEF OnResync, HandledKeys, TypeOK, WorkerOK
  <2> QED
    BY <2>1, <2>2 DEF TypeOK
<1>9. ASSUME UNCHANGED vars PROVE TypeOK'
  BY <1>9 DEF vars, server, cached, worker, TypeOK, StoreOK, WorkerOK
<1> QED
  BY <1>1, <1>2, <1>3, <1>4, <1>5, <1>6, <1>7, <1>8, <1>9 DEF Next

\* The objects and the calls keep their shape, and two rules of the server never share a
\* name (createRule takes a random one), whatever the ingresses, the lag and the faults.
THEOREM TypeCorrect == Spec => []TypeOK
BY TypeInit, TypeStep, PTL DEF Spec

-----------------------------------------------------------------------------
(* Frontends before rules. *)

\* Frontends are never deleted, the cache knows none that does not exist, and a plan
\* creates rules only on frontends that exist.
FrontendInv ==
  /\ \A p \in Proto : fts[p] = None => ftCache[p] = None /\ ftWatch[p] = <<>>
  /\ \A c \in plan : c.do \in {"create", "wipeFt"} => fts[c.proto] # None
  /\ RulesHaveFrontend

LEMMA FrontendInit == Init => FrontendInv
<1> SUFFICES ASSUME Init PROVE FrontendInv
  OBVIOUS
<1>1. [source |-> None, backend |-> None] \in Frontend /\ None \notin Frontend
  BY SyncConstants DEF Frontend, SyncConstants
<1>2. \A r \in UserRules : r.proto \in Proto
  BY SyncConstants DEF SyncConstants, Rule
<1>3. \A r \in UserRules : fts[r.proto] = [source |-> None, backend |-> None]
  BY <1>2 DEF Init
<1> QED
  BY <1>1, <1>3 DEF Init, FrontendInv, RulesHaveFrontend

LEMMA FrontendPlan ==
  ASSUME TypeOK, FrontendInv, NEW i \in Ing, NEW c,
         c \in CleanUpAction(i) \/ (ShouldHandle(ing[i]) /\ \E P \in SyncPlans(i) : c \in P),
         c.do \in {"create", "wipeFt"}
  PROVE  fts[c.proto] # None
<1>1. CASE c \in CleanUpAction(i)
  <2>1. c \in FtCall \/ c \in RuleCall
    BY <1>1, CleanUpShape
  <2>2. c \notin RuleCall
    BY CallKinds DEF Call
  <2>3. \E p \in Proto : ftCache[p] # None /\ c.proto = p
    BY <1>1, <2>1, <2>2, CallKinds, SMTT(30) DEF CleanUpAction, RuleCall
  <2> QED
    BY <2>3 DEF FrontendInv
<1>2. CASE ShouldHandle(ing[i]) /\ \E P \in SyncPlans(i) : c \in P
  <2>1. PICK P \in SyncPlans(i) : c \in P
    BY <1>2
  <2>2. CASE c \in FtCall /\ c.do # "wipeFt"
    BY <2>2, CallKinds DEF Call
  <2>3. ASSUME NEW p \in Proto, NEW first \in SUBSET FindIngressRule(p, i),
               c \in SyncRuleAction(i, p, first),
               \A q \in Proto : q \in ing[i].need => ftCache[q] # None
        PROVE  fts[c.proto] # None
    <3>1. c \notin RuleCall
      BY CallKinds DEF Call
    <3>2. c.proto = p /\ p \in ing[i].need
      BY <1>2, <2>3, <3>1, SyncRuleShape
    <3> QED
      BY <2>3, <3>2 DEF FrontendInv
  <2> QED
    BY <1>2, <2>1, <2>2, <2>3, SyncPlanShape
<1> QED
  BY <1>1, <1>2

LEMMA FrontendStep == TypeOK /\ FrontendInv /\ [Next]_vars => FrontendInv'
<1> SUFFICES ASSUME TypeOK, FrontendInv, [Next]_vars PROVE FrontendInv'
  OBVIOUS
<1>1. ASSUME NEW i \in Ing, Reconcile(i) PROVE FrontendInv'
  <2>1. \A c \in plan' : c.do \in {"create", "wipeFt"} => fts[c.proto] # None
    BY <1>1, FrontendPlan DEF Reconcile
  <2> QED
    BY <1>1, <2>1 DEF Reconcile, FrontendInv, RulesHaveFrontend, server, cached
<1>2. ASSUME NEW c \in plan, DoCall(c) PROVE FrontendInv'
  <2>1. c \in Call /\ c.proto \in Proto
    BY CurrentCall, CallKinds
  <2>2. plan' \subseteq plan
    BY <1>2 DEF DoCall, After
  <2>3. CASE /\ c.do \in {"createFt", "updateFt", "wipeFt"} /\ WriteFt(c.proto, c.new, Local(c))
             /\ UNCHANGED <<rules, ruleCache, ruleWatch>>
    <3>1. c.new # None
      BY <2>1, <2>3, CallKinds, FtCallFields, SyncConstants, SMTT(30) DEF SyncConstants
    <3>2. \A p \in Proto : fts[p] # None => fts'[p] # None
      BY <2>3, <3>1 DEF WriteFt, TypeOK, StoreOK
    <3>3. \A p \in Proto : fts'[p] = None => p # c.proto /\ fts[p] = None
      BY <2>1, <2>3, <3>1 DEF WriteFt, TypeOK, StoreOK
    <3>4. \A p \in Proto : p # c.proto => ftCache'[p] = ftCache[p] /\ ftWatch'[p] = ftWatch[p]
      BY <2>1, <2>3 DEF WriteFt, TypeOK, StoreOK
    <3>5. \A d \in plan : d.proto \in Proto
      BY CallKinds DEF TypeOK, WorkerOK
    <3>6. \A r \in rules : r.proto \in Proto
      BY DEF TypeOK, StoreOK, Rule
    <3> QED
      BY <2>2, <2>3, <3>2, <3>3, <3>4, <3>5, <3>6 DEF FrontendInv, RulesHaveFrontend
  <2>4. CASE c.do = "create" /\ Created(c) /\ UNCHANGED <<fts, ftCache, ftWatch>>
    <3>1. rules' = rules \cup {NewRule(c)} /\ NewRule(c).proto = c.proto
      BY <2>4, NewRuleTyped DEF Created, WriteRules
    <3> QED
      BY <2>2, <2>4, <3>1 DEF FrontendInv, RulesHaveFrontend
  <2>5. CASE c.do = "update" /\ Updated(c) /\ UNCHANGED <<fts, ftCache, ftWatch>>
    <3>1. /\ rules' = (rules \ {c.rule}) \cup {ChangedRule(c)} /\ c.rule \in rules
          /\ ChangedRule(c).proto = c.rule.proto
      BY <2>5, ChangedRuleTyped DEF Updated, WriteRules
    <3> QED
      BY <2>2, <2>5, <3>1 DEF FrontendInv, RulesHaveFrontend
  <2>6. CASE /\ c.do \in {"dedup", "delete", "purge"} /\ Deleted(c)
             /\ UNCHANGED <<fts, ftCache, ftWatch>>
    <3>1. rules' \subseteq rules
      BY <2>6 DEF Deleted, WriteRules
    <3> QED
      BY <2>2, <2>6, <3>1 DEF FrontendInv, RulesHaveFrontend
  <2>7. CASE Refuse(c)
    <3>1. rules' = rules /\ fts' = fts /\ ftWatch' = ftWatch
      BY <2>7 DEF Refuse, server
    <3>2. \A p \in Proto : fts[p] = None => ftCache'[p] = ftCache[p]
      BY <2>1, <2>7 DEF Refuse, Local, FrontendInv, TypeOK, StoreOK
    <3> QED
      BY <2>2, <3>1, <3>2 DEF FrontendInv, RulesHaveFrontend
  <2> QED
    BY <1>2, <2>3, <2>4, <2>5, <2>6, <2>7, CallCases
<1>3. ASSUME NEW p \in Proto, SeeFt(p) PROVE FrontendInv'
  BY <1>3 DEF SeeFt, FrontendInv, RulesHaveFrontend, server, worker, TypeOK, StoreOK
<1>4. CASE Crash
  BY <1>4 DEF Crash, FrontendInv, RulesHaveFrontend, server
<1>5. CASE UNCHANGED <<server, ftCache, ftWatch, plan>>
  BY <1>5 DEF FrontendInv, RulesHaveFrontend, server
<1>6. ASSUME NEW i \in Ing, NEW spec \in Shape \cup {None}, EditIngress(i, spec) PROVE FrontendInv'
  BY <1>5, <1>6 DEF EditIngress, server, cached
<1>7. ASSUME SeeRules \/ OnResync \/ \E s \in Service : FlipService(s) PROVE FrontendInv'
  BY <1>5, <1>7 DEF SeeRules, OnResync, FlipService, cached, worker
<1>8. ASSUME UNCHANGED vars PROVE FrontendInv'
  BY <1>5, <1>8 DEF vars, cached, worker
<1> QED
  BY <1>1, <1>2, <1>3, <1>4, <1>6, <1>7, <1>8 DEF Next

\* No rule ever comes before its frontend, whatever the lag of the cache, the crashes and
\* the failed calls (doUpdate makes the frontend and requeues before it makes rules).
THEOREM RulesFollowFrontends == Spec => []RulesHaveFrontend
<1>1. FrontendInv => RulesHaveFrontend
  BY DEF FrontendInv
<1> QED
  BY <1>1, TypeInit, TypeStep, FrontendInit, FrontendStep, PTL DEF Spec

-----------------------------------------------------------------------------
(* Nobody else's rules. *)

\* The rules in a sequence of versions, and all the rules that can still be read.
Versions(s) == UNION {s[n] : n \in 1..Len(s)}
Known == rules \cup ruleCache \cup Versions(ruleWatch)

\* A name stands for rules of one source, and the calls of a plan name rules of cur only.
OwnInv ==
  /\ \A r, s \in Known : r.name = s.name => r.source = s.source
  /\ \A c \in plan : c.do \in {"dedup", "delete", "update", "purge"} =>
       c.rule.source = cur /\ \A r \in Known : r.name = c.rule.name => r.source = cur

LEMMA VersionsAppend ==
  ASSUME NEW s \in Seq(SUBSET Rule), NEW x \in SUBSET Rule
  PROVE  Versions(Append(s, x)) \subseteq Versions(s) \cup x
<1> SUFFICES ASSUME NEW n \in 1..Len(Append(s, x)), NEW r \in Append(s, x)[n]
             PROVE  r \in x \/ \E m \in 1..Len(s) : r \in s[m]
  BY DEF Versions
<1>1. CASE n = Len(s) + 1
  BY <1>1, SMTT(30)
<1>2. CASE n \in 1..Len(s)
  BY <1>2, SMTT(30)
<1> QED
  BY <1>1, <1>2, SMTT(30)

LEMMA VersionsTail ==
  ASSUME NEW s \in Seq(SUBSET Rule), s # <<>>
  PROVE  Head(s) \subseteq Versions(s) /\ Versions(Tail(s)) \subseteq Versions(s)
<1>1. Len(s) \in Nat /\ Len(s) >= 1 /\ Head(s) = s[1]
  BY SMTT(30)
<1>2. Head(s) \subseteq Versions(s)
  BY <1>1, SMTT(30) DEF Versions
<1>3. ASSUME NEW n \in 1..Len(Tail(s)) PROVE Tail(s)[n] = s[n + 1] /\ n + 1 \in 1..Len(s)
  BY <1>1, SMTT(30)
<1> QED
  BY <1>2, <1>3 DEF Versions

\* A write of the rules makes nothing known but what it writes.
LEMMA KnownAfterWrite ==
  ASSUME TypeOK, NEW new \in SUBSET Rule, WriteRules(new)
  PROVE  Known' \subseteq Known \cup new
<1>1. CASE "lag" \in Faulty
  <2>1. ruleWatch' = Append(ruleWatch, new) /\ ruleCache' = ruleCache /\ rules' = new
    BY <1>1 DEF WriteRules
  <2>2. Versions(ruleWatch') \subseteq Versions(ruleWatch) \cup new
    BY <2>1, VersionsAppend DEF TypeOK, StoreOK
  <2> QED
    BY <2>1, <2>2 DEF Known
<1>2. CASE "lag" \notin Faulty
  BY <1>2 DEF WriteRules, Known
<1> QED
  BY <1>1, <1>2

\* A plan names rules of its ingress that are in the cache.
LEMMA OwnPlan ==
  ASSUME TypeOK, NEW i \in Ing, NEW c,
         c \in CleanUpAction(i) \/ (ShouldHandle(ing[i]) /\ \E P \in SyncPlans(i) : c \in P),
         c.do \in {"dedup", "delete", "update", "purge"}
  PROVE  c.rule \in ruleCache /\ c.rule.source = i
<1>1. c \notin FtCall /\ c \notin NewRuleCall
  BY CallKinds DEF Call
<1>2. \E p \in Proto : c.rule \in FindIngressRule(p, i)
  <2>1. CASE c \in CleanUpAction(i)
    BY <1>1, <2>1, CleanUpShape
  <2>2. CASE ShouldHandle(ing[i]) /\ \E P \in SyncPlans(i) : c \in P
    <3>1. PICK P \in SyncPlans(i) : c \in P
      BY <2>2
    <3>2. \E p \in Proto : \E first \in SUBSET FindIngressRule(p, i) : c \in SyncRuleAction(i, p, first)
      BY <1>1, <2>2, <3>1, SyncPlanShape
    <3> QED
      BY <1>1, <2>2, <3>2, SyncRuleShape
  <2> QED
    BY <2>1, <2>2
<1> QED
  BY <1>2, FoundRules

LEMMA OwnInit == Init => OwnInv
<1> SUFFICES ASSUME Init PROVE OwnInv
  OBVIOUS
<1>1. Known = UserRules
  BY SMTT(30) DEF Init, Known, Versions
<1> QED
  BY <1>1, SyncConstants DEF Init, OwnInv, SyncConstants

\* The worker goes on with the same key while calls of its plan are left.
LEMMA AfterCall ==
  ASSUME TypeOK, NEW c \in plan, DoCall(c)
  PROVE  plan' \subseteq plan /\ (plan' # {} => cur' = cur)
BY DEF DoCall, After

\* OwnInv survives when no rule becomes known, or only ones of cur with a name that is new
\* or that stands for rules of cur.
LEMMA OwnKept ==
  ASSUME OwnInv, NEW new, Known' \subseteq Known \cup new,
         \A r \in new : r \in Known \/ (r.source = cur /\ \A s \in Known : s.name = r.name => s.source = cur),
         plan' \subseteq plan, plan' # {} => cur' = cur
  PROVE  OwnInv'
<1>1. \A r \in Known' : r \in Known \/ (r.source = cur /\ \A s \in Known : s.name = r.name => s.source = cur)
  OBVIOUS
<1>2. \A r, s \in Known' : r.name = s.name => r.source = s.source
  BY <1>1 DEF OwnInv
<1>3. ASSUME NEW c \in plan', c.do \in {"dedup", "delete", "update", "purge"}
      PROVE  c.rule.source = cur' /\ \A r \in Known' : r.name = c.rule.name => r.source = cur'
  BY <1>1, <1>3 DEF OwnInv
<1> QED
  BY <1>2, <1>3 DEF OwnInv

LEMMA OwnCall ==
  ASSUME TypeOK, OwnInv, NEW c \in plan, DoCall(c)
  PROVE  /\ OwnInv'
         /\ \A r \in (rules \ rules') \cup (rules' \ rules) : r.source = cur
<1>1. plan' \subseteq plan /\ (plan' # {} => cur' = cur)
  BY AfterCall
<1>2. rules \subseteq Known /\ rules \subseteq Rule
  BY DEF Known, TypeOK, StoreOK
<1>3. CASE UNCHANGED <<rules, ruleCache, ruleWatch>>
  <2>1. Known' = Known
    BY <1>3 DEF Known, Versions
  <2> QED
    BY <1>1, <1>3, <2>1, OwnKept
<1>4. CASE c.do = "create" /\ Created(c)
  <2> DEFINE new == rules \cup {NewRule(c)}
  <2>1. new \subseteq Rule /\ NewRule(c).name = FreshName /\ NewRule(c).source = cur
    BY <1>2, <1>4, NewRuleTyped DEF Created
  <2>2. Known' \subseteq Known \cup new /\ rules' = new
    BY <1>4, <2>1, KnownAfterWrite DEF Created, WriteRules
  <2>3. \A s \in Known : s.name # FreshName
    BY <1>4, FreshNameIsFresh DEF Created, UsedNames, Known, Versions
  <2> QED
    BY <1>1, <1>2, <2>1, <2>2, <2>3, OwnKept
<1>5. CASE c.do = "update" /\ Updated(c)
  <2> DEFINE new == (rules \ {c.rule}) \cup {ChangedRule(c)}
  <2>1. /\ new \subseteq Rule
        /\ ChangedRule(c).name = c.rule.name /\ ChangedRule(c).source = c.rule.source
    BY <1>2, <1>5, ChangedRuleTyped
  <2>2. Known' \subseteq Known \cup new /\ rules' = new
    BY <1>5, <2>1, KnownAfterWrite DEF Updated, WriteRules
  <2>3. c.rule.source = cur /\ \A s \in Known : s.name = c.rule.name => s.source = cur
    BY <1>5 DEF OwnInv
  <2> QED
    BY <1>1, <1>2, <2>1, <2>2, <2>3, OwnKept
<1>6. CASE c.do \in {"dedup", "delete", "purge"} /\ Deleted(c)
  <2> DEFINE new == {r \in rules : r.name # c.rule.name}
  <2>1. Known' \subseteq Known \cup new /\ rules' = new
    BY <1>2, <1>6, KnownAfterWrite DEF Deleted, WriteRules
  <2>2. \A s \in Known : s.name = c.rule.name => s.source = cur
    BY <1>6 DEF OwnInv
  <2> QED
    BY <1>1, <1>2, <2>1, <2>2, OwnKept
<1> QED
  BY <1>3, <1>4, <1>5, <1>6, CallCases DEF Refuse, server

LEMMA OwnStep == TypeOK /\ OwnInv /\ [Next]_vars => OwnInv'
<1> SUFFICES ASSUME TypeOK, OwnInv, [Next]_vars PROVE OwnInv'
  OBVIOUS
<1>1. ASSUME NEW i \in Ing, Reconcile(i) PROVE OwnInv'
  <2>1. Known' = Known /\ ruleCache \subseteq Known
    BY <1>1 DEF Reconcile, Known, Versions, server, cached
  <2>2. \A c \in plan' : c.do \in {"dedup", "delete", "update", "purge"} =>
          c.rule \in ruleCache /\ c.rule.source = i
    BY <1>1, OwnPlan DEF Reconcile
  <2>3. plan' # {} => cur' = i
    BY <1>1 DEF Reconcile
  <2> QED
    BY <2>1, <2>2, <2>3 DEF OwnInv
<1>2. ASSUME NEW c \in plan, DoCall(c) PROVE OwnInv'
  BY <1>2, OwnCall
<1>3. ASSUME Known' \subseteq Known, plan' \subseteq plan, plan' # {} => cur' = cur PROVE OwnInv'
  BY <1>3 DEF OwnInv
<1>4. CASE SeeRules
  <2>1. Head(ruleWatch) \subseteq Versions(ruleWatch) /\ Versions(Tail(ruleWatch)) \subseteq Versions(ruleWatch)
    BY <1>4, VersionsTail DEF SeeRules, TypeOK, StoreOK
  <2>2. Known' \subseteq Known
    BY <1>4, <2>1 DEF SeeRules, Known, server
  <2> QED
    BY <1>3, <1>4, <2>2 DEF SeeRules, worker
<1>5. CASE Crash
  <2>1. Known' \subseteq Known
    BY <1>5, SMTT(30) DEF Crash, Known, Versions, server
  <2> QED
    BY <1>3, <1>5, <2>1 DEF Crash
<1>6. CASE UNCHANGED <<rules, ruleCache, ruleWatch, plan, cur>>
  <2>1. Known' = Known
    BY <1>6 DEF Known, Versions
  <2> QED
    BY <1>3, <1>6, <2>1
<1>7. ASSUME NEW i \in Ing, NEW spec \in Shape \cup {None}, EditIngress(i, spec) PROVE OwnInv'
  BY <1>6, <1>7 DEF EditIngress, server, cached
<1>8. ASSUME OnResync \/ (\E p \in Proto : SeeFt(p)) \/ (\E s \in Service : FlipService(s))
      PROVE  OwnInv'
  BY <1>6, <1>8 DEF OnResync, SeeFt, FlipService, server, cached, worker
<1>9. ASSUME UNCHANGED vars PROVE OwnInv'
  BY <1>6, <1>9 DEF vars, server, cached, worker
<1> QED
  BY <1>1, <1>2, <1>4, <1>5, <1>7, <1>8, <1>9 DEF Next

\* The rules of users and of other ingresses are never touched: a rule is created, changed
\* or deleted only while its ingress is reconciled, even though a deletion finds the rule
\* by a name read from a cache that lags.
THEOREM NobodyElsesRules == Spec => OnlyOwnRules
<1> DEFINE Own == \A r \in (rules \ rules') \cup (rules' \ rules) : r.source # None /\ r.source = cur
<1>1. TypeOK /\ OwnInv /\ [Next]_vars => [Own]_vars
  <2> SUFFICES ASSUME TypeOK, OwnInv, Next PROVE Own
    OBVIOUS
  <2>1. ASSUME NEW c \in plan, DoCall(c) PROVE Own
    <3>1. cur # None
      BY CurrentCall, SyncConstants DEF SyncConstants
    <3> QED
      BY <2>1, <3>1, OwnCall
  <2>2. CASE rules' = rules
    BY <2>2
  <2>3. (\E c \in plan : DoCall(c)) \/ rules' = rules
    BY DEF Next, Reconcile, EditIngress, SeeRules, SeeFt, FlipService, Crash, OnResync, server
  <2> QED
    BY <2>1, <2>2, <2>3
<1> QED
  BY <1>1, TypeInit, TypeStep, OwnInit, OwnStep, PTL DEF Spec, OnlyOwnRules

-----------------------------------------------------------------------------
(* One rule per path, when the cache does not lag. *)

\* The cache is up to date, and a plan creates one rule for a position that has none.
PathInv ==
  /\ ruleWatch = <<>> /\ ruleCache = rules
  /\ \A c \in plan : c.do = "create" => RulesOf(cur, c.proto, c.index) = {}
  /\ \A c, d \in plan :
       c.do = "create" /\ d.do = "create" /\ c.proto = d.proto /\ c.index = d.index => c = d
  /\ OneRulePerPath

\* What a plan creates: one rule for a position that has none.
LEMMA PathPlan ==
  ASSUME TypeOK, ruleCache = rules, NEW i \in Ing, NEW P,
         P = CleanUpAction(i) \/ (ShouldHandle(ing[i]) /\ P \in SyncPlans(i)),
         NEW c \in P, c.do = "create"
  PROVE  /\ c \in NewRuleCall /\ c.service = ing[i].paths[c.index]
         /\ RulesOf(i, c.proto, c.index) = {}
<1>1. c \notin FtCall /\ c \notin RuleCall
  BY CallKinds DEF Call
<1>2. ShouldHandle(ing[i]) /\ P \in SyncPlans(i)
  BY <1>1, CleanUpShape
<1>3. /\ \A q \in Proto : q \in ing[i].need => ftCache[q] # None
      /\ \E q \in Proto : \E first \in SUBSET FindIngressRule(q, i) : c \in SyncRuleAction(i, q, first)
  BY <1>1, <1>2, SyncPlanShape
<1>4. PICK p \in Proto : \E first \in SUBSET FindIngressRule(p, i) : c \in SyncRuleAction(i, p, first)
  BY <1>3
<1>5. /\ c \in NewRuleCall /\ c.proto = p /\ p \in ing[i].need
      /\ c.service = ing[i].paths[c.index] /\ \A r \in FindIngressRule(p, i) : r.index # c.index
  BY <1>1, <1>2, <1>4, SyncRuleShape
<1>6. RulesOf(i, p, c.index) = {}
  BY <1>3, <1>5 DEF RulesOf, FindIngressRule
<1> QED
  BY <1>5, <1>6

LEMMA SameNewRuleCall ==
  ASSUME NEW c \in NewRuleCall, NEW d \in NewRuleCall,
         c.proto = d.proto, c.index = d.index, c.service = d.service
  PROVE  c = d
BY SMTT(30) DEF NewRuleCall

LEMMA PathCall ==
  ASSUME "lag" \notin Faulty, TypeOK, PathInv, NEW c \in plan, DoCall(c)
  PROVE  PathInv'
<1>1. plan' \subseteq plan /\ (plan' # {} => cur' = cur)
  BY AfterCall
<1>2. CASE UNCHANGED <<rules, ruleCache, ruleWatch>>
  BY <1>1, <1>2, SMTT(30) DEF PathInv, RulesOf, OneRulePerPath
<1>3. ASSUME NEW new, WriteRules(new) PROVE rules' = new /\ ruleCache' = rules' /\ ruleWatch' = <<>>
  BY <1>3 DEF WriteRules, PathInv
<1>4. \A i \in Ing, p \in Proto, n \in Index : \A r, s \in rules :
        r.source = i /\ s.source = i /\ r.proto = p /\ s.proto = p /\ r.index = n /\ s.index = n => r = s
  BY SMTT(30) DEF PathInv, OneRulePerPath, RulesOf
<1>5. \A d \in plan : d.do = "create" =>
        \A r \in rules : ~(r.source = cur /\ r.proto = d.proto /\ r.index = d.index)
  BY DEF PathInv, RulesOf
<1>6. CASE c.do = "create" /\ Created(c)
  <2>1. rules' = rules \cup {NewRule(c)} /\ ruleCache' = rules' /\ ruleWatch' = <<>>
    BY <1>3, <1>6 DEF Created
  <2>2. NewRule(c).source = cur /\ NewRule(c).proto = c.proto /\ NewRule(c).index = c.index
    BY <1>6, NewRuleTyped DEF Created
  <2>3. c \notin plan' \/ plan' = {}
    BY DEF DoCall, After
  <2>4. OneRulePerPath'
    BY <1>4, <1>5, <1>6, <2>1, <2>2, SMTT(30) DEF OneRulePerPath, RulesOf
  <2>5. \A d \in plan' : d.do = "create" => RulesOf(cur, d.proto, d.index)' = {}
    BY <1>1, <1>5, <1>6, <2>1, <2>2, <2>3, SMTT(30) DEF RulesOf, PathInv
  <2> QED
    BY <1>1, <2>1, <2>4, <2>5 DEF PathInv
<1>7. CASE c.do = "update" /\ Updated(c)
  <2>1. /\ rules' = (rules \ {c.rule}) \cup {ChangedRule(c)} /\ ruleCache' = rules' /\ ruleWatch' = <<>>
        /\ c.rule \in rules
    BY <1>3, <1>7 DEF Updated
  <2>2. /\ ChangedRule(c).source = c.rule.source /\ ChangedRule(c).proto = c.rule.proto
        /\ ChangedRule(c).index = c.rule.index
    BY <1>7, ChangedRuleTyped
  <2>3. OneRulePerPath'
    BY <1>4, <2>1, <2>2, SMTT(30) DEF OneRulePerPath, RulesOf
  <2>4. \A d \in plan' : d.do = "create" => RulesOf(cur, d.proto, d.index)' = {}
    BY <1>1, <1>5, <2>1, <2>2, SMTT(30) DEF RulesOf
  <2> QED
    BY <1>1, <2>1, <2>3, <2>4 DEF PathInv
<1>8. CASE c.do \in {"dedup", "delete", "purge"} /\ Deleted(c)
  <2>1. rules' \subseteq rules /\ ruleCache' = rules' /\ ruleWatch' = <<>>
    BY <1>3, <1>8, SMTT(30) DEF Deleted
  <2>2. OneRulePerPath'
    BY <1>4, <2>1, SMTT(30) DEF OneRulePerPath, RulesOf
  <2>3. \A d \in plan' : d.do = "create" => RulesOf(cur, d.proto, d.index)' = {}
    BY <1>1, <1>5, <2>1 DEF RulesOf
  <2> QED
    BY <1>1, <2>1, <2>2, <2>3 DEF PathInv
<1> QED
  BY <1>2, <1>6, <1>7, <1>8, CallCases DEF Refuse, server

LEMMA PathInit == Init => PathInv
BY SyncConstants DEF Init, PathInv, OneRulePerPath, RulesOf, SyncConstants

LEMMA PathStep ==
  ASSUME "lag" \notin Faulty
  PROVE  TypeOK /\ PathInv /\ [Next]_vars => PathInv'
<1> SUFFICES ASSUME TypeOK, PathInv, [Next]_vars PROVE PathInv'
  OBVIOUS
<1>1. ASSUME NEW i \in Ing, Reconcile(i) PROVE PathInv'
  <2>1. \A c \in plan' : c.do = "create" =>
          c \in NewRuleCall /\ c.service = ing[i].paths[c.index] /\ RulesOf(i, c.proto, c.index) = {}
    BY <1>1, PathPlan DEF Reconcile, PathInv
  <2>2. plan' # {} => cur' = i
    BY <1>1 DEF Reconcile
  <2>3. \A c, d \in plan' :
          c.do = "create" /\ d.do = "create" /\ c.proto = d.proto /\ c.index = d.index => c = d
    BY <2>1, SameNewRuleCall, SMTT(30)
  <2>4. UNCHANGED <<rules, ruleCache, ruleWatch>>
    BY <1>1 DEF Reconcile, server, cached
  <2> QED
    BY <2>1, <2>2, <2>3, <2>4, SMTT(30) DEF PathInv, RulesOf, OneRulePerPath
<1>2. ASSUME NEW c \in plan, DoCall(c) PROVE PathInv'
  BY <1>2, PathCall
<1>3. CASE SeeRules
  BY <1>3 DEF SeeRules, PathInv
<1>4. CASE Crash
  BY <1>4, SMTT(30) DEF Crash, PathInv, RulesOf, OneRulePerPath, server
<1>5. CASE UNCHANGED <<rules, ruleCache, ruleWatch, plan, cur>>
  BY <1>5, SMTT(30) DEF PathInv, RulesOf, OneRulePerPath
<1>6. ASSUME NEW i \in Ing, NEW spec \in Shape \cup {None}, EditIngress(i, spec) PROVE PathInv'
  BY <1>5, <1>6 DEF EditIngress, server, cached
<1>7. ASSUME OnResync \/ (\E p \in Proto : SeeFt(p)) \/ (\E s \in Service : FlipService(s))
      PROVE  PathInv'
  BY <1>5, <1>7 DEF OnResync, SeeFt, FlipService, server, cached, worker
<1>8. ASSUME UNCHANGED vars PROVE PathInv'
  BY <1>5, <1>8 DEF vars, server, cached, worker
<1> QED
  BY <1>1, <1>2, <1>3, <1>4, <1>6, <1>7, <1>8 DEF Next

\* A path never has two rules on a frontend while the cache keeps up with the API server,
\* whatever the edits, crashes and failed calls.  With a cache that lags it may.
THEOREM OneRule ==
  ASSUME "lag" \notin Faulty
  PROVE  Spec => []OneRulePerPath
<1>1. PathInv => OneRulePerPath
  BY DEF PathInv
<1> QED
  BY <1>1, TypeInit, TypeStep, PathInit, PathStep, PTL DEF Spec

-----------------------------------------------------------------------------
(* A path keeps its rule, when neither the cache lags nor services come and go. *)

OnRule(c) == c.do \in {"dedup", "delete", "update", "purge"}

\* The call that a plan for ingress i makes on a rule of its own.
CallOn(i, r) ==
  LET kept == ShouldHandle(ing[i]) /\ r.index \in Wanted(i, r.proto)
  IN [do |-> IF kept THEN "update" ELSE IF ShouldHandle(ing[i]) THEN "delete" ELSE "purge",
      proto |-> r.proto, rule |-> r, service |-> IF kept THEN ing[i].paths[r.index] ELSE r.service]

\* Every rule of a plan is still there, in its place, and has one call; it is never taken
\* for a duplicate, and it is deleted only when nobody wants it or cur is queued again.
CallInv(c) ==
  /\ c.do # "dedup"
  /\ \E r \in rules : r.name = c.rule.name
  /\ \A r \in rules : r.name = c.rule.name =>
       r.source = cur /\ r.proto = c.proto /\ r.index = c.rule.index
  /\ c.do \in {"delete", "purge"} => c.rule.index \notin Wanted(cur, c.proto) \/ cur \in queue
KeepInv ==
  /\ \A c \in plan : OnRule(c) => CallInv(c)
  /\ \A c, d \in plan : OnRule(c) /\ OnRule(d) /\ c.rule.name = d.rule.name => c = d

\* Where no position has two rules, every rule is the first of its position.
LEMMA AllFirst ==
  ASSUME NEW exist, NEW first \in FirstRules(exist), \A r, s \in exist : r.index = s.index => r = s
  PROVE  first = exist
<1>1. first \subseteq exist
  BY DEF FirstRules
<1>2. ASSUME NEW r \in exist PROVE r \in first
  <2>1. PICK s \in first : {t \in first : t.index = r.index} = {s}
    BY DEF FirstRules
  <2>2. s \in exist /\ s.index = r.index
    BY <1>1, <2>1
  <2> QED
    BY <2>1, <2>2
<1> QED
  BY <1>1, <1>2

LEMMA SyncRuleCalls ==
  ASSUME TypeOK, PathInv, NEW i \in Ing, ShouldHandle(ing[i]), NEW p \in Proto,
         NEW first \in FirstRules(FindIngressRule(p, i)), NEW c \in SyncRuleAction(i, p, first), OnRule(c)
  PROVE  c.rule \in FindIngressRule(p, i) /\ c = CallOn(i, c.rule)
<1> DEFINE spec   == ing[i]
           expect == IF p \in spec.need THEN ExpectIndex(spec) ELSE {}
           exist  == FindIngressRule(p, i)
<1>1. \A r \in exist : r.proto = p /\ r.source = i /\ r.index \in Index /\ r \in rules
  BY FoundRules, SMTT(30) DEF PathInv
<1>2. ASSUME NEW r \in exist, NEW s \in exist, r.index = s.index PROVE r = s
  <2>1. r \in RulesOf(i, p, r.index) /\ s \in RulesOf(i, p, r.index) /\ r.index \in Index
    BY <1>1, <1>2 DEF RulesOf
  <2> QED
    BY <2>1 DEF PathInv, OneRulePerPath
<1>3. first = exist
  BY <1>2, AllFirst
<1>4. expect = Wanted(i, p)
  BY DEF Wanted
<1>5. SyncRuleAction(i, p, first) =
      {[do |-> "create", proto |-> p, index |-> n, service |-> spec.paths[n]] :
         n \in expect \ {r.index : r \in exist}}
      \cup {[do |-> "dedup", proto |-> p, rule |-> r, service |-> r.service] : r \in exist \ first}
      \cup {[do |-> "delete", proto |-> p, rule |-> r, service |-> r.service] :
              r \in {r \in exist : r.index \notin expect}}
      \cup {[do |-> "update", proto |-> p, rule |-> r, service |-> spec.paths[r.index]] :
              r \in {r \in first : r.index \in expect /\ r.service # spec.paths[r.index]}}
  BY DEF SyncRuleAction
<1> HIDE DEF expect, exist, spec
<1>6. \/ \E n \in expect : c = [do |-> "create", proto |-> p, index |-> n, service |-> spec.paths[n]]
      \/ \E r \in exist : /\ r.index \notin expect
                          /\ c = [do |-> "delete", proto |-> p, rule |-> r, service |-> r.service]
      \/ \E r \in exist : /\ r.index \in expect
                          /\ c = [do |-> "update", proto |-> p, rule |-> r,
                                  service |-> spec.paths[r.index]]
  BY <1>3, <1>5
<1>7. ASSUME NEW n, c = [do |-> "create", proto |-> p, index |-> n, service |-> spec.paths[n]] PROVE FALSE
  BY <1>7 DEF OnRule
<1>8. ASSUME NEW r \in exist, r.index \notin expect,
             c = [do |-> "delete", proto |-> p, rule |-> r, service |-> r.service]
      PROVE  c.rule \in exist /\ c = CallOn(i, c.rule)
  BY <1>1, <1>4, <1>8 DEF CallOn
<1>9. ASSUME NEW r \in exist, r.index \in expect,
             c = [do |-> "update", proto |-> p, rule |-> r, service |-> spec.paths[r.index]]
      PROVE  c.rule \in exist /\ c = CallOn(i, c.rule)
  BY <1>1, <1>4, <1>9 DEF CallOn, spec
<1>10. c.rule \in exist /\ c = CallOn(i, c.rule)
  BY <1>6, <1>7, <1>8, <1>9
<1> QED
  BY <1>10 DEF exist

LEMMA CleanUpCalls ==
  ASSUME TypeOK, NEW i \in Ing, ~ShouldHandle(ing[i]), NEW c \in CleanUpAction(i), OnRule(c)
  PROVE  \E p \in Proto : c.rule \in FindIngressRule(p, i) /\ c = CallOn(i, c.rule)
<1> DEFINE wiped == [source |-> None, backend |-> None]
           found == UNION {FindIngressRule(p, i) : p \in Proto}
<1>0. \/ \E p \in Proto : c = [do |-> "wipeFt", proto |-> p, old |-> ftCache[p], new |-> wiped]
      \/ \E r \in found : c = [do |-> "purge", proto |-> r.proto, rule |-> r, service |-> r.service]
  BY DEF CleanUpAction
<1> HIDE DEF wiped, found
<1>1. PICK r \in found : c = [do |-> "purge", proto |-> r.proto, rule |-> r, service |-> r.service]
  BY <1>0, SMTT(30) DEF OnRule
<1>2. PICK p \in Proto : r \in FindIngressRule(p, i)
  BY <1>1 DEF found
<1> QED
  BY <1>1, <1>2 DEF CallOn

\* A plan has for each rule of its own the call for that rule, or none.
LEMMA KeepPlan ==
  ASSUME TypeOK, PathInv, NEW i \in Ing,
         NEW P \in IF ShouldHandle(ing[i]) THEN SyncPlans(i) ELSE {CleanUpAction(i)},
         NEW c \in P, OnRule(c)
  PROVE  c.rule \in rules /\ c.rule.source = i /\ c = CallOn(i, c.rule)
<1>1. \E p \in Proto : c.rule \in FindIngressRule(p, i) /\ c = CallOn(i, c.rule)
  <2>1. CASE ShouldHandle(ing[i])
    <3>1. ~(c \in FtCall /\ c.do # "wipeFt")
      BY CallKinds DEF Call, OnRule
    <3>2. PICK p \in Proto : \E first \in SUBSET FindIngressRule(p, i) :
            first \in FirstRules(FindIngressRule(p, i)) /\ c \in SyncRuleAction(i, p, first)
      BY <2>1, <3>1, SyncPlanShape
    <3> QED
      BY <2>1, <3>2, SyncRuleCalls
  <2>2. CASE ~ShouldHandle(ing[i])
    BY <2>2, CleanUpCalls
  <2> QED
    BY <2>1, <2>2
<1> QED
  BY <1>1, FoundRules DEF PathInv

LEMMA KeepReconcile ==
  ASSUME TypeOK, PathInv, NEW i \in Ing, Reconcile(i)
  PROVE  KeepInv'
<1>1. /\ plan' \in IF ShouldHandle(ing[i]) THEN SyncPlans(i) ELSE {CleanUpAction(i)}
      /\ plan' # {} => cur' = i
      /\ UNCHANGED <<rules, ing, services>>
  BY DEF Reconcile, server
<1>2. \A c \in plan' : OnRule(c) => c.rule \in rules /\ c.rule.source = i /\ c = CallOn(i, c.rule)
  BY <1>1, KeepPlan
<1>3. \A r, s \in rules : r.name = s.name => r = s
  BY DEF TypeOK, StoreOK
<1>4. ASSUME NEW c \in plan', OnRule(c) PROVE CallInv(c)'
  <2>1. c.rule \in rules /\ c.rule.source = cur' /\ c = CallOn(i, c.rule) /\ cur' = i
    BY <1>1, <1>2, <1>4
  <2>2. c.do # "dedup" /\ c.proto = c.rule.proto
    BY <2>1, SMTT(30) DEF CallOn
  <2>3. c.do \in {"delete", "purge"} => c.rule.index \notin Wanted(i, c.proto)
    BY <2>1, SMTT(30) DEF CallOn, Wanted
  <2>4. Wanted(cur, c.proto)' = Wanted(i, c.proto)
    BY <1>1, <2>1 DEF Wanted, ExpectIndex, ShouldHandle
  <2> QED
    BY <1>1, <1>3, <2>1, <2>2, <2>3, <2>4 DEF CallInv
<1>5. ASSUME NEW c \in plan', NEW d \in plan', OnRule(c), OnRule(d), c.rule.name = d.rule.name
      PROVE  c = d
  <2>1. c.rule = d.rule
    BY <1>2, <1>3, <1>5
  <2> QED
    BY <1>2, <1>5, <2>1
<1> QED
  BY <1>4, <1>5 DEF KeepInv, OnRule

\* What an API call does to the plan and to the queue: the call itself is over.
LEMMA CallOver ==
  ASSUME NEW c \in plan, DoCall(c)
  PROVE  /\ plan' \subseteq plan \ {c} /\ (plan' # {} => cur' = cur)
         /\ queue \subseteq queue' /\ UNCHANGED <<ing, services>>
BY DEF DoCall, After

LEMMA KeepCall ==
  ASSUME TypeOK, KeepInv, NEW c \in plan, DoCall(c)
  PROVE  KeepInv'
<1>1. /\ plan' \subseteq plan \ {c} /\ (plan' # {} => cur' = cur)
      /\ queue \subseteq queue' /\ UNCHANGED <<ing, services>>
  BY CallOver
<1>2. \A p : cur' = cur => Wanted(cur, p)' = Wanted(cur, p)
  BY <1>1 DEF Wanted, ExpectIndex, ShouldHandle
<1>3. ASSUME \A d \in plan : OnRule(d) /\ d # c =>
               /\ \E r \in rules' : r.name = d.rule.name
               /\ \A r \in rules' : r.name = d.rule.name =>
                    r.source = cur /\ r.proto = d.proto /\ r.index = d.rule.index
      PROVE  KeepInv'
  <2>1. ASSUME NEW d \in plan', OnRule(d) PROVE CallInv(d)'
    <3>1. d \in plan /\ d # c /\ CallInv(d) /\ cur' = cur
      BY <1>1, <2>1 DEF KeepInv
    <3>2. Wanted(cur, d.proto)' = Wanted(cur, d.proto)
      BY <1>2, <3>1
    <3> QED
      BY <1>1, <1>3, <2>1, <3>1, <3>2 DEF CallInv
  <2> QED
    BY <1>1, <2>1 DEF KeepInv, OnRule
<1>4. \A d \in plan : OnRule(d) =>
        /\ \E r \in rules : r.name = d.rule.name
        /\ \A r \in rules : r.name = d.rule.name =>
             r.source = cur /\ r.proto = d.proto /\ r.index = d.rule.index
  BY DEF KeepInv, CallInv
<1>5. CASE rules' = rules
  BY <1>3, <1>4, <1>5
<1>6. CASE c.do = "create" /\ Created(c)
  <2>1. rules' = rules \cup {NewRule(c)} /\ NewRule(c).name = FreshName /\ \A r \in rules : r.name # FreshName
    BY <1>6, NewRuleTyped DEF Created, WriteRules
  <2> QED
    BY <1>3, <1>4, <2>1, SMTT(30)
<1>7. CASE c.do = "update" /\ Updated(c)
  <2>1. /\ rules' = (rules \ {c.rule}) \cup {ChangedRule(c)} /\ c.rule \in rules
        /\ ChangedRule(c).name = c.rule.name /\ ChangedRule(c).source = c.rule.source
        /\ ChangedRule(c).proto = c.rule.proto /\ ChangedRule(c).index = c.rule.index
    BY <1>7, ChangedRuleTyped DEF Updated, WriteRules
  <2> QED
    BY <1>3, <1>4, <2>1, SMTT(30)
<1>8. CASE c.do \in {"dedup", "delete", "purge"} /\ Deleted(c)
  <2>1. rules' = {r \in rules : r.name # c.rule.name}
    BY <1>8 DEF Deleted, WriteRules
  <2>2. \A d \in plan : OnRule(d) /\ d # c => d.rule.name # c.rule.name
    BY <1>8 DEF KeepInv, OnRule
  <2> QED
    BY <1>3, <1>4, <2>1, <2>2
<1> QED
  BY <1>5, <1>6, <1>7, <1>8, CallCases DEF Refuse, server

LEMMA KeepStep ==
  ASSUME "service" \notin Faulty, TypeOK, PathInv, KeepInv, [Next]_vars
  PROVE  KeepInv'
<1>1. ASSUME NEW i \in Ing, Reconcile(i) PROVE KeepInv'
  BY <1>1, KeepReconcile
<1>2. ASSUME NEW c \in plan, DoCall(c) PROVE KeepInv'
  BY <1>2, KeepCall
<1>3. CASE Crash
  BY <1>3 DEF Crash, KeepInv
<1>4. ASSUME UNCHANGED <<rules, plan, cur>>, queue \subseteq queue',
             \A p \in Proto : cur \in Ing => Wanted(cur, p)' = Wanted(cur, p) \/ cur \in queue'
      PROVE  KeepInv'
  <2>1. ASSUME NEW c \in plan, OnRule(c) PROVE CallInv(c)'
    <3>1. CallInv(c) /\ c.proto \in Proto /\ cur \in Ing
      BY <2>1, CurrentCall, CallKinds DEF KeepInv
    <3>2. Wanted(cur, c.proto)' = Wanted(cur, c.proto) \/ cur \in queue'
      BY <1>4, <3>1
    <3> QED
      BY <1>4, <3>1, <3>2 DEF CallInv
  <2> QED
    BY <1>4, <2>1 DEF KeepInv, OnRule
<1>5. ASSUME UNCHANGED <<rules, plan, cur, ing, services>>, queue \subseteq queue' PROVE KeepInv'
  <2>1. \A p \in Proto : Wanted(cur, p)' = Wanted(cur, p)
    BY <1>5 DEF Wanted, ExpectIndex, ShouldHandle
  <2> QED
    BY <1>4, <1>5, <2>1
<1>6. ASSUME NEW i \in Ing, NEW spec \in Shape \cup {None}, EditIngress(i, spec) PROVE KeepInv'
  <2>1. /\ UNCHANGED <<rules, plan, cur, services>> /\ queue \subseteq queue'
        /\ ing' = [ing EXCEPT ![i] = spec]
        /\ i \in queue' \/ ~(OurClass(ing[i]) \/ OurClass(spec))
    BY <1>6 DEF EditIngress, server
  <2>2. ASSUME NEW p \in Proto, cur \in Ing
        PROVE  Wanted(cur, p)' = Wanted(cur, p) \/ cur \in queue'
    <3>1. CASE cur # i
      <4>1. ing'[cur] = ing[cur]
        BY <2>1, <2>2, <3>1 DEF TypeOK, StoreOK
      <4> QED
        BY <2>1, <4>1, SMTT(30) DEF Wanted, ExpectIndex, ShouldHandle
    <3>2. CASE cur = i /\ i \notin queue'
      <4>1. ing'[i] = spec /\ ~ShouldHandle(ing[i]) /\ ~ShouldHandle(spec)
        BY <2>1, <3>2 DEF TypeOK, StoreOK, OurClass, ShouldHandle
      <4> QED
        BY <2>1, <3>2, <4>1 DEF Wanted, ShouldHandle
    <3> QED
      BY <3>1, <3>2
  <2> QED
    BY <1>4, <2>1, <2>2
<1>7. ASSUME SeeRules \/ OnResync \/ \E p \in Proto : SeeFt(p) PROVE KeepInv'
  BY <1>5, <1>7 DEF SeeRules, OnResync, SeeFt, server, cached, worker
<1>8. ASSUME NEW s \in Service, FlipService(s) PROVE FALSE
  BY <1>8 DEF FlipService, Fault
<1>9. ASSUME UNCHANGED vars PROVE KeepInv'
  BY <1>5, <1>9 DEF vars, server, worker
<1> QED
  BY <1>1, <1>2, <1>3, <1>6, <1>7, <1>8, <1>9 DEF Next

\* A path that stays in its ingress never loses its last rule to a reconcile, unless the
\* ingress is about to be reconciled again: genSyncRuleAction updates a rule in place, and
\* a deletion that an edit has overtaken finds the ingress in the queue.  A cache that lags
\* takes the rule for a duplicate of one that is gone; a service that comes back while
\* a deletion is under way is not enqueued: neither may happen here.
THEOREM PathsKeepRules ==
  ASSUME "lag" \notin Faulty, "service" \notin Faulty
  PROVE  Spec => RuleKept
<1> DEFINE Kept == \A i \in Ing, p \in Proto : \A n \in Wanted(i, p) \cap Wanted(i, p)' :
                     RulesOf(i, p, n) # {} => RulesOf(i, p, n)' # {} \/ i \in queue'
           Inv == TypeOK /\ PathInv /\ KeepInv
<1>1. Init => Inv
  <2>1. Init => KeepInv
    BY DEF Init, KeepInv
  <2> QED
    BY <2>1, TypeInit, PathInit
<1>2. Inv /\ [Next]_vars => Inv'
  BY TypeStep, PathStep, KeepStep
<1>3. Inv /\ [Next]_vars => [Kept]_vars
  <2> SUFFICES ASSUME Inv, Next, NEW i \in Ing, NEW p \in Proto, NEW n \in Wanted(i, p),
                      NEW r \in rules, r.source = i, r.proto = p, r.index = n,
                      RulesOf(i, p, n)' = {}
               PROVE  i \in queue'
    BY DEF RulesOf
  <2>1. r \notin rules' /\ \A s \in rules' : ~(s.source = i /\ s.proto = p /\ s.index = n)
    BY DEF RulesOf
  <2>2. PICK c \in plan : DoCall(c)
    <3>1. (\E c \in plan : DoCall(c)) \/ rules' = rules
      BY DEF Next, Reconcile, EditIngress, SeeRules, SeeFt, FlipService, Crash, OnResync, server
    <3> QED
      BY <2>1, <3>1
  <2>3. queue \subseteq queue'
    BY <2>2, CallOver
  <2>4. CASE UNCHANGED rules
    BY <2>1, <2>4
  <2>5. CASE c.do = "create" /\ Created(c)
    BY <2>1, <2>5 DEF Created, WriteRules
  <2>6. CASE c.do = "update" /\ Updated(c)
    <3>1. /\ rules' = (rules \ {c.rule}) \cup {ChangedRule(c)}
          /\ ChangedRule(c).source = c.rule.source /\ ChangedRule(c).proto = c.rule.proto
          /\ ChangedRule(c).index = c.rule.index
      BY <2>6, ChangedRuleTyped DEF Updated, WriteRules
    <3> QED
      BY <2>1, <3>1
  <2>7. CASE c.do \in {"dedup", "delete", "purge"} /\ Deleted(c)
    <3>1. r.name = c.rule.name
      BY <2>1, <2>7 DEF Deleted, WriteRules
    <3>2. CallInv(c)
      BY <2>7 DEF KeepInv, OnRule
    <3>3. i = cur /\ p = c.proto /\ n = c.rule.index /\ c.do \in {"delete", "purge"}
      BY <2>7, <3>1, <3>2 DEF CallInv
    <3> QED
      BY <2>3, <3>2, <3>3 DEF CallInv
  <2> QED
    BY <2>2, <2>4, <2>5, <2>6, <2>7, CallCases DEF Refuse, server
<1> QED
  BY <1>1, <1>2, <1>3, PTL DEF Spec, RuleKept
=============================================================================
