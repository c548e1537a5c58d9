-------------------------- MODULE PolicySyncProofs --------------------------
(***************************************************************************)
(* Safety of PolicySync for any number of workers, entries, keys and       *)
(* policies.                                                               *)
(*                                                                         *)
(* HttpRuleFresh is not inductive: it speaks of the moments when no update *)
(* is under way.  DictInv says how far the dictionaries have come in every *)
(* step of an update, and CacheInv that a cached rule is current unless    *)
(* its port is the one being replaced or the worker has an event for it.   *)
(***************************************************************************)
EXTENDS PolicySync, TLAPS

\* The prover of every leaf that names none.
USE ZenonT(30)

\* The entry has been written: it is off the list, or written first and now awaiting
\* the delete of its cached copy.
EntryDone(e) == e \notin todo \/ (pc = "second" /\ cur = e /\ ~CacheFirst(e))

\* The dictionaries hold the raw policy, but for what the update has yet to write.
DictInv ==
  /\ \A e \in Entry : EntryDone(e) => dict[e] = raw[e]
  /\ pc # "backends" => dict[Backends] = raw[Backends]
  /\ pc = "idle" => todo = {}

\* k is cached for the rules of a port.
RuleKey(k) == Kind[Reads[k][1]] = "httpRule"

\* Between the write of k and the delete of its cached copy.
Replacing(k) == pc = "second" /\ cur = k

\* A cached copy of k is current, or its delete is under way, or its worker was told.
CacheInvAt(k) ==
  /\ l2[k] = 0 \/ l2[k] = dict[k] \/ Replacing(k)
  /\ \A w \in Worker :
       /\ l1[w][k] = 0 \/ l1[w][k] = dict[k] \/ Replacing(k) \/ k \in inbox[w]
       /\ phase[w] = "store" /\ key[w] = k => got[w] = dict[k]

CacheInv == \A k \in Key : RuleKey(k) => CacheInvAt(k)

-----------------------------------------------------------------------------
LEMMA VersionFacts == 0 \in Version /\ Version \subseteq Nat
  BY SyncConstants, SMTT(30) DEF SyncConstants, Version

LEMMA DataStep == TypeOK /\ [Next]_vars => DataOK'
<1> SUFFICES ASSUME TypeOK, [Next]_vars PROVE DataOK'
  OBVIOUS
<1> USE DEF TypeOK, DataOK, Policy
<1>1. CASE Publish
  <2>1. published + 1 \in Version /\ 0 \in Version
    BY <1>1, SyncConstants, SMTT(30) DEF Publish, Version, SyncConstants
  <2> QED
    BY <1>1, <2>1, SMTT(30) DEF Publish
<1>2. CASE FetchPolicy
  BY <1>2 DEF FetchPolicy
<1>3. CASE SetBackends
  BY <1>3 DEF SetBackends, Item
<1>4. CASE BeginEntry
  BY <1>4 DEF BeginEntry, WriteEntry, DeleteCached, UpdateOK, Item
<1>5. CASE FinishEntry
  BY <1>5 DEF FinishEntry, WriteEntry, DeleteCached, UpdateOK, Item
<1>6. CASE Crash
  <2>1. faults' \in 0..MaxFault
    BY <1>6, SyncConstants, SMTT(30) DEF Crash, Fails, SyncConstants
  <2> QED
    BY <1>6, <2>1 DEF Crash, Item
<1>7. ASSUME NEW w \in Worker, Request(w) PROVE DataOK'
  BY <1>7 DEF Request, StartLookup, ReadL2, ReadEntry, Store
<1>8. ASSUME NEW w \in Worker, SyncBackends(w) PROVE DataOK'
  BY <1>8 DEF SyncBackends, Item
<1>9. ASSUME NEW w \in Worker, LoseEvent(w) PROVE DataOK'
  <2>1. faults' \in 0..MaxFault
    BY <1>9, SyncConstants, SMTT(30) DEF LoseEvent, Fails, SyncConstants
  <2> QED
    BY <1>9, <2>1 DEF LoseEvent
<1>10. ASSUME NEW w \in Worker, NEW k \in Key, ExpireL1(w, k) PROVE DataOK'
  BY <1>10 DEF ExpireL1
<1>11. ASSUME NEW k \in Key, ExpireL2(k) PROVE DataOK'
  BY <1>11 DEF ExpireL2
<1>12. CASE UNCHANGED vars
  BY <1>12 DEF vars
<1> QED
  BY <1>1, <1>2, <1>3, <1>4, <1>5, <1>6, <1>7, <1>8, <1>9, <1>10, <1>11, <1>12 DEF Next, Update

LEMMA CacheTypeStep == TypeOK /\ [Next]_vars => CacheOK'
<1> SUFFICES ASSUME TypeOK, [Next]_vars PROVE CacheOK'
  OBVIOUS
<1> USE VersionFacts DEF TypeOK, CacheOK
<1>1. CASE Publish \/ FetchPolicy \/ SetBackends
  BY <1>1 DEF Publish, FetchPolicy, SetBackends
<1>2. ASSUME NEW e, DeleteCached(e) PROVE CacheOK'
  <2>1. Worker0 \in Worker
    BY SyncConstants DEF SyncConstants
  <2>2. CASE e \in Key
    <3>1. l1' \in [Worker -> [Key -> Version]]
      BY <1>2, <2>1, <2>2, SMTT(30) DEF DeleteCached
    <3>2. l2' \in [Key -> Version]
      BY <1>2, <2>2 DEF DeleteCached
    <3>3. \A w \in Worker :
            (IF w = Worker0 THEN inbox[w] ELSE inbox[w] \cup {e}) \in SUBSET Key
      BY <2>2
    <3>4. inbox' \in [Worker -> SUBSET Key]
      BY <1>2, <2>2, <3>3 DEF DeleteCached
    <3> QED
      BY <3>1, <3>2, <3>4
  <2>3. CASE e \notin Key
    BY <1>2, <2>3 DEF DeleteCached
  <2> QED
    BY <2>2, <2>3
<1>3. ASSUME NEW e, WriteEntry(e) PROVE CacheOK'
  BY <1>3 DEF WriteEntry
<1>4. CASE BeginEntry \/ FinishEntry
  BY <1>2, <1>3, <1>4 DEF BeginEntry, FinishEntry
<1>5. CASE Crash
  BY <1>5 DEF Crash
<1>6. ASSUME NEW w \in Worker, NEW k \in Key, StartLookup(w, k) PROVE CacheOK'
  BY <1>6 DEF StartLookup
<1>7. ASSUME NEW w \in Worker, ReadL2(w) PROVE CacheOK'
  <2>1. key[w] \in Key
    BY <1>7 DEF ReadL2, LookupOK
  <2>2. CASE l2[key[w]] # 0
    BY <1>7, <2>1, <2>2, SMTT(30) DEF ReadL2
  <2>3. CASE l2[key[w]] = 0
    BY <1>7, <2>1, <2>3 DEF ReadL2
  <2> QED
    BY <2>2, <2>3
<1>8. ASSUME NEW w \in Worker, ReadEntry(w) PROVE CacheOK'
  BY <1>8 DEF ReadEntry
<1>9. ASSUME NEW w \in Worker, Store(w) PROVE CacheOK'
  BY <1>9 DEF Store, LookupOK
<1>10. ASSUME NEW w \in Worker, SyncBackends(w) PROVE CacheOK'
  BY <1>10 DEF SyncBackends
<1>11. ASSUME NEW w \in Worker, LoseEvent(w) PROVE CacheOK'
  BY <1>11 DEF LoseEvent
<1>12. ASSUME NEW w \in Worker, NEW k \in Key, ExpireL1(w, k) PROVE CacheOK'
  BY <1>12 DEF ExpireL1
<1>13. ASSUME NEW k \in Key, ExpireL2(k) PROVE CacheOK'
  BY <1>13 DEF ExpireL2
<1>14. CASE UNCHANGED vars
  BY <1>14 DEF vars
<1> QED
  BY <1>1, <1>4, <1>5, <1>6, <1>7, <1>8, <1>9, <1>10, <1>11, <1>12, <1>13, <1>14
  DEF Next, Update, Request

LEMMA UpdateTypeStep == TypeOK /\ [Next]_vars => UpdateOK'
<1> SUFFICES ASSUME TypeOK, [Next]_vars PROVE UpdateOK'
  OBVIOUS
<1> USE DEF TypeOK, UpdateOK, Item, update, Continue
<1>1. CASE FetchPolicy
  BY <1>1 DEF FetchPolicy, DiffKeys
<1>2. CASE SetBackends
  BY <1>2 DEF SetBackends
<1>3. CASE BeginEntry
  BY <1>3, SMTT(30) DEF BeginEntry
<1>4. CASE FinishEntry
  BY <1>4 DEF FinishEntry
<1>5. CASE Publish \/ Crash
  BY <1>5 DEF Publish, Crash
<1>6. ASSUME NEW w \in Worker, Request(w) \/ SyncBackends(w) \/ LoseEvent(w) PROVE UpdateOK'
  BY <1>6 DEF Request, StartLookup, ReadL2, ReadEntry, Store, SyncBackends, LoseEvent
<1>7. ASSUME NEW w \in Worker, NEW k \in Key, ExpireL1(w, k) PROVE UpdateOK'
  BY <1>7 DEF ExpireL1
<1>8. ASSUME NEW k \in Key, ExpireL2(k) PROVE UpdateOK'
  BY <1>8 DEF ExpireL2
<1>9. CASE UNCHANGED vars
  BY <1>9 DEF vars
<1> QED
  BY <1>1, <1>2, <1>3, <1>4, <1>5, <1>6, <1>7, <1>8, <1>9 DEF Next, Update

LEMMA EndLookupType ==
  ASSUME LookupOK, NEW w \in Worker, EndLookup(w)
  PROVE  LookupOK'
  BY VersionFacts DEF LookupOK, EndLookup

LEMMA LookupTypeStep == TypeOK /\ [Next]_vars => LookupOK'
<1> SUFFICES ASSUME TypeOK, [Next]_vars PROVE LookupOK'
  OBVIOUS
<1> USE VersionFacts DEF TypeOK, LookupOK, lookup
<1>0. \A k \in Key : Len(Reads[k]) \in Nat /\ Len(Reads[k]) > 0
  BY SyncConstants, SMTT(30) DEF SyncConstants
<1>1. CASE Publish \/ Update \/ Crash
  BY <1>1 DEF Publish, Update, FetchPolicy, SetBackends, BeginEntry, FinishEntry, Crash
<1>2. ASSUME NEW w \in Worker, NEW k \in Key, StartLookup(w, k) PROVE LookupOK'
  <2>1. CASE l1'[w][k] # 0
    BY <1>2, <2>1 DEF StartLookup
  <2>2. CASE l1'[w][k] = 0
    <3>1. /\ phase' = [phase EXCEPT ![w] = "l2"] /\ key' = [key EXCEPT ![w] = k]
          /\ phase[w] = "idle" /\ at' = at /\ got' = got
      BY <1>2, <2>2 DEF StartLookup
    <3> QED
      BY <1>0, <3>1, SMTT(30)
  <2> QED
    BY <2>1, <2>2
<1>3. ASSUME NEW w \in Worker, ReadL2(w) PROVE LookupOK'
  <2>1. CASE EndLookup(w)
    BY <2>1, EndLookupType
  <2>2. CASE phase' = [phase EXCEPT ![w] = "fill"] /\ UNCHANGED <<key, at, got>>
    BY <1>0, <1>3, <2>2 DEF ReadL2
  <2> QED
    BY <1>3, <2>1, <2>2 DEF ReadL2
<1>4. ASSUME NEW w \in Worker, ReadEntry(w) PROVE LookupOK'
  <2>1. Reads[key[w]][at[w]] \in Entry
    BY <1>4, SyncConstants, SMTT(30) DEF ReadEntry, SyncConstants
  <2>2. dict[Reads[key[w]][at[w]]] \in Version
    BY <2>1 DEF DataOK, Policy, Item
  <2>3. CASE EndLookup(w)
    BY <2>3, EndLookupType
  <2>4. CASE /\ got' = [got EXCEPT ![w] = dict[Reads[key[w]][at[w]]]]
             /\ phase' = [phase EXCEPT ![w] = "store"] /\ UNCHANGED <<key, at>>
    BY <1>4, <2>2, <2>4 DEF ReadEntry
  <2>5. CASE /\ at[w] < Len(Reads[key[w]]) /\ at' = [at EXCEPT ![w] = @ + 1]
             /\ UNCHANGED <<phase, key, got>>
    BY <1>0, <1>4, <2>5, SMTT(30) DEF ReadEntry
  <2> QED
    BY <1>4, <2>3, <2>4, <2>5 DEF ReadEntry
<1>5. ASSUME NEW w \in Worker, Store(w) PROVE LookupOK'
  BY <1>5 DEF Store, EndLookup
<1>6. ASSUME NEW w \in Worker, SyncBackends(w) \/ LoseEvent(w) PROVE LookupOK'
  BY <1>6 DEF SyncBackends, LoseEvent
<1>7. ASSUME NEW w \in Worker, NEW k \in Key, ExpireL1(w, k) PROVE LookupOK'
  BY <1>7 DEF ExpireL1
<1>8. ASSUME NEW k \in Key, ExpireL2(k) PROVE LookupOK'
  BY <1>8 DEF ExpireL2
<1>9. CASE UNCHANGED vars
  BY <1>9 DEF vars
<1> QED
  BY <1>1, <1>2, <1>3, <1>4, <1>5, <1>6, <1>7, <1>8, <1>9 DEF Next, Request

\* Every variable keeps its type in every step of the update and of the lookups.
THEOREM TypeCorrect == Spec => []TypeOK
<1>1. Init => TypeOK
  BY VersionFacts, SyncConstants, SMTT(30)
  DEF SyncConstants, Init, TypeOK, DataOK, CacheOK, UpdateOK, LookupOK, Absent, Policy, Item
<1>2. TypeOK /\ [Next]_vars => TypeOK'
  BY DataStep, CacheTypeStep, UpdateTypeStep, LookupTypeStep DEF TypeOK
<1> QED
  BY <1>1, <1>2, PTL DEF Spec

-----------------------------------------------------------------------------
\* Unless worker 0 dies, DictInv is inductive.
LEMMA DictStep ==
  ASSUME "crash" \notin Faulty
  PROVE  TypeOK /\ DictInv /\ [Next]_vars => DictInv'
<1> SUFFICES ASSUME TypeOK, DictInv, [Next]_vars PROVE DictInv'
  OBVIOUS
<1>0. dict \in Policy /\ raw \in Policy /\ Backends \notin Entry
  BY SyncConstants DEF TypeOK, DataOK, SyncConstants
<1> USE DEF TypeOK, UpdateOK, Policy, Item, DictInv, EntryDone, CacheFirst, update
<1>1. CASE FetchPolicy
  BY <1>0, <1>1 DEF FetchPolicy, DiffKeys
<1>2. CASE SetBackends
  BY <1>0, <1>2 DEF SetBackends, Continue
<1>3. CASE BeginEntry
  BY <1>0, <1>3, SMTT(30) DEF BeginEntry, Continue, WriteEntry, DeleteCached, NoDelete
<1>4. CASE FinishEntry
  BY <1>0, <1>4 DEF FinishEntry, Continue, WriteEntry, DeleteCached
<1>5. CASE Publish \/ Crash
  BY <1>5 DEF Publish, Crash, Fails
<1>6. ASSUME NEW w \in Worker, Request(w) PROVE DictInv'
  BY <1>6 DEF Request, StartLookup, ReadL2, ReadEntry, Store
<1>7. ASSUME NEW w \in Worker, SyncBackends(w) \/ LoseEvent(w) PROVE DictInv'
  BY <1>7 DEF SyncBackends, LoseEvent
<1>8. ASSUME NEW w \in Worker, NEW k \in Key, ExpireL1(w, k) PROVE DictInv'
  BY <1>8 DEF ExpireL1
<1>9. ASSUME NEW k \in Key, ExpireL2(k) PROVE DictInv'
  BY <1>9 DEF ExpireL2
<1>10. CASE UNCHANGED vars
  BY <1>10 DEF vars
<1> QED
  BY <1>1, <1>2, <1>3, <1>4, <1>5, <1>6, <1>7, <1>8, <1>9, <1>10 DEF Next, Update

\* Unless worker 0 dies in an update, comparing with the raw policy is as good as
\* comparing with the dictionaries.
THEOREM DictAlwaysMatchesRaw ==
  ASSUME "crash" \notin Faulty
  PROVE  Spec => []DictMatchesRaw
<1>1. Init => DictInv
  BY SyncConstants DEF SyncConstants, Init, DictInv, Absent, Item
<1>2. TypeOK /\ DictInv => DictMatchesRaw
  BY SMTT(30) DEF TypeOK, DataOK, DictInv, EntryDone, DictMatchesRaw, Policy, Item
<1> QED
  BY <1>1, <1>2, DictStep, TypeCorrect, PTL DEF Spec

-----------------------------------------------------------------------------
\* The key of a port's rules is the port's entry, which is written before its cached
\* copy is deleted.
LEMMA RuleKeyFacts ==
  ASSUME NEW k \in Key, RuleKey(k)
  PROVE  /\ Reads[k] = <<k>> /\ k \in Entry /\ k # Backends
         /\ ~CacheFirst(k) /\ ~NoDelete(k)
<1>1. Reads[k] = <<k>>
  BY SyncConstants DEF SyncConstants, RuleKey
<1>2. k \in Entry
  <2>1. Reads[k] \in Seq(Entry) /\ Len(Reads[k]) > 0
    BY SyncConstants DEF SyncConstants
  <2>2. Reads[k][1] \in Entry
    BY <2>1, SMTT(30)
  <2> QED
    BY <1>1, <2>2, SMTT(30)
<1>3. Kind[k] = "httpRule"
  BY <1>1, SMTT(30) DEF RuleKey
<1> QED
  BY <1>1, <1>2, <1>3, SyncConstants DEF SyncConstants, CacheFirst, NoDelete

LEMMA RuleSays ==
  ASSUME NEW k \in Key, RuleKey(k), NEW p \in Policy
  PROVE  PolicySays(p, k) = p[k]
<1> DEFINE present == {i \in 1..Len(Reads[k]) : p[Reads[k][i]] # 0}
<1>1. Reads[k] = <<k>> /\ Len(Reads[k]) = 1 /\ Reads[k][1] = k
  BY RuleKeyFacts, SMTT(30)
<1>2. CASE p[k] = 0
  <2>1. present = {}
    BY <1>1, <1>2, SMTT(30)
  <2> QED
    BY <1>2, <2>1 DEF PolicySays
<1>3. CASE p[k] # 0
  <2>1. present = {1}
    BY <1>1, <1>3, SMTT(30)
  <2>2. (CHOOSE i \in present : \A j \in present : i <= j) = 1
    BY <2>1, SMTT(30)
  <2> QED
    BY <1>1, <2>1, <2>2 DEF PolicySays
<1> QED
  BY <1>2, <1>3

\* What mlcache's delete does to the key and to every other key.
LEMMA DeleteFacts ==
  ASSUME CacheOK, NEW e, DeleteCached(e), NEW k \in Key
  PROVE  /\ dict' = dict
         /\ k # e => /\ l2'[k] = l2[k]
                     /\ \A w \in Worker : l1'[w][k] = l1[w][k] /\ inbox[w] \subseteq inbox'[w]
         /\ k = e => /\ l2'[k] = 0
                     /\ \A w \in Worker : l1'[w][k] = 0 \/ k \in inbox'[w]
<1>1. Worker0 \in Worker
  BY SyncConstants DEF SyncConstants
<1>2. CASE e \notin Key
  BY <1>2 DEF DeleteCached
<1>3. CASE e \in Key
  <2>1. /\ l2' = [l2 EXCEPT ![e] = 0] /\ l1' = [l1 EXCEPT ![Worker0][e] = 0] /\ dict' = dict
        /\ inbox' = [w \in Worker |-> IF w = Worker0 THEN inbox[w] ELSE inbox[w] \cup {e}]
    BY <1>3 DEF DeleteCached
  <2>2. k # e => \A w \in Worker : l1'[w][k] = l1[w][k] /\ inbox[w] \subseteq inbox'[w]
    BY <1>1, <2>1 DEF CacheOK
  <2>3. k = e => \A w \in Worker : l1'[w][k] = 0 \/ k \in inbox'[w]
    BY <1>1, <2>1 DEF CacheOK
  <2>4. (k # e => l2'[k] = l2[k]) /\ (k = e => l2'[k] = 0)
    BY <2>1 DEF CacheOK
  <2> QED
    BY <2>1, <2>2, <2>3, <2>4
<1> QED
  BY <1>2, <1>3

LEMMA CacheStepAt ==
  ASSUME Faulty = {}, NEW k \in Key, RuleKey(k), TypeOK, CacheInvAt(k), [Next]_vars
  PROVE  CacheInvAt(k)'
<1>0. /\ k \in Entry /\ k # Backends /\ ~CacheFirst(k) /\ ~NoDelete(k)
      /\ Reads[k] = <<k>> /\ Worker0 \in Worker
  BY RuleKeyFacts, SyncConstants DEF SyncConstants
<1>t. /\ dict \in [Item -> Version] /\ l2 \in [Key -> Version]
      /\ l1 \in [Worker -> [Key -> Version]] /\ inbox \in [Worker -> SUBSET Key]
      /\ phase \in [Worker -> {"idle", "l2", "fill", "store"}]
      /\ key \in [Worker -> Key \cup {NoKey}]
      /\ at \in [Worker -> Nat] /\ got \in [Worker -> Version]
  BY DEF TypeOK, DataOK, CacheOK, LookupOK, Policy
<1> USE DEF CacheInvAt, Replacing
<1>1. CASE Publish
  BY <1>1 DEF Publish, update, lookup
<1>2. CASE FetchPolicy
  BY <1>2 DEF FetchPolicy, lookup
<1>3. CASE SetBackends
  BY <1>0, <1>t, <1>3 DEF SetBackends, lookup, Item
<1>q. UpdateMayRun => \A w \in Worker : phase[w] # "store"
  BY DEF UpdateMayRun
<1>4. CASE BeginEntry
  <2>1. PICK e \in todo :
          /\ IF CacheFirst(e) THEN DeleteCached(e) ELSE WriteEntry(e)
          /\ IF NoDelete(e)
             THEN todo' = todo \ {e} /\ pc' = Continue(todo \ {e}) /\ UNCHANGED cur
             ELSE cur' = e /\ pc' = "second" /\ UNCHANGED todo
    BY <1>4 DEF BeginEntry
  <2>2. pc = "entries" /\ UNCHANGED lookup /\ \A w \in Worker : phase[w] # "store"
    BY <1>4, <1>q DEF BeginEntry
  <2>3. CASE e = k
    BY <1>0, <2>1, <2>2, <2>3 DEF WriteEntry, lookup
  <2>4. CASE e # k /\ CacheFirst(e)
    BY <2>1, <2>2, <2>4, DeleteFacts DEF TypeOK, lookup
  <2>5. CASE e # k /\ ~CacheFirst(e)
    BY <1>0, <1>t, <2>1, <2>2, <2>5 DEF WriteEntry, lookup, Item
  <2> QED
    BY <2>3, <2>4, <2>5
<1>5. CASE FinishEntry
  <2>1. /\ pc = "second" /\ UNCHANGED lookup /\ \A w \in Worker : phase[w] # "store"
        /\ IF CacheFirst(cur) THEN WriteEntry(cur) ELSE DeleteCached(cur)
    BY <1>5, <1>q DEF FinishEntry
  <2>2. CASE cur = k
    BY <1>0, <2>1, <2>2, DeleteFacts DEF TypeOK, lookup
  <2>3. CASE cur # k /\ CacheFirst(cur)
    BY <1>0, <1>t, <2>1, <2>3 DEF WriteEntry, lookup, Item
  <2>4. CASE cur # k /\ ~CacheFirst(cur)
    BY <2>1, <2>4, DeleteFacts DEF TypeOK, lookup
  <2> QED
    BY <2>2, <2>3, <2>4
<1>6. CASE Crash
  BY <1>6 DEF Crash, Fails
<1>7. ASSUME NEW w \in Worker, NEW j \in Key, StartLookup(w, j) PROVE CacheInvAt(k)'
  <2>1. /\ UNCHANGED <<dict, l2, pc, cur, got>>
        /\ \A v \in Worker : phase'[v] = "store" => phase[v] = "store" /\ key'[v] = key[v]
    BY <1>t, <1>7 DEF StartLookup, update, lookup
  <2>2. \A v \in Worker :
          (l1'[v][k] = l1[v][k] /\ (k \in inbox[v] => k \in inbox'[v])) \/ l1'[v][k] = 0
    BY <1>t, <1>7 DEF StartLookup
  <2> QED
    BY <2>1, <2>2
<1>8. ASSUME NEW w \in Worker, ReadL2(w) PROVE CacheInvAt(k)'
  <2>1. /\ UNCHANGED <<dict, l2, inbox, pc, cur>>
        /\ \A v \in Worker :
             phase'[v] = "store" => phase[v] = "store" /\ key'[v] = key[v] /\ got'[v] = got[v]
    BY <1>t, <1>8 DEF ReadL2, EndLookup, update
  <2>2. key[w] \in Key
    BY <1>8 DEF ReadL2, TypeOK, LookupOK
  <2>3. \A v \in Worker : l1'[v][k] = l1[v][k] \/ l1'[v][k] = l2[k]
    BY <1>t, <1>8, <2>2, SMTT(30) DEF ReadL2
  <2> QED
    BY <2>1, <2>3
<1>9. ASSUME NEW w \in Worker, ReadEntry(w) PROVE CacheInvAt(k)'
  <2>1. UNCHANGED <<dict, l2, l1, inbox, pc, cur>>
    BY <1>9 DEF ReadEntry, update
  <2>2. ASSUME NEW v \in Worker, phase'[v] = "store", key'[v] = k PROVE got'[v] = dict[k]
    <3>1. CASE v # w
      BY <1>t, <1>9, <2>2, <3>1 DEF ReadEntry, EndLookup
    <3>2. CASE v = w
      <4>1. /\ got' = [got EXCEPT ![w] = dict[Reads[key[w]][at[w]]]] /\ key' = key
        BY <1>t, <1>9, <2>2, <3>2 DEF ReadEntry, EndLookup
      <4>2. key[w] = k /\ at[w] \in 1..Len(Reads[k])
        BY <1>9, <2>2, <3>2, <4>1 DEF ReadEntry, TypeOK, LookupOK
      <4>3. at[w] = 1 /\ Reads[k][1] = k
        BY <1>0, <4>2, SMTT(30)
      <4> QED
        BY <1>t, <3>2, <4>1, <4>2, <4>3
    <3> QED
      BY <3>1, <3>2
  <2> QED
    BY <2>1, <2>2
<1>10. ASSUME NEW w \in Worker, Store(w) PROVE CacheInvAt(k)'
  <2>1. key[w] \in Key
    BY <1>10 DEF Store, TypeOK, LookupOK
  <2>2. /\ UNCHANGED <<dict, inbox, pc, cur>>
        /\ \A v \in Worker :
             phase'[v] = "store" => phase[v] = "store" /\ key'[v] = key[v] /\ got'[v] = got[v]
    BY <1>t, <1>10 DEF Store, EndLookup, update
  <2>3. l2'[k] = l2[k] \/ l2'[k] = dict[k]
    BY <1>t, <1>10, <2>1 DEF Store
  <2>4. \A v \in Worker : l1'[v][k] = l1[v][k] \/ l1'[v][k] = dict[k]
    BY <1>t, <1>10, <2>1 DEF Store
  <2> QED
    BY <2>2, <2>3, <2>4
<1>11. ASSUME NEW w \in Worker, SyncBackends(w) PROVE CacheInvAt(k)'
  BY <1>11 DEF SyncBackends, update, lookup
<1>12. ASSUME NEW w \in Worker, LoseEvent(w) PROVE CacheInvAt(k)'
  BY <1>12 DEF LoseEvent, Fails
<1>13. ASSUME NEW w \in Worker, NEW j \in Key, ExpireL1(w, j) PROVE CacheInvAt(k)'
  BY <1>t, <1>13 DEF ExpireL1, update, lookup
<1>14. ASSUME NEW j \in Key, ExpireL2(j) PROVE CacheInvAt(k)'
  BY <1>t, <1>14 DEF ExpireL2, update, lookup
<1>15. CASE UNCHANGED vars
  BY <1>15 DEF vars, update, lookup
<1> QED
  BY <1>1, <1>2, <1>3, <1>4, <1>5, <1>6, <1>7, <1>8, <1>9, <1>10, <1>11, <1>12, <1>13, <1>14, <1>15
  DEF Next, Update, Request

\* Without preempted fills, lost events and deaths of worker 0, every worker answers
\* from the new rules of a port as soon as fetch_policy returns.
THEOREM RulesAlwaysFresh ==
  ASSUME Faulty = {}
  PROVE  Spec => []HttpRuleFresh
<1>1. Init => DictInv /\ CacheInv
  BY SyncConstants, SMTT(30)
  DEF SyncConstants, Init, DictInv, CacheInv, CacheInvAt, Absent, Item
<1>2. TypeOK /\ CacheInv /\ [Next]_vars => CacheInv'
  BY CacheStepAt DEF CacheInv, RuleKey
<1>3. TypeOK /\ DictInv /\ CacheInv => HttpRuleFresh
  <2> SUFFICES ASSUME TypeOK, DictInv, CacheInv, pc = "idle",
                      NEW w \in Worker, NEW k \in Key, RuleKey(k)
               PROVE  Answer(w, k) = PolicySays(raw, k)
    BY DEF HttpRuleFresh, FreshAfterUpdate, RuleKey
  <2>1. dict[k] = raw[k]
    BY RuleKeyFacts DEF DictInv, EntryDone
  <2>2. PolicySays(dict, k) = dict[k] /\ PolicySays(raw, k) = raw[k]
    BY RuleSays DEF TypeOK, DataOK
  <2>3. ~Replacing(k)
    BY DEF Replacing
  <2>4. CacheInvAt(k)
    BY DEF CacheInv
  <2> QED
    BY <2>1, <2>2, <2>3, <2>4 DEF CacheInvAt, Answer
<1>4. "crash" \notin Faulty
  OBVIOUS
<1> QED
  BY <1>1, <1>2, <1>3, <1>4, DictStep, TypeCorrect, PTL DEF Spec
=============================================================================
