----------------------------- MODULE PolicySync -----------------------------
(***************************************************************************)
(* How a policy reaches the requests of every nginx worker.                *)
(*                                                                         *)
(* Worker 0 reads the policy file every second, compares it with the raw   *)
(* policy it applied last, and writes every entry that differs (a port's   *)
(* rules, a certificate, a shared configuration) to a shared dictionary.   *)
(* A request does not read the dictionary: it asks a two-level cache, an   *)
(* L1 in its worker and an L2 in shared memory, whose callback reads the   *)
(* dictionary.  Worker 0 deletes the cached key from L2 and from its own   *)
(* L1, and tells the other workers by an event that each of them handles   *)
(* at the start of its next lookup.  Workers are processes: between any    *)
(* two accesses to shared memory another worker may run.                   *)
(*                                                                         *)
(* Contents are version numbers, 0 is "absent".  One instance is one       *)
(* subsystem, http or stream: they share nothing.                          *)
(***************************************************************************)
EXTENDS Naturals, Sequences

CONSTANTS
  Worker,      \* the nginx workers
  Worker0,     \* the one whose id is 0
  Entry,       \* keys of the shared dictionaries
  Kind,        \* their kinds: a function from Entry to EntryKind
  Key,         \* keys of the caches
  Reads,       \* the entries the callback of a key tries, in order
  NoKey,       \* the worker looks nothing up
  Backends,    \* the key of the backend group
  Faulty,      \* what may go wrong: a subset of FaultKind
  MaxPublish,  \* bound: policies published
  MaxFault     \* bound: lost events and deaths of worker 0

EntryKind == {"cert", "httpRule", "config", "streamRule"}

\* "slowFill": worker 0 may run between the callback's read of the dictionary and the
\* store of its result; "lostEvent": an event is dropped; "crash": worker 0 dies.
FaultKind == {"slowFill", "lostEvent", "crash"}

ASSUME SyncConstants ==
  /\ Worker0 \in Worker
  /\ Backends \notin Entry /\ NoKey \notin Key
  /\ Kind \in [Entry -> EntryKind]
  /\ Reads \in [Key -> Seq(Entry)]
  /\ \A k \in Key : Len(Reads[k]) > 0
  /\ \A k \in Key : Kind[Reads[k][1]] # "cert" => Reads[k] = <<k>>
  /\ Faulty \subseteq FaultKind
  /\ MaxPublish \in Nat /\ MaxFault \in Nat

VARIABLES
  file,       \* the policy file, which the controller replaces in one step
  published,  \* how many policies were published
  raw,        \* the policy applied last, in the raw dictionary
  dict,       \* the dictionaries behind the cache, and the backend group
  l2, l1,     \* the two cache levels
  inbox,      \* the keys whose delete events a worker has not handled
  pc,         \* worker 0's update: "idle", "backends", "entries", "second"
  todo,       \* the entries it has not finished
  cur,        \* the entry it is in the middle of, Backends when there is none
  phase,      \* a worker's lookup: "idle", "l2", "fill", "store"
  key, at, got,   \* the key looked up, the entry to read next, the content read
  balancers,  \* the backend group a worker balances over
  faults      \* counter behind MaxFault

update == <<pc, todo, cur>>
lookup == <<phase, key, at, got>>
vars == <<file, published, raw, dict, l2, l1, inbox, update, lookup, balancers, faults>>

Item == Entry \cup {Backends}
Version == 0..MaxPublish
Policy == [Item -> Version]

DataOK ==
  /\ file \in Policy /\ published \in Version
  /\ raw \in Policy /\ dict \in Policy
  /\ balancers \in [Worker -> Version]
  /\ faults \in 0..MaxFault

CacheOK ==
  /\ l2 \in [Key -> Version] /\ l1 \in [Worker -> [Key -> Version]]
  /\ inbox \in [Worker -> SUBSET Key]

UpdateOK ==
  /\ pc \in {"idle", "backends", "entries", "second"}
  /\ todo \subseteq Entry
  /\ cur \in Item
  /\ pc = "second" => cur \in todo

LookupOK ==
  /\ phase \in [Worker -> {"idle", "l2", "fill", "store"}]
  /\ key \in [Worker -> Key \cup {NoKey}]
  /\ at \in [Worker -> Nat] /\ got \in [Worker -> Version]
  /\ \A w \in Worker :
       /\ phase[w] # "idle" => key[w] \in Key /\ at[w] \in 1..Len(Reads[key[w]])
       /\ phase[w] \in {"idle", "l2"} => at[w] = 1

TypeOK == DataOK /\ CacheOK /\ UpdateOK /\ LookupOK

Absent == [i \in Item |-> 0]

(***************************************************************************)
(* nginx starts with empty dictionaries, before the first policy.          *)
(***************************************************************************)
Init ==
  /\ file = Absent /\ published = 0
  /\ raw = Absent /\ dict = Absent
  /\ l2 = [k \in Key |-> 0] /\ l1 = [w \in Worker |-> [k \in Key |-> 0]]
  /\ inbox = [w \in Worker |-> {}]
  /\ pc = "idle" /\ todo = {} /\ cur = Backends
  /\ phase = [w \in Worker |-> "idle"] /\ key = [w \in Worker |-> NoKey]
  /\ at = [w \in Worker |-> 1] /\ got = [w \in Worker |-> 0]
  /\ balancers = [w \in Worker |-> 0]
  /\ faults = 0

\* The controller renames a new policy over the file: items added or changed get a
\* new version, others are removed.
Publish ==
  /\ published < MaxPublish
  /\ published' = published + 1
  /\ \E i \in Item :
       \E v \in {0, published + 1} :
         /\ v # file[i]
         /\ file' \in {[file EXCEPT ![i] = v],
                       [file EXCEPT ![i] = v, ![Backends] = published + 1]}
  /\ UNCHANGED <<raw, dict, l2, l1, inbox, update, lookup, balancers, faults>>

-----------------------------------------------------------------------------
(* Worker 0: fetch_policy, update_policy, update_http_cache, update_stream_cache. *)

\* The update does not yield, so it does not meet a lookup of its own worker; whether
\* it may overtake a lookup of another worker is what "slowFill" says.
UpdateMayRun ==
  /\ phase[Worker0] = "idle"
  /\ "slowFill" \in Faulty \/ \A w \in Worker : phase[w] \notin {"fill", "store"}

\* Mutated form: only the keys of the new policy are compared.
DiffNewKeys(new, old) == {e \in Entry : new[e] # 0 /\ new[e] # old[e]}

\* get_table_diff_keys, over the maps of the two policies.
DiffKeys(new, old) == {e \in Entry : new[e] # old[e]}

\* update_policy: the raw policy is stored before anything is done about it.
FetchPolicy ==
  /\ pc = "idle" /\ UpdateMayRun
  /\ file # raw
  /\ raw' = file
  /\ todo' = DiffKeys(file, raw)
  /\ pc' = "backends"
  /\ UNCHANGED <<file, published, dict, l2, l1, inbox, cur, lookup, balancers, faults>>

Continue(left) == IF left = {} THEN "idle" ELSE "entries"

SetBackends ==
  /\ pc = "backends" /\ UpdateMayRun
  /\ dict' = [dict EXCEPT ![Backends] = raw[Backends]]
  /\ pc' = Continue(todo)
  /\ UNCHANGED <<file, published, raw, l2, l1, inbox, todo, cur, lookup, balancers, faults>>

\* Set or delete the entry in its dictionary.
WriteEntry(e) ==
  /\ dict' = [dict EXCEPT ![e] = raw[e]]
  /\ UNCHANGED <<l2, l1, inbox>>

\* mlcache's delete: L2, the worker's own L1, and an event for the others.
DeleteCached(e) ==
  /\ IF e \in Key
     THEN /\ l2' = [l2 EXCEPT ![e] = 0]
          /\ l1' = [l1 EXCEPT ![Worker0][e] = 0]
          /\ inbox' = [w \in Worker |-> IF w = Worker0 THEN inbox[w] ELSE inbox[w] \cup {e}]
     ELSE UNCHANGED <<l2, l1, inbox>>
  /\ UNCHANGED dict

\* Mutated form: the cached key is deleted before the entry is replaced.
CacheFirstAlways(e) == e \in Entry

\* Which of the two comes first.
CacheFirst(e) == Kind[e] = "config" \/ (Kind[e] = "cert" /\ raw[e] # 0)

\* A stream rule that is added or changed is written and stays in the caches.
NoDelete(e) == Kind[e] = "streamRule" /\ raw[e] # 0

\* Certificates, then rules, then shared configurations; any order within a kind.
Rank(kind) == CASE kind = "cert" -> 1 [] kind = "config" -> 3 [] OTHER -> 2

BeginEntry ==
  /\ pc = "entries" /\ UpdateMayRun
  /\ \E e \in todo :
       /\ \A f \in todo : Rank(Kind[e]) <= Rank(Kind[f])
       /\ IF CacheFirst(e) THEN DeleteCached(e) ELSE WriteEntry(e)
       /\ IF NoDelete(e)
          THEN todo' = todo \ {e} /\ pc' = Continue(todo \ {e}) /\ UNCHANGED cur
          ELSE cur' = e /\ pc' = "second" /\ UNCHANGED todo
  /\ UNCHANGED <<file, published, raw, lookup, balancers, faults>>

FinishEntry ==
  /\ pc = "second" /\ UpdateMayRun
  /\ IF CacheFirst(cur) THEN WriteEntry(cur) ELSE DeleteCached(cur)
  /\ todo' = todo \ {cur} /\ pc' = Continue(todo \ {cur}) /\ cur' = Backends
  /\ UNCHANGED <<file, published, raw, lookup, balancers, faults>>

Update == FetchPolicy \/ SetBackends \/ BeginEntry \/ FinishEntry

-----------------------------------------------------------------------------
(* A lookup of a worker: get_upstream, get_config, select_cert. *)

\* cache:update(0.1) handles the events, then cache:get looks in L1.
StartLookup(w, k) ==
  /\ phase[w] = "idle"
  /\ w = Worker0 => pc = "idle"
  /\ l1' = [l1 EXCEPT ![w] = [j \in Key |-> IF j \in inbox[w] THEN 0 ELSE l1[w][j]]]
  /\ inbox' = [inbox EXCEPT ![w] = {}]
  /\ IF l1'[w][k] # 0
     THEN UNCHANGED lookup
     ELSE /\ phase' = [phase EXCEPT ![w] = "l2"] /\ key' = [key EXCEPT ![w] = k]
          /\ UNCHANGED <<at, got>>
  /\ UNCHANGED <<file, published, raw, dict, l2, update, balancers, faults>>

EndLookup(w) ==
  /\ phase' = [phase EXCEPT ![w] = "idle"] /\ key' = [key EXCEPT ![w] = NoKey]
  /\ at' = [at EXCEPT ![w] = 1] /\ got' = [got EXCEPT ![w] = 0]

\* A hit in L2 is copied to L1.  A miss takes the lock of the key: one worker at a time
\* runs the callback.
ReadL2(w) ==
  /\ phase[w] = "l2"
  /\ \/ /\ l2[key[w]] # 0
        /\ l1' = [l1 EXCEPT ![w][key[w]] = l2[key[w]]]
        /\ EndLookup(w)
     \/ /\ l2[key[w]] = 0
        /\ \A v \in Worker : phase[v] \in {"fill", "store"} => key[v] # key[w]
        /\ phase' = [phase EXCEPT ![w] = "fill"]
        /\ UNCHANGED <<l1, key, at, got>>
  /\ UNCHANGED <<file, published, raw, dict, l2, inbox, update, balancers, faults>>

\* The callback: get_policies_of_port, get_config_from_shdict, get_domain_cert.  An
\* entry that is absent makes it try the next; when none is left it returns an error,
\* which is not cached.
ReadEntry(w) ==
  /\ phase[w] = "fill"
  /\ LET e == Reads[key[w]][at[w]] IN
       \/ /\ dict[e] # 0
          /\ got' = [got EXCEPT ![w] = dict[e]]
          /\ phase' = [phase EXCEPT ![w] = "store"]
          /\ UNCHANGED <<key, at>>
       \/ /\ dict[e] = 0 /\ at[w] < Len(Reads[key[w]])
          /\ at' = [at EXCEPT ![w] = @ + 1]
          /\ UNCHANGED <<phase, key, got>>
       \/ /\ dict[e] = 0 /\ at[w] = Len(Reads[key[w]])
          /\ EndLookup(w)
  /\ UNCHANGED <<file, published, raw, dict, l2, l1, inbox, update, balancers, faults>>

\* The result goes to L2 and to L1.
Store(w) ==
  /\ phase[w] = "store"
  /\ l2' = [l2 EXCEPT ![key[w]] = got[w]]
  /\ l1' = [l1 EXCEPT ![w][key[w]] = got[w]]
  /\ EndLookup(w)
  /\ UNCHANGED <<file, published, raw, dict, inbox, update, balancers, faults>>

Request(w) == (\E k \in Key : StartLookup(w, k)) \/ ReadL2(w) \/ ReadEntry(w) \/ Store(w)

\* Mutated form: a ttl of 0, which mlcache takes for "for ever".
ExpireL1Never(w, k) == FALSE /\ UNCHANGED vars

\* Entries outlive neither their ttl nor the size of the cache.
ExpireL1(w, k) ==
  /\ l1[w][k] # 0
  /\ l1' = [l1 EXCEPT ![w][k] = 0]
  /\ UNCHANGED <<file, published, raw, dict, l2, inbox, update, lookup, balancers, faults>>

ExpireL2(k) ==
  /\ l2[k] # 0
  /\ l2' = [l2 EXCEPT ![k] = 0]
  /\ UNCHANGED <<file, published, raw, dict, l1, inbox, update, lookup, balancers, faults>>

\* sync_backends, every second in every worker.
SyncBackends(w) ==
  /\ w = Worker0 => pc = "idle"
  /\ balancers[w] # dict[Backends]
  /\ balancers' = [balancers EXCEPT ![w] = dict[Backends]]
  /\ UNCHANGED <<file, published, raw, dict, l2, l1, inbox, update, lookup, faults>>

-----------------------------------------------------------------------------
Fails(kind) ==
  /\ kind \in Faulty
  /\ faults < MaxFault
  /\ faults' = faults + 1

\* The poll drops an event whose data does not appear in time.
LoseEvent(w) ==
  /\ Fails("lostEvent")
  /\ \E k \in inbox[w] : inbox' = [inbox EXCEPT ![w] = @ \ {k}]
  /\ UNCHANGED <<file, published, raw, dict, l2, l1, update, lookup, balancers>>

\* Worker 0 dies in the middle of an update; its successor starts with an empty L1 and
\* the dictionaries as they are.
Crash ==
  /\ Fails("crash")
  /\ pc # "idle"
  /\ pc' = "idle" /\ todo' = {} /\ cur' = Backends
  /\ l1' = [l1 EXCEPT ![Worker0] = [k \in Key |-> 0]]
  /\ balancers' = [balancers EXCEPT ![Worker0] = dict[Backends]]
  /\ UNCHANGED <<file, published, raw, dict, l2, inbox, lookup>>

Next ==
  \/ Publish \/ Update \/ Crash
  \/ \E w \in Worker : Request(w) \/ SyncBackends(w) \/ LoseEvent(w)
  \/ \E w \in Worker, k \in Key : ExpireL1(w, k)
  \/ \E k \in Key : ExpireL2(k)

\* Timers fire, lookups that were started end and cached entries expire.  Worker 0's
\* timer has to wait for its own lookups, hence strong fairness: the event loop of
\* nginx runs the timers that are due between any two requests.
Fairness ==
  /\ SF_vars(Update)
  /\ \A w \in Worker : WF_vars(SyncBackends(w)) /\ SF_vars(ReadL2(w) \/ ReadEntry(w) \/ Store(w))
  /\ \A w \in Worker, k \in Key : WF_vars(ExpireL1(w, k))
  /\ \A k \in Key : WF_vars(ExpireL2(k))

Spec == Init /\ [][Next]_vars

FairSpec == Spec /\ Fairness

-----------------------------------------------------------------------------
(* Properties. *)

\* What policy p says of a key: its first entry that is present.
PolicySays(p, k) ==
  LET present == {i \in 1..Len(Reads[k]) : p[Reads[k][i]] # 0}
  IN  IF present = {} THEN 0
      ELSE p[Reads[k][CHOOSE i \in present : \A j \in present : i <= j]]

\* What a lookup that starts now, and is not disturbed, answers.
Answer(w, k) ==
  IF l1[w][k] # 0 /\ k \notin inbox[w] THEN l1[w][k]
  ELSE IF l2[k] # 0 THEN l2[k]
  ELSE PolicySays(dict, k)

\* The answers for the keys of one kind are those of the policy applied last.
FreshAfterUpdate(kind) ==
  pc = "idle" =>
    \A w \in Worker, k \in Key :
      Kind[Reads[k][1]] = kind => Answer(w, k) = PolicySays(raw, k)

\* update_http_cache replaces the rules of a port and then deletes the cached ones: as
\* soon as fetch_policy returns, every worker answers from the new rules.
HttpRuleFresh == FreshAfterUpdate("httpRule")

\* update_policy compares with the raw policy and never with the dictionaries: they
\* agree whenever no update is under way.
DictMatchesRaw == pc = "idle" => dict = raw

\* Whatever races, losses and half-done updates leave in the caches, the ttl repairs: once
\* policies stop coming the last one has been fetched, and every worker answers from the
\* dictionaries and balances over their backends.
WorkersAgree ==
  <>[](/\ raw = file
       /\ \A w \in Worker :
            /\ balancers[w] = dict[Backends]
            /\ \A k \in Key : Answer(w, k) = PolicySays(dict, k))
=============================================================================
