------------------------ MODULE IngressStatusProofs ------------------------
(***************************************************************************)
(* Proofs about IngressStatus, for any number of albs, ingresses, edits    *)
(* and faults.                                                             *)
(***************************************************************************)
EXTENDS IngressStatus, TLAPS

\* The prover of every leaf that names none.
USE ZenonT(30)

\* The types, in parts: the objects of users and operator ...
ObjectsOK ==
  /\ alb \in [Alb -> AlbSpec] /\ \A a \in Alb : alb[a] \in Scope[a]
  /\ life \in [Alb -> {"guarded", "leaving", "gone"}]
  /\ inst \in [Alb -> {"yes", "no"}] /\ grace \in [Alb -> {"running", "over"}]
  /\ ing \in [Ing -> Shape]
  /\ edits \in 0..MaxEdit /\ faults \subseteq Faulty

\* ... the statuses and their copies ...
CopiesOK ==
  /\ st \in [Ing -> SUBSET Entry]
  /\ cache \in [Alb -> [Ing -> [spec : Shape, st : SUBSET Entry]]]
  /\ fresh \in [Alb -> [Ing -> {"yes", "no"}]]
  /\ cur \in [Alb -> Update \cup {None}]

\* ... and the work of a controller.
WorkOK ==
  /\ strip \in [Alb -> SUBSET Ing] /\ queue \in [Alb -> SUBSET Ing]
  /\ events \in [Alb -> Seq(Event)] /\ task \in [Alb -> Task \cup {None}]

LEMMA TypeParts ==
  /\ TypeOK <=> ObjectsOK /\ CopiesOK /\ WorkOK
  /\ TypeOK' <=> ObjectsOK' /\ CopiesOK' /\ WorkOK'
BY DEF TypeOK, ObjectsOK, CopiesOK, WorkOK

\* A write of ingress i leaves every copy in shape, whoever made it.
LEMMA OutdateTyped ==
  ASSUME CopiesOK, NEW i \in Ing, NEW b, Outdate(i, b)
  PROVE  /\ fresh' \in [Alb -> [Ing -> {"yes", "no"}]]
         /\ cur' \in [Alb -> Update \cup {None}]
<1>1. ASSUME NEW a \in Alb, cur[a] # None PROVE [cur[a] EXCEPT !.base = "old"] \in Update
  BY <1>1 DEF CopiesOK, Update
<1> QED
  BY <1>1 DEF CopiesOK, Outdate

LEMMA StoreTyped ==
  ASSUME CopiesOK, NEW i \in Ing, NEW entries \in SUBSET Entry, NEW b, Store(i, entries, b)
  PROVE  /\ st' \in [Ing -> SUBSET Entry]
         /\ fresh' \in [Alb -> [Ing -> {"yes", "no"}]]
         /\ cur' \in [Alb -> Update \cup {None}]
<1>1. Outdate(i, b)
  BY DEF Store
<1>2. st' \in [Ing -> SUBSET Entry]
  BY DEF CopiesOK, Store
<1> QED
  BY <1>1, <1>2, OutdateTyped

\* A controller edits the status of one cached ingress.
LEMMA CacheTyped ==
  ASSUME CopiesOK, NEW a \in Alb, NEW i \in Ing, NEW entries \in SUBSET Entry,
         cache' = [cache EXCEPT ![a][i].st = entries]
  PROVE  cache' \in [Alb -> [Ing -> [spec : Shape, st : SUBSET Entry]]]
<1>1. [cache[a][i] EXCEPT !.st = entries] \in [spec : Shape, st : SUBSET Entry]
  <2>1. cache[a][i] \in [spec : Shape, st : SUBSET Entry]
    BY SMTT(30) DEF CopiesOK
  <2> QED
    BY <2>1
<1>2. [cache[a] EXCEPT ![i] = [cache[a][i] EXCEPT !.st = entries]]
        \in [Ing -> [spec : Shape, st : SUBSET Entry]]
  BY <1>1 DEF CopiesOK
<1> QED
  BY <1>2 DEF CopiesOK

LEMMA RemoveTyped ==
  ASSUME CopiesOK, ObjectsOK, NEW a \in Alb, NEW i \in Ing, NEW drop,
         RemoveIngressStatusAddress(a, i, drop)
  PROVE  CopiesOK' /\ faults' \subseteq Faulty
<1> DEFINE kept == Without(cache[a][i].st, drop)
<1>1. kept \in SUBSET Entry
  BY DEF CopiesOK, Without
<1>2. cache' \in [Alb -> [Ing -> [spec : Shape, st : SUBSET Entry]]]
  BY <1>1, CacheTyped DEF RemoveIngressStatusAddress
<1>3. CASE Store(i, kept, None) /\ UNCHANGED faults
  BY <1>1, <1>2, <1>3, StoreTyped DEF CopiesOK, ObjectsOK
<1>4. CASE Fault("remove") /\ UNCHANGED <<st, fresh, cur>>
  BY <1>2, <1>4 DEF CopiesOK, ObjectsOK, Fault
<1>5. CASE UNCHANGED <<st, fresh, cur, faults>>
  BY <1>2, <1>5 DEF CopiesOK, ObjectsOK
<1> QED
  BY <1>3, <1>4, <1>5 DEF RemoveIngressStatusAddress

LEMMA EventTyped ==
  ASSUME ObjectsOK, WorkOK, NEW a \in Alb
  PROVE  /\ [alb |-> a, kind |-> "delete", drop |-> {alb[a].address}] \in Event
         /\ \A s \in AlbSpec :
              [alb |-> a, kind |-> "edit", drop |-> {alb[a].address, s.address}] \in Event
         /\ [alb |-> a, kind |-> "edit", drop |-> {}] \in Event
BY SMTT(30) DEF ObjectsOK, AlbSpec, Event

LEMMA AnnounceTyped ==
  ASSUME ObjectsOK, WorkOK, NEW a \in Alb, Announce(a)
  PROVE  events' \in [Alb -> Seq(Event)]
<1> DEFINE e == [alb |-> a, kind |-> "delete", drop |-> {alb[a].address}]
<1>1. e \in Event
  BY EventTyped
<1>2. \A b \in Alb : Append(events[b], e) \in Seq(Event)
  BY <1>1, SMTT(30) DEF WorkOK
<1> QED
  BY <1>2 DEF Announce, WorkOK

\* Every step of users and operator keeps the types.
LEMMA UserTyped ==
  ASSUME TypeOK, User \/ \E a \in Alb : Operator(a)
  PROVE  TypeOK'
<1> USE StatusConstants DEF StatusConstants
<1>0. ObjectsOK /\ CopiesOK /\ WorkOK
  BY TypeParts
<1>1. ASSUME NEW a \in Alb, NEW s \in Scope[a], EditAlb(a, s) PROVE TypeOK'
  <2> DEFINE lost == s.address # alb[a].address \/ ~(alb[a].covers \subseteq s.covers)
             drop == IF lost THEN {alb[a].address, s.address} ELSE {}
             e == [alb |-> a, kind |-> "edit", drop |-> drop]
  <2>1. s \in AlbSpec
    OBVIOUS
  <2>2. e \in Event
    BY <1>0, <2>1, EventTyped
  <2>3. events' \in [Alb -> Seq(Event)]
    <3>1. Append(events[a], e) \in Seq(Event)
      BY <1>0, <2>2, SMTT(30) DEF WorkOK
    <3>2. events' = [events EXCEPT ![a] = Append(@, e)]
      BY <1>1 DEF EditAlb
    <3> HIDE DEF e
    <3> QED
      BY <1>0, <3>1, <3>2 DEF WorkOK
  <2>4. ObjectsOK'
    BY <1>0, <1>1, <2>1, SMTT(30) DEF EditAlb, UserEdit, ObjectsOK, ings
  <2>5. CopiesOK'
    BY <1>0, <1>1 DEF EditAlb, CopiesOK, ings, work
  <2> QED
    BY <1>0, <1>1, <2>3, <2>4, <2>5, TypeParts DEF EditAlb, WorkOK, work
<1>2. ASSUME NEW a \in Alb, DeleteAlb(a) PROVE TypeOK'
  <2>1. ObjectsOK'
    BY <1>0, <1>2, SMTT(30) DEF DeleteAlb, UserEdit, ObjectsOK, ings
  <2>2. CopiesOK'
    BY <1>0, <1>2 DEF DeleteAlb, CopiesOK, ings, work
  <2>3. WorkOK'
    BY <1>0, <1>2, AnnounceTyped DEF DeleteAlb, WorkOK, work
  <2> QED
    BY <2>1, <2>2, <2>3, TypeParts
<1>3. ASSUME NEW i \in Ing, NEW s \in Shape, EditIngress(i, s) PROVE TypeOK'
  <2>1. ObjectsOK'
    BY <1>0, <1>3, SMTT(30) DEF EditIngress, UserEdit, ObjectsOK, albs
  <2>2. CopiesOK'
    BY <1>0, <1>3, OutdateTyped DEF EditIngress, CopiesOK
  <2> QED
    BY <1>0, <1>3, <2>1, <2>2, TypeParts DEF EditIngress, WorkOK, handler
<1>4. ASSUME NEW a \in Alb, GracePasses(a) PROVE TypeOK'
  <2>1. ObjectsOK'
    BY <1>0, <1>4 DEF GracePasses, ObjectsOK, ings
  <2> QED
    BY <1>0, <1>4, <2>1, TypeParts DEF GracePasses, CopiesOK, WorkOK, ings, work, handler
<1>5. ASSUME NEW a \in Alb, OperatorFrees(a) PROVE TypeOK'
  <2>1. ObjectsOK'
    BY <1>0, <1>5 DEF OperatorFrees, ObjectsOK, ings
  <2>2. CopiesOK'
    BY <1>0, <1>5 DEF OperatorFrees, CopiesOK, ings
  <2>3. WorkOK'
    BY <1>0, <1>5, SMTT(30) DEF OperatorFrees, WorkOK
  <2> QED
    BY <2>1, <2>2, <2>3, TypeParts
<1> QED
  BY <1>1, <1>2, <1>3, <1>4, <1>5 DEF User, Operator

\* Every step of a controller keeps the types.
LEMMA ControllerTyped ==
  ASSUME TypeOK, NEW a \in Alb, Watch(a) \/ Handler(a) \/ Worker(a)
  PROVE  TypeOK'
<1> USE StatusConstants DEF StatusConstants
<1>0. ObjectsOK /\ CopiesOK /\ WorkOK
  BY TypeParts
<1>1. ASSUME NEW i \in Ing, SeeIngress(a, i) PROVE TypeOK'
  <2>1. ObjectsOK'
    BY <1>0, <1>1 DEF SeeIngress, ObjectsOK, albs, ings
  <2>2. WorkOK'
    BY <1>0, <1>1 DEF SeeIngress, WorkOK
  <2>3. CopiesOK'
    BY <1>0, <1>1 DEF SeeIngress, CopiesOK, ObjectsOK, ings
  <2> QED
    BY <2>1, <2>2, <2>3, TypeParts
<1>2. ASSUME NEW i \in Ing, StripIngress(a, i) PROVE TypeOK'
  <2>1. CopiesOK' /\ faults' \subseteq Faulty
    BY <1>0, <1>2, RemoveTyped DEF StripIngress
  <2>2. ObjectsOK'
    BY <1>0, <1>2, <2>1 DEF StripIngress, ObjectsOK, albs
  <2>3. WorkOK'
    BY <1>0, <1>2 DEF StripIngress, WorkOK
  <2> QED
    BY <2>1, <2>2, <2>3, TypeParts
<1>3. ASSUME HandleEvent(a) PROVE TypeOK'
  <2>1. Head(events[a]) \in Event /\ Tail(events[a]) \in Seq(Event)
    BY <1>0, <1>3, SMTT(30) DEF WorkOK, HandleEvent
  <2>2. /\ task' \in [Alb -> Task \cup {None}]
        /\ events' \in [Alb -> Seq(Event)]
    BY <1>0, <1>3, <2>1 DEF WorkOK, HandleEvent, Event, Task
  <2> QED
    BY <1>0, <1>3, <2>2, TypeParts
    DEF HandleEvent, ObjectsOK, CopiesOK, WorkOK, albs, ings, work
<1>4. ASSUME NEW i \in Ing, HandleOne(a, i) PROVE TypeOK'
  <2>1. CopiesOK' /\ faults' \subseteq Faulty
    BY <1>0, <1>4, RemoveTyped DEF HandleOne
  <2>2. ObjectsOK'
    BY <1>0, <1>4, <2>1 DEF HandleOne, ObjectsOK, albs
  <2>3. task[a] \in Task
    BY <1>0, <1>4 DEF HandleOne, WorkOK
  <2>4. [task[a] EXCEPT !.left = @ \ {i}] \in Task
    BY <2>3 DEF Task
  <2>5. WorkOK'
    BY <1>0, <1>4, <2>4 DEF HandleOne, WorkOK
  <2> QED
    BY <2>1, <2>2, <2>5, TypeParts
<1>5. ASSUME ReleaseAlb(a) PROVE TypeOK'
  <2> DEFINE b == task[a].free
  <2>1. b \in Alb
    BY <1>0, <1>5 DEF ReleaseAlb, WorkOK, Task
  <2>2. events' \in [Alb -> Seq(Event)]
    BY <1>0, <1>5, <2>1, AnnounceTyped DEF ReleaseAlb, WorkOK
  <2>3. ObjectsOK'
    BY <1>0, <1>5, <2>1 DEF ReleaseAlb, ObjectsOK, ings, Fault
  <2> QED
    BY <1>0, <1>5, <2>2, <2>3, TypeParts DEF ReleaseAlb, CopiesOK, WorkOK, ings, work
<1>6. ASSUME ResyncAll(a) PROVE TypeOK'
  BY <1>0, <1>6, TypeParts DEF ResyncAll, ObjectsOK, CopiesOK, WorkOK, albs, ings
<1>7. ASSUME NEW i \in Ing, Reconcile(a, i) PROVE TypeOK'
  <2> DEFINE c == cache[a][i]
             filled == FillupIngressStatus(a, c)
             sent == [ing |-> i, own |-> alb[a].address, st |-> filled,
                      base |-> IF fresh[a][i] = "yes" THEN "latest" ELSE "old"]
  <2>1. alb[a].address \in Address /\ c.spec.need \subseteq Port /\ c.st \subseteq Entry
    BY <1>0, SMTT(30) DEF ObjectsOK, CopiesOK, AlbSpec, IngSpec
  <2>2. filled \subseteq Entry
    BY <2>1 DEF FillupIngressStatus, Entry
  <2>3. sent \in Update
    BY <2>1, <2>2 DEF Update
  <2>4. CASE UNCHANGED <<cache, cur>>
    BY <1>0, <1>7, <2>4, TypeParts
    DEF Reconcile, ObjectsOK, CopiesOK, WorkOK, albs, ings, handler
  <2>5. CASE cache' = [cache EXCEPT ![a][i].st = filled] /\ cur' = [cur EXCEPT ![a] = sent]
    <3> HIDE DEF filled, sent
    <3>1. cache' \in [Alb -> [Ing -> [spec : Shape, st : SUBSET Entry]]]
      BY <1>0, <2>2, <2>5, CacheTyped
    <3>2. cur' \in [Alb -> Update \cup {None}]
      BY <1>0, <2>3, <2>5 DEF CopiesOK
    <3> QED
      BY <1>0, <1>7, <3>1, <3>2, TypeParts
      DEF Reconcile, ObjectsOK, CopiesOK, WorkOK, albs, ings, handler
  <2> QED
    BY <1>7, <2>4, <2>5 DEF Reconcile
<1>8. ASSUME SendStatus(a) PROVE TypeOK'
  <2>1. cur[a] \in Update
    BY <1>0, <1>8 DEF SendStatus, CopiesOK
  <2>2. CASE Store(cur[a].ing, cur[a].st, a) /\ UNCHANGED <<queue, faults>>
    <3>1. cur[a].ing \in Ing /\ cur[a].st \in SUBSET Entry
      BY <2>1 DEF Update
    <3>2. CopiesOK'
      BY <1>0, <1>8, <2>2, <3>1, StoreTyped DEF CopiesOK, SendStatus
    <3> QED
      BY <1>0, <1>8, <2>2, <3>2, TypeParts
      DEF SendStatus, ObjectsOK, WorkOK, albs, handler
  <2>3. CASE Requeue(a, cur[a].ing) /\ (UNCHANGED faults \/ Fault("fill"))
    <3>1. CopiesOK'
      BY <1>0, <1>8, <2>3 DEF SendStatus, Requeue, CopiesOK
    <3>2. queue' \in [Alb -> SUBSET Ing]
      BY <1>0, <2>1, <2>3 DEF Requeue, WorkOK, Update
    <3> QED
      BY <1>0, <1>8, <2>3, <3>1, <3>2, TypeParts
      DEF SendStatus, ObjectsOK, WorkOK, albs, handler, Fault
  <2> QED
    BY <1>8, <2>2, <2>3 DEF SendStatus
<1> QED
  BY <1>1, <1>2, <1>3, <1>4, <1>5, <1>6, <1>7, <1>8 DEF Watch, Handler, Worker

LEMMA InitTyped == Init => TypeOK
BY StatusConstants, SMTT(30) DEF StatusConstants, Init, TypeOK, Entry

LEMMA StepTyped == TypeOK /\ [Next]_vars => TypeOK'
<1> SUFFICES ASSUME TypeOK, [Next]_vars PROVE TypeOK'
  OBVIOUS
<1>1. CASE UNCHANGED vars
  BY <1>1 DEF TypeOK, vars, albs, ings, work, handler
<1> QED
  BY <1>1, UserTyped, ControllerTyped DEF Next

\* TypeOK: every controller works on ingresses, addresses and ports that exist, and every
\* alb has one of the configurations its users give it, however many albs, ingresses,
\* edits and faults there are.
THEOREM TypeCorrect == Spec => []TypeOK
BY InitTyped, StepTyped, PTL DEF Spec

-----------------------------------------------------------------------------
(* The life of an alb. *)

\* The controllers are told to give up the finalizer of an alb only when it is being
\* deleted, and an alb that is gone has none.
Told ==
  \A a \in Alb :
    /\ \A n \in 1..Len(events[a]) :
         events[a][n].kind = "delete" => life[events[a][n].alb] # "guarded"
    /\ task[a] # None /\ task[a].free # None => life[task[a].free] # "guarded"
    /\ life[a] = "gone" => inst[a] = "no"

LEMMA EventsNamed ==
  ASSUME WorkOK, NEW a \in Alb, NEW n \in 1..Len(events[a])
  PROVE  events[a][n].alb \in Alb
<1>1. events[a] \in Seq(Event)
  BY DEF WorkOK
<1>2. events[a][n] \in Event
  BY <1>1, SMTT(30)
<1> QED
  BY <1>2 DEF Event

LEMMA AnnounceTold ==
  ASSUME TypeOK, Told, NEW a \in Alb, Announce(a), life'[a] # "guarded",
         \A b \in Alb : life'[b] = "guarded" => life[b] = "guarded"
  PROVE  \A b \in Alb : \A n \in 1..Len(events'[b]) :
           events'[b][n].kind = "delete" => life'[events'[b][n].alb] # "guarded"
<1> DEFINE e == [alb |-> a, kind |-> "delete", drop |-> {alb[a].address}]
<1> SUFFICES ASSUME NEW b \in Alb, NEW n \in 1..Len(events'[b]), events'[b][n].kind = "delete"
             PROVE  life'[events'[b][n].alb] # "guarded"
  OBVIOUS
<1>1. events[b] \in Seq(Event) /\ e \in Event
  BY EventTyped, TypeParts DEF TypeOK
<1>2. e.alb = a
  OBVIOUS
<1>3. \A k \in 1..Len(events[b]) : events[b][k].alb \in Alb
  BY EventsNamed, TypeParts
<1>4. events'[b] = events[b] \/ events'[b] = Append(events[b], e)
  BY DEF Announce
<1> HIDE DEF e
<1>5. CASE n \in 1..Len(events[b]) /\ events'[b][n] = events[b][n]
  BY <1>3, <1>5, SMTT(30) DEF Told
<1>6. CASE events'[b][n] = e
  BY <1>2, <1>6
<1>7. CASE events'[b] = events[b]
  BY <1>5, <1>7
<1>8. CASE events'[b] = Append(events[b], e)
  <2>1. \/ n \in 1..Len(events[b]) /\ Append(events[b], e)[n] = events[b][n]
        \/ Append(events[b], e)[n] = e
    BY <1>1, <1>8, SMTT(30)
  <2> QED
    BY <1>5, <1>6, <1>8, <2>1
<1> QED
  BY <1>4, <1>7, <1>8

\* What a step does to the life of the albs: at most one of them moves on.
LEMMA StepTold ==
  ASSUME TypeOK, Told, [Next]_vars
  PROVE  Told'
<1>0. ObjectsOK /\ CopiesOK /\ WorkOK /\ TypeOK'
  BY TypeParts, StepTyped
<1>a. \A a \in Alb : \A n \in 1..Len(events[a]) : events[a][n].alb \in Alb
  BY <1>0, EventsNamed
<1>b. \A a \in Alb : task[a] # None => task[a].free \in Alb \cup {None}
  BY <1>0 DEF WorkOK, Task
<1>1. ASSUME NEW a \in Alb, NEW s \in Scope[a], EditAlb(a, s) PROVE Told'
  <2> DEFINE lost == s.address # alb[a].address \/ ~(alb[a].covers \subseteq s.covers)
             drop == IF lost THEN {alb[a].address, s.address} ELSE {}
             e == [alb |-> a, kind |-> "edit", drop |-> drop]
  <2>1. e.kind # "delete"
    OBVIOUS
  <2>2. events' = [events EXCEPT ![a] = Append(@, e)]
    BY <1>1 DEF EditAlb
  <2> HIDE DEF e
  <2>3. ASSUME NEW b \in Alb, NEW n \in 1..Len(events'[b]), events'[b][n].kind = "delete"
        PROVE  n \in 1..Len(events[b]) /\ events'[b][n] = events[b][n]
    BY <1>0, <2>1, <2>2, <2>3, SMTT(30) DEF WorkOK
  <2> QED
    BY <1>1, <2>3, SMTT(30) DEF EditAlb, Told
<1>2. ASSUME NEW a \in Alb, DeleteAlb(a) PROVE Told'
  <2>1. \A b \in Alb : life'[b] = "guarded" => life[b] = "guarded"
    BY <1>0, <1>2 DEF DeleteAlb, ObjectsOK
  <2>2. life'[a] # "guarded"
    BY <1>0, <1>2 DEF DeleteAlb, ObjectsOK
  <2>3. \A b \in Alb : life'[b] = "gone" => inst'[b] = "no"
    BY <1>0, <1>2 DEF DeleteAlb, ObjectsOK, Told
  <2>4. \A b \in Alb : \A n \in 1..Len(events'[b]) :
          events'[b][n].kind = "delete" => life'[events'[b][n].alb] # "guarded"
    BY <1>2, <2>1, <2>2, AnnounceTold DEF DeleteAlb
  <2>5. \A b \in Alb : task'[b] # None /\ task'[b].free # None
                         => life'[task'[b].free] # "guarded"
    BY <1>b, <1>2, <2>1, SMTT(30) DEF DeleteAlb, Told
  <2> QED
    BY <2>3, <2>4, <2>5 DEF Told
<1>3. ASSUME NEW a \in Alb, OperatorFrees(a) PROVE Told'
  <2>1. \A b \in Alb : life'[b] = "guarded" => life[b] = "guarded"
    BY <1>0, <1>3 DEF OperatorFrees, ObjectsOK
  <2>2. \A b \in Alb : life'[b] = "gone" => inst'[b] = "no"
    BY <1>0, <1>3 DEF OperatorFrees, ObjectsOK, Told
  <2>3. ASSUME NEW b \in Alb, NEW n \in 1..Len(events'[b])
        PROVE  n \in 1..Len(events[b]) /\ events'[b][n] = events[b][n]
    BY <1>0, <1>3, <2>3, SMTT(30) DEF OperatorFrees, WorkOK
  <2>4. \A b \in Alb : task'[b] # None /\ task'[b].free # None
                         => life'[task'[b].free] # "guarded"
    BY <1>0, <1>b, <1>3, <2>1, SMTT(30) DEF OperatorFrees, WorkOK, Told
  <2> QED
    BY <1>a, <2>1, <2>2, <2>3, <2>4, SMTT(30) DEF Told
<1>4. ASSUME NEW a \in Alb, HandleEvent(a) PROVE Told'
  <2>1. events[a] \in Seq(Event) /\ events[a] # <<>>
    BY <1>0, <1>4 DEF HandleEvent, WorkOK
  <2>2. Head(events[a]) = events[a][1] /\ 1 \in 1..Len(events[a])
    BY <2>1, SMTT(30)
  <2>3. \A n \in 1..Len(Tail(events[a])) :
          n + 1 \in 1..Len(events[a]) /\ Tail(events[a])[n] = events[a][n + 1]
    BY <2>1, SMTT(30)
  <2>4. \A b \in Alb : task'[b] # None /\ task'[b].free # None
                         => life'[task'[b].free] # "guarded"
    BY <1>0, <1>4, <2>2, SMTT(30) DEF HandleEvent, WorkOK, Told, albs
  <2>5. \A b \in Alb : \A n \in 1..Len(events'[b]) :
          events'[b][n].kind = "delete" => life'[events'[b][n].alb] # "guarded"
    BY <1>0, <1>4, <2>3, SMTT(30) DEF HandleEvent, WorkOK, Told, albs
  <2> QED
    BY <1>4, <2>4, <2>5 DEF HandleEvent, Told, albs
<1>5. ASSUME NEW a \in Alb, NEW i \in Ing, HandleOne(a, i) PROVE Told'
  <2>1. \A b \in Alb : task'[b] # None => task[b] # None /\ task'[b].free = task[b].free
    BY <1>0, <1>5, SMTT(30) DEF HandleOne, WorkOK
  <2> QED
    BY <1>5, <2>1 DEF HandleOne, Told, albs
<1>6. ASSUME NEW a \in Alb, ReleaseAlb(a) PROVE Told'
  <2> DEFINE b == task[a].free
  <2>1. b \in Alb /\ life[b] # "guarded"
    BY <1>b, <1>6 DEF ReleaseAlb, Told
  <2>2. life' = life /\ (events' = events \/ Announce(b))
    BY <1>6 DEF ReleaseAlb
  <2>3. \A c \in Alb : \A n \in 1..Len(events'[c]) :
          events'[c][n].kind = "delete" => life'[events'[c][n].alb] # "guarded"
    BY <2>1, <2>2, AnnounceTold DEF Told
  <2>4. \A c \in Alb : life'[c] = "gone" => inst'[c] = "no"
    BY <1>0, <1>6, <2>1 DEF ReleaseAlb, ObjectsOK, Told
  <2>5. \A c \in Alb : task'[c] # None => task'[c] = task[c]
    BY <1>0, <1>6 DEF ReleaseAlb, WorkOK
  <2> QED
    BY <2>2, <2>3, <2>4, <2>5 DEF Told
<1>7. ASSUME NEW a \in Alb, ResyncAll(a) PROVE Told'
  BY <1>0, <1>7 DEF ResyncAll, WorkOK, Told, albs
<1>8. CASE UNCHANGED <<life, inst, events, task>>
  BY <1>8 DEF Told
<1>9. ASSUME NEW a \in Alb, Watch(a) \/ Worker(a) \/ GracePasses(a)
      PROVE  UNCHANGED <<life, inst, events, task>>
  BY <1>9 DEF Watch, SeeIngress, Worker, Reconcile, SendStatus, GracePasses, albs, handler
<1>10. ASSUME NEW a \in Alb, NEW i \in Ing, StripIngress(a, i)
       PROVE  UNCHANGED <<life, inst, events, task>>
  BY <1>10 DEF StripIngress, albs
<1>11. ASSUME NEW i \in Ing, NEW s \in Shape, EditIngress(i, s)
       PROVE  UNCHANGED <<life, inst, events, task>>
  BY <1>11 DEF EditIngress, albs, handler
<1>12. UNCHANGED vars => UNCHANGED <<life, inst, events, task>>
  BY DEF vars, albs, handler
<1>13. ASSUME User PROVE Told'
  BY <1>1, <1>2, <1>8, <1>11, <1>13 DEF User
<1>14. ASSUME NEW a \in Alb, Operator(a) PROVE Told'
  BY <1>3, <1>8, <1>9, <1>14 DEF Operator
<1>15. ASSUME NEW a \in Alb, Handler(a) PROVE Told'
  BY <1>4, <1>5, <1>6, <1>7, <1>8, <1>10, <1>15 DEF Handler
<1> QED
  BY <1>8, <1>9, <1>12, <1>13, <1>14, <1>15 DEF Next

LEMMA InitTold == Init => Told
BY SMTT(30) DEF Init, Told

LEMMA LifeUnchanged ==
  ASSUME NEW a \in Alb, UNCHANGED <<life, inst, grace>>
  PROVE  UNCHANGED Life(a)!lifeVars
BY DEF Life!lifeVars

LEMMA StepKeepsLife ==
  ASSUME TypeOK, Told, Next
  PROVE  \A a \in Alb : Life(a)!LifeNext \/ UNCHANGED Life(a)!lifeVars
<1> SUFFICES ASSUME NEW a \in Alb
             PROVE  Life(a)!LifeNext \/ UNCHANGED Life(a)!lifeVars
  OBVIOUS
<1>0. ObjectsOK /\ CopiesOK /\ WorkOK
  BY TypeParts
<1>1. ASSUME NEW b \in Alb, DeleteAlb(b)
      PROVE  Life(a)!Leave \/ UNCHANGED Life(a)!lifeVars
  BY <1>0, <1>1 DEF DeleteAlb, ObjectsOK, Life!Leave, Life!lifeVars
<1>2. ASSUME NEW b \in Alb, GracePasses(b)
      PROVE  Life(a)!GraceOver \/ UNCHANGED Life(a)!lifeVars
  BY <1>0, <1>2 DEF GracePasses, ObjectsOK, Life!GraceOver, Life!lifeVars
<1>3. ASSUME NEW b \in Alb, OperatorFrees(b)
      PROVE  Life(a)!Free \/ UNCHANGED Life(a)!lifeVars
  BY <1>0, <1>3 DEF OperatorFrees, ObjectsOK, Life!Free, Life!lifeVars
<1>4. ASSUME NEW b \in Alb, ReleaseAlb(b)
      PROVE  Life(a)!InstanceDone \/ UNCHANGED Life(a)!lifeVars
  <2> DEFINE c == task[b].free
  <2>1. c \in Alb /\ life[c] # "guarded"
    BY <1>0, <1>4 DEF ReleaseAlb, WorkOK, Task, Told
  <2>2. inst[c] = "yes" => life[c] = "leaving"
    BY <1>0, <2>1 DEF ObjectsOK, Told
  <2> QED
    BY <1>0, <1>4, <2>1, <2>2 DEF ReleaseAlb, ObjectsOK, Life!InstanceDone, Life!lifeVars
<1>5. ASSUME UNCHANGED <<life, inst, grace>> PROVE UNCHANGED Life(a)!lifeVars
  BY <1>5, LifeUnchanged
<1>6. ASSUME NEW b \in Alb, Watch(b) \/ Worker(b) \/ HandleEvent(b) \/ ResyncAll(b)
      PROVE  UNCHANGED <<life, inst, grace>>
  BY <1>6 DEF Watch, SeeIngress, Worker, Reconcile, SendStatus, HandleEvent, ResyncAll, albs
<1>7. ASSUME NEW b \in Alb, NEW i \in Ing, StripIngress(b, i) \/ HandleOne(b, i)
      PROVE  UNCHANGED <<life, inst, grace>>
  BY <1>7 DEF StripIngress, HandleOne, albs
<1>8. ASSUME NEW i \in Ing, NEW s \in Shape, EditIngress(i, s)
      PROVE  UNCHANGED <<life, inst, grace>>
  BY <1>8 DEF EditIngress, albs
<1>9. ASSUME NEW b \in Alb, NEW s \in Scope[b], EditAlb(b, s)
      PROVE  UNCHANGED <<life, inst, grace>>
  BY <1>9 DEF EditAlb
<1>10. ASSUME User PROVE Life(a)!LifeNext \/ UNCHANGED Life(a)!lifeVars
  BY <1>1, <1>5, <1>8, <1>9, <1>10 DEF User, Life!LifeNext
<1>11. ASSUME NEW b \in Alb, Handler(b)
       PROVE  Life(a)!LifeNext \/ UNCHANGED Life(a)!lifeVars
  BY <1>4, <1>5, <1>6, <1>7, <1>11 DEF Handler, Life!LifeNext
<1>12. ASSUME NEW b \in Alb, Operator(b)
       PROVE  Life(a)!LifeNext \/ UNCHANGED Life(a)!lifeVars
  BY <1>2, <1>3, <1>12 DEF Operator, Life!LifeNext
<1> QED
  BY <1>5, <1>6, <1>10, <1>11, <1>12 DEF Next

\* KeepsLife: whatever stale events the controllers still handle, the finalizer of the
\* instance goes only from an alb that is being deleted (onAlbDelete), so that each alb
\* lives as AlbLife says.
THEOREM LifeKept == Spec => KeepsLife
<1>1. TypeOK /\ Told /\ [Next]_vars => [\A a \in Alb : Life(a)!LifeNext \/ UNCHANGED Life(a)!lifeVars]_vars
  BY StepKeepsLife
<1>2. Spec => [](TypeOK /\ Told)
  BY InitTyped, StepTyped, InitTold, StepTold, PTL DEF Spec
<1> QED
  BY <1>1, <1>2, PTL DEF Spec, KeepsLife

-----------------------------------------------------------------------------
(* The statuses. *)

\* The pods of an alb that is gone have stopped.
Stopped ==
  \A a \in Alb : life[a] = "gone" =>
    strip[a] = {} /\ task[a] = None /\ queue[a] = {} /\ events[a] = <<>> /\ cur[a] = None

LEMMA InitStopped == Init => Stopped
BY DEF Init, Stopped

LEMMA OutdateStopped ==
  ASSUME NEW i, NEW b, Outdate(i, b)
  PROVE  \A a \in Alb : cur[a] = None => cur'[a] = None
BY DEF Outdate

LEMMA RemoveStopped ==
  ASSUME NEW a, NEW i, NEW drop, RemoveIngressStatusAddress(a, i, drop)
  PROVE  \A b \in Alb : cur[b] = None => cur'[b] = None
BY OutdateStopped DEF RemoveIngressStatusAddress, Store

LEMMA StepStopped ==
  ASSUME TypeOK, Stopped, [Next]_vars
  PROVE  Stopped'
<1>0. ObjectsOK /\ CopiesOK /\ WorkOK
  BY TypeParts
<1>1. ASSUME NEW a \in Alb, NEW s \in Scope[a], EditAlb(a, s) PROVE Stopped'
  BY <1>0, <1>1 DEF EditAlb, Stopped, WorkOK, work
<1>2. ASSUME NEW a \in Alb, DeleteAlb(a) PROVE Stopped'
  BY <1>0, <1>2 DEF DeleteAlb, Announce, Running, Stopped, ObjectsOK, WorkOK, work
<1>3. ASSUME NEW i \in Ing, NEW s \in Shape, EditIngress(i, s) PROVE Stopped'
  BY <1>0, <1>3, OutdateStopped DEF EditIngress, Stopped, albs, handler
<1>4. ASSUME NEW a \in Alb, GracePasses(a) PROVE Stopped'
  BY <1>4 DEF GracePasses, Stopped, work, handler
<1>5. ASSUME NEW a \in Alb, OperatorFrees(a) PROVE Stopped'
  BY <1>0, <1>5 DEF OperatorFrees, Stopped, ObjectsOK, CopiesOK, WorkOK
<1>6. ASSUME NEW a \in Alb, NEW i \in Ing, SeeIngress(a, i) PROVE Stopped'
  BY <1>0, <1>6 DEF SeeIngress, Running, Stopped, WorkOK, albs
<1>7. ASSUME NEW a \in Alb, NEW i \in Ing, StripIngress(a, i) PROVE Stopped'
  BY <1>0, <1>7, RemoveStopped DEF StripIngress, Stopped, WorkOK, albs
<1>8. ASSUME NEW a \in Alb, HandleEvent(a) PROVE Stopped'
  BY <1>0, <1>8 DEF HandleEvent, Stopped, WorkOK, albs, work
<1>9. ASSUME NEW a \in Alb, NEW i \in Ing, HandleOne(a, i) PROVE Stopped'
  BY <1>0, <1>9, RemoveStopped DEF HandleOne, Stopped, WorkOK, albs
<1>10. ASSUME NEW a \in Alb, ReleaseAlb(a) PROVE Stopped'
  <2>1. \A b \in Alb : life[b] = "gone" => events'[b] = events[b]
    BY <1>10 DEF ReleaseAlb, Announce, Running
  <2> QED
    BY <1>0, <1>10, <2>1 DEF ReleaseAlb, Stopped, WorkOK, work
<1>11. ASSUME NEW a \in Alb, ResyncAll(a) PROVE Stopped'
  BY <1>0, <1>11 DEF ResyncAll, Stopped, WorkOK, albs
<1>12. ASSUME NEW a \in Alb, NEW i \in Ing, Reconcile(a, i) PROVE Stopped'
  BY <1>0, <1>12 DEF Reconcile, Stopped, CopiesOK, WorkOK, albs, handler
<1>13. ASSUME NEW a \in Alb, SendStatus(a) PROVE Stopped'
  <2>1. life[a] # "gone"
    BY <1>13 DEF SendStatus, Stopped
  <2>2. \A b \in Alb : cur[b] = None => cur'[b] = None
    BY <1>0, <1>13, OutdateStopped DEF SendStatus, Store, Requeue, CopiesOK
  <2>3. \A b \in Alb : b # a => queue'[b] = queue[b]
    BY <1>0, <1>13 DEF SendStatus, Requeue, WorkOK
  <2> QED
    BY <1>13, <2>1, <2>2, <2>3 DEF SendStatus, Stopped, albs, handler
<1>14. CASE UNCHANGED vars
  BY <1>14 DEF vars, albs, work, handler, Stopped
<1>15. ASSUME User PROVE Stopped'
  BY <1>1, <1>2, <1>3, <1>15 DEF User
<1>16. ASSUME NEW a \in Alb, Operator(a) \/ Watch(a) PROVE Stopped'
  BY <1>4, <1>5, <1>6, <1>16 DEF Operator, Watch
<1>17. ASSUME NEW a \in Alb, Handler(a) PROVE Stopped'
  BY <1>7, <1>8, <1>9, <1>10, <1>11, <1>17 DEF Handler
<1>18. ASSUME NEW a \in Alb, Worker(a) PROVE Stopped'
  BY <1>12, <1>13, <1>18 DEF Worker
<1> QED
  BY <1>14, <1>15, <1>16, <1>17, <1>18 DEF Next

\* A copy of the latest version is the status on the API server, but for what the worker
\* has filled in and not sent yet.
CopyCurrent(a, i) ==
  fresh[a][i] = "yes" /\ life[a] # "gone" =>
    /\ st[i] \subseteq cache[a][i].st
    /\ \A e \in cache[a][i].st \ st[i] :
         cur[a] # None /\ cur[a].ing = i /\ cur[a].base = "latest" /\ cur[a].own = e[1]

\* An update the API server will take only adds, and only its own address.
UpdateCurrent(a) ==
  cur[a] # None /\ cur[a].base = "latest" =>
    /\ st[cur[a].ing] \subseteq cur[a].st
    /\ \A e \in cur[a].st \ st[cur[a].ing] : cur[a].own = e[1]

\* No call that writes a status has failed.
NoFault == faults \cap {"fill", "remove"} = {}

Current ==
  NoFault => \A a \in Alb : UpdateCurrent(a) /\ \A i \in Ing : CopyCurrent(a, i)

LEMMA InitCurrent == Init => Current
BY SMTT(30) DEF Init, Current, UpdateCurrent, CopyCurrent

\* A write of ingress i leaves the copies of the others as current as they were.
LEMMA OutdateCurrent ==
  ASSUME CopiesOK, NoFault, Current, NEW i \in Ing, NEW b, Outdate(i, b),
         \A a \in Alb : a = b /\ cur[a] # None => cur[a].ing = i,
         \A j \in Ing \ {i} : st'[j] = st[j],
         \A a \in Alb, j \in Ing \ {i} : cache'[a][j] = cache[a][j],
         life' = life
  PROVE  Current'
<1>1. ASSUME NEW a \in Alb PROVE UpdateCurrent(a)'
  <2>1. cur'[a] # None /\ cur'[a].base = "latest" => cur'[a] = cur[a] /\ cur[a].ing # i
    BY SMTT(30) DEF CopiesOK, Outdate, Update
  <2>2. cur[a] # None => cur[a].ing \in Ing
    BY DEF CopiesOK, Update
  <2>3. UpdateCurrent(a)
    BY DEF Current
  <2> QED
    BY <2>1, <2>2, <2>3, SMTT(30) DEF UpdateCurrent
<1>2. ASSUME NEW a \in Alb, NEW j \in Ing PROVE CopyCurrent(a, j)'
  <2>1. CASE j = i
    BY <2>1 DEF CopiesOK, Outdate, CopyCurrent
  <2>2. CASE j # i
    <3>1. fresh'[a][j] = fresh[a][j] /\ st'[j] = st[j] /\ cache'[a][j] = cache[a][j]
      BY <2>2 DEF CopiesOK, Outdate
    <3>2. cur[a] # None /\ cur[a].ing = j => cur'[a] = cur[a]
      BY <2>2 DEF Outdate
    <3>3. CopyCurrent(a, j)
      BY DEF Current
    <3> QED
      BY <3>1, <3>2, <3>3 DEF CopyCurrent
  <2> QED
    BY <2>1, <2>2
<1> QED
  BY <1>1, <1>2 DEF Current

\* Taking addresses off: the copies stay current, and the status loses only what was to
\* go and gains only what the worker was about to send.
LEMMA RemoveCurrent ==
  ASSUME TypeOK, NoFault, Current, NEW a \in Alb, life[a] # "gone", NEW i \in Ing, NEW drop,
         RemoveIngressStatusAddress(a, i, drop), life' = life
  PROVE  /\ Current'
         /\ \A j \in Ing : \A e \in st'[j] \ st[j] :
              cur[a] # None /\ cur[a].ing = j /\ cur[a].own = e[1]
         /\ \A j \in Ing : \A e \in st[j] \ st'[j] : j = i /\ e[1] \in drop
<1> DEFINE kept == Without(cache[a][i].st, drop)
<1>0. CopiesOK
  BY TypeParts
<1>1. \A b \in Alb, j \in Ing \ {i} : cache'[b][j] = cache[b][j]
  BY <1>0 DEF RemoveIngressStatusAddress, CopiesOK
<1>2. CASE Store(i, kept, None) /\ UNCHANGED faults /\ fresh[a][i] = "yes"
  <2>1. \A j \in Ing : st'[j] = IF j = i THEN kept ELSE st[j]
    BY <1>0, <1>2 DEF Store, CopiesOK
  <2>2. Current'
    BY <1>0, <1>1, <1>2, <2>1, OutdateCurrent, StatusConstants, SMTT(30) DEF Store, StatusConstants
  <2>3. CopyCurrent(a, i)
    BY DEF Current
  <2> QED
    BY <1>2, <2>1, <2>2, <2>3 DEF CopyCurrent, Without
<1>3. CASE Fault("remove") /\ UNCHANGED <<st, fresh, cur>>
  <2>1. ~NoFault'
    BY <1>3 DEF Fault, NoFault
  <2> QED
    BY <1>3, <2>1 DEF Current
<1>4. CASE (kept = cache[a][i].st \/ fresh[a][i] # "yes") /\ UNCHANGED <<st, fresh, cur, faults>>
  <2>1. ASSUME NEW b \in Alb, NEW j \in Ing PROVE CopyCurrent(b, j)'
    <3>1. cache'[b][j] = cache[b][j] \/ fresh[b][j] # "yes"
      BY <1>0, <1>4 DEF RemoveIngressStatusAddress, CopiesOK
    <3>2. CopyCurrent(b, j)
      BY DEF Current
    <3> QED
      BY <1>4, <3>1, <3>2 DEF CopyCurrent
  <2>2. ASSUME NEW b \in Alb PROVE UpdateCurrent(b)'
    BY <1>4 DEF Current, UpdateCurrent
  <2> QED
    BY <1>4, <2>1, <2>2 DEF Current
<1> QED
  BY <1>2, <1>3, <1>4 DEF RemoveIngressStatusAddress

\* Reconcile: what it fills in stands in the copy and in the update alike.
LEMMA ReconcileCurrent ==
  ASSUME TypeOK, NoFault, Stopped, Current, NEW a \in Alb, NEW i \in Ing, Reconcile(a, i)
  PROVE  Current'
<1> DEFINE c == cache[a][i]
           filled == FillupIngressStatus(a, c)
           sent == [ing |-> i, own |-> alb[a].address, st |-> filled,
                    base |-> IF fresh[a][i] = "yes" THEN "latest" ELSE "old"]
<1>0. CopiesOK
  BY TypeParts
<1>1. UNCHANGED <<st, fresh, life, faults>> /\ life[a] # "gone" /\ cur[a] = None
  BY DEF Reconcile, albs, ings, Stopped
<1>2. CASE UNCHANGED <<cache, cur>>
  BY <1>1, <1>2, SMTT(30) DEF Current, UpdateCurrent, CopyCurrent, NoFault
<1>3. CASE cache' = [cache EXCEPT ![a][i].st = filled] /\ cur' = [cur EXCEPT ![a] = sent]
  <2>1. sent # None
    <3>1. alb[a].address \in Address /\ c.spec.need \subseteq Port /\ c.st \subseteq Entry
      BY StatusConstants, SMTT(30) DEF TypeOK, AlbSpec, StatusConstants, IngSpec
    <3>2. filled \subseteq Entry
      BY <3>1 DEF FillupIngressStatus, Entry
    <3> QED
      BY <3>1, <3>2, NoneIsNoUpdate, SMTT(30) DEF Update
  <2>2. cur'[a] = sent /\ \A b \in Alb : b # a => cur'[b] = cur[b]
    BY <1>0, <1>3 DEF CopiesOK
  <2>3. /\ cache'[a][i].st = filled
        /\ \A b \in Alb, j \in Ing : b # a \/ j # i => cache'[b][j] = cache[b][j]
    BY <1>0, <1>3, SMTT(30) DEF CopiesOK
  <2>4. c.st \subseteq filled /\ \A e \in filled \ c.st : e[1] = alb[a].address
    BY DEF FillupIngressStatus
  <2>5. sent.ing = i /\ sent.own = alb[a].address /\ sent.st = filled
        /\ (sent.base = "latest" <=> fresh[a][i] = "yes")
    OBVIOUS
  <2>6. fresh[a][i] = "yes" => st[i] = c.st
    <3>1. CopyCurrent(a, i)
      BY DEF Current
    <3> QED
      BY <1>1, <3>1 DEF CopyCurrent
  <2> HIDE DEF c, filled, sent
  <2>7. ASSUME NEW b \in Alb PROVE UpdateCurrent(b)'
    <3>1. UpdateCurrent(b)
      BY DEF Current
    <3> QED
      BY <1>1, <2>2, <2>4, <2>5, <2>6, <3>1 DEF UpdateCurrent
  <2>8. ASSUME NEW b \in Alb, NEW j \in Ing PROVE CopyCurrent(b, j)'
    <3>1. CopyCurrent(b, j)
      BY DEF Current
    <3>2. CASE b = a /\ j = i
      BY <1>1, <2>1, <2>2, <2>3, <2>4, <2>5, <2>6, <3>2 DEF CopyCurrent
    <3>3. CASE b = a /\ j # i
      BY <1>1, <2>3, <3>1, <3>3 DEF CopyCurrent
    <3>4. CASE b # a
      BY <1>1, <2>2, <2>3, <3>1, <3>4 DEF CopyCurrent
    <3> QED
      BY <3>2, <3>3, <3>4
  <2> QED
    BY <2>7, <2>8 DEF Current
<1> QED
  BY <1>2, <1>3 DEF Reconcile

\* SendStatus: what is sent was made from the status it replaces.
LEMMA SendCurrent ==
  ASSUME TypeOK, NoFault, Current, NEW a \in Alb, SendStatus(a)
  PROVE  /\ Current'
         /\ \A j \in Ing : /\ st[j] \subseteq st'[j]
                           /\ \A e \in st'[j] \ st[j] : cur[a].ing = j /\ cur[a].own = e[1]
<1> DEFINE i == cur[a].ing
<1>0. CopiesOK
  BY TypeParts
<1>1. i \in Ing /\ cur[a].st \in SUBSET Entry /\ cur[a] # None /\ UpdateCurrent(a)
  BY <1>0 DEF SendStatus, CopiesOK, Update, Current
<1>2. life' = life /\ cache' = cache
  BY DEF SendStatus, albs
<1>3. CASE cur[a].base = "latest" /\ Store(i, cur[a].st, a) /\ UNCHANGED <<queue, faults>>
  <2>1. \A j \in Ing : st'[j] = IF j = i THEN cur[a].st ELSE st[j]
    BY <1>0, <1>3 DEF Store, CopiesOK
  <2>2. Current'
    BY <1>0, <1>1, <1>2, <1>3, <2>1, OutdateCurrent, SMTT(30) DEF Store
  <2> QED
    BY <1>1, <1>3, <2>1, <2>2 DEF UpdateCurrent
<1>4. CASE cur[a].base = "old" /\ Requeue(a, i) /\ UNCHANGED faults
  <2>1. \A b \in Alb : cur'[b] = IF b = a THEN None ELSE cur[b]
    BY <1>0, <1>4 DEF Requeue, CopiesOK
  <2>2. ASSUME NEW b \in Alb PROVE UpdateCurrent(b)'
    BY <1>4, <2>1, SMTT(30) DEF Requeue, Current, UpdateCurrent
  <2>3. ASSUME NEW b \in Alb, NEW j \in Ing PROVE CopyCurrent(b, j)'
    <3>1. CopyCurrent(b, j)
      BY DEF Current
    <3> QED
      BY <1>2, <1>4, <2>1, <3>1 DEF Requeue, CopyCurrent
  <2> QED
    BY <1>4, <2>2, <2>3 DEF Requeue, Current
<1>5. CASE Fault("fill") /\ Requeue(a, i)
  <2>1. ~NoFault'
    BY <1>5 DEF Fault, NoFault
  <2> QED
    BY <1>5, <2>1 DEF Requeue, Current
<1> QED
  BY <1>3, <1>4, <1>5 DEF SendStatus

\* Everything a step may do to a status: the steps of workers and handlers keep the copies
\* current, and the others write no status.
LEMMA StepCurrent ==
  ASSUME TypeOK, Stopped, Current, NoFault, Next
  PROVE  /\ Current'
         /\ \A j \in Ing :
              /\ \A e \in st'[j] \ st[j] :
                   \E a \in Alb : cur[a] # None /\ cur[a].ing = j /\ cur[a].own = e[1]
              /\ \A e \in st[j] \ st'[j] :
                   \E a \in Alb : \/ j \in strip[a] /\ alb[a].address = e[1]
                                  \/ task[a] # None /\ j \in task[a].left /\ e[1] \in task[a].drop
<1> DEFINE Kept(j) == 
              /\ \A e \in st'[j] \ st[j] :
                   \E a \in Alb : cur[a] # None /\ cur[a].ing = j /\ cur[a].own = e[1]
              /\ \A e \in st[j] \ st'[j] :
                   \E a \in Alb : \/ j \in strip[a] /\ alb[a].address = e[1]
                                  \/ task[a] # None /\ j \in task[a].left /\ e[1] \in task[a].drop
           Good == Current' /\ \A j \in Ing : Kept(j)
<1>0. ObjectsOK /\ CopiesOK
  BY TypeParts
<1>1. ASSUME NEW a \in Alb, NEW i \in Ing, StripIngress(a, i) PROVE Good
  <2>1. life[a] # "gone" /\ life' = life
    BY <1>1 DEF StripIngress, Stopped, albs
  <2>2. RemoveIngressStatusAddress(a, i, {alb[a].address})
    BY <1>1 DEF StripIngress
  <2>3. i \in strip[a]
    BY <1>1 DEF StripIngress
  <2> QED
    BY <2>1, <2>2, <2>3, RemoveCurrent, SMTT(30)
<1>2. ASSUME NEW a \in Alb, NEW i \in Ing, HandleOne(a, i) PROVE Good
  <2>1. life[a] # "gone" /\ life' = life
    BY <1>2 DEF HandleOne, Stopped, albs
  <2>2. RemoveIngressStatusAddress(a, i, task[a].drop)
    BY <1>2 DEF HandleOne
  <2>3. task[a] # None /\ i \in task[a].left
    BY <1>2 DEF HandleOne
  <2> QED
    BY <2>1, <2>2, <2>3, RemoveCurrent, SMTT(30)
<1>3. ASSUME NEW a \in Alb, SendStatus(a) PROVE Good
  <2>1. cur[a] # None
    BY <1>3 DEF SendStatus
  <2> QED
    BY <1>3, <2>1, SendCurrent, SMTT(30)
<1>4. ASSUME NEW a \in Alb, NEW i \in Ing, Reconcile(a, i) PROVE Good
  <2>1. st' = st
    BY <1>4 DEF Reconcile, ings
  <2> QED
    BY <1>4, <2>1, ReconcileCurrent
<1>5. ASSUME NEW i \in Ing, NEW s \in Shape, EditIngress(i, s) PROVE Good
  <2>1. st' = st /\ cache' = cache /\ life' = life /\ Outdate(i, None)
    BY <1>5 DEF EditIngress, albs
  <2>2. Current'
    BY <1>0, <2>1, OutdateCurrent, StatusConstants, SMTT(30) DEF StatusConstants
  <2> QED
    BY <2>1, <2>2
<1>6. ASSUME NEW a \in Alb, NEW i \in Ing, SeeIngress(a, i) PROVE Good
  <2>1. UNCHANGED <<st, cur, life, faults>>
    BY <1>6 DEF SeeIngress, albs, ings
  <2>2. \A b \in Alb, j \in Ing :
          IF b = a /\ j = i THEN cache'[b][j].st = st[j]
          ELSE cache'[b][j] = cache[b][j] /\ fresh'[b][j] = fresh[b][j]
    BY <1>0, <1>6 DEF SeeIngress, CopiesOK
  <2>3. ASSUME NEW b \in Alb, NEW j \in Ing PROVE CopyCurrent(b, j)'
    BY <2>1, <2>2, SMTT(30) DEF Current, CopyCurrent
  <2>4. ASSUME NEW b \in Alb PROVE UpdateCurrent(b)'
    BY <2>1 DEF Current, UpdateCurrent
  <2> QED
    BY <2>1, <2>3, <2>4 DEF Current
<1>7. ASSUME UNCHANGED <<st, cache, fresh>>, faults \subseteq faults',
             \A a \in Alb : /\ life[a] = "gone" => life'[a] = "gone"
                            /\ cur'[a] = cur[a] \/ (cur'[a] = None /\ life'[a] = "gone")
      PROVE  Good
  <2>1. ASSUME NEW b \in Alb, NEW j \in Ing PROVE CopyCurrent(b, j)'
    BY <1>7, SMTT(30) DEF Current, CopyCurrent
  <2>2. ASSUME NEW b \in Alb PROVE UpdateCurrent(b)'
    BY <1>7 DEF Current, UpdateCurrent
  <2> QED
    BY <1>7, <2>1, <2>2 DEF Current
<1>8. ASSUME NEW a \in Alb, NEW s \in Scope[a], EditAlb(a, s) PROVE Good
  BY <1>7, <1>8 DEF EditAlb, ings, work
<1>9. ASSUME NEW a \in Alb, DeleteAlb(a) PROVE Good
  BY <1>0, <1>7, <1>9 DEF DeleteAlb, ObjectsOK, ings, work
<1>10. ASSUME NEW a \in Alb, GracePasses(a) \/ OperatorFrees(a) PROVE Good
  BY <1>0, <1>7, <1>10 DEF GracePasses, OperatorFrees, ObjectsOK, CopiesOK, ings, work
<1>11. ASSUME NEW a \in Alb, HandleEvent(a) \/ ResyncAll(a) PROVE Good
  BY <1>7, <1>11 DEF HandleEvent, ResyncAll, albs, ings, work
<1>12. ASSUME NEW a \in Alb, ReleaseAlb(a) PROVE Good
  BY <1>7, <1>12 DEF ReleaseAlb, ings, work, Fault
<1> HIDE DEF Good
<1>13. ASSUME User PROVE Good
  BY <1>5, <1>8, <1>9, <1>13 DEF User
<1>14. ASSUME NEW a \in Alb, Handler(a) PROVE Good
  BY <1>1, <1>2, <1>11, <1>12, <1>14 DEF Handler
<1>15. ASSUME NEW a \in Alb, Operator(a) \/ Watch(a) \/ Worker(a) PROVE Good
  BY <1>3, <1>4, <1>6, <1>10, <1>15 DEF Operator, Watch, Worker
<1>16. Good
  BY <1>13, <1>14, <1>15 DEF Next
<1> QED
  BY <1>16 DEF Good

LEMMA FaultsStay ==
  ASSUME Next PROVE faults \subseteq faults'
<1>1. ASSUME NEW a, NEW i, NEW drop, RemoveIngressStatusAddress(a, i, drop)
      PROVE  faults \subseteq faults'
  BY <1>1 DEF RemoveIngressStatusAddress, Fault
<1>2. ASSUME User PROVE faults \subseteq faults'
  BY <1>2 DEF User, EditAlb, DeleteAlb, EditIngress
<1>3. ASSUME NEW a \in Alb, Operator(a) \/ Watch(a) \/ Worker(a) PROVE faults \subseteq faults'
  BY <1>3 DEF Operator, GracePasses, OperatorFrees, Watch, SeeIngress, Worker, SendStatus,
              Reconcile, Fault
<1>4. ASSUME NEW a \in Alb, Handler(a) PROVE faults \subseteq faults'
  BY <1>1, <1>4 DEF Handler, StripIngress, HandleOne, HandleEvent, ReleaseAlb, ResyncAll, Fault
<1> QED
  BY <1>2, <1>3, <1>4 DEF Next

LEMMA CurrentAlways == TypeOK /\ Stopped /\ Current /\ [Next]_vars => Current'
<1> SUFFICES ASSUME TypeOK, Stopped, Current, [Next]_vars PROVE Current'
  OBVIOUS
<1>1. CASE UNCHANGED vars
  <2>1. UNCHANGED <<st, cache, fresh, cur, life, faults>>
    BY <1>1 DEF vars, albs, ings, work
  <2> QED
    BY <2>1, SMTT(30) DEF Current, UpdateCurrent, CopyCurrent, NoFault
<1>2. CASE Next /\ NoFault
  BY <1>2, StepCurrent
<1>3. CASE Next /\ ~NoFault
  BY <1>3, FaultsStay DEF Current, NoFault
<1> QED
  BY <1>1, <1>2, <1>3

\* NoLostUpdate: however the workers and the handlers of the albs interleave, a status
\* gains an address only from the controller that has it and loses one only by a
\* controller told to take it off (UpdateIngressStatus, RemoveIngressStatusAaddress), as
\* long as no call that writes a status has failed.
THEOREM UpdatesKept == Spec => NoLostUpdate
<1>1. Spec => [](TypeOK /\ Stopped /\ Current)
  BY InitTyped, StepTyped, InitStopped, StepStopped, InitCurrent, CurrentAlways, PTL DEF Spec
<1>2. TypeOK /\ Stopped /\ Current /\ [Next]_vars =>
        [NoFault => \A i \in Ing :
           /\ \A e \in st'[i] \ st[i] :
                \E a \in Alb : cur[a] # None /\ cur[a].ing = i /\ cur[a].own = e[1]
           /\ \A e \in st[i] \ st'[i] :
                \E a \in Alb : \/ i \in strip[a] /\ alb[a].address = e[1]
                               \/ task[a] # None /\ i \in task[a].left /\ e[1] \in task[a].drop]_vars
  BY StepCurrent
<1> QED
  BY <1>1, <1>2, PTL DEF Spec, NoLostUpdate, NoFault
=============================================================================
