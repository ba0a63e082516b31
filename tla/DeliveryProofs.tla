---------------------------- MODULE DeliveryProofs ----------------------------
(***************************************************************************)
(* No update of a resource is lost, for any number of resources, workers,  *)
(* edits and disturbances of every kind.                                   *)
(*                                                                         *)
(* The invariant follows an update from the API server to the worker: what *)
(* the indexer lacks is still in the watch stream (Trails), and a copy in  *)
(* the indexer that no sync has looked up is in a notification that its    *)
(* handler will queue, in the queue, or about to be looked up (Noticed).   *)
(***************************************************************************)
EXTENDS TypeProofs

\* The last watch event, or else the indexer, says what the API server has.
Trails(k) ==
    IF stream[k] = <<>> THEN cache[k] = api[k]
    ELSE stream[k][Len(stream[k])] = api[k]

AboutToLookUp(k) == \E w \in Workers : pc[w] = "lookup" /\ key[w] = k

Noticed(k) ==
    cache[k] # Absent /\ cache[k] # seen[k]
        => Wakes(k) \/ k \in dirty \/ AboutToLookUp(k)

Tracked == \A k \in Keys : Trails(k) /\ Noticed(k)

-----------------------------------------------------------------------------
(* Sequences that grow and shrink. *)

\* The last element of a list that one was appended to.
LEMMA LastOfAppend ==
    ASSUME NEW S, NEW q \in Seq(S), NEW e \in S
    PROVE  Append(q, e) # <<>> /\ Append(q, e)[Len(Append(q, e))] = e
BY AppendProperties, LenProperties, EmptySeq

\* The last element stays when the first one is taken, if there are two.
LEMMA LastOfTail ==
    ASSUME NEW S, NEW q \in Seq(S), q # <<>>
    PROVE  IF Tail(q) = <<>> THEN Head(q) = q[Len(q)]
           ELSE Tail(q)[Len(Tail(q))] = q[Len(q)]
<1> DEFINE t == Tail(q)
<1>1. Len(q) \in Nat /\ Len(q) > 0 /\ Head(q) = q[1]
  BY LenProperties, EmptySeq, HeadTailProperties
<1>2. /\ t \in Seq(S) /\ Len(t) = Len(q) - 1
      /\ \A i \in 1..Len(t) : t[i] = q[i + 1]
  BY HeadTailProperties
<1> HIDE DEF t
<1>3. CASE t = <<>>
  <2>1. Len(t) = 0
    BY <1>2, <1>3, EmptySeq
  <2> QED
    BY <1>1, <1>2, <1>3, <2>1 DEF t
<1>4. CASE t # <<>>
  <2>1. Len(t) \in 1..Len(t)
    BY <1>1, <1>2, <1>4, LenProperties, EmptySeq
  <2>2. t[Len(t)] = q[Len(q)]
    BY <1>1, <1>2, <2>1
  <2> QED
    BY <1>4, <2>2 DEF t
<1> QED
  BY <1>3, <1>4 DEF t

-----------------------------------------------------------------------------
(* Notifications. *)

\* A notification that comes last wakes its key if it is of the right kind,
\* and lets those before it do so.
LEMMA AppendedWakes ==
    ASSUME Typed, NEW k \in Keys, NEW n \in Note,
           notes'[k] = Append(notes[k], n)
    PROVE  Wakes(k)' <=> Wakes(k) \/ Enqueues(n)
<1>1. notes[k] \in Seq(Note)
  BY DEF Typed, TypeOK, InformerTypeOK
<1>2. /\ Len(notes'[k]) = Len(notes[k]) + 1
      /\ Len(notes[k]) \in Nat
      /\ \A i \in 1..Len(notes[k]) : notes'[k][i] = notes[k][i]
      /\ notes'[k][Len(notes[k]) + 1] = n
  BY <1>1, AppendProperties, LenProperties
<1> QED
  BY <1>2 DEF Wakes

\* When a handler takes the first notification, either it queues the key or
\* the others still wake it.
LEMMA TakenWakes ==
    ASSUME Typed, NEW k \in Keys, notes[k] # <<>>, notes'[k] = Tail(notes[k]),
           Wakes(k)
    PROVE  Enqueues(Head(notes[k])) \/ Wakes(k)'
<1>1. notes[k] \in Seq(Note)
  BY DEF Typed, TypeOK, InformerTypeOK
<1>2. /\ Len(notes[k]) \in Nat
      /\ Head(notes[k]) = notes[k][1]
      /\ Len(notes'[k]) = Len(notes[k]) - 1
      /\ \A i \in 1..Len(notes'[k]) : notes'[k][i] = notes[k][i + 1]
  BY <1>1, HeadTailProperties, LenProperties
<1>3. PICK i \in 1..Len(notes[k]) : Enqueues(notes[k][i])
  BY DEF Wakes
<1>4. CASE i = 1
  BY <1>2, <1>3, <1>4
<1>5. CASE i # 1
  <2>1. i - 1 \in 1..Len(notes'[k]) /\ notes'[k][i - 1] = notes[k][i]
    BY <1>2, <1>5
  <2> QED
    BY <1>3, <2>1 DEF Wakes
<1> QED
  BY <1>4, <1>5

\* The handlers queue whatever changes the indexer into another copy.
LEMMA ChangeEnqueues ==
    ASSUME NEW old \in Stored, NEW new \in Stored, new # Absent, new # old
    PROVE  Enqueues(NoteFor(old, new))
BY DEF NoteFor, Enqueues
-----------------------------------------------------------------------------
(* The steps of the system. *)

\* A step that touches neither the informer, the queue nor the lookups.
LEMMA StutterTracked ==
    ASSUME Tracked,
           UNCHANGED <<api, stream, cache, notes, dirty, seen, key>>,
           \A w \in Workers : pc[w] = "lookup" => pc'[w] = "lookup"
    PROVE  Tracked'
BY DEF Tracked, Trails, Noticed, Wakes, AboutToLookUp

\* A write of the API server goes to the end of the stream.
LEMMA WriteTracked ==
    ASSUME Tracked, Typed, NEW k \in Keys, NEW o \in Stored,
           api' = [api EXCEPT ![k] = o],
           stream' = [stream EXCEPT ![k] = Append(stream[k], o)],
           UNCHANGED <<cache, notes, dirty, seen, key>>,
           \A w \in Workers : pc[w] = "lookup" => pc'[w] = "lookup"
    PROVE  Tracked'
<1>1. stream'[k] # <<>> /\ stream'[k][Len(stream'[k])] = o /\ api'[k] = o
  BY LastOfAppend DEF Typed, TypeOK, InformerTypeOK
<1>2. \A j \in Keys : Trails(j)'
  BY <1>1 DEF Tracked, Trails, Typed, TypeOK, InformerTypeOK
<1>3. \A j \in Keys : Noticed(j)'
  BY DEF Tracked, Noticed, Wakes, AboutToLookUp
<1> QED
  BY <1>2, <1>3 DEF Tracked

\* The indexer takes a watch event: the notification wakes the key if the
\* event changed anything.
LEMMA DeliverTracked ==
    ASSUME Tracked, Typed, NEW k \in Keys, InformerDeliver(k)
    PROVE  Tracked'
<1> DEFINE new == Head(stream[k])
           n == NoteFor(cache[k], new)
<1>1. /\ stream[k] \in Seq(Stored) /\ stream[k] # <<>>
      /\ stream' = [stream EXCEPT ![k] = Tail(stream[k])]
      /\ cache' = [cache EXCEPT ![k] = new]
      /\ notes' = [notes EXCEPT ![k] = Append(notes[k], n)]
      /\ UNCHANGED <<api, dirty, seen, pc, key>>
  BY DEF InformerDeliver, Deliver, Typed, TypeOK, InformerTypeOK, queueVars,
     workerVars, historyVars
<1>2. new \in Stored /\ cache[k] \in Stored /\ n \in Note
  BY <1>1, HeadTailProperties, NoteTyped DEF Typed, TypeOK, InformerTypeOK
<1>3. Trails(k)'
  <2>1. IF Tail(stream[k]) = <<>> THEN new = api[k]
        ELSE Tail(stream[k])[Len(Tail(stream[k]))] = api[k]
    BY <1>1, LastOfTail DEF Tracked, Trails
  <2> QED
    BY <1>1, <2>1 DEF Trails, Typed, TypeOK, InformerTypeOK
<1>4. Noticed(k)'
  <2>1. Wakes(k)' <=> Wakes(k) \/ Enqueues(n)
    BY <1>1, <1>2, AppendedWakes DEF Typed, TypeOK, InformerTypeOK
  <2>2. CASE new = cache[k]
    BY <1>1, <2>1, <2>2 DEF Tracked, Noticed, AboutToLookUp, Typed, TypeOK, InformerTypeOK
  <2>3. CASE new = Absent
    BY <1>1, <2>3 DEF Noticed, Typed, TypeOK, InformerTypeOK
  <2>4. CASE new # cache[k] /\ new # Absent
    BY <1>2, <2>1, <2>4, ChangeEnqueues DEF Noticed
  <2> QED
    BY <2>2, <2>3, <2>4
<1>5. \A j \in Keys \ {k} : Trails(j)' /\ Noticed(j)'
  BY <1>1 DEF Tracked, Trails, Noticed, Wakes, AboutToLookUp, Typed, TypeOK, InformerTypeOK
<1> QED
  BY <1>3, <1>4, <1>5 DEF Tracked

\* A new list brings the indexer up to date in one go.
LEMMA BreakWatchTracked ==
    ASSUME Tracked, Typed, BreakWatch
    PROVE  Tracked'
<1>1. /\ cache' = api /\ UNCHANGED <<api, dirty, seen, pc, key>>
      /\ notes' = [k \in Keys |-> notes[k] \o ReplaceNotes(cache[k], api[k])]
      /\ stream' = [k \in Keys |-> <<>>]
  BY DEF BreakWatch, Relist, queueVars, workerVars, historyVars
<1>2. ASSUME NEW k \in Keys
      PROVE  Noticed(k)'
  <2>1. CASE api[k] = Absent
    BY <1>1, <2>1 DEF Noticed
  <2>2. CASE api[k] # Absent
    <3> DEFINE n == NoteFor(cache[k], api[k])
    <3>1. n \in Note /\ notes[k] \in Seq(Note) /\ cache[k] \in Stored /\ api[k] \in Stored
      BY NoteTyped DEF Typed, TypeOK, InformerTypeOK
    <3>2. notes'[k] = Append(notes[k], n)
      BY <1>1, <2>2, <3>1, AppendIsConcat DEF ReplaceNotes
    <3>3. Wakes(k)' <=> Wakes(k) \/ Enqueues(n)
      BY <3>1, <3>2, AppendedWakes
    <3>4. CASE api[k] = cache[k]
      BY <1>1, <3>3, <3>4 DEF Tracked, Noticed, AboutToLookUp
    <3>5. CASE api[k] # cache[k]
      BY <2>2, <3>1, <3>3, <3>5, ChangeEnqueues DEF Noticed
    <3> QED
      BY <3>4, <3>5
  <2> QED
    BY <2>1, <2>2
<1>3. \A k \in Keys : Trails(k)'
  BY <1>1 DEF Trails
<1> QED
  BY <1>2, <1>3 DEF Tracked

\* A resync adds a notification where there was none.
LEMMA ResyncTracked ==
    ASSUME Tracked, Typed, NEW k \in Keys, InformerResync(k)
    PROVE  Tracked'
<1>1. /\ notes[k] = <<>> /\ \A j \in Keys \ {k} : notes'[j] = notes[j]
      /\ UNCHANGED <<api, stream, cache, dirty, seen, pc, key>>
  BY DEF InformerResync, Resync, apiVars, queueVars, workerVars, historyVars,
     Typed, TypeOK, InformerTypeOK
<1>2. ~Wakes(k)
  BY <1>1 DEF Wakes
<1> QED
  BY <1>1, <1>2 DEF Tracked, Trails, Noticed, Wakes, AboutToLookUp

\* The handler takes a notification, and queues the key if it was to.
LEMMA HandleNoteTracked ==
    ASSUME Tracked, Typed, NEW k \in Keys, HandleNote(k)
    PROVE  Tracked'
<1>1. /\ notes[k] # <<>>
      /\ notes' = [notes EXCEPT ![k] = Tail(notes[k])]
      /\ UNCHANGED <<api, stream, cache, seen, pc, key>>
      /\ dirty \subseteq dirty'
      /\ Enqueues(Head(notes[k])) => k \in dirty'
  BY DEF HandleNote, Add, Enqueue, apiVars, queueVars, workerVars, historyVars
<1>2. notes'[k] = Tail(notes[k]) /\ \A j \in Keys \ {k} : notes'[j] = notes[j]
  BY <1>1 DEF Typed, TypeOK, InformerTypeOK
<1>3. Noticed(k)'
  BY <1>1, <1>2, TakenWakes DEF Tracked, Noticed, AboutToLookUp
<1>4. \A j \in Keys \ {k} : Noticed(j)'
  BY <1>1, <1>2 DEF Tracked, Noticed, Wakes, AboutToLookUp
<1>5. \A j \in Keys : Trails(j)'
  BY <1>1 DEF Tracked, Trails
<1> QED
  BY <1>3, <1>4, <1>5 DEF Tracked

\* A back-off that expires only adds to the queue.
LEMMA BackoffTracked ==
    ASSUME Tracked, NEW k \in Keys, BackoffExpires(k)
    PROVE  Tracked'
<1>1. dirty \subseteq dirty' /\ UNCHANGED <<api, stream, cache, notes, seen, pc, key>>
  BY DEF BackoffExpires, Expire, Enqueue, apiVars, informerVars, workerVars, historyVars
<1> QED
  BY <1>1 DEF Tracked, Trails, Noticed, Wakes, AboutToLookUp

\* A key that leaves the queue is about to be looked up.
LEMMA DequeueTracked ==
    ASSUME Tracked, Typed, NEW w \in Workers, Dequeue(w)
    PROVE  Tracked'
<1>1. /\ pc[w] = "idle" /\ pc' = [pc EXCEPT ![w] = "lookup"]
      /\ key' = [key EXCEPT ![w] = Head(queue)]
      /\ dirty' = dirty \ {Head(queue)}
      /\ UNCHANGED <<api, stream, cache, notes, seen>>
  BY DEF Dequeue, Take, Goto, apiVars, informerVars, historyVars
<1>2. \A j \in Keys : AboutToLookUp(j) => AboutToLookUp(j)'
  BY <1>1 DEF AboutToLookUp, Typed, TypeOK
<1>3. \A j \in Keys : j \in dirty => j \in dirty' \/ AboutToLookUp(j)'
  BY <1>1 DEF AboutToLookUp, Typed, TypeOK
<1> QED
  BY <1>1, <1>2, <1>3 DEF Tracked, Trails, Noticed, Wakes

\* The lookup sees what the indexer has.
LEMMA LookupTracked ==
    ASSUME Tracked, Typed, NEW w \in Workers, Lookup(w)
    PROVE  Tracked'
<1>1. /\ \A v \in Workers \ {w} : pc'[v] = pc[v]
      /\ seen' = [seen EXCEPT ![key[w]] = cache[key[w]]]
      /\ UNCHANGED <<api, stream, cache, notes, dirty, key>>
  BY DEF Lookup, ListerGet, Goto, apiVars, informerVars, queueVars, Typed, TypeOK
<1>2. \A j \in Keys \ {key[w]} : AboutToLookUp(j) => AboutToLookUp(j)'
  BY <1>1 DEF AboutToLookUp
<1> QED
  BY <1>1, <1>2 DEF Tracked, Trails, Noticed, Wakes, Typed, TypeOK, InformerTypeOK

\* A worker that is done with a key does not forget a lookup.
LEMMA ConcludeTracked ==
    ASSUME Tracked, Typed, NEW w \in Workers, Conclude(w)
    PROVE  Tracked'
<1>1. /\ pc[w] # "lookup"
      /\ \A v \in Workers \ {w} : pc'[v] = pc[v] /\ key'[v] = key[v]
      /\ UNCHANGED <<api, stream, cache, notes, dirty, seen>>
  BY DEF Conclude, Done, apiVars, informerVars, historyVars, Typed, TypeOK
<1>2. \A j \in Keys : AboutToLookUp(j) => AboutToLookUp(j)'
  BY <1>1 DEF AboutToLookUp
<1> QED
  BY <1>1, <1>2 DEF Tracked, Trails, Noticed, Wakes

\* The calls of syncHandler concern neither the informer nor the queue,
\* except for the write of the status, which is a write like any other.
LEMMA CallsTracked ==
    ASSUME Tracked, Typed, NEW w \in Workers,
           \/ CallDelete(w) \/ BuildConfig(w) \/ CallGetConfig(w)
           \/ CallPutConfig(w) \/ UpdateStatus(w)
    PROVE  Tracked'
<1>1. \A v \in Workers : pc[v] = "lookup" => pc'[v] = "lookup"
  <2>1. pc[w] # "lookup" /\ \E step : pc' = [pc EXCEPT ![w] = step]
    BY DEF CallDelete, BuildConfig, ReportInvalid, CallGetConfig, CallPutConfig,
       UpdateStatus, Report, Goto
  <2> QED
    BY <2>1 DEF Typed, TypeOK
<1>2. UNCHANGED <<cache, notes, dirty, seen, key>>
  BY DEF CallDelete, BuildConfig, CallGetConfig, CallPutConfig, UpdateStatus,
     informerVars, queueVars, historyVars
<1>3. CASE UNCHANGED apiVars
  BY <1>1, <1>2, <1>3, StutterTracked DEF apiVars
<1>4. CASE UpdateStatus(w) /\ WriteStatus(key[w], obj[w], want[w]) /\ ~UNCHANGED apiVars
  <2> DEFINE k == key[w]
             o == [spec |-> api[k].spec, status |-> want[w], rv |-> version[k] + 1]
  <2>1. k \in Keys /\ want[w] \in Statuses
    BY <1>4 DEF UpdateStatus, Typed, TypeOK, Holding
  <2>2. api[k] # Absent /\ api' = [api EXCEPT ![k] = o]
        /\ stream' = [stream EXCEPT ![k] = Append(stream[k], o)]
    BY <1>4 DEF WriteStatus, Store
  <2>3. o \in Stored
    BY <2>1, <2>2 DEF Typed, TypeOK, InformerTypeOK, Stored, Object
  <2> QED
    BY <1>1, <1>2, <2>1, <2>2, <2>3, WriteTracked
<1> QED
  BY <1>3, <1>4 DEF CallDelete, BuildConfig, CallGetConfig, CallPutConfig, UpdateStatus

\* Users write to the API server.
LEMMA EditTracked ==
    ASSUME Tracked, Typed, NEW k \in Keys, NEW s \in Specs,
           CreateConnector(k, s) \/ EditConnector(k, s) \/ DeleteConnector(k)
    PROVE  Tracked'
<1>1. UNCHANGED <<cache, notes, dirty, seen, key, pc>>
  BY DEF CreateConnector, EditConnector, DeleteConnector, informerVars, queueVars,
     workerVars, historyVars
<1>2. PICK o \in Stored : /\ api' = [api EXCEPT ![k] = o]
                          /\ stream' = [stream EXCEPT ![k] = Append(stream[k], o)]
  <2>1. CASE DeleteConnector(k)
    BY <2>1 DEF DeleteConnector, Remove, Stored
  <2>2. CASE CreateConnector(k, s) \/ EditConnector(k, s)
    <3>1. PICK st \in Statuses : Store(k, s, st)
      BY <2>2 DEF CreateConnector, EditConnector, Typed, TypeOK, InformerTypeOK,
         Stored, Object, Statuses
    <3>2. [spec |-> s, status |-> st, rv |-> version[k] + 1] \in Stored
      BY DEF Typed, TypeOK, InformerTypeOK, Stored, Object
    <3> QED
      BY <3>1, <3>2 DEF Store
  <2> QED
    BY <2>1, <2>2
<1> QED
  BY <1>1, <1>2, WriteTracked

\* A new process starts with an empty indexer and a list of what exists.
LEMMA RestartTracked ==
    ASSUME Typed, Restart
    PROVE  Tracked'
<1>1. /\ cache' = [k \in Keys |-> Absent] /\ UNCHANGED api
      /\ stream' = [k \in Keys |-> IF api[k] = Absent THEN <<>> ELSE <<api[k]>>]
  BY DEF Restart, StartInformer
<1>2. \A k \in Keys : Noticed(k)'
  BY <1>1 DEF Noticed
<1>3. \A k \in Keys : Trails(k)'
  BY <1>1 DEF Trails
<1> QED
  BY <1>2, <1>3 DEF Tracked

\* One step keeps the inductive invariant.
LEMMA NextTracked ==
    ASSUME Tracked, Typed, [Next]_vars
    PROVE  Tracked'
<1>1. ASSUME NEW k \in Keys, NEW s \in Specs, CreateConnector(k, s) \/ EditConnector(k, s)
      PROVE  Tracked'
  BY <1>1, EditTracked
<1>2. ASSUME NEW k \in Keys, DeleteConnector(k)
      PROVE  Tracked'
  <2>1. api[k].spec \in Specs
    BY <1>2 DEF DeleteConnector, Typed, TypeOK, InformerTypeOK, Stored, Object
  <2> QED
    BY <1>2, <2>1, EditTracked
<1>3. ASSUME NEW s \in Specs, ChangeStore(s)
      PROVE  Tracked'
  BY <1>3, StutterTracked DEF ChangeStore, apiVars, informerVars, queueVars,
     workerVars, historyVars
<1>4. CASE BreakWatch \/ Restart
  BY <1>4, BreakWatchTracked, RestartTracked
<1>5. ASSUME NEW k \in Keys,
             \/ InformerDeliver(k) \/ InformerResync(k)
             \/ HandleNote(k) \/ BackoffExpires(k)
      PROVE  Tracked'
  BY <1>5, DeliverTracked, ResyncTracked, HandleNoteTracked, BackoffTracked
<1>6. ASSUME NEW w \in Workers, WorkerStep(w)
      PROVE  Tracked'
  BY <1>6, DequeueTracked, LookupTracked, CallsTracked, ConcludeTracked DEF WorkerStep
<1>7. CASE UNCHANGED vars
  BY <1>7, StutterTracked DEF vars, apiVars, informerVars, queueVars, workerVars, historyVars
<1> QED
  BY <1>1, <1>2, <1>3, <1>4, <1>5, <1>6, <1>7 DEF Next

LEMMA TrackedAlways == Spec => [](Typed /\ Exclusive /\ Tracked)
<1>1. Init => Tracked
  BY DEF Init, InformerInit, Tracked, Trails, Noticed
<1>2. Tracked /\ Typed /\ [Next]_vars => Tracked'
  BY NextTracked
<1> QED
  BY <1>1, <1>2, ExclusiveAlways, PTL DEF Spec

\* What the invariant says of a resource at rest.
LEMMA TrackedAtRest ==
    ASSUME Exclusive, Tracked, NEW k \in Keys, AtRest(k), api[k] # Absent
    PROVE  seen[k] = api[k]
<1>1. cache[k] = api[k]
  BY DEF Tracked, Trails, AtRest
<1>2. ~AboutToLookUp(k)
  BY DEF AboutToLookUp, Exclusive, Held, AtRest
<1> QED
  BY <1>1, <1>2 DEF Tracked, Noticed, AtRest

-----------------------------------------------------------------------------
(* What a process does to the API server, and what is done there meanwhile. *)

\* Versions only grow, and a resource that changes gets the latest one.
Served ==
    /\ api' \in [Keys -> Stored] /\ version' \in [Keys -> Nat]
    /\ \A k \in Keys :
         /\ version'[k] >= version[k]
         /\ api'[k] # api[k] =>
               api'[k] = Absent \/ (version'[k] > version[k] /\ api'[k].rv = version'[k])

\* Every change is streamed to the watcher.
Streamed ==
    stream' = [k \in Keys |-> IF api'[k] = api[k] THEN stream[k] ELSE Append(stream[k], api'[k])]

\* The version of o is one that was given out.
Given(k, o) == o # Absent => o.rv <= version[k]

KeyDated(k) ==
    /\ Given(k, api[k]) /\ Given(k, cache[k]) /\ Given(k, seen[k])
    /\ \A i \in 1..Len(stream[k]) : Given(k, stream[k][i])

\* The steps of a sync that follow the lookup.
PastLookup(w) == pc[w] \notin {"idle", "lookup"}

\* A worker's copy is what the latest lookup of its key returned, and what it
\* reports is one of three things.
CopyFresh(w) ==
    /\ PastLookup(w) => obj[w] = seen[key[w]]
    /\ pc[w] \in {"idle", "lookup", "remove"} => obj[w] = Absent
    /\ pc[w] = "report" => want[w] \in {"Applied", "Pending", "Failed"}

Fresh ==
    /\ \A k \in Keys : KeyDated(k)
    /\ \A w \in Workers : CopyFresh(w)

\* A resource has a version.
LEMMA Numbers ==
    ASSUME Typed, NEW k \in Keys
    PROVE  /\ version[k] \in Nat
           /\ \A o \in Stored : o # Absent => o.rv \in Nat
           /\ api[k] \in Stored /\ cache[k] \in Stored /\ seen[k] \in Stored
           /\ stream[k] \in Seq(Stored) /\ Len(stream[k]) \in Nat
           /\ \A i \in 1..Len(stream[k]) : stream[k][i] \in Stored
BY ElementOfSeq, LenProperties DEF Typed, TypeOK, InformerTypeOK, Stored, Object

\* A new version is a change that is streamed.
LEMMA StoreStreams ==
    ASSUME Typed, Fresh, NEW k \in Keys, NEW s \in Specs, NEW st \in Statuses, Store(k, s, st)
    PROVE  Served /\ Streamed /\ api'[k] # api[k] /\ api'[k] # Absent
<1> DEFINE o == [spec |-> s, status |-> st, rv |-> version[k] + 1]
<1>1. /\ version' = [version EXCEPT ![k] = version[k] + 1]
      /\ api' = [api EXCEPT ![k] = o] /\ stream' = [stream EXCEPT ![k] = Append(stream[k], o)]
  BY DEF Store
<1>2. o \in Object /\ o \in Stored /\ o # Absent /\ o.rv = version[k] + 1
  BY Numbers, AbsentIsNoObject DEF Object, Stored
<1>3. api[k] # o
  BY <1>2, Numbers DEF Fresh, KeyDated, Given
<1>4. /\ api \in [Keys -> Stored] /\ version \in [Keys -> Nat] /\ stream \in [Keys -> Seq(Stored)]
  BY DEF Typed, TypeOK, InformerTypeOK
<1> HIDE DEF o
<1>5. Served
  BY <1>1, <1>2, <1>4 DEF Served
<1>6. Streamed
  BY <1>1, <1>3, <1>4 DEF Streamed
<1> QED
  BY <1>1, <1>2, <1>3, <1>4, <1>5, <1>6

\* So is a deletion.
LEMMA RemoveStreams ==
    ASSUME Typed, NEW k \in Keys, api[k] # Absent, Remove(k)
    PROVE  Served /\ Streamed
<1>1. /\ api \in [Keys -> Stored] /\ version \in [Keys -> Nat] /\ stream \in [Keys -> Seq(Stored)]
      /\ Absent \in Stored
  BY DEF Typed, TypeOK, InformerTypeOK, Stored
<1>2. /\ version' = version /\ api' = [api EXCEPT ![k] = Absent]
      /\ stream' = [stream EXCEPT ![k] = Append(stream[k], Absent)]
  BY DEF Remove
<1>3. Served
  BY <1>1, <1>2 DEF Served
<1>4. Streamed
  BY <1>1, <1>2 DEF Streamed
<1> QED
  BY <1>3, <1>4

\* And where nothing is written, nothing is streamed.
LEMMA QuietStreams ==
    ASSUME Typed, UNCHANGED <<api, version>>
    PROVE  Served /\ (UNCHANGED stream => Streamed)
BY DEF Typed, TypeOK, InformerTypeOK, Served, Streamed

\* Whatever a process does, it writes to the API server like this, and its
\* own watch hears of it, unless it is the watch that moves.
LEMMA NextServes ==
    ASSUME Typed, Fresh, [Next]_vars
    PROVE  /\ Served
           /\ \/ Streamed
              \/ \E k \in Keys : InformerDeliver(k)
              \/ BreakWatch \/ Restart
<1>1. ASSUME NEW k \in Keys, NEW s \in Specs, CreateConnector(k, s) \/ EditConnector(k, s)
      PROVE  Served /\ Streamed
  <2>1. PICK st \in Statuses : Store(k, s, st)
    BY <1>1 DEF CreateConnector, EditConnector, Typed, TypeOK, InformerTypeOK,
       Stored, Object, Statuses
  <2> QED
    BY <2>1, StoreStreams
<1>2. ASSUME NEW k \in Keys, DeleteConnector(k)
      PROVE  Served /\ Streamed
  BY <1>2, RemoveStreams DEF DeleteConnector
<1>3. ASSUME NEW w \in Workers, UpdateStatus(w)
      PROVE  Served /\ Streamed
  <2>1. key[w] \in Keys /\ want[w] \in Statuses
    BY <1>3 DEF UpdateStatus, Typed, TypeOK, Holding
  <2>2. CASE UNCHANGED apiVars
    BY <2>2, QuietStreams DEF apiVars
  <2>3. CASE api[key[w]] # Absent /\ Store(key[w], api[key[w]].spec, want[w])
    <3>1. api[key[w]].spec \in Specs
      BY <2>1, <2>3 DEF Typed, TypeOK, InformerTypeOK, Stored, Object
    <3> QED
      BY <2>1, <2>3, <3>1, StoreStreams
  <2> QED
    BY <1>3, <2>2, <2>3 DEF UpdateStatus, WriteStatus
<1>4. CASE \/ \E w \in Workers :
                \/ Dequeue(w) \/ Lookup(w) \/ CallDelete(w) \/ BuildConfig(w)
                \/ CallGetConfig(w) \/ CallPutConfig(w) \/ Conclude(w)
           \/ \E s \in Specs : ChangeStore(s)
           \/ \E k \in Keys : InformerResync(k) \/ HandleNote(k) \/ BackoffExpires(k)
           \/ UNCHANGED vars
  <2>1. UNCHANGED <<api, version, stream>>
    BY <1>4 DEF Dequeue, Lookup, ListerGet, CallDelete, BuildConfig, CallGetConfig, CallPutConfig,
       Conclude, ChangeStore, InformerResync, Resync, HandleNote, BackoffExpires, apiVars, vars
  <2> QED
    BY <2>1, QuietStreams
<1>5. CASE (\E k \in Keys : InformerDeliver(k)) \/ BreakWatch \/ Restart
  <2>1. UNCHANGED <<api, version>>
    BY <1>5 DEF InformerDeliver, Deliver, BreakWatch, Relist, Restart, StartInformer
  <2> QED
    BY <1>5, <2>1, QuietStreams
<1> QED
  BY <1>1, <1>2, <1>3, <1>4, <1>5 DEF Next, WorkerStep

\* What was given out before stays so, and what is streamed is.
LEMMA ServedDated ==
    ASSUME Typed, Fresh, Served, Streamed, UNCHANGED <<cache, seen>>, NEW k \in Keys
    PROVE  KeyDated(k)'
<1>1. /\ version'[k] \in Nat /\ version[k] \in Nat /\ version'[k] >= version[k]
      /\ api'[k] # api[k] => api'[k] = Absent \/ api'[k].rv = version'[k]
      /\ stream'[k] = IF api'[k] = api[k] THEN stream[k] ELSE Append(stream[k], api'[k])
      /\ api'[k] \in Stored
  BY Numbers DEF Served, Streamed
<1>2. \A o \in Stored : Given(k, o) => Given(k, o)'
  BY <1>1, Numbers DEF Given
<1>3. Given(k, api[k])' /\ Given(k, cache[k])' /\ Given(k, seen[k])'
  BY <1>1, Numbers DEF Fresh, KeyDated, Given
<1>4. ASSUME NEW i \in 1..Len(stream'[k])
      PROVE  Given(k, stream[k][i])'
  <2>1. CASE api'[k] = api[k]
    BY <1>1, <1>2, <1>4, <2>1, Numbers DEF Fresh, KeyDated, Given
  <2>2. CASE api'[k] # api[k]
    <3>1. /\ Len(stream'[k]) = Len(stream[k]) + 1
          /\ \A j \in 1..Len(stream[k]) : stream'[k][j] = stream[k][j]
          /\ stream'[k][Len(stream[k]) + 1] = api'[k]
      BY <1>1, <2>2, Numbers, AppendProperties
    <3>2. CASE i = Len(stream[k]) + 1
      BY <1>3, <3>1, <3>2 DEF Given
    <3>3. CASE i \in 1..Len(stream[k])
      BY <1>1, <3>1, <3>3, Numbers DEF Fresh, KeyDated, Given
    <3> QED
      BY <1>4, <3>1, <3>2, <3>3, Numbers
  <2> QED
    BY <2>1, <2>2
<1> QED
  BY <1>3, <1>4 DEF KeyDated

LEMMA NextDated ==
    ASSUME Typed, Fresh, [Next]_vars, NEW k \in Keys
    PROVE  KeyDated(k)'
<1>1. CASE \E j \in Keys : InformerDeliver(j)
  <2>1. PICK j \in Keys : InformerDeliver(j)
    BY <1>1
  <2>2. /\ UNCHANGED <<api, version, seen>> /\ stream[j] # <<>> /\ stream[j] \in Seq(Stored)
        /\ stream' = [stream EXCEPT ![j] = Tail(stream[j])]
        /\ cache' = [cache EXCEPT ![j] = Head(stream[j])]
    BY <2>1 DEF InformerDeliver, Deliver, historyVars, Typed, TypeOK, InformerTypeOK
  <2>3. /\ Len(stream[j]) \in Nat /\ Len(stream[j]) > 0 /\ Head(stream[j]) = stream[j][1]
        /\ Len(Tail(stream[j])) = Len(stream[j]) - 1
        /\ \A i \in 1..Len(Tail(stream[j])) : Tail(stream[j])[i] = stream[j][i + 1]
    BY <2>2, HeadTailProperties, LenProperties, EmptySeq
  <2>4. \A i \in 1..Len(Tail(stream[j])) : i + 1 \in 1..Len(stream[j])
    BY <2>3
  <2>5. CASE k = j
    <3>1. stream'[k] = Tail(stream[k]) /\ cache'[k] = stream[k][1]
      BY <2>2, <2>3, <2>5 DEF Typed, TypeOK, InformerTypeOK
    <3>2. \A i \in 1..Len(stream[k]) : Given(k, stream[k][i])
      BY DEF Fresh, KeyDated
    <3>3. \A i \in 1..Len(stream'[k]) : Given(k, stream'[k][i])
      BY <2>3, <2>4, <2>5, <3>1, <3>2
    <3>4. 1 \in 1..Len(stream[k])
      BY <2>3, <2>5
    <3> QED
      BY <2>2, <3>1, <3>2, <3>3, <3>4 DEF Fresh, KeyDated, Given
  <2>6. CASE k # j
    BY <2>2, <2>6 DEF Fresh, KeyDated, Given, Typed, TypeOK, InformerTypeOK
  <2> QED
    BY <2>5, <2>6
<1>2. CASE BreakWatch
  BY <1>2 DEF BreakWatch, Relist, historyVars, Fresh, KeyDated, Given
<1>3. CASE Restart
  BY <1>3 DEF Restart, StartInformer, Fresh, KeyDated, Given
<1>4. CASE \E w \in Workers : Lookup(w)
  <2>1. PICK w \in Workers : Lookup(w)
    BY <1>4
  <2>2. /\ UNCHANGED <<api, version, stream, cache>>
        /\ seen'[k] = seen[k] \/ seen'[k] = cache[k]
    BY <2>1 DEF Lookup, ListerGet, apiVars, informerVars, Typed, TypeOK
  <2> QED
    BY <2>2 DEF Fresh, KeyDated, Given
<1>5. CASE Streamed /\ UNCHANGED <<cache, seen>>
  BY <1>5, NextServes, ServedDated
<1>6. \/ \E j \in Keys : InformerDeliver(j)
      \/ BreakWatch \/ Restart \/ \E w \in Workers : Lookup(w)
      \/ UNCHANGED <<cache, seen>>
  BY DEF Next, WorkerStep, CreateConnector, EditConnector, DeleteConnector, ChangeStore,
     InformerResync, Resync, HandleNote, BackoffExpires, Dequeue, CallDelete, BuildConfig,
     CallGetConfig, CallPutConfig, UpdateStatus, Conclude, informerVars, historyVars, vars
<1> QED
  BY <1>1, <1>2, <1>3, <1>4, <1>5, <1>6, NextServes

\* Only its worker looks a key up while it holds it.
LEMMA NextCopies ==
    ASSUME Typed, Exclusive, Fresh, [Next]_vars, NEW v \in Workers
    PROVE  CopyFresh(v)'
<1>1. ASSUME NEW w \in Workers, Lookup(w)
      PROVE  CopyFresh(v)'
  <2>1. /\ pc[w] = "lookup" /\ key' = key /\ want' = want
        /\ pc' = [pc EXCEPT ![w] = IF cache[key[w]] = Absent THEN "remove" ELSE "build"]
        /\ obj' = [obj EXCEPT ![w] = cache[key[w]]]
        /\ seen' = [seen EXCEPT ![key[w]] = cache[key[w]]]
    BY <1>1 DEF Lookup, ListerGet, Goto
  <2>2. key[w] \in Keys
    BY <2>1 DEF Typed, Holding
  <2>3. CASE v = w
    BY <2>1, <2>2, <2>3 DEF CopyFresh, PastLookup, Typed, TypeOK
  <2>4. CASE v # w
    <3>1. pc[v] # "idle" => key[v] # key[w] /\ key[v] \in Keys
      BY <2>1, <2>4 DEF Exclusive, OneWorkerPerKey, Typed, Holding
    <3> QED
      BY <2>1, <2>2, <2>4, <3>1 DEF Fresh, CopyFresh, PastLookup, Typed, TypeOK
  <2> QED
    BY <2>3, <2>4
<1>2. ASSUME NEW w \in Workers, Dequeue(w)
      PROVE  CopyFresh(v)'
  BY <1>2 DEF Dequeue, Goto, historyVars, Fresh, CopyFresh, PastLookup, Typed, TypeOK
<1>3. ASSUME NEW w \in Workers, Conclude(w)
      PROVE  CopyFresh(v)'
  BY <1>3 DEF Conclude, historyVars, Fresh, CopyFresh, PastLookup, Typed, TypeOK
<1>4. ASSUME NEW w \in Workers,
             \/ CallDelete(w) \/ BuildConfig(w) \/ CallGetConfig(w) \/ CallPutConfig(w)
             \/ UpdateStatus(w)
      PROVE  CopyFresh(v)'
  <2>1. /\ UNCHANGED <<key, obj, seen>> /\ PastLookup(w)
        /\ \/ /\ \E step \in {"get", "create", "replace", "finish", "requeue"} :
                    pc' = [pc EXCEPT ![w] = step]
              /\ UNCHANGED want
           \/ /\ pc' = [pc EXCEPT ![w] = "report"]
              /\ \E st \in {"Applied", "Pending", "Failed"} : want' = [want EXCEPT ![w] = st]
    BY <1>4 DEF CallDelete, BuildConfig, ReportInvalid, CallGetConfig, CallPutConfig,
       UpdateStatus, Report, Goto, PastLookup, historyVars
  <2> QED
    BY <2>1 DEF Fresh, CopyFresh, PastLookup, Typed, TypeOK
<1>5. CASE Restart
  BY <1>5 DEF Restart, CopyFresh, PastLookup
<1>6. CASE UNCHANGED <<pc, key, obj, want, seen>>
  BY <1>6 DEF Fresh, CopyFresh, PastLookup
<1> QED
  BY <1>1, <1>2, <1>3, <1>4, <1>5, <1>6 DEF Next, WorkerStep, CreateConnector, EditConnector,
     DeleteConnector, ChangeStore, BreakWatch, InformerDeliver, InformerResync, HandleNote,
     BackoffExpires, workerVars, historyVars, vars

LEMMA FreshAlways == Spec => [](Typed /\ Exclusive /\ Tracked /\ Fresh)
<1>1. Init => Fresh
  BY DEF Init, InformerInit, Fresh, KeyDated, Given, CopyFresh, PastLookup
<1>2. Typed /\ Exclusive /\ Fresh /\ [Next]_vars => Fresh'
  BY NextDated, NextCopies DEF Fresh
<1> QED
  BY <1>1, <1>2, TrackedAlways, PTL DEF Spec

-----------------------------------------------------------------------------
(* Resources that are gone, and that nothing leads to any more. *)

Calm(k) == cache[k] = Absent /\ stream[k] = <<>> /\ ~Traced(k)

\* A worker that holds k has a copy of it.
HoldsCopy(k) == \E w \in Workers : key[w] = k /\ obj[w] # Absent

\* The steps of a worker at which it is known to come back to its key.
Leads(w) == pc[w] \in {"lookup", "remove", "requeue"}

\* A step that changes no notification, and no worker but one that does not lead.
LEMMA StillTraced ==
    ASSUME NEW k \in Keys, Traced(k), notes'[k] = notes[k],
           k \in dirty \union delayed => k \in dirty' \union delayed',
           \A v \in Workers : key[v] = k /\ Leads(v) => key'[v] = k /\ Leads(v)'
    PROVE  Traced(k)'
BY DEF Traced, Wakes, Tombstoned, Leads

\* When a handler takes the first notification, a tombstone further back stays.
LEMMA TakenTombstone ==
    ASSUME Typed, NEW k \in Keys, notes[k] # <<>>, notes'[k] = Tail(notes[k]), Tombstoned(k)
    PROVE  Head(notes[k]).type = "tombstone" \/ Tombstoned(k)'
<1>1. notes[k] \in Seq(Note)
  BY DEF Typed, TypeOK, InformerTypeOK
<1>2. /\ Len(notes[k]) \in Nat
      /\ Head(notes[k]) = notes[k][1]
      /\ Len(notes'[k]) = Len(notes[k]) - 1
      /\ \A i \in 1..Len(notes'[k]) : notes'[k][i] = notes[k][i + 1]
  BY <1>1, HeadTailProperties, LenProperties
<1>3. PICK i \in 1..Len(notes[k]) : notes[k][i].type = "tombstone"
  BY DEF Tombstoned
<1>4. CASE i = 1
  BY <1>2, <1>3, <1>4
<1>5. CASE i # 1
  <2>1. i - 1 \in 1..Len(notes'[k]) /\ notes'[k][i - 1] = notes[k][i]
    BY <1>2, <1>5
  <2> QED
    BY <1>3, <2>1 DEF Tombstoned
<1> QED
  BY <1>4, <1>5

\* A deletion that the indexer learns of leads to its key, be it one of a
\* resource that the indexer never knew.
LEMMA DeliverCalms ==
    ASSUME Typed, NEW k \in Keys, NEW j \in Keys, InformerDeliver(j), Calm(k)'
    PROVE  Calm(k)
<1> DEFINE n == NoteFor(cache[k], Absent)
<1>1. /\ stream[j] # <<>> /\ stream \in [Keys -> Seq(Stored)] /\ cache \in [Keys -> Stored]
      /\ notes \in [Keys -> Seq(Note)] /\ Absent \in Stored
      /\ stream' = [stream EXCEPT ![j] = Tail(stream[j])]
      /\ cache' = [cache EXCEPT ![j] = Head(stream[j])]
      /\ notes' = [notes EXCEPT ![j] = Append(notes[j], NoteFor(cache[j], Head(stream[j])))]
      /\ UNCHANGED <<dirty, delayed, pc, key>>
  BY DEF InformerDeliver, Deliver, queueVars, workerVars, Typed, TypeOK, InformerTypeOK, Stored
<1>2. CASE j = k
  <2>1. notes'[k] = Append(notes[k], n)
    BY <1>1, <1>2 DEF Calm
  <2>2. n \in Note /\ Enqueues(n)
    BY <1>1, NoteTyped DEF NoteFor, Enqueues
  <2> HIDE DEF n
  <2>3. Wakes(k)'
    BY <2>1, <2>2, AppendedWakes
  <2> QED
    BY <2>3 DEF Calm, Traced
<1>3. CASE j # k
  BY <1>1, <1>3, StillTraced DEF Calm, Leads
<1> QED
  BY <1>2, <1>3

\* What a handler takes it queues, except for a tombstone.
LEMMA HandleNoteCalms ==
    ASSUME Typed, NEW k \in Keys, NEW j \in Keys, HandleNote(j), Calm(k)'
    PROVE  Calm(k) \/ (j = k /\ Head(notes[k]).type = "tombstone")
<1>1. /\ notes[j] # <<>> /\ notes \in [Keys -> Seq(Note)]
      /\ notes' = [notes EXCEPT ![j] = Tail(notes[j])]
      /\ UNCHANGED <<stream, cache, delayed, pc, key>>
      /\ dirty \subseteq dirty'
      /\ Enqueues(Head(notes[j])) => j \in dirty'
  BY DEF HandleNote, Add, Enqueue, apiVars, queueVars, workerVars, Typed, TypeOK, InformerTypeOK
<1>2. CASE j = k
  <2>1. notes'[k] = Tail(notes[k]) /\ notes[k] # <<>>
    BY <1>1, <1>2
  <2>2. Wakes(k) => k \in dirty' \/ Wakes(k)'
    BY <1>1, <1>2, <2>1, TakenWakes
  <2>3. Tombstoned(k) => Head(notes[k]).type = "tombstone" \/ Tombstoned(k)'
    BY <2>1, TakenTombstone
  <2> QED
    BY <1>1, <1>2, <2>2, <2>3 DEF Calm, Traced
<1>3. CASE j # k
  BY <1>1, <1>3, StillTraced DEF Calm, Leads
<1> QED
  BY <1>2, <1>3

\* A worker leaves a key that is not calm to a call of Delete, if to nothing else.
LEMMA WorkerCalms ==
    ASSUME Typed, NEW k \in Keys, NEW w \in Workers, WorkerStep(w), Calm(k)'
    PROVE  Calm(k) \/ (CallDelete(w) /\ key[w] = k)
<1>1. CASE Dequeue(w)
  <2>1. /\ pc[w] = "idle" /\ pc' = [pc EXCEPT ![w] = "lookup"]
        /\ key' = [key EXCEPT ![w] = Head(queue)] /\ dirty' = dirty \ {Head(queue)}
        /\ UNCHANGED <<stream, cache, notes, delayed>>
    BY <1>1 DEF Dequeue, Take, Goto, apiVars, informerVars
  <2>2. k \in dirty => k \in dirty' \/ (key'[w] = k /\ pc'[w] = "lookup")
    BY <2>1 DEF Typed, TypeOK
  <2>3. k \in dirty => k \in dirty'
    BY <2>2 DEF Calm, Traced
  <2> QED
    BY <2>1, <2>3, StillTraced DEF Calm, Leads, Typed, TypeOK
<1>2. CASE Lookup(w)
  <2>1. /\ pc' = [pc EXCEPT ![w] = IF cache[key[w]] = Absent THEN "remove" ELSE "build"]
        /\ UNCHANGED <<stream, cache, notes, dirty, delayed, key>>
    BY <1>2 DEF Lookup, ListerGet, Goto, apiVars, informerVars, queueVars
  <2>2. key[w] # k
    BY <2>1 DEF Calm, Traced, Typed, TypeOK
  <2> QED
    BY <2>1, <2>2, StillTraced DEF Calm, Leads, Typed, TypeOK
<1>3. CASE CallDelete(w) /\ key[w] # k
  <2>1. /\ pc' = [pc EXCEPT ![w] = "finish"]
        /\ UNCHANGED <<stream, cache, notes, dirty, delayed, key>>
    BY <1>3 DEF CallDelete, Goto, apiVars, informerVars, queueVars
  <2> QED
    BY <1>3, <2>1, StillTraced DEF Calm, Leads, Typed, TypeOK
<1>4. CASE BuildConfig(w) \/ CallGetConfig(w) \/ CallPutConfig(w) \/ UpdateStatus(w)
  <2>1. /\ ~Leads(w) /\ \E step : pc' = [pc EXCEPT ![w] = step]
        /\ UNCHANGED <<cache, notes, dirty, delayed, key>>
    BY <1>4 DEF BuildConfig, ReportInvalid, CallGetConfig, CallPutConfig, UpdateStatus, Report,
       Goto, Leads, informerVars, queueVars
  <2>2. stream'[k] = <<>> => stream[k] = <<>>
    <3>1. CASE UNCHANGED apiVars
      BY <3>1 DEF apiVars
    <3>2. CASE UpdateStatus(w) /\ ~UNCHANGED apiVars
      <4>1. api[key[w]] \in Object /\ api[key[w]] # Absent /\ key[w] \in Keys /\ want[w] \in Statuses
        BY <3>2 DEF UpdateStatus, WriteStatus, Typed, TypeOK, InformerTypeOK, Holding, Stored
      <4>2. PICK o : o = [spec |-> api[key[w]].spec, status |-> want[w], rv |-> version[key[w]] + 1]
        OBVIOUS
      <4>3. o \in Stored
        BY <4>1, <4>2 DEF Object, Stored, Typed, TypeOK, InformerTypeOK
      <4>4. stream' = [stream EXCEPT ![key[w]] = Append(stream[key[w]], o)]
        BY <3>2, <4>2 DEF UpdateStatus, WriteStatus, Store
      <4>5. stream \in [Keys -> Seq(Stored)]
        BY DEF Typed, TypeOK, InformerTypeOK
      <4>6. Append(stream[key[w]], o) # <<>>
        BY <4>1, <4>3, <4>5, LastOfAppend
      <4> QED
        BY <4>4, <4>5, <4>6
    <3> QED
      BY <1>4, <3>1, <3>2 DEF BuildConfig, CallGetConfig, CallPutConfig
  <2> QED
    BY <2>1, <2>2, StillTraced DEF Calm, Leads, Typed, TypeOK
<1>5. CASE Conclude(w)
  <2>1. /\ pc[w] \in {"requeue", "finish"}
        /\ delayed' = IF pc[w] = "requeue" THEN delayed \union {key[w]} ELSE delayed
        /\ \A v \in Workers \ {w} : pc'[v] = pc[v] /\ key'[v] = key[v]
        /\ UNCHANGED <<stream, cache, notes, dirty>>
    BY <1>5 DEF Conclude, Requeue, AddRateLimited, Done, apiVars, informerVars, Typed, TypeOK
  <2>2. ~(pc[w] = "requeue" /\ key[w] = k)
    BY <2>1 DEF Calm, Traced
  <2> QED
    BY <2>1, <2>2, StillTraced DEF Calm, Leads
<1> QED
  BY <1>1, <1>2, <1>3, <1>4, <1>5 DEF WorkerStep

\* What users do leads to a key, and so does a back-off that expires.
LEMMA AroundCalms ==
    ASSUME Typed, NEW k \in Keys, Calm(k)',
           \/ \E j \in Keys, s \in Specs : CreateConnector(j, s) \/ EditConnector(j, s)
           \/ \E j \in Keys : DeleteConnector(j) \/ InformerResync(j) \/ BackoffExpires(j)
           \/ \E s \in Specs : ChangeStore(s)
           \/ UNCHANGED vars
    PROVE  Calm(k)
<1>1. ASSUME NEW j \in Keys, NEW s \in Specs,
             CreateConnector(j, s) \/ EditConnector(j, s) \/ DeleteConnector(j)
      PROVE  Calm(k)
  <2>1. UNCHANGED <<cache, notes, dirty, delayed, pc, key>>
    BY <1>1 DEF CreateConnector, EditConnector, DeleteConnector, informerVars, queueVars, workerVars
  <2>2. PICK o \in Stored : stream' = [stream EXCEPT ![j] = Append(stream[j], o)]
    <3>1. api[j] # Absent => api[j].status \in Statuses
      BY DEF Typed, TypeOK, InformerTypeOK, Stored, Object
    <3>2. ASSUME NEW st \in Statuses
          PROVE  [spec |-> s, status |-> st, rv |-> version[j] + 1] \in Stored
      BY DEF Object, Stored, Typed, TypeOK, InformerTypeOK
    <3>3. "None" \in Statuses /\ Absent \in Stored
      BY DEF Statuses, Stored
    <3> QED
      BY <1>1, <3>1, <3>2, <3>3 DEF CreateConnector, EditConnector, DeleteConnector, Store, Remove
  <2>3. stream'[k] = <<>> => stream[k] = <<>>
    <3>1. stream \in [Keys -> Seq(Stored)]
      BY DEF Typed, TypeOK, InformerTypeOK
    <3>2. Append(stream[j], o) # <<>>
      BY <2>2, <3>1, LastOfAppend
    <3> QED
      BY <2>2, <3>1, <3>2
  <2> QED
    BY <2>1, <2>3, StillTraced DEF Calm, Leads
<1>2. ASSUME NEW j \in Keys, DeleteConnector(j)
      PROVE  Calm(k)
  <2>1. api[j].spec \in Specs
    BY <1>2 DEF DeleteConnector, Typed, TypeOK, InformerTypeOK, Stored, Object
  <2> QED
    BY <1>1, <1>2, <2>1
<1>3. ASSUME NEW j \in Keys, InformerResync(j)
      PROVE  Calm(k)
  <2>1. /\ cache[j] # Absent /\ \A i \in Keys \ {j} : notes'[i] = notes[i]
        /\ UNCHANGED <<stream, cache, dirty, delayed, pc, key>>
    BY <1>3 DEF InformerResync, Resync, apiVars, queueVars, workerVars, Typed, TypeOK, InformerTypeOK
  <2> QED
    BY <2>1, StillTraced DEF Calm, Leads
<1>4. ASSUME NEW j \in Keys, BackoffExpires(j)
      PROVE  Calm(k)
  <2>1. /\ dirty' = dirty \union {j} /\ delayed' = delayed \ {j}
        /\ UNCHANGED <<stream, cache, notes, pc, key>>
    BY <1>4 DEF BackoffExpires, Expire, Enqueue, apiVars, informerVars, workerVars
  <2> QED
    BY <2>1, StillTraced DEF Calm, Leads
<1>5. CASE (\E s \in Specs : ChangeStore(s)) \/ UNCHANGED vars
  <2>1. UNCHANGED <<stream, cache, notes, dirty, delayed, pc, key>>
    BY <1>5 DEF ChangeStore, apiVars, informerVars, queueVars, workerVars, vars
  <2> QED
    BY <2>1, StillTraced DEF Calm, Leads
<1> QED
  BY <1>1, <1>2, <1>3, <1>4, <1>5

\* Once a key is calm, no worker comes by a copy of it.
LEMMA NoNewCopy ==
    ASSUME Typed, Exclusive, Fresh, [Next]_vars, NEW k \in Keys,
           \/ Calm(k) /\ ~HoldsCopy(k)
           \/ \E w \in Workers : CallDelete(w) /\ key[w] = k
    PROVE  ~HoldsCopy(k)'
<1>1. ASSUME NEW w \in Workers, CallDelete(w), key[w] = k
      PROVE  ~HoldsCopy(k)'
  <2>1. pc[w] = "remove" /\ UNCHANGED <<key, obj>>
    BY <1>1 DEF CallDelete
  <2>2. ASSUME NEW v \in Workers, key[v] = k
        PROVE  obj[v] = Absent
    BY <1>1, <2>1, <2>2 DEF Exclusive, OneWorkerPerKey, Fresh, CopyFresh
  <2> QED
    BY <2>1, <2>2 DEF HoldsCopy
<1>2. CASE Calm(k) /\ ~HoldsCopy(k)
  <2>1. ASSUME NEW w \in Workers, Lookup(w)
        PROVE  ~HoldsCopy(k)'
    <3>1. key[w] # k /\ key' = key /\ \A v \in Workers \ {w} : obj'[v] = obj[v]
      BY <1>2, <2>1 DEF Lookup, ListerGet, Calm, Traced, Typed, TypeOK
    <3> QED
      BY <1>2, <3>1 DEF HoldsCopy
  <2>2. ASSUME NEW w \in Workers, Dequeue(w)
        PROVE  ~HoldsCopy(k)'
    <3>1. obj[w] = Absent /\ obj' = obj /\ \A v \in Workers \ {w} : key'[v] = key[v]
      BY <2>2 DEF Dequeue, Fresh, CopyFresh, Typed, TypeOK
    <3> QED
      BY <1>2, <3>1 DEF HoldsCopy
  <2>3. ASSUME NEW w \in Workers, Conclude(w)
        PROVE  ~HoldsCopy(k)'
    <3>1. obj'[w] = Absent /\ \A v \in Workers \ {w} : key'[v] = key[v] /\ obj'[v] = obj[v]
      BY <2>3 DEF Conclude, Typed, TypeOK
    <3> QED
      BY <1>2, <3>1 DEF HoldsCopy
  <2>4. CASE Restart
    BY <2>4 DEF Restart, HoldsCopy
  <2>5. CASE UNCHANGED <<key, obj>>
    BY <1>2, <2>5 DEF HoldsCopy
  <2> QED
    BY <2>1, <2>2, <2>3, <2>4, <2>5 DEF Next, WorkerStep, CreateConnector, EditConnector,
       DeleteConnector, ChangeStore, BreakWatch, InformerDeliver, InformerResync, HandleNote,
       BackoffExpires, CallDelete, BuildConfig, CallGetConfig, CallPutConfig, UpdateStatus,
       workerVars, vars
<1> QED
  BY <1>1, <1>2

-----------------------------------------------------------------------------
(* Resources whose present version a sync has looked up and dealt with. *)

\* No worker is going to look at k, unless a notification wakes it.
Unattended(k) == k \notin dirty \union processing \union delayed

\* A sync that is over, or has only to report that it applied the config.
Ending(w) == pc[w] = "finish" \/ (pc[w] = "report" /\ want[w] = "Applied")

Concluded(k) ==
    /\ api[k] # Absent /\ seen[k] = api[k]
    /\ Unattended(k) \/ \E w \in Workers : key[w] = k /\ Ending(w)

\* The calls of a worker at which a sync comes to its end.
Concludes(w) ==
    \/ CallGetConfig(w) /\ pc'[w] = "finish"
    \/ CallPutConfig(w) /\ Ending(w)'
    \/ UpdateStatus(w)

\* The calls of a worker that Connect or the users see something of.
Speaks(w) == CallDelete(w) \/ CallPutConfig(w) \/ CallGetConfig(w) \/ UpdateStatus(w)

\* A worker that holds k is the only one, and the queue knows of it.
LEMMA SoleHolder ==
    ASSUME Typed, Exclusive, NEW w \in Workers, pc[w] # "idle"
    PROVE  /\ key[w] \in Keys /\ ~Unattended(key[w])
           /\ \A v \in Workers \ {w} : pc[v] # "idle" => key[v] # key[w]
BY DEF Typed, Holding, Exclusive, Held, OneWorkerPerKey, Unattended

\* What is concluded after a worker's step was so before, or the worker has
\* just brought it to an end.
LEMMA WorkerConcludes ==
    ASSUME Typed, Exclusive, Fresh, NEW w \in Workers, WorkerStep(w),
           NEW k \in Keys, Concluded(k)'
    PROVE  /\ seen'[k] = seen[k]
           /\ \/ key[w] = k /\ Concludes(w)
              \/ /\ Concluded(k)' /\ (api'[k] = api[k] => Concluded(k))
                 /\ key[w] = k => ~Speaks(w)
<1>1. CASE Dequeue(w)
  <2>1. /\ pc[w] = "idle" /\ pc' = [pc EXCEPT ![w] = "lookup"]
        /\ \A v \in Workers \ {w} : key'[v] = key[v]
        /\ dirty' \union processing' = dirty \union processing \union {Head(queue)}
        /\ UNCHANGED <<delayed, want, seen, api>>
    BY <1>1 DEF Dequeue, Take, Goto, apiVars, historyVars, Typed, TypeOK
  <2>2. ~Speaks(w)
    BY <2>1 DEF Speaks, CallDelete, CallPutConfig, CallGetConfig, UpdateStatus
  <2>3. Concluded(k)
    BY <2>1 DEF Concluded, Unattended, Ending, Typed, TypeOK
  <2> QED
    BY <2>1, <2>2, <2>3
<1>2. CASE ~Dequeue(w) /\ key[w] = k
  <2>1. pc[w] # "idle"
    BY <1>2 DEF WorkerStep, Lookup, CallDelete, BuildConfig, CallGetConfig, CallPutConfig,
       UpdateStatus, Conclude
  <2>2. /\ k \in processing
        /\ \A v \in Workers \ {w} : pc[v] # "idle" => key[v] # k
    BY <1>2, <2>1, SoleHolder DEF Exclusive, Held
  <2>3. CASE Conclude(w)
    <3>1. /\ pc[w] \in {"requeue", "finish"} /\ UNCHANGED <<api, seen>>
          /\ delayed' = IF pc[w] = "requeue" THEN delayed \union {k} ELSE delayed
          /\ \A v \in Workers \ {w} : pc'[v] = pc[v] /\ key'[v] = key[v]
          /\ pc'[w] = "idle"
      BY <1>2, <2>3 DEF Conclude, Requeue, AddRateLimited, apiVars, historyVars, Typed, TypeOK
    <3>2. ~Speaks(w)
      BY <3>1 DEF Speaks, CallDelete, CallPutConfig, CallGetConfig, UpdateStatus
    <3>3. pc[w] = "finish"
      BY <2>2, <3>1 DEF Concluded, Unattended, Ending
    <3>4. Concluded(k)
      BY <1>2, <3>1, <3>3 DEF Concluded, Ending
    <3> QED
      BY <3>1, <3>2, <3>4
  <2>4. CASE ~Conclude(w)
    <3>1. /\ UNCHANGED <<queueVars, key>>
          /\ \A v \in Workers \ {w} : pc'[v] = pc[v]
      BY <1>2, <2>4 DEF WorkerStep, Lookup, CallDelete, BuildConfig, ReportInvalid,
         CallGetConfig, CallPutConfig, UpdateStatus, Report, Goto, Typed, TypeOK
    <3>2. Ending(w)'
      BY <2>2, <3>1 DEF Concluded, Unattended, Ending, queueVars
    <3>3. ~Lookup(w) /\ ~BuildConfig(w)
      BY <3>2 DEF Ending, Lookup, BuildConfig, ReportInvalid, Report, Goto, Typed, TypeOK
    <3>4. UNCHANGED seen
      BY <1>2, <2>4, <3>3 DEF WorkerStep, CallDelete, CallGetConfig, CallPutConfig,
         UpdateStatus, historyVars
    <3>5. ~CallDelete(w)
      BY <1>2, <3>4 DEF CallDelete, Fresh, CopyFresh, PastLookup, Concluded, apiVars
    <3>6. CallGetConfig(w) => pc'[w] = "finish"
      BY <3>2 DEF CallGetConfig, Report, Goto, Ending, Typed, TypeOK
    <3> QED
      BY <1>2, <2>4, <3>2, <3>3, <3>4, <3>5, <3>6 DEF WorkerStep, Concludes
  <2> QED
    BY <2>3, <2>4
<1>3. CASE ~Dequeue(w) /\ key[w] # k
  <2>1. /\ pc[w] # "idle" /\ \A v \in Workers \ {w} : pc'[v] = pc[v] /\ key'[v] = key[v] /\ want'[v] = want[v]
        /\ key'[w] \in {key[w], Absent}
        /\ seen'[k] = seen[k]
        /\ dirty' = dirty /\ processing \ {key[w]} \subseteq processing' /\ delayed \subseteq delayed'
    BY <1>3 DEF WorkerStep, Lookup, CallDelete, BuildConfig, ReportInvalid, CallGetConfig,
       CallPutConfig, UpdateStatus, Conclude, Requeue, AddRateLimited, Done, Report, Goto,
       queueVars, historyVars, Typed, TypeOK
  <2>2. key'[w] # k
    BY <1>3, <2>1, AbsentIsNoKey
  <2>3. api'[k] = api[k] => Concluded(k)
    BY <1>3, <2>1, <2>2 DEF Concluded, Unattended, Ending
  <2> QED
    BY <1>3, <2>1, <2>3
<1> QED
  BY <1>1, <1>2, <1>3

LEMMA NextConcludes ==
    ASSUME Typed, Exclusive, Fresh, [Next]_vars, NEW k \in Keys, Concluded(k)'
    PROVE  /\ api'[k] = api[k] /\ seen'[k] = seen[k]
           /\ \/ \E w \in Workers : key[w] = k /\ Concludes(w)
              \/ Concluded(k) /\ \A w \in Workers : key[w] = k /\ WorkerStep(w) => ~Speaks(w)
<1>1. ASSUME seen'[k] = seen[k]
      PROVE  api'[k] = api[k]
  <2>1. Given(k, seen[k]) /\ seen[k] = api'[k] /\ api'[k] # Absent
    BY <1>1 DEF Fresh, KeyDated, Concluded
  <2>2. version'[k] \in Nat /\ version[k] \in Nat /\ api'[k].rv \in Nat
    BY <2>1, NextServes, Numbers DEF Served
  <2> QED
    BY <2>1, <2>2, NextServes DEF Served, Given
<1>2. ASSUME NEW w \in Workers, WorkerStep(w)
      PROVE  /\ seen'[k] = seen[k]
             /\ \/ key[w] = k /\ Concludes(w)
                \/ (api'[k] = api[k] => Concluded(k)) /\ (key[w] = k => ~Speaks(w))
  BY <1>2, WorkerConcludes
<1>3. CASE Restart
  BY <1>3 DEF Restart, Concluded
<1>4. CASE ~Restart /\ \A w \in Workers : ~WorkerStep(w)
  <2>1. /\ UNCHANGED <<pc, key, want, seen>>
        /\ dirty \union processing \union delayed \subseteq dirty' \union processing' \union delayed'
    BY <1>4 DEF Next, CreateConnector, EditConnector, DeleteConnector, ChangeStore, BreakWatch,
       InformerDeliver, InformerResync, HandleNote, BackoffExpires, Expire, Add, Enqueue,
       workerVars, queueVars, historyVars, vars
  <2>2. api'[k] = api[k] => Concluded(k)
    BY <2>1 DEF Concluded, Unattended, Ending
  <2> QED
    BY <1>1, <1>4, <2>1, <2>2
<1> QED
  BY <1>1, <1>2, <1>3, <1>4

\* At the end of a sync the copy at hand is the present version.
LEMMA Concluding ==
    ASSUME Typed, Exclusive, Fresh, [Next]_vars, NEW w \in Workers, Concludes(w),
           NEW k \in Keys, key[w] = k, Concluded(k)'
    PROVE  /\ NameOf(k) \in Names /\ pc[w] # "idle"
           /\ obj[w] = api[k] /\ seen[k] = api[k] /\ api'[k] = api[k]
           /\ api[k] # Absent /\ obj[w] \in Object
<1>1. pc[w] \notin {"idle", "lookup"} /\ HoldsObject(w)
  BY DEF Concludes, CallGetConfig, CallPutConfig, UpdateStatus, HoldsObject
<1>2. NameOf(k) \in Names /\ obj[w] \in Object
  BY <1>1 DEF Typed, Holding, NameOf, Keys
<1>3. api'[k] = api[k] /\ seen'[k] = seen[k]
  BY NextConcludes
<1> QED
  BY <1>1, <1>2, <1>3 DEF Concluded, Fresh, CopyFresh, PastLookup

\* A PUT that is followed by neither a report of failure nor a retry has
\* gone through.
LEMMA PutThrough ==
    ASSUME Typed, NEW w \in Workers, CallPutConfig(w), Ending(w)'
    PROVE  connect' = [connect EXCEPT ![NameOf(key[w])] = obj[w].spec]
BY DEF CallPutConfig, Report, Goto, Ending, Typed, TypeOK

-----------------------------------------------------------------------------
(* Names, which is all that Connect knows of a resource. *)

\* syncHandler hands the name alone to Connect, so the namespaces matter.
OwnNames == \A j, k \in Keys : NameOf(j) = NameOf(k) => j = k

\* A worker that holds a key is the only one to act on it, and on its name.
LEMMA Alone ==
    ASSUME OwnNames, Typed, Exclusive, NEW w \in Workers, pc[w] # "idle"
    PROVE  /\ key[w] \in Keys /\ ~Unattended(key[w])
           /\ \A v \in Workers \ {w} :
                 pc[v] # "idle" => /\ key[v] \in Keys
                                   /\ key[v] # key[w]
                                   /\ NameOf(key[v]) # NameOf(key[w])
           /\ \A k \in Keys \ {key[w]} : NameOf(k) # NameOf(key[w])
BY DEF OwnNames, Typed, Holding, Exclusive, Held, OneWorkerPerKey, Unattended

\* Only Connect's entry of that name changes.
LEMMA OtherNames ==
    ASSUME OwnNames, Typed, Exclusive, NEW w \in Workers, pc[w] # "idle", NEW c,
           connect' = connect \/ connect' = [connect EXCEPT ![NameOf(key[w])] = c]
    PROVE  \A k \in Keys \ {key[w]} : connect'[NameOf(k)] = connect[NameOf(k)]
<1>1. \A k \in Keys : NameOf(k) \in Names
  BY DEF NameOf, Keys
<1> QED
  BY <1>1, Alone DEF Typed, TypeOK

\* Connect's entry of a key changes in the calls of its worker only.
LEMMA Unspoken ==
    ASSUME OwnNames, Typed, Exclusive, [Next]_vars, NEW k \in Keys,
           \A w \in Workers : key[w] = k /\ WorkerStep(w) => ~Speaks(w)
    PROVE  connect'[NameOf(k)] = connect[NameOf(k)]
<1>1. ASSUME NEW w \in Workers, CallDelete(w) \/ CallPutConfig(w)
      PROVE  connect'[NameOf(k)] = connect[NameOf(k)]
  <2>1. key[w] # k /\ pc[w] # "idle"
    BY <1>1 DEF WorkerStep, Speaks, CallDelete, CallPutConfig
  <2>2. \E c : connect' = connect \/ connect' = [connect EXCEPT ![NameOf(key[w])] = c]
    BY <1>1 DEF CallDelete, CallPutConfig
  <2> QED
    BY <2>1, <2>2, OtherNames
<1> QED
  BY <1>1 DEF Next, WorkerStep, CreateConnector, EditConnector, DeleteConnector, ChangeStore,
     BreakWatch, Restart, InformerDeliver, InformerResync, HandleNote, BackoffExpires,
     Dequeue, Lookup, ListerGet, BuildConfig, CallGetConfig, UpdateStatus, Conclude,
     outsideVars, vars

\* A key that is calm, and of which no worker has a copy, is not spoken of.
LEMMA CalmUnspoken ==
    ASSUME OwnNames, Typed, Exclusive, [Next]_vars, NEW k \in Keys, Calm(k), ~HoldsCopy(k)
    PROVE  connect'[NameOf(k)] = connect[NameOf(k)]
<1>1. ASSUME NEW w \in Workers, key[w] = k, Speaks(w)
      PROVE  FALSE
  <2>1. pc[w] = "remove" \/ obj[w] # Absent
    BY <1>1, AbsentIsNoObject DEF Speaks, CallDelete, CallGetConfig, CallPutConfig, UpdateStatus,
       Typed, Holding, HoldsObject
  <2> QED
    BY <1>1, <2>1 DEF HoldsCopy, Calm, Traced
<1> QED
  BY <1>1, Unspoken

-----------------------------------------------------------------------------
(* A process beside another one, as Rollout has them. *)

Sound == Typed /\ Exclusive /\ Tracked /\ Fresh

\* What a process that has started does by itself.
Runs ==
    \/ \E k \in Keys : InformerDeliver(k) \/ HandleNote(k) \/ BackoffExpires(k)
    \/ \E w \in Workers : WorkerStep(w)

UsersAct ==
    \E k \in Keys :
        DeleteConnector(k) \/ \E s \in Specs : CreateConnector(k, s) \/ EditConnector(k, s)

\* The watch breaks, or the process crashes, and it lists again.
Lists == BreakWatch \/ Restart

Acts == Runs \/ UsersAct \/ Lists

\* What it does without missing a deletion of k.
Heeds(k) == Runs \/ UsersAct \/ (Lists /\ (api[k] # Absent \/ AtRest(k)))

\* What another process does, of which this one hears through its watch.
Watches == Served /\ Streamed /\ UNCHANGED <<queueVars, informerVars, workerVars, seen>>

\* The types of what no process has to itself.
OutsideTyped ==
    /\ connect \in [Names -> Specs \union {Absent}] /\ dangling \subseteq Specs
    /\ event \in [Keys -> Events] /\ lastPut \in [Keys -> Nat]
    /\ edits \in Nat /\ disturbances \in Nat

\* A process that has not started.
Unborn ==
    /\ QueueInit
    /\ stream = [k \in Keys |-> <<>>] /\ cache = [k \in Keys |-> Absent]
    /\ notes = [k \in Keys |-> <<>>] /\ unsynced = {}
    /\ pc = [w \in Workers |-> "idle"] /\ key = [w \in Workers |-> Absent]
    /\ obj = [w \in Workers |-> Absent] /\ want = [w \in Workers |-> "None"]
    /\ seen = [k \in Keys |-> Absent]

LEMMA ActsNext == Acts => Next
BY DEF Acts, Runs, UsersAct, Lists, Next

LEMMA InitSound == Init => Sound
<1>1. Init => Fresh
  BY DEF Init, InformerInit, Fresh, KeyDated, Given, CopyFresh, PastLookup
<1>2. Init => Tracked
  BY DEF Init, InformerInit, Tracked, Trails, Noticed
<1>3. Init => Exclusive
  BY DEF Init, QueueInit, Exclusive, QueueSound, Held, OneWorkerPerKey
<1> QED
  BY <1>1, <1>2, <1>3, InitTyped DEF Sound

LEMMA NextSound ==
    ASSUME Sound, [Next]_vars
    PROVE  Sound'
<1>1. Typed'
  BY NextTyped DEF Sound
<1>2. Exclusive'
  BY NextExclusive DEF Sound
<1>3. Tracked'
  BY NextTracked DEF Sound
<1>4. Fresh'
  BY NextDated, NextCopies DEF Sound, Fresh
<1> QED
  BY <1>1, <1>2, <1>3, <1>4 DEF Sound

\* What others write does not disturb a process.
LEMMA WatchSound ==
    ASSUME Sound, Watches, OutsideTyped'
    PROVE  Sound'
<1>1. /\ Typed /\ Exclusive /\ Tracked /\ Fresh /\ Served /\ Streamed
      /\ UNCHANGED <<queue, dirty, processing, delayed, cache, notes, unsynced, pc, key, obj,
                     want, seen>>
  BY DEF Sound, Watches, queueVars, informerVars, workerVars
<1>2. \A k \in Keys : stream'[k] = IF api'[k] = api[k] THEN stream[k] ELSE Append(stream[k], api'[k])
  BY <1>1 DEF Streamed
<1>3. \A k \in Keys : stream[k] \in Seq(Stored) /\ api'[k] \in Stored
  BY <1>1 DEF Typed, TypeOK, InformerTypeOK, Served
<1>4. Typed'
  <2>1. stream' \in [Keys -> Seq(Stored)]
    <3>1. \A k \in Keys : stream'[k] \in Seq(Stored)
      BY <1>2, <1>3, AppendProperties
    <3> QED
      BY <1>1, <3>1 DEF Streamed
  <2>2. InformerTypeOK'
    BY <1>1, <2>1 DEF Typed, TypeOK, InformerTypeOK, Served
  <2>3. TypeOK'
    BY <1>1, <2>2 DEF Typed, TypeOK, QueueTypeOK, OutsideTyped
  <2> QED
    BY <1>1, <2>3 DEF Typed, Holding, HoldsObject
<1>5. Exclusive'
  BY <1>1 DEF Exclusive, QueueSound, Held, OneWorkerPerKey
<1>6. Tracked'
  <2>1. ASSUME NEW k \in Keys
        PROVE  Trails(k)'
    <3>1. CASE api'[k] = api[k]
      BY <1>1, <1>2, <3>1 DEF Tracked, Trails
    <3>2. CASE api'[k] # api[k]
      <4>1. /\ Append(stream[k], api'[k]) # <<>>
            /\ Append(stream[k], api'[k])[Len(Append(stream[k], api'[k]))] = api'[k]
        BY <1>3, LastOfAppend
      <4> QED
        BY <1>2, <3>2, <4>1 DEF Trails
    <3> QED
      BY <3>1, <3>2
  <2> QED
    BY <1>1, <2>1 DEF Tracked, Noticed, Wakes, AboutToLookUp
<1>7. Fresh'
  BY <1>1, ServedDated DEF Fresh, CopyFresh, PastLookup
<1> QED
  BY <1>4, <1>5, <1>6, <1>7 DEF Sound

\* A process that starts lists what there is.
LEMMA StartSound ==
    ASSUME Unborn, OutsideTyped, api \in [Keys -> Stored], version \in [Keys -> Nat],
           \A k \in Keys : Given(k, api[k]),
           StartInformer, UNCHANGED <<queueVars, workerVars, outsideVars, event, seen, lastPut, boundVars>>
    PROVE  Sound'
<1>1. /\ queue' = <<>> /\ dirty' = {} /\ processing' = {} /\ delayed' = {}
      /\ pc' = [w \in Workers |-> "idle"] /\ key' = [w \in Workers |-> Absent]
      /\ obj' = [w \in Workers |-> Absent] /\ want' = [w \in Workers |-> "None"]
      /\ seen' = [k \in Keys |-> Absent]
  BY DEF Unborn, QueueInit, queueVars, workerVars
<1>2. Typed'
  <2>1. InformerTypeOK
    BY ShortSeq DEF Unborn, InformerTypeOK, Stored
  <2>2. InformerTypeOK'
    BY <2>1, StartInformerTyped
  <2> QED
    BY <1>1, <2>2, ShortSeq DEF Typed, TypeOK, QueueTypeOK, Holding, HoldsObject, OutsideTyped,
       outsideVars, boundVars, Stored, Steps, Statuses
<1>3. Exclusive'
  BY <1>1, EmptySeq DEF Exclusive, QueueSound, Held, OneWorkerPerKey
<1>4. Tracked'
  BY DEF StartInformer, Tracked, Trails, Noticed
<1>5. Fresh'
  BY <1>1 DEF StartInformer, Fresh, KeyDated, Given, CopyFresh, PastLookup
<1> QED
  BY <1>2, <1>3, <1>4, <1>5 DEF Sound

\* No sync has found, or will find, its config invalid.
Unfailing == dangling = {} /\ \A w \in Workers : pc[w] = "report" => want[w] # "Failed"

\* No list has found the deletion of k out, and no copy of it is held once it
\* is gone.
Heard(k) == ~Tombstoned(k) /\ (Calm(k) => ~HoldsCopy(k))

LEMMA ActsUnfailing ==
    ASSUME Typed, Unfailing, Acts, "read" \notin Disturbances
    PROVE  Unfailing'
<1>1. ASSUME NEW w \in Workers, WorkerStep(w)
      PROVE  Unfailing'
  <2>1. CASE \/ CallDelete(w) \/ BuildConfig(w) \/ CallGetConfig(w) \/ CallPutConfig(w)
             \/ UpdateStatus(w)
    <3>1. dangling' = dangling /\ \A v \in Workers \ {w} : pc'[v] = pc[v] /\ want'[v] = want[v]
      BY <2>1 DEF CallDelete, BuildConfig, ReportInvalid, CallGetConfig, CallPutConfig,
         UpdateStatus, Report, Goto, outsideVars, Typed, TypeOK
    <3>2. pc'[w] = "report" => want'[w] # "Failed"
      BY <2>1 DEF CallDelete, BuildConfig, ReportInvalid, CallGetConfig, CallPutConfig,
         UpdateStatus, Report, Goto, Disturb, Unfailing, Typed, TypeOK
    <3> QED
      BY <3>1, <3>2 DEF Unfailing
  <2>2. CASE Dequeue(w) \/ Lookup(w) \/ Conclude(w)
    <3>1. /\ dangling' = dangling /\ pc'[w] # "report"
          /\ \A v \in Workers \ {w} : pc'[v] = pc[v] /\ want'[v] = want[v]
      BY <2>2 DEF Dequeue, Lookup, ListerGet, Conclude, Goto, outsideVars, Typed, TypeOK
    <3> QED
      BY <3>1 DEF Unfailing
  <2> QED
    BY <1>1, <2>1, <2>2 DEF WorkerStep
<1>2. CASE Restart
  BY <1>2 DEF Restart, outsideVars, Unfailing
<1>3. CASE ~Restart /\ ~\E w \in Workers : WorkerStep(w)
  <2>1. UNCHANGED <<dangling, pc, want>>
    BY <1>3 DEF Acts, Runs, UsersAct, Lists, CreateConnector, EditConnector, DeleteConnector,
       BreakWatch, InformerDeliver, HandleNote, BackoffExpires, workerVars, outsideVars
  <2> QED
    BY <2>1 DEF Unfailing
<1> QED
  BY <1>1, <1>2, <1>3

(***************************************************************************)
(* Where a sync is concluded after a step of its own process, either it    *)
(* was so before, or Connect has just been found to run the present config *)
(* or been told to.                                                        *)
(***************************************************************************)
LEMMA ActsConcludes ==
    ASSUME OwnNames, Sound, Unfailing, Acts, NEW k \in Keys, Concluded(k)'
    PROVE  /\ api'[k] = api[k]
           /\ \/ connect'[NameOf(k)] = api[k].spec
              \/ Concluded(k) /\ connect'[NameOf(k)] = connect[NameOf(k)]
<1>1. [Next]_vars /\ Typed /\ Exclusive /\ Fresh
  BY ActsNext DEF Sound
<1>2. CASE \E w \in Workers : key[w] = k /\ Concludes(w)
  <2>1. PICK w \in Workers : key[w] = k /\ Concludes(w)
    BY <1>2
  <2>2. /\ NameOf(k) \in Names /\ pc[w] # "idle"
        /\ obj[w] = api[k] /\ seen[k] = api[k] /\ api'[k] = api[k] /\ api[k] # Absent
    BY <1>1, <2>1, Concluding
  <2>3. CASE CallGetConfig(w) /\ pc'[w] = "finish"
    <3>1. connect[NameOf(k)] = obj[w].spec /\ connect' = connect
      BY <1>1, <2>1, <2>3 DEF CallGetConfig, Report, Goto, Matches, outsideVars, Typed, TypeOK
    <3> QED
      BY <2>2, <3>1
  <2>4. CASE CallPutConfig(w) /\ Ending(w)'
    <3>1. connect' = [connect EXCEPT ![NameOf(k)] = obj[w].spec]
      BY <1>1, <2>1, <2>4, PutThrough
    <3> QED
      BY <1>1, <2>2, <3>1 DEF Typed, TypeOK
  <2>5. CASE UpdateStatus(w)
    <3>1. /\ pc[w] = "report" /\ want[w] \in {"Applied", "Pending"}
          /\ pc' = [pc EXCEPT ![w] = IF want[w] = "Pending" THEN "requeue" ELSE "finish"]
          /\ UNCHANGED <<queueVars, key, want, connect>>
      BY <1>1, <2>5 DEF UpdateStatus, Goto, outsideVars, Unfailing, Fresh, CopyFresh
    <3>2. Ending(w)'
      <4>1. \A v \in Workers \ {w} : pc[v] # "idle" => key[v] # k
        BY <1>1, <2>1, <2>2, SoleHolder
      <4>2. ~Unattended(k)
        BY <1>1, <2>1, <2>2, SoleHolder
      <4> QED
        BY <3>1, <4>1, <4>2 DEF Concluded, Unattended, Ending, queueVars, Typed, TypeOK
    <3>3. want[w] = "Applied"
      BY <1>1, <3>1, <3>2 DEF Ending, Typed, TypeOK
    <3> QED
      BY <2>1, <2>2, <3>1, <3>3 DEF Concluded, Ending
  <2> QED
    BY <2>1, <2>3, <2>4, <2>5 DEF Concludes
<1>3. CASE Concluded(k) /\ \A w \in Workers : key[w] = k /\ WorkerStep(w) => ~Speaks(w)
  BY <1>1, <1>3, NextConcludes, Unspoken
<1> QED
  BY <1>1, <1>2, <1>3, NextConcludes

\* What is at rest is concluded, or calm.
LEMMA AtRestKeeps ==
    ASSUME Sound, NEW k \in Keys, AtRest(k)
    PROVE  /\ api[k] # Absent => Concluded(k)
           /\ api[k] = Absent /\ ~Tombstoned(k) => Calm(k)
<1>1. api[k] # Absent => Concluded(k)
  BY TrackedAtRest DEF Sound, Concluded, Unattended, AtRest
<1>2. api[k] = Absent /\ ~Tombstoned(k) => Calm(k)
  BY DEF Sound, Calm, Traced, AtRest, Tracked, Trails, Exclusive, Held
<1> QED
  BY <1>1, <1>2

\* A list changes nothing about a resource that was gone, and of which the
\* process knew.
LEMMA ListsKeep ==
    ASSUME Sound, Lists, NEW k \in Keys, AtRest(k), api[k] = Absent
    PROVE  Tombstoned(k)' => Tombstoned(k)
<1>1. cache[k] = Absent
  BY DEF Sound, Tracked, Trails, AtRest
<1>2. CASE BreakWatch
  <2>1. notes'[k] = notes[k] \o <<>> /\ notes[k] \in Seq(Note)
    BY <1>1, <1>2 DEF BreakWatch, Relist, ReplaceNotes, Sound, Typed, TypeOK, InformerTypeOK
  <2>2. notes'[k] = notes[k]
    BY <2>1
  <2> QED
    BY <2>2 DEF Tombstoned
<1>3. CASE Restart
  BY <1>3, EmptySeq DEF Restart, StartInformer, Tombstoned
<1> QED
  BY <1>2, <1>3 DEF Lists

\* Where a key becomes calm, its connector has just been removed.
LEMMA ActsCalms ==
    ASSUME OwnNames, Sound, "delete" \notin Disturbances, NEW k \in Keys, Heard(k), Heeds(k),
           Calm(k)'
    PROVE  /\ ~HoldsCopy(k)'
           /\ \/ connect'[NameOf(k)] = Absent
              \/ Calm(k) /\ connect'[NameOf(k)] = connect[NameOf(k)]
<1>1. [Next]_vars /\ Typed /\ Exclusive /\ Fresh
  BY ActsNext DEF Sound, Heeds, Acts
<1>2. CASE \E w \in Workers : CallDelete(w) /\ key[w] = k
  <2>1. PICK w \in Workers : CallDelete(w) /\ key[w] = k
    BY <1>2
  <2>2. connect' = [connect EXCEPT ![NameOf(k)] = Absent]
    BY <2>1 DEF CallDelete, Disturb
  <2>3. connect'[NameOf(k)] = Absent
    BY <1>1, <2>2 DEF NameOf, Keys, Typed, TypeOK
  <2> QED
    BY <1>1, <2>1, <2>3, NoNewCopy
<1>3. CASE Calm(k)
  BY <1>1, <1>3, NoNewCopy, CalmUnspoken DEF Heard
<1>4. Calm(k) \/ \E w \in Workers : CallDelete(w) /\ key[w] = k
  <2>1. ASSUME NEW j \in Keys, HandleNote(j)
        PROVE  Calm(k)
    <3>1. CASE j = k /\ Head(notes[k]).type = "tombstone"
      <4>1. notes[k] \in Seq(Note) /\ notes[k] # <<>>
        BY <1>1, <2>1, <3>1 DEF HandleNote, Typed, TypeOK, InformerTypeOK
      <4>2. Head(notes[k]) = notes[k][1] /\ 1 \in 1..Len(notes[k])
        BY <4>1, HeadTailProperties, LenProperties, EmptySeq
      <4> QED
        BY <3>1, <4>2 DEF Heard, Tombstoned
    <3> QED
      BY <1>1, <2>1, <3>1, HandleNoteCalms
  <2>2. ASSUME NEW j \in Keys, InformerDeliver(j)
        PROVE  Calm(k)
    BY <1>1, <2>2, DeliverCalms
  <2>3. ASSUME NEW w \in Workers, WorkerStep(w)
        PROVE  Calm(k) \/ (CallDelete(w) /\ key[w] = k)
    BY <1>1, <2>3, WorkerCalms
  <2>4. CASE UsersAct \/ \E j \in Keys : BackoffExpires(j)
    BY <1>1, <2>4, AroundCalms DEF UsersAct
  <2>5. CASE Lists /\ (api[k] # Absent \/ AtRest(k))
    <3>1. api[k] = Absent
      <4>1. CASE BreakWatch
        BY <4>1 DEF BreakWatch, Relist, Calm
      <4>2. CASE Restart
        BY <4>2, EmptySeq DEF Restart, StartInformer, Calm
      <4> QED
        BY <2>5, <4>1, <4>2 DEF Lists
    <3> QED
      BY <2>5, <3>1, AtRestKeeps DEF Heard
  <2> QED
    BY <2>1, <2>2, <2>3, <2>4, <2>5 DEF Heeds, Runs
<1> QED
  BY <1>2, <1>3, <1>4

LEMMA ActsHeard ==
    ASSUME OwnNames, Sound, "delete" \notin Disturbances, NEW k \in Keys, Heard(k), Heeds(k)
    PROVE  Heard(k)'
<1>1. ~Tombstoned(k)'
  <2>1. ASSUME NEW j \in Keys, InformerDeliver(j)
        PROVE  ~Tombstoned(k)'
    <3> DEFINE n == NoteFor(cache[j], Head(stream[j]))
    <3>1. notes \in [Keys -> Seq(Note)] /\ notes' = [notes EXCEPT ![j] = Append(notes[j], n)]
      BY <2>1 DEF InformerDeliver, Deliver, Sound, Typed, TypeOK, InformerTypeOK
    <3>2. n.type # "tombstone" /\ n \in Note
      <4>1. stream[j] \in Seq(Stored) /\ stream[j] # <<>> /\ cache[j] \in Stored
        BY <2>1 DEF InformerDeliver, Deliver, Sound, Typed, TypeOK, InformerTypeOK
      <4>2. Head(stream[j]) \in Stored
        BY <4>1, HeadTailProperties
      <4> QED
        BY <4>1, <4>2, NoteTyped DEF NoteFor
    <3> HIDE DEF n
    <3>3. /\ Len(notes[j]) \in Nat
          /\ Len(Append(notes[j], n)) = Len(notes[j]) + 1
          /\ \A i \in 1..Len(notes[j]) : Append(notes[j], n)[i] = notes[j][i]
          /\ Append(notes[j], n)[Len(notes[j]) + 1] = n
      BY <3>1, <3>2, AppendProperties, LenProperties
    <3>4. CASE j = k
      <4>1. \A i \in 1..Len(notes[k]) : notes[k][i].type # "tombstone"
        BY DEF Heard, Tombstoned
      <4>2. notes'[k] = Append(notes[k], n)
        BY <3>1, <3>4
      <4> QED
        BY <3>2, <3>3, <3>4, <4>1, <4>2 DEF Tombstoned
    <3>5. CASE j # k
      BY <3>1, <3>5 DEF Heard, Tombstoned
    <3> QED
      BY <3>4, <3>5
  <2>2. ASSUME NEW j \in Keys, HandleNote(j)
        PROVE  ~Tombstoned(k)'
    <3>1. /\ notes[j] # <<>> /\ notes \in [Keys -> Seq(Note)]
          /\ notes' = [notes EXCEPT ![j] = Tail(notes[j])]
      BY <2>2 DEF HandleNote, Sound, Typed, TypeOK, InformerTypeOK
    <3>2. /\ Len(notes[j]) \in Nat /\ Len(Tail(notes[j])) = Len(notes[j]) - 1
          /\ \A i \in 1..Len(Tail(notes[j])) : Tail(notes[j])[i] = notes[j][i + 1]
      BY <3>1, HeadTailProperties, LenProperties
    <3>3. \A i \in 1..Len(Tail(notes[j])) : i + 1 \in 1..Len(notes[j])
      BY <3>2
    <3>4. CASE j = k
      <4>1. \A i \in 1..Len(Tail(notes[k])) : Tail(notes[k])[i].type # "tombstone"
        BY <3>2, <3>3, <3>4 DEF Heard, Tombstoned
      <4> QED
        BY <3>1, <3>4, <4>1 DEF Tombstoned
    <3>5. CASE j # k
      BY <3>1, <3>5 DEF Heard, Tombstoned
    <3> QED
      BY <3>4, <3>5
  <2>3. CASE UNCHANGED notes
    BY <2>3 DEF Heard, Tombstoned
  <2>4. CASE Lists /\ (api[k] # Absent \/ AtRest(k))
    <3>1. CASE AtRest(k) /\ api[k] = Absent
      BY <2>4, <3>1, ListsKeep DEF Heard
    <3>2. CASE api[k] # Absent /\ BreakWatch
      <4> DEFINE n == NoteFor(cache[k], api[k])
      <4>1. n \in Note /\ n.type # "tombstone" /\ notes[k] \in Seq(Note)
        BY NoteTyped DEF NoteFor, Sound, Typed, TypeOK, InformerTypeOK
      <4>2. notes'[k] = Append(notes[k], n)
        BY <3>2, <4>1, AppendIsConcat DEF BreakWatch, Relist, ReplaceNotes
      <4> HIDE DEF n
      <4>3. /\ Len(notes[k]) \in Nat /\ Len(notes'[k]) = Len(notes[k]) + 1
            /\ \A i \in 1..Len(notes[k]) : notes'[k][i] = notes[k][i]
            /\ notes'[k][Len(notes[k]) + 1] = n
        BY <4>1, <4>2, AppendProperties, LenProperties
      <4> QED
        BY <4>1, <4>3 DEF Heard, Tombstoned
    <3>3. CASE Restart
      BY <3>3, EmptySeq DEF Restart, StartInformer, Tombstoned
    <3> QED
      BY <2>4, <3>1, <3>2, <3>3 DEF Lists
  <2> QED
    BY <2>1, <2>2, <2>3, <2>4 DEF Heeds, Runs, UsersAct, CreateConnector, EditConnector, DeleteConnector,
       BackoffExpires, WorkerStep, Dequeue, Lookup, ListerGet, CallDelete, BuildConfig, CallGetConfig,
       CallPutConfig, UpdateStatus, Conclude, informerVars
<1>2. Calm(k)' => ~HoldsCopy(k)'
  BY ActsCalms
<1> QED
  BY <1>1, <1>2 DEF Heard

\* What a process that watches finds concluded, or calm, was so before.
LEMMA WatchKeeps ==
    ASSUME Sound, Watches, NEW k \in Keys
    PROVE  /\ Concluded(k)' /\ api'[k] = api[k] => Concluded(k)
           /\ Calm(k)' => Calm(k) /\ api'[k] = api[k]
           /\ HoldsCopy(k)' <=> HoldsCopy(k)
           /\ Tombstoned(k)' <=> Tombstoned(k)
<1>1. UNCHANGED <<dirty, processing, delayed, cache, notes, pc, key, obj, want, seen>>
  BY DEF Watches, queueVars, informerVars, workerVars
<1>2. stream'[k] = <<>> => stream[k] = <<>> /\ api'[k] = api[k]
  <2>1. stream'[k] = IF api'[k] = api[k] THEN stream[k] ELSE Append(stream[k], api'[k])
    BY DEF Watches, Streamed
  <2>2. stream[k] \in Seq(Stored) /\ api'[k] \in Stored
    BY DEF Sound, Typed, TypeOK, InformerTypeOK, Watches, Served
  <2>3. Append(stream[k], api'[k]) # <<>>
    BY <2>2, LastOfAppend
  <2> QED
    BY <2>1, <2>3
<1>3. Concluded(k)' /\ api'[k] = api[k] => Concluded(k)
  BY <1>1 DEF Concluded, Unattended, Ending
<1>4. (HoldsCopy(k)' <=> HoldsCopy(k)) /\ (Tombstoned(k)' <=> Tombstoned(k))
  BY <1>1 DEF HoldsCopy, Tombstoned
<1>5. Traced(k)' <=> Traced(k)
  BY <1>1 DEF Traced, Wakes, Tombstoned
<1> QED
  BY <1>1, <1>2, <1>3, <1>4, <1>5 DEF Calm

-----------------------------------------------------------------------------
(***************************************************************************)
(* Once nothing is left to do about a resource, its present version is the *)
(* one that the last sync looked up (the event handlers of NewController   *)
(* and the lookup of syncHandler).                                         *)
(***************************************************************************)
THEOREM NothingLost == Spec => []NoUpdateLost
<1>1. Typed /\ Exclusive /\ Tracked => NoUpdateLost
  BY TrackedAtRest DEF NoUpdateLost
<1> QED
  BY <1>1, TrackedAlways, PTL
=============================================================================
