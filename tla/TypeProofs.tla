------------------------------ MODULE TypeProofs ------------------------------
(***************************************************************************)
(* The type invariant of the controller, and that no two workers sync the  *)
(* same resource, for any number of resources, configs, workers, edits and *)
(* disturbances.                                                           *)
(*                                                                         *)
(* OneWorkerPerKey is not inductive: that the item a worker gets is held   *)
(* by no other one needs that an item that waits is not also held, that it *)
(* waits once only, and that the queue knows of every item a worker holds. *)
(***************************************************************************)
EXTENDS Controller, SequenceTheorems, TLAPS

-----------------------------------------------------------------------------
(* The API server and the informer: what their operations do to the types. *)

\* A list of one element, and the empty one.
LEMMA ShortSeq ==
    ASSUME NEW S
    PROVE  /\ \A x \in S : <<x>> \in Seq(S)
           /\ <<>> \in Seq(S)
OBVIOUS

\* A write of the API server keeps the types, whoever makes it.
LEMMA StoreTyped ==
    ASSUME InformerTypeOK, NEW k \in Keys, NEW s \in Specs, NEW st \in Statuses,
           Store(k, s, st), UNCHANGED informerVars
    PROVE  InformerTypeOK'
<1> DEFINE o == [spec |-> s, status |-> st, rv |-> version[k] + 1]
<1>1. o \in Stored
  BY DEF InformerTypeOK, Object, Stored
<1>2. Append(stream[k], o) \in Seq(Stored)
  BY <1>1, AppendProperties DEF InformerTypeOK
<1> QED
  BY <1>1, <1>2 DEF InformerTypeOK, Store, informerVars

\* So does a deletion.
LEMMA RemoveTyped ==
    ASSUME InformerTypeOK, NEW k \in Keys, Remove(k), UNCHANGED informerVars
    PROVE  InformerTypeOK'
<1>1. Absent \in Stored
  BY DEF Stored
<1>2. Append(stream[k], Absent) \in Seq(Stored)
  BY <1>1, AppendProperties DEF InformerTypeOK
<1> QED
  BY <1>1, <1>2 DEF InformerTypeOK, Remove, informerVars

\* And a write of the status subresource, whether it is refused or not.
LEMMA WriteStatusTyped ==
    ASSUME InformerTypeOK, NEW k \in Keys, NEW o \in Object, NEW st \in Statuses,
           WriteStatus(k, o, st), UNCHANGED informerVars
    PROVE  InformerTypeOK'
<1>1. CASE UNCHANGED apiVars
  BY <1>1 DEF InformerTypeOK, apiVars, informerVars
<1>2. CASE api[k] # Absent /\ Store(k, api[k].spec, st)
  <2>1. api[k].spec \in Specs
    BY <1>2 DEF InformerTypeOK, Stored, Object
  <2> QED
    BY <1>2, <2>1, StoreTyped
<1> QED
  BY <1>1, <1>2 DEF WriteStatus

\* A notification is made of two copies of a resource.
LEMMA NoteTyped ==
    ASSUME NEW old \in Stored, NEW new \in Stored
    PROVE  NoteFor(old, new) \in Note
BY DEF NoteFor, Note

\* So are those of a list.
LEMMA ReplaceNotesTyped ==
    ASSUME NEW old \in Stored, NEW new \in Stored
    PROVE  ReplaceNotes(old, new) \in Seq(Note)
<1>1. CASE new # Absent
  BY <1>1, NoteTyped, ShortSeq DEF ReplaceNotes
<1>2. CASE new = Absent /\ old # Absent
  <2>1. [type |-> "tombstone", old |-> old, new |-> Absent] \in Note
    BY <1>2 DEF Note
  <2> QED
    BY <1>2, <2>1, ShortSeq DEF ReplaceNotes
<1>3. CASE new = Absent /\ old = Absent
  BY <1>3, ShortSeq DEF ReplaceNotes
<1> QED
  BY <1>1, <1>2, <1>3

\* Taking the next watch event keeps the types.
LEMMA DeliverTyped ==
    ASSUME InformerTypeOK, NEW k \in Keys, Deliver(k)
    PROVE  InformerTypeOK'
<1> DEFINE new == Head(stream[k])
<1>1. new \in Stored /\ Tail(stream[k]) \in Seq(Stored)
  BY HeadTailProperties DEF InformerTypeOK, Deliver
<1>2. Append(notes[k], NoteFor(cache[k], new)) \in Seq(Note)
  BY <1>1, NoteTyped, AppendProperties DEF InformerTypeOK
<1> QED
  BY <1>1, <1>2 DEF InformerTypeOK, Deliver

\* So does a new list after a broken watch.
LEMMA RelistTyped ==
    ASSUME InformerTypeOK, Relist
    PROVE  InformerTypeOK'
<1>1. \A k \in Keys : notes[k] \o ReplaceNotes(cache[k], api[k]) \in Seq(Note)
  BY ReplaceNotesTyped, ConcatProperties DEF InformerTypeOK
<1> QED
  BY <1>1 DEF InformerTypeOK, Relist

\* So does a resync.
LEMMA ResyncTyped ==
    ASSUME InformerTypeOK, NEW k \in Keys, Resync(k)
    PROVE  InformerTypeOK'
<1>1. NoteFor(cache[k], cache[k]) \in Note
  BY NoteTyped DEF InformerTypeOK
<1> QED
  BY <1>1 DEF InformerTypeOK, Resync, apiVars

\* So does the informer of a new process.
LEMMA StartInformerTyped ==
    ASSUME InformerTypeOK, StartInformer
    PROVE  InformerTypeOK'
<1>1. \A k \in Keys :
         (IF api[k] = Absent THEN <<>> ELSE <<api[k]>>) \in Seq(Stored)
  BY ShortSeq DEF InformerTypeOK
<1>2. <<>> \in Seq(Note) /\ Absent \in Stored
  BY ShortSeq DEF Stored
<1> QED
  BY <1>1, <1>2 DEF InformerTypeOK, StartInformer

-----------------------------------------------------------------------------
(* Types. *)

\* The steps of syncHandler at which a worker has a copy of the resource.
HoldsObject(w) == pc[w] \in {"build", "get", "create", "replace", "report"}

\* A worker that is not waiting for an item has one, and from "build" on it
\* has the copy of the resource that the lister returned.
Holding ==
    \A w \in Workers :
        /\ pc[w] # "idle" => key[w] \in Keys
        /\ HoldsObject(w) => obj[w] \in Object

Typed == TypeOK /\ Holding

\* The queue operations keep the types of the queue's variables.
LEMMA EnqueueTyped ==
    ASSUME QueueTypeOK(Keys), NEW k \in Keys, Enqueue(k)
    PROVE  queue' \in Seq(Keys) /\ dirty' \subseteq Keys /\ processing' \subseteq Keys
<1>1. Append(queue, k) \in Seq(Keys)
  BY AppendProperties DEF QueueTypeOK
<1> QED
  BY <1>1 DEF QueueTypeOK, Enqueue

LEMMA TakeTyped ==
    ASSUME QueueTypeOK(Keys), NEW k, Take(k)
    PROVE  QueueTypeOK(Keys)' /\ k \in Keys
<1>1. Head(queue) \in Keys /\ Tail(queue) \in Seq(Keys)
  BY HeadTailProperties DEF QueueTypeOK, Take
<1> QED
  BY <1>1 DEF QueueTypeOK, Take

LEMMA DoneTyped ==
    ASSUME QueueTypeOK(Keys), NEW k \in Keys, Done(k)
    PROVE  queue' \in Seq(Keys) /\ dirty' \subseteq Keys /\ processing' \subseteq Keys
<1>1. Append(queue, k) \in Seq(Keys)
  BY AppendProperties DEF QueueTypeOK
<1> QED
  BY <1>1 DEF QueueTypeOK, Done

LEMMA InitTyped == Init => Typed
<1>1. <<>> \in Seq(Keys) /\ <<>> \in Seq(Stored) /\ <<>> \in Seq(Note)
  BY ShortSeq
<1> QED
  BY <1>1 DEF Init, QueueInit, InformerInit, Typed, TypeOK, Holding, HoldsObject,
     QueueTypeOK, InformerTypeOK, Steps, Stored, Statuses, Events

\* What the users and the API server do leaves the controller's own state.
LEMMA EnvironmentTyped ==
    ASSUME Typed, NEW k \in Keys, NEW s \in Specs,
           CreateConnector(k, s) \/ EditConnector(k, s) \/ DeleteConnector(k)
    PROVE  Typed'
<1> USE DEF Typed
<1>1. "None" \in Statuses /\ (api[k] # Absent => api[k].status \in Statuses)
  BY DEF TypeOK, InformerTypeOK, Stored, Object, Statuses
<1>2. InformerTypeOK'
  BY <1>1, StoreTyped, RemoveTyped
     DEF TypeOK, CreateConnector, EditConnector, DeleteConnector
<1>3. UNCHANGED <<queueVars, workerVars, outsideVars, event, historyVars, disturbances>>
  BY DEF CreateConnector, EditConnector, DeleteConnector, Edit
<1>4. edits' = edits + 1
  BY DEF CreateConnector, EditConnector, DeleteConnector, Edit
<1> QED
  BY <1>2, <1>3, <1>4 DEF TypeOK, QueueTypeOK, Holding, HoldsObject, queueVars,
     workerVars, outsideVars, historyVars

\* A changed Secret or ConfigMap, a broken watch and a restart keep the types.
LEMMA DisturbanceTyped ==
    ASSUME Typed, (\E s \in Specs : ChangeStore(s)) \/ BreakWatch \/ Restart
    PROVE  Typed'
<1> USE DEF Typed
<1>1. CASE \E s \in Specs : ChangeStore(s)
  BY <1>1 DEF ChangeStore, Disturb, TypeOK, QueueTypeOK, InformerTypeOK, Holding,
     HoldsObject, queueVars, apiVars, informerVars, workerVars, historyVars
<1>2. CASE BreakWatch
  <2>1. InformerTypeOK'
    BY <1>2, RelistTyped DEF TypeOK, BreakWatch
  <2> QED
    BY <1>2, <2>1 DEF BreakWatch, Disturb, TypeOK, QueueTypeOK, Holding,
       HoldsObject, queueVars, workerVars, outsideVars, historyVars
<1>3. CASE Restart
  <2>1. InformerTypeOK'
    BY <1>3, StartInformerTyped DEF TypeOK, Restart
  <2>2. <<>> \in Seq(Keys)
    BY ShortSeq
  <2> QED
    BY <1>3, <2>1, <2>2 DEF Restart, Disturb, DropAll, TypeOK, QueueTypeOK, Holding,
       HoldsObject, outsideVars, Steps, Stored, Statuses
<1> QED
  BY <1>1, <1>2, <1>3

\* The informer and its event handlers keep the types.
LEMMA InformerStepTyped ==
    ASSUME Typed, NEW k \in Keys,
           \/ InformerDeliver(k) \/ InformerResync(k)
           \/ HandleNote(k) \/ BackoffExpires(k)
    PROVE  Typed'
<1> USE DEF Typed
<1>1. CASE InformerDeliver(k) \/ InformerResync(k)
  <2>1. InformerTypeOK'
    BY <1>1, DeliverTyped, ResyncTyped DEF TypeOK, InformerDeliver, InformerResync
  <2> QED
    BY <1>1, <2>1 DEF InformerDeliver, InformerResync, TypeOK, QueueTypeOK, Holding,
       HoldsObject, queueVars, workerVars, outsideVars, historyVars, boundVars
<1>2. CASE HandleNote(k)
  <2>1. Tail(notes[k]) \in Seq(Note)
    BY <1>2, HeadTailProperties DEF HandleNote, TypeOK, InformerTypeOK
  <2>2. QueueTypeOK(Keys)'
    BY <1>2, EnqueueTyped DEF HandleNote, Add, TypeOK, QueueTypeOK, queueVars
  <2> QED
    BY <1>2, <2>1, <2>2 DEF HandleNote, TypeOK, InformerTypeOK, Holding, HoldsObject,
       apiVars, workerVars, outsideVars, historyVars, boundVars
<1>3. CASE BackoffExpires(k)
  <2>1. QueueTypeOK(Keys)'
    BY <1>3, EnqueueTyped DEF BackoffExpires, Expire, TypeOK, QueueTypeOK
  <2> QED
    BY <1>3, <2>1 DEF BackoffExpires, TypeOK, InformerTypeOK, Holding, HoldsObject,
       apiVars, informerVars, workerVars, outsideVars, historyVars, boundVars
<1> QED
  BY <1>1, <1>2, <1>3

\* What a worker does with the queue keeps the types.
LEMMA DequeueTyped ==
    ASSUME Typed, NEW w \in Workers, Dequeue(w)
    PROVE  Typed'
<1>1. QueueTypeOK(Keys)' /\ Head(queue) \in Keys
  BY TakeTyped DEF Dequeue, Typed, TypeOK
<1> QED
  BY <1>1 DEF Dequeue, Goto, Typed, TypeOK, InformerTypeOK, Steps, Holding, HoldsObject,
     apiVars, informerVars, outsideVars, historyVars, boundVars

LEMMA ConcludeTyped ==
    ASSUME Typed, NEW w \in Workers, Conclude(w)
    PROVE  Typed'
<1>1. key[w] \in Keys
  BY DEF Conclude, Typed, Holding
<1>2. QueueTypeOK(Keys)'
  BY <1>1, DoneTyped DEF Conclude, Requeue, AddRateLimited, Typed, TypeOK, QueueTypeOK
<1> QED
  BY <1>2 DEF Conclude, Typed, TypeOK, InformerTypeOK, Steps, Stored, Statuses,
     Holding, HoldsObject, apiVars, informerVars, outsideVars, historyVars, boundVars

\* So do the calls of syncHandler, one step each.
LEMMA LookupTyped ==
    ASSUME Typed, NEW w \in Workers, Lookup(w)
    PROVE  Typed'
<1>1. key[w] \in Keys
  BY DEF Lookup, ListerGet, Typed, Holding
<1>2. cache[key[w]] \in Stored
  BY <1>1 DEF Typed, TypeOK, InformerTypeOK
<1> QED
  BY <1>1, <1>2 DEF Lookup, ListerGet, Goto, Typed, TypeOK, QueueTypeOK, InformerTypeOK, Steps,
     Stored, Holding, HoldsObject, queueVars, apiVars, informerVars, outsideVars, boundVars

LEMMA CallDeleteTyped ==
    ASSUME Typed, NEW w \in Workers, CallDelete(w)
    PROVE  Typed'
<1>1. connect' \in [Names -> Specs \union {Absent}]
  <2>1. connect' = connect \/ connect' = [connect EXCEPT ![NameOf(key[w])] = Absent]
    BY DEF CallDelete
  <2> QED
    BY <2>1 DEF Typed, TypeOK
<1>2. edits' \in Nat /\ disturbances' \in Nat
  BY DEF CallDelete, Untroubled, Disturb, boundVars, Typed, TypeOK
<1>3. pc' = [pc EXCEPT ![w] = "finish"] /\ pc[w] = "remove"
  BY DEF CallDelete, Goto
<1>4. UNCHANGED <<queueVars, apiVars, informerVars, key, obj, want, dangling, event, historyVars>>
  BY DEF CallDelete
<1> QED
  BY <1>1, <1>2, <1>3, <1>4 DEF Typed, TypeOK, QueueTypeOK, InformerTypeOK, Steps,
     Holding, HoldsObject, queueVars, apiVars, informerVars, historyVars

LEMMA BuildConfigTyped ==
    ASSUME Typed, NEW w \in Workers, BuildConfig(w)
    PROVE  Typed'
<1>1. edits' \in Nat /\ disturbances' \in Nat
  BY DEF BuildConfig, Untroubled, Disturb, boundVars, Typed, TypeOK
<1>2. pc[w] = "build" /\ \E step \in {"get", "report"} : pc' = [pc EXCEPT ![w] = step]
  BY DEF BuildConfig, ReportInvalid, Report, Goto
<1>3. want' \in [Workers -> Statuses]
  BY DEF BuildConfig, ReportInvalid, Report, Typed, TypeOK, Statuses
<1> QED
  BY <1>1, <1>2, <1>3 DEF BuildConfig, Typed, TypeOK, QueueTypeOK, InformerTypeOK,
     Steps, Holding, HoldsObject, queueVars, apiVars, informerVars, outsideVars, historyVars

LEMMA CallGetConfigTyped ==
    ASSUME Typed, NEW w \in Workers, CallGetConfig(w)
    PROVE  Typed'
<1>1. edits' \in Nat /\ disturbances' \in Nat
  BY DEF CallGetConfig, Untroubled, Disturb, boundVars, Typed, TypeOK
<1>2. pc[w] = "get" /\ \E step \in {"report", "create", "replace", "finish"} :
                         pc' = [pc EXCEPT ![w] = step]
  BY DEF CallGetConfig, Report, Goto
<1>3. want' \in [Workers -> Statuses] /\ event' \in [Keys -> Events]
  BY DEF CallGetConfig, Report, Typed, TypeOK, Statuses, Events
<1> QED
  BY <1>1, <1>2, <1>3 DEF CallGetConfig, Typed, TypeOK, QueueTypeOK, InformerTypeOK,
     Steps, Holding, HoldsObject, queueVars, apiVars, informerVars, outsideVars, historyVars

LEMMA CallPutConfigTyped ==
    ASSUME Typed, NEW w \in Workers, CallPutConfig(w)
    PROVE  Typed'
<1>1. key[w] \in Keys /\ obj[w] \in Object
  BY DEF CallPutConfig, Typed, Holding, HoldsObject
<1>2. obj[w].spec \in Specs /\ obj[w].rv \in Nat
  BY <1>1 DEF Object
<1>3. edits' \in Nat /\ disturbances' \in Nat
  BY DEF CallPutConfig, Untroubled, Disturb, boundVars, Typed, TypeOK
<1>4. pc[w] \in {"create", "replace"}
      /\ \E step \in {"report", "finish"} : pc' = [pc EXCEPT ![w] = step]
  BY DEF CallPutConfig, Report, Goto
<1>5. want' \in [Workers -> Statuses]
  BY DEF CallPutConfig, Report, Typed, TypeOK, Statuses
<1>6. connect' \in [Names -> Specs \union {Absent}] /\ lastPut' \in [Keys -> Nat]
  BY <1>2 DEF CallPutConfig, Typed, TypeOK
<1> QED
  BY <1>3, <1>4, <1>5, <1>6 DEF CallPutConfig, Typed, TypeOK, QueueTypeOK,
     InformerTypeOK, Steps, Holding, HoldsObject, queueVars, apiVars, informerVars

LEMMA UpdateStatusTyped ==
    ASSUME Typed, NEW w \in Workers, UpdateStatus(w)
    PROVE  Typed'
<1>1. key[w] \in Keys /\ obj[w] \in Object /\ want[w] \in Statuses
  BY DEF UpdateStatus, Typed, TypeOK, Holding, HoldsObject
<1>2. UNCHANGED informerVars
  BY DEF UpdateStatus
<1>3. InformerTypeOK'
  <2>1. CASE WriteStatus(key[w], obj[w], want[w])
    BY <1>1, <1>2, <2>1, WriteStatusTyped DEF Typed, TypeOK
  <2>2. CASE UNCHANGED apiVars
    BY <1>2, <2>2 DEF Typed, TypeOK, InformerTypeOK, apiVars, informerVars
  <2> QED
    BY <2>1, <2>2 DEF UpdateStatus
<1>4. edits' \in Nat /\ disturbances' \in Nat
  BY DEF UpdateStatus, Untroubled, Disturb, boundVars, Typed, TypeOK
<1>5. pc[w] = "report" /\ \E step \in {"requeue", "finish"} : pc' = [pc EXCEPT ![w] = step]
  BY DEF UpdateStatus, Goto
<1>6. event' \in [Keys -> Events]
  BY DEF UpdateStatus, EventFor, Typed, TypeOK, Events
<1> QED
  BY <1>3, <1>4, <1>5, <1>6 DEF UpdateStatus, Typed, TypeOK, QueueTypeOK, Steps,
     Holding, HoldsObject, queueVars, outsideVars, historyVars

\* One step keeps the types.
LEMMA NextTyped ==
    ASSUME Typed, [Next]_vars
    PROVE  Typed'
<1>1. ASSUME NEW k \in Keys, NEW s \in Specs, CreateConnector(k, s) \/ EditConnector(k, s)
      PROVE  Typed'
  BY <1>1, EnvironmentTyped
<1>2. ASSUME NEW k \in Keys, DeleteConnector(k)
      PROVE  Typed'
  <2>1. api[k].spec \in Specs
    BY <1>2 DEF DeleteConnector, Typed, TypeOK, InformerTypeOK, Stored, Object
  <2> QED
    BY <1>2, <2>1, EnvironmentTyped
<1>3. CASE (\E s \in Specs : ChangeStore(s)) \/ BreakWatch \/ Restart
  BY <1>3, DisturbanceTyped
<1>4. ASSUME NEW k \in Keys,
             \/ InformerDeliver(k) \/ InformerResync(k)
             \/ HandleNote(k) \/ BackoffExpires(k)
      PROVE  Typed'
  BY <1>4, InformerStepTyped
<1>5. ASSUME NEW w \in Workers, WorkerStep(w)
      PROVE  Typed'
  BY <1>5, DequeueTyped, LookupTyped, CallDeleteTyped, BuildConfigTyped,
     CallGetConfigTyped, CallPutConfigTyped, UpdateStatusTyped, ConcludeTyped
     DEF WorkerStep
<1>6. CASE UNCHANGED vars
  BY <1>6 DEF vars, Typed, TypeOK, QueueTypeOK, InformerTypeOK, Holding, HoldsObject,
     queueVars, apiVars, informerVars, workerVars, outsideVars, historyVars, boundVars
<1> QED
  BY <1>1, <1>2, <1>3, <1>4, <1>5, <1>6 DEF Next

(***************************************************************************)
(* The type invariant, and with it that a worker past Get has a key, and   *)
(* past the lister's answer a resource: no step of syncHandler works on a  *)
(* nil Connector.                                                          *)
(***************************************************************************)
THEOREM TypeCorrectness == Spec => [](TypeOK /\ Holding)
<1>1. Init => Typed
  BY InitTyped
<1>2. Typed /\ [Next]_vars => Typed'
  BY NextTyped
<1> QED
  BY <1>1, <1>2, PTL DEF Spec, Typed

-----------------------------------------------------------------------------
(* One worker per key. *)

\* An item waits in one place of the queue at most, and not while it is held.
QueueSound ==
    /\ \A i, j \in 1..Len(queue) : i # j => queue[i] # queue[j]
    /\ \A i \in 1..Len(queue) : queue[i] \in dirty \ processing

\* Whatever a worker is busy with counts as being processed.
Held == \A w \in Workers : pc[w] # "idle" => key[w] \in processing

Exclusive == QueueSound /\ Held /\ OneWorkerPerKey

-----------------------------------------------------------------------------
(* The operations of the queue. *)

\* Adding an item does not make it wait twice, nor beside its worker.
LEMMA EnqueueSound ==
    ASSUME QueueTypeOK(Keys), QueueSound, NEW k \in Keys, Enqueue(k)
    PROVE  QueueSound'
<1>1. CASE k \in dirty \union processing
  BY <1>1 DEF Enqueue, QueueSound
<1>2. CASE k \notin dirty \union processing
  <2>1. queue' = Append(queue, k) /\ queue \in Seq(Keys)
    BY <1>2 DEF Enqueue, QueueTypeOK
  <2>2. Len(queue') = Len(queue) + 1 /\ Len(queue) \in Nat
    BY <2>1, AppendProperties, LenProperties
  <2>3. \A i \in 1..Len(queue) : queue'[i] = queue[i]
    BY <2>1, AppendProperties
  <2>4. queue'[Len(queue) + 1] = k
    BY <2>1, AppendProperties
  <2> QED
    BY <1>2, <2>2, <2>3, <2>4 DEF Enqueue, QueueSound
<1> QED
  BY <1>1, <1>2

\* The item that Get hands out was held by nobody.
LEMMA TakeSound ==
    ASSUME QueueTypeOK(Keys), QueueSound, NEW k, Take(k)
    PROVE  QueueSound' /\ k \notin processing
<1>1. queue \in Seq(Keys) /\ queue # <<>> /\ k = Head(queue) /\ queue' = Tail(queue)
  BY DEF Take, QueueTypeOK
<1>2. Len(queue) \in Nat /\ Len(queue) > 0 /\ k = queue[1]
  BY <1>1, LenProperties, EmptySeq, HeadTailProperties
<1>3. Len(queue') = Len(queue) - 1 /\ \A i \in 1..Len(queue') : queue'[i] = queue[i + 1]
  BY <1>1, HeadTailProperties
<1>4. \A i \in 1..Len(queue') : i + 1 \in 1..Len(queue) /\ i + 1 # 1
  BY <1>2, <1>3
<1> QED
  BY <1>2, <1>3, <1>4 DEF Take, QueueSound

\* An item that comes back when its worker is done was not waiting.
LEMMA DoneSound ==
    ASSUME QueueTypeOK(Keys), QueueSound, NEW k \in Keys, k \in processing, Done(k)
    PROVE  QueueSound'
<1>1. CASE k \notin dirty
  BY <1>1 DEF Done, QueueSound
<1>2. CASE k \in dirty
  <2>1. queue' = Append(queue, k) /\ queue \in Seq(Keys)
    BY <1>2 DEF Done, QueueTypeOK
  <2>2. Len(queue') = Len(queue) + 1 /\ Len(queue) \in Nat
    BY <2>1, AppendProperties, LenProperties
  <2>3. \A i \in 1..Len(queue) : queue'[i] = queue[i]
    BY <2>1, AppendProperties
  <2>4. queue'[Len(queue) + 1] = k
    BY <2>1, AppendProperties
  <2> QED
    BY <1>2, <2>2, <2>3, <2>4 DEF Done, QueueSound
<1> QED
  BY <1>1, <1>2

-----------------------------------------------------------------------------
(* The steps of the system. *)

\* Steps that touch neither the queue nor what the workers hold.
LEMMA IdleExclusive ==
    ASSUME Exclusive, UNCHANGED <<queueVars, pc, key>>
    PROVE  Exclusive'
BY DEF Exclusive, QueueSound, Held, OneWorkerPerKey, queueVars

\* A worker that goes on from one step of syncHandler to the next.
LEMMA ProceedExclusive ==
    ASSUME Exclusive, Typed, NEW w \in Workers, NEW step, pc[w] # "idle",
           pc' = [pc EXCEPT ![w] = step], UNCHANGED <<queueVars, key>>
    PROVE  Exclusive'
BY DEF Exclusive, Typed, TypeOK, QueueSound, Held, OneWorkerPerKey, queueVars

\* The handlers and the timer add items.
LEMMA AddExclusive ==
    ASSUME Exclusive, Typed, NEW k \in Keys, HandleNote(k) \/ BackoffExpires(k)
    PROVE  Exclusive'
<1>1. UNCHANGED <<pc, key>>
  BY DEF HandleNote, BackoffExpires, workerVars
<1>2. CASE Enqueue(k)
  BY <1>1, <1>2, EnqueueSound
     DEF Exclusive, Held, OneWorkerPerKey, Typed, TypeOK, Enqueue
<1>3. CASE UNCHANGED queueVars
  BY <1>1, <1>3, IdleExclusive
<1> QED
  BY <1>2, <1>3 DEF HandleNote, BackoffExpires, Add, Expire

\* Get: the new item is held by no other worker.
LEMMA DequeueExclusive ==
    ASSUME Exclusive, Typed, NEW w \in Workers, Dequeue(w)
    PROVE  Exclusive'
<1> DEFINE k == Head(queue)
<1>1. QueueSound' /\ k \notin processing
  BY TakeSound DEF Dequeue, Exclusive, Typed, TypeOK
<1>2. pc' = [pc EXCEPT ![w] = "lookup"] /\ key' = [key EXCEPT ![w] = k]
  BY DEF Dequeue, Goto
<1>3. processing' = processing \union {k}
  BY DEF Dequeue, Take
<1> QED
  BY <1>1, <1>2, <1>3 DEF Exclusive, Held, OneWorkerPerKey, Typed, TypeOK

\* Done: no other worker holds the item.
LEMMA ConcludeExclusive ==
    ASSUME Exclusive, Typed, NEW w \in Workers, Conclude(w)
    PROVE  Exclusive'
<1>1. pc[w] # "idle" /\ key[w] \in Keys /\ key[w] \in processing
  BY DEF Conclude, Exclusive, Held, Typed, Holding
<1>2. QueueSound'
  BY <1>1, DoneSound DEF Conclude, Exclusive, Typed, TypeOK
<1>3. /\ pc' = [pc EXCEPT ![w] = "idle"]
      /\ key' = [key EXCEPT ![w] = Absent]
      /\ processing' = processing \ {key[w]}
  BY DEF Conclude, Done
<1> QED
  BY <1>1, <1>2, <1>3 DEF Exclusive, Held, OneWorkerPerKey, Typed, TypeOK

\* The other steps of a worker keep what it holds.
LEMMA CallsExclusive ==
    ASSUME Exclusive, Typed, NEW w \in Workers,
           \/ Lookup(w) \/ CallDelete(w) \/ BuildConfig(w) \/ CallGetConfig(w)
           \/ CallPutConfig(w) \/ UpdateStatus(w)
    PROVE  Exclusive'
<1>1. /\ pc[w] # "idle"
      /\ \E step : pc' = [pc EXCEPT ![w] = step]
      /\ UNCHANGED <<queueVars, key>>
  BY DEF Lookup, ListerGet, CallDelete, BuildConfig, ReportInvalid, CallGetConfig, CallPutConfig,
     UpdateStatus, Report, Goto
<1> QED
  BY <1>1, ProceedExclusive

\* A new process starts with an empty queue and idle workers.
LEMMA RestartExclusive ==
    ASSUME Restart
    PROVE  Exclusive'
BY DEF Restart, DropAll, Exclusive, QueueSound, Held, OneWorkerPerKey

\* One step keeps the inductive invariant.
LEMMA NextExclusive ==
    ASSUME Exclusive, Typed, [Next]_vars
    PROVE  Exclusive'
<1>1. ASSUME NEW k \in Keys, NEW s \in Specs,
             CreateConnector(k, s) \/ EditConnector(k, s) \/ ChangeStore(s)
      PROVE  Exclusive'
  BY <1>1, IdleExclusive DEF CreateConnector, EditConnector, ChangeStore, workerVars
<1>2. CASE (\E k \in Keys : DeleteConnector(k) \/ InformerDeliver(k) \/ InformerResync(k))
           \/ BreakWatch
  BY <1>2, IdleExclusive DEF DeleteConnector, BreakWatch, InformerDeliver,
     InformerResync, workerVars
<1>3. ASSUME NEW w \in Workers, WorkerStep(w)
      PROVE  Exclusive'
  BY <1>3, DequeueExclusive, CallsExclusive, ConcludeExclusive DEF WorkerStep
<1>4. ASSUME NEW k \in Keys, HandleNote(k) \/ BackoffExpires(k)
      PROVE  Exclusive'
  BY <1>4, AddExclusive
<1>5. CASE UNCHANGED vars
  BY <1>5, IdleExclusive DEF vars, workerVars
<1>6. ASSUME NEW s \in Specs, ChangeStore(s)
      PROVE  Exclusive'
  BY <1>6, IdleExclusive DEF ChangeStore, workerVars
<1> QED
  BY <1>1, <1>2, <1>3, <1>4, <1>5, <1>6, RestartExclusive DEF Next

LEMMA ExclusiveAlways == Spec => [](Typed /\ Exclusive)
<1>1. Init => Exclusive
  BY DEF Init, QueueInit, Exclusive, QueueSound, Held, OneWorkerPerKey
<1>2. Exclusive /\ Typed /\ [Next]_vars => Exclusive'
  BY NextExclusive
<1>3. Spec => []Typed
  BY TypeCorrectness DEF Typed
<1> QED
  BY <1>1, <1>2, <1>3, PTL DEF Spec

(***************************************************************************)
(* However many workers Run starts, no two of them process the same        *)
(* resource at the same time (controller.go, comment on workqueue).        *)
(***************************************************************************)
THEOREM Exclusion == Spec => []OneWorkerPerKey
<1>1. Exclusive => OneWorkerPerKey
  BY DEF Exclusive
<1> QED
  BY <1>1, ExclusiveAlways, PTL
=============================================================================
