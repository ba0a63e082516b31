----------------------------- MODULE RolloutProofs -----------------------------
(***************************************************************************)
(* Two controllers on the same resources and the same Kafka Connect leave  *)
(* it as it should be, for any number of resources, workers and edits.     *)
(*                                                                         *)
(* What DeliveryProofs shows of a controller is used twice, for the old    *)
(* process and for the new one: to either the other is somebody who writes *)
(* to the API server and to Connect while it watches.  The two invariants  *)
(* are about pairs: when both have concluded their syncs of a resource,    *)
(* whichever was the last to speak to Connect spoke about the present      *)
(* version (Agreed), and when nothing leads either of them to a deleted    *)
(* one, whichever was the last removed its connector (Cleared).  The old   *)
(* process stands for the resources that it was done with even after it is *)
(* gone.                                                                   *)
(***************************************************************************)
EXTENDS Rollout, TLAPS

\* The lemmas about a controller, of the old process and of the new one.
OldP == INSTANCE DeliveryProofs WITH
    queue <- oldQueue, dirty <- oldDirty, processing <- oldProcessing, delayed <- oldDelayed,
    stream <- oldStream, cache <- oldCache, notes <- oldNotes, unsynced <- oldUnsynced,
    pc <- oldPc, key <- oldKey, obj <- oldObj, want <- oldWant, seen <- oldSeen

NewP == INSTANCE DeliveryProofs WITH
    queue <- newQueue, dirty <- newDirty, processing <- newProcessing, delayed <- newDelayed,
    stream <- newStream, cache <- newCache, notes <- newNotes, unsynced <- newUnsynced,
    pc <- newPc, key <- newKey, obj <- newObj, want <- newWant, seen <- newSeen

-----------------------------------------------------------------------------
(* The definitions of Controller are the same by either name. *)

\* What Controller assumes of its constants holds for both.
LEMMA SameConstants ==
    /\ Absent \notin Specs /\ Absent \notin OldP!Object /\ Absent \notin NewP!Object
    /\ Absent \notin OldP!Keys /\ Absent \notin NewP!Keys
    /\ Disturbances \subseteq OldP!Kinds /\ Disturbances \subseteq NewP!Kinds
BY AbsentApart, DisturbanceKinds DEF Keys, Old!Object, OldP!Object, NewP!Object, Old!Statuses,
   OldP!Statuses, NewP!Statuses, Old!Kinds, OldP!Kinds, NewP!Kinds, OldP!Keys, NewP!Keys

\* A step of a worker, and all that the process does by itself.
LEMMA SameOldWorker ==
    ASSUME NEW w \in Workers, Old!WorkerStep(w)
    PROVE  OldP!WorkerStep(w)
<1> USE DEF Old!queueVars, OldP!queueVars, Old!apiVars, OldP!apiVars, Old!informerVars,
        OldP!informerVars, Old!workerVars, OldP!workerVars, Old!outsideVars,
        OldP!outsideVars, Old!historyVars, OldP!historyVars, Old!boundVars, OldP!boundVars,
        Old!Keys, OldP!Keys, Old!Stored, OldP!Stored, Old!Object, OldP!Object,
        Old!Statuses, OldP!Statuses, Old!NameOf, OldP!NameOf, Old!Response, OldP!Response,
        Old!Codes, OldP!Codes, Old!Goto, OldP!Goto, Old!Report, OldP!Report, Old!Disturb,
        OldP!Disturb, Old!Untroubled, OldP!Untroubled
<1>1. Old!Dequeue(w) => OldP!Dequeue(w)
  BY DEF Old!Dequeue, OldP!Dequeue, Old!Take, OldP!Take
<1>2. Old!Lookup(w) => OldP!Lookup(w)
  BY DEF Old!Lookup, OldP!Lookup, Old!ListerGet, OldP!ListerGet
<1>3. Old!CallDelete(w) => OldP!CallDelete(w)
  BY DEF Old!CallDelete, OldP!CallDelete, Old!DeleteOK, OldP!DeleteOK
<1>4. Old!BuildConfig(w) => OldP!BuildConfig(w)
  BY DEF Old!BuildConfig, OldP!BuildConfig, Old!ReportInvalid, OldP!ReportInvalid
<1>5. Old!CallGetConfig(w) => OldP!CallGetConfig(w)
  BY DEF Old!CallGetConfig, OldP!CallGetConfig, Old!GetResponses, OldP!GetResponses,
         Old!GetConfig, OldP!GetConfig, Old!Matches, OldP!Matches
<1>6. Old!CallPutConfig(w) => OldP!CallPutConfig(w)
  BY DEF Old!CallPutConfig, OldP!CallPutConfig, Old!PutConfigOK, OldP!PutConfigOK,
         Old!MustReport, OldP!MustReport
<1>7. Old!UpdateStatus(w) => OldP!UpdateStatus(w)
  BY DEF Old!UpdateStatus, OldP!UpdateStatus, Old!WriteStatus, OldP!WriteStatus, Old!Store,
         OldP!Store, Old!EventFor, OldP!EventFor
<1>8. Old!Conclude(w) => OldP!Conclude(w)
  BY DEF Old!Conclude, OldP!Conclude, Old!Requeue, OldP!Requeue, Old!AddRateLimited,
         OldP!AddRateLimited, Old!Done, OldP!Done
<1> QED
  BY <1>1, <1>2, <1>3, <1>4, <1>5, <1>6, <1>7, <1>8 DEF Old!WorkerStep, OldP!WorkerStep

LEMMA SameOldRuns == OldRuns => OldP!Runs
<1> USE DEF Old!queueVars, OldP!queueVars, Old!apiVars, OldP!apiVars, Old!informerVars,
        OldP!informerVars, Old!workerVars, OldP!workerVars, Old!outsideVars,
        OldP!outsideVars, Old!historyVars, OldP!historyVars, Old!boundVars, OldP!boundVars,
        Old!Keys, OldP!Keys, Old!Stored, OldP!Stored, Old!Object, OldP!Object,
        Old!Statuses, OldP!Statuses
<1>1. ASSUME NEW k \in Keys
      PROVE  /\ Old!InformerDeliver(k) => OldP!InformerDeliver(k)
             /\ Old!HandleNote(k) => OldP!HandleNote(k)
             /\ Old!BackoffExpires(k) => OldP!BackoffExpires(k)
  <2>1. Old!InformerDeliver(k) => OldP!InformerDeliver(k)
    BY DEF Old!InformerDeliver, OldP!InformerDeliver, Old!Deliver, OldP!Deliver,
           Old!NoteFor, OldP!NoteFor
  <2>2. Old!HandleNote(k) => OldP!HandleNote(k)
    BY DEF Old!HandleNote, OldP!HandleNote, Old!Enqueues, OldP!Enqueues, Old!Add, OldP!Add,
           Old!Enqueue, OldP!Enqueue
  <2>3. Old!BackoffExpires(k) => OldP!BackoffExpires(k)
    BY DEF Old!BackoffExpires, OldP!BackoffExpires, Old!Expire, OldP!Expire, Old!Enqueue,
           OldP!Enqueue
  <2> QED
    BY <2>1, <2>2, <2>3
<1> QED
  BY <1>1, SameOldWorker DEF OldRuns, OldP!Runs, Keys

LEMMA SameOldLists == OldLists => OldP!Lists
<1> USE DEF Old!queueVars, OldP!queueVars, Old!apiVars, OldP!apiVars, Old!informerVars,
        OldP!informerVars, Old!workerVars, OldP!workerVars, Old!outsideVars,
        OldP!outsideVars, Old!Keys, OldP!Keys, Old!Disturb, OldP!Disturb
<1>1. Old!BreakWatch => OldP!BreakWatch
  <2>1. \A old, new : Old!ReplaceNotes(old, new) = OldP!ReplaceNotes(old, new)
    BY DEF Old!ReplaceNotes, OldP!ReplaceNotes, Old!NoteFor, OldP!NoteFor
  <2>2. Old!Relist => OldP!Relist
    BY <2>1 DEF Old!Relist, OldP!Relist
  <2> QED
    BY <2>2 DEF Old!BreakWatch, OldP!BreakWatch, Old!historyVars, OldP!historyVars
<1>2. Old!Restart => OldP!Restart
  BY DEF Old!Restart, OldP!Restart, Old!DropAll, OldP!DropAll, Old!StartInformer,
         OldP!StartInformer
<1> QED
  BY <1>1, <1>2 DEF OldLists, OldP!Lists

LEMMA SameNewWorker ==
    ASSUME NEW w \in Workers, New!WorkerStep(w)
    PROVE  NewP!WorkerStep(w)
<1> USE DEF New!queueVars, NewP!queueVars, New!apiVars, NewP!apiVars, New!informerVars,
        NewP!informerVars, New!workerVars, NewP!workerVars, New!outsideVars,
        NewP!outsideVars, New!historyVars, NewP!historyVars, New!boundVars, NewP!boundVars,
        New!Keys, NewP!Keys, New!Stored, NewP!Stored, New!Object, NewP!Object,
        New!Statuses, NewP!Statuses, New!NameOf, NewP!NameOf, New!Response, NewP!Response,
        New!Codes, NewP!Codes, New!Goto, NewP!Goto, New!Report, NewP!Report, New!Disturb,
        NewP!Disturb, New!Untroubled, NewP!Untroubled
<1>1. New!Dequeue(w) => NewP!Dequeue(w)
  BY DEF New!Dequeue, NewP!Dequeue, New!Take, NewP!Take
<1>2. New!Lookup(w) => NewP!Lookup(w)
  BY DEF New!Lookup, NewP!Lookup, New!ListerGet, NewP!ListerGet
<1>3. New!CallDelete(w) => NewP!CallDelete(w)
  BY DEF New!CallDelete, NewP!CallDelete, New!DeleteOK, NewP!DeleteOK
<1>4. New!BuildConfig(w) => NewP!BuildConfig(w)
  BY DEF New!BuildConfig, NewP!BuildConfig, New!ReportInvalid, NewP!ReportInvalid
<1>5. New!CallGetConfig(w) => NewP!CallGetConfig(w)
  BY DEF New!CallGetConfig, NewP!CallGetConfig, New!GetResponses, NewP!GetResponses,
         New!GetConfig, NewP!GetConfig, New!Matches, NewP!Matches
<1>6. New!CallPutConfig(w) => NewP!CallPutConfig(w)
  BY DEF New!CallPutConfig, NewP!CallPutConfig, New!PutConfigOK, NewP!PutConfigOK,
         New!MustReport, NewP!MustReport
<1>7. New!UpdateStatus(w) => NewP!UpdateStatus(w)
  BY DEF New!UpdateStatus, NewP!UpdateStatus, New!WriteStatus, NewP!WriteStatus, New!Store,
         NewP!Store, New!EventFor, NewP!EventFor
<1>8. New!Conclude(w) => NewP!Conclude(w)
  BY DEF New!Conclude, NewP!Conclude, New!Requeue, NewP!Requeue, New!AddRateLimited,
         NewP!AddRateLimited, New!Done, NewP!Done
<1> QED
  BY <1>1, <1>2, <1>3, <1>4, <1>5, <1>6, <1>7, <1>8 DEF New!WorkerStep, NewP!WorkerStep

LEMMA SameNewRuns == NewRuns => NewP!Runs
<1> USE DEF New!queueVars, NewP!queueVars, New!apiVars, NewP!apiVars, New!informerVars,
        NewP!informerVars, New!workerVars, NewP!workerVars, New!outsideVars,
        NewP!outsideVars, New!historyVars, NewP!historyVars, New!boundVars, NewP!boundVars,
        New!Keys, NewP!Keys, New!Stored, NewP!Stored, New!Object, NewP!Object,
        New!Statuses, NewP!Statuses
<1>1. ASSUME NEW k \in Keys
      PROVE  /\ New!InformerDeliver(k) => NewP!InformerDeliver(k)
             /\ New!HandleNote(k) => NewP!HandleNote(k)
             /\ New!BackoffExpires(k) => NewP!BackoffExpires(k)
  <2>1. New!InformerDeliver(k) => NewP!InformerDeliver(k)
    BY DEF New!InformerDeliver, NewP!InformerDeliver, New!Deliver, NewP!Deliver,
           New!NoteFor, NewP!NoteFor
  <2>2. New!HandleNote(k) => NewP!HandleNote(k)
    BY DEF New!HandleNote, NewP!HandleNote, New!Enqueues, NewP!Enqueues, New!Add, NewP!Add,
           New!Enqueue, NewP!Enqueue
  <2>3. New!BackoffExpires(k) => NewP!BackoffExpires(k)
    BY DEF New!BackoffExpires, NewP!BackoffExpires, New!Expire, NewP!Expire, New!Enqueue,
           NewP!Enqueue
  <2> QED
    BY <2>1, <2>2, <2>3
<1> QED
  BY <1>1, SameNewWorker DEF NewRuns, NewP!Runs, Keys

LEMMA SameNewLists == NewLists => NewP!Lists
<1> USE DEF New!queueVars, NewP!queueVars, New!apiVars, NewP!apiVars, New!informerVars,
        NewP!informerVars, New!workerVars, NewP!workerVars, New!outsideVars,
        NewP!outsideVars, New!Keys, NewP!Keys, New!Disturb, NewP!Disturb
<1>1. New!BreakWatch => NewP!BreakWatch
  <2>1. \A old, new : New!ReplaceNotes(old, new) = NewP!ReplaceNotes(old, new)
    BY DEF New!ReplaceNotes, NewP!ReplaceNotes, New!NoteFor, NewP!NoteFor
  <2>2. New!Relist => NewP!Relist
    BY <2>1 DEF New!Relist, NewP!Relist
  <2> QED
    BY <2>2 DEF New!BreakWatch, NewP!BreakWatch, New!historyVars, NewP!historyVars
<1>2. New!Restart => NewP!Restart
  BY DEF New!Restart, NewP!Restart, New!DropAll, NewP!DropAll, New!StartInformer,
         NewP!StartInformer
<1> QED
  BY <1>1, <1>2 DEF NewLists, NewP!Lists

\* To the lemmas, users act beside the old process.
LEMMA SameUsers == Users => OldP!UsersAct
<1> USE DEF Old!queueVars, OldP!queueVars, Old!apiVars, OldP!apiVars, Old!informerVars,
        OldP!informerVars, Old!workerVars, OldP!workerVars, Old!outsideVars,
        OldP!outsideVars, Old!historyVars, OldP!historyVars, Old!boundVars, OldP!boundVars,
        Old!Keys, OldP!Keys, Old!Stored, OldP!Stored, Old!Object, OldP!Object,
        Old!Statuses, OldP!Statuses
<1>1. ASSUME NEW k \in Keys, NEW s \in Specs
      PROVE  /\ Old!CreateConnector(k, s) => OldP!CreateConnector(k, s)
             /\ Old!EditConnector(k, s) => OldP!EditConnector(k, s)
  BY DEF Old!CreateConnector, OldP!CreateConnector, Old!EditConnector, OldP!EditConnector,
     Old!Edit, OldP!Edit, Old!Store, OldP!Store
<1>2. ASSUME NEW k \in Keys
      PROVE  Old!DeleteConnector(k) => OldP!DeleteConnector(k)
  BY DEF Old!DeleteConnector, OldP!DeleteConnector, Old!Edit, OldP!Edit, Old!Remove, OldP!Remove
<1> QED
  BY <1>1, <1>2 DEF Users, OldP!UsersAct, Keys

LEMMA SameActs ==
    /\ Users \/ OldRuns \/ OldLists => OldP!Acts
    /\ NewRuns \/ NewLists => NewP!Acts
BY SameUsers, SameOldRuns, SameOldLists, SameNewRuns, SameNewLists DEF OldP!Acts, NewP!Acts

\* At rest means the same by either name.
LEMMA SameAtRest ==
    ASSUME NEW k \in Keys
    PROVE  (Old!AtRest(k) <=> OldP!AtRest(k)) /\ (New!AtRest(k) <=> NewP!AtRest(k))
BY DEF Old!AtRest, OldP!AtRest, New!AtRest, NewP!AtRest, Old!Wakes, OldP!Wakes, New!Wakes, NewP!Wakes,
   Old!Enqueues, OldP!Enqueues, New!Enqueues, NewP!Enqueues

-----------------------------------------------------------------------------
(* Each process is sound while it runs, whatever the other one does. *)

Processes ==
    /\ phase \in {"old", "both", "new"}
    /\ phase # "new" => OldP!Sound
    /\ IF phase = "old" THEN NewP!Unborn ELSE NewP!Sound

\* The types of Connect and the rest are the same to both.
LEMMA OutsideShared ==
    (OldP!Sound => NewP!OutsideTyped) /\ (NewP!Sound => OldP!OutsideTyped)
BY DEF OldP!Sound, OldP!Typed, OldP!TypeOK, OldP!OutsideTyped, OldP!Events, OldP!Keys,
   NewP!Sound, NewP!Typed, NewP!TypeOK, NewP!OutsideTyped, NewP!Events, NewP!Keys

\* And so is what is written to the API server.
LEMMA ServedShared == OldP!Served <=> NewP!Served
BY DEF OldP!Served, OldP!Keys, OldP!Stored, OldP!Object, OldP!Statuses,
   NewP!Served, NewP!Keys, NewP!Stored, NewP!Object, NewP!Statuses

\* Whatever a process does, it stays sound, and so does what the API server has.
LEMMA OldServes ==
    ASSUME OldP!Sound, OldP!Acts
    PROVE  OldP!Sound' /\ OldP!Served
<1>1. [OldP!Next]_(OldP!vars)
  BY OldP!ActsNext, SameConstants, SpecKinds, Bounds
<1>2. OldP!Sound'
  BY <1>1, OldP!NextSound, SameConstants, SpecKinds, Bounds
<1>3. OldP!Served
  BY <1>1, OldP!NextServes, SameConstants, SpecKinds, Bounds DEF OldP!Sound
<1> QED
  BY <1>2, <1>3

LEMMA NewServes ==
    ASSUME NewP!Sound, NewP!Acts
    PROVE  NewP!Sound' /\ NewP!Served
<1>1. [NewP!Next]_(NewP!vars)
  BY NewP!ActsNext, SameConstants, SpecKinds, Bounds
<1>2. NewP!Sound'
  BY <1>1, NewP!NextSound, SameConstants, SpecKinds, Bounds
<1>3. NewP!Served
  BY <1>1, NewP!NextServes, SameConstants, SpecKinds, Bounds DEF NewP!Sound
<1> QED
  BY <1>2, <1>3

\* While the old process or the users act, the new one watches, once it has
\* started.
LEMMA OldActs ==
    ASSUME Processes, OldP!Acts, OldAlone
    PROVE  /\ phase # "new" /\ phase' = phase /\ OldP!Sound /\ Processes'
           /\ IF phase = "old" THEN UNCHANGED newVars ELSE NewP!Sound /\ NewP!Watches
<1>1. /\ phase \in {"old", "both"} /\ phase' = phase /\ OldP!Sound
      /\ newStream' = IF phase = "both" THEN Echo(newStream) ELSE newStream
      /\ UNCHANGED <<newQueue, newDirty, newProcessing, newDelayed, newCache, newNotes,
                     newUnsynced, newPc, newKey, newObj, newWant, newSeen>>
  BY DEF Processes, OldAlone
<1>2. OldP!Sound' /\ NewP!Served
  BY <1>1, OldServes, ServedShared
<1>3. CASE phase = "old"
  <2>1. UNCHANGED newVars
    BY <1>1, <1>3 DEF newVars
  <2>2. NewP!Unborn'
    BY <1>3, <2>1 DEF Processes, newVars, NewP!Unborn, NewP!QueueInit
  <2> QED
    BY <1>1, <1>2, <1>3, <2>1, <2>2 DEF Processes
<1>4. CASE phase = "both"
  <2>1. NewP!Watches /\ NewP!Sound
    BY <1>1, <1>2, <1>4 DEF Processes, NewP!Watches, NewP!Streamed, NewP!queueVars,
       NewP!informerVars, NewP!workerVars, Echo, Keys, NewP!Keys
  <2>2. NewP!OutsideTyped'
    BY <1>2, OutsideShared, PTL
  <2>3. NewP!Sound'
    BY <2>1, <2>2, NewP!WatchSound, SameConstants, SpecKinds, Bounds
  <2> QED
    BY <1>1, <1>2, <1>4, <2>1, <2>3 DEF Processes
<1> QED
  BY <1>1, <1>3, <1>4

\* While the new process acts, the old one watches, if it is still there.
LEMMA NewActs ==
    ASSUME Processes, NewP!Acts, NewAlone
    PROVE  /\ phase # "old" /\ phase' = phase /\ NewP!Sound /\ Processes'
           /\ IF phase = "new" THEN UNCHANGED oldVars ELSE OldP!Sound /\ OldP!Watches
<1>1. /\ phase \in {"both", "new"} /\ phase' = phase /\ NewP!Sound
      /\ oldStream' = IF phase = "both" THEN Echo(oldStream) ELSE oldStream
      /\ UNCHANGED <<oldQueue, oldDirty, oldProcessing, oldDelayed, oldCache, oldNotes,
                     oldUnsynced, oldPc, oldKey, oldObj, oldWant, oldSeen>>
  BY DEF Processes, NewAlone
<1>2. NewP!Sound' /\ OldP!Served
  BY <1>1, NewServes, ServedShared
<1>3. CASE phase = "new"
  <2>1. UNCHANGED oldVars
    BY <1>1, <1>3 DEF oldVars
  <2> QED
    BY <1>1, <1>2, <1>3, <2>1 DEF Processes
<1>4. CASE phase = "both"
  <2>1. OldP!Watches /\ OldP!Sound
    BY <1>1, <1>2, <1>4 DEF Processes, OldP!Watches, OldP!Streamed, OldP!queueVars,
       OldP!informerVars, OldP!workerVars, Echo, Keys, OldP!Keys
  <2>2. OldP!OutsideTyped'
    BY <1>2, OutsideShared, PTL
  <2>3. OldP!Sound'
    BY <2>1, <2>2, OldP!WatchSound, SameConstants, SpecKinds, Bounds
  <2> QED
    BY <1>1, <1>2, <1>4, <2>1, <2>3 DEF Processes
<1> QED
  BY <1>1, <1>3, <1>4

\* The new process starts with what the API server has, and the old one with
\* nothing.
LEMMA StartProcesses ==
    ASSUME Processes, StartNew
    PROVE  Processes' /\ phase = "old" /\ phase' = "both" /\ UNCHANGED <<api, connect, dangling, oldVars>>
<1>1. /\ OldP!Sound /\ NewP!Unborn /\ NewP!StartInformer /\ phase = "old" /\ phase' = "both"
      /\ UNCHANGED <<connect, dangling, event, lastPut, edits, disturbances, oldVars,
                     newQueue, newDirty, newProcessing, newDelayed, newPc, newKey, newObj,
                     newWant, newSeen>>
  BY DEF StartNew, Processes, New!StartInformer, NewP!StartInformer, New!Keys, NewP!Keys
<1>2. UNCHANGED <<api, version>>
  BY <1>1 DEF NewP!StartInformer
<1>3. OldP!Sound'
  <2>1. UNCHANGED OldP!vars
    BY <1>1, <1>2 DEF oldVars, OldP!vars, OldP!queueVars, OldP!apiVars, OldP!informerVars,
       OldP!workerVars, OldP!outsideVars, OldP!historyVars, OldP!boundVars
  <2> QED
    BY <1>1, <2>1, OldP!NextSound, SameConstants, SpecKinds, Bounds
<1>4. NewP!Sound'
  <2>1. /\ api \in [NewP!Keys -> NewP!Stored] /\ version \in [NewP!Keys -> Nat]
        /\ \A k \in NewP!Keys : NewP!Given(k, api[k])
    BY <1>1 DEF OldP!Sound, OldP!Typed, OldP!TypeOK, OldP!InformerTypeOK, OldP!Fresh, OldP!KeyDated,
       OldP!Given, NewP!Given, OldP!Keys, NewP!Keys, OldP!Stored, NewP!Stored, OldP!Object,
       NewP!Object, OldP!Statuses, NewP!Statuses
  <2>2. NewP!OutsideTyped
    BY <1>1, OutsideShared
  <2>3. UNCHANGED <<NewP!queueVars, NewP!workerVars, NewP!outsideVars, event, newSeen, lastPut,
                    NewP!boundVars>>
    BY <1>1 DEF NewP!queueVars, NewP!workerVars, NewP!outsideVars, NewP!boundVars
  <2> QED
    BY <1>1, <2>1, <2>2, <2>3, NewP!StartSound, SameConstants, SpecKinds, Bounds
<1> QED
  BY <1>1, <1>2, <1>3, <1>4 DEF Processes

\* A step that leaves the new process and what is shared alone.
LEMMA NewRests ==
    ASSUME NewP!Sound, UNCHANGED <<commonVars, newVars>>
    PROVE  NewP!Sound'
<1>1. UNCHANGED NewP!vars
  BY DEF commonVars, newVars, NewP!vars, NewP!queueVars, NewP!apiVars, NewP!informerVars,
     NewP!workerVars, NewP!outsideVars, NewP!historyVars, NewP!boundVars
<1> QED
  BY <1>1, NewP!NextSound, SameConstants, SpecKinds, Bounds

\* A step that changes nothing.
LEMMA StutterProcesses ==
    ASSUME Processes, UNCHANGED rolloutVars
    PROVE  Processes'
<1>1. UNCHANGED <<commonVars, oldVars, newVars, phase>>
  BY DEF rolloutVars
<1>2. OldP!Sound => OldP!Sound'
  <2>1. UNCHANGED OldP!vars
    BY <1>1 DEF commonVars, oldVars, OldP!vars, OldP!queueVars, OldP!apiVars, OldP!informerVars,
       OldP!workerVars, OldP!outsideVars, OldP!historyVars, OldP!boundVars
  <2> QED
    BY <2>1, OldP!NextSound, SameConstants, SpecKinds, Bounds
<1>3. NewP!Unborn => NewP!Unborn'
  BY <1>1 DEF newVars, NewP!Unborn, NewP!QueueInit
<1> QED
  BY <1>1, <1>2, <1>3, NewRests DEF Processes

\* At first there is the old process alone.
LEMMA InitProcesses == RolloutInit => Processes
<1> SUFFICES ASSUME RolloutInit
             PROVE  Processes
  OBVIOUS
<1>1. OldP!Init
  BY DEF RolloutInit, Old!Init, OldP!Init, Old!QueueInit, OldP!QueueInit, Old!InformerInit,
     OldP!InformerInit, Old!Keys, OldP!Keys
<1>2. OldP!Sound
  BY <1>1, OldP!InitSound, SameConstants, SpecKinds, Bounds
<1>3. NewP!Unborn
  BY DEF RolloutInit, New!Init, New!QueueInit, NewP!QueueInit, New!InformerInit, NewP!Unborn,
     New!Keys, NewP!Keys
<1> QED
  BY <1>2, <1>3 DEF RolloutInit, Processes

\* Keys whose deletion the step does not hide from a process.
OldHeeds == \A k \in Keys \ missed' : k \notin missed /\ OldP!Heeds(k)
NewHeeds == \A k \in Keys \ missed' : k \notin missed /\ NewP!Heeds(k)

\* Every step is that of one process, or starts or stops one.
LEMMA NextActs ==
    ASSUME [RolloutNext]_rolloutVars
    PROVE  \/ (StartNew \/ StopOld \/ UNCHANGED rolloutVars) /\ UNCHANGED missed
           \/ OldP!Acts /\ OldAlone /\ OldHeeds
           \/ NewP!Acts /\ NewAlone /\ NewHeeds
<1>1. CASE (Users \/ OldRuns) /\ OldAlone /\ UNCHANGED missed
  BY <1>1, SameActs, SameUsers, SameOldRuns DEF OldHeeds, OldP!Heeds
<1>2. CASE NewRuns /\ NewAlone /\ UNCHANGED missed
  BY <1>2, SameActs, SameNewRuns DEF NewHeeds, NewP!Heeds
<1>3. CASE OldLists /\ OldAlone
  <2>1. OldHeeds
    BY <1>3, SameOldLists, SameAtRest DEF OldLists, OldHeeds, OldP!Heeds
  <2> QED
    BY <1>3, <2>1, SameActs
<1>4. CASE NewLists /\ NewAlone
  <2>1. NewHeeds
    BY <1>4, SameNewLists, SameAtRest DEF NewLists, NewHeeds, NewP!Heeds
  <2> QED
    BY <1>4, <2>1, SameActs
<1>5. CASE StartNew \/ StopOld \/ UNCHANGED rolloutVars
  BY <1>5 DEF StartNew, StopOld, rolloutVars
<1> QED
  BY <1>1, <1>2, <1>3, <1>4, <1>5 DEF RolloutNext

\* Whatever runs, starts or stops, both processes stay sound.
LEMMA NextProcesses ==
    ASSUME Processes, [RolloutNext]_rolloutVars
    PROVE  Processes'
<1>1. CASE StopOld
  <2>1. phase = "both" /\ phase' = "new" /\ UNCHANGED <<commonVars, newVars>>
    BY <1>1 DEF StopOld
  <2> QED
    BY <2>1, NewRests DEF Processes
<1> QED
  BY <1>1, NextActs, OldActs, NewActs, StartProcesses, StutterProcesses

-----------------------------------------------------------------------------
(* Resources that exist. *)

\* syncHandler hands the name alone to Connect, so the namespaces matter.
OwnNames == \A j, k \in Keys : j[2] = k[2] => j = k

BothUnfailing == OldP!Unfailing /\ NewP!Unfailing

\* The old process has concluded its sync of k, or had when it stopped.
OldDone(k) == IF phase = "new" THEN k \notin abandoned ELSE OldP!Concluded(k)

Agreed == \A k \in Keys : OldDone(k) /\ NewP!Concluded(k) => connect[k[2]] = api[k].spec

\* Names are the same to both.
LEMMA SameNames == OwnNames => OldP!OwnNames /\ NewP!OwnNames
BY DEF OwnNames, Keys, OldP!OwnNames, OldP!Keys, OldP!NameOf, NewP!OwnNames, NewP!Keys, NewP!NameOf

\* Without a failed read no sync ends in a refusal, in either process.
LEMMA NextUnfailing ==
    ASSUME Processes, BothUnfailing, "read" \notin Disturbances, [RolloutNext]_rolloutVars
    PROVE  BothUnfailing'
<1>1. CASE OldP!Acts /\ OldAlone
  <2>1. OldP!Unfailing'
    BY <1>1, OldActs, OldP!ActsUnfailing, SameConstants, SpecKinds, Bounds DEF OldP!Sound, BothUnfailing
  <2>2. UNCHANGED <<newPc, newWant>>
    BY <1>1 DEF OldAlone
  <2> QED
    BY <2>1, <2>2 DEF BothUnfailing, OldP!Unfailing, NewP!Unfailing
<1>2. CASE NewP!Acts /\ NewAlone
  <2>1. NewP!Unfailing'
    BY <1>2, NewActs, NewP!ActsUnfailing, SameConstants, SpecKinds, Bounds DEF NewP!Sound, BothUnfailing
  <2>2. UNCHANGED <<oldPc, oldWant>>
    BY <1>2 DEF NewAlone
  <2> QED
    BY <2>1, <2>2 DEF BothUnfailing, OldP!Unfailing, NewP!Unfailing
<1>3. CASE StopOld
  BY <1>3 DEF StopOld, commonVars, newVars, BothUnfailing, OldP!Unfailing, NewP!Unfailing
<1>4. CASE StartNew \/ UNCHANGED rolloutVars
  <2>1. UNCHANGED <<dangling, oldPc, oldWant, newPc, newWant>>
    BY <1>4 DEF StartNew, oldVars, newVars, commonVars, rolloutVars
  <2> QED
    BY <2>1 DEF BothUnfailing, OldP!Unfailing, NewP!Unfailing
<1> QED
  BY <1>1, <1>2, <1>3, <1>4, NextActs

\* Whichever process brings its sync to an end, the other one has looked up
\* the same version.
LEMMA NextAgreed ==
    ASSUME OwnNames, Processes, BothUnfailing, Agreed, [RolloutNext]_rolloutVars
    PROVE  Agreed'
<1> SUFFICES ASSUME NEW k \in Keys, OldDone(k)', NewP!Concluded(k)'
             PROVE  connect'[k[2]] = api'[k].spec
  BY DEF Agreed
<1>k. k \in OldP!Keys /\ k \in NewP!Keys /\ OldP!NameOf(k) = k[2] /\ NewP!NameOf(k) = k[2]
  BY DEF Keys, OldP!Keys, NewP!Keys, OldP!NameOf, NewP!NameOf
<1>1. CASE OldP!Acts /\ OldAlone
  <2>1. /\ phase # "new" /\ phase' = phase /\ OldP!Sound
        /\ IF phase = "old" THEN UNCHANGED newVars ELSE NewP!Sound /\ NewP!Watches
    BY <1>1, OldActs
  <2>2. OldP!Concluded(k)'
    BY <2>1 DEF OldDone
  <2>3. /\ api'[k] = api[k]
        /\ \/ connect'[k[2]] = api[k].spec
           \/ OldP!Concluded(k) /\ connect'[k[2]] = connect[k[2]]
    BY <1>1, <1>k, <2>1, <2>2, SameNames, OldP!ActsConcludes, SameConstants, SpecKinds, Bounds
       DEF BothUnfailing
  <2>4. NewP!Concluded(k)
    <3>1. CASE phase = "old"
      BY <2>1, <2>3, <3>1 DEF newVars, NewP!Concluded, NewP!Unattended, NewP!Ending
    <3>2. CASE phase # "old"
      BY <1>k, <2>1, <2>3, <3>2, NewP!WatchKeeps, SameConstants, SpecKinds, Bounds
    <3> QED
      BY <3>1, <3>2
  <2> QED
    BY <2>1, <2>3, <2>4 DEF Agreed, OldDone
<1>2. CASE NewP!Acts /\ NewAlone
  <2>1. /\ phase # "old" /\ phase' = phase /\ NewP!Sound /\ abandoned' = abandoned
        /\ IF phase = "new" THEN UNCHANGED oldVars ELSE OldP!Sound /\ OldP!Watches
    BY <1>2, NewActs DEF NewAlone
  <2>2. /\ api'[k] = api[k]
        /\ \/ connect'[k[2]] = api[k].spec
           \/ NewP!Concluded(k) /\ connect'[k[2]] = connect[k[2]]
    BY <1>2, <1>k, <2>1, SameNames, NewP!ActsConcludes, SameConstants, SpecKinds, Bounds
       DEF BothUnfailing
  <2>3. OldDone(k)
    <3>1. CASE phase = "new"
      BY <2>1, <3>1 DEF OldDone
    <3>2. CASE phase # "new"
      BY <1>k, <2>1, <2>2, <3>2, OldP!WatchKeeps, SameConstants, SpecKinds, Bounds DEF OldDone
    <3> QED
      BY <3>1, <3>2
  <2> QED
    BY <2>2, <2>3 DEF Agreed
<1>3. CASE StartNew
  <2>1. newSeen'[k] = Absent
    BY <1>3 DEF StartNew, Processes, NewP!Unborn, NewP!Keys, Keys
  <2> QED
    BY <2>1 DEF NewP!Concluded
<1>4. CASE StopOld
  <2>1. /\ phase = "both" /\ OldP!Sound /\ UNCHANGED <<commonVars, newVars>>
        /\ Old!AtRest(k)
    BY <1>4 DEF StopOld, Processes, OldDone
  <2>2. NewP!Concluded(k) /\ UNCHANGED <<api, connect>>
    BY <2>1 DEF commonVars, newVars, NewP!Concluded, NewP!Unattended, NewP!Ending
  <2>3. OldP!Concluded(k)
    BY <1>k, <2>1, <2>2, SameAtRest, OldP!AtRestKeeps, SameConstants, SpecKinds, Bounds
       DEF NewP!Concluded
  <2> QED
    BY <2>1, <2>2, <2>3 DEF Agreed, OldDone
<1>5. CASE UNCHANGED rolloutVars
  BY <1>5 DEF rolloutVars, commonVars, oldVars, newVars, Agreed, OldDone, OldP!Concluded,
     OldP!Unattended, OldP!Ending, NewP!Concluded, NewP!Unattended, NewP!Ending
<1> QED
  BY <1>1, <1>2, <1>3, <1>4, <1>5, NextActs

(***************************************************************************)
(* Two processes may both act on a resource, and the one behind may put an *)
(* old config over a new one, or delete what the other one has put.  When  *)
(* both are done with it, Connect runs its present config (syncHandler,    *)
(* under manifests/deployment.yaml without a strategy), be it after broken *)
(* watches and crashes of either one.  A read that fails for a moment is   *)
(* left out, and so are Secrets and ConfigMaps that change: both leave a   *)
(* config invalid.  A name is one of one namespace only.                   *)
(***************************************************************************)
THEOREM RolloutsMatch ==
    OwnNames /\ "read" \notin Disturbances => (RolloutSpec => []RolloutMatches)
<1> SUFFICES ASSUME OwnNames, "read" \notin Disturbances
             PROVE  RolloutSpec => []RolloutMatches
  OBVIOUS
<1>1. RolloutInit => BothUnfailing /\ Agreed
  <2> SUFFICES ASSUME RolloutInit
               PROVE  BothUnfailing /\ Agreed
    OBVIOUS
  <2>1. BothUnfailing
    BY DEF RolloutInit, Old!Init, New!Init, BothUnfailing, OldP!Unfailing, NewP!Unfailing
  <2>2. Agreed
    BY DEF RolloutInit, New!Init, Agreed, NewP!Concluded, New!Keys, Keys
  <2> QED
    BY <2>1, <2>2
<1>2. Processes /\ BothUnfailing /\ Agreed /\ [RolloutNext]_rolloutVars
          => Processes' /\ BothUnfailing' /\ Agreed'
  BY NextProcesses, NextUnfailing, NextAgreed
<1>3. Processes /\ Agreed => RolloutMatches
  <2> SUFFICES ASSUME Processes, Agreed, NEW k \in Keys, AllAtRest(k), api[k] # Absent
               PROVE  connect[k[2]] = api[k].spec
    BY DEF RolloutMatches
  <2>1. k \in OldP!Keys /\ k \in NewP!Keys /\ OldP!AtRest(k) /\ NewP!AtRest(k)
    BY SameAtRest DEF AllAtRest, Keys, OldP!Keys, NewP!Keys
  <2>2. NewP!Concluded(k)
    BY <2>1, NewP!AtRestKeeps, SameConstants, SpecKinds, Bounds DEF Processes, AllAtRest
  <2>3. phase # "new" => OldP!Concluded(k)
    BY <2>1, OldP!AtRestKeeps, SameConstants, SpecKinds, Bounds DEF Processes
  <2> QED
    BY <2>2, <2>3 DEF Agreed, OldDone, AllAtRest
<1> QED
  BY <1>1, <1>2, <1>3, InitProcesses, PTL DEF RolloutSpec

-----------------------------------------------------------------------------
(* Resources that are gone. *)

BothHeard == \A k \in Keys \ missed : OldP!Heard(k) /\ NewP!Heard(k)

\* Nothing leads the old process to k, or did when it stopped.
OldGone(k) == IF phase = "new" THEN k \notin abandoned ELSE OldP!Calm(k)

Cleared == \A k \in Keys \ missed : OldGone(k) /\ NewP!Calm(k) => connect[k[2]] = Absent

\* What a process has heard does not change while it is left alone.
LEMMA StillHeard ==
    ASSUME NEW k \in Keys
    PROVE  /\ UNCHANGED oldVars => (OldP!Heard(k) => OldP!Heard(k)')
           /\ UNCHANGED newVars => (NewP!Heard(k) => NewP!Heard(k)')
           /\ UNCHANGED newVars => (NewP!Calm(k)' => NewP!Calm(k))
           /\ UNCHANGED oldVars => (OldP!Calm(k)' => OldP!Calm(k))
BY DEF oldVars, newVars, OldP!Heard, NewP!Heard, OldP!Calm, NewP!Calm, OldP!Traced, NewP!Traced,
   OldP!Wakes, NewP!Wakes, OldP!Tombstoned, NewP!Tombstoned, OldP!HoldsCopy, NewP!HoldsCopy,
   OldP!Enqueues, NewP!Enqueues

\* A process that has not started holds no copy, nor does one that stopped,
\* and neither has been told anything.
LEMMA NothingHeard ==
    ASSUME NEW k \in Keys
    PROVE  /\ NewP!Unborn => NewP!Heard(k)
           /\ StartNew /\ NewP!Unborn => NewP!Heard(k)'
           /\ StopOld => OldP!Heard(k)'
<1>1. ASSUME newNotes = [j \in Keys |-> <<>>], newObj = [w \in Workers |-> Absent]
      PROVE  NewP!Heard(k)
  BY <1>1 DEF NewP!Heard, NewP!Tombstoned, NewP!HoldsCopy
<1>2. ASSUME newNotes' = [j \in Keys |-> <<>>], newObj' = [w \in Workers |-> Absent]
      PROVE  NewP!Heard(k)'
  BY <1>2 DEF NewP!Heard, NewP!Tombstoned, NewP!HoldsCopy
<1>3. StopOld => OldP!Heard(k)'
  BY DEF StopOld, OldP!Heard, OldP!Tombstoned, OldP!HoldsCopy
<1> QED
  BY <1>1, <1>2, <1>3 DEF NewP!Unborn, StartNew, New!StartInformer, New!Keys, NewP!Keys, Keys

\* Neither process misses a deletion that no list hid from it: it is told of
\* it by no tombstone, and each DELETE takes effect.
LEMMA NextHeard ==
    ASSUME OwnNames, Processes, BothHeard, "delete" \notin Disturbances, [RolloutNext]_rolloutVars
    PROVE  BothHeard'
<1> SUFFICES ASSUME NEW k \in Keys, k \notin missed'
             PROVE  OldP!Heard(k)' /\ NewP!Heard(k)'
  BY DEF BothHeard
<1>k. /\ k \in OldP!Keys /\ k \in NewP!Keys
      /\ k \notin missed => OldP!Heard(k) /\ NewP!Heard(k)
  BY DEF Keys, OldP!Keys, NewP!Keys, BothHeard
<1>1. CASE OldP!Acts /\ OldAlone /\ OldHeeds
  <2>1. /\ OldP!Sound /\ OldP!Heard(k) /\ NewP!Heard(k) /\ OldP!Heeds(k)
        /\ IF phase = "old" THEN UNCHANGED newVars ELSE NewP!Sound /\ NewP!Watches
    BY <1>1, <1>k, OldActs DEF OldHeeds
  <2>2. OldP!Heard(k)'
    BY <1>k, <2>1, SameNames, OldP!ActsHeard, SameConstants, SpecKinds, Bounds
  <2>3. NewP!Heard(k)'
    <3>1. CASE phase = "old"
      BY <2>1, <3>1, StillHeard
    <3>2. CASE phase # "old"
      BY <1>k, <2>1, <3>2, NewP!WatchKeeps, SameConstants, SpecKinds, Bounds DEF NewP!Heard
    <3> QED
      BY <3>1, <3>2
  <2> QED
    BY <2>2, <2>3
<1>2. CASE NewP!Acts /\ NewAlone /\ NewHeeds
  <2>1. /\ NewP!Sound /\ OldP!Heard(k) /\ NewP!Heard(k) /\ NewP!Heeds(k)
        /\ IF phase = "new" THEN UNCHANGED oldVars ELSE OldP!Sound /\ OldP!Watches
    BY <1>2, <1>k, NewActs DEF NewHeeds
  <2>2. NewP!Heard(k)'
    BY <1>k, <2>1, SameNames, NewP!ActsHeard, SameConstants, SpecKinds, Bounds
  <2>3. OldP!Heard(k)'
    <3>1. CASE phase = "new"
      BY <2>1, <3>1, StillHeard
    <3>2. CASE phase # "new"
      BY <1>k, <2>1, <3>2, OldP!WatchKeeps, SameConstants, SpecKinds, Bounds DEF OldP!Heard
    <3> QED
      BY <3>1, <3>2
  <2> QED
    BY <2>2, <2>3
<1>3. CASE StartNew /\ UNCHANGED missed
  <2>1. NewP!Unborn /\ UNCHANGED oldVars
    BY <1>3 DEF StartNew, Processes
  <2> QED
    BY <1>3, <1>k, <2>1, NothingHeard, StillHeard
<1>4. CASE StopOld /\ UNCHANGED missed
  <2>1. UNCHANGED newVars
    BY <1>4 DEF StopOld
  <2> QED
    BY <1>4, <1>k, <2>1, NothingHeard, StillHeard
<1>5. CASE UNCHANGED rolloutVars
  BY <1>5, <1>k, StillHeard DEF rolloutVars
<1> QED
  BY <1>1, <1>2, <1>3, <1>4, <1>5, NextActs

\* Whichever process removes the connector last, nothing leads the other one
\* to it any more.
LEMMA NextCleared ==
    ASSUME OwnNames, Processes, BothHeard, Cleared, "delete" \notin Disturbances,
           [RolloutNext]_rolloutVars
    PROVE  Cleared'
<1> SUFFICES ASSUME NEW k \in Keys, k \notin missed', OldGone(k)', NewP!Calm(k)'
             PROVE  connect'[k[2]] = Absent
  BY DEF Cleared
<1>k. k \in OldP!Keys /\ k \in NewP!Keys /\ OldP!NameOf(k) = k[2] /\ NewP!NameOf(k) = k[2]
  BY DEF Keys, OldP!Keys, NewP!Keys, OldP!NameOf, NewP!NameOf
<1>1. CASE OldP!Acts /\ OldAlone /\ OldHeeds
  <2>1. /\ phase # "new" /\ phase' = phase /\ OldP!Sound
        /\ IF phase = "old" THEN UNCHANGED newVars ELSE NewP!Sound /\ NewP!Watches
    BY <1>1, OldActs
  <2>2. OldP!Calm(k)' /\ k \notin missed /\ OldP!Heeds(k) /\ OldP!Heard(k)
    BY <1>1, <2>1 DEF OldGone, OldHeeds, BothHeard
  <2>3. \/ connect'[k[2]] = Absent
        \/ OldP!Calm(k) /\ connect'[k[2]] = connect[k[2]]
    BY <1>k, <2>1, <2>2, SameNames, OldP!ActsCalms, SameConstants, SpecKinds, Bounds
  <2>4. NewP!Calm(k)
    BY <1>k, <2>1, StillHeard, NewP!WatchKeeps, SameConstants, SpecKinds, Bounds
  <2> QED
    BY <2>1, <2>2, <2>3, <2>4 DEF Cleared, OldGone
<1>2. CASE NewP!Acts /\ NewAlone /\ NewHeeds
  <2>1. /\ phase # "old" /\ phase' = phase /\ NewP!Sound /\ abandoned' = abandoned
        /\ IF phase = "new" THEN UNCHANGED oldVars ELSE OldP!Sound /\ OldP!Watches
    BY <1>2, NewActs DEF NewAlone
  <2>2. k \notin missed /\ NewP!Heeds(k) /\ NewP!Heard(k)
    BY <1>2 DEF NewHeeds, BothHeard
  <2>3. \/ connect'[k[2]] = Absent
        \/ NewP!Calm(k) /\ connect'[k[2]] = connect[k[2]]
    BY <1>k, <2>1, <2>2, SameNames, NewP!ActsCalms, SameConstants, SpecKinds, Bounds
  <2>4. OldGone(k)
    <3>1. CASE phase = "new"
      BY <2>1, <3>1 DEF OldGone
    <3>2. CASE phase # "new"
      BY <1>k, <2>1, <3>2, OldP!WatchKeeps, SameConstants, SpecKinds, Bounds DEF OldGone
    <3> QED
      BY <3>1, <3>2
  <2> QED
    BY <2>2, <2>3, <2>4 DEF Cleared
<1>3. CASE StartNew /\ UNCHANGED missed
  <2>1. /\ phase = "old" /\ phase' = "both" /\ NewP!Unborn /\ UNCHANGED oldVars
        /\ connect' = connect
    BY <1>3 DEF StartNew, Processes
  <2>2. NewP!Calm(k)
    BY <1>k, <2>1, SameConstants DEF NewP!Unborn, NewP!QueueInit, NewP!Calm, NewP!Traced, NewP!Wakes,
       NewP!Tombstoned
  <2>3. OldP!Calm(k)
    BY <2>1, StillHeard DEF OldGone
  <2> QED
    BY <1>3, <2>1, <2>2, <2>3 DEF Cleared, OldGone
<1>4. CASE StopOld /\ UNCHANGED missed
  <2>1. /\ phase = "both" /\ OldP!Sound /\ NewP!Sound /\ UNCHANGED <<commonVars, newVars>>
        /\ Old!AtRest(k)
    BY <1>4 DEF StopOld, Processes, OldGone
  <2>2. NewP!Calm(k) /\ connect' = connect
    BY <2>1, StillHeard DEF commonVars
  <2>3. api[k] = Absent
    BY <1>k, <2>1, <2>2 DEF NewP!Sound, NewP!Tracked, NewP!Trails, NewP!Calm
  <2>4. OldP!Calm(k)
    BY <1>4, <1>k, <2>1, <2>3, SameAtRest, OldP!AtRestKeeps, SameConstants, SpecKinds, Bounds
       DEF BothHeard, OldP!Heard
  <2> QED
    BY <1>4, <2>1, <2>2, <2>4 DEF Cleared, OldGone
<1>5. CASE UNCHANGED rolloutVars
  <2>1. UNCHANGED <<oldVars, newVars, phase, abandoned, missed, connect>>
    BY <1>5 DEF rolloutVars, commonVars
  <2> QED
    BY <2>1, StillHeard DEF Cleared, OldGone
<1> QED
  BY <1>1, <1>2, <1>3, <1>4, <1>5, NextActs

(***************************************************************************)
(* Neither process brings back for good what the other one has removed:    *)
(* when both are done with a deleted resource, it has no connector (the    *)
(* delete handler and syncHandler).  Two things are left out: a DELETE     *)
(* that fails, for it is not tried again, and a resource whose deletion a  *)
(* process had not dealt with when its watch broke or it crashed (missed), *)
(* for it queues no tombstone.  Referred Secrets do not change, names are  *)
(* those of one namespace each, and everything else may go as it likes.    *)
(***************************************************************************)
THEOREM RolloutsRemove ==
    OwnNames /\ "delete" \notin Disturbances => (RolloutSpec => []RolloutRemoves)
<1> SUFFICES ASSUME OwnNames, "delete" \notin Disturbances
             PROVE  RolloutSpec => []RolloutRemoves
  OBVIOUS
<1>1. RolloutInit => BothHeard /\ Cleared
  <2> SUFFICES ASSUME RolloutInit
               PROVE  BothHeard /\ Cleared
    OBVIOUS
  <2>1. \A k \in Keys : OldP!Heard(k)
    BY DEF RolloutInit, Old!Init, Old!InformerInit, OldP!Heard, OldP!Tombstoned, OldP!HoldsCopy,
       Keys, Old!Keys
  <2>2. \A k \in Keys : NewP!Heard(k)
    BY InitProcesses, NothingHeard DEF RolloutInit, Processes
  <2>3. Cleared
    BY DEF RolloutInit, Old!Init, Cleared, Keys
  <2> QED
    BY <2>1, <2>2, <2>3 DEF BothHeard
<1>2. Processes /\ BothHeard /\ Cleared /\ [RolloutNext]_rolloutVars
          => Processes' /\ BothHeard' /\ Cleared'
  BY NextProcesses, NextHeard, NextCleared
<1>3. Processes /\ BothHeard /\ Cleared => RolloutRemoves
  <2> SUFFICES ASSUME Processes, BothHeard, Cleared, NEW k \in Keys, AllAtRest(k),
                      k \notin missed, api[k] = Absent
               PROVE  connect[k[2]] = Absent
    BY DEF RolloutRemoves
  <2>1. k \in OldP!Keys /\ k \in NewP!Keys /\ OldP!AtRest(k) /\ NewP!AtRest(k)
    BY SameAtRest DEF AllAtRest, Keys, OldP!Keys, NewP!Keys
  <2>2. NewP!Calm(k)
    BY <2>1, NewP!AtRestKeeps, SameConstants, SpecKinds, Bounds
       DEF Processes, AllAtRest, BothHeard, NewP!Heard
  <2>3. phase # "new" => OldP!Calm(k)
    BY <2>1, OldP!AtRestKeeps, SameConstants, SpecKinds, Bounds DEF Processes, BothHeard, OldP!Heard
  <2> QED
    BY <2>2, <2>3 DEF Cleared, OldGone, AllAtRest
<1> QED
  BY <1>1, <1>2, <1>3, InitProcesses, PTL DEF RolloutSpec
=============================================================================
