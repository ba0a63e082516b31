----------------------------- MODULE StatusProofs -----------------------------
(***************************************************************************)
(* What users read off a resource at rest, and that a deleted one leaves   *)
(* no connector behind, for any number of resources, workers and edits.    *)
(*                                                                         *)
(* A status and the config it is about are written by two calls, with any  *)
(* number of steps of others between them.  The invariants speak of the    *)
(* resources that a sync has concluded on: the status the sync looked up   *)
(* is the one it would report (Truthful, Told).                            *)
(*                                                                         *)
(* A deletion has no status to be followed by.  Nothing leads to a key any *)
(* more only when its connector is gone and no worker has a copy to make   *)
(* it from, unless the deletion is one of those that were lost             *)
(* (NoneLeft).                                                             *)
(***************************************************************************)
EXTENDS MirrorProofs, Deletions

\* The status that a sync found and left is true.
Truthful ==
    \A k \in Keys :
        Concluded(k) /\ api[k].status = "Applied" => connect[NameOf(k)] = api[k].spec

Reporting(k) == \E w \in Workers : key[w] = k /\ pc[w] = "report"

\* The status agrees with the Event, once the worker is past reporting both.
Told ==
    \A k \in Keys :
        Concluded(k) /\ ~Reporting(k) /\ event[k] = "ConfigApplied" => api[k].status = "Applied"

NoneLeft == \A k \in Keys : Calm(k) /\ k \notin lost => ~Outlives(k)

-----------------------------------------------------------------------------
(* The calls that bring a sync to its end. *)

\* A status that is not written, though nothing fails, is there already.
LEMMA StatusStays ==
    ASSUME Typed, Fresh, "status" \notin Disturbances, NEW w \in Workers, UpdateStatus(w),
           api[key[w]] # Absent, seen[key[w]] = api[key[w]], api'[key[w]] = api[key[w]]
    PROVE  api[key[w]].status = want[w]
<1> DEFINE k == key[w]
<1>1. /\ pc[w] = "report" /\ k \in Keys /\ obj[w] = api[k]
      /\ WriteStatus(k, obj[w], want[w]) /\ want[w] \in Statuses
  BY DEF UpdateStatus, Disturb, Fresh, CopyFresh, PastLookup, Typed, TypeOK, Holding
<1>2. CASE api[k] # Absent /\ Store(k, api[k].spec, want[w])
  <2>1. api[k].spec \in Specs
    BY <1>1, <1>2 DEF Typed, TypeOK, InformerTypeOK, Stored, Object
  <2> QED
    BY <1>1, <1>2, <2>1, StoreStreams
<1> QED
  BY <1>1, <1>2 DEF WriteStatus

LEMMA TruthfulConcludes ==
    ASSUME OwnNames, Typed, Exclusive, Settled, Fresh, Truthful, [Next]_vars,
           "status" \notin Disturbances, NEW w \in Workers, Concludes(w),
           NEW k \in Keys, key[w] = k, Concluded(k)', api'[k].status = "Applied"
    PROVE  connect'[NameOf(k)] = api'[k].spec
<1>1. /\ NameOf(k) \in Names /\ pc[w] # "idle"
      /\ obj[w] = api[k] /\ seen[k] = api[k] /\ api'[k] = api[k] /\ api[k] # Absent
  BY Concluding
<1>2. CASE CallGetConfig(w) /\ pc'[w] = "finish"
  <2>1. connect[NameOf(k)] = obj[w].spec /\ connect' = connect
    BY <1>2 DEF CallGetConfig, Report, Goto, Matches, outsideVars, Typed, TypeOK
  <2> QED
    BY <1>1, <2>1
<1>3. CASE CallPutConfig(w) /\ Ending(w)'
  <2>1. connect' = [connect EXCEPT ![NameOf(k)] = obj[w].spec]
    BY <1>3, PutThrough
  <2> QED
    BY <1>1, <2>1 DEF Typed, TypeOK
<1>4. CASE UpdateStatus(w)
  <2>1. api[k].status = want[w] /\ pc[w] = "report" /\ connect' = connect
    BY <1>1, <1>4, StatusStays DEF UpdateStatus, outsideVars
  <2> QED
    BY <1>1, <2>1 DEF Settled, WorkerSettled
<1> QED
  BY <1>2, <1>3, <1>4 DEF Concludes

LEMMA NextTruthful ==
    ASSUME OwnNames, Typed, Exclusive, Settled, Fresh, Truthful, [Next]_vars,
           "status" \notin Disturbances
    PROVE  Truthful'
<1> SUFFICES ASSUME NEW k \in Keys, Concluded(k)', api'[k].status = "Applied"
             PROVE  connect'[NameOf(k)] = api'[k].spec
  BY DEF Truthful, NameOf
<1>1. CASE \E w \in Workers : key[w] = k /\ Concludes(w)
  BY <1>1, TruthfulConcludes
<1>2. CASE Concluded(k) /\ \A w \in Workers : key[w] = k /\ WorkerStep(w) => ~Speaks(w)
  BY <1>2, NextConcludes, Unspoken DEF Truthful
<1> QED
  BY <1>1, <1>2, NextConcludes

(***************************************************************************)
(* A status of Applied is true at rest, although the config may be put by  *)
(* one sync and the status written by another, from different copies, with *)
(* calls of Connect that fail, lists, restarts and edits in between (only  *)
(* a status update that gets lost may leave an old status behind).         *)
(***************************************************************************)
THEOREM StatusesAreTrue ==
    OwnNames /\ "status" \notin Disturbances => (Spec => []AppliedIsTrue)
<1> SUFFICES ASSUME OwnNames, "status" \notin Disturbances
             PROVE  Spec => []AppliedIsTrue
  OBVIOUS
<1>1. Init => Truthful
  BY DEF Init, InformerInit, Truthful, Concluded
<1>2. Truthful /\ Typed /\ Exclusive /\ Settled /\ Fresh /\ [Next]_vars => Truthful'
  BY NextTruthful
<1>3. Typed /\ Exclusive /\ Tracked /\ Truthful => AppliedIsTrue
  <2> SUFFICES ASSUME Typed, Exclusive, Tracked, Truthful, NEW k \in Keys,
                      AtRest(k), api[k] # Absent, api[k].status = "Applied"
               PROVE  connect[NameOf(k)] = api[k].spec
    BY DEF AppliedIsTrue
  <2>1. Concluded(k)
    BY TrackedAtRest DEF Concluded, Unattended, AtRest
  <2> QED
    BY <2>1 DEF Truthful
<1> QED
  BY <1>1, <1>2, <1>3, SettledAlways, FreshAlways, PTL DEF Spec

-----------------------------------------------------------------------------
(* The status and the Event of a sync. *)

LEMMA ToldConcludes ==
    ASSUME Typed, Exclusive, Fresh, [Next]_vars, Canonical = {}, "status" \notin Disturbances,
           NEW w \in Workers, Concludes(w), NEW k \in Keys, key[w] = k,
           Concluded(k)', ~Reporting(k)', event'[k] = "ConfigApplied"
    PROVE  api'[k].status = "Applied"
<1>1. /\ obj[w] = api[k] /\ seen[k] = api[k] /\ api'[k] = api[k] /\ api[k] # Absent
  BY Concluding
<1>2. ~(CallGetConfig(w) /\ pc'[w] = "finish")
  BY DEF CallGetConfig, Report, Goto, Matches, Typed, TypeOK
<1>3. CASE CallPutConfig(w) /\ Ending(w)'
  <2>1. pc'[w] # "report"
    BY <1>3 DEF CallPutConfig, Reporting
  <2>2. ~MustReport(w)
    BY <1>3, <2>1 DEF CallPutConfig, Report, Goto, Typed, TypeOK
  <2> QED
    BY <1>1, <2>2 DEF MustReport
<1>4. CASE UpdateStatus(w)
  <2>1. api[k].status = want[w] /\ pc[w] = "report" /\ event'[k] = EventFor(want[w])
    BY <1>1, <1>4, StatusStays DEF UpdateStatus, Typed, TypeOK
  <2>2. want[w] \in {"Applied", "Pending", "Failed"}
    BY <2>1 DEF Fresh, CopyFresh
  <2> QED
    BY <1>1, <2>1, <2>2 DEF EventFor
<1> QED
  BY <1>2, <1>3, <1>4 DEF Concludes

\* Nobody else records an Event about a key, nor ends a report.
LEMMA Unheard ==
    ASSUME Typed, [Next]_vars, NEW k \in Keys, Concluded(k)',
           \A w \in Workers : key[w] = k /\ WorkerStep(w) => ~Speaks(w)
    PROVE  event'[k] = event[k] /\ (Reporting(k) => Reporting(k)')
<1>1. ASSUME NEW w \in Workers, WorkerStep(w)
      PROVE  event'[k] = event[k] /\ (Reporting(k) => Reporting(k)')
  <2>1. CASE Speaks(w)
    <3>1. /\ key[w] # k /\ key' = key /\ \A v \in Workers \ {w} : pc'[v] = pc[v]
          /\ event' = event \/ \E e : event' = [event EXCEPT ![key[w]] = e]
      BY <1>1, <2>1 DEF Speaks, CallDelete, CallPutConfig, CallGetConfig, UpdateStatus, Report,
         Goto, Typed, TypeOK
    <3> QED
      BY <3>1 DEF Reporting, Typed, TypeOK
  <2>2. CASE ~Speaks(w)
    <3>1. /\ pc[w] # "report" /\ event' = event
          /\ \A v \in Workers \ {w} : pc'[v] = pc[v] /\ key'[v] = key[v]
      BY <1>1, <2>2 DEF Speaks, WorkerStep, Dequeue, Lookup, ListerGet, BuildConfig, ReportInvalid,
         Conclude, Report, Goto, Typed, TypeOK
    <3> QED
      BY <3>1 DEF Reporting
  <2> QED
    BY <2>1, <2>2
<1>2. ~Restart
  BY DEF Restart, Concluded
<1>3. CASE ~\E w \in Workers : WorkerStep(w)
  <2>1. UNCHANGED <<event, pc, key>>
    BY <1>2, <1>3 DEF Next, CreateConnector, EditConnector, DeleteConnector, ChangeStore, BreakWatch,
       InformerDeliver, InformerResync, HandleNote, BackoffExpires, workerVars, vars
  <2> QED
    BY <2>1 DEF Reporting
<1> QED
  BY <1>1, <1>3

LEMMA NextTold ==
    ASSUME Typed, Exclusive, Fresh, Told, [Next]_vars, Canonical = {},
           "status" \notin Disturbances
    PROVE  Told'
<1> SUFFICES ASSUME NEW k \in Keys, Concluded(k)', ~Reporting(k)', event'[k] = "ConfigApplied"
             PROVE  api'[k].status = "Applied"
  BY DEF Told
<1>1. CASE \E w \in Workers : key[w] = k /\ Concludes(w)
  BY <1>1, ToldConcludes
<1>2. CASE Concluded(k) /\ \A w \in Workers : key[w] = k /\ WorkerStep(w) => ~Speaks(w)
  BY <1>2, NextConcludes, Unheard DEF Told
<1> QED
  BY <1>1, <1>2, NextConcludes

(***************************************************************************)
(* At rest, a resource whose last sync recorded ConfigApplied says so in   *)
(* its status too, whichever of the versions and workers the two came      *)
(* from.  Without a config that Connect echoes as it was put, that is: the *)
(* sync that finds its config in place records the Event, and leaves the   *)
(* status as it is.                                                        *)
(***************************************************************************)
THEOREM StatusesAreCurrent ==
    Canonical = {} /\ "status" \notin Disturbances => (Spec => []StatusIsCurrent)
<1> SUFFICES ASSUME Canonical = {}, "status" \notin Disturbances
             PROVE  Spec => []StatusIsCurrent
  OBVIOUS
<1>1. Init => Told
  BY DEF Init, InformerInit, Told, Concluded
<1>2. Told /\ Typed /\ Exclusive /\ Fresh /\ [Next]_vars => Told'
  BY NextTold
<1>3. Typed /\ Exclusive /\ Tracked /\ Told => StatusIsCurrent
  <2> SUFFICES ASSUME Typed, Exclusive, Tracked, Told, NEW k \in Keys,
                      AtRest(k), api[k] # Absent, event[k] = "ConfigApplied"
               PROVE  api[k].status = "Applied"
    BY DEF StatusIsCurrent
  <2>1. Concluded(k)
    BY TrackedAtRest DEF Concluded, Unattended, AtRest
  <2>2. ~Reporting(k)
    BY DEF Reporting, Exclusive, Held, AtRest
  <2> QED
    BY <2>1, <2>2 DEF Told
<1> QED
  BY <1>1, <1>2, <1>3, FreshAlways, PTL DEF Spec

-----------------------------------------------------------------------------
(* Deletions. *)

\* The steps of Deletions are steps of Controller.
LEMMA DelRefines == DelNext => Next
BY DEF DelNext, LoseByDelete, LoseByTombstone, LoseByList, Regain, Lossless, Next, WorkerStep

\* A worker's copy counts, and so does a connector.
LEMMA Outliving ==
    ASSUME NEW k \in Keys
    PROVE  Outlives(k) <=> connect[NameOf(k)] # Absent \/ HoldsCopy(k)
BY DEF Outlives, HoldsCopy

\* A list: what outlives its resource, and is not led to, is lost.
LEMMA ListLeaves ==
    ASSUME LoseByList, NEW k \in Keys, Calm(k)', k \notin lost'
    PROVE  ~Outlives(k)'
<1>1. CASE BreakWatch
  <2>1. api[k] = Absent
    BY <1>1 DEF BreakWatch, Relist, Calm
  <2> QED
    BY <2>1 DEF LoseByList, Calm
<1>2. CASE Restart
  <2>1. api[k] = Absent
    BY <1>2 DEF Restart, StartInformer, Calm
  <2> QED
    BY <2>1 DEF LoseByList, Calm
<1> QED
  BY <1>1, <1>2 DEF LoseByList

\* A tombstone that nobody takes notice of is lost, unless the resource is
\* there again; and then the indexer has it, or will.
LEMMA TombstoneLeaves ==
    ASSUME Typed, Tracked, NEW j \in Keys, LoseByTombstone(j), NEW k \in Keys,
           Calm(k)', k \notin lost'
    PROVE  Calm(k) /\ k \notin lost
<1>1. HandleNote(j) /\ UNCHANGED <<api, cache, stream>>
  BY DEF LoseByTombstone, HandleNote, apiVars
<1>2. ~(j = k /\ Head(notes[k]).type = "tombstone")
  BY <1>1 DEF LoseByTombstone, Calm, Tracked, Trails
<1> QED
  BY <1>1, <1>2, HandleNoteCalms DEF LoseByTombstone

\* A DELETE that leaves the connector there is lost.
LEMMA DeleteLeaves ==
    ASSUME OwnNames, Typed, Exclusive, Fresh, NoneLeft, [Next]_vars, NEW w \in Workers,
           LoseByDelete(w), NEW k \in Keys, Calm(k)', k \notin lost'
    PROVE  ~Outlives(k)'
<1>1. CallDelete(w) /\ pc[w] = "remove"
      /\ (connect' = connect \/ connect' = [connect EXCEPT ![NameOf(key[w])] = Absent])
  BY DEF LoseByDelete, CallDelete
<1>2. CASE key[w] = k
  <2>1. connect'[NameOf(k)] = Absent
    BY <1>2 DEF LoseByDelete
  <2>2. ~HoldsCopy(k)'
    BY <1>1, <1>2, NoNewCopy
  <2> QED
    BY <2>1, <2>2 DEF Outlives, HoldsCopy
<1>3. CASE key[w] # k
  <2>1. connect'[NameOf(k)] = connect[NameOf(k)]
    BY <1>1, <1>3, OtherNames
  <2>2. Calm(k) /\ k \notin lost
    BY <1>1, <1>3, WorkerCalms DEF LoseByDelete, WorkerStep
  <2>3. ~Outlives(k)
    BY <2>2 DEF NoneLeft
  <2>4. ~HoldsCopy(k)'
    BY <2>2, <2>3, Outliving, NoNewCopy
  <2> QED
    BY <2>1, <2>3, <2>4 DEF Outlives, HoldsCopy
<1> QED
  BY <1>2, <1>3

\* No step makes a connector, or a copy of it, for a key that is calm.
LEMMA CalmLeaves ==
    ASSUME OwnNames, Typed, Exclusive, Fresh, [Next]_vars, NEW k \in Keys,
           Calm(k), ~Outlives(k)
    PROVE  ~Outlives(k)'
<1>1. ~HoldsCopy(k) /\ connect[NameOf(k)] = Absent
  BY Outliving
<1>2. ~HoldsCopy(k)'
  BY <1>1, NoNewCopy
<1>3. connect'[NameOf(k)] = connect[NameOf(k)]
  <2>1. ASSUME NEW w \in Workers, CallDelete(w) \/ CallPutConfig(w)
        PROVE  connect'[NameOf(k)] = connect[NameOf(k)]
    <3>1. /\ pc[w] # "idle"
          /\ pc[w] # "remove" => obj[w] # Absent
          /\ \E c : connect' = connect \/ connect' = [connect EXCEPT ![NameOf(key[w])] = c]
      BY <2>1, AbsentIsNoObject DEF CallDelete, CallPutConfig, Typed, Holding, HoldsObject
    <3>2. key[w] # k
      BY <1>1, <3>1 DEF HoldsCopy, Calm, Traced
    <3> QED
      BY <3>1, <3>2, OtherNames
  <2> QED
    BY <2>1 DEF Next, WorkerStep, CreateConnector, EditConnector, DeleteConnector, ChangeStore,
       BreakWatch, Restart, InformerDeliver, InformerResync, HandleNote, BackoffExpires,
       Dequeue, Lookup, ListerGet, BuildConfig, CallGetConfig, UpdateStatus, Conclude,
       outsideVars, vars
<1> QED
  BY <1>1, <1>2, <1>3 DEF Outlives, HoldsCopy

LEMMA NextLeaves ==
    ASSUME OwnNames, Typed, Exclusive, Tracked, Fresh, NoneLeft, [DelNext]_delVars
    PROVE  NoneLeft'
<1> SUFFICES ASSUME NEW k \in Keys, Calm(k)', k \notin lost'
             PROVE  ~Outlives(k)'
  BY DEF NoneLeft
<1>0. [Next]_vars
  BY DelRefines DEF delVars
<1>1. CASE \E w \in Workers : LoseByDelete(w)
  BY <1>0, <1>1, DeleteLeaves
<1>2. CASE LoseByList
  BY <1>2, ListLeaves
<1>3. CASE UNCHANGED delVars
  <2>1. Calm(k) /\ k \notin lost
    BY <1>3, AroundCalms DEF delVars
  <2> QED
    BY <1>3, <2>1 DEF NoneLeft, Outlives, delVars, vars, workerVars, outsideVars
<1>4. CASE \/ \E j \in Keys : LoseByTombstone(j)
           \/ \E j \in Keys, s \in Specs : Regain(j, s)
           \/ Lossless
  <2>1. Calm(k) /\ k \notin lost
    <3>1. ASSUME NEW j \in Keys, LoseByTombstone(j)
          PROVE  Calm(k) /\ k \notin lost
      BY <3>1, TombstoneLeaves
    <3>2. ASSUME NEW j \in Keys, NEW s \in Specs, Regain(j, s)
          PROVE  Calm(k) /\ k \notin lost
      <4>1. Calm(k)
        BY <3>2, AroundCalms DEF Regain
      <4>2. stream'[j] # <<>>
        <5>1. PICK o : o = [spec |-> s, status |-> "None", rv |-> version[j] + 1]
          OBVIOUS
        <5>2. o \in Stored /\ stream \in [Keys -> Seq(Stored)]
          BY <5>1 DEF Object, Stored, Statuses, Typed, TypeOK, InformerTypeOK
        <5>3. stream' = [stream EXCEPT ![j] = Append(stream[j], o)]
          BY <3>2, <5>1 DEF Regain, CreateConnector, Store
        <5>4. Append(stream[j], o) # <<>>
          BY <5>2, LastOfAppend
        <5> QED
          BY <5>2, <5>3, <5>4
      <4> QED
        BY <3>2, <4>1, <4>2 DEF Regain, Calm
    <3>3. CASE Lossless
      <4>1. ASSUME NEW j \in Keys, InformerDeliver(j)
            PROVE  Calm(k)
        BY <4>1, DeliverCalms
      <4>2. ASSUME NEW w \in Workers, WorkerStep(w), ~CallDelete(w)
            PROVE  Calm(k)
        BY <4>2, WorkerCalms
      <4>3. ASSUME NEW w \in Workers,
                   \/ Dequeue(w) \/ Lookup(w) \/ BuildConfig(w) \/ CallGetConfig(w)
                   \/ CallPutConfig(w) \/ UpdateStatus(w) \/ Conclude(w)
            PROVE  WorkerStep(w) /\ ~CallDelete(w)
        <5>1. ~CallDelete(w)
          BY <4>3 DEF Dequeue, Lookup, ListerGet, BuildConfig, CallGetConfig, CallPutConfig,
             UpdateStatus, Conclude, CallDelete
        <5> QED
          BY <4>3, <5>1 DEF WorkerStep
      <4> QED
        BY <3>3, <4>1, <4>2, <4>3, AroundCalms DEF Lossless
    <3> QED
      BY <1>4, <3>1, <3>2, <3>3
  <2> QED
    BY <1>0, <2>1, CalmLeaves DEF NoneLeft
<1> QED
  BY <1>1, <1>2, <1>3, <1>4 DEF DelNext

(***************************************************************************)
(* A deletion has the last word: at rest, no connector is left of a        *)
(* deleted resource, whatever syncs, retries and edits it came amid,       *)
(* unless it got lost in one of the three ways of Deletions.               *)
(***************************************************************************)
THEOREM DeletionsRemove == OwnNames => (DelSpec => []DeletionsEndInRemoval)
<1> SUFFICES ASSUME OwnNames
             PROVE  DelSpec => []DeletionsEndInRemoval
  OBVIOUS
<1>1. DelSpec => Spec
  <2>1. [DelNext]_delVars => [Next]_vars
    BY DelRefines DEF delVars
  <2> QED
    BY <2>1, PTL DEF DelSpec, Spec
<1>2. Init => NoneLeft
  BY DEF Init, NoneLeft, Outlives, NameOf, Keys
<1>3. NoneLeft /\ Typed /\ Exclusive /\ Tracked /\ Fresh /\ [DelNext]_delVars => NoneLeft'
  BY NextLeaves
<1>4. Typed /\ Exclusive /\ Tracked /\ NoneLeft => DeletionsEndInRemoval
  <2> SUFFICES ASSUME Typed, Exclusive, Tracked, NoneLeft, NEW k \in Keys,
                      AtRest(k), notes[k] = <<>>, api[k] = Absent, k \notin lost
               PROVE  connect[NameOf(k)] = Absent
    BY DEF DeletionsEndInRemoval
  <2>1. Calm(k)
    BY DEF Calm, Traced, Tombstoned, AtRest, Tracked, Trails, Exclusive, Held
  <2> QED
    BY <2>1 DEF NoneLeft, Outlives
<1> QED
  BY <1>1, <1>2, <1>3, <1>4, FreshAlways, PTL DEF DelSpec
=============================================================================
