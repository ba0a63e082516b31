------------------------------ MODULE Controller ------------------------------
(***************************************************************************)
(* controller/controller.go: the event handlers that turn informer         *)
(* notifications into work items, the workers that take the items, and     *)
(* syncHandler, one action per call it makes to something outside the      *)
(* process.  Between two such calls anything else may happen: users edit   *)
(* resources, the informer delivers, other workers run, the process dies.  *)
(***************************************************************************)
EXTENDS WorkQueue, Informer, ConnectClient

CONSTANTS
    Workers,          \* the goroutines that Run starts
    Canonical,        \* specs that Connect echoes as the same Go value
    Referring,        \* specs with a secretRef or a configMapRef
    Disturbances,     \* which kinds of disturbance may happen
    MaxEdits,         \* bound on what users do to resources
    MaxDisturbances   \* bound on the disturbances of all kinds together

ASSUME SpecKinds == Canonical \subseteq Specs /\ Referring \subseteq Specs
ASSUME Bounds == MaxEdits \in Nat /\ MaxDisturbances \in Nat

(***************************************************************************)
(* The kinds of disturbance.                                               *)
(*   "store"   a referenced Secret or ConfigMap appears or disappears      *)
(*   "read"    a read of one fails for another reason than NotFound        *)
(*   "status"  a status update fails on its way                            *)
(*   "get", "put", "delete"  a call to Connect fails, perhaps after it     *)
(*             took effect                                                 *)
(*   "relist"  the watch breaks and the informer lists again               *)
(*   "crash"   the process dies and is started again                       *)
(***************************************************************************)
Kinds == {"store", "read", "status", "get", "put", "delete", "relist", "crash"}
ASSUME DisturbanceKinds == Disturbances \subseteq Kinds

\* Where a worker is: before Get, and before each outside call of syncHandler.
Steps == {"idle", "lookup", "remove", "build", "get", "create", "replace",
          "report", "finish", "requeue"}

VARIABLES
    pc,            \* [Workers -> Steps]
    key,           \* [Workers -> Keys \union {Absent}], the item it holds
    obj,           \* [Workers -> Stored], the copy the lister returned
    want,          \* [Workers -> Statuses], the status it is about to report
    connect,       \* [Names -> Specs \union {Absent}], configs in Connect
    dangling,      \* specs with a reference that does not resolve now
    event,         \* [Keys -> Events], last Event recorded about a resource
    seen,          \* history: [Keys -> Stored], what the last lookup returned
    lastPut,       \* history: [Keys -> Nat], version behind the last PUT
    edits,         \* counts user actions
    disturbances   \* counts disturbances

workerVars == <<pc, key, obj, want>>
outsideVars == <<connect, dangling>>
historyVars == <<seen, lastPut>>
boundVars == <<edits, disturbances>>
vars == <<queueVars, apiVars, informerVars, workerVars, outsideVars, event,
          historyVars, boundVars>>

Events == {"None", "InvalidConfig", "ErrorCallingConnectAPI", "ConfigApplied"}

NameOf(k) == k[2]

Init ==
    /\ QueueInit
    /\ InformerInit
    /\ pc = [w \in Workers |-> "idle"]
    /\ key = [w \in Workers |-> Absent]
    /\ obj = [w \in Workers |-> Absent]
    /\ want = [w \in Workers |-> "None"]
    /\ connect = [n \in Names |-> Absent]
    /\ dangling = {}
    /\ event = [k \in Keys |-> "None"]
    /\ seen = [k \in Keys |-> Absent]
    /\ lastPut = [k \in Keys |-> 0]
    /\ edits = 0
    /\ disturbances = 0

-----------------------------------------------------------------------------
(* The environment: users, the objects that specs refer to, breakdowns. *)

Edit == edits < MaxEdits /\ edits' = edits + 1 /\ UNCHANGED disturbances

Disturb(kind) ==
    /\ kind \in Disturbances
    /\ disturbances < MaxDisturbances
    /\ disturbances' = disturbances + 1
    /\ UNCHANGED edits

Untroubled == UNCHANGED boundVars

CreateConnector(k, s) ==
    /\ Edit
    /\ api[k] = Absent
    /\ Store(k, s, "None")
    /\ UNCHANGED <<queueVars, informerVars, workerVars, outsideVars, event, historyVars>>

\* An edit of the config, or (s the config that is there) of the metadata.
EditConnector(k, s) ==
    /\ Edit
    /\ api[k] # Absent
    /\ Store(k, s, api[k].status)
    /\ UNCHANGED <<queueVars, informerVars, workerVars, outsideVars, event, historyVars>>

DeleteConnector(k) ==
    /\ Edit
    /\ api[k] # Absent
    /\ Remove(k)
    /\ UNCHANGED <<queueVars, informerVars, workerVars, outsideVars, event, historyVars>>

\* A Secret or ConfigMap that s refers to is deleted, or created again.
ChangeStore(s) ==
    /\ Disturb("store")
    /\ s \in Referring
    /\ dangling' = IF s \in dangling THEN dangling \ {s} ELSE dangling \union {s}
    /\ UNCHANGED <<queueVars, apiVars, informerVars, workerVars, connect, event, historyVars>>

BreakWatch ==
    /\ Disturb("relist")
    /\ Relist
    /\ UNCHANGED <<queueVars, workerVars, outsideVars, event, historyVars>>

\* The process dies with whatever its workers were about to do, and the
\* Deployment starts another.
Restart ==
    /\ Disturb("crash")
    /\ DropAll
    /\ StartInformer
    /\ pc' = [w \in Workers |-> "idle"]
    /\ key' = [w \in Workers |-> Absent]
    /\ obj' = [w \in Workers |-> Absent]
    /\ want' = [w \in Workers |-> "None"]
    /\ seen' = [k \in Keys |-> Absent]
    /\ UNCHANGED <<outsideVars, event, lastPut>>

-----------------------------------------------------------------------------
(* The informer and the event handlers. *)

InformerDeliver(k) ==
    /\ Deliver(k)
    /\ UNCHANGED <<queueVars, workerVars, outsideVars, event, historyVars, boundVars>>

InformerResync(k) ==
    /\ Resync(k)
    /\ UNCHANGED <<queueVars, workerVars, outsideVars, event, historyVars, boundVars>>

\* Mutant of Enqueues: without the comparison of old and new.
EnqueuesAll(n) == n.type # "tombstone"

\* Mutant of Enqueues: no handler for deletions.
EnqueuesLive(n) == n.type = "add" \/ (n.type = "update" /\ n.old # n.new)

\* Mutant of Enqueues: no handler for updates.
EnqueuesNoUpdate(n) == n.type \in {"add", "delete"}

\* The handlers queue an addition, a deletion and an update that changed
\* something.  MetaNamespaceKeyFunc has no key for a tombstone: the error is
\* logged, and nothing is queued.
Enqueues(n) ==
    \/ n.type \in {"add", "delete"}
    \/ n.type = "update" /\ n.old # n.new

HandleNote(k) ==
    /\ notes[k] # <<>>
    /\ notes' = [notes EXCEPT ![k] = Tail(notes[k])]
    /\ IF Enqueues(Head(notes[k])) THEN Add(k) ELSE UNCHANGED queueVars
    /\ UNCHANGED <<apiVars, cache, unsynced, workerVars, outsideVars, event, historyVars, boundVars>>

BackoffExpires(k) ==
    /\ Expire(k)
    /\ UNCHANGED <<apiVars, informerVars, workerVars, outsideVars, event, historyVars, boundVars>>

-----------------------------------------------------------------------------
(* A worker: processNextWorkItem and, from "lookup" on, syncHandler. *)

Goto(w, step) == pc' = [pc EXCEPT ![w] = step]

\* The worker goes on to setManagedResourceStatus with this status.
Report(w, status) ==
    /\ want' = [want EXCEPT ![w] = status]
    /\ Goto(w, "report")

\* Mutant of Dequeue: Done is called at once instead of deferred.
DequeueAndRelease(w) ==
    /\ pc[w] = "idle"
    /\ unsynced = {}
    /\ queue # <<>>
    /\ queue' = Tail(queue)
    /\ dirty' = dirty \ {Head(queue)}
    /\ key' = [key EXCEPT ![w] = Head(queue)]
    /\ Goto(w, "lookup")
    /\ UNCHANGED <<processing, delayed, apiVars, informerVars, obj, want, outsideVars, event, historyVars, boundVars>>

\* Workers start once the caches have synced.
Dequeue(w) ==
    /\ pc[w] = "idle"
    /\ unsynced = {}
    /\ Take(Head(queue))
    /\ key' = [key EXCEPT ![w] = Head(queue)]
    /\ Goto(w, "lookup")
    /\ UNCHANGED <<apiVars, informerVars, obj, want, outsideVars, event, historyVars, boundVars>>

Lookup(w) ==
    LET found == ListerGet(key[w])
    IN  /\ pc[w] = "lookup"
        /\ obj' = [obj EXCEPT ![w] = found]
        /\ seen' = [seen EXCEPT ![key[w]] = found]
        /\ Goto(w, IF found = Absent THEN "remove" ELSE "build")
        /\ UNCHANGED <<queueVars, apiVars, informerVars, key, want, outsideVars, event, lastPut, boundVars>>

\* The resource is gone: its connector is deleted by name.  An error of
\* Delete is logged, syncHandler returns nil all the same.
CallDelete(w) ==
    LET n == NameOf(key[w])
    IN  /\ pc[w] = "remove"
        /\ \E r \in Response, done \in BOOLEAN :
            /\ \/ /\ Untroubled
                  /\ done
                  /\ r.code \in (IF connect[n] = Absent THEN {404} ELSE {200, 204})
               \/ /\ Disturb("delete")
                  /\ r.code \notin {200, 204}
            /\ connect' = IF done THEN [connect EXCEPT ![n] = Absent] ELSE connect
            /\ \/ DeleteOK(r) /\ Goto(w, "finish")
               \/ ~DeleteOK(r) /\ Goto(w, "finish")
        /\ UNCHANGED <<queueVars, apiVars, informerVars, key, obj, want, dangling, event, historyVars>>

\* Mutant of ReportInvalid: the status stays as it is.
KeepQuiet(w) == Goto(w, "finish") /\ UNCHANGED want

ReportInvalid(w) == Report(w, "Failed")

(***************************************************************************)
(* buildConnectorConfig.  Only NotFound is told apart from the other       *)
(* errors of a read; after one of those the empty object that came with it *)
(* has no such key, and the config is invalid just the same.               *)
(***************************************************************************)
BuildConfig(w) ==
    LET s == obj[w].spec
    IN  /\ pc[w] = "build"
        /\ \/ Untroubled /\ s \notin dangling /\ Goto(w, "get") /\ UNCHANGED want
           \/ Untroubled /\ s \in dangling /\ ReportInvalid(w)
           \/ Disturb("read") /\ s \in Referring /\ ReportInvalid(w)
        /\ UNCHANGED <<queueVars, apiVars, informerVars, key, obj, outsideVars, event, historyVars>>

\* What the service says to GET, and what a broken exchange looks like.
GetResponses(n) ==
    {r \in Response : r.json /\ r.code = IF connect[n] = Absent THEN 404 ELSE 200}

\* Mutant of Matches: a connector that exists is taken to match.
MatchesAny(n, s) == connect[n] # Absent

\* deep.Equal(currentConfig, config): Connect stores strings only and adds
\* the connector's name, so the echo of other configs never compares equal.
Matches(n, s) == connect[n] = s /\ s \in Canonical

CallGetConfig(w) ==
    LET n == NameOf(key[w])
    IN  /\ pc[w] = "get"
        /\ \E r \in Response :
            /\ \/ Untroubled /\ r \in GetResponses(n)
               \/ Disturb("get") /\ GetConfig(r) # "found"
            /\ \/ /\ GetConfig(r) = "error"
                  /\ Report(w, "Pending")
                  /\ UNCHANGED event
               \/ /\ GetConfig(r) = "notFound"
                  /\ Goto(w, "create")
                  /\ UNCHANGED <<want, event>>
               \/ /\ GetConfig(r) = "found"
                  /\ ~Matches(n, obj[w].spec)
                  /\ Goto(w, "replace")
                  /\ UNCHANGED <<want, event>>
               \/ /\ GetConfig(r) = "found"
                  /\ Matches(n, obj[w].spec)
                  /\ Goto(w, "finish")
                  /\ event' = [event EXCEPT ![key[w]] = "ConfigApplied"]
                  /\ UNCHANGED want
        /\ UNCHANGED <<queueVars, apiVars, informerVars, key, obj, outsideVars, historyVars>>

\* Mutant of MustReport: only the creation of a connector is reported.
MustReportNew(w) == pc[w] = "create"

\* After a PUT a new connector is always reported; one that was replaced,
\* only when the copy at hand does not say Applied.
MustReport(w) == pc[w] = "create" \/ obj[w].status # "Applied"

\* Both branches of syncHandler that call PutConfig.
CallPutConfig(w) ==
    LET n == NameOf(key[w])
    IN  /\ pc[w] \in {"create", "replace"}
        /\ \E r \in Response, done \in BOOLEAN :
            /\ \/ Untroubled /\ done /\ PutConfigOK(r)
               \/ Disturb("put") /\ ~PutConfigOK(r)
            /\ connect' = IF done THEN [connect EXCEPT ![n] = obj[w].spec] ELSE connect
            /\ lastPut' = IF done THEN [lastPut EXCEPT ![key[w]] = obj[w].rv] ELSE lastPut
            /\ \/ /\ ~PutConfigOK(r)
                  /\ Report(w, "Pending")
               \/ /\ PutConfigOK(r)
                  /\ MustReport(w)
                  /\ Report(w, "Applied")
               \/ /\ PutConfigOK(r)
                  /\ ~MustReport(w)
                  /\ Goto(w, "finish")
                  /\ UNCHANGED want
        /\ UNCHANGED <<queueVars, apiVars, informerVars, key, obj, dangling, event, seen>>

\* Mutant of EventFor: the status taken for the reason.
EventIsStatus(status) == status

\* The Event that syncHandler records after it reported the status.
EventFor(status) ==
    IF status = "Failed" THEN "InvalidConfig"
    ELSE IF status = "Pending" THEN "ErrorCallingConnectAPI"
    ELSE "ConfigApplied"

\* setManagedResourceStatus, whose error is logged and dropped, and the Event.
UpdateStatus(w) ==
    /\ pc[w] = "report"
    /\ \/ Untroubled /\ WriteStatus(key[w], obj[w], want[w])
       \/ Disturb("status") /\ UNCHANGED apiVars
    /\ event' = [event EXCEPT ![key[w]] = EventFor(want[w])]
    /\ Goto(w, IF want[w] = "Pending" THEN "requeue" ELSE "finish")
    /\ UNCHANGED <<queueVars, informerVars, key, obj, want, outsideVars, historyVars>>

\* Mutant of Requeue: the item is forgotten, error or not.
RequeueNever(w) == UNCHANGED delayed

Requeue(w) == AddRateLimited(key[w])

(***************************************************************************)
(* The tail of processNextWorkItem: AddRateLimited after an error, Forget  *)
(* otherwise (the number of failures it clears is not modelled), and the   *)
(* deferred Done.  They are calls on the queue alone, and a back-off that  *)
(* expires between the two leaves the queue as one that expires after.     *)
(***************************************************************************)
Conclude(w) ==
    /\ \/ pc[w] = "requeue" /\ Requeue(w)
       \/ pc[w] = "finish" /\ UNCHANGED delayed
    /\ Done(key[w])
    /\ pc' = [pc EXCEPT ![w] = "idle"]
    /\ key' = [key EXCEPT ![w] = Absent]
    /\ obj' = [obj EXCEPT ![w] = Absent]
    /\ want' = [want EXCEPT ![w] = "None"]
    /\ UNCHANGED <<apiVars, informerVars, outsideVars, event, historyVars, boundVars>>

WorkerStep(w) ==
    \/ Dequeue(w) \/ Lookup(w) \/ CallDelete(w) \/ BuildConfig(w)
    \/ CallGetConfig(w) \/ CallPutConfig(w) \/ UpdateStatus(w) \/ Conclude(w)

Next ==
    \/ \E k \in Keys, s \in Specs : CreateConnector(k, s) \/ EditConnector(k, s)
    \/ \E k \in Keys : DeleteConnector(k)
    \/ \E s \in Specs : ChangeStore(s)
    \/ BreakWatch
    \/ Restart
    \/ \E k \in Keys : InformerDeliver(k) \/ InformerResync(k)
    \/ \E k \in Keys : HandleNote(k) \/ BackoffExpires(k)
    \/ \E w \in Workers : WorkerStep(w)

Spec == Init /\ [][Next]_vars

(***************************************************************************)
(* What keeps running by itself: the informer's goroutines, the timer of   *)
(* the delayed items, and every worker, whose calls to the API server and  *)
(* to Connect are assumed to be answered (the HTTP client has no timeout). *)
(* Nothing obliges a user to act, a disturbance to happen, or a resync.    *)
(***************************************************************************)
Fairness ==
    /\ \A k \in Keys :
        /\ WF_vars(InformerDeliver(k))
        /\ WF_vars(HandleNote(k))
        /\ WF_vars(BackoffExpires(k))
    /\ \A w \in Workers : WF_vars(WorkerStep(w))

FairSpec == Spec /\ Fairness

-----------------------------------------------------------------------------
(* What the operator owes its users. *)

TypeOK ==
    /\ QueueTypeOK(Keys)
    /\ InformerTypeOK
    /\ pc \in [Workers -> Steps]
    /\ key \in [Workers -> Keys \union {Absent}]
    /\ obj \in [Workers -> Stored]
    /\ want \in [Workers -> Statuses]
    /\ connect \in [Names -> Specs \union {Absent}]
    /\ dangling \subseteq Specs
    /\ event \in [Keys -> Events]
    /\ seen \in [Keys -> Stored]
    /\ lastPut \in [Keys -> Nat]
    /\ edits \in Nat
    /\ disturbances \in Nat

\* A notification that will make its handler queue the key.
Wakes(k) == \E i \in 1..Len(notes[k]) : Enqueues(notes[k][i])

\* Nothing is on its way that would make a worker look at k (again).
AtRest(k) ==
    /\ stream[k] = <<>>
    /\ ~Wakes(k)
    /\ k \notin dirty \union processing \union delayed

\* A deletion that a list found out, and no handler has seen.
Tombstoned(k) == \E i \in 1..Len(notes[k]) : notes[k][i].type = "tombstone"

\* Something still leads to k: a notification, an item in the queue, or a
\* worker that is going to look it up, to remove it or to put it back.
Traced(k) ==
    \/ Wakes(k) \/ Tombstoned(k)
    \/ k \in dirty \union delayed
    \/ \E w \in Workers : key[w] = k /\ pc[w] \in {"lookup", "remove", "requeue"}

(***************************************************************************)
(* "It makes it easy to ensure we are never processing the same item       *)
(* simultaneously in two different workers" (controller.go, workqueue).    *)
(***************************************************************************)
OneWorkerPerKey ==
    \A v, w \in Workers : v # w /\ pc[v] # "idle" /\ pc[w] # "idle" => key[v] # key[w]

(***************************************************************************)
(* No update is lost: whatever the interleaving of edits, deliveries,      *)
(* resyncs, lists, syncs and retries, a resource whose present version no  *)
(* sync has looked up yet is on its way to a worker.                       *)
(***************************************************************************)
NoUpdateLost ==
    \A k \in Keys : AtRest(k) /\ api[k] # Absent => seen[k] = api[k]

(***************************************************************************)
(* When nothing is left to do about a resource, Connect runs its present   *)
(* config, unless the last thing reported about it is that it is invalid.  *)
(* (Each of the names is used in one namespace only.)                      *)
(***************************************************************************)
RestingMatches ==
    \A k \in Keys :
        AtRest(k) /\ api[k] # Absent /\ event[k] # "InvalidConfig"
            => connect[NameOf(k)] = api[k].spec

(***************************************************************************)
(* Connect never goes back: a sync does not put a config of an older       *)
(* version of a resource over one of a newer version.                      *)
(***************************************************************************)
PutsNeverGoBack == [][\A k \in Keys : lastPut'[k] >= lastPut[k]]_lastPut

(***************************************************************************)
(* Connect loses a connector only if the latest lookup of its resource, by *)
(* whichever worker, found it deleted: no DELETE that was decided on       *)
(* earlier comes after the connector was created anew.                     *)
(* (Each of the names is used in one namespace only.)                      *)
(***************************************************************************)
RemovesOnlyDeleted ==
    [][\A k \in Keys :
            connect[NameOf(k)] # Absent /\ connect'[NameOf(k)] = Absent
                => seen[k] = Absent]_connect

(***************************************************************************)
(* A status of Applied can be believed at rest: Connect runs the config    *)
(* that the resource shows, although status and config are written by      *)
(* different calls, from copies that may be stale by then, and the calls   *)
(* to Connect fail at times. (As long as no status update is lost on its   *)
(* way: one that is leaves an old Applied behind.)                         *)
(***************************************************************************)
AppliedIsTrue ==
    \A k \in Keys :
        AtRest(k) /\ api[k] # Absent /\ api[k].status = "Applied"
            => connect[NameOf(k)] = api[k].spec

(***************************************************************************)
(* "It then updates the Status block of the Connector resource with the    *)
(* current status of the resource" (controller.go, syncHandler): at rest,  *)
(* a resource that Connect runs as it is says Applied, unless its last     *)
(* sync found the config invalid.                                          *)
(***************************************************************************)
StatusIsCurrent ==
    \A k \in Keys :
        (/\ AtRest(k)
         /\ api[k] # Absent
         /\ event[k] = "ConfigApplied"
         /\ connect[NameOf(k)] = api[k].spec) => api[k].status = "Applied"

(***************************************************************************)
(* A deleted resource leaves no connector behind once all is at rest.      *)
(***************************************************************************)
DeletedIsRemoved ==
    \A k \in Keys : AtRest(k) /\ api[k] = Absent => connect[NameOf(k)] = Absent

(***************************************************************************)
(* A deletion takes the connector of the deleted resource, not that of     *)
(* another resource that still exists and was reported as applied.         *)
(***************************************************************************)
DeletionSparesOthers ==
    \A k \in Keys :
        AtRest(k) /\ api[k] # Absent /\ event[k] = "ConfigApplied"
            => connect[NameOf(k)] # Absent

(***************************************************************************)
(* A resource whose references have resolved all along is applied, however *)
(* the reads of them went: "we do not call Forget if a transient error     *)
(* occurs, instead the item is put back on the workqueue and attempted     *)
(* again after a back-off period" (controller.go, processNextWorkItem).    *)
(***************************************************************************)
ResolvableIsApplied ==
    \A k \in Keys :
        AtRest(k) /\ api[k] # Absent => connect[NameOf(k)] = api[k].spec

(***************************************************************************)
(* The operator comes to rest: its own status updates wake it up, but      *)
(* neither they nor the resyncs, nor what it has already deleted, keep it  *)
(* busy for ever. (Calls fail a bounded number of times: a config that     *)
(* Connect rejects for good is tried again for good, at the pace of the    *)
(* back-off.)                                                              *)
(***************************************************************************)
EventuallyAtRest == <>[](\A k \in Keys : AtRest(k))

(***************************************************************************)
(* Connect mirrors the cluster in the end: each existing resource runs     *)
(* with its present config, although calls fail, the watch breaks and the  *)
(* process dies on the way. (But all references resolve and can be read,   *)
(* and Connect accepts each config in the end.)                            *)
(***************************************************************************)
EventuallyMirrored ==
    <>[](\A k \in Keys : api[k] # Absent => connect[NameOf(k)] = api[k].spec)
=============================================================================
