------------------------------- MODULE Informer -------------------------------
(***************************************************************************)
(* The Kubernetes API server's Connector resources, and the shared         *)
(* informer that keeps the controller's copy of them: a watch stream, the  *)
(* indexer that the lister reads, and the notifications that wait for the  *)
(* controller's event handlers.  Server and informer are external code,    *)
(* modelled from how NewController, the generated informer and the lister  *)
(* use them.  Every sequence is kept per resource: the controller never    *)
(* compares two resources, so their relative order tells it nothing.       *)
(*                                                                         *)
(* The module is passive, like WorkQueue.                                  *)
(***************************************************************************)
EXTENDS Naturals, Sequences

CONSTANTS
    Namespaces,  \* namespaces that hold Connector resources
    Names,       \* metadata.name of a Connector
    Specs,       \* what a user may put under "config"
    Absent       \* stands for "no such resource", "no such connector"

\* The key of a resource is its namespace and its name.
Keys == Namespaces \X Names

\* status.applied; "None" is a resource that carries no status yet.
Statuses == {"None", "Applied", "Pending", "Failed"}

\* A version of a resource; rv is its metadata.resourceVersion.
Object == [spec: Specs, status: Statuses, rv: Nat]

ASSUME AbsentIsNoObject == Absent \notin Object
ASSUME AbsentIsNoSpec == Absent \notin Specs
ASSUME AbsentIsNoKey == Absent \notin Keys

Stored == Object \union {Absent}

VARIABLES
    api,       \* [Keys -> Stored], the resources in the API server
    version,   \* [Keys -> Nat], the last resourceVersion given out
    stream,    \* [Keys -> Seq(Stored)], watch events the indexer has not seen
    cache,     \* [Keys -> Stored], the indexer
    notes,     \* [Keys -> Seq(Note)], notifications no handler has seen
    unsynced   \* keys of the initial list that are not in the indexer yet

apiVars == <<api, version, stream>>
informerVars == <<cache, notes, unsynced>>

\* What the informer hands to AddFunc, UpdateFunc(old, new) or DeleteFunc.
\* A "tombstone" is a deletion that the watch missed: a value of type
\* DeletedFinalStateUnknown, found by comparing a new list with the indexer.
Note == [type: {"add", "update", "delete", "tombstone"}, old: Stored, new: Stored]

InformerInit ==
    /\ api = [k \in Keys |-> Absent]
    /\ version = [k \in Keys |-> 0]
    /\ stream = [k \in Keys |-> <<>>]
    /\ cache = [k \in Keys |-> Absent]
    /\ notes = [k \in Keys |-> <<>>]
    /\ unsynced = {}

InformerTypeOK ==
    /\ api \in [Keys -> Stored]
    /\ version \in [Keys -> Nat]
    /\ stream \in [Keys -> Seq(Stored)]
    /\ cache \in [Keys -> Stored]
    /\ notes \in [Keys -> Seq(Note)]
    /\ unsynced \subseteq Keys

-----------------------------------------------------------------------------
(* The API server. *)

\* The server stores a new version of k and streams it to the watcher.
Store(k, spec, status) ==
    LET o == [spec |-> spec, status |-> status, rv |-> version[k] + 1]
    IN  /\ version' = [version EXCEPT ![k] = version[k] + 1]
        /\ api' = [api EXCEPT ![k] = o]
        /\ stream' = [stream EXCEPT ![k] = Append(stream[k], o)]

Remove(k) ==
    /\ api' = [api EXCEPT ![k] = Absent]
    /\ stream' = [stream EXCEPT ![k] = Append(stream[k], Absent)]
    /\ UNCHANGED version

(***************************************************************************)
(* A write of the status subresource from the copy o: refused when k is    *)
(* gone or has another version by now, without effect when the status is   *)
(* already there, and blind to everything in o except its status.          *)
(***************************************************************************)
WriteStatus(k, o, status) ==
    IF api[k] = Absent \/ api[k].rv # o.rv \/ api[k].status = status
    THEN UNCHANGED apiVars
    ELSE Store(k, api[k].spec, status)

-----------------------------------------------------------------------------
(* The shared informer. *)

\* Connectors(namespace).Get(name) of the lister: the indexer's entry for the
\* key, or NotFound.  An indexer in memory has no other error.
ListerGet(k) == cache[k]

\* The notification for an indexer entry that goes from old to new.
NoteFor(old, new) ==
    [type |-> IF old = Absent THEN "add"
              ELSE IF new = Absent THEN "delete" ELSE "update",
     old |-> old, new |-> new]

\* The indexer takes the next watch event, then queues its notification.
Deliver(k) ==
    /\ stream[k] # <<>>
    /\ LET new == Head(stream[k])
       IN  /\ cache' = [cache EXCEPT ![k] = new]
           /\ notes' = [notes EXCEPT ![k] = Append(notes[k], NoteFor(cache[k], new))]
    /\ stream' = [stream EXCEPT ![k] = Tail(stream[k])]
    /\ unsynced' = unsynced \ {k}
    /\ UNCHANGED <<api, version>>

\* What a new list tells the handlers of a key: every resource on it is
\* announced, changed or not, and one that is missing leaves a tombstone.
ReplaceNotes(old, new) ==
    IF new # Absent THEN <<NoteFor(old, new)>>
    ELSE IF old # Absent THEN <<[type |-> "tombstone", old |-> old, new |-> Absent]>>
    ELSE <<>>

\* The watch breaks, what it still had to say is lost, and the informer
\* lists again.  The deltas of one list are popped in one step.
Relist ==
    /\ cache' = api
    /\ notes' = [k \in Keys |-> notes[k] \o ReplaceNotes(cache[k], api[k])]
    /\ stream' = [k \in Keys |-> <<>>]
    /\ unsynced' = {}
    /\ UNCHANGED <<api, version>>

\* The resync period elapses: the entry is announced as its own update.
\* Bound: only once the handlers have caught up with the key.
Resync(k) ==
    /\ cache[k] # Absent
    /\ notes[k] = <<>>
    /\ notes' = [notes EXCEPT ![k] = <<NoteFor(cache[k], cache[k])>>]
    /\ UNCHANGED <<apiVars, cache, unsynced>>

\* A new process starts with an empty indexer and the list of what exists.
StartInformer ==
    /\ cache' = [k \in Keys |-> Absent]
    /\ notes' = [k \in Keys |-> <<>>]
    /\ stream' = [k \in Keys |-> IF api[k] = Absent THEN <<>> ELSE <<api[k]>>]
    /\ unsynced' = {k \in Keys : api[k] # Absent}
    /\ UNCHANGED <<api, version>>
=============================================================================
