----------------------------- MODULE ConfigBuild ------------------------------
(***************************************************************************)
(* What happens to the configs of several Connectors between the API       *)
(* server and Kafka Connect: List and Watch decode them, the indexer keeps *)
(* them, buildConnectorConfig resolves them item by item while Secrets and *)
(* ConfigMaps change, and setManagedResourceStatus sends a copy back.      *)
(* When and why a sync happens is the business of Controller; here one may *)
(* begin at any time.                                                      *)
(***************************************************************************)
EXTENDS ConfigItems, TypedClient

CONSTANTS
    Configs,      \* the configs that users give them
    Starts,       \* which resource has which of them, as it may be at the start
    Values,       \* what a Secret or ConfigMap may hold under a key
    Stores,       \* Secrets and ConfigMaps, as they may be at the start
    MaxEdits,     \* bound on what users do to resources
    MaxChanges,   \* bound on the changes of Secrets and ConfigMaps
    MaxSyncs      \* bound on the syncs

ASSUME ConfigsAreJSON == Configs \subseteq JSONConfig
ASSUME StartsHaveConfigs == Starts \subseteq [Connectors -> Configs]
ASSUME BuildBounds == MaxEdits \in Nat /\ MaxChanges \in Nat /\ MaxSyncs \in Nat
ASSUME NilIsNoValue == Nil \notin Values

\* Where references point to, and what is there: an object with the key, an
\* object without it, or none.
Sources == {"secret", "configMap"} \X Namespaces \X Refs
Contents == Values \union {"noKey", "notFound"}
ASSUME ValuesAreContents == {"noKey", "notFound"} \cap Values = {}
ASSUME StoresHaveContents == Stores \subseteq [Sources -> Contents]

VARIABLES
    doc,       \* [Connectors -> Doc], the resources in the API server
    watching,  \* whether the informer has a watch
    indexer,   \* [Connectors -> Connector or Nil]
    store,     \* [Sources -> Contents]
    step,      \* where the worker is in syncHandler
    which,     \* the resource it syncs, or Nil
    held,      \* the Connector that the lister gave it
    todo,      \* items that the loop has not come to
    result,    \* [Items -> value or Nil], the map that is built
    copy,      \* the deep copy that is sent with the status
    wish,      \* history: [Connectors -> JSONConfig], what users gave last
    origin,    \* history: [Connectors -> JSONConfig], the wish behind the indexer's
    asked,     \* history: JSONConfig, the wish behind the held one
    window,    \* history: [Sources -> SUBSET Contents], since the lookup
    misread,   \* history: whether a read failed since the lookup
    edits,     \* counts user actions
    changes,   \* counts changes of Secrets and ConfigMaps
    syncs      \* counts syncs

serverVars == <<doc, wish, store>>
informVars == <<watching, indexer, origin>>
buildVars == <<todo, result, window, misread>>
workVars == <<step, which, held, asked, copy>>
countVars == <<edits, changes, syncs>>
configVars == <<serverVars, informVars, buildVars, workVars, countVars>>

DocStatuses == {"None", "Applied", "Pending", "Failed"}
Doc == [config: Configs, status: DocStatuses, rv: Nat]

Connector == [at: Nat, rv: Nat, status: DocStatuses, config: ConnectorConfig]

NoConfig == [i \in Items |-> Nil]

BuildInit ==
    /\ wish \in Starts
    /\ doc = [c \in Connectors |-> [config |-> wish[c], status |-> "None", rv |-> 1]]
    /\ store \in Stores
    /\ watching = FALSE
    /\ indexer = [c \in Connectors |-> Nil]
    /\ origin = [c \in Connectors |-> NoConfig]
    /\ step = "idle"
    /\ which = Nil
    /\ held = Nil
    /\ asked = NoConfig
    /\ copy = Nil
    /\ todo = {}
    /\ result = NoConfig
    /\ window = [s \in Sources |-> {}]
    /\ misread = FALSE
    /\ edits = 0
    /\ changes = 0
    /\ syncs = 0

-----------------------------------------------------------------------------
(* Users. *)

EditConfig(c, json) ==
    /\ edits < MaxEdits
    /\ edits' = edits + 1
    /\ doc' = [doc EXCEPT ![c].config = json, ![c].rv = doc[c].rv + 1]
    /\ wish' = [wish EXCEPT ![c] = json]
    /\ UNCHANGED <<store, informVars, buildVars, workVars, changes, syncs>>

ChangeStore(s, v) ==
    /\ changes < MaxChanges
    /\ changes' = changes + 1
    /\ v # store[s]
    /\ store' = [store EXCEPT ![s] = v]
    /\ window' = IF step = "build" THEN [window EXCEPT ![s] = window[s] \union {v}] ELSE window
    /\ UNCHANGED <<doc, wish, informVars, todo, result, misread, workVars, edits, syncs>>

-----------------------------------------------------------------------------
(* The informer's two calls of the generated client.  An allocation is     *)
(* named by the version that is decoded into it.                           *)

\* What main passes to NewController: the clientset, and the client of the
\* informer, which List and Watch use.
mgazzaClientSet == NewForConfig

connectorInformer == ConnectorInformer(V1alpha1(Mgazza(NewSharedInformerFactory(mgazzaClientSet))))

informerClient == InformerClient(connectorInformer)

Reached == Collection(informerClient)

Lists == Codes(informerClient, {"ListOptions"})

Watches == Codes(informerClient, {"ListOptions", "WatchEvent", "Connector"})

\* What Into, or the watch decoder, makes of a document.
Decoded(d) ==
    [at |-> d.rv, rv |-> d.rv, status |-> d.status, config |-> DecodeConfig(d.config, d.rv)]

\* One config that does not decode is an error for the whole list, after
\* which the informer has what it had, and lists again.
List ==
    /\ ~watching
    /\ Lists
    /\ \A c \in Reached : DecodesConfig(doc[c].config)
    /\ watching' = TRUE
    /\ indexer' = [c \in Connectors |->
                    IF c \notin Reached \/ (indexer[c] # Nil /\ indexer[c].rv = doc[c].rv)
                    THEN indexer[c] ELSE Decoded(doc[c])]
    /\ origin' = [c \in Connectors |-> IF c \in Reached THEN wish[c] ELSE origin[c]]
    /\ UNCHANGED <<serverVars, buildVars, workVars, countVars>>

\* An event that does not decode ends the watch.
Watch(c) ==
    /\ watching
    /\ c \in Reached
    /\ indexer[c].rv # doc[c].rv
    /\ IF Watches /\ DecodesConfig(doc[c].config)
       THEN /\ indexer' = [indexer EXCEPT ![c] = Decoded(doc[c])]
            /\ origin' = [origin EXCEPT ![c] = wish[c]]
            /\ UNCHANGED watching
       ELSE /\ watching' = FALSE
            /\ UNCHANGED <<indexer, origin>>
    /\ UNCHANGED <<serverVars, buildVars, workVars, countVars>>

Reflect == List \/ \E c \in Connectors : Watch(c)

-----------------------------------------------------------------------------
(* The worker. *)

\* What the lister finds for the two halves of a key.
Found(c) == ListerGet(ListerIn(NewConnectorLister(indexer), c.namespace), c.name)

\* The lister hands out the indexer's own object, not a copy of it.
Lookup(c) ==
    /\ step = "idle"
    /\ syncs < MaxSyncs
    /\ syncs' = syncs + 1
    /\ Found(c) # Nil
    /\ which' = c
    /\ held' = Found(c)
    /\ asked' = origin[c]
    /\ todo' = {i \in Items : Found(c).config.items[i] # Nil}
    /\ result' = NoConfig
    /\ window' = [s \in Sources |-> {store[s]}]
    /\ misread' = FALSE
    /\ step' = "build"
    /\ UNCHANGED <<serverVars, informVars, copy, edits, changes>>

Held(i) == held.config.items[i]

HasValue(i) == Held(i).value # Nil

\* Mutant of Reads: the secretRef goes first.
ReadsSecretFirst(i) ==
    IF HasValue(i) \/ Held(i).valueFrom = Nil THEN {}
    ELSE IF Held(i).valueFrom.secret # Nil
         THEN {<<"secret", which.namespace, Held(i).valueFrom.secret.ref>>}
         ELSE {<<"configMap", which.namespace, r.ref>> : r \in {Held(i).valueFrom.configMap} \ {Nil}}

\* The place that the loop reads for i, if any, in the namespace of the
\* resource: a value stands for itself, a configMapRef goes before a
\* secretRef.
Reads(i) ==
    IF HasValue(i) \/ Held(i).valueFrom = Nil THEN {}
    ELSE IF Held(i).valueFrom.configMap # Nil
         THEN {<<"configMap", which.namespace, Held(i).valueFrom.configMap.ref>>}
         ELSE {<<"secret", which.namespace, r.ref>> : r \in {Held(i).valueFrom.secret} \ {Nil}}

\* The map gets v (Nil: the key is left out), and the loop goes on.
Fill(i, v) ==
    /\ result' = [result EXCEPT ![i] = v]
    /\ UNCHANGED <<step, misread>>

Invalid == step' = "invalid" /\ UNCHANGED result

\* Mutant of Resolve: a key that is missing is left out.
ResolveLeniently(i, s) ==
    \/ store[s] \in Values /\ Fill(i, store[s])
    \/ store[s] = "noKey" /\ Fill(i, Nil)
    \/ store[s] = "notFound" /\ Invalid /\ UNCHANGED misread
    \/ Fill(i, Nil)

\* One read.  NotFound is an error of its own; after any other error, as
\* after a read of an object without it, the key is missing.
Resolve(i, s) ==
    \/ store[s] \in Values /\ Fill(i, store[s])
    \/ store[s] \notin Values /\ Invalid /\ UNCHANGED misread
    \/ Invalid /\ misread' = TRUE

\* The loop comes to the items in any order.
BuildItem(i) ==
    /\ step = "build"
    /\ i \in todo
    /\ todo' = todo \ {i}
    /\ IF Reads(i) = {} THEN Fill(i, Held(i).value)
       ELSE \E s \in Reads(i) : Resolve(i, s)
    /\ UNCHANGED <<serverVars, informVars, window, which, held, asked, copy, countVars>>

\* The map is complete, and syncHandler goes on to Connect with it.
Built ==
    /\ step = "build"
    /\ todo = {}
    /\ step' = "built"
    /\ UNCHANGED <<serverVars, informVars, buildVars, which, held, asked, copy, countVars>>

\* The object o after the status was written through the pointer p.
Written(o, p, status) == IF o # Nil /\ o.at = p.at THEN [o EXCEPT !.status = status] ELSE o

\* The status is written through p, and whoever points there has it; p is
\* what will be sent.
SetStatusOf(p, status) ==
    /\ copy' = [p EXCEPT !.status = status]
    /\ held' = Written(held, p, status)
    /\ indexer' = [indexer EXCEPT ![which] = Written(indexer[which], p, status)]
    /\ UNCHANGED <<watching, origin>>

\* Mutant of SetStatus: cp := connector, and not a copy.
SetStatusInPlace(status) == SetStatusOf(held, status)

\* cp := connector.DeepCopy()
SetStatus(status) == SetStatusOf(CopyConnector(held, 0), status)

\* setManagedResourceStatus, after a PUT that went well or not, or instead.
Report ==
    /\ \E status \in DocStatuses :
        /\ \/ step = "built" /\ status \in {"Applied", "Pending"}
           \/ step = "invalid" /\ status = "Failed"
        /\ SetStatus(status)
    /\ step' = "send"
    /\ result' = NoConfig
    /\ window' = [s \in Sources |-> {}]
    /\ misread' = FALSE
    /\ todo' = {}
    /\ asked' = NoConfig
    /\ UNCHANGED <<serverVars, which, countVars>>

\* The body of a PUT: a whole Connector, with all that its config has lost.
Body(connector) ==
    [config |-> EncodeConfig(connector.config), status |-> connector.status, rv |-> connector.rv]

\* Mutant of UpdateStatus: the client's Update.
Update(connector) == [subresource |-> "none", body |-> Body(connector)]

UpdateStatus(connector) == [subresource |-> "status", body |-> Body(connector)]

\* What the server makes of a document: as the CRD has the subresource, a PUT
\* to it changes nothing but the status, and any other all but the status.
Put(d, request) ==
    IF request.subresource = "status" THEN [d EXCEPT !.status = request.body.status]
    ELSE [d EXCEPT !.config = request.body.config]

\* Mutant of StatusClient: the namespace is a fixed one.
StatusClientDefault(connector) ==
    ConnectorsIn(mgazzaClientSet, CHOOSE n \in Namespaces : TRUE)

StatusClient(connector) == ConnectorsIn(mgazzaClientSet, connector.namespace)

\* The request is refused when the resource has another version by now, is
\* no write if it changes nothing, and may be lost.
SendStatus ==
    /\ step = "send"
    /\ step' = "idle"
    /\ \/ /\ Codes(StatusClient(which), {"UpdateOptions", "Connector"})
          /\ \E c \in Member(StatusClient(which), which.name) :
                LET request == UpdateStatus(copy)
                    new == Put(doc[c], request)
                IN  /\ doc[c].rv = request.body.rv
                    /\ new # doc[c]
                    /\ doc' = [doc EXCEPT ![c] = [new EXCEPT !.rv = doc[c].rv + 1]]
       \/ UNCHANGED doc
    /\ which' = Nil
    /\ held' = Nil
    /\ copy' = Nil
    /\ UNCHANGED <<wish, store, informVars, buildVars, asked, countVars>>

BuildNext ==
    \/ \E c \in Connectors, json \in Configs : EditConfig(c, json)
    \/ \E s \in Sources, v \in Contents : ChangeStore(s, v)
    \/ Reflect
    \/ \E c \in Connectors : Lookup(c)
    \/ \E i \in Items : BuildItem(i)
    \/ Built \/ Report \/ SendStatus

BuildSpec == BuildInit /\ [][BuildNext]_configVars

\* The informer's goroutine lists until a list decodes, and then reads its
\* watch.
InformerFairness == WF_configVars(Reflect)

FairBuildSpec == BuildSpec /\ InformerFairness

-----------------------------------------------------------------------------
BuildTypeOK ==
    /\ doc \in [Connectors -> Doc]
    /\ wish \in [Connectors -> Configs]
    /\ store \in [Sources -> Contents]
    /\ watching \in BOOLEAN
    /\ indexer \in [Connectors -> Connector \union {Nil}]
    /\ origin \in [Connectors -> JSONConfig]
    /\ step \in {"idle", "build", "built", "invalid", "send"}
    /\ which \in Connectors \union {Nil}
    /\ held \in Connector \union {Nil}
    /\ asked \in JSONConfig
    /\ copy \in Connector \union {Nil}
    /\ todo \subseteq Items
    /\ result \in [Items -> Literals \union {Rounded, Nil} \union Values]
    /\ window \in [Sources -> SUBSET Contents]
    /\ misread \in BOOLEAN
    /\ edits \in Nat /\ changes \in Nat /\ syncs \in Nat

\* Where a user who wrote this item, in the resource that is synced, expects
\* its value to come from.
Meant(json) ==
    IF json.json # "object" THEN {}
    ELSE IF json.configMapRef # Nil THEN {<<"configMap", which.namespace, json.configMapRef>>}
    ELSE {<<"secret", which.namespace, r>> : r \in {json.secretRef} \ {Nil}}

\* What the map has for i is what the resource says of i.
AsWritten(i) ==
    IF asked[i] = Nil \/ asked[i].json = "null" THEN result[i] = Nil
    ELSE IF asked[i].json = "value"
         THEN result[i] = IF asked[i].value = Wide THEN Rounded ELSE asked[i].value
    ELSE IF Meant(asked[i]) = {} THEN result[i] = Nil
    ELSE \E s \in Meant(asked[i]) : result[i] \in window[s] \cap Values

(***************************************************************************)
(* A config that goes to Connect is complete, and every part of it is      *)
(* true: each literal as the user gave it (rounded, if float64 does not    *)
(* hold it), each reference with a value that the Secret or ConfigMap had  *)
(* at some moment of this sync in the resource's namespace, although they  *)
(* change between two reads and the items come in any order, and nothing   *)
(* else.  It is compared with what the user gave, not with what the server *)
(* has: the body of an earlier sync's status update carries a config that  *)
(* has lost every value and reference, and "UpdateStatus will not allow    *)
(* changes to the Spec of the resource".                                   *)
(***************************************************************************)
BuiltAsWritten == step = "built" => \A i \in Items : AsWritten(i)

(***************************************************************************)
(* A config is called invalid only if one of its references did not        *)
(* resolve at some moment of this sync, or could not be read.              *)
(***************************************************************************)
InvalidHasCause ==
    step = "invalid" =>
        \/ misread
        \/ \E i \in Items : asked[i] # Nil /\ \E s \in Meant(asked[i]) : window[s] \ Values # {}

(***************************************************************************)
(* "NEVER modify objects from the store" (handler.go), "Objects returned   *)
(* here must be treated as read-only" (the lister): what the indexer holds *)
(* of a version does not change while it holds it, or the handlers would   *)
(* compare old with new in vain.                                           *)
(***************************************************************************)
IndexerReadOnly ==
    [][\A c \in Connectors :
            indexer[c] # Nil /\ indexer'[c].at = indexer[c].at => indexer'[c] = indexer[c]]_indexer

(***************************************************************************)
(* The copy that is sent says what the original says, but for the status,  *)
(* and shares no memory with the object in the indexer except its Refs and *)
(* the elements of its array values, which nothing in the operator writes. *)
(***************************************************************************)
CopyApart ==
    step = "send" =>
        /\ \A i \in Items :
             LET old == held.config.items[i]
                 new == copy.config.items[i]
             IN  IF old = Nil THEN new = Nil
                 ELSE /\ old.value = new.value
                      /\ IF old.valueFrom = Nil THEN new.valueFrom = Nil
                         ELSE /\ old.valueFrom.secret = new.valueFrom.secret
                              /\ old.valueFrom.configMap = new.valueFrom.configMap
        /\ \A m \in Memory(held) \cap Memory(copy) : m[1] \in {"secretRef", "configMapRef", "array"}

(***************************************************************************)
(* A status goes to the resource that was synced, not to one of the same   *)
(* name in another namespace, and it is about the config that this         *)
(* resource has at that moment, whatever was edited during the sync.       *)
(***************************************************************************)
StatusIsAboutConfig ==
    [][\A c \in Connectors :
            doc'[c].status # doc[c].status =>
                /\ c = which
                /\ held.config = DecodeConfig(doc[c].config, held.at)]_doc

WellFormed(json) == \A i \in Items : json[i] = Nil \/ json[i].json # "malformed"

(***************************************************************************)
(* One malformed config makes the operator deaf to every resource, and     *)
(* nothing worse: once the last of them is repaired, the indexer catches   *)
(* up with all that was written meanwhile.                                 *)
(***************************************************************************)
CatchesUp ==
    <>[](\A c \in Connectors : WellFormed(doc[c].config))
        => <>[](\A c \in Connectors : indexer[c] # Nil /\ indexer[c].rv = doc[c].rv)
=============================================================================
