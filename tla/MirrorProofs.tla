----------------------------- MODULE MirrorProofs -----------------------------
(***************************************************************************)
(* Connect runs the present config of every resource at rest, for any      *)
(* number of resources, workers, edits and disturbances of every kind, if  *)
(* no two resources share a name.                                          *)
(*                                                                         *)
(* The invariant follows one sync: what it looked up is what it works on,  *)
(* and it ends in one of three ways: Connect has that config, the config   *)
(* was reported invalid, or the key is put back (Settled).                 *)
(* With it, and with the order of versions, the controller implements      *)
(* Mirror: RestingMatches of the next state is what Attend asks of the     *)
(* resources that a step is done with.                                     *)
(***************************************************************************)
EXTENDS DeliveryProofs, OrderProofs, Mirroring

KeySettled(k) ==
    Unattended(k) /\ seen[k] # Absent /\ event[k] # "InvalidConfig"
        => connect[NameOf(k)] = seen[k].spec

WorkerSettled(w) ==
    /\ PastLookup(w) => obj[w] = seen[key[w]]
    /\ pc[w] = "remove" => obj[w] = Absent
    /\ pc[w] = "report" => want[w] \in {"Applied", "Pending", "Failed"}
    /\ pc[w] = "report" /\ want[w] = "Applied" => connect[NameOf(key[w])] = obj[w].spec
    /\ pc[w] = "finish" => \/ obj[w] = Absent
                           \/ event[key[w]] = "InvalidConfig"
                           \/ connect[NameOf(key[w])] = obj[w].spec

Settled ==
    /\ \A k \in Keys : KeySettled(k)
    /\ \A w \in Workers : WorkerSettled(w)

-----------------------------------------------------------------------------

\* Steps of the cluster and of the informer, which at most add to the queue.
LEMMA AroundSettled ==
    ASSUME Settled, UNCHANGED <<pc, key, obj, want, connect, event, seen>>,
           dirty \union processing \union delayed
              \subseteq dirty' \union processing' \union delayed'
    PROVE  Settled'
BY DEF Settled, KeySettled, WorkerSettled, Unattended, PastLookup

(***************************************************************************)
(* A call of a sync: it leaves the queue alone, and changes at most        *)
(* Connect's config of its own name and the Event of its own key.  What    *)
(* remains to be shown of each call is that it leaves its worker settled.  *)
(***************************************************************************)
LEMMA CallSettled ==
    ASSUME OwnNames, Typed, Exclusive, Settled, NEW w \in Workers,
           pc[w] # "idle",
           \A v \in Workers \ {w} : pc'[v] = pc[v] /\ want'[v] = want[v],
           \A k \in Keys \ {key[w]} : event'[k] = event[k] /\ seen'[k] = seen[k],
           \A k \in Keys \ {key[w]} : connect'[NameOf(k)] = connect[NameOf(k)],
           \A v \in Workers \ {w} : obj'[v] = obj[v],
           UNCHANGED <<queueVars, key>>,
           WorkerSettled(w)'
    PROVE  Settled'
<1>1. \A k \in Keys \ {key[w]} : KeySettled(k)'
  BY DEF Settled, KeySettled, Unattended, queueVars
<1>2. KeySettled(key[w])'
  BY Alone DEF KeySettled, Unattended, queueVars
<1>3. ASSUME NEW v \in Workers \ {w}
      PROVE  WorkerSettled(v)'
  <2>1. CASE pc[v] = "idle"
    BY <2>1 DEF WorkerSettled, PastLookup
  <2>2. CASE pc[v] # "idle"
    <3>1. key[v] \in Keys \ {key[w]}
      BY <2>2, Alone
    <3> QED
      BY <3>1 DEF Settled, WorkerSettled, PastLookup
  <2> QED
    BY <2>1, <2>2
<1> QED
  BY <1>1, <1>2, <1>3 DEF Settled

LEMMA LookupSettled ==
    ASSUME OwnNames, Typed, Exclusive, Settled, NEW w \in Workers, Lookup(w)
    PROVE  Settled'
<1> DEFINE found == cache[key[w]]
<1>1. /\ pc[w] # "idle" /\ key[w] \in Keys
      /\ pc' = [pc EXCEPT ![w] = IF found = Absent THEN "remove" ELSE "build"]
      /\ obj' = [obj EXCEPT ![w] = found]
      /\ seen' = [seen EXCEPT ![key[w]] = found]
      /\ UNCHANGED <<queueVars, key, want, connect, event>>
  BY DEF Lookup, ListerGet, Goto, outsideVars, Typed, Holding
<1>2. WorkerSettled(w)'
  BY <1>1 DEF WorkerSettled, PastLookup, Typed, TypeOK
<1> QED
  BY <1>1, <1>2, CallSettled DEF Typed, TypeOK

LEMMA CallDeleteSettled ==
    ASSUME OwnNames, Typed, Exclusive, Settled, NEW w \in Workers, CallDelete(w)
    PROVE  Settled'
<1>1. /\ pc[w] = "remove" /\ pc' = [pc EXCEPT ![w] = "finish"]
      /\ connect' = connect \/ connect' = [connect EXCEPT ![NameOf(key[w])] = Absent]
      /\ UNCHANGED <<queueVars, key, obj, want, event, seen>>
  BY DEF CallDelete, Goto, historyVars
<1>2. WorkerSettled(w)'
  BY <1>1 DEF Settled, WorkerSettled, PastLookup, Typed, TypeOK
<1>3. \A k \in Keys \ {key[w]} : connect'[NameOf(k)] = connect[NameOf(k)]
  BY <1>1, OtherNames
<1> QED
  BY <1>1, <1>2, <1>3, CallSettled DEF Typed, TypeOK

LEMMA BuildConfigSettled ==
    ASSUME OwnNames, Typed, Exclusive, Settled, NEW w \in Workers, BuildConfig(w)
    PROVE  Settled'
<1>1. /\ pc[w] = "build"
      /\ \/ pc' = [pc EXCEPT ![w] = "get"] /\ UNCHANGED want
         \/ pc' = [pc EXCEPT ![w] = "report"] /\ want' = [want EXCEPT ![w] = "Failed"]
      /\ UNCHANGED <<queueVars, key, obj, connect, event, seen>>
  BY DEF BuildConfig, ReportInvalid, Report, Goto, outsideVars, historyVars
<1>2. WorkerSettled(w)'
  BY <1>1 DEF Settled, WorkerSettled, PastLookup, Typed, TypeOK
<1> QED
  BY <1>1, <1>2, CallSettled DEF Typed, TypeOK

LEMMA CallGetConfigSettled ==
    ASSUME OwnNames, Typed, Exclusive, Settled, NEW w \in Workers, CallGetConfig(w)
    PROVE  Settled'
<1>1. /\ pc[w] = "get"
      /\ \/ pc' = [pc EXCEPT ![w] = "report"] /\ want' = [want EXCEPT ![w] = "Pending"]
         \/ pc' = [pc EXCEPT ![w] = "create"] /\ UNCHANGED want
         \/ pc' = [pc EXCEPT ![w] = "replace"] /\ UNCHANGED want
         \/ /\ pc' = [pc EXCEPT ![w] = "finish"] /\ UNCHANGED want
            /\ connect[NameOf(key[w])] = obj[w].spec
      /\ event' = event \/ event' = [event EXCEPT ![key[w]] = "ConfigApplied"]
      /\ UNCHANGED <<queueVars, key, obj, connect, seen>>
  BY DEF CallGetConfig, Matches, Report, Goto, outsideVars, historyVars
<1>2. WorkerSettled(w)'
  BY <1>1 DEF Settled, WorkerSettled, PastLookup, Typed, TypeOK
<1> QED
  BY <1>1, <1>2, CallSettled DEF Typed, TypeOK

LEMMA CallPutConfigSettled ==
    ASSUME OwnNames, Typed, Exclusive, Settled, NEW w \in Workers, CallPutConfig(w)
    PROVE  Settled'
<1> DEFINE n == NameOf(key[w])
<1>1. /\ pc[w] \in {"create", "replace"}
      /\ \/ /\ pc' = [pc EXCEPT ![w] = "report"] /\ want' = [want EXCEPT ![w] = "Pending"]
            /\ connect' = connect \/ connect' = [connect EXCEPT ![n] = obj[w].spec]
         \/ /\ pc' = [pc EXCEPT ![w] = "report"] /\ want' = [want EXCEPT ![w] = "Applied"]
            /\ connect' = [connect EXCEPT ![n] = obj[w].spec]
         \/ /\ pc' = [pc EXCEPT ![w] = "finish"] /\ UNCHANGED want
            /\ connect' = [connect EXCEPT ![n] = obj[w].spec]
      /\ UNCHANGED <<queueVars, key, obj, event, seen>>
  BY DEF CallPutConfig, Report, Goto
<1>2. n \in Names
  BY <1>1 DEF NameOf, Keys, Typed, Holding
<1>3. WorkerSettled(w)'
  BY <1>1, <1>2 DEF Settled, WorkerSettled, PastLookup, Typed, TypeOK
<1>4. \A k \in Keys \ {key[w]} : connect'[NameOf(k)] = connect[NameOf(k)]
  BY <1>1, OtherNames
<1> QED
  BY <1>1, <1>3, <1>4, CallSettled DEF Typed, TypeOK

LEMMA UpdateStatusSettled ==
    ASSUME OwnNames, Typed, Exclusive, Settled, NEW w \in Workers, UpdateStatus(w)
    PROVE  Settled'
<1>1. /\ pc[w] = "report" /\ key[w] \in Keys
      /\ pc' = [pc EXCEPT ![w] = IF want[w] = "Pending" THEN "requeue" ELSE "finish"]
      /\ event' = [event EXCEPT ![key[w]] = EventFor(want[w])]
      /\ UNCHANGED <<queueVars, key, obj, want, connect, seen>>
  BY DEF UpdateStatus, Goto, outsideVars, historyVars, Typed, Holding
<1>2. WorkerSettled(w)'
  <2>1. CASE want[w] = "Failed"
    <3>1. event'[key[w]] = "InvalidConfig"
      BY <1>1, <2>1 DEF EventFor, Typed, TypeOK
    <3> QED
      BY <1>1, <2>1, <3>1 DEF Settled, WorkerSettled, PastLookup, Typed, TypeOK
  <2>2. CASE want[w] \in {"Applied", "Pending"}
    BY <1>1, <2>2 DEF Settled, WorkerSettled, PastLookup, Typed, TypeOK
  <2> QED
    BY <1>1, <2>1, <2>2 DEF Settled, WorkerSettled
<1> QED
  BY <1>1, <1>2, CallSettled DEF Typed, TypeOK

\* The end of a sync: the key is settled, or it waits for its back-off.
LEMMA ConcludeSettled ==
    ASSUME OwnNames, Typed, Exclusive, Settled, NEW w \in Workers, Conclude(w)
    PROVE  Settled'
<1>1. /\ key[w] \in Keys
      /\ \/ pc[w] = "requeue" /\ delayed' = delayed \union {key[w]}
         \/ pc[w] = "finish" /\ delayed' = delayed
      /\ processing' = processing \ {key[w]} /\ dirty' = dirty
      /\ pc' = [pc EXCEPT ![w] = "idle"]
      /\ \A v \in Workers \ {w} : key'[v] = key[v] /\ obj'[v] = obj[v] /\ want'[v] = want[v]
      /\ UNCHANGED <<connect, event, seen>>
  <2>1. key[w] \in Keys
    BY DEF Conclude, Typed, Holding
  <2>2. /\ \/ pc[w] = "requeue" /\ delayed' = delayed \union {key[w]}
           \/ pc[w] = "finish" /\ delayed' = delayed
        /\ processing' = processing \ {key[w]} /\ dirty' = dirty
    BY DEF Conclude, Requeue, AddRateLimited, Done
  <2>3. /\ pc' = [pc EXCEPT ![w] = "idle"]
        /\ \A v \in Workers \ {w} : key'[v] = key[v] /\ obj'[v] = obj[v] /\ want'[v] = want[v]
    BY DEF Conclude, Typed, TypeOK
  <2>4. UNCHANGED <<connect, event, seen>>
    BY DEF Conclude, outsideVars, historyVars
  <2> QED
    BY <2>1, <2>2, <2>3, <2>4
<1>2. ASSUME NEW k \in Keys, k = key[w]
      PROVE  KeySettled(k)'
  <2>1. CASE pc[w] = "requeue"
    BY <1>1, <1>2, <2>1 DEF KeySettled, Unattended
  <2>2. CASE pc[w] = "finish"
    BY <1>1, <1>2, <2>2 DEF Settled, KeySettled, WorkerSettled, PastLookup
  <2> QED
    BY <1>1, <2>1, <2>2
<1>3. ASSUME NEW k \in Keys, k # key[w]
      PROVE  KeySettled(k)'
  BY <1>1, <1>3 DEF Settled, KeySettled, Unattended
<1>4. \A v \in Workers \ {w} : WorkerSettled(v)'
  BY <1>1 DEF Settled, WorkerSettled, PastLookup, Typed, TypeOK
<1>5. WorkerSettled(w)'
  BY <1>1 DEF WorkerSettled, PastLookup, Typed, TypeOK
<1> QED
  BY <1>2, <1>3, <1>4, <1>5 DEF Settled

\* A worker gets a key: the key stays attended to.
LEMMA DequeueSettled ==
    ASSUME Typed, Settled, NEW w \in Workers, Dequeue(w)
    PROVE  Settled'
<1>1. /\ pc' = [pc EXCEPT ![w] = "lookup"]
      /\ \A v \in Workers \ {w} : key'[v] = key[v]
      /\ dirty' \union processing' = dirty \union processing \union {Head(queue)}
      /\ UNCHANGED <<delayed, obj, want, connect, event, seen>>
  BY DEF Dequeue, Take, Goto, outsideVars, historyVars, Typed, TypeOK
<1>2. \A k \in Keys : KeySettled(k)'
  BY <1>1 DEF Settled, KeySettled, Unattended
<1>3. WorkerSettled(w)'
  BY <1>1 DEF WorkerSettled, PastLookup, Typed, TypeOK
<1>4. \A v \in Workers \ {w} : WorkerSettled(v)'
  BY <1>1 DEF Settled, WorkerSettled, PastLookup, Typed, TypeOK
<1> QED
  BY <1>2, <1>3, <1>4 DEF Settled

\* A new process has looked nothing up.
LEMMA RestartSettled ==
    ASSUME Restart
    PROVE  Settled'
BY DEF Restart, Settled, KeySettled, WorkerSettled, PastLookup

LEMMA QueueSettled ==
    ASSUME Settled, NEW k \in Keys, HandleNote(k) \/ BackoffExpires(k)
    PROVE  Settled'
<1>1. /\ dirty \union processing \union delayed
            \subseteq dirty' \union processing' \union delayed'
      /\ UNCHANGED <<pc, key, obj, want, connect, event, seen>>
  BY DEF HandleNote, BackoffExpires, Expire, Add, Enqueue, queueVars, workerVars,
     outsideVars, historyVars
<1> QED
  BY <1>1, AroundSettled

LEMMA ClusterSettled ==
    ASSUME Settled,
           \/ \E k \in Keys, s \in Specs : CreateConnector(k, s) \/ EditConnector(k, s)
           \/ \E k \in Keys : DeleteConnector(k) \/ InformerDeliver(k) \/ InformerResync(k)
           \/ \E s \in Specs : ChangeStore(s)
           \/ BreakWatch
           \/ UNCHANGED vars
    PROVE  Settled'
<1>1. UNCHANGED <<dirty, processing, delayed, pc, key, obj, want, connect, event, seen>>
  BY DEF CreateConnector, EditConnector, DeleteConnector, InformerDeliver, InformerResync,
     ChangeStore, BreakWatch, vars, queueVars, workerVars, outsideVars, historyVars
<1> QED
  BY <1>1, AroundSettled

LEMMA NextSettled ==
    ASSUME OwnNames, Typed, Exclusive, Settled, [Next]_vars
    PROVE  Settled'
<1>1. ASSUME NEW w \in Workers, WorkerStep(w)
      PROVE  Settled'
  BY <1>1, DequeueSettled, LookupSettled, CallDeleteSettled, BuildConfigSettled,
     CallGetConfigSettled, CallPutConfigSettled, UpdateStatusSettled, ConcludeSettled
     DEF WorkerStep
<1>2. ASSUME NEW k \in Keys, HandleNote(k) \/ BackoffExpires(k)
      PROVE  Settled'
  BY <1>2, QueueSettled
<1> QED
  BY <1>1, <1>2, RestartSettled, ClusterSettled DEF Next

LEMMA SettledAlways == OwnNames => (Spec => [](Typed /\ Exclusive /\ Tracked /\ Settled))
<1> SUFFICES ASSUME OwnNames
             PROVE  Spec => [](Typed /\ Exclusive /\ Tracked /\ Settled)
  OBVIOUS
<1>1. Init => Settled
  BY DEF Init, Settled, KeySettled, WorkerSettled, PastLookup
<1>2. Settled /\ Typed /\ Exclusive /\ [Next]_vars => Settled'
  BY NextSettled
<1> QED
  BY <1>1, <1>2, TrackedAlways, PTL DEF Spec

(***************************************************************************)
(* Whatever was lost, retried, relisted or interrupted on the way: once    *)
(* nothing is left to do about a resource, Connect runs the config of its  *)
(* present version, unless syncHandler last reported it as invalid.        *)
(***************************************************************************)
THEOREM RestMatches == OwnNames => (Spec => []RestingMatches)
<1> SUFFICES ASSUME OwnNames
             PROVE  Spec => []RestingMatches
  OBVIOUS
<1>1. Typed /\ Exclusive /\ Tracked /\ Settled => RestingMatches
  <2> SUFFICES ASSUME Typed, Exclusive, Tracked, Settled, NEW k \in Keys,
                      AtRest(k), api[k] # Absent, event[k] # "InvalidConfig"
               PROVE  connect[NameOf(k)] = api[k].spec
    BY DEF RestingMatches
  <2>1. seen[k] = api[k]
    BY TrackedAtRest
  <2> QED
    BY <2>1 DEF Settled, KeySettled, Unattended, AtRest
<1> QED
  BY <1>1, SettledAlways, PTL

\* The steps that take a connector out of Connect are calls of Delete, by a
\* worker whose lookup is the latest one of its key.
LEMMA RemovalIsCurrent ==
    ASSUME OwnNames, Typed, Exclusive, Settled, [Next]_vars, NEW k \in Keys,
           connect[NameOf(k)] # Absent, connect'[NameOf(k)] = Absent
    PROVE  seen[k] = Absent
<1>1. PICK w \in Workers : CallDelete(w) \/ CallPutConfig(w)
  BY DEF Next, WorkerStep, CreateConnector, EditConnector, DeleteConnector, ChangeStore,
     BreakWatch, Restart, InformerDeliver, InformerResync, HandleNote, BackoffExpires,
     Dequeue, Lookup, ListerGet, BuildConfig, CallGetConfig, UpdateStatus, Conclude, outsideVars, vars
<1>2. pc[w] # "idle" /\ NameOf(k) \in Names
  BY <1>1 DEF CallDelete, CallPutConfig, NameOf, Keys
<1>3. CASE CallDelete(w)
  <2>1. connect' = connect \/ connect' = [connect EXCEPT ![NameOf(key[w])] = Absent]
    BY <1>3 DEF CallDelete
  <2>2. k = key[w]
    BY <1>2, <2>1, OtherNames
  <2>3. pc[w] = "remove"
    BY <1>3 DEF CallDelete
  <2> QED
    BY <2>2, <2>3 DEF Settled, WorkerSettled, PastLookup
<1>4. CASE CallPutConfig(w)
  <2>1. obj[w].spec \in Specs
    BY <1>4 DEF CallPutConfig, Typed, Holding, HoldsObject, Object
  <2>2. connect' = connect \/ connect' = [connect EXCEPT ![NameOf(key[w])] = obj[w].spec]
    BY <1>4 DEF CallPutConfig
  <2> QED
    BY <1>2, <2>1, <2>2, AbsentIsNoSpec DEF Typed, TypeOK
<1> QED
  BY <1>1, <1>3, <1>4

(***************************************************************************)
(* A DELETE of syncHandler never takes away a connector that was created   *)
(* after the lookup behind it: the connector of a resource that was        *)
(* deleted and created again survives, whatever the workers do meanwhile.  *)
(***************************************************************************)
THEOREM RemovalsAreCurrent == OwnNames => (Spec => RemovesOnlyDeleted)
<1> SUFFICES ASSUME OwnNames
             PROVE  Spec => RemovesOnlyDeleted
  OBVIOUS
<1>1. Typed /\ Exclusive /\ Settled /\ [Next]_vars
         => [\A k \in Keys :
                connect[NameOf(k)] # Absent /\ connect'[NameOf(k)] = Absent
                    => seen[k] = Absent]_connect
  BY RemovalIsCurrent
<1> QED
  BY <1>1, SettledAlways, PTL DEF Spec, RemovesOnlyDeleted
-----------------------------------------------------------------------------
(* The controller implements Mirror. *)

\* A worker that holds a key keeps it due, and what waits stays as it is.
LEMMA StillDue ==
    ASSUME Typed, Exclusive, NEW w \in Workers, pc[w] # "idle",
           UNCHANGED <<queueVars, notes>>,
           \A k \in Keys \ {key[w]} : stream'[k] = stream[k]
    PROVE  key[w] \in Due /\ Due' = Due
<1>1. key[w] \in Keys /\ key[w] \in processing
  BY DEF Typed, Holding, Exclusive, Held
<1>2. \A k \in Keys : Wakes(k)' <=> Wakes(k)
  BY DEF Wakes
<1> QED
  BY <1>1, <1>2 DEF Due, AtRest, queueVars

\* A step that changes nothing but who is due lets go of mirrored resources.
LEMMA AttendsTo ==
    ASSUME RestingMatches', UNCHANGED <<Wished, version, Running, lastPut, Refused>>
    PROVE  Promise!Attend
<1>1. ASSUME NEW k \in Keys, AtRest(k)'
      PROVE  Wished[k] \in {Absent, Running[k]} \/ k \in Refused
  <2>1. \/ api'[k] = Absent \/ event'[k] = "InvalidConfig"
        \/ connect'[NameOf(k)] = api'[k].spec
    BY <1>1 DEF RestingMatches
  <2>2. \/ Wished'[k] = Absent \/ k \in Refused' \/ Wished'[k] = Running'[k]
    BY <2>1 DEF Wished, Running, Refused
  <2> QED
    BY <2>2
<1>2. Due' \in SUBSET Keys /\ \A k \in Due \ Due' : k \in Keys /\ AtRest(k)'
  BY DEF Due
<1> QED
  BY <1>1, <1>2 DEF Promise!Attend, Promise!Fulfilled

\* What the abstract variables are made of, if it is left alone.
LEMMA Unmoved ==
    ASSUME RestingMatches', UNCHANGED <<api, version, connect, lastPut, event>>
    PROVE  Promise!Attend
<1>1. UNCHANGED <<Wished, version, Running, lastPut, Refused>>
  BY DEF Wished, Running, Refused
<1> QED
  BY <1>1, AttendsTo

\* What an edit leaves behind is due until its watch event was handled.
LEMMA WriteAsks ==
    ASSUME Typed, NEW k \in Keys, NEW o, Writes(k, o), o # Absent => o.spec \in Specs,
           UNCHANGED <<queueVars, notes, connect, event, lastPut>>
    PROVE  Promise!Ask(k)
<1>1. api \in [Keys -> Stored] /\ version \in [Keys -> Nat] /\ stream \in [Keys -> Seq(Stored)]
  BY DEF Typed, TypeOK, InformerTypeOK
<1>2. Wished' = [Wished EXCEPT ![k] = IF o = Absent THEN Absent ELSE o.spec]
  BY <1>1 DEF Wished, Writes
<1>3. Due' = Due \union {k}
  <2>1. stream'[k] # <<>> /\ \A j \in Keys \ {k} : stream'[j] = stream[j]
    BY <1>1, LastOfAppend DEF Writes
  <2>2. \A j \in Keys : Wakes(j)' <=> Wakes(j)
    BY DEF Wakes
  <2> QED
    BY <2>1, <2>2 DEF Due, AtRest, queueVars
<1>4. UNCHANGED <<Running, Refused>>
  BY DEF Running, Refused
<1> QED
  BY <1>2, <1>3, <1>4 DEF Promise!Ask, Writes

LEMMA DeletionAsks ==
    ASSUME Typed, NEW k \in Keys, DeleteConnector(k)
    PROVE  Promise!Ask(k)
<1>1. Writes(k, Absent) /\ UNCHANGED <<queueVars, notes, connect, event, lastPut>>
  BY DEF DeleteConnector, Remove, Writes, Stored, informerVars, outsideVars, historyVars
<1> QED
  BY <1>1, WriteAsks

LEMMA EditAsks ==
    ASSUME Typed, NEW k \in Keys, NEW s \in Specs, CreateConnector(k, s) \/ EditConnector(k, s)
    PROVE  Promise!Ask(k)
<1>1. UNCHANGED <<queueVars, notes, connect, event, lastPut>>
  BY DEF CreateConnector, EditConnector, informerVars, outsideVars, historyVars
<1>2. PICK st \in Statuses : Store(k, s, st)
  BY DEF CreateConnector, EditConnector, Typed, TypeOK, InformerTypeOK,
     Stored, Object, Statuses
<1> DEFINE o == [spec |-> s, status |-> st, rv |-> version[k] + 1]
<1>3. o \in Stored /\ o # Absent /\ o.spec = s
  BY AbsentIsNoObject DEF Typed, TypeOK, InformerTypeOK, Stored, Object
<1>4. Writes(k, o)
  BY <1>2, <1>3 DEF Writes, Store
<1> HIDE DEF o
<1> QED
  BY <1>1, <1>3, <1>4, WriteAsks

LEMMA CallDeleteMirrors ==
    ASSUME OwnNames, Typed, Exclusive, RestingMatches', NEW w \in Workers, CallDelete(w)
    PROVE  Promise!Attend \/ \E k \in Keys : Promise!Withdraw(k)
<1>1. /\ pc[w] # "idle"
      /\ connect' = connect \/ connect' = [connect EXCEPT ![NameOf(key[w])] = Absent]
      /\ UNCHANGED <<queueVars, api, version, stream, notes, event, lastPut>>
  BY DEF CallDelete, apiVars, informerVars, historyVars
<1>2. CASE connect' = connect
  BY <1>1, <1>2, Unmoved
<1>3. CASE connect' = [connect EXCEPT ![NameOf(key[w])] = Absent]
  <2>1. Running' = [Running EXCEPT ![key[w]] = Absent]
    BY <1>1, <1>3, Alone, OtherNames DEF Running, NameOf, Keys, Typed, TypeOK
  <2>2. UNCHANGED <<Wished, Refused>>
    BY <1>1 DEF Wished, Refused
  <2> QED
    BY <1>1, <2>1, <2>2, StillDue, Alone DEF Promise!Withdraw
<1> QED
  BY <1>1, <1>2, <1>3

\* The copy that is applied is not older than the last, nor of the future.
LEMMA CallPutConfigMirrors ==
    ASSUME OwnNames, Typed, Exclusive, Ordered, RestingMatches',
           NEW w \in Workers, CallPutConfig(w)
    PROVE  Promise!Attend \/ \E k \in Keys : Promise!Apply(k)
<1> DEFINE k == key[w]
<1>1. /\ pc[w] # "idle" /\ HoldsObject(w)
      /\ \/ UNCHANGED <<connect, lastPut>>
         \/ /\ connect' = [connect EXCEPT ![NameOf(k)] = obj[w].spec]
            /\ lastPut' = [lastPut EXCEPT ![k] = obj[w].rv]
      /\ UNCHANGED <<queueVars, api, version, stream, notes, event>>
  BY DEF CallPutConfig, HoldsObject, apiVars, informerVars
<1>2. CASE UNCHANGED <<connect, lastPut>>
  BY <1>1, <1>2, Unmoved
<1>3. CASE /\ connect' = [connect EXCEPT ![NameOf(k)] = obj[w].spec]
           /\ lastPut' = [lastPut EXCEPT ![k] = obj[w].rv]
  <2>1. Running' = [Running EXCEPT ![k] = obj[w].spec]
    BY <1>1, <1>3, Alone, OtherNames DEF Running, NameOf, Keys, Typed, TypeOK
  <2>2. k \in Keys /\ obj[w].spec \in Specs
    BY <1>1 DEF Typed, Holding, HoldsObject, Object
  <2>3. obj[w].rv \in lastPut[k]..version[k]
    BY <1>1, Versions DEF Ordered, WorkerOrdered, Ahead
  <2>4. UNCHANGED <<Wished, Refused>>
    BY <1>1 DEF Wished, Refused
  <2>5. k \in Due /\ Due' = Due
    BY <1>1, StillDue
  <2> HIDE DEF k
  <2>6. Promise!Apply(k)
    BY <1>1, <1>3, <2>1, <2>2, <2>3, <2>4, <2>5 DEF Promise!Apply
  <2> QED
    BY <2>2, <2>6
<1> QED
  BY <1>1, <1>2, <1>3

\* A config that is found as it should be is reported in an Event alone.
LEMMA CallGetConfigMirrors ==
    ASSUME Typed, Exclusive, RestingMatches', NEW w \in Workers, CallGetConfig(w)
    PROVE  Promise!Attend \/ \E k \in Keys : Promise!Tell(k)
<1>1. /\ pc[w] # "idle" /\ key[w] \in Keys
      /\ event' = event \/ event' = [event EXCEPT ![key[w]] = "ConfigApplied"]
      /\ UNCHANGED <<queueVars, api, version, stream, notes, connect, lastPut>>
  BY DEF CallGetConfig, apiVars, informerVars, outsideVars, historyVars, Typed, Holding
<1>2. CASE event' = event
  BY <1>1, <1>2, Unmoved
<1>3. CASE event' = [event EXCEPT ![key[w]] = "ConfigApplied"]
  <2>1. Refused' = Refused \ {key[w]}
    BY <1>1, <1>3 DEF Refused, Typed, TypeOK
  <2>2. UNCHANGED <<Wished, Running>> /\ version' = [version EXCEPT ![key[w]] = version[key[w]]]
    BY <1>1 DEF Wished, Running, Typed, TypeOK, InformerTypeOK
  <2> QED
    BY <1>1, <2>1, <2>2, StillDue DEF Promise!Tell
<1> QED
  BY <1>1, <1>2, <1>3

\* A status update is a write of the resource, but not of its config.
LEMMA UpdateStatusMirrors ==
    ASSUME Typed, Exclusive, NEW w \in Workers, UpdateStatus(w)
    PROVE  \E k \in Keys : Promise!Tell(k)
<1> DEFINE k == key[w]
<1>1. /\ pc[w] # "idle" /\ k \in Keys
      /\ UNCHANGED apiVars \/ (api[k] # Absent /\ Store(k, api[k].spec, want[w]))
      /\ event' = [event EXCEPT ![k] = EventFor(want[w])]
      /\ UNCHANGED <<queueVars, notes, connect, lastPut>>
  BY DEF UpdateStatus, WriteStatus, informerVars, outsideVars, historyVars, Typed, Holding
<1>2. api \in [Keys -> Stored] /\ version \in [Keys -> Nat] /\ stream \in [Keys -> Seq(Stored)]
      /\ event \in [Keys -> Events] /\ want[w] \in Statuses
  BY DEF Typed, TypeOK, InformerTypeOK
<1> HIDE DEF k
<1>3. /\ Wished' = Wished
      /\ \E v \in {version[k], version[k] + 1} : version' = [version EXCEPT ![k] = v]
      /\ \A j \in Keys \ {k} : stream'[j] = stream[j]
  <2>1. CASE UNCHANGED apiVars
    BY <1>2, <2>1 DEF apiVars, Wished
  <2>2. CASE api[k] # Absent /\ Store(k, api[k].spec, want[w])
    <3> DEFINE o == [spec |-> api[k].spec, status |-> want[w], rv |-> version[k] + 1]
    <3>1. api[k] \in Object /\ version[k] \in Nat
      BY <1>1, <1>2, <2>2 DEF Stored
    <3>2. o \in Object
      BY <1>2, <3>1 DEF Object
    <3>3. /\ o # Absent /\ o.spec = api[k].spec
          /\ api' = [api EXCEPT ![k] = o]
          /\ version' = [version EXCEPT ![k] = version[k] + 1]
          /\ \A j \in Keys \ {k} : stream'[j] = stream[j]
      BY <1>2, <2>2, <3>2, AbsentIsNoObject DEF Store
    <3> HIDE DEF o
    <3> QED
      BY <1>1, <1>2, <2>2, <3>3 DEF Wished
  <2> QED
    BY <1>1, <2>1, <2>2
<1>4. Refused' \in {Refused \union {k}, Refused \ {k}}
  <2>1. CASE EventFor(want[w]) = "InvalidConfig"
    BY <1>1, <1>2, <2>1 DEF Refused
  <2>2. CASE EventFor(want[w]) # "InvalidConfig"
    BY <1>1, <1>2, <2>2 DEF Refused
  <2> QED
    BY <2>1, <2>2
<1>5. Running' = Running
  BY <1>1 DEF Running
<1>6. k \in Due /\ Due' = Due
  BY <1>1, <1>3, StillDue DEF k
<1> QED
  BY <1>1, <1>3, <1>4, <1>5, <1>6 DEF Promise!Tell

LEMMA NextMirrors ==
    ASSUME OwnNames, Typed, Exclusive, Ordered, [Next]_vars, RestingMatches'
    PROVE  Promise!MirrorNext
<1>1. ASSUME NEW k \in Keys, NEW s \in Specs, CreateConnector(k, s) \/ EditConnector(k, s)
      PROVE  Promise!MirrorNext
  BY <1>1, EditAsks DEF Promise!MirrorNext
<1>2. ASSUME NEW k \in Keys, DeleteConnector(k)
      PROVE  Promise!MirrorNext
  BY <1>2, DeletionAsks DEF Promise!MirrorNext
<1>3. ASSUME NEW w \in Workers, WorkerStep(w)
      PROVE  Promise!MirrorNext
  <2>1. CASE Dequeue(w) \/ Lookup(w) \/ BuildConfig(w) \/ Conclude(w)
    <3>1. UNCHANGED <<api, version, connect, lastPut, event>>
      BY <2>1 DEF Dequeue, Lookup, BuildConfig, Conclude, apiVars, outsideVars, historyVars
    <3> QED
      BY <3>1, Unmoved DEF Promise!MirrorNext
  <2>2. CASE CallDelete(w)
    BY <2>2, CallDeleteMirrors DEF Promise!MirrorNext
  <2>3. CASE CallGetConfig(w)
    BY <2>3, CallGetConfigMirrors DEF Promise!MirrorNext
  <2>4. CASE CallPutConfig(w)
    BY <2>4, CallPutConfigMirrors DEF Promise!MirrorNext
  <2>5. CASE UpdateStatus(w)
    BY <2>5, UpdateStatusMirrors DEF Promise!MirrorNext
  <2> QED
    BY <1>3, <2>1, <2>2, <2>3, <2>4, <2>5 DEF WorkerStep
<1>4. CASE \/ \E s \in Specs : ChangeStore(s)
           \/ BreakWatch \/ Restart \/ UNCHANGED vars
           \/ \E k \in Keys : \/ InformerDeliver(k) \/ InformerResync(k)
                              \/ HandleNote(k) \/ BackoffExpires(k)
  <2>1. UNCHANGED <<api, version, connect, lastPut, event>>
    BY <1>4 DEF ChangeStore, BreakWatch, Relist, Restart, StartInformer, InformerDeliver,
       Deliver, InformerResync, Resync, HandleNote, BackoffExpires, apiVars, outsideVars,
       historyVars, vars
  <2> QED
    BY <2>1, Unmoved DEF Promise!MirrorNext
<1> QED
  BY <1>1, <1>2, <1>3, <1>4 DEF Next

(***************************************************************************)
(* The operator keeps its promise: whatever its caches, queue, workers,    *)
(* retries and restarts do, what users and Connect see of it is a          *)
(* behaviour of Mirror.                                                    *)
(***************************************************************************)
THEOREM MirrorsImplemented == OwnNames => (Spec => ImplementsMirror)
<1> SUFFICES ASSUME OwnNames
             PROVE  Spec => ImplementsMirror
  OBVIOUS
<1>1. Init => Promise!MirrorInit
  <2> SUFFICES ASSUME Init
               PROVE  Promise!MirrorInit
    OBVIOUS
  <2>1. /\ api = [k \in Keys |-> Absent] /\ version = [k \in Keys |-> 0]
        /\ lastPut = [k \in Keys |-> 0] /\ event = [k \in Keys |-> "None"]
        /\ connect = [n \in Names |-> Absent]
    BY DEF Init, InformerInit
  <2>2. \A k \in Keys : AtRest(k)
    BY DEF Init, InformerInit, QueueInit, AtRest, Wakes
  <2>3. \A k \in Keys : NameOf(k) \in Names
    BY DEF NameOf, Keys
  <2> QED
    BY <2>1, <2>2, <2>3 DEF Promise!MirrorInit, Wished, Running, Refused, Due
<1>2. /\ OwnNames /\ Typed /\ Exclusive /\ Ordered /\ [Next]_vars /\ RestingMatches'
      => [Promise!MirrorNext]_Promise!mirrorVars
  BY NextMirrors
<1>3. Spec => []RestingMatches
  BY RestMatches
<1> QED
  BY <1>1, <1>2, <1>3, OrderedAlways, PTL DEF Spec, ImplementsMirror, Promise!MirrorSpec
=============================================================================
