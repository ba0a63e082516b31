----------------------------- MODULE OrderProofs -----------------------------
(***************************************************************************)
(* Connect never goes back to the config of an older version of a          *)
(* resource, for any number of resources, workers, edits and disturbances  *)
(* of every kind (a restart and a new list included).                      *)
(*                                                                         *)
(* The invariant orders the places where a version of a resource may be:   *)
(* what was put last, the copies that workers hold, the indexer, the watch *)
(* stream from its oldest event on, and the API server.                    *)
(***************************************************************************)
EXTENDS TypeProofs

\* The version n is not newer than o, if there is a resource o.
Before(n, o) == o # Absent => n <= o.rv

\* Nor newer than anything the indexer has yet to learn of k.
Ahead(k, n) ==
    /\ n <= version[k]
    /\ Before(n, api[k])
    /\ \A i \in 1..Len(stream[k]) : Before(n, stream[k][i])

StreamOrdered(k) ==
    \A i \in 1..Len(stream[k]) :
        stream[k][i] # Absent =>
            /\ stream[k][i].rv <= version[k]
            /\ Before(stream[k][i].rv, api[k])
            /\ \A j \in i..Len(stream[k]) : Before(stream[k][i].rv, stream[k][j])

KeyOrdered(k) ==
    /\ api[k] # Absent => api[k].rv <= version[k]
    /\ StreamOrdered(k)
    /\ cache[k] # Absent => Ahead(k, cache[k].rv)
    /\ Ahead(k, lastPut[k]) /\ Before(lastPut[k], cache[k])

WorkerOrdered(w) ==
    HoldsObject(w) =>
        /\ Ahead(key[w], obj[w].rv) /\ Before(obj[w].rv, cache[key[w]])
        /\ lastPut[key[w]] <= obj[w].rv

Ordered ==
    /\ \A k \in Keys : KeyOrdered(k)
    /\ \A w \in Workers : WorkerOrdered(w)

-----------------------------------------------------------------------------
(* The API server and the informer. *)

\* A resource has a version, and so do a worker's copy and the last PUT.
LEMMA Versions ==
    ASSUME Typed
    PROVE  /\ \A o \in Stored : o # Absent => o.rv \in Nat
           /\ \A k \in Keys : /\ version[k] \in Nat /\ lastPut[k] \in Nat
                              /\ api[k] \in Stored /\ cache[k] \in Stored
                              /\ stream[k] \in Seq(Stored) /\ Len(stream[k]) \in Nat
                              /\ \A i \in 1..Len(stream[k]) : stream[k][i] \in Stored
           /\ \A w \in Workers : HoldsObject(w) => key[w] \in Keys /\ obj[w].rv \in Nat
<1>1. \A o \in Stored : o # Absent => o.rv \in Nat
  BY DEF Stored, Object
<1>2. \A w \in Workers : HoldsObject(w) => key[w] \in Keys /\ obj[w].rv \in Nat
  BY DEF Typed, Holding, HoldsObject, Object
<1> QED
  BY <1>1, <1>2, ElementOfSeq, LenProperties DEF Typed, TypeOK, InformerTypeOK

\* A write of the API server: a version newer than all others, or Absent.
Writes(k, o) ==
    /\ o \in Stored
    /\ api' = [api EXCEPT ![k] = o]
    /\ stream' = [stream EXCEPT ![k] = Append(stream[k], o)]
    /\ \/ o = Absent /\ version' = version
       \/ /\ o # Absent /\ o.rv = version[k] + 1
          /\ version' = [version EXCEPT ![k] = version[k] + 1]

\* Nothing that was not newer than the present is newer than what comes.
LEMMA WriteAhead ==
    ASSUME Typed, NEW k \in Keys, NEW o, Writes(k, o),
           NEW j \in Keys, NEW n \in Nat, Ahead(j, n)
    PROVE  Ahead(j, n)'
<1>1. CASE j = k
  <2>1. /\ stream'[k] = Append(stream[k], o) /\ api'[k] = o
        /\ version'[k] >= version[k] /\ version[k] \in Nat
        /\ o # Absent => o.rv = version[k] + 1
    BY Versions DEF Writes, Typed, TypeOK, InformerTypeOK
  <2>2. /\ Len(stream'[k]) = Len(stream[k]) + 1 /\ Len(stream[k]) \in Nat
        /\ \A i \in 1..Len(stream[k]) : stream'[k][i] = stream[k][i]
        /\ stream'[k][Len(stream[k]) + 1] = o
    BY <2>1, Versions, AppendProperties DEF Writes
  <2>3. version'[k] \in Nat
    BY Versions DEF Writes, Typed, TypeOK, InformerTypeOK
  <2> QED
    BY <1>1, <2>1, <2>2, <2>3 DEF Ahead, Before
<1>2. CASE j # k
  BY <1>2 DEF Writes, Ahead, Before, Typed, TypeOK, InformerTypeOK
<1> QED
  BY <1>1, <1>2

LEMMA WriteOrdered ==
    ASSUME Typed, Ordered, NEW k \in Keys, NEW o, Writes(k, o),
           UNCHANGED <<cache, lastPut, obj, key>>,
           \A w \in Workers : HoldsObject(w)' => HoldsObject(w)
    PROVE  Ordered'
<1>1. /\ stream'[k] = Append(stream[k], o) /\ api'[k] = o
      /\ version'[k] >= version[k] /\ version'[k] \in Nat /\ version[k] \in Nat
      /\ o # Absent => o.rv = version[k] + 1 /\ version'[k] = version[k] + 1
  BY Versions DEF Writes, Typed, TypeOK, InformerTypeOK
<1>2. /\ Len(stream'[k]) = Len(stream[k]) + 1 /\ Len(stream[k]) \in Nat
      /\ \A i \in 1..Len(stream[k]) : stream'[k][i] = stream[k][i]
      /\ stream'[k][Len(stream[k]) + 1] = o
  BY <1>1, Versions, AppendProperties DEF Writes
<1>3. StreamOrdered(k)'
  <2> SUFFICES ASSUME NEW i \in 1..Len(stream'[k]), stream'[k][i] # Absent
               PROVE  /\ stream'[k][i].rv <= version'[k]
                      /\ Before(stream'[k][i].rv, api'[k])
                      /\ \A j \in i..Len(stream'[k]) :
                            Before(stream'[k][i].rv, stream'[k][j])
    BY DEF StreamOrdered, Before
  <2>1. CASE i \in 1..Len(stream[k])
    <3>1. /\ stream'[k][i] = stream[k][i] /\ stream[k][i].rv \in Nat
          /\ stream[k][i].rv <= version[k]
          /\ \A j \in i..Len(stream[k]) : Before(stream[k][i].rv, stream[k][j])
      BY <1>2, <2>1, Versions DEF Ordered, KeyOrdered, StreamOrdered
    <3>2. Before(stream[k][i].rv, o)
      BY <1>1, <3>1 DEF Before
    <3>3. ASSUME NEW j \in i..Len(stream'[k])
          PROVE  Before(stream'[k][i].rv, stream'[k][j])
      <4>1. j \in i..Len(stream[k]) \/ j = Len(stream[k]) + 1
        BY <1>2, <2>1
      <4>2. j \in i..Len(stream[k]) => j \in 1..Len(stream[k])
        BY <1>2, <2>1
      <4> QED
        BY <1>2, <3>1, <3>2, <4>1, <4>2
    <3> QED
      BY <1>1, <3>1, <3>2, <3>3
  <2>2. CASE i = Len(stream[k]) + 1
    <3>1. stream'[k][i] = o /\ o # Absent /\ o.rv \in Nat
      BY <1>2, <2>2, Versions DEF Writes
    <3>2. \A j \in i..Len(stream'[k]) : j = i
      BY <1>2, <2>2
    <3> QED
      BY <1>1, <3>1, <3>2 DEF Before
  <2> QED
    BY <1>2, <2>1, <2>2
<1>4. \A j \in Keys \ {k} : StreamOrdered(j)'
  BY DEF Ordered, KeyOrdered, StreamOrdered, Before, Writes, Typed, TypeOK, InformerTypeOK
<1>5. \A j \in Keys : api'[j] # Absent => api'[j].rv <= version'[j]
  <2>1. api'[k] # Absent => api'[k].rv <= version'[k]
    BY <1>1
  <2>2. \A j \in Keys \ {k} : api'[j] = api[j] /\ version'[j] = version[j]
    BY DEF Writes, Typed, TypeOK, InformerTypeOK
  <2> QED
    BY <2>1, <2>2 DEF Ordered, KeyOrdered
<1>6. \A j \in Keys : cache'[j] # Absent => Ahead(j, cache[j].rv)'
  BY WriteAhead, Versions DEF Ordered, KeyOrdered
<1>7. \A j \in Keys : Ahead(j, lastPut[j])' /\ Before(lastPut[j], cache[j])'
  BY WriteAhead, Versions DEF Ordered, KeyOrdered, Before
<1>8. \A w \in Workers : WorkerOrdered(w)'
  BY WriteAhead, Versions DEF Ordered, WorkerOrdered, Before
<1> QED
  BY <1>3, <1>4, <1>5, <1>6, <1>7, <1>8 DEF Ordered, KeyOrdered

\* The indexer takes the oldest watch event.
LEMMA DeliverOrdered ==
    ASSUME Typed, Ordered, NEW k \in Keys, InformerDeliver(k)
    PROVE  Ordered'
<1> DEFINE s == stream[k]
<1>1. /\ s # <<>>
      /\ stream' = [stream EXCEPT ![k] = Tail(s)]
      /\ cache' = [cache EXCEPT ![k] = Head(s)]
      /\ UNCHANGED <<api, version, lastPut, pc, key, obj>>
  BY DEF InformerDeliver, Deliver, workerVars, historyVars
<1>2. /\ stream'[k] = Tail(s) /\ cache'[k] = Head(s)
      /\ \A j \in Keys \ {k} : stream'[j] = stream[j] /\ cache'[j] = cache[j]
  BY <1>1 DEF Typed, TypeOK, InformerTypeOK
<1>3. /\ Len(s) \in Nat /\ Len(s) > 0 /\ Head(s) = s[1]
      /\ Len(stream'[k]) = Len(s) - 1
      /\ \A i \in 1..Len(stream'[k]) : stream'[k][i] = s[i + 1]
  <2>1. s \in Seq(Stored) /\ Len(s) \in Nat /\ Len(s) # 0
    BY <1>1, Versions, EmptySeq
  <2>2. /\ Head(s) = s[1] /\ Len(Tail(s)) = Len(s) - 1
        /\ \A i \in 1..Len(Tail(s)) : Tail(s)[i] = s[i + 1]
    BY <1>1, <2>1, HeadTailProperties
  <2> QED
    BY <1>2, <2>1, <2>2
<1> HIDE DEF s
<1>4. \A i \in 1..Len(stream'[k]) : i + 1 \in 1..Len(s)
  BY <1>3
<1>5. ASSUME NEW j \in Keys, NEW n \in Nat, Ahead(j, n)
      PROVE  Ahead(j, n)' /\ (j = k => Before(n, Head(s)))
  <2>1. CASE j = k
    BY <1>1, <1>3, <1>4, <1>5, <2>1 DEF Ahead, Before, s
  <2>2. CASE j # k
    BY <1>1, <1>2, <1>5, <2>2 DEF Ahead, Before
  <2> QED
    BY <2>1, <2>2
<1>6. StreamOrdered(k)'
  <2> SUFFICES ASSUME NEW i \in 1..Len(stream'[k]), stream'[k][i] # Absent
               PROVE  /\ stream'[k][i].rv <= version'[k]
                      /\ Before(stream'[k][i].rv, api'[k])
                      /\ \A j \in i..Len(stream'[k]) :
                            Before(stream'[k][i].rv, stream'[k][j])
    BY DEF StreamOrdered, Before
  <2>1. /\ s[i + 1] # Absent /\ i + 1 \in 1..Len(s) /\ stream'[k][i] = s[i + 1]
        /\ s[i + 1].rv <= version[k]
        /\ Before(s[i + 1].rv, api[k])
        /\ \A j \in (i + 1)..Len(s) : Before(s[i + 1].rv, s[j])
    BY <1>3, <1>4 DEF Ordered, KeyOrdered, StreamOrdered, s
  <2>2. \A j \in i..Len(stream'[k]) :
           j + 1 \in (i + 1)..Len(s) /\ stream'[k][j] = s[j + 1]
    BY <1>3, <1>4
  <2> QED
    BY <1>1, <2>1, <2>2
<1>7. \A j \in Keys \ {k} : StreamOrdered(j)'
  BY <1>1, <1>2 DEF Ordered, KeyOrdered, StreamOrdered, Before
<1>8. cache'[k] # Absent => Ahead(k, cache[k].rv)'
  <2> SUFFICES ASSUME cache'[k] # Absent
               PROVE  Ahead(k, cache[k].rv)'
    OBVIOUS
  <2>1. 1 \in 1..Len(s) /\ cache'[k] = s[1] /\ s[1] # Absent
    BY <1>2, <1>3
  <2>2. /\ s[1].rv <= version[k] /\ Before(s[1].rv, api[k])
        /\ \A j \in 1..Len(s) : Before(s[1].rv, s[j])
    BY <2>1 DEF Ordered, KeyOrdered, StreamOrdered, s
  <2> QED
    BY <1>1, <1>3, <1>4, <2>1, <2>2 DEF Ahead, Before
<1>9. \A j \in Keys \ {k} : cache'[j] # Absent => Ahead(j, cache[j].rv)'
  BY <1>2, <1>5, Versions DEF Ordered, KeyOrdered
<1>10. \A j \in Keys : Ahead(j, lastPut[j])' /\ Before(lastPut[j], cache[j])'
  BY <1>1, <1>2, <1>5, Versions DEF Ordered, KeyOrdered, Before
<1>11. \A w \in Workers : WorkerOrdered(w)'
  BY <1>1, <1>2, <1>5, Versions DEF Ordered, WorkerOrdered, HoldsObject, Before
<1> QED
  BY <1>1, <1>6, <1>7, <1>8, <1>9, <1>10, <1>11 DEF Ordered, KeyOrdered

\* A new list: the indexer jumps to what the API server has.
LEMMA BreakWatchOrdered ==
    ASSUME Typed, Ordered, BreakWatch
    PROVE  Ordered'
<1>1. /\ cache' = api /\ \A k \in Keys : stream'[k] = <<>>
      /\ UNCHANGED <<api, version, lastPut, pc, key, obj>>
  BY DEF BreakWatch, Relist, workerVars, historyVars
<1>2. \A k \in Keys, n \in Nat : Ahead(k, n) => Ahead(k, n)' /\ Before(n, api[k])
  BY <1>1 DEF Ahead, Before
<1>3. \A k \in Keys : cache'[k] # Absent => Ahead(k, cache[k].rv)'
  BY <1>1, Versions DEF Ordered, KeyOrdered, Ahead, Before
<1>4. \A k \in Keys : StreamOrdered(k)'
  BY <1>1 DEF StreamOrdered
<1>5. \A k \in Keys : Ahead(k, lastPut[k])' /\ Before(lastPut[k], cache[k])'
  BY <1>1, <1>2, Versions DEF Ordered, KeyOrdered, Before
<1>6. \A w \in Workers : WorkerOrdered(w)'
  BY <1>1, <1>2, Versions DEF Ordered, WorkerOrdered, HoldsObject, Before
<1> QED
  BY <1>1, <1>3, <1>4, <1>5, <1>6 DEF Ordered, KeyOrdered

\* A restart: the first list of the new process is not older than the last PUT
\* of the one before it.
LEMMA RestartOrdered ==
    ASSUME Typed, Ordered, Restart
    PROVE  Ordered'
<1>1. /\ \A k \in Keys : cache'[k] = Absent
      /\ \A k \in Keys : stream'[k] = IF api[k] = Absent THEN <<>> ELSE <<api[k]>>
      /\ \A w \in Workers : ~HoldsObject(w)'
      /\ UNCHANGED <<api, version, lastPut>>
  BY DEF Restart, StartInformer, HoldsObject
<1>2. \A k \in Keys : \A i \in 1..Len(stream'[k]) :
         i = 1 /\ Len(stream'[k]) = 1 /\ stream'[k][i] = api[k]
  <2> SUFFICES ASSUME NEW k \in Keys, NEW i \in 1..Len(stream'[k])
               PROVE  i = 1 /\ Len(stream'[k]) = 1 /\ stream'[k][i] = api[k]
    OBVIOUS
  <2>1. CASE api[k] = Absent
    <3>1. stream'[k] = <<>>
      BY <1>1, <2>1
    <3> QED
      BY <3>1
  <2>2. CASE api[k] # Absent
    <3>1. stream'[k] = <<api[k]>>
      BY <1>1, <2>2
    <3>2. Len(<<api[k]>>) = 1 /\ <<api[k]>>[1] = api[k]
      OBVIOUS
    <3> QED
      BY <3>1, <3>2
  <2> QED
    BY <2>1, <2>2
<1>3. \A k \in Keys : StreamOrdered(k)'
  <2> SUFFICES ASSUME NEW k \in Keys, NEW i \in 1..Len(stream'[k]), stream'[k][i] # Absent
               PROVE  /\ stream'[k][i].rv <= version'[k]
                      /\ Before(stream'[k][i].rv, api'[k])
                      /\ \A j \in i..Len(stream'[k]) :
                            Before(stream'[k][i].rv, stream'[k][j])
    BY DEF StreamOrdered, Before
  <2>1. i = 1 /\ Len(stream'[k]) = 1 /\ stream'[k][1] = api[k] /\ api[k].rv \in Nat
    BY <1>2, Versions
  <2>2. \A j \in i..Len(stream'[k]) : j = 1
    BY <2>1
  <2> QED
    BY <1>1, <2>1, <2>2 DEF Ordered, KeyOrdered, Before
<1>4. \A k \in Keys : Ahead(k, lastPut[k])'
  BY <1>1, <1>2 DEF Ordered, KeyOrdered, Ahead, Before
<1>5. \A w \in Workers : WorkerOrdered(w)'
  BY <1>1 DEF WorkerOrdered
<1> QED
  BY <1>1, <1>3, <1>4, <1>5 DEF Ordered, KeyOrdered, Before

-----------------------------------------------------------------------------
(* The workers, and the other steps. *)

\* Steps that move no version, and give no worker another copy.
LEMMA StutterOrdered ==
    ASSUME Ordered, UNCHANGED <<api, version, stream, cache, lastPut, obj, key>>,
           \A w \in Workers : HoldsObject(w)' => HoldsObject(w)
    PROVE  Ordered'
BY DEF Ordered, KeyOrdered, WorkerOrdered, StreamOrdered, Ahead, Before

\* The copy that the lister returns is the indexer's.
LEMMA LookupOrdered ==
    ASSUME Typed, Ordered, NEW w \in Workers, Lookup(w)
    PROVE  Ordered'
<1> DEFINE k == key[w]
<1>1. /\ k \in Keys
      /\ pc' = [pc EXCEPT ![w] = IF cache[k] = Absent THEN "remove" ELSE "build"]
      /\ obj' = [obj EXCEPT ![w] = cache[k]]
      /\ UNCHANGED <<api, version, stream, cache, lastPut, key>>
  BY DEF Lookup, ListerGet, Goto, apiVars, informerVars, Typed, Holding
<1>2. \A j \in Keys : KeyOrdered(j)'
  BY <1>1 DEF Ordered, KeyOrdered, StreamOrdered, Ahead, Before
<1>3. WorkerOrdered(w)'
  <2>1. CASE cache[k] = Absent
    BY <1>1, <2>1 DEF WorkerOrdered, HoldsObject, Typed, TypeOK
  <2>2. CASE cache[k] # Absent
    <3>1. Ahead(k, cache[k].rv) /\ lastPut[k] <= cache[k].rv /\ cache[k].rv \in Nat
      BY <1>1, <2>2, Versions DEF Ordered, KeyOrdered, Before
    <3>2. obj'[w] = cache[k]
      BY <1>1 DEF Typed, TypeOK
    <3> QED
      BY <1>1, <3>1, <3>2 DEF WorkerOrdered, Ahead, Before
  <2> QED
    BY <2>1, <2>2
<1>4. \A v \in Workers \ {w} : WorkerOrdered(v)'
  BY <1>1 DEF Ordered, WorkerOrdered, HoldsObject, Ahead, Before, Typed, TypeOK
<1> QED
  BY <1>2, <1>3, <1>4 DEF Ordered

\* A PUT comes from a copy that is not older than the one behind the last PUT,
\* and no other worker holds a copy of that resource.
LEMMA CallPutConfigOrdered ==
    ASSUME Typed, Exclusive, Ordered, NEW w \in Workers, CallPutConfig(w)
    PROVE  Ordered' /\ \A k \in Keys : lastPut'[k] >= lastPut[k]
<1> DEFINE k == key[w]
<1>1. /\ HoldsObject(w) /\ k \in Keys /\ obj[w].rv \in Nat
      /\ lastPut' = lastPut \/ lastPut' = [lastPut EXCEPT ![k] = obj[w].rv]
      /\ \E step \in {"report", "finish"} : pc' = [pc EXCEPT ![w] = step]
      /\ UNCHANGED <<api, version, stream, cache, obj, key>>
  BY Versions DEF CallPutConfig, HoldsObject, Report, Goto, apiVars, informerVars
<1>2. \A v \in Workers : HoldsObject(v)' => HoldsObject(v)
  BY <1>1 DEF HoldsObject, Typed, TypeOK
<1>3. CASE lastPut' = lastPut
  BY <1>1, <1>2, <1>3, StutterOrdered, Versions
<1>4. CASE lastPut' = [lastPut EXCEPT ![k] = obj[w].rv]
  <2>1. lastPut'[k] = obj[w].rv /\ \A j \in Keys \ {k} : lastPut'[j] = lastPut[j]
    BY <1>1, <1>4 DEF Typed, TypeOK
  <2>2. Ahead(k, obj[w].rv) /\ Before(obj[w].rv, cache[k]) /\ lastPut[k] <= obj[w].rv
    BY <1>1 DEF Ordered, WorkerOrdered
  <2>3. \A v \in Workers \ {w} : HoldsObject(v) => key[v] # k
    BY <1>1 DEF Exclusive, OneWorkerPerKey, HoldsObject
  <2>4. \A j \in Keys : KeyOrdered(j)'
    BY <1>1, <2>1, <2>2 DEF Ordered, KeyOrdered, StreamOrdered, Ahead, Before
  <2>5. WorkerOrdered(w)'
    BY <1>1, <2>1, <2>2 DEF WorkerOrdered, Ahead, Before
  <2>6. \A v \in Workers \ {w} : WorkerOrdered(v)'
    BY <1>1, <1>2, <2>1, <2>3, Versions DEF Ordered, WorkerOrdered, Ahead, Before
  <2>7. \A j \in Keys : lastPut'[j] >= lastPut[j]
    BY <2>1, <2>2, Versions
  <2> QED
    BY <2>4, <2>5, <2>6, <2>7 DEF Ordered
<1> QED
  BY <1>1, <1>3, <1>4

\* The status is written like anything else.
LEMMA UpdateStatusOrdered ==
    ASSUME Typed, Ordered, NEW w \in Workers, UpdateStatus(w)
    PROVE  Ordered'
<1> DEFINE k == key[w]
           o == [spec |-> api[k].spec, status |-> want[w], rv |-> version[k] + 1]
<1>1. /\ k \in Keys /\ want[w] \in Statuses
      /\ UNCHANGED <<cache, lastPut, obj, key>>
      /\ \E step \in {"requeue", "finish"} : pc' = [pc EXCEPT ![w] = step]
  BY DEF UpdateStatus, Goto, informerVars, historyVars, Typed, TypeOK, Holding
<1>2. \A v \in Workers : HoldsObject(v)' => HoldsObject(v)
  BY <1>1 DEF HoldsObject, Typed, TypeOK
<1>3. CASE UNCHANGED apiVars
  BY <1>1, <1>2, <1>3, StutterOrdered DEF apiVars
<1>4. CASE api[k] # Absent /\ Store(k, api[k].spec, want[w])
  <2>1. o \in Stored /\ o # Absent
    BY <1>1, <1>4, AbsentIsNoObject DEF Typed, TypeOK, InformerTypeOK, Stored, Object
  <2>2. Writes(k, o)
    BY <1>4, <2>1 DEF Writes, Store
  <2> QED
    BY <1>1, <1>2, <2>2, WriteOrdered
<1> QED
  BY <1>3, <1>4 DEF UpdateStatus, WriteStatus

\* Users write.
LEMMA EditOrdered ==
    ASSUME Typed, Ordered, NEW k \in Keys, NEW s \in Specs,
           CreateConnector(k, s) \/ EditConnector(k, s) \/ DeleteConnector(k)
    PROVE  Ordered'
<1>1. UNCHANGED <<cache, lastPut, obj, key, pc>>
  BY DEF CreateConnector, EditConnector, DeleteConnector, informerVars, workerVars, historyVars
<1>2. \A w \in Workers : HoldsObject(w)' => HoldsObject(w)
  BY <1>1 DEF HoldsObject
<1>3. CASE DeleteConnector(k)
  <2>1. Writes(k, Absent)
    BY <1>3 DEF DeleteConnector, Remove, Writes, Stored
  <2> QED
    BY <1>1, <1>2, <2>1, WriteOrdered
<1>4. CASE CreateConnector(k, s) \/ EditConnector(k, s)
  <2>1. PICK st \in Statuses : Store(k, s, st)
    BY <1>4 DEF CreateConnector, EditConnector, Typed, TypeOK, InformerTypeOK,
       Stored, Object, Statuses
  <2> DEFINE o == [spec |-> s, status |-> st, rv |-> version[k] + 1]
  <2>2. o \in Stored /\ o # Absent
    BY AbsentIsNoObject DEF Typed, TypeOK, InformerTypeOK, Stored, Object
  <2>3. Writes(k, o)
    BY <2>1, <2>2 DEF Writes, Store
  <2> QED
    BY <1>1, <1>2, <2>3, WriteOrdered
<1> QED
  BY <1>3, <1>4

\* The steps that move no version.
LEMMA QuietOrdered ==
    ASSUME Typed, Ordered,
           \/ \E s \in Specs : ChangeStore(s)
           \/ \E k \in Keys : InformerResync(k) \/ HandleNote(k) \/ BackoffExpires(k)
           \/ UNCHANGED vars
    PROVE  Ordered'
<1>1. UNCHANGED <<api, version, stream, cache, lastPut, obj, key, pc>>
  BY DEF ChangeStore, InformerResync, Resync, HandleNote, BackoffExpires, vars,
     apiVars, informerVars, workerVars, historyVars
<1> QED
  BY <1>1, StutterOrdered DEF HoldsObject

LEMMA CallsOrdered ==
    ASSUME Typed, Ordered, NEW w \in Workers,
           \/ CallDelete(w) \/ BuildConfig(w) \/ CallGetConfig(w)
    PROVE  Ordered' /\ lastPut' = lastPut
<1>1. /\ UNCHANGED <<api, version, stream, cache, lastPut, obj, key>>
      /\ \/ pc' = [pc EXCEPT ![w] = "finish"]
         \/ HoldsObject(w) /\ \E step : pc' = [pc EXCEPT ![w] = step]
  BY DEF CallDelete, BuildConfig, ReportInvalid, CallGetConfig, Report, Goto, HoldsObject,
     apiVars, informerVars, historyVars
<1>2. \A v \in Workers : HoldsObject(v)' => HoldsObject(v)
  BY <1>1 DEF HoldsObject, Typed, TypeOK
<1> QED
  BY <1>1, <1>2, StutterOrdered

\* A worker that gets an item or is done with one holds no copy afterwards.
LEMMA TurnOrdered ==
    ASSUME Typed, Ordered, NEW w \in Workers, Dequeue(w) \/ Conclude(w)
    PROVE  Ordered'
<1>1. /\ UNCHANGED <<api, version, stream, cache, lastPut>>
      /\ \E step \in {"lookup", "idle"} : pc' = [pc EXCEPT ![w] = step]
      /\ \A v \in Workers \ {w} : key'[v] = key[v] /\ obj'[v] = obj[v]
  BY DEF Dequeue, Conclude, Goto, apiVars, informerVars, historyVars, Typed, TypeOK
<1>2. ~HoldsObject(w)' /\ \A v \in Workers \ {w} : HoldsObject(v)' => HoldsObject(v)
  BY <1>1 DEF HoldsObject, Typed, TypeOK
<1>3. \A k \in Keys : KeyOrdered(k)'
  BY <1>1 DEF Ordered, KeyOrdered, StreamOrdered, Ahead, Before
<1>4. \A v \in Workers \ {w} : WorkerOrdered(v)'
  BY <1>1, <1>2 DEF Ordered, WorkerOrdered, Ahead, Before
<1>5. WorkerOrdered(w)'
  BY <1>2 DEF WorkerOrdered
<1> QED
  BY <1>3, <1>4, <1>5 DEF Ordered

\* One step keeps the inductive invariant.
LEMMA NextOrdered ==
    ASSUME Typed, Exclusive, Ordered, [Next]_vars
    PROVE  Ordered'
<1>1. ASSUME NEW k \in Keys, NEW s \in Specs, CreateConnector(k, s) \/ EditConnector(k, s)
      PROVE  Ordered'
  BY <1>1, EditOrdered
<1>2. ASSUME NEW k \in Keys, DeleteConnector(k)
      PROVE  Ordered'
  <2>1. api[k].spec \in Specs
    BY <1>2 DEF DeleteConnector, Typed, TypeOK, InformerTypeOK, Stored, Object
  <2> QED
    BY <1>2, <2>1, EditOrdered
<1>3. CASE BreakWatch \/ Restart \/ \E k \in Keys : InformerDeliver(k)
  BY <1>3, BreakWatchOrdered, RestartOrdered, DeliverOrdered
<1>4. ASSUME NEW w \in Workers, WorkerStep(w)
      PROVE  Ordered'
  BY <1>4, LookupOrdered, CallPutConfigOrdered, UpdateStatusOrdered, CallsOrdered,
     TurnOrdered DEF WorkerStep
<1> QED
  BY <1>1, <1>2, <1>3, <1>4, QuietOrdered DEF Next

LEMMA OrderedAlways == Spec => [](Typed /\ Exclusive /\ Ordered)
<1>1. Init => Ordered
  <2>1. ASSUME Init, NEW k \in Keys
        PROVE  KeyOrdered(k)
    BY <2>1 DEF Init, InformerInit, KeyOrdered, StreamOrdered, Ahead, Before
  <2> QED
    BY <2>1 DEF Init, Ordered, WorkerOrdered, HoldsObject
<1>2. Ordered /\ Typed /\ Exclusive /\ [Next]_vars => Ordered'
  BY NextOrdered
<1> QED
  BY <1>1, <1>2, ExclusiveAlways, PTL DEF Spec

(***************************************************************************)
(* The PUTs about a resource come in the order of its versions: the two    *)
(* branches of syncHandler that call PutConfig never replace the config of *)
(* a newer version by that of an older one, whichever workers sync it and  *)
(* whatever the informer's copy lags behind.                               *)
(***************************************************************************)
THEOREM PutsInOrder == Spec => PutsNeverGoBack
<1>1. Typed /\ Exclusive /\ Ordered /\ [Next]_vars
         => [\A k \in Keys : lastPut'[k] >= lastPut[k]]_lastPut
  <2> SUFFICES ASSUME Typed, Exclusive, Ordered, [Next]_vars, lastPut' # lastPut
               PROVE  \A k \in Keys : lastPut'[k] >= lastPut[k]
    OBVIOUS
  <2>1. \E w \in Workers : CallPutConfig(w)
    BY DEF Next, WorkerStep, CreateConnector, EditConnector, DeleteConnector, ChangeStore,
       BreakWatch, Restart, InformerDeliver, InformerResync, HandleNote, BackoffExpires,
       Dequeue, Lookup, ListerGet, CallDelete, BuildConfig, CallGetConfig, UpdateStatus, Conclude,
       historyVars, vars
  <2> QED
    BY <2>1, CallPutConfigOrdered
<1> QED
  BY <1>1, OrderedAlways, PTL DEF Spec, PutsNeverGoBack
=============================================================================
