-------------------------- MODULE ConfigBuildProofs ---------------------------
(***************************************************************************)
(* For any resources, configs, Secrets and ConfigMaps: what happens to a   *)
(* config between the API server and Kafka Connect.                        *)
(***************************************************************************)
EXTENDS ConfigBuild, TLAPS

\* What the worker holds while it is at work.
InHand ==
    /\ step # "idle" => which \in Connectors /\ held \in Connector
    /\ step = "send" => copy \in Connector /\ copy.rv = held.rv
    /\ step = "build" => \A i \in todo : held.config.items[i] # Nil

\* A copy in the indexer is named by its version, and is what its document
\* decodes to; the document is the present one if the version is.
Faithful ==
    \A c \in Connectors :
        indexer[c] # Nil =>
            /\ indexer[c].at = indexer[c].rv
            /\ indexer[c].rv <= doc[c].rv
            /\ indexer[c].config = DecodeConfig(origin[c], indexer[c].at)
            /\ indexer[c].rv = doc[c].rv => origin[c] = doc[c].config

\* So is the copy that the worker holds.
HeldFaithful ==
    step # "idle" =>
        /\ held.rv <= doc[which].rv
        /\ held.rv = doc[which].rv => held.config = DecodeConfig(doc[which].config, held.at)

HeldAsked == step \in {"build", "built", "invalid"} => held.config = DecodeConfig(asked, held.at)

\* The server has the configs that users gave.
Wished == \A c \in Connectors : doc[c].config = wish[c]

Watched == step = "build" => \A s \in Sources : store[s] \in window[s]

SoFarAsWritten == step = "build" => \A i \in Items \ todo : AsWritten(i)

BuildInv ==
    /\ BuildTypeOK
    /\ InHand
    /\ Wished
    /\ Faithful
    /\ HeldFaithful
    /\ HeldAsked
    /\ Watched
    /\ SoFarAsWritten
    /\ BuiltAsWritten
    /\ InvalidHasCause

\* A Connector whose parts were all decoded together.
OneAllocation(o) ==
    /\ o.config.at = o.at
    /\ \A i \in Items :
        o.config.items[i] # Nil /\ o.config.items[i].valueFrom # Nil
            => o.config.items[i].valueFrom.at = o.at

\* Versions begin at 1, and so do the allocations of what is decoded; 0 is
\* that of the copy.
Numbered == \A c \in Connectors : doc[c].rv # 0 /\ (indexer[c] # Nil => indexer[c].at # 0)

HeldWhole == step # "idle" => held # Nil /\ held.at # 0 /\ OneAllocation(held)

CopyOfHeld ==
    step = "send" =>
        \E status \in DocStatuses : copy = [CopyConnector(held, 0) EXCEPT !.status = status]

CopyInv == Numbered /\ HeldWhole /\ CopyOfHeld

-----------------------------------------------------------------------------
(* Types of what decoding and copying make. *)

LEMMA UnmarshalType ==
    ASSUME NEW raw \in JSONItem, NEW g \in Nat
    PROVE  UnmarshalJSON(raw, g) \in ConfigItem
<1>1. raw.json = "value" => Float64(raw.value) \in Literals \union {Rounded}
  BY DEF JSONItem, Float64
<1>2. raw.json = "object" => NewRef(raw.secretRef, g) \in Ref \union {Nil}
                              /\ NewRef(raw.configMapRef, g) \in Ref \union {Nil}
  BY DEF JSONItem, NewRef, Ref
<1>. QED  BY <1>1, <1>2 DEF UnmarshalJSON, ConfigItem, ValueFrom

LEMMA DecodeType ==
    ASSUME NEW json \in JSONConfig, NEW g \in Nat
    PROVE  DecodeConfig(json, g) \in ConnectorConfig
<1>1. \A i \in Items : json[i] # Nil => UnmarshalJSON(json[i], g) \in ConfigItem
  BY UnmarshalType DEF JSONConfig
<1>. QED  BY <1>1 DEF DecodeConfig, ConnectorConfig

LEMMA CopyType ==
    ASSUME NEW o \in Connector, NEW g \in Nat, o # Nil
    PROVE  CopyConnector(o, g) \in Connector /\ CopyConnector(o, g).rv = o.rv
<1>1. \A i \in Items : o.config.items[i] # Nil => CopyItem(o.config.items[i], g) \in ConfigItem
  <2>. SUFFICES ASSUME NEW i \in Items, o.config.items[i] # Nil
                PROVE  CopyItem(o.config.items[i], g) \in ConfigItem
    OBVIOUS
  <2>1. o.config.items[i] \in ConfigItem
    BY DEF Connector, ConnectorConfig
  <2>. QED  BY <2>1 DEF CopyItem, ConfigItem, ValueFrom
<1>2. CopyConfig(o.config, g) \in ConnectorConfig
  BY <1>1 DEF CopyConfig, ConnectorConfig
<1>. QED  BY <1>2 DEF CopyConnector, Connector

LEMMA DecodedType ==
    ASSUME NEW d \in Doc
    PROVE  /\ Decoded(d) \in Connector
           /\ Decoded(d).at = d.rv /\ Decoded(d).rv = d.rv
           /\ Decoded(d).config = DecodeConfig(d.config, d.rv)
<1>1. d.config \in JSONConfig /\ d.rv \in Nat /\ d.status \in DocStatuses
  BY ConfigsAreJSON DEF Doc
<1>. QED  BY <1>1, DecodeType DEF Decoded, Connector

-----------------------------------------------------------------------------
(* The invariant at the start. *)

LEMMA BuildInitially == BuildInit => BuildInv
<1>. SUFFICES ASSUME BuildInit PROVE BuildInv
  OBVIOUS
<1>1. NoConfig \in JSONConfig /\ NoConfig \in [Items -> Literals \union {Rounded, Nil} \union Values]
  BY DEF NoConfig, JSONConfig
<1>2. doc \in [Connectors -> Doc] /\ wish \in [Connectors -> Configs]
  BY StartsHaveConfigs DEF BuildInit, Doc, DocStatuses
<1>3. BuildTypeOK
  BY <1>1, <1>2, StoresHaveContents DEF BuildInit, BuildTypeOK
<1>4. Wished
  BY DEF BuildInit, Wished
<1>. QED
  BY <1>3, <1>4 DEF BuildInit, BuildInv, InHand, Faithful, HeldFaithful, HeldAsked, Watched,
              SoFarAsWritten, BuiltAsWritten, InvalidHasCause

-----------------------------------------------------------------------------
(* What the worker's and the informer's parts of the invariant depend on. *)

\* Nothing that the worker's part is about changes.
LEMMA WorkerRests ==
    ASSUME BuildInv, UNCHANGED <<workVars, buildVars, serverVars>>
    PROVE  /\ InHand' /\ Wished' /\ HeldFaithful' /\ HeldAsked' /\ Watched'
           /\ SoFarAsWritten' /\ BuiltAsWritten' /\ InvalidHasCause'
<1>. USE DEF workVars, buildVars, serverVars, BuildInv
<1>1. InHand' /\ Wished' /\ HeldFaithful' /\ HeldAsked' /\ Watched'
  BY DEF InHand, Wished, HeldFaithful, HeldAsked, Watched
<1>2. SoFarAsWritten' /\ BuiltAsWritten'
  BY DEF SoFarAsWritten, BuiltAsWritten, AsWritten, Meant
<1>3. InvalidHasCause'
  BY DEF InvalidHasCause, Meant
<1>. QED  BY <1>1, <1>2, <1>3

-----------------------------------------------------------------------------
(* Every action preserves the invariant. *)

LEMMA EditKeeps ==
    ASSUME BuildInv, NEW c \in Connectors, NEW json \in Configs, EditConfig(c, json)
    PROVE  BuildInv'
<1>1. doc[c] \in Doc /\ doc \in [Connectors -> Doc]
  BY DEF BuildInv, BuildTypeOK
<1>2. doc'[c] \in Doc /\ doc'[c].rv = doc[c].rv + 1
  BY <1>1 DEF EditConfig, Doc
<1>3. doc' \in [Connectors -> Doc] /\ \A d \in Connectors : d # c => doc'[d] = doc[d]
  BY <1>1, <1>2 DEF EditConfig
<1>. wish' \in [Connectors -> Configs] /\ Wished'
  BY <1>1, <1>2, <1>3 DEF EditConfig, BuildInv, BuildTypeOK, Wished, Doc
<1>4. BuildTypeOK'
  BY <1>3 DEF EditConfig, BuildInv, BuildTypeOK, informVars, buildVars, workVars
<1>5. \A d \in Connectors : indexer[d] # Nil => indexer[d] \in Connector
  BY DEF BuildInv, BuildTypeOK
<1>6. Faithful'
  <2>. SUFFICES ASSUME NEW d \in Connectors, indexer[d] # Nil
                PROVE  /\ indexer[d].at = indexer[d].rv
                       /\ indexer[d].rv <= doc'[d].rv
                       /\ indexer[d].config = DecodeConfig(origin[d], indexer[d].at)
                       /\ indexer[d].rv = doc'[d].rv => origin[d] = doc'[d].config
    BY DEF Faithful, EditConfig, informVars
  <2>1. indexer[d].rv \in Nat /\ doc[c].rv \in Nat
    BY <1>1, <1>5 DEF Connector, Doc
  <2>. QED  BY <2>1, <1>2, <1>3 DEF BuildInv, Faithful
<1>7. HeldFaithful'
  <2>. SUFFICES ASSUME step # "idle"
                PROVE  /\ held.rv <= doc'[which].rv
                       /\ held.rv = doc'[which].rv
                            => held.config = DecodeConfig(doc'[which].config, held.at)
    BY DEF HeldFaithful, EditConfig, workVars
  <2>1. which \in Connectors /\ held.rv \in Nat /\ doc[c].rv \in Nat
    BY <1>1 DEF BuildInv, InHand, Connector, Doc
  <2>. QED  BY <2>1, <1>2, <1>3 DEF BuildInv, HeldFaithful
<1>8. InHand' /\ HeldAsked' /\ Watched' /\ InvalidHasCause'
  BY DEF EditConfig, workVars, buildVars, BuildInv, InHand, HeldAsked, Watched, InvalidHasCause,
         Meant
<1>9. SoFarAsWritten' /\ BuiltAsWritten'
  BY DEF EditConfig, workVars, buildVars, BuildInv, SoFarAsWritten, BuiltAsWritten, AsWritten,
         Meant
<1>. QED  BY <1>4, <1>6, <1>7, <1>8, <1>9 DEF BuildInv

LEMMA StoreKeeps ==
    ASSUME BuildInv, NEW s \in Sources, NEW v \in Contents, ChangeStore(s, v)
    PROVE  BuildInv'
<1>. USE DEF ChangeStore, informVars, workVars
<1>1. /\ store \in [Sources -> Contents] /\ window \in [Sources -> SUBSET Contents]
      /\ store' = [store EXCEPT ![s] = v]
      /\ window' = IF step = "build" THEN [window EXCEPT ![s] = window[s] \union {v}] ELSE window
  BY DEF BuildInv, BuildTypeOK
<1>2. store' \in [Sources -> Contents] /\ window' \in [Sources -> SUBSET Contents]
  BY <1>1
<1>3. BuildTypeOK'
  BY <1>2 DEF BuildInv, BuildTypeOK
<1>4. InHand' /\ Wished' /\ Faithful' /\ HeldFaithful' /\ HeldAsked'
  BY DEF BuildInv, InHand, Wished, Faithful, HeldFaithful, HeldAsked
<1>5. Watched'
  BY <1>1 DEF BuildInv, Watched
<1>6. \A r \in Sources : window[r] \subseteq window'[r]
  BY <1>1
<1>7. SoFarAsWritten'
  <2>. SUFFICES ASSUME step = "build", NEW i \in Items \ todo PROVE AsWritten(i)'
    BY DEF SoFarAsWritten
  <2>1. AsWritten(i)
    BY DEF BuildInv, SoFarAsWritten
  <2>2. asked[i] # Nil => asked[i] \in JSONItem
    BY DEF BuildInv, BuildTypeOK, JSONConfig
  <2>3. asked[i] # Nil => Meant(asked[i]) \subseteq Sources
    BY <2>2 DEF BuildInv, InHand, Meant, Sources, JSONItem, Connectors
  <2>. QED  BY <2>1, <2>3, <1>6 DEF AsWritten, Meant
<1>8. BuiltAsWritten' /\ InvalidHasCause'
  <2>1. step \in {"built", "invalid"} => window' = window
    BY <1>1
  <2>. QED  BY <2>1 DEF BuildInv, BuiltAsWritten, InvalidHasCause, AsWritten, Meant
<1>. QED  BY <1>3, <1>4, <1>5, <1>7, <1>8 DEF BuildInv

LEMMA ListKeeps ==
    ASSUME BuildInv, List
    PROVE  BuildInv'
<1>. USE DEF List, serverVars, countVars
<1>1. /\ doc \in [Connectors -> Doc] /\ indexer \in [Connectors -> Connector \union {Nil}]
      /\ origin \in [Connectors -> JSONConfig]
  BY DEF BuildInv, BuildTypeOK
<1>2. \A c \in Connectors : doc[c].config \in JSONConfig /\ doc[c].config = wish[c]
  BY <1>1, ConfigsAreJSON DEF Doc, BuildInv, Wished
<1>3. \A c \in Connectors : Decoded(doc[c]) \in Connector
  BY <1>1, DecodedType
<1>4. /\ indexer' \in [Connectors -> Connector \union {Nil}]
      /\ origin' \in [Connectors -> JSONConfig]
  BY <1>1, <1>2, <1>3
<1>5. BuildTypeOK'
  BY <1>4 DEF BuildInv, BuildTypeOK, buildVars, workVars
<1>6. Faithful'
  <2>. SUFFICES ASSUME NEW c \in Connectors, indexer'[c] # Nil
                PROVE  /\ indexer'[c].at = indexer'[c].rv
                       /\ indexer'[c].rv <= doc[c].rv
                       /\ indexer'[c].config = DecodeConfig(origin'[c], indexer'[c].at)
                       /\ indexer'[c].rv = doc[c].rv => origin'[c] = doc[c].config
    BY DEF Faithful
  <2>1. CASE indexer'[c] = indexer[c] /\ origin'[c] = origin[c]
    BY <2>1 DEF BuildInv, Faithful
  <2>2. CASE c \in Reached /\ indexer[c] # Nil /\ indexer[c].rv = doc[c].rv
    <3>1. indexer'[c] = indexer[c] /\ origin'[c] = origin[c]
      BY <2>2, <1>1, <1>2 DEF BuildInv, Faithful
    <3>. QED  BY <3>1, <2>1
  <2>3. CASE c \in Reached /\ ~(indexer[c] # Nil /\ indexer[c].rv = doc[c].rv)
    <3>1. indexer'[c] = Decoded(doc[c]) /\ origin'[c] = doc[c].config
      BY <2>3, <1>1, <1>2
    <3>2. doc[c].rv \in Nat
      BY <1>1 DEF Doc
    <3>. QED  BY <3>1, <3>2, <1>1, DecodedType
  <2>4. c \notin Reached => indexer'[c] = indexer[c] /\ origin'[c] = origin[c]
    BY <1>1
  <2>. QED  BY <2>1, <2>2, <2>3, <2>4
<1>. QED  BY <1>5, <1>6, WorkerRests DEF BuildInv

LEMMA WatchKeeps ==
    ASSUME BuildInv, NEW c \in Connectors, Watch(c)
    PROVE  BuildInv'
<1>. USE DEF Watch, serverVars, countVars
<1>1. /\ doc \in [Connectors -> Doc] /\ indexer \in [Connectors -> Connector \union {Nil}]
      /\ origin \in [Connectors -> JSONConfig]
  BY DEF BuildInv, BuildTypeOK
<1>2. doc[c].config \in JSONConfig /\ doc[c].config = wish[c] /\ doc[c].rv \in Nat
  BY <1>1, ConfigsAreJSON DEF Doc, BuildInv, Wished
<1>3. /\ Decoded(doc[c]) \in Connector
      /\ Decoded(doc[c]).at = doc[c].rv /\ Decoded(doc[c]).rv = doc[c].rv
      /\ Decoded(doc[c]).config = DecodeConfig(doc[c].config, doc[c].rv)
  BY <1>1, DecodedType
<1>4. CASE UNCHANGED <<indexer, origin>> /\ watching' = FALSE
  <2>1. BuildTypeOK' /\ Faithful'
    BY <1>4 DEF BuildInv, BuildTypeOK, Faithful, buildVars, workVars
  <2>. QED  BY <2>1, WorkerRests DEF BuildInv
<1>5. CASE /\ indexer' = [indexer EXCEPT ![c] = Decoded(doc[c])]
           /\ origin' = [origin EXCEPT ![c] = wish[c]]
           /\ UNCHANGED watching
  <2>1. /\ indexer' \in [Connectors -> Connector \union {Nil}]
        /\ origin' \in [Connectors -> JSONConfig]
        /\ indexer'[c] = Decoded(doc[c]) /\ origin'[c] = doc[c].config
        /\ \A d \in Connectors : d # c => indexer'[d] = indexer[d] /\ origin'[d] = origin[d]
    BY <1>1, <1>2, <1>3, <1>5
  <2>2. BuildTypeOK'
    BY <1>5, <2>1 DEF BuildInv, BuildTypeOK, buildVars, workVars
  <2>3. Faithful'
    <3>. SUFFICES ASSUME NEW d \in Connectors, indexer'[d] # Nil
                  PROVE  /\ indexer'[d].at = indexer'[d].rv
                         /\ indexer'[d].rv <= doc[d].rv
                         /\ indexer'[d].config = DecodeConfig(origin'[d], indexer'[d].at)
                         /\ indexer'[d].rv = doc[d].rv => origin'[d] = doc[d].config
      BY DEF Faithful
    <3>1. CASE d = c
      BY <3>1, <2>1, <1>2, <1>3
    <3>2. CASE d # c
      BY <3>2, <2>1 DEF BuildInv, Faithful
    <3>. QED  BY <3>1, <3>2
  <2>. QED  BY <2>2, <2>3, WorkerRests DEF BuildInv
<1>. QED  BY <1>4, <1>5

LEMMA LookupKeeps ==
    ASSUME BuildInv, NEW c \in Connectors, Lookup(c)
    PROVE  BuildInv'
<1>. USE DEF Lookup, serverVars, informVars
<1>0. [namespace |-> c.namespace, name |-> c.name] = c
  BY DEF Connectors
<1>1. Found(c) = indexer[c]
  BY <1>0 DEF Found, ListerGet, ListerIn, NewConnectorLister
<1>2. indexer[c] \in Connector /\ indexer[c] # Nil
  BY <1>1 DEF BuildInv, BuildTypeOK
<1>3. NoConfig \in [Items -> Literals \union {Rounded, Nil} \union Values]
  BY DEF NoConfig
<1>4. /\ origin[c] \in JSONConfig /\ syncs' \in Nat
      /\ window' \in [Sources -> SUBSET Contents]
  BY DEF BuildInv, BuildTypeOK
<1>5. BuildTypeOK'
  BY <1>1, <1>2, <1>3, <1>4 DEF BuildInv, BuildTypeOK
<1>6. InHand'
  BY <1>1, <1>2 DEF InHand
<1>7. Faithful'
  BY DEF BuildInv, Faithful
<1>8. /\ indexer[c].at = indexer[c].rv
      /\ indexer[c].rv <= doc[c].rv
      /\ indexer[c].config = DecodeConfig(origin[c], indexer[c].at)
      /\ indexer[c].rv = doc[c].rv => origin[c] = doc[c].config
  BY <1>2 DEF BuildInv, Faithful
<1>9. HeldFaithful' /\ HeldAsked'
  BY <1>1, <1>8 DEF HeldFaithful, HeldAsked
<1>. Wished'
  BY DEF BuildInv, Wished
<1>10. Watched'
  BY DEF Watched
<1>11. SoFarAsWritten'
  <2>. SUFFICES ASSUME NEW i \in Items, indexer[c].config.items[i] = Nil
                PROVE  origin[c][i] = Nil
    BY <1>1 DEF SoFarAsWritten, AsWritten, NoConfig
  <2>1. indexer[c].config.items[i]
            = IF origin[c][i] = Nil THEN Nil ELSE UnmarshalJSON(origin[c][i], indexer[c].at)
    BY <1>8 DEF DecodeConfig
  <2>2. origin[c][i] # Nil => UnmarshalJSON(origin[c][i], indexer[c].at) \in ConfigItem
    BY <1>2, <1>4, UnmarshalType DEF JSONConfig, Connector
  <2>. QED  BY <2>1, <2>2, NilIsNoMemory
<1>12. BuiltAsWritten' /\ InvalidHasCause'
  BY DEF BuiltAsWritten, InvalidHasCause
<1>. QED
  BY <1>5, <1>6, <1>7, <1>9, <1>10, <1>11, <1>12 DEF BuildInv

\* The loop reads an item where the user meant it to be read.
LEMMA HeldItem ==
    ASSUME BuildInv, step = "build", NEW i \in todo
    PROVE  /\ i \in Items
           /\ asked[i] \in JSONItem /\ asked[i] # Nil
           /\ Held(i) \in ConfigItem
           /\ Held(i).value = IF asked[i].json = "value" THEN Float64(asked[i].value) ELSE Nil
           /\ Reads(i) = Meant(asked[i])
<1>1. /\ i \in Items /\ asked \in JSONConfig /\ held \in Connector
      /\ held.config.items[i] # Nil /\ held.config = DecodeConfig(asked, held.at)
  BY DEF BuildInv, BuildTypeOK, InHand, HeldAsked
<1>2. held.config.items[i]
          = IF asked[i] = Nil THEN Nil ELSE UnmarshalJSON(asked[i], held.at)
  BY <1>1 DEF DecodeConfig
<1>3. asked[i] # Nil /\ asked[i] \in JSONItem /\ Held(i) = UnmarshalJSON(asked[i], held.at)
  BY <1>1, <1>2 DEF Held, JSONConfig
<1>4. Held(i) \in ConfigItem
  BY <1>1, <1>3, UnmarshalType DEF Connector
<1>5. Held(i).value = IF asked[i].json = "value" THEN Float64(asked[i].value) ELSE Nil
  BY <1>3 DEF UnmarshalJSON
<1>6. CASE asked[i].json = "value"
  <2>1. asked[i].value \in Literals
    BY <1>3, <1>6 DEF JSONItem
  <2>2. HasValue(i)
    BY <2>1, <1>5, <1>6, NilIsNothing DEF HasValue, Float64
  <2>3. Meant(asked[i]) = {}
    BY <1>6 DEF Meant
  <2>. QED  BY <2>2, <2>3, <1>1, <1>3, <1>4, <1>5 DEF Reads
<1>7. CASE asked[i].json \in {"null", "malformed"}
  <2>1. Held(i).valueFrom = Nil
    BY <1>3, <1>7 DEF UnmarshalJSON
  <2>2. Meant(asked[i]) = {}
    BY <1>7 DEF Meant
  <2>. QED  BY <2>1, <2>2, <1>1, <1>3, <1>4, <1>5 DEF Reads
<1>8. CASE asked[i].json = "object"
  <2>1. /\ asked[i].secretRef \in Refs \union {Nil}
        /\ asked[i].configMapRef \in Refs \union {Nil}
    BY <1>3, <1>8 DEF JSONItem
  <2>2. ~HasValue(i)
    BY <1>5, <1>8 DEF HasValue
  <2>3. Held(i).valueFrom = [at |-> held.at,
                             secret |-> NewRef(asked[i].secretRef, held.at),
                             configMap |-> NewRef(asked[i].configMapRef, held.at)]
    BY <1>3, <1>8 DEF UnmarshalJSON
  <2>4. held.at \in Nat
    BY <1>1 DEF Connector
  <2>5. \A r \in Refs : /\ NewRef(r, held.at) # Nil /\ NewRef(r, held.at).ref = r
                        /\ NewRef(Nil, held.at) = Nil
    BY <2>4, NilIsNothing, NilIsNoMemory DEF NewRef, Ref
  <2>6. Held(i).valueFrom # Nil
    <3>1. /\ NewRef(asked[i].secretRef, held.at) \in Ref \union {Nil}
          /\ NewRef(asked[i].configMapRef, held.at) \in Ref \union {Nil}
      BY <2>1, <2>4 DEF NewRef, Ref
    <3>. QED  BY <3>1, <2>3, <2>4, NilIsNoMemory DEF ValueFrom
  <2>7. CASE asked[i].configMapRef # Nil
    <3>1. Held(i).valueFrom.configMap # Nil
          /\ Held(i).valueFrom.configMap.ref = asked[i].configMapRef
      BY <2>1, <2>3, <2>5, <2>7
    <3>. QED  BY <3>1, <2>2, <2>6, <2>7, <1>1, <1>3, <1>4, <1>5, <1>8 DEF Reads, Meant
  <2>8. CASE asked[i].configMapRef = Nil
    <3>1. Held(i).valueFrom.configMap = Nil
      BY <2>3, <2>8 DEF NewRef
    <3>2. CASE asked[i].secretRef = Nil
      <4>1. Held(i).valueFrom.secret = Nil
        BY <2>3, <3>2 DEF NewRef
      <4>2. Reads(i) = {} /\ Meant(asked[i]) = {}
        BY <4>1, <3>1, <3>2, <2>2, <2>6, <2>8, <1>8 DEF Reads, Meant
      <4>. QED  BY <4>2, <1>1, <1>3, <1>4, <1>5
    <3>3. CASE asked[i].secretRef # Nil
      <4>1. Held(i).valueFrom.secret # Nil
            /\ Held(i).valueFrom.secret.ref = asked[i].secretRef
        BY <2>1, <2>3, <2>5, <3>3
      <4>2. Reads(i) = {<<"secret", which.namespace, asked[i].secretRef>>}
        BY <4>1, <3>1, <2>2, <2>6 DEF Reads
      <4>3. Meant(asked[i]) = {<<"secret", which.namespace, asked[i].secretRef>>}
        BY <3>3, <2>8, <1>8 DEF Meant
      <4>. QED  BY <4>2, <4>3, <1>1, <1>3, <1>4, <1>5
    <3>. QED  BY <3>2, <3>3
  <2>. QED  BY <2>7, <2>8
<1>9. asked[i].json \in {"value", "null", "malformed", "object"}
  BY <1>3 DEF JSONItem
<1>. QED  BY <1>6, <1>7, <1>8, <1>9

LEMMA ItemKeeps ==
    ASSUME BuildInv, NEW i \in Items, BuildItem(i)
    PROVE  BuildInv'
<1>. USE DEF BuildItem, serverVars, informVars, countVars
<1>1. /\ i \in todo /\ step = "build"
      /\ asked[i] \in JSONItem /\ asked[i] # Nil /\ Held(i) \in ConfigItem
      /\ Held(i).value = IF asked[i].json = "value" THEN Float64(asked[i].value) ELSE Nil
      /\ Reads(i) = Meant(asked[i])
  BY HeldItem
<1>2. result \in [Items -> Literals \union {Rounded, Nil} \union Values]
  BY DEF BuildInv, BuildTypeOK
<1>3. which \in Connectors /\ Meant(asked[i]) \subseteq Sources
  BY <1>1 DEF BuildInv, InHand, Meant, Sources, JSONItem, Connectors
<1>4. Wished' /\ Faithful' /\ HeldFaithful' /\ HeldAsked' /\ InHand' /\ Watched'
  <2>1. step' \in {"build", "invalid"}
    BY <1>1 DEF Fill, Invalid, Resolve
  <2>. QED  BY <2>1, <1>1 DEF BuildInv, Wished, Faithful, HeldFaithful, HeldAsked, InHand, Watched
<1>5. ASSUME NEW v \in Literals \union {Rounded, Nil} \union Values, Fill(i, v), AsWritten(i)'
      PROVE  BuildInv'
  <2>1. /\ result' \in [Items -> Literals \union {Rounded, Nil} \union Values]
        /\ \A j \in Items : j # i => result'[j] = result[j]
    BY <1>2, <1>5 DEF Fill
  <2>2. BuildTypeOK'
    BY <1>5, <2>1 DEF Fill, BuildInv, BuildTypeOK
  <2>3. SoFarAsWritten'
    <3>. SUFFICES ASSUME NEW j \in Items \ todo' PROVE AsWritten(j)'
      BY DEF SoFarAsWritten
    <3>1. CASE j = i
      BY <3>1, <1>5
    <3>2. CASE j # i
      <4>1. AsWritten(j)
        BY <3>2, <1>1 DEF BuildInv, SoFarAsWritten
      <4>. QED  BY <4>1, <3>2, <2>1 DEF AsWritten, Meant
    <3>. QED  BY <3>1, <3>2
  <2>4. BuiltAsWritten' /\ InvalidHasCause'
    BY <1>1, <1>5 DEF Fill, BuiltAsWritten, InvalidHasCause
  <2>. QED  BY <2>2, <2>3, <2>4, <1>4 DEF BuildInv
<1>6. CASE Reads(i) = {}
  <2>1. Fill(i, Held(i).value)
    BY <1>6
  <2>2. result'[i] = Held(i).value
    BY <2>1, <1>2 DEF Fill
  <2>3. AsWritten(i)'
    <3>1. AsWritten(i)' = (IF asked[i] = Nil \/ asked[i].json = "null" THEN result'[i] = Nil
                           ELSE IF asked[i].json = "value"
                                THEN result'[i] = IF asked[i].value = Wide THEN Rounded
                                                  ELSE asked[i].value
                           ELSE IF Meant(asked[i]) = {} THEN result'[i] = Nil
                           ELSE \E s \in Meant(asked[i]) : result'[i] \in window[s] \cap Values)
      BY DEF AsWritten, Meant
    <3>. QED  BY <3>1, <2>2, <1>1, <1>6 DEF Float64
  <2>4. Held(i).value \in Literals \union {Rounded, Nil}
    BY <1>1 DEF ConfigItem
  <2>. QED  BY <2>1, <2>3, <2>4, <1>5
<1>7. CASE Reads(i) # {}
  <2>1. PICK s \in Reads(i) : Resolve(i, s)
    BY <1>7
  <2>2. s \in Meant(asked[i]) /\ s \in Sources /\ store[s] \in window[s]
    BY <2>1, <1>1, <1>3 DEF BuildInv, Watched
  <2>3. CASE store[s] \in Values /\ Fill(i, store[s])
    <3>1. result'[i] = store[s]
      BY <2>3, <1>2 DEF Fill
    <3>2. asked[i].json = "object"
      BY <2>2 DEF Meant
    <3>3. window' = window /\ Meant(asked[i])' = Meant(asked[i])
      BY DEF Meant
    <3>4. \E r \in Meant(asked[i]) : result'[i] \in window[r] \cap Values
      BY <3>1, <2>2, <2>3
    <3>5. AsWritten(i)'
      BY <3>2, <3>3, <3>4, <1>1 DEF AsWritten
    <3>. QED  BY <3>5, <2>3, <1>5
  <2>4. ASSUME Invalid, misread' \in BOOLEAN, InvalidHasCause' PROVE BuildInv'
    <3>1. BuildTypeOK'
      BY <2>4 DEF Invalid, BuildInv, BuildTypeOK
    <3>2. SoFarAsWritten' /\ BuiltAsWritten'
      BY <2>4 DEF Invalid, SoFarAsWritten, BuiltAsWritten
    <3>. QED  BY <3>1, <3>2, <2>4, <1>4 DEF BuildInv
  <2>5. CASE store[s] \notin Values /\ Invalid /\ UNCHANGED misread
    <3>1. InvalidHasCause'
      BY <2>5, <2>2, <1>1 DEF InvalidHasCause, Meant
    <3>. QED  BY <3>1, <2>4, <2>5 DEF BuildInv, BuildTypeOK
  <2>6. CASE Invalid /\ misread' = TRUE
    <3>1. InvalidHasCause'
      BY <2>6 DEF InvalidHasCause
    <3>. QED  BY <3>1, <2>4, <2>6
  <2>. QED  BY <2>1, <2>3, <2>5, <2>6 DEF Resolve
<1>. QED  BY <1>6, <1>7

LEMMA BuiltKeeps ==
    ASSUME BuildInv, Built
    PROVE  BuildInv'
<1>. USE DEF Built, serverVars, informVars, buildVars, countVars
<1>1. BuildTypeOK'
  BY DEF BuildInv, BuildTypeOK
<1>2. Wished' /\ Faithful' /\ HeldFaithful' /\ HeldAsked' /\ InHand' /\ Watched'
  BY DEF BuildInv, Wished, Faithful, HeldFaithful, HeldAsked, InHand, Watched
<1>3. SoFarAsWritten' /\ InvalidHasCause'
  BY DEF SoFarAsWritten, InvalidHasCause
<1>4. BuiltAsWritten'
  BY DEF BuildInv, SoFarAsWritten, BuiltAsWritten, AsWritten, Meant
<1>. QED  BY <1>1, <1>2, <1>3, <1>4 DEF BuildInv

\* The status that goes into a copy goes nowhere else: the copy has the
\* allocation 0, and what was decoded has not.
LEMMA OnlyTheCopy ==
    ASSUME BuildInv, CopyInv, step # "idle", NEW status \in DocStatuses, SetStatus(status)
    PROVE  /\ copy' = [CopyConnector(held, 0) EXCEPT !.status = status]
           /\ UNCHANGED <<held, informVars>>
<1>1. /\ which \in Connectors /\ held \in Connector /\ held # Nil /\ held.at # 0
      /\ indexer \in [Connectors -> Connector \union {Nil}]
      /\ indexer[which] # Nil => indexer[which].at # 0
  BY DEF BuildInv, BuildTypeOK, InHand, CopyInv, HeldWhole, Numbered
<1>2. CopyConnector(held, 0).at = 0
  BY <1>1 DEF CopyConnector, Connector
<1>. QED  BY <1>1, <1>2 DEF SetStatus, SetStatusOf, Written, informVars

LEMMA ReportKeeps ==
    ASSUME BuildInv, CopyInv, Report
    PROVE  BuildInv'
<1>. USE DEF Report, serverVars, countVars
<1>1. PICK status \in DocStatuses :
        /\ step = "built" \/ step = "invalid"
        /\ SetStatus(status)
  OBVIOUS
<1>2. held \in Connector /\ which \in Connectors
  BY <1>1 DEF BuildInv, InHand
<1>3. /\ copy' = [CopyConnector(held, 0) EXCEPT !.status = status]
      /\ held' = held /\ UNCHANGED <<watching, indexer, origin>>
  BY <1>1, OnlyTheCopy DEF informVars
<1>4. copy' \in Connector /\ copy'.rv = held.rv
  <2>1. CASE held # Nil
    <3>1. CopyConnector(held, 0) \in Connector /\ CopyConnector(held, 0).rv = held.rv
      BY <2>1, <1>2, CopyType
    <3>. QED  BY <3>1, <1>3 DEF Connector
  <2>2. CASE held = Nil
    BY <2>2, <1>2, <1>3 DEF CopyConnector, Connector
  <2>. QED  BY <2>1, <2>2
<1>5. BuildTypeOK'
  <2>1. /\ NoConfig \in JSONConfig
        /\ NoConfig \in [Items -> Literals \union {Rounded, Nil} \union Values]
    BY DEF NoConfig, JSONConfig
  <2>. QED  BY <2>1, <1>3, <1>4 DEF BuildInv, BuildTypeOK
<1>6. InHand' /\ Wished' /\ HeldFaithful' /\ HeldAsked'
  BY <1>1, <1>2, <1>3, <1>4 DEF BuildInv, InHand, Wished, HeldFaithful, HeldAsked
<1>7. Faithful'
  BY <1>3 DEF BuildInv, Faithful
<1>8. Watched' /\ SoFarAsWritten' /\ BuiltAsWritten' /\ InvalidHasCause'
  BY DEF Watched, SoFarAsWritten, BuiltAsWritten, InvalidHasCause
<1>. QED  BY <1>5, <1>6, <1>7, <1>8 DEF BuildInv

\* What a status update does to the resources.
LEMMA Sent ==
    ASSUME BuildInv, SendStatus
    PROVE  /\ doc' \in [Connectors -> Doc]
           /\ \A c \in Connectors :
                \/ doc'[c] = doc[c]
                \/ /\ c = which /\ doc[c].rv = copy.rv
                   /\ doc'[c].rv = doc[c].rv + 1 /\ doc'[c].config = doc[c].config
<1>1. /\ doc \in [Connectors -> Doc] /\ which \in Connectors
      /\ copy \in Connector
  BY DEF SendStatus, BuildInv, BuildTypeOK, InHand
<1>2. CASE UNCHANGED doc
  BY <1>2, <1>1
<1>3. ASSUME NEW c \in Member(StatusClient(which), which.name),
             doc[c].rv = UpdateStatus(copy).body.rv,
             doc' = [doc EXCEPT ![c] = [Put(doc[c], UpdateStatus(copy)) EXCEPT !.rv = doc[c].rv + 1]]
      PROVE  /\ doc' \in [Connectors -> Doc]
             /\ c = which /\ doc[c].rv = copy.rv
             /\ doc'[c].rv = doc[c].rv + 1 /\ doc'[c].config = doc[c].config
             /\ \A d \in Connectors : d # c => doc'[d] = doc[d]
  <2>1. /\ c \in Connectors
        /\ c.name = which.name
        /\ c.namespace = StatusClient(which).ns
    BY DEF Member
  <2>2. StatusClient(which).ns = which.namespace
    BY DEF StatusClient, ConnectorsIn, newConnectors
  <2>3. c = which
    BY <2>1, <2>2, <1>1 DEF Connectors
  <2>4. doc[c] \in Doc /\ copy.status \in DocStatuses
    BY <2>1, <1>1 DEF Connector
  <2>5. /\ UpdateStatus(copy).subresource = "status"
        /\ UpdateStatus(copy).body.status = copy.status
        /\ UpdateStatus(copy).body.rv = copy.rv
    BY DEF UpdateStatus, Body
  <2>6. Put(doc[c], UpdateStatus(copy)) = [doc[c] EXCEPT !.status = copy.status]
    BY <2>5 DEF Put
  <2>7. doc'[c] = [config |-> doc[c].config, status |-> copy.status, rv |-> doc[c].rv + 1]
    <3>1. doc'[c] = [[doc[c] EXCEPT !.status = copy.status] EXCEPT !.rv = doc[c].rv + 1]
      BY <2>1, <2>6, <1>1, <1>3
    <3>2. doc[c] = [config |-> doc[c].config, status |-> doc[c].status, rv |-> doc[c].rv]
      BY <2>4 DEF Doc
    <3>. QED  BY <3>1, <3>2
  <2>8. doc'[c] \in Doc
    BY <2>4, <2>7 DEF Doc
  <2>. QED  BY <2>1, <2>3, <2>5, <2>7, <2>8, <1>1, <1>3
<1>. QED  BY <1>1, <1>2, <1>3 DEF SendStatus

LEMMA SendKeeps ==
    ASSUME BuildInv, SendStatus
    PROVE  BuildInv'
<1>. USE DEF SendStatus, informVars, buildVars, countVars
<1>1. BuildTypeOK'
  BY Sent DEF BuildInv, BuildTypeOK
<1>2. Faithful'
  <2>. SUFFICES ASSUME NEW c \in Connectors, indexer[c] # Nil
                PROVE  /\ indexer[c].at = indexer[c].rv
                       /\ indexer[c].rv <= doc'[c].rv
                       /\ indexer[c].config = DecodeConfig(origin[c], indexer[c].at)
                       /\ indexer[c].rv = doc'[c].rv => origin[c] = doc'[c].config
    BY DEF Faithful
  <2>1. indexer[c].rv \in Nat /\ doc[c].rv \in Nat
    BY DEF BuildInv, BuildTypeOK, Connector, Doc
  <2>2. doc'[c] = doc[c] \/ doc'[c].rv = doc[c].rv + 1
    BY Sent
  <2>. QED  BY <2>1, <2>2 DEF BuildInv, Faithful
<1>3. InHand' /\ HeldFaithful' /\ HeldAsked' /\ Watched'
  BY DEF InHand, HeldFaithful, HeldAsked, Watched
<1>4. SoFarAsWritten' /\ BuiltAsWritten' /\ InvalidHasCause'
  BY DEF SoFarAsWritten, BuiltAsWritten, InvalidHasCause
<1>5. Wished'
  BY Sent DEF BuildInv, Wished
<1>. QED  BY <1>1, <1>2, <1>3, <1>4, <1>5 DEF BuildInv

LEMMA BuildStep == BuildInv /\ CopyInv /\ [BuildNext]_configVars => BuildInv'
<1>. SUFFICES ASSUME BuildInv, CopyInv, [BuildNext]_configVars PROVE BuildInv'
  OBVIOUS
<1>1. CASE \E c \in Connectors, json \in Configs : EditConfig(c, json)
  BY <1>1, EditKeeps
<1>2. CASE \E s \in Sources, v \in Contents : ChangeStore(s, v)
  BY <1>2, StoreKeeps
<1>3. CASE Reflect
  BY <1>3, ListKeeps, WatchKeeps DEF Reflect
<1>4. CASE \E c \in Connectors : Lookup(c)
  BY <1>4, LookupKeeps
<1>5. CASE \E i \in Items : BuildItem(i)
  BY <1>5, ItemKeeps
<1>6. CASE Built
  BY <1>6, BuiltKeeps
<1>7. CASE Report
  BY <1>7, ReportKeeps
<1>8. CASE SendStatus
  BY <1>8, SendKeeps
<1>9. CASE UNCHANGED configVars
  <2>1. BuildTypeOK' /\ Faithful'
    BY <1>9 DEF BuildInv, BuildTypeOK, Faithful, configVars, serverVars, informVars, buildVars,
                workVars, countVars
  <2>2. UNCHANGED <<workVars, buildVars, serverVars>>
    BY <1>9 DEF configVars
  <2>. QED  BY <2>1, <2>2, WorkerRests DEF BuildInv
<1>. QED  BY <1>1, <1>2, <1>3, <1>4, <1>5, <1>6, <1>7, <1>8, <1>9 DEF BuildNext

-----------------------------------------------------------------------------
(* What a copy shares with its original. *)

LEMMA DecodedTogether ==
    ASSUME NEW o \in Connector, NEW json \in JSONConfig, o.config = DecodeConfig(json, o.at)
    PROVE  OneAllocation(o)
<1>1. o.config.at = o.at
  BY DEF DecodeConfig
<1>2. ASSUME NEW i \in Items, o.config.items[i] # Nil, o.config.items[i].valueFrom # Nil
      PROVE  o.config.items[i].valueFrom.at = o.at
  <2>1. o.config.items[i] = UnmarshalJSON(json[i], o.at)
    BY <1>2 DEF DecodeConfig
  <2>. QED  BY <1>2, <2>1 DEF UnmarshalJSON
<1>. QED  BY <1>1, <1>2 DEF OneAllocation

\* What copies may have in common.
Shareable == {"secretRef", "configMapRef", "array"}

\* All of its memory but that has one allocation.
LEMMA MemoryOf ==
    ASSUME NEW o, OneAllocation(o), NEW m \in Memory(o)
    PROVE  \/ m \in {<<"connector", o.at>>, <<"config", o.at>>}
           \/ \E i \in Items : m = <<"valueFrom", i, o.at>>
           \/ m[1] \in Shareable
<1>1. CASE m \in {<<"connector", o.at>>, <<"config", o.config.at>>}
  BY <1>1 DEF OneAllocation
<1>2. CASE m \notin {<<"connector", o.at>>, <<"config", o.config.at>>}
  <2>1. PICK i \in Items : o.config.items[i] # Nil /\ m \in MemoryOfItem(i, o.config.items[i])
    BY <1>2 DEF Memory
  <2>2. \/ \E at : m = <<"array", i, at>>
        \/ /\ o.config.items[i].valueFrom # Nil
           /\ \/ m = <<"valueFrom", i, o.config.items[i].valueFrom.at>>
              \/ \E at : m = <<"secretRef", i, at>>
              \/ \E at : m = <<"configMapRef", i, at>>
    BY <2>1 DEF MemoryOfItem
  <2>. QED  BY <2>1, <2>2 DEF OneAllocation, Shareable
<1>. QED  BY <1>1, <1>2

\* Two connectors say the same, and have no other memory in common.
Apart(o, new) ==
    /\ \A i \in Items :
         IF o.config.items[i] = Nil THEN new.config.items[i] = Nil
         ELSE /\ o.config.items[i].value = new.config.items[i].value
              /\ IF o.config.items[i].valueFrom = Nil THEN new.config.items[i].valueFrom = Nil
                 ELSE /\ o.config.items[i].valueFrom.secret = new.config.items[i].valueFrom.secret
                      /\ o.config.items[i].valueFrom.configMap
                             = new.config.items[i].valueFrom.configMap
    /\ \A m \in Memory(o) \cap Memory(new) : m[1] \in Shareable

\* A copy says what the original says, and shares no memory with it except
\* Refs and arrays, unless it has the original's own allocation.
LEMMA CopiesApart ==
    ASSUME NEW o \in Connector, o # Nil, OneAllocation(o), NEW g \in Nat, o.at # g,
           NEW status, NEW new, new = [CopyConnector(o, g) EXCEPT !.status = status]
    PROVE  Apart(o, new)
<1>1. /\ new.at = g /\ new.config.at = g
      /\ \A i \in Items :
            new.config.items[i]
                = IF o.config.items[i] = Nil THEN Nil ELSE CopyItem(o.config.items[i], g)
  BY DEF CopyConnector, CopyConfig, Connector
<1>2. ASSUME NEW i \in Items, o.config.items[i] # Nil
      PROVE  LET old == o.config.items[i]
                 copied == CopyItem(old, g)
             IN  /\ copied \in ConfigItem /\ copied.value = old.value
                 /\ IF old.valueFrom = Nil THEN copied.valueFrom = Nil
                    ELSE /\ copied.valueFrom.at = g
                         /\ copied.valueFrom.secret = old.valueFrom.secret
                         /\ copied.valueFrom.configMap = old.valueFrom.configMap
  <2>1. o.config.items[i] \in ConfigItem
    BY <1>2 DEF Connector, ConnectorConfig
  <2>. QED  BY <2>1 DEF CopyItem, ConfigItem, ValueFrom
<1>3. OneAllocation(new)
  BY <1>1, <1>2, NilIsNoMemory DEF OneAllocation
<1>4. ASSUME NEW m \in Memory(o), m \in Memory(new)
      PROVE  m[1] \in Shareable
  <2>1. \/ m \in {<<"connector", o.at>>, <<"config", o.at>>}
        \/ \E i \in Items : m = <<"valueFrom", i, o.at>>
        \/ m[1] \in Shareable
    BY MemoryOf
  <2>2. \/ m \in {<<"connector", g>>, <<"config", g>>}
        \/ \E i \in Items : m = <<"valueFrom", i, g>>
        \/ m[1] \in Shareable
    BY <1>1, <1>3, <1>4, MemoryOf
  <2>. QED  BY <2>1, <2>2 DEF Shareable
<1>5. ASSUME NEW i \in Items
      PROVE  IF o.config.items[i] = Nil THEN new.config.items[i] = Nil
             ELSE /\ o.config.items[i].value = new.config.items[i].value
                  /\ IF o.config.items[i].valueFrom = Nil THEN new.config.items[i].valueFrom = Nil
                     ELSE /\ o.config.items[i].valueFrom.secret = new.config.items[i].valueFrom.secret
                          /\ o.config.items[i].valueFrom.configMap
                                 = new.config.items[i].valueFrom.configMap
  BY <1>1, <1>2
<1>. QED  BY <1>4, <1>5 DEF Apart

LEMMA CopyInitially == BuildInit => CopyInv
BY DEF BuildInit, CopyInv, Numbered, HeldWhole, CopyOfHeld

LEMMA CopyStep == BuildInv /\ CopyInv /\ [BuildNext]_configVars => CopyInv'
<1>. SUFFICES ASSUME BuildInv, CopyInv, [BuildNext]_configVars PROVE CopyInv'
  OBVIOUS
<1>0. /\ doc \in [Connectors -> Doc] /\ indexer \in [Connectors -> Connector \union {Nil}]
      /\ origin \in [Connectors -> JSONConfig]
  BY DEF BuildInv, BuildTypeOK
<1>1. ASSUME NEW c \in Connectors, NEW json \in Configs, EditConfig(c, json)
      PROVE  CopyInv'
  <2>1. Numbered'
    BY <1>0, <1>1 DEF EditConfig, informVars, CopyInv, Numbered, Doc
  <2>. QED
    BY <1>1, <2>1 DEF EditConfig, workVars, CopyInv, HeldWhole, CopyOfHeld
<1>2. CASE Reflect
  <2>1. \A c \in Connectors : indexer'[c] = indexer[c] \/ indexer'[c] = Decoded(doc[c])
    BY <1>0, <1>2 DEF Reflect, List, Watch
  <2>2. Numbered'
    BY <1>0, <1>2, <2>1, DecodedType DEF Reflect, List, Watch, serverVars, CopyInv, Numbered
  <2>. QED
    BY <1>2, <2>2 DEF Reflect, List, Watch, workVars, CopyInv, HeldWhole, CopyOfHeld
<1>3. ASSUME NEW c \in Connectors, Lookup(c)
      PROVE  CopyInv'
  <2>0. [namespace |-> c.namespace, name |-> c.name] = c
    BY DEF Connectors
  <2>1. held' = indexer[c] /\ indexer[c] # Nil
    BY <1>3, <2>0 DEF Lookup, Found, ListerGet, ListerIn, NewConnectorLister
  <2>2. OneAllocation(indexer[c])
    BY <1>0, <2>1, DecodedTogether DEF BuildInv, Faithful
  <2>. QED
    BY <1>3, <2>1, <2>2 DEF Lookup, serverVars, informVars, CopyInv, Numbered, HeldWhole, CopyOfHeld
<1>4. CASE Report
  <2>1. HeldWhole' /\ CopyOfHeld'
    BY <1>4, OnlyTheCopy DEF Report, CopyInv, HeldWhole, CopyOfHeld
  <2>. QED
    BY <1>4, <2>1, OnlyTheCopy DEF Report, serverVars, informVars, CopyInv, Numbered
<1>5. CASE SendStatus
  <2>1. Numbered'
    BY <1>0, <1>5, Sent DEF SendStatus, informVars, CopyInv, Numbered, Doc
  <2>. QED
    BY <1>5, <2>1 DEF SendStatus, CopyInv, HeldWhole, CopyOfHeld
<1>6. CASE (\E i \in Items : BuildItem(i)) \/ Built
  <2>1. /\ UNCHANGED <<doc, indexer, held>>
        /\ step # "idle" /\ step' # "send"
    BY <1>6 DEF BuildItem, Fill, Resolve, Invalid, Built, serverVars, informVars
  <2>. QED
    BY <2>1 DEF CopyInv, Numbered, HeldWhole, CopyOfHeld
<1>7. CASE (\E s \in Sources, v \in Contents : ChangeStore(s, v)) \/ UNCHANGED configVars
  BY <1>7 DEF ChangeStore, configVars, serverVars, informVars, workVars, CopyInv, Numbered,
              HeldWhole, CopyOfHeld
<1>. QED
  BY <1>1, <1>2, <1>3, <1>4, <1>5, <1>6, <1>7 DEF BuildNext

-----------------------------------------------------------------------------
(* The theorems. *)

LEMMA BuildInvariant == BuildSpec => [](BuildInv /\ CopyInv)
  BY BuildInitially, CopyInitially, BuildStep, CopyStep, PTL DEF BuildSpec

\* What the worker holds, builds and sends stays of its type: the part of a
\* resource, its config's and its copy's.
THEOREM BuildTypes == BuildSpec => []BuildTypeOK
<1>1. BuildInv => BuildTypeOK
  BY DEF BuildInv
<1>. QED  BY <1>1, BuildInvariant, PTL

\* buildConnectorConfig gives Connect every item as the user meant it, and
\* nothing else, whatever changes between its reads, for any config, and
\* whatever config the status updates before it sent along.
THEOREM ConfigsAreTrue == BuildSpec => []BuiltAsWritten
<1>1. BuildInv => BuiltAsWritten
  BY DEF BuildInv
<1>. QED  BY <1>1, BuildInvariant, PTL

\* syncHandler reports InvalidConfig only for a reference that did not
\* resolve during that sync, or a read that failed.
THEOREM RefusalsAreJustified == BuildSpec => []InvalidHasCause
<1>1. BuildInv => InvalidHasCause
  BY DEF BuildInv
<1>. QED  BY <1>1, BuildInvariant, PTL

\* setManagedResourceStatus reaches the resource that was synced and no
\* other, and only while it has the config that the status is about.
THEOREM StatusesAreAboutConfigs == BuildSpec => StatusIsAboutConfig
<1>1. BuildInv /\ [BuildNext]_configVars
        => [\A c \in Connectors :
              doc'[c].status # doc[c].status =>
                  /\ c = which
                  /\ held.config = DecodeConfig(doc[c].config, held.at)]_doc
  <2>. SUFFICES ASSUME BuildInv, [BuildNext]_configVars, NEW c \in Connectors,
                       doc'[c].status # doc[c].status
                PROVE  /\ c = which
                       /\ held.config = DecodeConfig(doc[c].config, held.at)
    OBVIOUS
  <2>1. CASE \E d \in Connectors, json \in Configs : EditConfig(d, json)
    <3>1. PICK d \in Connectors, json \in Configs : EditConfig(d, json)
      BY <2>1
    <3>2. doc \in [Connectors -> Doc]
      BY DEF BuildInv, BuildTypeOK
    <3>3. doc'[c].status = doc[c].status
      BY <3>1, <3>2 DEF EditConfig, Doc
    <3>. QED  BY <3>3
  <2>2. CASE SendStatus
    <3>1. c = which /\ doc[c].rv = copy.rv
      BY <2>2, Sent
    <3>2. copy.rv = held.rv /\ step # "idle"
      BY <2>2 DEF SendStatus, BuildInv, InHand
    <3>. QED  BY <3>1, <3>2 DEF BuildInv, HeldFaithful
  <2>3. CASE UNCHANGED doc
    BY <2>3
  <2>. QED
    BY <2>1, <2>2, <2>3 DEF BuildNext, ChangeStore, Reflect, List, Watch, Lookup, BuildItem, Built,
                            Report, configVars, serverVars
<1>. QED  BY <1>1, BuildInvariant, PTL DEF BuildSpec, StatusIsAboutConfig

\* Nothing that syncHandler does to its copies reaches the indexer.
THEOREM IndexerIsReadOnly == BuildSpec => IndexerReadOnly
<1>1. BuildInv /\ CopyInv /\ [BuildNext]_configVars
        => [\A c \in Connectors :
              indexer[c] # Nil /\ indexer'[c].at = indexer[c].at => indexer'[c] = indexer[c]]_indexer
  <2>. SUFFICES ASSUME BuildInv, CopyInv, [BuildNext]_configVars, NEW c \in Connectors,
                       indexer[c] # Nil, indexer'[c].at = indexer[c].at
                PROVE  indexer'[c] = indexer[c]
    OBVIOUS
  <2>1. /\ doc \in [Connectors -> Doc] /\ indexer \in [Connectors -> Connector \union {Nil}]
        /\ indexer[c].at = indexer[c].rv
    BY DEF BuildInv, BuildTypeOK, Faithful
  <2>2. Decoded(doc[c]).at = doc[c].rv
    BY <2>1, DecodedType
  <2>3. CASE List
    BY <2>1, <2>2, <2>3 DEF List
  <2>4. CASE \E d \in Connectors : Watch(d)
    <3>1. PICK d \in Connectors : Watch(d)
      BY <2>4
    <3>2. CASE d = c
      BY <3>1, <3>2, <2>1, <2>2 DEF Watch
    <3>3. CASE d # c
      BY <3>1, <3>3, <2>1 DEF Watch
    <3>. QED  BY <3>2, <3>3
  <2>5. CASE Report
    BY <2>5, OnlyTheCopy DEF Report, informVars
  <2>6. CASE UNCHANGED indexer
    BY <2>6
  <2>. QED
    BY <2>3, <2>4, <2>5, <2>6 DEF BuildNext, EditConfig, ChangeStore, Reflect, Lookup, BuildItem,
                                  Built, SendStatus, configVars, informVars
<1>. QED  BY <1>1, BuildInvariant, PTL DEF BuildSpec, IndexerReadOnly

\* The copy that setManagedResourceStatus sends says what its original says,
\* and shares no memory with the indexer's object but Refs and the elements of
\* arrays (deep copy).
THEOREM CopiesKeepApart == BuildSpec => []CopyApart
<1>1. BuildInv /\ CopyInv => CopyApart
  <2>. SUFFICES ASSUME BuildInv, CopyInv, step = "send" PROVE CopyApart
    BY DEF CopyApart
  <2>1. held \in Connector /\ held # Nil /\ held.at # 0 /\ OneAllocation(held)
    BY DEF BuildInv, BuildTypeOK, InHand, CopyInv, HeldWhole
  <2>2. PICK status : copy = [CopyConnector(held, 0) EXCEPT !.status = status]
    BY DEF CopyInv, CopyOfHeld
  <2>3. 0 \in Nat
    OBVIOUS
  <2>4. Apart(held, copy)
    BY <2>1, <2>2, <2>3, CopiesApart
  <2>. QED  BY <2>4 DEF CopyApart, Apart, Shareable
<1>. QED  BY <1>1, BuildInvariant, PTL
=============================================================================
