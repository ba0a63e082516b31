----------------------------- MODULE ConfigItems ------------------------------
(***************************************************************************)
(* pkg/apis/connect_operator/v1alpha1: the config of a Connector as the    *)
(* API server stores it, as the Go types hold it, and the deep copies of   *)
(* these types.  What a pointer or a map points at carries, in field "at", *)
(* the allocation that it came from; two of the same place in a Connector  *)
(* with the same "at" are one piece of memory.                             *)
(***************************************************************************)
EXTENDS Naturals

CONSTANTS
    Items,      \* keys that a config may have
    Literals,   \* JSON values that a user may write, other than objects
    Arrays,     \* those of them that are arrays
    Wide,       \* one of them: an integer of more than 53 bits
    Rounded,    \* the number that Wide is rounded to
    Refs,       \* a name and a key within a Secret or a ConfigMap
    Nil         \* the nil pointer or map, and an item that is not there

ASSUME WideIsALiteral == Wide \in Literals /\ Rounded \notin Literals
ASSUME ArraysAreLiterals == Arrays \subseteq Literals \ {Wide}
ASSUME NilIsNothing == Nil \notin Literals \union Refs \union {Rounded}

-----------------------------------------------------------------------------
(* JSON.  The CRD preserves unknown fields, so an item may be anything; a  *)
(* "malformed" one is an object whose secretRef or configMapRef is none.   *)

JSONItem ==
    [json: {"value"}, value: Literals]
        \union [json: {"null", "malformed"}]
        \union [json: {"object"}, secretRef: Refs \union {Nil}, configMapRef: Refs \union {Nil}]

JSONConfig == [Items -> JSONItem \union {Nil}]

-----------------------------------------------------------------------------
(* The Go types, allocations being natural numbers.  A value is an         *)
(* interface{}, which points at the elements if it is an array; valueAt is *)
(* the allocation of these.                                                *)

Ref == [at: Nat, ref: Refs]

ValueFrom == [at: Nat, secret: Ref \union {Nil}, configMap: Ref \union {Nil}]

ConfigItem ==
    [value: Literals \union {Rounded, Nil}, valueAt: Nat, valueFrom: ValueFrom \union {Nil}]

ConnectorConfig == [at: Nat, items: [Items -> ConfigItem \union {Nil}]]

ASSUME NilIsNoMemory == Nil \notin Ref /\ Nil \notin ValueFrom /\ Nil \notin ConfigItem

-----------------------------------------------------------------------------
(* Decoding, into memory of allocation g. *)

\* Numbers are decoded into an interface{}, that is, as float64.
Float64(v) == IF v = Wide THEN Rounded ELSE v

NewRef(r, g) == IF r = Nil THEN Nil ELSE [at |-> g, ref |-> r]

\* Mutant of Decodes: null is an error.
DecodesNoNull(raw) == raw.json \notin {"malformed", "null"}

Decodes(raw) == raw.json # "malformed"

\* Mutant of UnmarshalJSON: no case for objects.
UnmarshalValue(raw, g) ==
    [value |-> IF raw.json = "null" THEN Nil
               ELSE IF raw.json = "value" THEN Float64(raw.value) ELSE raw,
     valueAt |-> g,
     valueFrom |-> Nil]

\* An object is a ValueFrom, whatever its fields; all else is a value, null
\* a nil one.
UnmarshalJSON(raw, g) ==
    [value |-> IF raw.json = "value" THEN Float64(raw.value) ELSE Nil,
     valueAt |-> g,
     valueFrom |-> IF raw.json # "object" THEN Nil
                   ELSE [at |-> g,
                         secret |-> NewRef(raw.secretRef, g),
                         configMap |-> NewRef(raw.configMapRef, g)]]

DecodesConfig(c) == \A i \in Items : c[i] # Nil => Decodes(c[i])

DecodeConfig(c, g) ==
    [at |-> g,
     items |-> [i \in Items |-> IF c[i] = Nil THEN Nil ELSE UnmarshalJSON(c[i], g)]]

\* There is an UnmarshalJSON and no MarshalJSON: the tags make {"_": ...} of
\* an item, in which nobody finds a value, a secretRef or a configMapRef.
MarshalItem(i) == [json |-> "object", secretRef |-> Nil, configMapRef |-> Nil]

EncodeConfig(c) ==
    [i \in Items |-> IF c.items[i] = Nil THEN Nil ELSE MarshalItem(c.items[i])]

-----------------------------------------------------------------------------
(* Deep copies, into memory of allocation g. *)

\* Mutant of CopyItem: the pointer is copied, not what it points at.
CopyItemPointer(i, g) == i

\* A copy of ValueFrom points at the Refs that the original points at, and a
\* copy of an array value at its elements.
CopyItem(i, g) ==
    [i EXCEPT !.valueFrom = IF i.valueFrom = Nil THEN Nil ELSE [i.valueFrom EXCEPT !.at = g]]

CopyConfig(c, g) ==
    [at |-> g,
     items |-> [i \in Items |-> IF c.items[i] = Nil THEN Nil ELSE CopyItem(c.items[i], g)]]

CopyConnector(o, g) ==
    IF o = Nil THEN Nil ELSE [o EXCEPT !.at = g, !.config = CopyConfig(o.config, g)]

\* The memory that an item holds on to: the elements of its value if this is
\* an array, its ValueFrom and the Refs of that.
MemoryOfItem(i, item) ==
    {<<"array", i, item.valueAt>> : v \in {item.value} \cap Arrays}
        \union UNION {{<<"valueFrom", i, from.at>>}
                         \union {<<"secretRef", i, r.at>> : r \in {from.secret} \ {Nil}}
                         \union {<<"configMapRef", i, r.at>> : r \in {from.configMap} \ {Nil}} :
                      from \in {item.valueFrom} \ {Nil}}

\* The memory that a Connector holds on to: its own, its map and its items'.
Memory(o) ==
    {<<"connector", o.at>>, <<"config", o.config.at>>}
        \union UNION {MemoryOfItem(i, o.config.items[i]) : i \in {j \in Items : o.config.items[j] # Nil}}
=============================================================================
