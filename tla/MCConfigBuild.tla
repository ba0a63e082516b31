---------------------------- MODULE MCConfigBuild -----------------------------
(***************************************************************************)
(* Model values for ConfigBuild: four configs that have, between them,     *)
(* every kind of item.                                                     *)
(***************************************************************************)
EXTENDS ConfigBuild

CONSTANTS a, b, c, list

Value(v) == [json |-> "value", value |-> v]
Object(secret, configMap) ==
    [json |-> "object", secretRef |-> secret, configMapRef |-> configMap]

TheRef == CHOOSE r \in Refs : TRUE

\* As in the example manifest: a literal, here an array, and both kinds of
\* reference.
Example ==
    [i \in Items |-> CASE i = a -> Value(list)
                       [] i = b -> Object(TheRef, Nil)
                       [] i = c -> Object(Nil, TheRef)]

\* What a user hardly means: null, both references at once, a wide integer.
Odd ==
    [i \in Items |-> CASE i = a -> [json |-> "null"]
                       [] i = b -> Value(Wide)
                       [] i = c -> Object(TheRef, TheRef)]

\* An object without a reference, and one that does not decode; no a.
Broken ==
    [i \in Items |-> CASE i = a -> Nil
                       [] i = b -> Object(Nil, Nil)
                       [] i = c -> [json |-> "malformed"]]

\* The same, repaired.
Repaired == [Broken EXCEPT ![c] = Value(list)]

TheConfigs == {Example, Odd, Broken, Repaired}

Home == CHOOSE n \in Namespaces : TRUE

\* A good one, and in the other namespace one that does not decode.
TheStarts == {[k \in Connectors |-> IF k.namespace = Home THEN Example ELSE Broken]}

\* All is there in one namespace, and nothing but a Secret without the key in
\* the other.
TheStores ==
    {[s \in Sources |-> IF s[2] = Home THEN CHOOSE v \in Values : TRUE
                       ELSE IF s[1] = "secret" THEN "noKey" ELSE "notFound"]}
=============================================================================
