------------------------------- MODULE Mirroring ------------------------------
(***************************************************************************)
(* The controller implements Mirror: which of its states stand for which   *)
(* states of the abstract specification.                                   *)
(***************************************************************************)
EXTENDS Controller

\* What users want is the spec that the API server stores.
Wished == [k \in Keys |-> IF api[k] = Absent THEN Absent ELSE api[k].spec]

\* What Connect runs under the name of each resource.
Running == [k \in Keys |-> connect[NameOf(k)]]

Refused == {k \in Keys : event[k] = "InvalidConfig"}

\* Everything on its way to a worker, or in its hands.
Due == {k \in Keys : ~AtRest(k)}

Promise == INSTANCE Mirror WITH
    Resources <- Keys, Configs <- Specs, Nothing <- Absent,
    wish <- Wished, newest <- version, running <- Running,
    applied <- lastPut, refused <- Refused, due <- Due

(***************************************************************************)
(* Every step of informer, handlers, queue, workers, retries, broken       *)
(* watches and restarts is a step that Mirror allows: Connect changes only *)
(* under a resource that is due, and a resource stops being due only with  *)
(* Connect as it wishes, with its config refused, or deleted.              *)
(* (Each of the names is used in one namespace only.)                      *)
(***************************************************************************)
ImplementsMirror == Promise!MirrorSpec
=============================================================================
