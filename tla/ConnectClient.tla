---------------------------- MODULE ConnectClient ----------------------------
(***************************************************************************)
(* connectClient/connectClient.go: how an HTTP exchange with the Kafka     *)
(* Connect REST service becomes a result of GetConfig, PutConfig and       *)
(* Delete.  A response is its status code and whether its body is the JSON *)
(* object that unmarshalResult expects; code 0 stands for an exchange that *)
(* ends in an error of the HTTP client (no connection, a body that cannot  *)
(* be read), 500 for every code that the client does not name.             *)
(***************************************************************************)
EXTENDS Naturals

Codes == {0, 200, 201, 204, 404, 500}

Response == {r \in [code: Codes, json: BOOLEAN] : r.code = 0 => ~r.json}

(***************************************************************************)
(* GetConfig.  unmarshalResult overrides the outcome with an error of its  *)
(* own when the body does not decode, for 404 as for 200, so that only a   *)
(* 404 with a JSON body is ErrNotFound.                                    *)
(***************************************************************************)
GetConfig(r) ==
    IF r.json /\ r.code = 200 THEN "found"
    ELSE IF r.json /\ r.code = 404 THEN "notFound"
    ELSE "error"

\* PutConfig returns no error.
PutConfigOK(r) == r.json /\ r.code \in {200, 201}

\* Delete returns no error: it takes 200 for the one code of success.
DeleteOK(r) == r.code = 200
=============================================================================
