------------------------------- MODULE Deletions ------------------------------
(***************************************************************************)
(* Controller with a history of the deletions that it missed.  There is no *)
(* finalizer, so a resource is gone before the operator hears of it, and   *)
(* the one trace of its connector is a watch event or a work item.  Three  *)
(* things can lose that trace.                                             *)
(***************************************************************************)
EXTENDS Controller

VARIABLE lost   \* keys whose connector nothing reminds the operator of

delVars == <<vars, lost>>

\* There is a connector, or a worker has an old copy to make one from.
Outlives(k) ==
    \/ connect[NameOf(k)] # Absent
    \/ \E w \in Workers : key[w] = k /\ obj[w] # Absent

\* A DELETE that fails without effect: the item is forgotten all the same.
LoseByDelete(w) ==
    /\ CallDelete(w)
    /\ lost' = IF connect'[NameOf(key[w])] # Absent THEN lost \union {key[w]} ELSE lost \ {key[w]}

\* A tombstone, for which enqueueConnector has no key.
LoseByTombstone(k) ==
    /\ HandleNote(k)
    /\ lost' = IF Head(notes[k]).type = "tombstone" /\ api[k] = Absent
               THEN lost \union {k} ELSE lost

\* A list that is compared with an indexer which knows nothing of the
\* resource: the one of a new process, or one that never got that far.  A
\* worker that is in the middle of a sync may make the connector even then.
LoseByList ==
    /\ BreakWatch \/ Restart
    /\ lost' = lost \union {k \in Keys : api[k] = Absent /\ Outlives(k)' /\ ~Traced(k)'}

\* Whoever creates the resource again gives the operator its trace back.
Regain(k, s) == CreateConnector(k, s) /\ lost' = lost \ {k}

Lossless ==
    /\ \/ \E k \in Keys, s \in Specs : EditConnector(k, s)
       \/ \E k \in Keys : DeleteConnector(k) \/ InformerDeliver(k) \/ InformerResync(k)
                          \/ BackoffExpires(k)
       \/ \E s \in Specs : ChangeStore(s)
       \/ \E w \in Workers :
            \/ Dequeue(w) \/ Lookup(w) \/ BuildConfig(w) \/ CallGetConfig(w)
            \/ CallPutConfig(w) \/ UpdateStatus(w) \/ Conclude(w)
    /\ UNCHANGED lost

DelNext ==
    \/ \E w \in Workers : LoseByDelete(w)
    \/ \E k \in Keys : LoseByTombstone(k)
    \/ LoseByList
    \/ \E k \in Keys, s \in Specs : Regain(k, s)
    \/ Lossless

DelSpec == Init /\ lost = {} /\ [][DelNext]_delVars

(***************************************************************************)
(* A deleted resource leaves no connector behind at rest, unless its       *)
(* deletion got lost in one of the three ways above: whatever is edited,   *)
(* retried, synced late or in the middle of a sync when the deletion       *)
(* comes, the deletion has the last word.                                  *)
(***************************************************************************)
DeletionsEndInRemoval ==
    \A k \in Keys :
        AtRest(k) /\ notes[k] = <<>> /\ api[k] = Absent /\ k \notin lost
            => connect[NameOf(k)] = Absent
=============================================================================
