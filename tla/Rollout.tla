------------------------------- MODULE Rollout -------------------------------
(***************************************************************************)
(* A rolling update of the operator.  manifests/deployment.yaml asks for   *)
(* one replica and names no strategy, so that Kubernetes starts the new    *)
(* process before it stops the old one, and nothing elects a leader: for a *)
(* while two controllers, each with its own informer and its own queue,    *)
(* act on the same resources and on the same Kafka Connect.  Either may    *)
(* lose its watch, or crash and start again, at any time of the rollout.   *)
(* The Secrets and ConfigMaps that configs refer to stay as they are, and  *)
(* calls fail as the constant Disturbances says.                           *)
(***************************************************************************)
EXTENDS Naturals, Sequences

CONSTANTS Workers, Namespaces, Names, Specs, Absent, Canonical, Referring,
          Disturbances, MaxEdits, MaxDisturbances

VARIABLES
    \* What the two have in common: the API server, Connect, and what was
    \* referred to, recorded and counted.
    api, version, connect, dangling, event, lastPut, edits, disturbances,
    \* The old process.
    oldQueue, oldDirty, oldProcessing, oldDelayed,
    oldStream, oldCache, oldNotes, oldUnsynced,
    oldPc, oldKey, oldObj, oldWant, oldSeen,
    \* The new process.
    newQueue, newDirty, newProcessing, newDelayed,
    newStream, newCache, newNotes, newUnsynced,
    newPc, newKey, newObj, newWant, newSeen,
    phase,     \* "old", "both" or "new": which processes run
    abandoned, \* history: keys that the old process was not done with
    missed     \* history: keys whose deletion a new list may have hidden

commonVars == <<api, version, connect, dangling, event, lastPut, edits, disturbances>>
oldVars == <<oldQueue, oldDirty, oldProcessing, oldDelayed, oldStream, oldCache, oldNotes,
             oldUnsynced, oldPc, oldKey, oldObj, oldWant, oldSeen>>
newVars == <<newQueue, newDirty, newProcessing, newDelayed, newStream, newCache, newNotes,
             newUnsynced, newPc, newKey, newObj, newWant, newSeen>>
rolloutVars == <<commonVars, oldVars, newVars, phase, abandoned, missed>>

Old == INSTANCE Controller WITH
    queue <- oldQueue, dirty <- oldDirty, processing <- oldProcessing, delayed <- oldDelayed,
    stream <- oldStream, cache <- oldCache, notes <- oldNotes, unsynced <- oldUnsynced,
    pc <- oldPc, key <- oldKey, obj <- oldObj, want <- oldWant, seen <- oldSeen

New == INSTANCE Controller WITH
    queue <- newQueue, dirty <- newDirty, processing <- newProcessing, delayed <- newDelayed,
    stream <- newStream, cache <- newCache, notes <- newNotes, unsynced <- newUnsynced,
    pc <- newPc, key <- newKey, obj <- newObj, want <- newWant, seen <- newSeen

Keys == Namespaces \X Names

\* What Controller assumes of the constants.
ASSUME AbsentApart == Absent \notin Old!Object /\ Absent \notin Specs /\ Absent \notin Keys
ASSUME SpecKinds == Canonical \subseteq Specs /\ Referring \subseteq Specs
ASSUME Bounds == MaxEdits \in Nat /\ MaxDisturbances \in Nat
ASSUME DisturbanceKinds == Disturbances \subseteq Old!Kinds

RolloutInit == Old!Init /\ New!Init /\ phase = "old" /\ abandoned = {} /\ missed = {}

-----------------------------------------------------------------------------
\* What the API server streams to the watch of the other process.
Echo(stream) ==
    [k \in Keys |-> IF api'[k] = api[k] THEN stream[k] ELSE Append(stream[k], api'[k])]

\* A step of the old process alone, or of the users while it watches.
OldAlone ==
    /\ phase \in {"old", "both"}
    /\ newStream' = IF phase = "both" THEN Echo(newStream) ELSE newStream
    /\ UNCHANGED <<newQueue, newDirty, newProcessing, newDelayed, newCache, newNotes,
                   newUnsynced, newPc, newKey, newObj, newWant, newSeen, phase,
                   abandoned>>

NewAlone ==
    /\ phase \in {"both", "new"}
    /\ oldStream' = IF phase = "both" THEN Echo(oldStream) ELSE oldStream
    /\ UNCHANGED <<oldQueue, oldDirty, oldProcessing, oldDelayed, oldCache, oldNotes,
                   oldUnsynced, oldPc, oldKey, oldObj, oldWant, oldSeen, phase,
                   abandoned>>

\* The new process lists what there is.
StartNew ==
    /\ phase = "old"
    /\ phase' = "both"
    /\ New!StartInformer
    /\ UNCHANGED <<connect, dangling, event, lastPut, edits, disturbances, oldVars,
                   newQueue, newDirty, newProcessing, newDelayed, newPc, newKey, newObj,
                   newWant, newSeen, abandoned, missed>>

\* The old process is told to stop, and is gone with all that it had in memory
\* and was about to do: Run does not wait for its workers.
StopOld ==
    /\ phase = "both"
    /\ phase' = "new"
    /\ abandoned' = {k \in Keys : ~Old!AtRest(k)}
    /\ oldQueue' = <<>>
    /\ oldDirty' = {} /\ oldProcessing' = {} /\ oldDelayed' = {} /\ oldUnsynced' = {}
    /\ oldStream' = [k \in Keys |-> <<>>]
    /\ oldNotes' = [k \in Keys |-> <<>>]
    /\ oldCache' = [k \in Keys |-> Absent]
    /\ oldPc' = [w \in Workers |-> "idle"]
    /\ oldKey' = [w \in Workers |-> Absent]
    /\ oldObj' = [w \in Workers |-> Absent]
    /\ oldWant' = [w \in Workers |-> "None"]
    /\ UNCHANGED <<commonVars, oldSeen, newVars, missed>>

\* Bound: on what users do and what is disturbed, together.
InBudget == edits + disturbances < MaxEdits

\* Bound: until the old process has stopped.  The new one on its own is, from
\* then on, a Controller after its start.
Users ==
    /\ InBudget
    /\ \E k \in Keys :
          Old!DeleteConnector(k) \/ \E s \in Specs : Old!CreateConnector(k, s) \/ Old!EditConnector(k, s)

\* Resyncs are left out: they queue nothing.
OldRuns ==
    \/ \E k \in Keys : Old!InformerDeliver(k) \/ Old!HandleNote(k) \/ Old!BackoffExpires(k)
    \/ \E w \in Workers : Old!WorkerStep(w)

NewRuns ==
    \/ \E k \in Keys : New!InformerDeliver(k) \/ New!HandleNote(k) \/ New!BackoffExpires(k)
    \/ \E w \in Workers : New!WorkerStep(w)

\* The watch breaks or the process crashes, and it lists again.  A list tells
\* of what exists, but a deletion that the process was not done with leaves a
\* tombstone, which no handler queues, or nothing.
OldLists ==
    /\ InBudget
    /\ Old!BreakWatch \/ Old!Restart
    /\ missed' = missed \union {k \in Keys : api[k] = Absent /\ ~Old!AtRest(k)}

NewLists ==
    /\ InBudget
    /\ New!BreakWatch \/ New!Restart
    /\ missed' = missed \union {k \in Keys : api[k] = Absent /\ ~New!AtRest(k)}

RolloutNext ==
    \/ StartNew
    \/ StopOld
    \/ Users /\ OldAlone /\ UNCHANGED missed
    \/ OldRuns /\ OldAlone /\ UNCHANGED missed
    \/ OldLists /\ OldAlone
    \/ NewRuns /\ NewAlone /\ UNCHANGED missed
    \/ NewLists /\ NewAlone

RolloutSpec == RolloutInit /\ [][RolloutNext]_rolloutVars

-----------------------------------------------------------------------------
\* Nothing about k is on its way in whichever process runs, nor was it in the
\* old one when that stopped.  (One that lags behind and is stopped before it
\* has caught up may leave an old config, or none, for the new one to find
\* only when the resource changes again: nothing in the code prevents it.)
AllAtRest(k) ==
    phase # "old" /\ k \notin abandoned /\ Old!AtRest(k) /\ New!AtRest(k)

(***************************************************************************)
(* The two processes may act on one resource at the same time, and the one *)
(* that is behind may put an old config over a new one, or delete what the *)
(* other has just put, but it does not stop there: when both are done,     *)
(* Connect runs the present config, whichever of them lost its watch or    *)
(* crashed on the way.                                                     *)
(***************************************************************************)
RolloutMatches ==
    \A k \in Keys : AllAtRest(k) /\ api[k] # Absent => connect[k[2]] = api[k].spec

(***************************************************************************)
(* Nor does one bring back for good what the other has removed, unless one *)
(* of them made a new list before it was done with the deletion.           *)
(***************************************************************************)
RolloutRemoves ==
    \A k \in Keys :
        AllAtRest(k) /\ k \notin missed /\ api[k] = Absent => connect[k[2]] = Absent
=============================================================================
