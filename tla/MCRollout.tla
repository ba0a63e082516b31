------------------------------ MODULE MCRollout ------------------------------
(***************************************************************************)
(* Model values for Rollout.  The two configs are interchangeable, and the *)
(* view leaves out what only properties of Controller read.                *)
(***************************************************************************)
EXTENDS Rollout, TLC

ConfigSymmetry == Permutations(Specs)

WithoutHistory ==
    <<api, version, connect, edits, disturbances,
      oldQueue, oldDirty, oldProcessing, oldDelayed, oldStream, oldCache, oldNotes,
      oldUnsynced, oldPc, oldKey, oldObj, oldWant,
      newQueue, newDirty, newProcessing, newDelayed, newStream, newCache, newNotes,
      newUnsynced, newPc, newKey, newObj, newWant, phase, abandoned, missed,
      \* TLC must have evaluated what it stores.
      oldSeen = oldSeen, newSeen = newSeen>>
=============================================================================
