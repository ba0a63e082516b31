--------------------------- MODULE InformerFactory ---------------------------
(***************************************************************************)
(* externalversions/factory.go: the shared informer factory, for the one   *)
(* type that this repository asks it for.  Informers are numbered in the   *)
(* order in which they are made; 0 is none.                                *)
(*                                                                         *)
(* The module is passive: Lifecycle calls its operators.                   *)
(***************************************************************************)
EXTENDS Naturals

VARIABLES
    made,              \* number of informers ever made
    informers,         \* the entry of the factory's map for the type
    startedInformers,  \* whether that map says that it was started
    running,           \* informers whose goroutine runs
    synced             \* informers whose indexer holds the first list

factoryVars == <<made, informers, startedInformers, running, synced>>

FactoryInit ==
    /\ made = 0
    /\ informers = 0
    /\ startedInformers = FALSE
    /\ running = {}
    /\ synced = {}

FactoryTypeOK ==
    /\ made \in Nat
    /\ informers \in Nat
    /\ startedInformers \in BOOLEAN
    /\ running \subseteq Nat
    /\ synced \subseteq running

\* newFunc makes an informer, and the map keeps it.
MakeInformer ==
    /\ made' = made + 1
    /\ informers' = made + 1
    /\ UNCHANGED <<startedInformers, running, synced>>

\* Mutant of InformerFor: without a look into the map.
InformerForEach == MakeInformer

\* The caller gets informers'.
InformerFor == IF informers # 0 THEN UNCHANGED factoryVars ELSE MakeInformer

\* Start runs what is in the map and was not started before.
Start ==
    /\ IF informers # 0 /\ ~startedInformers
       THEN /\ running' = running \union {informers}
            /\ startedInformers' = TRUE
       ELSE UNCHANGED <<running, startedInformers>>
    /\ UNCHANGED <<made, informers, synced>>

\* The API server answers the first list of an informer that runs.
FirstList(i) ==
    /\ i \in running \ synced
    /\ synced' = synced \union {i}
    /\ UNCHANGED <<made, informers, startedInformers, running>>
=============================================================================
