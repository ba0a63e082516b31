--------------------------- MODULE LifecycleProofs ---------------------------
(***************************************************************************)
(* For any number of workers, signals and items: no worker takes an item   *)
(* before the caches have synced, and one signal never forces the exit.    *)
(***************************************************************************)
EXTENDS Lifecycle, TLAPS

\* The factory has one informer, and gives it to whoever asks.
OneInformer ==
    /\ at > 3 => informers # 0 /\ got["lister"] = informers
    /\ at > 4 => got["hasSynced"] = informers
    /\ at > 5 => got["handlers"] = informers

\* The workers are launched by a main goroutine that has seen the caches
\* synced, and they stay so.
Launched ==
    /\ at > 7 => informers \in synced
    /\ \A w \in Workers : worker[w] # "none" => at > 8

\* Every signal that is in the channel or was received from it was sent.
Received == IF handler # "second" THEN 0 ELSE IF exit = "forced" THEN 2 ELSE 1

SignalsCounted ==
    /\ caught + Received <= sent
    /\ exit = "forced" => handler = "second"

ItemsCounted == waiting <= added

LifeInv == LifeTypeOK /\ OneInformer /\ Launched /\ SignalsCounted /\ ItemsCounted

\* The steps of the main goroutine, by their positions.
LEMMA OrderSteps ==
    /\ Len(Order) = 10
    /\ Order[1] = "signals" /\ Order[2] = "clients" /\ Order[3] = "lister"
    /\ Order[4] = "hasSynced" /\ Order[5] = "handlers" /\ Order[6] = "start"
    /\ Order[7] = "sync" /\ Order[8] = "workers" /\ Order[9] = "running"
    /\ Order[10] = "return"
  BY DEF Order

\* Where the main goroutine is when it reaches a step.
LEMMA Positions ==
    ASSUME at \in Nat \ {0}
    PROVE  /\ Reached("signals") => at = 1
           /\ Reached("clients") => at = 2
           /\ Reached("lister") => at = 3
           /\ Reached("hasSynced") => at = 4
           /\ Reached("handlers") => at = 5
           /\ Reached("start") => at = 6
           /\ Reached("sync") => at = 7
           /\ Reached("workers") => at = 8
           /\ Reached("running") => at = 9
           /\ Reached("return") => at = 10
<1>1. at <= 10 => at \in {1, 2, 3, 4, 5, 6, 7, 8, 9, 10}
  OBVIOUS
<1>. QED  BY <1>1, OrderSteps DEF Reached

\* The first state of the process.
LEMMA LifeInitially == LifeInit => LifeInv
<1>. SUFFICES ASSUME LifeInit PROVE LifeInv
  OBVIOUS
<1>1. LifeTypeOK
  <2>1. at \in 1..(Len(Order) + 1)
    BY OrderSteps DEF LifeInit
  <2>2. sent \in 0..MaxSignals /\ caught \in 0..Capacity
    BY LifecycleBounds DEF LifeInit, Capacity
  <2>3. waiting \in 0..MaxItems /\ added \in 0..MaxItems
    BY LifecycleBounds DEF LifeInit
  <2>4. worker \in [Workers -> WorkerStates]
    BY DEF LifeInit, WorkerStates
  <2>5. stopped \in BOOLEAN /\ shutDown \in BOOLEAN
    BY DEF LifeInit
  <2>6. handler \in HandlerStates /\ exit \in Exits
    BY DEF LifeInit, HandlerStates, Exits
  <2>7. FactoryTypeOK /\ got \in [Uses -> Nat]
    BY DEF LifeInit, FactoryInit, FactoryTypeOK
  <2>. QED  BY <2>1, <2>2, <2>3, <2>4, <2>5, <2>6, <2>7 DEF LifeTypeOK
<1>2. OneInformer /\ Launched
  BY DEF LifeInit, OneInformer, Launched
<1>3. SignalsCounted /\ ItemsCounted
  BY DEF LifeInit, SignalsCounted, Received, ItemsCounted
<1>. QED  BY <1>1, <1>2, <1>3 DEF LifeInv

\* A signal arrives, or the goroutine of the handler receives one.
LEMMA SignalsKeep ==
    ASSUME LifeInv, Alive, Signal \/ HandlerStep
    PROVE  LifeInv'
<1>1. LifeTypeOK'
  <2>1. CASE Signal
    BY <2>1, LifecycleBounds DEF LifeInv, LifeTypeOK, Signal, Capacity, Exits,
       itemVars, factoryVars, FactoryTypeOK
  <2>2. CASE FirstSignal
    BY <2>2 DEF LifeInv, LifeTypeOK, FirstSignal, Capacity, HandlerStates, itemVars,
       factoryVars, FactoryTypeOK
  <2>3. CASE SecondSignal
    BY <2>3 DEF LifeInv, LifeTypeOK, SecondSignal, Capacity, Exits, itemVars,
       factoryVars, FactoryTypeOK
  <2>. QED  BY <2>1, <2>2, <2>3 DEF HandlerStep
<1>2. OneInformer' /\ Launched'
  BY DEF LifeInv, OneInformer, Launched, Signal, HandlerStep, FirstSignal, SecondSignal,
     factoryVars
<1>3. SignalsCounted'
  BY LifecycleBounds DEF LifeInv, LifeTypeOK, SignalsCounted, Received, Alive,
     Signal, HandlerStep, FirstSignal, SecondSignal, Capacity
<1>4. ItemsCounted'
  BY DEF LifeInv, ItemsCounted, Signal, HandlerStep, FirstSignal, SecondSignal,
     itemVars
<1>. QED  BY <1>1, <1>2, <1>3, <1>4 DEF LifeInv

\* Each step of the main goroutine.
LEMMA MainKeeps ==
    ASSUME LifeInv, Alive, MainStep
    PROVE  LifeInv'
<1>. USE DEF signalVars, itemVars, factoryVars, FactoryTypeOK
<1>0. at \in Nat \ {0}
  BY DEF LifeInv, LifeTypeOK
<1>1. CASE SetupSignalHandler
  BY <1>0, <1>1, Positions, OrderSteps DEF SetupSignalHandler, LifeInv, LifeTypeOK, OneInformer,
     Launched, SignalsCounted, Received, ItemsCounted, Alive, HandlerStates
<1>2. CASE MakeClients
  BY <1>0, <1>2, Positions, OrderSteps DEF MakeClients, LifeInv, LifeTypeOK, OneInformer,
     Launched, SignalsCounted, Received, ItemsCounted, Alive, Exits
<1>3. ASSUME NEW use \in Uses, NewController(use) PROVE LifeInv'
  <2>. at' = at + 1 /\ got' = [got EXCEPT ![use] = informers']
    BY <1>3 DEF NewController
  <2>0. /\ use = "lister" => at = 3
        /\ use = "hasSynced" => at = 4
        /\ use = "handlers" => at = 5
    BY <1>0, <1>3, Positions DEF NewController
  <2>1. FactoryTypeOK' /\ informers' # 0 /\ (informers # 0 => informers' = informers)
    <3>1. CASE informers # 0
      BY <1>3, <3>1 DEF NewController, InformerFor, LifeInv, LifeTypeOK
    <3>2. CASE informers = 0
      <4>1. MakeInformer
        BY <1>3, <3>2 DEF NewController, InformerFor
      <4>2. made' \in Nat /\ informers' \in Nat /\ informers' # 0
        BY <4>1 DEF MakeInformer, LifeInv, LifeTypeOK
      <4>3. UNCHANGED <<startedInformers, running, synced>>
        BY <4>1 DEF MakeInformer
      <4>. QED  BY <3>2, <4>2, <4>3 DEF LifeInv, LifeTypeOK
    <3>. QED  BY <3>1, <3>2
  <2>2. LifeTypeOK'
    BY <1>3, <2>0, <2>1, OrderSteps DEF NewController, LifeInv, LifeTypeOK, Uses
  <2>3. OneInformer'
    BY <2>0, <2>1 DEF LifeInv, LifeTypeOK, OneInformer, Uses
  <2>4. Launched' /\ SignalsCounted' /\ ItemsCounted'
    BY <1>3, <2>0 DEF NewController, LifeInv, Launched, SignalsCounted, Received,
       ItemsCounted, Uses
  <2>. QED  BY <2>2, <2>3, <2>4 DEF LifeInv
<1>4. CASE StartFactory
  <2>1. FactoryTypeOK' /\ UNCHANGED <<informers, synced>>
    BY <1>4 DEF StartFactory, Start, LifeInv, LifeTypeOK
  <2>. QED
    BY <1>0, <1>4, <2>1, Positions, OrderSteps DEF StartFactory, LifeInv, LifeTypeOK,
       OneInformer, Launched, SignalsCounted, Received, ItemsCounted
<1>5. CASE WaitForSync
  <2>. at = 7 /\ UNCHANGED <<signalVars, factoryVars, got, itemVars, worker>>
    BY <1>0, <1>5, Positions DEF WaitForSync
  <2>0. \/ at' = at + 1 /\ UNCHANGED <<shutDown, exit>>
        \/ shutDown' = TRUE /\ exit' = "fatal" /\ UNCHANGED at
    BY <1>5, Zenon DEF WaitForSync
  <2>1. LifeTypeOK'
    <3>1. at' \in 1..(Len(Order) + 1)
      BY <2>0, OrderSteps
    <3>2. exit' \in Exits
      BY <2>0 DEF LifeInv, LifeTypeOK, Exits
    <3>3. shutDown' \in BOOLEAN
      BY <2>0 DEF LifeInv, LifeTypeOK
    <3>. QED  BY <3>1, <3>2, <3>3 DEF LifeInv, LifeTypeOK
  <2>2. OneInformer' /\ Launched'
    BY <1>5 DEF WaitForSync, LifeInv, OneInformer, Launched
  <2>3. SignalsCounted'
    BY <1>5 DEF WaitForSync, LifeInv, SignalsCounted, Received, Alive
  <2>4. ItemsCounted'
    BY DEF LifeInv, ItemsCounted
  <2>. QED  BY <2>1, <2>2, <2>3, <2>4 DEF LifeInv
<1>6. CASE StartWorkers
  BY <1>0, <1>6, Positions, OrderSteps DEF StartWorkers, LifeInv, LifeTypeOK, OneInformer,
     Launched, SignalsCounted, Received, ItemsCounted, WorkerStates
<1>7. CASE AwaitStop
  BY <1>0, <1>7, Positions, OrderSteps DEF AwaitStop, LifeInv, LifeTypeOK, OneInformer,
     Launched, SignalsCounted, Received, ItemsCounted
<1>8. CASE MainReturns
  BY <1>0, <1>8, Positions, OrderSteps DEF MainReturns, LifeInv, LifeTypeOK, OneInformer,
     Launched, SignalsCounted, Received, ItemsCounted, Alive, Exits
<1>. QED
  BY <1>1, <1>2, <1>3, <1>4, <1>5, <1>6, <1>7, <1>8 DEF MainStep

\* The informer's goroutine, and what adds to the queue.
LEMMA OutsideKeeps ==
    ASSUME LifeInv, CachesSync \/ AddItem
    PROVE  LifeInv'
<1>. USE DEF signalVars, itemVars, factoryVars, FactoryTypeOK
<1>1. CASE CachesSync
  <2>1. PICK i \in running : FirstList(i)
    BY <1>1 DEF CachesSync
  <2>. QED
    BY <1>1, <2>1 DEF CachesSync, FirstList, LifeInv, LifeTypeOK, OneInformer, Launched,
       SignalsCounted, Received, ItemsCounted
<1>2. CASE AddItem
  BY <1>2, LifecycleBounds DEF AddItem, LifeInv, LifeTypeOK, OneInformer, Launched,
     SignalsCounted, Received, ItemsCounted
<1>. QED  BY <1>1, <1>2

LEMMA WorkersKeep ==
    ASSUME LifeInv, NEW w \in Workers, GoroutineStep(w)
    PROVE  LifeInv'
<1>. USE DEF signalVars, itemVars, factoryVars, FactoryTypeOK
<1>1. LifeTypeOK'
  <2>1. worker' \in [Workers -> WorkerStates]
    BY DEF GoroutineStep, RunWorker, GetItem, FinishItem, Advance, LifeInv, LifeTypeOK,
       WorkerStates
  <2>2. waiting' \in 0..MaxItems
    BY LifecycleBounds DEF GoroutineStep, RunWorker, GetItem, FinishItem, LifeInv,
       LifeTypeOK, ItemsCounted
  <2>3. UNCHANGED <<at, signalVars, factoryVars, got, added, shutDown, exit>>
    BY DEF GoroutineStep, RunWorker, GetItem, FinishItem
  <2>. QED  BY <2>1, <2>2, <2>3 DEF LifeInv, LifeTypeOK
<1>2. OneInformer' /\ Launched'
  BY DEF GoroutineStep, RunWorker, GetItem, FinishItem, Advance, LifeInv,
     LifeTypeOK, OneInformer, Launched
<1>3. SignalsCounted'
  BY DEF GoroutineStep, RunWorker, GetItem, FinishItem, LifeInv, SignalsCounted,
     Received
<1>4. ItemsCounted'
  BY LifecycleBounds DEF GoroutineStep, RunWorker, GetItem, FinishItem, LifeInv,
     LifeTypeOK, ItemsCounted
<1>. QED  BY <1>1, <1>2, <1>3, <1>4 DEF LifeInv

LEMMA LifeInductive == LifeInv /\ [LifeNext]_lifeVars => LifeInv'
<1>1. CASE UNCHANGED lifeVars
  BY <1>1 DEF lifeVars, signalVars, signalVars, itemVars, factoryVars, FactoryTypeOK, LifeInv, LifeTypeOK,
     OneInformer, Launched, SignalsCounted, Received, ItemsCounted
<1>. QED
  BY <1>1, SignalsKeep, MainKeeps, OutsideKeeps, WorkersKeep DEF LifeNext

(***************************************************************************)
(* The types of a process's state.                                         *)
(***************************************************************************)
THEOREM LifeTypes == LifeSpec => []LifeTypeOK
<1>1. LifeInv => LifeTypeOK
  BY DEF LifeInv
<1>. QED  BY <1>1, LifeInitially, LifeInductive, PTL DEF LifeSpec

(***************************************************************************)
(* No worker takes an item before the caches have synced (Run), in         *)
(* whatever order informer, signals and workers run.                       *)
(***************************************************************************)
THEOREM SyncedFirst == LifeSpec => []SyncedBeforeWork
<1>1. LifeInv => SyncedBeforeWork
  BY DEF LifeInv, LifeTypeOK, OneInformer, Launched, SyncedBeforeWork
<1>. QED  BY <1>1, LifeInitially, LifeInductive, PTL DEF LifeSpec

(***************************************************************************)
(* A forced exit takes two signals (SetupSignalHandler), however many are  *)
(* dropped because the channel is full.                                    *)
(***************************************************************************)
THEOREM ForcedByTwo == LifeSpec => []OneSignalForcesNothing
<1>1. LifeInv => OneSignalForcesNothing
  BY DEF LifeInv, LifeTypeOK, SignalsCounted, Received, OneSignalForcesNothing
<1>. QED  BY <1>1, LifeInitially, LifeInductive, PTL DEF LifeSpec
=============================================================================
