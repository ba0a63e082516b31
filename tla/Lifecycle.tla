------------------------------ MODULE Lifecycle ------------------------------
(***************************************************************************)
(* One process of the operator from main.go's first line to its exit: the  *)
(* signal handler of pkg/signals, the informer factory, Run of             *)
(* controller.go and the goroutines that run beside them.  What a worker   *)
(* does with an item is the business of Controller; here an item is taken  *)
(* and, sooner or later, done.                                             *)
(***************************************************************************)
EXTENDS InformerFactory, Sequences

CONSTANTS
    Workers,      \* the goroutines of Run, which main asks two of
    MaxSignals,   \* bound on the SIGINTs and SIGTERMs that arrive
    MaxItems      \* bound on the items that are ever added to the queue

ASSUME LifecycleBounds == MaxSignals \in Nat /\ MaxItems \in Nat

VARIABLES
    at,         \* position of the main goroutine in Order
    sent,       \* signals that the Go runtime passed on so far
    caught,     \* those that lie in the channel of SetupSignalHandler
    handler,    \* the goroutine of SetupSignalHandler
    stopped,    \* whether stopCh is closed
    got,        \* [Uses -> Nat], the informers that NewController was given
    waiting,    \* number of items in the queue
    added,      \* number of items ever added
    shutDown,   \* whether the queue was shut down
    worker,     \* [Workers -> WorkerStates]
    exit        \* how the process ended, if it did

signalVars == <<sent, caught, handler, stopped>>
itemVars == <<waiting, added>>
lifeVars == <<at, signalVars, factoryVars, got, itemVars, shutDown, worker, exit>>

HandlerStates == {"none", "first", "second"}
\* What NewController asks for an informer for: its indexer, which the lister
\* reads, its HasSynced, and the list of its handlers.
Uses == {"lister", "hasSynced", "handlers"}

WorkerStates == {"none", "launched", "idle", "busy", "returned"}

\* "killed" by a signal that nothing catches yet, "fatal" by klog.Fatalf,
\* "forced" by the second signal, "ok" when main returns.
Exits == {"alive", "killed", "fatal", "forced", "ok"}

\* Mutant of Order: the factory starts before anything is registered with it.
StartFirst == <<"signals", "clients", "start", "lister", "hasSynced", "handlers",
                "sync", "workers", "running", "return">>

\* Mutant of Order: Run does not wait for the caches.
SyncSkipped == <<"signals", "clients", "lister", "hasSynced", "handlers", "start",
                 "workers", "running", "return">>

\* main, with NewController ("lister" to "handlers") and Run ("sync" to
\* "running") in their places.
Order == <<"signals", "clients", "lister", "hasSynced", "handlers", "start",
           "sync", "workers", "running", "return">>

\* Mutant of Capacity: room for the first signal only.
OneSlot == 1

\* make(chan os.Signal, 2)
Capacity == 2

LifeInit ==
    /\ at = 1
    /\ sent = 0
    /\ caught = 0
    /\ handler = "none"
    /\ stopped = FALSE
    /\ FactoryInit
    /\ got = [u \in Uses |-> 0]
    /\ waiting = 0
    /\ added = 0
    /\ shutDown = FALSE
    /\ worker = [w \in Workers |-> "none"]
    /\ exit = "alive"

-----------------------------------------------------------------------------
(* Signals. *)

\* Mutant of Signal: the channel takes any number of signals.
SignalNeverDropped ==
    /\ sent < MaxSignals
    /\ sent' = sent + 1
    /\ IF handler = "none"
       THEN exit' = "killed" /\ UNCHANGED caught
       ELSE caught' = caught + 1 /\ UNCHANGED exit
    /\ UNCHANGED <<at, handler, stopped, factoryVars, got, itemVars, shutDown, worker>>

\* signal.Notify never blocks: what the channel has no room for is dropped.
\* Until SetupSignalHandler has called it, a signal kills the process.
Signal ==
    /\ sent < MaxSignals
    /\ sent' = sent + 1
    /\ IF handler = "none"
       THEN exit' = "killed" /\ UNCHANGED caught
       ELSE /\ caught' = IF caught < Capacity THEN caught + 1 ELSE caught
            /\ UNCHANGED exit
    /\ UNCHANGED <<at, handler, stopped, factoryVars, got, itemVars, shutDown, worker>>

FirstSignal ==
    /\ handler = "first"
    /\ caught > 0
    /\ caught' = caught - 1
    /\ handler' = "second"
    /\ stopped' = TRUE
    /\ UNCHANGED <<at, sent, factoryVars, got, itemVars, shutDown, worker, exit>>

\* Mutant of SecondSignal: exits as soon as it has closed the channel.
NoSecondReceive ==
    /\ handler = "second"
    /\ exit' = "forced"
    /\ UNCHANGED <<at, signalVars, factoryVars, got, itemVars, shutDown, worker>>

SecondSignal ==
    /\ handler = "second"
    /\ caught > 0
    /\ caught' = caught - 1
    /\ exit' = "forced"
    /\ UNCHANGED <<at, sent, handler, stopped, factoryVars, got, itemVars, shutDown, worker>>

HandlerStep == FirstSignal \/ SecondSignal

-----------------------------------------------------------------------------
(* The main goroutine. *)

Reached(step) == at <= Len(Order) /\ Order[at] = step

SetupSignalHandler ==
    /\ Reached("signals")
    /\ at' = at + 1
    /\ handler' = "first"
    /\ UNCHANGED <<sent, caught, stopped, factoryVars, got, itemVars, shutDown, worker, exit>>

\* The clients' configurations, any of which may be wrong.
MakeClients ==
    /\ Reached("clients")
    /\ \/ at' = at + 1 /\ UNCHANGED exit
       \/ exit' = "fatal" /\ UNCHANGED at
    /\ UNCHANGED <<signalVars, factoryVars, got, itemVars, shutDown, worker>>

\* NewController asks the factory three times, and means one informer.
NewController(use) ==
    /\ Reached(use)
    /\ at' = at + 1
    /\ InformerFor
    /\ got' = [got EXCEPT ![use] = informers']
    /\ UNCHANGED <<signalVars, itemVars, shutDown, worker, exit>>

StartFactory ==
    /\ Reached("start")
    /\ at' = at + 1
    /\ Start
    /\ UNCHANGED <<signalVars, got, itemVars, shutDown, worker, exit>>

\* Mutant of WaitForSync: waits without an eye on stopCh.
WaitWithoutStop ==
    /\ Reached("sync")
    /\ got["hasSynced"] \in synced
    /\ at' = at + 1
    /\ UNCHANGED <<signalVars, factoryVars, got, itemVars, shutDown, worker, exit>>

\* cache.WaitForCacheSync in Run polls until the cache has synced or stopCh
\* is closed.  In the latter case Run returns an error, and main is fatal.
WaitForSync ==
    /\ Reached("sync")
    /\ \/ got["hasSynced"] \in synced /\ at' = at + 1 /\ UNCHANGED <<shutDown, exit>>
       \/ stopped /\ shutDown' = TRUE /\ exit' = "fatal" /\ UNCHANGED at
    /\ UNCHANGED <<signalVars, factoryVars, got, itemVars, worker>>

StartWorkers ==
    /\ Reached("workers")
    /\ at' = at + 1
    /\ worker' = [w \in Workers |-> "launched"]
    /\ UNCHANGED <<signalVars, factoryVars, got, itemVars, shutDown, exit>>

\* Run receives from stopCh and returns; its deferred ShutDown runs.
AwaitStop ==
    /\ Reached("running")
    /\ stopped
    /\ at' = at + 1
    /\ shutDown' = TRUE
    /\ UNCHANGED <<signalVars, factoryVars, got, itemVars, worker, exit>>

MainReturns ==
    /\ Reached("return")
    /\ at' = at + 1
    /\ exit' = "ok"
    /\ UNCHANGED <<signalVars, factoryVars, got, itemVars, shutDown, worker>>

MainStep ==
    \/ SetupSignalHandler \/ MakeClients
    \/ \E use \in Uses : NewController(use)
    \/ StartFactory \/ WaitForSync \/ StartWorkers \/ AwaitStop \/ MainReturns

-----------------------------------------------------------------------------
(* The informer's goroutine and the workers. *)

\* The first list comes in, perhaps just as stopCh is closed.
CachesSync ==
    /\ \E i \in running : FirstList(i)
    /\ UNCHANGED <<at, signalVars, got, itemVars, shutDown, worker, exit>>

\* A handler adds an item (from the first list on), or a back-off expires.
\* After ShutDown the queue takes no more.
AddItem ==
    /\ got["handlers"] \in running
    /\ added < MaxItems
    /\ ~shutDown
    /\ added' = added + 1
    /\ waiting' = waiting + 1
    /\ UNCHANGED <<at, signalVars, factoryVars, got, shutDown, worker, exit>>

Advance(w, state) == worker' = [worker EXCEPT ![w] = state]

\* wait.Until looks at stopCh before it calls runWorker.
RunWorker(w) ==
    /\ worker[w] = "launched"
    /\ Advance(w, IF stopped THEN "returned" ELSE "idle")
    /\ UNCHANGED <<at, signalVars, factoryVars, got, itemVars, shutDown, exit>>

\* Mutant of GetItem: the workers share a lock that they hold during a sync.
GetItemLocked(w) ==
    /\ worker[w] = "idle"
    /\ \A v \in Workers : worker[v] # "busy"
    /\ waiting > 0
    /\ waiting' = waiting - 1
    /\ Advance(w, "busy")
    /\ UNCHANGED <<at, signalVars, factoryVars, got, added, shutDown, exit>>

\* workqueue.Get blocks on an empty queue until there is an item or the queue
\* is shut down, hands out what is left, and only then says shutdown.
GetItem(w) ==
    /\ worker[w] = "idle"
    /\ \/ /\ waiting > 0
          /\ waiting' = waiting - 1
          /\ Advance(w, "busy")
       \/ /\ waiting = 0
          /\ shutDown
          /\ Advance(w, "returned")
          /\ UNCHANGED waiting
    /\ UNCHANGED <<at, signalVars, factoryVars, got, added, shutDown, exit>>

\* syncHandler returned, with an error or not.
FinishItem(w) ==
    /\ worker[w] = "busy"
    /\ Advance(w, "idle")
    /\ UNCHANGED <<at, signalVars, factoryVars, got, itemVars, shutDown, exit>>

GoroutineStep(w) == RunWorker(w) \/ GetItem(w) \/ FinishItem(w)

\* The end of the process is the end of all its goroutines.
Alive == exit = "alive"

LifeNext ==
    /\ Alive
    /\ \/ Signal
       \/ HandlerStep
       \/ MainStep
       \/ CachesSync
       \/ AddItem
       \/ \E w \in Workers : GoroutineStep(w)

LifeSpec == LifeInit /\ [][LifeNext]_lifeVars

\* The scheduler runs every goroutine that is not blocked.  Main is left out:
\* the properties say where they rely on it.
SchedulerFairness ==
    /\ WF_lifeVars(Alive /\ HandlerStep)
    /\ \A w \in Workers : WF_lifeVars(Alive /\ RunWorker(w))

FairLifeSpec == LifeSpec /\ SchedulerFairness

\* Main blocks on the caches and on stopCh only.
MainRuns == WF_lifeVars(Alive /\ MainStep)

\* The API server answers the list of an informer that runs.
ServerAnswers == WF_lifeVars(Alive /\ CachesSync)

\* One worker at least is never left without an answer; any other may hang in
\* a call to Connect for good, the HTTP client having no timeout.
SomeWorkerGoesOn ==
    \E w \in Workers : WF_lifeVars(Alive /\ GetItem(w)) /\ WF_lifeVars(Alive /\ FinishItem(w))

-----------------------------------------------------------------------------
(* What starts and stops as it should, and what does not. *)

LifeTypeOK ==
    /\ at \in 1..(Len(Order) + 1)
    /\ sent \in 0..MaxSignals
    /\ caught \in 0..Capacity
    /\ handler \in HandlerStates
    /\ stopped \in BOOLEAN
    /\ FactoryTypeOK
    /\ got \in [Uses -> Nat]
    /\ waiting \in 0..MaxItems
    /\ added \in 0..MaxItems
    /\ shutDown \in BOOLEAN
    /\ worker \in [Workers -> WorkerStates]
    /\ exit \in Exits

(***************************************************************************)
(* "Wait for the caches to be synced before starting workers" (Run): no    *)
(* worker takes an item before the indexer that its lister reads holds the *)
(* first list, or it would delete the connectors of all that is not listed *)
(* yet; and it is the indexer of the informer that tells the handlers.     *)
(***************************************************************************)
SyncedBeforeWork ==
    \A w \in Workers :
        worker[w] \in {"idle", "busy"}
            => got["lister"] \in synced /\ got["handlers"] = got["lister"]

(***************************************************************************)
(* One signal is enough for Run's graceful way out and never forces the    *)
(* exit; a forced exit means that a second one was caught.                 *)
(***************************************************************************)
OneSignalForcesNothing == exit = "forced" => sent >= 2

(***************************************************************************)
(* A signal ends the process, wherever the main goroutine is when it       *)
(* comes, whether or not the API server ever answers and whatever hangs    *)
(* in the workers (main, SetupSignalHandler and Run).                      *)
(***************************************************************************)
SignalEnds == MainRuns => (sent > 0 ~> ~Alive)

(***************************************************************************)
(* "If a second signal is caught, the program is terminated"               *)
(* (SetupSignalHandler): two signals end it even if main is stuck, and     *)
(* even if both come before the handler's goroutine runs.                  *)
(***************************************************************************)
SecondSignalEnds == sent >= 2 ~> ~Alive

(***************************************************************************)
(* The order of main gets the operator to work: if the API server answers, *)
(* every worker ends up taking items, unless the process ends.             *)
(***************************************************************************)
EventuallyServes ==
    MainRuns /\ ServerAnswers
        => <>(~Alive \/ \A w \in Workers : worker[w] \in {"idle", "busy"})

(***************************************************************************)
(* The queue drains as long as one worker goes on, although the others     *)
(* hang with an item each, until the process is told to stop.              *)
(***************************************************************************)
QueueDrains ==
    MainRuns /\ ServerAnswers /\ SomeWorkerGoesOn
        => (waiting > 0 ~> waiting = 0 \/ stopped \/ ~Alive)

(***************************************************************************)
(* "it will shutdown the workqueue and wait for workers to finish          *)
(* processing their current work items" (Run).                             *)
(***************************************************************************)
WorkersFinish == exit = "ok" => \A w \in Workers : worker[w] # "busy"
=============================================================================
