------------------------------ MODULE WorkQueue ------------------------------
(***************************************************************************)
(* The rate-limiting work queue of client-go, as controller.go uses it     *)
(* (NewNamedRateLimitingQueue, Add, AddRateLimited, Get, Done).  It is      *)
(* external code, modelled from that use: an item that is added while it   *)
(* waits is coalesced with itself, and an item that is added while a       *)
(* worker holds it comes back when the worker is done with it.             *)
(*                                                                         *)
(* The module is passive: its actions say what happens to its own          *)
(* variables, the module that extends it says when.                        *)
(***************************************************************************)
EXTENDS Naturals, Sequences

VARIABLES
    queue,       \* Seq of items that Get will hand out, oldest first
    dirty,       \* items that were added and not yet handed out
    processing,  \* items a worker got and has not yet marked Done
    delayed      \* items of AddRateLimited whose back-off has not expired

queueVars == <<queue, dirty, processing, delayed>>

QueueInit ==
    /\ queue = <<>>
    /\ dirty = {}
    /\ processing = {}
    /\ delayed = {}

QueueTypeOK(Items) ==
    /\ queue \in Seq(Items)
    /\ dirty \subseteq Items
    /\ processing \subseteq Items
    /\ delayed \subseteq Items

\* Add, without a word on the delayed items.
Enqueue(i) ==
    /\ dirty' = dirty \union {i}
    /\ queue' = IF i \in dirty \union processing THEN queue ELSE Append(queue, i)
    /\ UNCHANGED processing

Add(i) == Enqueue(i) /\ UNCHANGED delayed

\* Get hands out the oldest item; a worker blocks while there is none.
Take(i) ==
    /\ queue # <<>>
    /\ i = Head(queue)
    /\ queue' = Tail(queue)
    /\ dirty' = dirty \ {i}
    /\ processing' = processing \union {i}
    /\ UNCHANGED delayed

\* Done: what was added while the item was held goes back to the queue.
Done(i) ==
    /\ processing' = processing \ {i}
    /\ queue' = IF i \in dirty THEN Append(queue, i) ELSE queue
    /\ UNCHANGED dirty

\* AddRateLimited: the item waits out its back-off.
AddRateLimited(i) == delayed' = delayed \union {i}

\* The back-off of a delayed item expires and the queue adds it by itself.
Expire(i) ==
    /\ i \in delayed
    /\ delayed' = delayed \ {i}
    /\ Enqueue(i)

\* The process ends, and with it the queue, which is in memory only.
DropAll ==
    /\ queue' = <<>>
    /\ dirty' = {}
    /\ processing' = {}
    /\ delayed' = {}
=============================================================================
