-------------------------------- MODULE Mirror --------------------------------
(***************************************************************************)
(* What the operator promises, and nothing of how: every resource has a    *)
(* config that its users want, Connect runs some config under its name,    *)
(* and the operator may leave a resource alone only when the two are the   *)
(* same, or it has said why not.  Caches, queues, workers, retries and     *)
(* restarts do not exist here.                                             *)
(***************************************************************************)
EXTENDS Naturals

CONSTANTS
    Resources,   \* the keys of the resources
    Configs,     \* what users may want of one
    Nothing      \* no such resource, no such connector

VARIABLES
    wish,      \* [Resources -> Configs \union {Nothing}], what users want
    newest,    \* [Resources -> Nat], the version of the wish
    running,   \* [Resources -> Configs \union {Nothing}], what Connect runs
    applied,   \* [Resources -> Nat], the newest version that was applied
    refused,   \* resources whose wish was last reported to be invalid
    due        \* resources that the operator is not done with

mirrorVars == <<wish, newest, running, applied, refused, due>>

MirrorInit ==
    /\ wish = [r \in Resources |-> Nothing]
    /\ newest = [r \in Resources |-> 0]
    /\ running = [r \in Resources |-> Nothing]
    /\ applied = [r \in Resources |-> 0]
    /\ refused = {}
    /\ due = {}

\* A user wants something else of r, or says the same thing again.
Ask(r) ==
    /\ \/ \E c \in Configs : wish' = [wish EXCEPT ![r] = c]
                             /\ newest' = [newest EXCEPT ![r] = newest[r] + 1]
       \/ wish' = [wish EXCEPT ![r] = Nothing] /\ UNCHANGED newest
    /\ due' = due \union {r}
    /\ UNCHANGED <<running, applied, refused>>

\* Connect is told a config of r, never that of a version which is older
\* than what it was told before.
Apply(r) ==
    /\ r \in due
    /\ \E c \in Configs : running' = [running EXCEPT ![r] = c]
    /\ \E v \in applied[r]..newest[r] : applied' = [applied EXCEPT ![r] = v]
    /\ UNCHANGED <<wish, newest, refused, due>>

Withdraw(r) ==
    /\ r \in due
    /\ running' = [running EXCEPT ![r] = Nothing]
    /\ UNCHANGED <<wish, newest, applied, refused, due>>

\* The outcome is reported, in the resource itself perhaps, whose wish it
\* does not touch.
Tell(r) ==
    /\ r \in due
    /\ \E R \in {refused \union {r}, refused \ {r}} : refused' = R
    /\ \E v \in {newest[r], newest[r] + 1} : newest' = [newest EXCEPT ![r] = v]
    /\ UNCHANGED <<wish, running, applied, due>>

\* A wish that is still there is fulfilled or refused.
Fulfilled(r) == wish[r] \in {Nothing, running[r]} \/ r \in refused

\* The operator is done with some resources, and looks at others again.
Attend ==
    /\ UNCHANGED <<wish, newest, running, applied, refused>>
    /\ due' \in SUBSET Resources
    /\ \A r \in due \ due' : Fulfilled(r)

MirrorNext ==
    \/ Attend
    \/ \E r \in Resources : Ask(r) \/ Apply(r) \/ Withdraw(r) \/ Tell(r)

MirrorSpec == MirrorInit /\ [][MirrorNext]_mirrorVars
=============================================================================
