--------------------------- MODULE OrderLifecycle ---------------------------
(***************************************************************************)
(* What the order workflow promises about execution, with the rows, pages, *)
(* stages and engine of OrderAudit abstracted away.  A job for an order    *)
(* reaches the engine only when a goroutine spends a permit for it.  A     *)
(* goroutine gets a permit in two ways only: it posted the order, or it    *)
(* saw the order open.  A permit is spent at most once.  Closing an order  *)
(* does not revoke the permits that are out: that is as much as the code   *)
(* guarantees, since it looks at the status and calls the engine in two    *)
(* steps.  Only the engine opens a closed order again, and only one it was *)
(* given.                                                                  *)
(***************************************************************************)
EXTENDS Naturals

CONSTANTS WorkIds, Handlers

VARIABLES
    phase,    \* "new", "open" or "closed"
    permits,  \* the goroutines that hold a permit for each order
    jobs      \* the jobs the engine has been given for each order

abstract == <<phase, permits, jobs>>

Init ==
    /\ phase   = [w \in WorkIds |-> "new"]
    /\ permits = [w \in WorkIds |-> {}]
    /\ jobs    = [w \in WorkIds |-> 0]

Post(h, w) ==
    /\ phase[w] = "new"
    /\ phase'   = [phase EXCEPT ![w] = "open"]
    /\ permits' = [permits EXCEPT ![w] = @ \union {h}]
    /\ UNCHANGED jobs

Permit(h, w) ==
    /\ phase[w] = "open"
    /\ permits' = [permits EXCEPT ![w] = @ \union {h}]
    /\ UNCHANGED <<phase, jobs>>

\* The holder hands the order to the engine, or gives up.
Spend(h, w) ==
    /\ h \in permits[w]
    /\ permits' = [permits EXCEPT ![w] = @ \ {h}]
    /\ jobs' \in {jobs, [jobs EXCEPT ![w] = @ + 1]}
    /\ UNCHANGED phase

Close(w) ==
    /\ phase[w] = "open"
    /\ phase' = [phase EXCEPT ![w] = "closed"]
    /\ UNCHANGED <<permits, jobs>>

Reopen(w) ==
    /\ phase[w] = "closed"
    /\ jobs[w] > 0
    /\ phase' = [phase EXCEPT ![w] = "open"]
    /\ UNCHANGED <<permits, jobs>>

\* A restart of the process: no goroutine survives.
LoseAll ==
    /\ permits' = [w \in WorkIds |-> {}]
    /\ UNCHANGED <<phase, jobs>>

Next ==
    \/ \E w \in WorkIds :
          \/ \E h \in Handlers : Post(h, w) \/ Permit(h, w) \/ Spend(h, w)
          \/ Close(w) \/ Reopen(w)
    \/ LoseAll

Spec == Init /\ [][Next]_abstract
=============================================================================
