---------------------------- MODULE QueryAccess ----------------------------
(***************************************************************************)
(* What the query orders promise about access, with the statements, pages, *)
(* settings, connections and clocks of QueryOrder abstracted away.  A      *)
(* message is admitted only at an instant at which an order of its sender  *)
(* is in force, and it is admitted under the newest one.  Nothing brings   *)
(* an order into force but its filing and an agreement.  Taking an order   *)
(* out of force does not stop the messages it has admitted: the code looks *)
(* at the orders and runs the query in two steps.  An admitted message     *)
(* runs and is recorded at most once, under the order it was admitted      *)
(* under; only a restart keeps one that ran from being recorded, and the   *)
(* records of an order are erased only when it is out of force.            *)
(***************************************************************************)
EXTENDS Naturals

CONSTANTS Users, Orders, None

VARIABLES
    filed,      \* who filed each order, None for one that is not filed yet
    leave,      \* the orders in force
    sent,       \* number of messages received so far
    waiting,    \* messages not looked at yet, each with its sender
    admitted,   \* messages that may run, each with its order
    unwritten,  \* messages that ran and are not recorded yet
    recorded    \* messages with a record

access   == <<filed, leave>>
messages == <<sent, waiting, admitted, unwritten, recorded>>
abstract == <<access, messages>>

Init ==
    /\ filed     = [o \in Orders |-> None]
    /\ leave     = {}
    /\ sent      = 0
    /\ waiting   = {}
    /\ admitted  = {}
    /\ unwritten = {}
    /\ recorded  = {}

File(u, o) ==
    /\ filed[o] = None
    /\ filed' = [filed EXCEPT ![o] = u]
    /\ leave' \in {leave, leave \union {o}}
    /\ UNCHANGED messages

Agree(o) ==
    /\ filed[o] # None
    /\ leave' = leave \union {o}
    /\ UNCHANGED <<filed, messages>>

\* By a button, a setting, a deletion or the clock.
End ==
    /\ leave' \in SUBSET leave
    /\ UNCHANGED <<filed, messages>>

Receive(u) ==
    /\ sent' = sent + 1
    /\ waiting' = waiting \union {<<sent + 1, u>>}
    /\ UNCHANGED <<access, admitted, unwritten, recorded>>

Admit(m, u, o) ==
    /\ <<m, u>> \in waiting
    /\ o \in leave /\ filed[o] = u
    /\ \A newer \in leave : filed[newer] = u => newer <= o
    /\ waiting' = waiting \ {<<m, u>>}
    /\ admitted' = admitted \union {<<m, o>>}
    /\ UNCHANGED <<access, sent, unwritten, recorded>>

Refuse(m, u) ==
    /\ <<m, u>> \in waiting
    /\ waiting' = waiting \ {<<m, u>>}
    /\ UNCHANGED <<access, sent, admitted, unwritten, recorded>>

\* Or the text of the message is refused.
Run(m, o) ==
    /\ <<m, o>> \in admitted
    /\ admitted' = admitted \ {<<m, o>>}
    /\ unwritten' \in {unwritten, unwritten \union {<<m, o>>}}
    /\ UNCHANGED <<access, sent, waiting, recorded>>

Record(m, o) ==
    /\ <<m, o>> \in unwritten
    /\ unwritten' = unwritten \ {<<m, o>>}
    /\ recorded' = recorded \union {<<m, o>>}
    /\ UNCHANGED <<access, sent, waiting, admitted>>

Erase(S) ==
    /\ S \intersect leave = {}
    /\ recorded' = {r \in recorded : r[2] \notin S}
    /\ UNCHANGED <<access, sent, waiting, admitted, unwritten>>

\* A restart of the process: nothing under way survives.
LoseAll ==
    /\ waiting' = {} /\ admitted' = {} /\ unwritten' = {}
    /\ UNCHANGED <<access, sent, recorded>>

Next ==
    \/ End
    \/ \E o \in Orders : Agree(o) \/ \E u \in Users : File(u, o)
    \/ \E u \in Users : Receive(u)
    \/ \E m \in 1..sent :
          \/ \E u \in Users : Refuse(m, u) \/ \E o \in Orders : Admit(m, u, o)
          \/ \E o \in Orders : Run(m, o) \/ Record(m, o)
    \/ \E S \in SUBSET Orders : Erase(S)
    \/ LoseAll

Spec == Init /\ [][Next]_abstract
=============================================================================
