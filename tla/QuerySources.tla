---------------------------- MODULE QuerySources ----------------------------
(***************************************************************************)
(* QueryOrder with a history: whether the audit was on when each           *)
(* connection was opened, which is when SocketQueryResults compares the    *)
(* source of the connection with that of the user's order.                 *)
(***************************************************************************)
EXTENDS QueryOrder

VARIABLE audited

Opened(k) == IF Socket(k, "off") THEN audit ELSE audited[k]

HistoryInit == Init /\ audited = [k \in Sockets |-> FALSE]

HistoryNext ==
    /\ Next
    /\ audited' = [k \in Sockets |-> socket'[k].pc # "off" /\ Opened(k)]

HistorySpec == HistoryInit /\ [][HistoryNext]_<<vars, audited>>

\* The source is compared once, when the connection is opened; after that an order
\* for another source, or for none, may let its messages through, and the audit may
\* be switched off and on (query.go:157, 222).  Still a query runs only at a source
\* for which its sender was once granted an order, unless its connection dates from
\* a time without audit.
SourceWasGranted ==
    \A k \in Sockets :
        Socket(k, "run") /\ audited[k] =>
            \E o \in granted : /\ orders[o].user = socket[k].user
                               /\ orders[o].source = socket[k].source
=============================================================================
