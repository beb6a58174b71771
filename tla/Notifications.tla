---------------------------- MODULE Notifications ----------------------------
(***************************************************************************)
(* Who hears what about one order.  A handler writes the order, a          *)
(* pusher.Msg reads the row and its submitter back (Order, Query), builds  *)
(* the texts (OrderBuild, QueryBuild) and starts one goroutine for every   *)
(* mail and one for the webhook (Push); nobody waits for them and nobody   *)
(* repeats them.  The two ways to take an order back push BEFORE they      *)
(* write.  Two handlers, the goroutines and restarts interleave.  The order *)
(* is one that no auto task takes.                                         *)
(***************************************************************************)
EXTENDS Naturals, FiniteSets

CONSTANTS
    Users,        \* names of accounts
    Submitter,    \* the account whose order it is
    HasMail,      \* the accounts with an e-mail address
    Auditor,      \* Auditor[k]: the names step k of the template lists
    LastStage,    \* the stage whose approval executes; it pushes nothing
    Handlers,     \* request goroutines
    Chinese,      \* DefaultLang is zh-cn
    MaxRequests,  \* bound on the requests after the post
    MaxLost,      \* bound on the sends that fail
    MaxRestarts,  \* bound on restarts of the process
    None

ASSUME NotificationsAssumption ==
    /\ LastStage \in Nat \ {0}
    /\ Auditor \in [1 .. LastStage -> SUBSET Users]
    /\ MaxRequests \in Nat /\ MaxLost \in Nat /\ MaxRestarts \in Nat

VARIABLES
    order,      \* the row: kind, status, current_step, assigned, and whether its text
                \* holds a quotation mark
    handler,    \* per request: what it does next, Flag, the state to tell, the row it
                \* has read, and what is left to do after the push
    outbox,     \* messages (by mail or hook, to whom, state, names of auditors in it)
                \* whose goroutine has not finished
    delivered,  \* messages that arrived
    requests, lost, restarts

vars == <<order, handler, outbox, delivered, requests, lost, restarts>>

NoRow == [kind |-> "sql", status |-> "none", stage |-> 0, assigned |-> {}, text |-> "plain"]
StatusTypes == {"submit", "next", "reject", "agree", "undo"}
Idle == [next |-> "idle", flag |-> 0, state |-> "submit", after |-> "idle", row |-> NoRow]

InDatabase == order.status \notin {"none", "gone"}

-----------------------------------------------------------------------------
(***************************************************************************)
(* What a push consists of.                                                *)
(***************************************************************************)

\* Find(&m.ll.ToUser) scans into the one-element array that tpl.ll.ToUser,
\* copied before, shares with it: the template's list keeps its length of one
\* and shows the first row found in place of the submitter.
Recipients(state, row) ==
    LET found == IF state \in {"submit", "next"} THEN row.assigned ELSE {}
    IN  IF found # {} THEN found ELSE IF row.status = "none" THEN {None} ELSE {Submitter}

\* The mail of a transfer (Tmpl2Mail) names the next auditors, the others
\* (TmplMail) do not; an account without an address gets no mail.
Mails(to, state, row) ==
    IF to \in HasMail
    THEN {[by |-> "mail", to |-> to, state |-> state, names |-> IF state = "next" THEN row.assigned ELSE {}]}
    ELSE {}

\* dingMsgTplHandler puts the auditors in when the state's text is the one of
\* DefaultLang, but the builders write the Chinese text.  The order's text is
\* put into the JSON unescaped, so a quotation mark makes DingTalk refuse it
\* and convertToFeishuFormat fall back to a text without fields.
Named(state, row) ==
    IF Chinese /\ state \in {"submit", "next"} /\ row.text # "quoted" THEN row.assigned ELSE {}

Hook(state, row) == {[by |-> "hook", to |-> None, state |-> state, names |-> Named(state, row)]}

\* Order and Query: the row is read again, after the handler's own write.
Read(h) ==
    /\ handler[h].next = "read"
    /\ handler' = [handler EXCEPT ![h].next = "push", ![h].row = IF InDatabase THEN order ELSE NoRow]
    /\ UNCHANGED <<order, outbox, delivered, requests, lost, restarts>>

\* OrderBuild or QueryBuild, which looks up the accounts to tell, and Push.
Push(h) ==
    /\ handler[h].next = "push"
    /\ LET state == handler[h].state
           row   == handler[h].row
       IN  \E to \in Recipients(state, row) : outbox' = outbox \union Mails(to, state, row) \union Hook(state, row)
    /\ handler' = [handler EXCEPT ![h] = IF @.after = "idle" THEN Idle
                                                    ELSE [Idle EXCEPT !.next = handler[h].after]]
    /\ UNCHANGED <<order, delivered, requests, lost, restarts>>

Send(m) ==
    /\ outbox' = outbox \ {m}
    /\ delivered' = delivered \union {m}
    /\ UNCHANGED <<order, handler, requests, lost, restarts>>

\* SendMail and PusherMessages log the error and return.
Lose(m) ==
    /\ lost < MaxLost
    /\ lost' = lost + 1
    /\ outbox' = outbox \ {m}
    /\ UNCHANGED <<order, handler, delivered, requests, restarts>>

-----------------------------------------------------------------------------
(***************************************************************************)
(* The handlers.                                                           *)
(***************************************************************************)

\* The row is written and the handler goes on to tell of state.
WriteAndTell(h, row, state) ==
    /\ order' = row
    /\ handler' = [handler EXCEPT ![h] = [Idle EXCEPT !.next = "read", !.state = state]]
    /\ UNCHANGED <<outbox, delivered, requests, lost, restarts>>

\* sqlOrderPost and ReferQueryOrder; a query order stays with its auditors.
Post(h) ==
    /\ order.status = "none" /\ handler[h] = Idle
    /\ \E k \in {"sql", "query"}, t \in {"plain", "quoted"} :
         WriteAndTell(h, [kind |-> k, status |-> "review", stage |-> 1, assigned |-> Auditor[1], text |-> t], "submit")

Request(h, do) ==
    /\ handler[h] = Idle /\ order.status # "none" /\ requests < MaxRequests
    /\ requests' = requests + 1
    /\ handler' = [handler EXCEPT ![h] = do]
    /\ UNCHANGED <<order, outbox, delivered, lost, restarts>>

\* MultiAuditOrder takes the stage from the request, whatever the row's stage.
Agree(h) ==
    /\ order.kind = "sql"
    /\ \E f \in 1 .. LastStage - 1 : Request(h, [Idle EXCEPT !.next = "write", !.flag = f])

\* Mutant: the push of the step before it, the way the two undos do it.
AdvanceAfterwards(h) ==
    /\ handler[h].next = "write" /\ InDatabase
    /\ LET f == handler[h].flag
       IN  order' = [order EXCEPT !.stage = f + 1, !.assigned = Auditor[f + 1]]
    /\ handler' = [handler EXCEPT ![h] = [Idle EXCEPT !.next = "push", !.state = "next", !.row = order]]
    /\ UNCHANGED <<outbox, delivered, requests, lost, restarts>>

\* The trail entry between the UPDATE and the push is left out.
Advance(h) ==
    /\ handler[h].next = "write"
    /\ LET f == handler[h].flag
       IN  WriteAndTell(h, IF InDatabase THEN [order EXCEPT !.stage = f + 1, !.assigned = Auditor[f + 1]] ELSE order, "next")

\* RejectOrder, and QueryHandlerSets with reject: in whatever status.
Reject(h) ==
    /\ handler[h] = Idle /\ InDatabase /\ requests < MaxRequests
    /\ order' = [order EXCEPT !.status = "rejected"]
    /\ requests' = requests + 1
    /\ handler' = [handler EXCEPT ![h] = [Idle EXCEPT !.next = "read", !.state = "reject"]]
    /\ UNCHANGED <<outbox, delivered, lost, restarts>>

\* QueryHandlerSets with agreed.
Agreed(h) ==
    /\ handler[h] = Idle /\ InDatabase /\ order.kind = "query" /\ requests < MaxRequests
    /\ order' = [order EXCEPT !.status = "agreed"]
    /\ requests' = requests + 1
    /\ handler' = [handler EXCEPT ![h] = [Idle EXCEPT !.next = "read", !.state = "agree"]]
    /\ UNCHANGED <<outbox, delivered, lost, restarts>>

\* AuditOrderState with undo: the push, then the UPDATE.
Undo(h) == order.kind = "sql" /\ Request(h, [Idle EXCEPT !.next = "read", !.state = "undo", !.after = "undo"])

UndoWrite(h) ==
    /\ handler[h].next = "undo"
    /\ order' = IF InDatabase THEN [order EXCEPT !.status = "undone"] ELSE order
    /\ handler' = [handler EXCEPT ![h] = Idle]
    /\ UNCHANGED <<outbox, delivered, requests, lost, restarts>>

\* FetchUndo: a look for the order in review, the push, then the DELETE.
Withdraw(h) ==
    /\ order.kind = "sql" /\ order.status = "review"
    /\ Request(h, [Idle EXCEPT !.next = "read", !.state = "undo", !.after = "delete"])

\* Mutant: the DELETE also asks for the auditors that the look had seen.
WithdrawDeleteUnmoved(h) ==
    /\ handler[h].next = "delete"
    /\ order' = IF order.status = "review" /\ order.stage = 1 THEN [order EXCEPT !.status = "gone"] ELSE order
    /\ handler' = [handler EXCEPT ![h] = Idle]
    /\ UNCHANGED <<outbox, delivered, requests, lost, restarts>>

WithdrawDelete(h) ==
    /\ handler[h].next = "delete"
    /\ order' = IF order.status = "review" THEN [order EXCEPT !.status = "gone"] ELSE order
    /\ handler' = [handler EXCEPT ![h] = Idle]
    /\ UNCHANGED <<outbox, delivered, requests, lost, restarts>>

\* SuperDelOrder.
BulkDelete ==
    /\ InDatabase /\ requests < MaxRequests
    /\ requests' = requests + 1
    /\ order' = [order EXCEPT !.status = "gone"]
    /\ UNCHANGED <<handler, outbox, delivered, lost, restarts>>

\* The engine, given the order by ExecuteOrder, which looks at the request's
\* stage only, writes its status; it is handed the settings of GloMessage and
\* tells of the result itself.
EngineRuns ==
    /\ order.kind = "sql" /\ order.status = "review"
    /\ order' = [order EXCEPT !.status = "running"]
    /\ UNCHANGED <<handler, outbox, delivered, requests, lost, restarts>>

\* Goroutines and handlers die with the process.
Restart ==
    /\ restarts < MaxRestarts
    /\ restarts' = restarts + 1
    /\ handler' = [h \in Handlers |-> Idle]
    /\ outbox' = {}
    /\ UNCHANGED <<order, delivered, requests, lost>>

Init ==
    /\ order = NoRow
    /\ handler = [h \in Handlers |-> Idle]
    /\ outbox = {} /\ delivered = {}
    /\ requests = 0 /\ lost = 0 /\ restarts = 0

Next ==
    \/ \E h \in Handlers : \/ Post(h) \/ Agree(h) \/ Advance(h) \/ Reject(h) \/ Agreed(h)
                           \/ Undo(h) \/ UndoWrite(h) \/ Withdraw(h) \/ WithdrawDelete(h)
                           \/ Read(h) \/ Push(h)
    \/ \E m \in outbox : Send(m) \/ Lose(m)
    \/ BulkDelete \/ EngineRuns \/ Restart

Spec == Init /\ [][Next]_vars

-----------------------------------------------------------------------------
Quiet == \A h \in Handlers : handler[h] = Idle

\* When everything has been sent and nothing was lost on the way, an order in
\* review has been announced to one of the auditors of the stage it is at NOW,
\* by mail, and in the chat with the names of exactly these auditors: late and
\* repeated approvals read the row after their own write, so the last writer
\* never announces an older stage.  One auditor only, since the list of
\* addresses keeps its length of one (pusher.go:98, 118, 125).
StageIsAnnounced ==
    Quiet /\ outbox = {} /\ lost = 0 /\ restarts = 0 /\ order.status = "review" =>
        /\ order.assigned # {} /\ order.assigned \subseteq HasMail =>
             \E m \in delivered : /\ m.by = "mail" /\ m.to \in order.assigned
                                  /\ IF order.stage = 1 THEN m.state = "submit"
                                                        ELSE m.state = "next" /\ m.names = order.assigned
        /\ Chinese /\ order.text = "plain" => \E m \in delivered : m.by = "hook" /\ m.names = order.assigned

\* The messages "withdrawn" go out before the row is written (fetch.go:305,
\* audit.go:31).  Without a restart they come true all the same: once the
\* handlers are done, such an order is not in review, however many approvals
\* moved it between the look and the write.
UndoneIsNotInReview ==
    Quiet /\ restarts = 0 /\ (\E m \in outbox \union delivered : m.state = "undo") => order.status # "review"
=============================================================================
