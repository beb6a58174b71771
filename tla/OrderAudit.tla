----------------------------- MODULE OrderAudit -----------------------------
(***************************************************************************)
(* The life of a SQL order (core_sql_orders) between the moment a user     *)
(* posts it and the moment it is closed: handler/personal/post.go,         *)
(* handler/personal/util.go, handler/order/audit, the withdraw handler of  *)
(* handler/fetch and the bulk deletion of handler/manage/settings.         *)
(*                                                                         *)
(* Every HTTP request is served by a goroutine.  A goroutine is a process  *)
(* of this module, and one action is one statement it sends to MySQL or    *)
(* one RPC: the code opens no transaction in these handlers, so any other  *)
(* request may be served between two of its statements.  The SQL itself is *)
(* run by the external Juno engine, reached with net/rpc and known only by *)
(* how the code calls it and by the statuses the code expects it to write. *)
(*                                                                         *)
(* The audit template of an order's data source does not change here.      *)
(***************************************************************************)
EXTENDS Integers

CONSTANTS
    WorkIds,      \* work ids that factory.GenWorkId may draw
    Users,        \* account names
    Handlers,     \* request goroutines that may be live at the same time
    LastStage,    \* index of the template's last stage; stage 0 is the post
    Auditor,      \* Auditor[s]: the accounts the template names at stage s
    NameWithin,   \* <<u, v>>: u's name is a substring of v's name
    RpcAddr,      \* whether General.RpcAddr is set (a Juno engine exists)
    MaxRequests,  \* bound: requests served
    MaxRestarts,  \* bound: restarts of the Yearning process
    None

ASSUME OrderAssumption ==
    /\ LastStage \in Nat \ {0}
    /\ Auditor \in [1..LastStage -> SUBSET Users]
    /\ NameWithin \subseteq Users \X Users
    /\ \A u \in Users : <<u, u>> \in NameWithin
    /\ RpcAddr \in BOOLEAN
    /\ MaxRequests \in Nat
    /\ MaxRestarts \in Nat
    /\ None \notin WorkIds \union Users

VARIABLES
    row,       \* core_sql_orders, one row per work id
    trail,     \* core_workflow_details: <<what, who>> rows of each work id
    reasons,   \* work ids with a rejection comment in core_order_comments
    juno,      \* the engine's jobs for each work id
    job,       \* what each request goroutine still has to do
    requests,  \* requests served so far
    restarts,  \* restarts so far
    shown,     \* history: values current_step has had, a Flag a page may hold
    approved   \* history: the requests that isNotIdempotent accepted, each as
               \* <<stage, user, whether a page had shown that stage>>

vars == <<row, trail, reasons, juno, job, requests, restarts, shown, approved>>

-----------------------------------------------------------------------------
(***************************************************************************)
(* Rows.  Status 0 is "rejected", 1 "executed", 2 "review", 3 "executing", *)
(* 4 "failed", 5 "delayed" and 6 "undone".  The three others stand for a   *)
(* row that does not exist: not yet, no more because its author withdrew   *)
(* it, no more because an administrator deleted old orders.                *)
(***************************************************************************)
Missing == {"unposted", "withdrawn", "deleted"}
Status  == {"rejected", "executed", "review", "executing", "failed",
            "delayed", "undone"} \union Missing

\* An order an auditor may still send to the engine (ExecuteOrder's guard).
Open == {"review", "delayed"}

\* The length of the template, which counts the posting stage 0.
Length == LastStage + 1

NoRow(status) == [status |-> status, step |-> 0, assigned |-> {}]

Exists(w) == row[w].status \notin Missing

\* UPDATE ... SET status = ? WHERE work_id = w: no effect on a missing row.
SetStatus(w, status) ==
    row' = IF Exists(w) THEN [row EXCEPT ![w].status = status] ELSE row

\* The same for current_step; the page may show the new value from now on.
SetStep(w, step, assigned) ==
    /\ row' = IF Exists(w)
              THEN [row EXCEPT ![w] = [status |-> @.status,
                                       step |-> step, assigned |-> assigned]]
              ELSE row
    /\ shown' = IF Exists(w)
                THEN [shown EXCEPT ![w] = @ \union {step}]
                ELSE shown

AddDetail(w, what, who) ==
    trail' = [trail EXCEPT ![w] = @ \union {<<what, who>>}]

-----------------------------------------------------------------------------
(***************************************************************************)
(* Request goroutines.                                                     *)
(***************************************************************************)
Idle == [pc |-> "idle", work |-> None, user |-> None, stage |-> 0]

Serve(h, pc, w, u, s) ==
    /\ job[h].pc = "idle"
    /\ requests < MaxRequests
    /\ requests' = requests + 1
    /\ job' = [job EXCEPT ![h] = [pc |-> pc, work |-> w, user |-> u, stage |-> s]]
    /\ UNCHANGED restarts

At(h, pc) == job[h].pc = pc

Goto(h, pc) ==
    /\ job' = [job EXCEPT ![h].pc = pc]
    /\ UNCHANGED <<requests, restarts>>

Reply(h) ==
    /\ job' = [job EXCEPT ![h] = Idle]
    /\ UNCHANGED <<requests, restarts>>

-----------------------------------------------------------------------------
(***************************************************************************)
(* The engine's side of Engine.Exec.  by_hand and by_robot count the jobs  *)
(* it has accepted from ExecuteOrder and from autoTask.                    *)
(***************************************************************************)
NoJobs == [queued |-> 0, running |-> 0, by_hand |-> 0, by_robot |-> 0]

\* The engine's books for w, with so many more jobs of each kind.
Book(w, queued, running, by_hand, by_robot) ==
    juno' = [juno EXCEPT ![w] =
               [queued   |-> @.queued + queued,   running  |-> @.running + running,
                by_hand  |-> @.by_hand + by_hand, by_robot |-> @.by_robot + by_robot]]

AcceptByHand(w)  == Book(w, 1, 0, 1, 0)
AcceptByRobot(w) == Book(w, 1, 0, 0, 1)

\* calls.NewRpc, then Engine.Exec: the engine takes the job and says so, takes
\* it but its answer is lost, or refuses; without an address, or when dialling
\* fails, the client is nil and the code goes on as if the engine had said yes.
CallExec(h, accept, next) ==
    \/ RpcAddr /\ accept /\ (Goto(h, next) \/ Reply(h))
    \/ RpcAddr /\ UNCHANGED juno /\ Reply(h)
    \/ UNCHANGED juno /\ Goto(h, next)

-----------------------------------------------------------------------------
Init ==
    /\ row      = [w \in WorkIds |-> NoRow("unposted")]
    /\ trail    = [w \in WorkIds |-> {}]
    /\ reasons  = {}
    /\ juno     = [w \in WorkIds |-> NoJobs]
    /\ job      = [h \in Handlers |-> Idle]
    /\ requests = 0
    /\ restarts = 0
    /\ shown    = [w \in WorkIds |-> {}]
    /\ approved = [w \in WorkIds |-> {}]

-----------------------------------------------------------------------------
(***************************************************************************)
(* sqlOrderPost and autoTask.                                              *)
(***************************************************************************)

\* wrapperPostOrderInfo fills the row and Create inserts it.
CreateOrder(h, w) ==
    /\ row[w].status = "unposted"
    /\ Serve(h, "submitDetail", w, None, 0)
    /\ row' = [row EXCEPT ![w] =
                 [status |-> "review", step |-> 1, assigned |-> Auditor[1]]]
    /\ shown' = [shown EXCEPT ![w] = {1}]
    /\ UNCHANGED <<trail, reasons, juno, approved>>

\* The "submitted" detail; a DML order that a CoreAutoTask matches goes on.
SubmitDetail(h) ==
    /\ At(h, "submitDetail")
    /\ AddDetail(job[h].work, "submit", None)
    /\ Goto(h, "robotCall") \/ Reply(h)
    /\ UNCHANGED <<row, reasons, juno, shown, approved>>

RobotCall(h) ==
    /\ At(h, "robotCall")
    /\ CallExec(h, AcceptByRobot(job[h].work), "robotDetail")
    /\ UNCHANGED <<row, trail, reasons, shown, approved>>

RobotDetail(h) ==
    /\ At(h, "robotDetail")
    /\ AddDetail(job[h].work, "execute", "AutoTask Robot")
    /\ Goto(h, "robotStep")
    /\ UNCHANGED <<row, reasons, juno, shown, approved>>

\* Mutant: CurrentStep becomes the index of the last stage.
RobotStepAtLastStage(h) ==
    /\ At(h, "robotStep")
    /\ SetStep(job[h].work, LastStage, row[job[h].work].assigned)
    /\ Reply(h)
    /\ UNCHANGED <<trail, reasons, juno, approved>>

\* Mutant: CurrentStep is moved one past the template's length.
RobotStepPastLength(h) ==
    /\ At(h, "robotStep")
    /\ SetStep(job[h].work, Length + 1, row[job[h].work].assigned)
    /\ Reply(h)
    /\ UNCHANGED <<trail, reasons, juno, approved>>

\* CurrentStep becomes the template's length: a stage that nobody audits.
RobotStep(h) ==
    /\ At(h, "robotStep")
    /\ SetStep(job[h].work, Length, row[job[h].work].assigned)
    /\ Reply(h)
    /\ UNCHANGED <<trail, reasons, juno, approved>>

-----------------------------------------------------------------------------
(***************************************************************************)
(* AuditOrderState "agree": MultiAuditOrder, isNotIdempotent, ExecuteOrder *)
(***************************************************************************)

\* strings.Contains(joined auditor names, user).
MayPass(u, s) == \E v \in Auditor[s] : <<u, v>> \in NameWithin

\* isNotIdempotent's acceptance: the Flag of the request is a stage of the
\* template and the user is among its auditors.  The row is not read.
isNotIdempotent(u, s) == Length > s /\ MayPass(u, s)

\* Its second result: the stage is the last one.
IsExecute(s) == s + 1 = Length

\* A request to agree, for an order a page has shown.  Its Flag s is what the
\* client sends: the order's current_step when its page was loaded, possibly
\* long ago, or any other number, for nothing compares it with the row.  (Flag
\* 0 names the posting step, whose only "auditor" is a word that means the
\* author and no account.)
AgreeRequest(h, w, u, s) ==
    /\ shown[w] # {}
    /\ isNotIdempotent(u, s)
    /\ Serve(h, IF IsExecute(s) THEN "load" ELSE "advance", w, u, s)
    /\ approved' = [approved EXCEPT ![w] = @ \union {<<s, u, s \in shown[w]>>}]
    /\ UNCHANGED <<row, trail, reasons, juno, shown>>

\* Mutant: assigned is left with the auditors who have just agreed.
AdvanceStepKeepsAuditors(h) ==
    /\ At(h, "advance")
    /\ SetStep(job[h].work, job[h].stage + 1, Auditor[job[h].stage])
    /\ Goto(h, "agreeDetail")
    /\ UNCHANGED <<trail, reasons, juno, approved>>

\* Mutant: current_step is set to the Flag instead of the next stage.
AdvanceStepStays(h) ==
    /\ At(h, "advance")
    /\ SetStep(job[h].work, job[h].stage, Auditor[job[h].stage])
    /\ Goto(h, "agreeDetail")
    /\ UNCHANGED <<trail, reasons, juno, approved>>

\* UPDATE current_step and assigned by work_id, whatever the row holds now.
AdvanceStep(h) ==
    /\ At(h, "advance")
    /\ SetStep(job[h].work, job[h].stage + 1, Auditor[job[h].stage + 1])
    /\ Goto(h, "agreeDetail")
    /\ UNCHANGED <<trail, reasons, juno, approved>>

AgreeDetail(h) ==
    /\ At(h, "agreeDetail")
    /\ AddDetail(job[h].work, "agree", job[h].user)
    /\ Reply(h)
    /\ UNCHANGED <<row, reasons, juno, shown, approved>>

\* Mutant: the status is not looked at.
LoadOrderUnchecked(h) ==
    /\ At(h, "load")
    /\ Goto(h, "call")
    /\ UNCHANGED <<row, trail, reasons, juno, shown, approved>>

\* ExecuteOrder reads the row and goes on only when it is 2 or 5.
LoadOrder(h) ==
    /\ At(h, "load")
    /\ IF row[job[h].work].status \in Open THEN Goto(h, "call") ELSE Reply(h)
    /\ UNCHANGED <<row, trail, reasons, juno, shown, approved>>

CallEngine(h) ==
    /\ At(h, "call")
    /\ CallExec(h, AcceptByHand(job[h].work), "executeDetail")
    /\ UNCHANGED <<row, trail, reasons, shown, approved>>

ExecuteDetail(h) ==
    /\ At(h, "executeDetail")
    /\ AddDetail(job[h].work, "execute", job[h].user)
    /\ Reply(h)
    /\ UNCHANGED <<row, reasons, juno, shown, approved>>

-----------------------------------------------------------------------------
(***************************************************************************)
(* AuditOrderState "reject" and "undo", DelayKill, ScheduledChange.        *)
(***************************************************************************)

\* The other buttons of a page that shows order w.  No handler reads the row
\* first, and none asks who the user is but to sign the detail (left out here).
ButtonRequest(h, w) ==
    /\ shown[w] # {}
    /\ \E pc \in {"reject", "undo", "killDetail"} : Serve(h, pc, w, None, 0)
    /\ UNCHANGED <<row, trail, reasons, juno, shown, approved>>

RejectStatus(h) ==
    /\ At(h, "reject")
    /\ SetStatus(job[h].work, "rejected")
    /\ Goto(h, "rejectDetail")
    /\ UNCHANGED <<trail, reasons, juno, shown, approved>>

\* Mutant: the handler answers before the comment is written.
RejectDetailOnly(h) ==
    /\ At(h, "rejectDetail")
    /\ AddDetail(job[h].work, "reject", None)
    /\ Reply(h)
    /\ UNCHANGED <<row, reasons, juno, shown, approved>>

RejectDetail(h) ==
    /\ At(h, "rejectDetail")
    /\ AddDetail(job[h].work, "reject", None)
    /\ Goto(h, "rejectReason")
    /\ UNCHANGED <<row, reasons, juno, shown, approved>>

RejectReason(h) ==
    /\ At(h, "rejectReason")
    /\ reasons' = reasons \union {job[h].work}
    /\ Reply(h)
    /\ UNCHANGED <<row, trail, juno, shown, approved>>

UndoStatus(h) ==
    /\ At(h, "undo")
    /\ SetStatus(job[h].work, "undone")
    /\ Reply(h)
    /\ UNCHANGED <<trail, reasons, juno, shown, approved>>

KillDetail(h) ==
    /\ At(h, "killDetail")
    /\ AddDetail(job[h].work, "kill", None)
    /\ Goto(h, "killStatus")
    /\ UNCHANGED <<row, reasons, juno, shown, approved>>

\* delayKill assigns a column is_kill that CoreSqlOrder does not have, so MySQL
\* refuses the whole UPDATE; the error is dropped and the reply says done.
KillStatus(h) ==
    /\ At(h, "killStatus")
    /\ Reply(h)
    /\ UNCHANGED <<row, trail, reasons, juno, shown, approved>>

\* Engine.StopDelay, the only effect of ScheduledChange: the engine may drop a
\* job it holds back for a delayed order.
ScheduledChange(w) ==
    /\ RpcAddr
    /\ row[w].status = "delayed"
    /\ juno[w].queued > 0
    /\ Book(w, -1, 0, 0, 0)
    /\ UNCHANGED <<row, trail, reasons, job, requests, restarts, shown, approved>>

-----------------------------------------------------------------------------
(***************************************************************************)
(* FetchUndo: the author takes the order back; SuperDelOrder: orders of a  *)
(* range of dates are deleted in whatever status they are.                 *)
(***************************************************************************)
WithdrawRequest(h, w) ==
    /\ row[w].status = "review"
    /\ Serve(h, "withdraw", w, None, 0)
    /\ UNCHANGED <<row, trail, reasons, juno, shown, approved>>

\* Mutant: DELETE ... WHERE work_id only.
WithdrawDeleteAny(h) ==
    /\ At(h, "withdraw")
    /\ row' = IF Exists(job[h].work)
              THEN [row EXCEPT ![job[h].work] = NoRow("withdrawn")]
              ELSE row
    /\ Reply(h)
    /\ UNCHANGED <<trail, reasons, juno, shown, approved>>

\* DELETE ... WHERE status = 2; the reply says "undone" in either case.
WithdrawDelete(h) ==
    /\ At(h, "withdraw")
    /\ row' = IF row[job[h].work].status = "review"
              THEN [row EXCEPT ![job[h].work] = NoRow("withdrawn")]
              ELSE row
    /\ Reply(h)
    /\ UNCHANGED <<trail, reasons, juno, shown, approved>>

SuperDelOrder(w) ==
    /\ Exists(w)
    /\ row' = [row EXCEPT ![w] = NoRow("deleted")]
    /\ UNCHANGED <<trail, reasons, juno, job, requests, restarts, shown, approved>>

-----------------------------------------------------------------------------
(***************************************************************************)
(* The engine (external) writes the statuses 5, 3, 1 and 4 of the orders   *)
(* whose jobs it holds, and nothing else; the Yearning process may be      *)
(* restarted, which ends every goroutine where it stands.                  *)
(***************************************************************************)
EngineDelay(w) ==
    /\ juno[w].queued > 0
    /\ SetStatus(w, "delayed")
    /\ UNCHANGED <<trail, reasons, juno, job, requests, restarts, shown, approved>>

EngineStart(w) ==
    /\ juno[w].queued > 0
    /\ Book(w, -1, 1, 0, 0)
    /\ SetStatus(w, "executing")
    /\ UNCHANGED <<trail, reasons, job, requests, restarts, shown, approved>>

EngineFinish(w) ==
    /\ juno[w].running > 0
    /\ Book(w, 0, -1, 0, 0)
    /\ \E s \in {"executed", "failed"} : SetStatus(w, s)
    /\ UNCHANGED <<trail, reasons, job, requests, restarts, shown, approved>>

Restart ==
    /\ restarts < MaxRestarts
    /\ restarts' = restarts + 1
    /\ job' = [h \in Handlers |-> Idle]
    /\ UNCHANGED <<row, trail, reasons, juno, requests, shown, approved>>

-----------------------------------------------------------------------------
\* A request arrives.
Request(h) ==
    \E w \in WorkIds :
        \/ CreateOrder(h, w)
        \/ \E u \in Users, s \in 1..Length : AgreeRequest(h, w, u, s)
        \/ ButtonRequest(h, w)
        \/ WithdrawRequest(h, w)

\* A goroutine takes its next step.
Continue(h) ==
    \/ SubmitDetail(h) \/ RobotCall(h) \/ RobotDetail(h) \/ RobotStep(h)
    \/ AdvanceStep(h) \/ AgreeDetail(h)
    \/ LoadOrder(h) \/ CallEngine(h) \/ ExecuteDetail(h)
    \/ RejectStatus(h) \/ RejectDetail(h) \/ RejectReason(h)
    \/ UndoStatus(h) \/ KillDetail(h) \/ KillStatus(h) \/ WithdrawDelete(h)

Engine(w) == EngineDelay(w) \/ EngineStart(w) \/ EngineFinish(w)

Next ==
    \/ \E h \in Handlers : Request(h) \/ Continue(h)
    \/ \E w \in WorkIds : ScheduledChange(w) \/ SuperDelOrder(w) \/ Engine(w)
    \/ Restart

Spec == Init /\ [][Next]_vars

\* The Go scheduler runs every goroutine that can run, and MySQL answers every
\* statement; nobody has to send a request and nothing is assumed of the engine.
FairSpec == Spec /\ \A h \in Handlers : WF_vars(Continue(h))

-----------------------------------------------------------------------------
Waiting == {"submitDetail", "robotCall", "robotDetail", "robotStep",
            "advance", "agreeDetail", "load", "call", "executeDetail",
            "reject", "rejectDetail", "rejectReason", "undo",
            "killDetail", "killStatus", "withdraw"}

RowType == [status : Status, step : 0..Length, assigned : SUBSET Users]

DetailType == {"submit", "agree", "execute", "reject", "kill"}
                 \X (Users \union {None, "AutoTask Robot"})

JunoType == [queued : Nat, running : Nat, by_hand : Nat, by_robot : Nat]

JobType == [pc : Waiting, work : WorkIds, user : Users \union {None},
            stage : 0..LastStage] \union {Idle}

ApprovalType == (1..LastStage) \X Users \X BOOLEAN

TypeOK ==
    /\ row \in [WorkIds -> RowType]
    /\ trail \in [WorkIds -> SUBSET DetailType]
    /\ reasons \subseteq WorkIds
    /\ juno \in [WorkIds -> JunoType]
    /\ job \in [Handlers -> JobType]
    /\ requests \in 0..MaxRequests
    /\ restarts \in 0..MaxRestarts
    /\ shown \in [WorkIds -> SUBSET (1..Length)]
    /\ approved \in [WorkIds -> SUBSET ApprovalType]

-----------------------------------------------------------------------------
(***************************************************************************)
(* Safety.                                                                 *)
(***************************************************************************)

\* Somebody whom strings.Contains lets through at stage s has approved w there.
\* That need not be an auditor: part of an auditor's name is enough.
StageApproved(w, s) == \E a \in approved[w] : a[1] = s /\ MayPass(a[2], s)

\* An accepted request for w carried a Flag that no page of w had shown.
OffPage(w) == \E a \in approved[w] : ~a[3]

\* w is approved at stage s and, if its requests only came from its pages, at
\* every stage before it.
ApprovedUpTo(w, s) ==
    /\ StageApproved(w, s)
    /\ OffPage(w) \/ \A t \in 1..s : StageApproved(w, t)

\* Whatever pages and goroutines are late, restarted or concurrent, the engine
\* gets a job from ExecuteOrder only for an order that somebody accepted at the
\* last stage has approved there.  That the stages before were approved as well
\* rests on the pages alone, which send the current_step they have shown.
HandOversApproved ==
    \A w \in WorkIds : juno[w].by_hand > 0 => ApprovedUpTo(w, LastStage)

\* Why that holds, in the form that every step keeps: a goroutine past the check
\* of MultiAuditOrder, and a page that shows a later stage, each stand for the
\* approval of all the stages before, as long as no request strayed.
ApprovalsAccounted ==
    /\ \A h \in Handlers :
          /\ At(h, "advance") =>
                /\ job[h].stage \in 1..(LastStage - 1)
                /\ ApprovedUpTo(job[h].work, job[h].stage)
          /\ job[h].pc \in {"load", "call"} =>
                ApprovedUpTo(job[h].work, LastStage)
    /\ \A w \in WorkIds : OffPage(w) \/ \A f \in shown[w] \ {Length} :
          \A s \in 1..(f - 1) : StageApproved(w, s)

\* current_step and assigned agree: the accounts an order lists as its auditors
\* are those isNotIdempotent will accept at the stage the page shows, also when
\* two approvals of different stages overtake each other.
AssignedMatchesStep ==
    \A w \in WorkIds :
        Exists(w) /\ row[w].step \in 1..LastStage
            => row[w].assigned = Auditor[row[w].step]

\* FetchUndo looks at the status first and deletes later: the deletion must not
\* take away an order that the engine has begun to run in between.
WithdrawSparesRunningOrder ==
    [][\A w \in WorkIds :
          Exists(w) /\ juno[w].running > 0 => row'[w].status # "withdrawn"]_vars

\* Execution needs a permit that was given while the order was open, and each
\* permit serves once (see OrderLifecycle).  The goroutines that may still hand
\* an order over are the one that posts it and those past ExecuteOrder's guard.
phase ==
    [w \in WorkIds |->
        CASE row[w].status = "unposted" -> "new"
          [] row[w].status \in Open     -> "open"
          [] OTHER                      -> "closed"]

permits ==
    [w \in WorkIds |->
        {h \in Handlers : job[h].work = w
                          /\ job[h].pc \in {"submitDetail", "robotCall", "call"}}]

handed == [w \in WorkIds |-> juno[w].by_hand + juno[w].by_robot]

Lifecycle == INSTANCE OrderLifecycle WITH jobs <- handed

ImplementsLifecycle == Lifecycle!Spec

(***************************************************************************)
(* Liveness.                                                               *)
(***************************************************************************)

\* RejectOrder writes the status first and the reason two statements later: a
\* rejected order gets its reason, unless a restart falls in between.
RejectionGetsItsReason ==
    \A w \in WorkIds :
        row[w].status = "rejected" ~> (w \in reasons \/ restarts > 0)

\* An approval that MultiAuditOrder accepted is not lost: the order moves on to
\* the next stage or is gone, and the approval is in the order's trail.
ApprovalTakesEffect ==
    \A w \in WorkIds, u \in Users : \A s \in 1..(LastStage - 1) :
        (\E page \in BOOLEAN : <<s, u, page>> \in approved[w])
            ~> \/ restarts > 0
               \/ /\ s + 1 \in shown[w] \/ ~Exists(w)
                  /\ <<"agree", u>> \in trail[w]

(***************************************************************************)
(* What texts of the program say and the code does not do.                 *)
(***************************************************************************)

\* i18n/us.go:92, the refusal of ExecuteOrder (and of isNotIdempotent): "Someone has
\* already approved this stage".  An order that is still in review, so that no engine
\* has delayed it or begun to run it yet, and whose requests all came from its pages,
\* has not been handed over twice by approvals of the last stage.
HandedOverOnce ==
    \A w \in WorkIds :
        row[w].status = "review" /\ ~OffPage(w) => juno[w].by_hand <= 1
=============================================================================
