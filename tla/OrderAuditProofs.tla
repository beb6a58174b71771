-------------------------- MODULE OrderAuditProofs --------------------------
(***************************************************************************)
(* Theorems about OrderAudit, for any number of orders, users, goroutines, *)
(* requests and restarts and for any template; the last part proves that   *)
(* it implements OrderLifecycle.                                           *)
(***************************************************************************)
EXTENDS OrderAudit, TLAPS

USE OrderAssumption DEF Length

LEMMA TypeInit == Init => TypeOK
<1> SUFFICES ASSUME Init PROVE TypeOK
  OBVIOUS
<1>1. NoRow("unposted") \in RowType
  BY DEF NoRow, RowType, Status, Missing
<1>2. NoJobs \in JunoType
  BY DEF NoJobs, JunoType
<1>3. Idle \in JobType
  BY DEF JobType
<1> QED
  BY <1>1, <1>2, <1>3 DEF Init, TypeOK

(***************************************************************************)
(* What the building blocks of the actions keep of the types.              *)
(***************************************************************************)
LEMMA ServeType ==
    ASSUME TypeOK, NEW h \in Handlers, NEW pc \in Waiting, NEW w \in WorkIds,
           NEW u \in Users \union {None}, NEW s \in 0..LastStage,
           Serve(h, pc, w, u, s)
    PROVE  /\ job' \in [Handlers -> JobType]
           /\ requests' \in 0..MaxRequests
           /\ restarts' \in 0..MaxRestarts
<1>1. [pc |-> pc, work |-> w, user |-> u, stage |-> s] \in JobType
  BY DEF JobType
<1>2. job' \in [Handlers -> JobType]
  BY <1>1 DEF Serve, TypeOK
<1>3. requests' \in 0..MaxRequests /\ restarts' \in 0..MaxRestarts
  BY DEF Serve, TypeOK
<1> QED
  BY <1>2, <1>3

LEMMA GotoType ==
    ASSUME TypeOK, NEW h \in Handlers, job[h].pc # "idle", NEW pc \in Waiting,
           Goto(h, pc)
    PROVE  /\ job' \in [Handlers -> JobType]
           /\ requests' \in 0..MaxRequests
           /\ restarts' \in 0..MaxRestarts
<1>1. job[h] \in JobType \ {Idle}
  BY DEF TypeOK, Idle
<1>2. [job[h] EXCEPT !.pc = pc] \in JobType
  BY <1>1 DEF JobType
<1>3. job' \in [Handlers -> JobType]
  BY <1>2 DEF Goto, TypeOK
<1> QED
  BY <1>3 DEF Goto, TypeOK

LEMMA ReplyType ==
    ASSUME TypeOK, NEW h \in Handlers, Reply(h)
    PROVE  /\ job' \in [Handlers -> JobType]
           /\ requests' \in 0..MaxRequests
           /\ restarts' \in 0..MaxRestarts
  BY DEF Reply, TypeOK, JobType

LEMMA JobFields ==
    ASSUME TypeOK, NEW h \in Handlers, job[h].pc # "idle"
    PROVE  /\ job[h].work \in WorkIds
           /\ job[h].user \in Users \union {None}
           /\ job[h].stage \in 0..LastStage
  BY DEF TypeOK, JobType, Idle

LEMMA StatusType ==
    ASSUME TypeOK, NEW w \in WorkIds, NEW st \in Status, SetStatus(w, st)
    PROVE  row' \in [WorkIds -> RowType]
<1>1. row[w] \in RowType /\ row \in [WorkIds -> RowType]
  BY DEF TypeOK
<1>2. [row[w] EXCEPT !.status = st] \in RowType
  BY <1>1 DEF RowType
<1> QED
  BY <1>1, <1>2 DEF SetStatus

LEMMA StepType ==
    ASSUME TypeOK, NEW w \in WorkIds, NEW n \in 1..Length,
           NEW A \in SUBSET Users, SetStep(w, n, A)
    PROVE  /\ row' \in [WorkIds -> RowType]
           /\ shown' \in [WorkIds -> SUBSET (1..Length)]
<1>1. row[w] \in RowType /\ row \in [WorkIds -> RowType]
  BY DEF TypeOK
<1>2. [status |-> row[w].status, step |-> n, assigned |-> A] \in RowType
  BY <1>1 DEF RowType
<1>3. row' \in [WorkIds -> RowType]
  BY <1>1, <1>2 DEF SetStep
<1>4. shown[w] \union {n} \in SUBSET (1..Length)
  BY DEF TypeOK
<1>5. shown' \in [WorkIds -> SUBSET (1..Length)]
  BY <1>4 DEF SetStep, TypeOK
<1> QED
  BY <1>3, <1>5

LEMMA DetailTypes ==
    ASSUME TypeOK, NEW w \in WorkIds,
           NEW what \in {"submit", "agree", "execute", "reject", "kill"},
           NEW who \in Users \union {None, "AutoTask Robot"},
           AddDetail(w, what, who)
    PROVE  trail' \in [WorkIds -> SUBSET DetailType]
<1>1. <<what, who>> \in DetailType
  BY DEF DetailType
<1> QED
  BY <1>1 DEF TypeOK, AddDetail

LEMMA BookType ==
    ASSUME TypeOK, NEW w \in WorkIds,
           NEW q \in Int, NEW r \in Int, NEW m \in Nat, NEW a \in Nat,
           juno[w].queued + q >= 0, juno[w].running + r >= 0,
           Book(w, q, r, m, a)
    PROVE  juno' \in [WorkIds -> JunoType]
<1>1. juno \in [WorkIds -> JunoType] /\ juno[w] \in JunoType
  BY DEF TypeOK
<1>2. [queued   |-> juno[w].queued + q,  running  |-> juno[w].running + r,
       by_hand  |-> juno[w].by_hand + m, by_robot |-> juno[w].by_robot + a]
          \in JunoType
  BY <1>1 DEF JunoType
<1> QED
  BY <1>1, <1>2 DEF Book

LEMMA CallType ==
    ASSUME TypeOK, NEW h \in Handlers, job[h].pc # "idle", NEW next \in Waiting,
           NEW w \in WorkIds,
           \/ CallExec(h, AcceptByHand(w), next)
           \/ CallExec(h, AcceptByRobot(w), next)
    PROVE  /\ juno' \in [WorkIds -> JunoType]
           /\ job' \in [Handlers -> JobType]
           /\ requests' \in 0..MaxRequests
           /\ restarts' \in 0..MaxRestarts
<1>1. Goto(h, next) \/ Reply(h)
  BY DEF CallExec
<1>2. Book(w, 1, 0, 1, 0) \/ Book(w, 1, 0, 0, 1) \/ UNCHANGED juno
  BY DEF CallExec, AcceptByHand, AcceptByRobot
<1>3. juno[w].queued \in Nat /\ juno[w].running \in Nat
  BY DEF TypeOK, JunoType
<1>4. juno' \in [WorkIds -> JunoType]
  <2>1. CASE Book(w, 1, 0, 1, 0)
    BY <2>1, <1>3, BookType
  <2>2. CASE Book(w, 1, 0, 0, 1)
    BY <2>2, <1>3, BookType
  <2>3. CASE UNCHANGED juno
    BY <2>3 DEF TypeOK
  <2> QED
    BY <1>2, <2>1, <2>2, <2>3
<1> QED
  BY <1>1, <1>4, GotoType, ReplyType

(***************************************************************************)
(* Type correctness, action by action.                                     *)
(***************************************************************************)
LEMMA RequestType ==
    ASSUME TypeOK, NEW h \in Handlers, Request(h)
    PROVE  TypeOK'
<1>1. PICK w \in WorkIds : \/ CreateOrder(h, w)
                           \/ \E u \in Users, s \in 1..Length : AgreeRequest(h, w, u, s)
                           \/ ButtonRequest(h, w)
                           \/ WithdrawRequest(h, w)
  BY DEF Request
<1>2. CASE CreateOrder(h, w)
  <2>1. Serve(h, "submitDetail", w, None, 0)
    BY <1>2 DEF CreateOrder
  <2>2. [status |-> "review", step |-> 1, assigned |-> Auditor[1]] \in RowType
    BY DEF RowType, Status
  <2>3. row' \in [WorkIds -> RowType] /\ shown' \in [WorkIds -> SUBSET (1..Length)]
    BY <1>2, <2>2 DEF CreateOrder, TypeOK
  <2> QED
    BY <1>2, <2>1, <2>3, ServeType DEF CreateOrder, TypeOK, Waiting
<1>3. ASSUME NEW u \in Users, NEW s \in 1..Length, AgreeRequest(h, w, u, s)
      PROVE  TypeOK'
  <2>1. s \in 1..LastStage
    BY <1>3 DEF AgreeRequest, isNotIdempotent
  <2>2. PICK pc \in Waiting : Serve(h, pc, w, u, s)
    BY <1>3 DEF AgreeRequest, Waiting
  <2>3. approved' \in [WorkIds -> SUBSET ApprovalType]
    <3>1. <<s, u, s \in shown[w]>> \in ApprovalType
      <4>1. (s \in shown[w]) \in BOOLEAN
        OBVIOUS
      <4> HIDE DEF Length
      <4> QED
        BY <2>1, <4>1, Zenon DEF ApprovalType
    <3>2. approved' = [approved EXCEPT ![w] = @ \union {<<s, u, s \in shown[w]>>}]
      BY <1>3 DEF AgreeRequest
    <3> QED
      BY <3>1, <3>2 DEF TypeOK
  <2> QED
    BY <1>3, <2>1, <2>2, <2>3, ServeType DEF AgreeRequest, TypeOK
<1>4. CASE ButtonRequest(h, w)
  <2>1. PICK pc \in Waiting : Serve(h, pc, w, None, 0)
    BY <1>4 DEF ButtonRequest, Waiting
  <2> QED
    BY <1>4, <2>1, ServeType DEF ButtonRequest, TypeOK
<1>5. CASE WithdrawRequest(h, w)
  BY <1>5, ServeType DEF WithdrawRequest, TypeOK, Waiting
<1> QED
  BY <1>1, <1>2, <1>3, <1>4, <1>5

LEMMA ContinueType ==
    ASSUME TypeOK, ApprovalsAccounted, NEW h \in Handlers, Continue(h)
    PROVE  TypeOK'
<1> DEFINE w == job[h].work
<1>1. job[h].pc # "idle"
  BY DEF Continue, At, SubmitDetail, RobotCall, RobotDetail, RobotStep,
     AdvanceStep, AgreeDetail, LoadOrder, CallEngine, ExecuteDetail,
     RejectStatus, RejectDetail, RejectReason, UndoStatus, KillDetail,
     KillStatus, WithdrawDelete
<1>2. /\ w \in WorkIds
      /\ job[h].user \in Users \union {None}
      /\ job[h].stage \in 0..LastStage
  BY <1>1, JobFields
<1>3. ASSUME NEW pc \in Waiting, Goto(h, pc) \/ Reply(h)
      PROVE  /\ job' \in [Handlers -> JobType]
             /\ requests' \in 0..MaxRequests
             /\ restarts' \in 0..MaxRestarts
  BY <1>1, <1>3, GotoType, ReplyType
<1>4. CASE SubmitDetail(h)
  BY <1>2, <1>3, <1>4, DetailTypes DEF SubmitDetail, TypeOK, Waiting
<1>5. CASE RobotCall(h)
  <2>1. CallExec(h, AcceptByRobot(w), "robotDetail")
    BY <1>5 DEF RobotCall
  <2> QED
    BY <1>1, <1>2, <1>5, <2>1, CallType DEF RobotCall, TypeOK, Waiting
<1>6. CASE RobotDetail(h)
  BY <1>2, <1>3, <1>6, DetailTypes DEF RobotDetail, TypeOK, Waiting
<1>7. CASE RobotStep(h)
  <2>1. SetStep(w, Length, row[w].assigned) /\ row[w].assigned \in SUBSET Users
    BY <1>2, <1>7 DEF RobotStep, TypeOK, RowType
  <2> QED
    BY <1>2, <1>7, <2>1, StepType, ReplyType DEF RobotStep, TypeOK
<1>8. CASE AdvanceStep(h)
  <2> DEFINE n == job[h].stage + 1
  <2>1. n \in 1..LastStage
    BY <1>8 DEF AdvanceStep, ApprovalsAccounted
  <2>2. n \in 1..Length /\ Auditor[n] \in SUBSET Users /\ SetStep(w, n, Auditor[n])
    BY <1>8, <2>1 DEF AdvanceStep
  <2> HIDE DEF n
  <2> QED
    BY <1>2, <1>3, <1>8, <2>2, StepType DEF AdvanceStep, TypeOK, Waiting
<1>9. CASE AgreeDetail(h)
  BY <1>2, <1>3, <1>9, DetailTypes DEF AgreeDetail, TypeOK, Waiting
<1>10. CASE LoadOrder(h)
  BY <1>3, <1>10 DEF LoadOrder, TypeOK, Waiting
<1>11. CASE CallEngine(h)
  <2>1. CallExec(h, AcceptByHand(w), "executeDetail")
    BY <1>11 DEF CallEngine
  <2> QED
    BY <1>1, <1>2, <1>11, <2>1, CallType DEF CallEngine, TypeOK, Waiting
<1>12. CASE ExecuteDetail(h)
  BY <1>2, <1>3, <1>12, DetailTypes DEF ExecuteDetail, TypeOK, Waiting
<1>13. CASE RejectStatus(h)
  BY <1>2, <1>3, <1>13, StatusType DEF RejectStatus, TypeOK, Waiting, Status
<1>14. CASE RejectDetail(h)
  BY <1>2, <1>3, <1>14, DetailTypes DEF RejectDetail, TypeOK, Waiting
<1>15. CASE RejectReason(h)
  BY <1>2, <1>15, ReplyType DEF RejectReason, TypeOK
<1>16. CASE UndoStatus(h)
  BY <1>2, <1>16, ReplyType, StatusType DEF UndoStatus, TypeOK, Status
<1>17. CASE KillDetail(h)
  BY <1>2, <1>3, <1>17, DetailTypes DEF KillDetail, TypeOK, Waiting
<1>18. CASE KillStatus(h)
  BY <1>18, ReplyType DEF KillStatus, TypeOK
<1>19. CASE WithdrawDelete(h)
  <2>1. NoRow("withdrawn") \in RowType
    BY DEF NoRow, RowType, Status, Missing
  <2>2. row' \in [WorkIds -> RowType]
    BY <1>19, <2>1 DEF WithdrawDelete, TypeOK
  <2> QED
    BY <1>19, <2>2, ReplyType DEF WithdrawDelete, TypeOK
<1> QED
  BY <1>4, <1>5, <1>6, <1>7, <1>8, <1>9, <1>10, <1>11, <1>12, <1>13, <1>14,
     <1>15, <1>16, <1>17, <1>18, <1>19 DEF Continue

LEMMA OutsideType ==
    ASSUME TypeOK,
           \/ \E w \in WorkIds : ScheduledChange(w) \/ SuperDelOrder(w) \/ Engine(w)
           \/ Restart
    PROVE  TypeOK'
<1>1. ASSUME NEW w \in WorkIds, ScheduledChange(w)
      PROVE  TypeOK'
  <2>1. juno[w].queued + (-1) >= 0 /\ juno[w].running + 0 >= 0
    BY <1>1 DEF ScheduledChange, TypeOK, JunoType
  <2>2. juno' \in [WorkIds -> JunoType]
    BY <1>1, <2>1, BookType DEF ScheduledChange
  <2> QED
    BY <1>1, <2>2 DEF ScheduledChange, TypeOK
<1>2. ASSUME NEW w \in WorkIds, SuperDelOrder(w)
      PROVE  TypeOK'
  <2>1. NoRow("deleted") \in RowType
    BY DEF NoRow, RowType, Status, Missing
  <2> QED
    BY <1>2, <2>1 DEF SuperDelOrder, TypeOK
<1>3. ASSUME NEW w \in WorkIds, EngineDelay(w)
      PROVE  TypeOK'
  BY <1>3, StatusType DEF EngineDelay, TypeOK, Status
<1>4. ASSUME NEW w \in WorkIds, EngineStart(w)
      PROVE  TypeOK'
  <2>1. juno[w].queued + (-1) >= 0 /\ juno[w].running + 1 >= 0
    BY <1>4 DEF EngineStart, TypeOK, JunoType
  <2>2. juno' \in [WorkIds -> JunoType]
    <3>1. Book(w, -1, 1, 0, 0)
      BY <1>4 DEF EngineStart
    <3> QED
      BY <2>1, <3>1, BookType
  <2> QED
    BY <1>4, <2>2, StatusType DEF EngineStart, TypeOK, Status
<1>5. ASSUME NEW w \in WorkIds, EngineFinish(w)
      PROVE  TypeOK'
  <2>1. juno[w].queued + 0 >= 0 /\ juno[w].running + (-1) >= 0
    BY <1>5 DEF EngineFinish, TypeOK, JunoType
  <2>2. juno' \in [WorkIds -> JunoType]
    <3>1. Book(w, 0, -1, 0, 0)
      BY <1>5 DEF EngineFinish
    <3> QED
      <4>1. 0 \in Nat /\ 0 \in Int /\ -1 \in Int
        OBVIOUS
      <4> HIDE OrderAssumption
      <4> QED
        BY <2>1, <3>1, <4>1, BookType
  <2> QED
    BY <1>5, <2>2, StatusType DEF EngineFinish, TypeOK, Status
<1>6. CASE Restart
  BY <1>6 DEF Restart, TypeOK, JobType
<1> QED
  BY <1>1, <1>2, <1>3, <1>4, <1>5, <1>6 DEF Engine

LEMMA TypeStep ==
    ASSUME TypeOK, ApprovalsAccounted, [Next]_vars
    PROVE  TypeOK'
<1>1. CASE UNCHANGED vars
  BY <1>1 DEF vars, TypeOK
<1> QED
  BY <1>1, RequestType, ContinueType, OutsideType DEF Next

(***************************************************************************)
(* Approvals.  Only AgreeRequest adds one and nothing takes one away, so a *)
(* step that moves no goroutine into the approved part of its code and     *)
(* shows no new stage keeps the books as they are.                         *)
(***************************************************************************)
LEMMA ContinueKeepsApprovals ==
    ASSUME NEW h \in Handlers, Continue(h)
    PROVE  approved' = approved
  BY DEF Continue, SubmitDetail, RobotCall, RobotDetail, RobotStep,
     AdvanceStep, AgreeDetail, LoadOrder, CallEngine, ExecuteDetail,
     RejectStatus, RejectDetail, RejectReason, UndoStatus, KillDetail,
     KillStatus, WithdrawDelete

LEMMA StageStaysApproved ==
    ASSUME NEW w \in WorkIds, NEW s \in Nat, StageApproved(w, s),
           approved[w] \subseteq approved'[w]
    PROVE  StageApproved(w, s)'
  BY DEF StageApproved, MayPass

LEMMA UpToStays ==
    ASSUME NEW w \in WorkIds, NEW s \in Nat, ApprovedUpTo(w, s),
           approved[w] \subseteq approved'[w]
    PROVE  ApprovedUpTo(w, s)'
<1>1. StageApproved(w, s)'
  BY StageStaysApproved DEF ApprovedUpTo
<1>2. OffPage(w) => OffPage(w)'
  BY DEF OffPage
<1>3. \A t \in 1..s : StageApproved(w, t) => StageApproved(w, t)'
  BY StageStaysApproved
<1> QED
  BY <1>1, <1>2, <1>3 DEF ApprovedUpTo

LEMMA ApprovalsSame ==
    ASSUME approved' = approved
    PROVE  /\ \A w, s : StageApproved(w, s)' <=> StageApproved(w, s)
           /\ \A w, s : ApprovedUpTo(w, s)' <=> ApprovedUpTo(w, s)
           /\ \A w : OffPage(w)' <=> OffPage(w)
  BY DEF StageApproved, MayPass, ApprovedUpTo, OffPage

LEMMA BooksKept ==
    ASSUME TypeOK, ApprovalsAccounted, NEW h \in Handlers,
           job'[h].pc \notin {"advance", "load", "call"},
           \A g \in Handlers \ {h} : job'[g] = job[g],
           approved' = approved, shown' = shown
    PROVE  ApprovalsAccounted'
  BY ApprovalsSame DEF ApprovalsAccounted, At

LEMMA ServeMoves ==
    ASSUME TypeOK, NEW h \in Handlers, NEW pc, NEW w, NEW u, NEW s,
           Serve(h, pc, w, u, s)
    PROVE  /\ job'[h].pc = pc /\ job'[h].work = w /\ job'[h].stage = s
           /\ \A g \in Handlers \ {h} : job'[g] = job[g]
<1>1. job'[h] = [pc |-> pc, work |-> w, user |-> u, stage |-> s]
  BY DEF Serve, TypeOK
<1>2. \A g \in Handlers \ {h} : job'[g] = job[g]
  BY DEF Serve, TypeOK
<1> QED
  BY <1>1, <1>2

LEMMA GotoMoves ==
    ASSUME TypeOK, NEW h \in Handlers, job[h].pc # "idle", NEW pc, Goto(h, pc)
    PROVE  /\ job'[h].pc = pc
           /\ job'[h].work = job[h].work
           /\ job'[h].stage = job[h].stage
           /\ \A g \in Handlers \ {h} : job'[g] = job[g]
<1>1. job[h] \in [pc : Waiting, work : WorkIds, user : Users \union {None},
                  stage : 0..LastStage]
  BY DEF TypeOK, JobType, Idle
<1>2. job'[h] = [job[h] EXCEPT !.pc = pc]
  BY DEF Goto, TypeOK
<1>3. \A g \in Handlers \ {h} : job'[g] = job[g]
  BY DEF Goto, TypeOK
<1> QED
  BY <1>1, <1>2, <1>3

LEMMA ReplyMoves ==
    ASSUME TypeOK, NEW h \in Handlers, Reply(h)
    PROVE  /\ job'[h].pc = "idle"
           /\ \A g \in Handlers \ {h} : job'[g] = job[g]
  BY DEF Reply, Idle, TypeOK

LEMMA RequestKeepsBooks ==
    ASSUME TypeOK, ApprovalsAccounted, NEW h \in Handlers, Request(h)
    PROVE  ApprovalsAccounted'
<1>1. PICK w \in WorkIds : \/ CreateOrder(h, w)
                           \/ \E u \in Users, s \in 1..Length : AgreeRequest(h, w, u, s)
                           \/ ButtonRequest(h, w)
                           \/ WithdrawRequest(h, w)
  BY DEF Request
<1>2. CASE CreateOrder(h, w)
  <2>1. /\ job'[h].pc = "submitDetail"
        /\ \A g \in Handlers \ {h} : job'[g] = job[g]
    BY <1>2, ServeMoves DEF CreateOrder
  <2>2. shown' = [shown EXCEPT ![w] = {1}] /\ approved' = approved
    BY <1>2 DEF CreateOrder
  <2>3. \A v \in WorkIds : OffPage(v) \/ \A f \in shown'[v] \ {Length} :
           \A s \in 1..(f - 1) : StageApproved(v, s)
    BY <2>2 DEF ApprovalsAccounted, TypeOK
  <2> QED
    BY <2>1, <2>2, <2>3, ApprovalsSame DEF ApprovalsAccounted, At
<1>3. ASSUME NEW u \in Users, NEW s \in 1..Length, AgreeRequest(h, w, u, s)
      PROVE  ApprovalsAccounted'
  <2>1. s \in 1..LastStage /\ s # Length /\ MayPass(u, s)
    BY <1>3 DEF AgreeRequest, isNotIdempotent
  <2>2. /\ shown' = shown
        /\ approved' = [approved EXCEPT ![w] = @ \union {<<s, u, s \in shown[w]>>}]
    BY <1>3 DEF AgreeRequest
  <2>3. \A v \in WorkIds : approved[v] \subseteq approved'[v]
    BY <2>2 DEF TypeOK
  <2>4. /\ \A v \in WorkIds, t \in Nat : StageApproved(v, t) => StageApproved(v, t)'
        /\ \A v \in WorkIds, t \in Nat : ApprovedUpTo(v, t) => ApprovedUpTo(v, t)'
        /\ \A v \in WorkIds : OffPage(v) => OffPage(v)'
    BY <2>3, StageStaysApproved, UpToStays DEF OffPage
  <2>5. <<s, u, s \in shown[w]>> \in approved'[w]
    BY <2>2 DEF TypeOK
  <2>6. ApprovedUpTo(w, s)'
    <3>1. StageApproved(w, s)'
      BY <2>1, <2>5 DEF StageApproved, MayPass
    <3>2. CASE s \in shown[w]
      <4>1. OffPage(w) \/ \A t \in 1..(s - 1) : StageApproved(w, t)
        BY <2>1, <3>2 DEF ApprovalsAccounted
      <4> QED
        BY <2>1, <2>4, <3>1, <4>1 DEF ApprovedUpTo
    <3>3. CASE s \notin shown[w]
      <4>1. OffPage(w)'
        BY <2>5, <3>3 DEF OffPage
      <4> QED
        BY <3>1, <4>1 DEF ApprovedUpTo
    <3> QED
      BY <3>2, <3>3
  <2>7. /\ job'[h].work = w /\ job'[h].stage = s
        /\ \/ job'[h].pc = "load" /\ s = LastStage
           \/ job'[h].pc = "advance" /\ s \in 1..(LastStage - 1)
        /\ \A g \in Handlers \ {h} : job'[g] = job[g]
    <3>1. CASE s = LastStage
      <4>1. Serve(h, "load", w, u, s)
        BY <1>3, <3>1 DEF AgreeRequest, IsExecute
      <4> QED
        BY <3>1, <4>1, ServeMoves
    <3>2. CASE s # LastStage
      <4>1. Serve(h, "advance", w, u, s) /\ s \in 1..(LastStage - 1)
        BY <1>3, <2>1, <3>2 DEF AgreeRequest, IsExecute
      <4> QED
        BY <4>1, ServeMoves
    <3> QED
      BY <3>1, <3>2
  <2>8. ASSUME NEW g \in Handlers, At(g, "advance")'
        PROVE  /\ job'[g].stage \in 1..(LastStage - 1)
               /\ ApprovedUpTo(job[g].work, job[g].stage)'
    <3>1. CASE g = h
      BY <2>6, <2>7, <2>8, <3>1 DEF At
    <3>2. CASE g # h
      <4>1. At(g, "advance") /\ job'[g] = job[g] /\ job[g].work \in WorkIds
        BY <2>7, <2>8, <3>2, JobFields DEF At
      <4> QED
        BY <2>4, <4>1 DEF ApprovalsAccounted
    <3> QED
      BY <3>1, <3>2
  <2>9. ASSUME NEW g \in Handlers, job'[g].pc \in {"load", "call"}
        PROVE  ApprovedUpTo(job[g].work, LastStage)'
    <3>1. CASE g = h
      BY <2>6, <2>7, <2>9, <3>1
    <3>2. CASE g # h
      <4>1. job'[g] = job[g] /\ job[g].work \in WorkIds
        BY <2>7, <2>9, <3>2, JobFields
      <4> QED
        BY <2>4, <2>9, <4>1 DEF ApprovalsAccounted
    <3> QED
      BY <3>1, <3>2
  <2>10. \A v \in WorkIds : OffPage(v)' \/ \A f \in shown'[v] \ {Length} :
            \A t \in 1..(f - 1) : StageApproved(v, t)'
    BY <2>2, <2>4 DEF ApprovalsAccounted, TypeOK
  <2> QED
    BY <2>8, <2>9, <2>10 DEF ApprovalsAccounted
<1>4. CASE ButtonRequest(h, w)
  <2>1. PICK pc \in {"reject", "undo", "killDetail"} : Serve(h, pc, w, None, 0)
    BY <1>4 DEF ButtonRequest
  <2>2. /\ job'[h].pc \notin {"advance", "load", "call"}
        /\ \A g \in Handlers \ {h} : job'[g] = job[g]
    BY <2>1, ServeMoves
  <2> QED
    BY <1>4, <2>2, BooksKept DEF ButtonRequest
<1>5. CASE WithdrawRequest(h, w)
  <2>1. /\ job'[h].pc \notin {"advance", "load", "call"}
        /\ \A g \in Handlers \ {h} : job'[g] = job[g]
    BY <1>5, ServeMoves DEF WithdrawRequest
  <2> QED
    BY <1>5, <2>1, BooksKept DEF WithdrawRequest
<1> QED
  BY <1>1, <1>2, <1>3, <1>4, <1>5

LEMMA ContinueKeepsBooks ==
    ASSUME TypeOK, ApprovalsAccounted, NEW h \in Handlers, Continue(h)
    PROVE  ApprovalsAccounted'
<1> DEFINE w == job[h].work
<1>1. job[h].pc # "idle"
  BY DEF Continue, At, SubmitDetail, RobotCall, RobotDetail, RobotStep,
     AdvanceStep, AgreeDetail, LoadOrder, CallEngine, ExecuteDetail,
     RejectStatus, RejectDetail, RejectReason, UndoStatus, KillDetail,
     KillStatus, WithdrawDelete
<1>2. w \in WorkIds /\ approved' = approved
  BY <1>1, JobFields, ContinueKeepsApprovals
<1>3. /\ \A v, s : StageApproved(v, s)' <=> StageApproved(v, s)
      /\ \A v, s : ApprovedUpTo(v, s)' <=> ApprovedUpTo(v, s)
      /\ \A v : OffPage(v)' <=> OffPage(v)
  BY <1>2, ApprovalsSame
<1>4. ASSUME shown' = shown,
             \/ Reply(h)
             \/ \E pc \in Waiting \ {"advance", "load", "call"} : Goto(h, pc)
      PROVE  ApprovalsAccounted'
  <2>1. /\ job'[h].pc \notin {"advance", "load", "call"}
        /\ \A g \in Handlers \ {h} : job'[g] = job[g]
    BY <1>1, <1>4, GotoMoves, ReplyMoves
  <2> QED
    BY <1>2, <1>4, <2>1, BooksKept
<1>5. ASSUME NEW n \in 1..Length, NEW A, SetStep(w, n, A),
             \/ n = Length \/ OffPage(w)
             \/ \A s \in 1..(n - 1) : StageApproved(w, s),
             job'[h].pc \notin {"advance", "load", "call"},
             \A g \in Handlers \ {h} : job'[g] = job[g]
      PROVE  ApprovalsAccounted'
  <2>1. \A v \in WorkIds : \A f \in shown'[v] \ {Length} :
           f \in shown[v] \/ (v = w /\ f = n)
    BY <1>2, <1>5 DEF SetStep, TypeOK
  <2>2. \A v \in WorkIds : OffPage(v) \/ \A f \in shown'[v] \ {Length} :
           \A s \in 1..(f - 1) : StageApproved(v, s)
    BY <1>5, <2>1 DEF ApprovalsAccounted
  <2> QED
    BY <1>3, <1>5, <2>2 DEF ApprovalsAccounted, At
<1>6. CASE RobotStep(h)
  <2>1. SetStep(w, Length, row[w].assigned) /\ Reply(h)
    BY <1>6 DEF RobotStep
  <2>2. Length \in 1..Length
    BY OrderAssumption DEF Length
  <2>3. /\ job'[h].pc \notin {"advance", "load", "call"}
        /\ \A g \in Handlers \ {h} : job'[g] = job[g]
    BY <2>1, ReplyMoves
  <2> HIDE OrderAssumption DEF Length
  <2> QED
    BY <1>5, <2>1, <2>2, <2>3
<1>7. CASE AdvanceStep(h)
  <2> DEFINE n == job[h].stage + 1
  <2>1. /\ n \in 1..Length
        /\ OffPage(w) \/ \A s \in 1..(n - 1) : StageApproved(w, s)
    BY <1>7 DEF AdvanceStep, ApprovalsAccounted, ApprovedUpTo
  <2>2. SetStep(w, n, Auditor[n]) /\ Goto(h, "agreeDetail")
    BY <1>7 DEF AdvanceStep
  <2>3. /\ job'[h].pc = "agreeDetail"
        /\ \A g \in Handlers \ {h} : job'[g] = job[g]
    BY <1>1, <2>2, GotoMoves
  <2> HIDE DEF n
  <2> QED
    BY <1>5, <2>1, <2>2, <2>3
<1>8. CASE LoadOrder(h)
  <2>1. CASE Goto(h, "call")
    <3>1. job[h].pc = "load" /\ shown' = shown
      BY <1>8 DEF LoadOrder, At
    <3>2. /\ job'[h].pc = "call" /\ job'[h].work = w
          /\ \A g \in Handlers \ {h} : job'[g] = job[g]
      BY <1>1, <2>1, GotoMoves
    <3>3. ApprovedUpTo(w, LastStage)
      BY <3>1 DEF ApprovalsAccounted
    <3>4. ApprovedUpTo(job'[h].work, LastStage)
      BY <3>2, <3>3
    <3> QED
      BY <1>3, <3>1, <3>2, <3>4 DEF ApprovalsAccounted, At
  <2>2. CASE Reply(h)
    BY <1>4, <1>8, <2>2 DEF LoadOrder
  <2> QED
    BY <1>8, <2>1, <2>2 DEF LoadOrder
<1>9. CASE RobotCall(h) \/ CallEngine(h)
  <2>1. shown' = shown
    BY <1>9 DEF RobotCall, CallEngine
  <2>2. Goto(h, "robotDetail") \/ Goto(h, "executeDetail") \/ Reply(h)
    BY <1>9 DEF RobotCall, CallEngine, CallExec
  <2> QED
    BY <1>4, <2>1, <2>2 DEF Waiting
<1>10. CASE \/ SubmitDetail(h) \/ RobotDetail(h) \/ AgreeDetail(h)
            \/ ExecuteDetail(h) \/ RejectStatus(h) \/ RejectDetail(h)
            \/ RejectReason(h) \/ UndoStatus(h) \/ KillDetail(h)
            \/ KillStatus(h) \/ WithdrawDelete(h)
  <2>1. shown' = shown
    BY <1>10 DEF SubmitDetail, RobotDetail, AgreeDetail, ExecuteDetail,
       RejectStatus, RejectDetail, RejectReason, UndoStatus, KillDetail,
       KillStatus, WithdrawDelete
  <2>2. \/ Reply(h)
        \/ \E pc \in {"robotCall", "robotStep", "rejectDetail", "rejectReason",
                      "killStatus"} : Goto(h, pc)
    BY <1>10 DEF SubmitDetail, RobotDetail, AgreeDetail, ExecuteDetail,
       RejectStatus, RejectDetail, RejectReason, UndoStatus, KillDetail,
       KillStatus, WithdrawDelete
  <2> QED
    BY <1>4, <2>1, <2>2 DEF Waiting
<1> QED
  BY <1>6, <1>7, <1>8, <1>9, <1>10 DEF Continue

LEMMA OutsideKeepsBooks ==
    ASSUME TypeOK, ApprovalsAccounted,
           \/ \E w \in WorkIds : ScheduledChange(w) \/ SuperDelOrder(w) \/ Engine(w)
           \/ Restart
    PROVE  ApprovalsAccounted'
<1>1. /\ shown' = shown /\ approved' = approved
      /\ job' = job \/ job' = [h \in Handlers |-> Idle]
  BY DEF ScheduledChange, SuperDelOrder, Engine, EngineDelay, EngineStart,
     EngineFinish, Restart
<1> QED
  BY <1>1, ApprovalsSame DEF ApprovalsAccounted, At, Idle

LEMMA BooksStep ==
    ASSUME TypeOK, ApprovalsAccounted, [Next]_vars
    PROVE  ApprovalsAccounted'
<1>1. CASE UNCHANGED vars
  BY <1>1, ApprovalsSame DEF vars, ApprovalsAccounted, At
<1> QED
  BY <1>1, RequestKeepsBooks, ContinueKeepsBooks, OutsideKeepsBooks DEF Next

(***************************************************************************)
(* The engine's book of jobs accepted by hand grows at one place only, the *)
(* call of a goroutine whose order ApprovalsAccounted says is approved.    *)
(***************************************************************************)
LEMMA BookByHand ==
    ASSUME TypeOK, NEW w \in WorkIds, NEW q, NEW r, NEW m \in Nat, NEW a,
           Book(w, q, r, m, a)
    PROVE  \A v \in WorkIds :
              juno'[v].by_hand = IF v = w THEN juno[v].by_hand + m
                                          ELSE juno[v].by_hand
  BY DEF Book, TypeOK

LEMMA HandsOnlyApproved ==
    ASSUME TypeOK, ApprovalsAccounted, [Next]_vars, NEW w \in WorkIds,
           juno'[w].by_hand # juno[w].by_hand
    PROVE  ApprovedUpTo(w, LastStage)
<1>0. juno[w].by_hand \in Nat
  BY DEF TypeOK, JunoType
<1>1. juno' # juno
  OBVIOUS
<1>2. ASSUME NEW v \in WorkIds, ScheduledChange(v) \/ SuperDelOrder(v) \/ Engine(v)
      PROVE  FALSE
  <2>1. PICK q \in {0, -1}, r \in {0, 1, -1} : Book(v, q, r, 0, 0)
    BY <1>1, <1>2 DEF ScheduledChange, SuperDelOrder, Engine, EngineDelay,
       EngineStart, EngineFinish
  <2>2. juno'[w].by_hand = IF w = v THEN juno[w].by_hand + 0 ELSE juno[w].by_hand
    BY <2>1, BookByHand
  <2> QED
    BY <1>0, <2>2
<1>3. ASSUME NEW h \in Handlers, Request(h) \/ Continue(h)
      PROVE  RobotCall(h) \/ CallEngine(h)
  BY <1>1, <1>3 DEF Request, CreateOrder, AgreeRequest, ButtonRequest,
     WithdrawRequest, Continue, SubmitDetail, RobotDetail, RobotStep,
     AdvanceStep, AgreeDetail, LoadOrder, ExecuteDetail, RejectStatus,
     RejectDetail, RejectReason, UndoStatus, KillDetail, KillStatus,
     WithdrawDelete
<1>4. ASSUME NEW h \in Handlers, RobotCall(h)
      PROVE  FALSE
  <2>1. job[h].work \in WorkIds
    BY <1>4, JobFields DEF RobotCall, At
  <2>2. Book(job[h].work, 1, 0, 0, 1)
    BY <1>1, <1>4 DEF RobotCall, CallExec, AcceptByRobot
  <2>3. juno'[w].by_hand = IF w = job[h].work THEN juno[w].by_hand + 0
                                              ELSE juno[w].by_hand
    BY <2>1, <2>2, BookByHand
  <2> QED
    BY <1>0, <2>3
<1>5. ASSUME NEW h \in Handlers, CallEngine(h)
      PROVE  ApprovedUpTo(w, LastStage)
  <2>1. job[h].pc = "call" /\ job[h].work \in WorkIds
    BY <1>5, JobFields DEF CallEngine, At
  <2>2. Book(job[h].work, 1, 0, 1, 0)
    BY <1>1, <1>5 DEF CallEngine, CallExec, AcceptByHand
  <2>3. job[h].work = w
    BY <1>0, <2>1, <2>2, BookByHand
  <2> QED
    BY <2>1, <2>3 DEF ApprovalsAccounted
<1> QED
  BY <1>1, <1>2, <1>3, <1>4, <1>5 DEF Next, Restart, vars

LEMMA ApprovalsStay ==
    ASSUME TypeOK, [Next]_vars, NEW w \in WorkIds
    PROVE  approved[w] \subseteq approved'[w]
<1>1. ASSUME NEW h \in Handlers, NEW v \in WorkIds, NEW u, NEW s,
             AgreeRequest(h, v, u, s)
      PROVE  approved[w] \subseteq approved'[w]
  BY <1>1 DEF AgreeRequest, TypeOK
<1> QED
  BY <1>1, ContinueKeepsApprovals
  DEF Next, Request, CreateOrder, ButtonRequest, WithdrawRequest,
      ScheduledChange, SuperDelOrder, Engine, EngineDelay, EngineStart,
      EngineFinish, Restart, vars

LEMMA ApprovedStep ==
    ASSUME TypeOK, ApprovalsAccounted, HandOversApproved, [Next]_vars
    PROVE  HandOversApproved'
<1> SUFFICES ASSUME NEW w \in WorkIds, juno'[w].by_hand > 0
             PROVE  ApprovedUpTo(w, LastStage)'
  BY DEF HandOversApproved
<1>1. ApprovedUpTo(w, LastStage)
  <2>1. CASE juno'[w].by_hand = juno[w].by_hand
    BY <2>1 DEF HandOversApproved
  <2>2. CASE juno'[w].by_hand # juno[w].by_hand
    BY <2>2, HandsOnlyApproved
  <2> QED
    BY <2>1, <2>2
<1> QED
  BY <1>1, ApprovalsStay, UpToStays

(***************************************************************************)
(* current_step and assigned: the statements that write the one write the  *)
(* other with it, and a status change leaves both alone.                   *)
(***************************************************************************)
LEMMA StatusKeepsAuditors ==
    ASSUME TypeOK, AssignedMatchesStep,
           NEW w \in WorkIds, NEW st \in Status, SetStatus(w, st)
    PROVE  AssignedMatchesStep'
<1>1. row \in [WorkIds -> RowType]
  BY DEF TypeOK
<1>2. ASSUME NEW v \in WorkIds, Exists(v)'
      PROVE  /\ Exists(v)
             /\ row'[v].step = row[v].step
             /\ row'[v].assigned = row[v].assigned
  BY <1>1, <1>2 DEF SetStatus, Exists, RowType
<1> QED
  BY <1>2 DEF AssignedMatchesStep

LEMMA StepKeepsAuditors ==
    ASSUME TypeOK, AssignedMatchesStep, NEW w \in WorkIds, NEW n \in 1..Length,
           NEW A, SetStep(w, n, A), n # Length => A = Auditor[n]
    PROVE  AssignedMatchesStep'
<1>1. ASSUME NEW v \in WorkIds, Exists(v)'
      PROVE  /\ Exists(v)
             /\ \/ row'[v] = row[v]
                \/ row'[v].step = n /\ row'[v].assigned = A
  BY <1>1 DEF SetStep, Exists, TypeOK
<1> QED
  BY <1>1 DEF AssignedMatchesStep

LEMMA GoneKeepsAuditors ==
    ASSUME TypeOK, AssignedMatchesStep, NEW w \in WorkIds, NEW st \in Missing,
           row' \in {row, [row EXCEPT ![w] = NoRow(st)]}
    PROVE  AssignedMatchesStep'
<1>1. NoRow(st).status \in Missing
  BY DEF NoRow
<1>2. ASSUME NEW v \in WorkIds, Exists(v)'
      PROVE  Exists(v) /\ row'[v] = row[v]
  <2>1. CASE row' = row
    BY <1>2, <2>1 DEF Exists
  <2>2. CASE row' = [row EXCEPT ![w] = NoRow(st)]
    <3>1. row'[v] = IF v = w THEN NoRow(st) ELSE row[v]
      BY <2>2 DEF TypeOK
    <3> QED
      BY <1>1, <1>2, <3>1 DEF Exists
  <2> QED
    BY <2>1, <2>2
<1> QED
  BY <1>2 DEF AssignedMatchesStep

LEMMA AuditorsStep ==
    ASSUME TypeOK, ApprovalsAccounted, AssignedMatchesStep, [Next]_vars
    PROVE  AssignedMatchesStep'
<1>1. CASE row' = row
  BY <1>1 DEF AssignedMatchesStep, Exists
<1>2. ASSUME NEW h \in Handlers, Request(h), row' # row
      PROVE  AssignedMatchesStep'
  <2>1. PICK w \in WorkIds : CreateOrder(h, w)
    BY <1>2 DEF Request, AgreeRequest, ButtonRequest, WithdrawRequest
  <2> QED
    BY <2>1 DEF CreateOrder, TypeOK, AssignedMatchesStep, Exists
<1>3. ASSUME NEW h \in Handlers, Continue(h), row' # row
      PROVE  AssignedMatchesStep'
  <2>1. \/ RobotStep(h) \/ AdvanceStep(h) \/ RejectStatus(h) \/ UndoStatus(h)
        \/ WithdrawDelete(h)
    BY <1>3 DEF Continue, SubmitDetail, RobotCall, RobotDetail, AgreeDetail,
       LoadOrder, CallEngine, ExecuteDetail, RejectDetail, RejectReason,
       KillDetail, KillStatus
  <2>2. job[h].work \in WorkIds /\ job[h].stage \in 0..LastStage
    BY <2>1, JobFields DEF RobotStep, AdvanceStep, RejectStatus, UndoStatus,
       WithdrawDelete, At
  <2>3. CASE RobotStep(h)
    <3>1. Length \in 1..Length
      BY OrderAssumption DEF Length
    <3>2. SetStep(job[h].work, Length, row[job[h].work].assigned)
      BY <2>3 DEF RobotStep
    <3> HIDE OrderAssumption DEF Length
    <3> QED
      BY <2>2, <3>1, <3>2, StepKeepsAuditors
  <2>4. CASE AdvanceStep(h)
    <3> DEFINE n == job[h].stage + 1
    <3>1. n \in 1..Length /\ SetStep(job[h].work, n, Auditor[n])
      BY <2>2, <2>4 DEF AdvanceStep
    <3> HIDE DEF n
    <3> QED
      BY <2>2, <3>1, StepKeepsAuditors
  <2>5. CASE RejectStatus(h) \/ UndoStatus(h)
    BY <2>2, <2>5, StatusKeepsAuditors DEF RejectStatus, UndoStatus, Status
  <2>6. CASE WithdrawDelete(h)
    BY <2>2, <2>6, GoneKeepsAuditors DEF WithdrawDelete, Missing
  <2> QED
    BY <2>1, <2>3, <2>4, <2>5, <2>6
<1>4. ASSUME NEW w \in WorkIds, ScheduledChange(w) \/ SuperDelOrder(w) \/ Engine(w),
             row' # row
      PROVE  AssignedMatchesStep'
  <2>1. CASE SuperDelOrder(w)
    BY <2>1, GoneKeepsAuditors DEF SuperDelOrder, Missing
  <2>2. CASE ~SuperDelOrder(w)
    <3>1. \E st \in Status : SetStatus(w, st)
      BY <1>4, <2>2 DEF ScheduledChange, Engine, EngineDelay, EngineStart,
         EngineFinish, Status
    <3> QED
      BY <3>1, StatusKeepsAuditors
  <2> QED
    BY <2>1, <2>2
<1> QED
  BY <1>1, <1>2, <1>3, <1>4 DEF Next, Restart, vars

-----------------------------------------------------------------------------
(***************************************************************************)
(* The inductive invariant and what follows from it.  ApprovalsAccounted   *)
(* is the strengthening: TypeOK needs it for AdvanceStep, which reads      *)
(* Auditor[stage + 1], and HandOversApproved for CallEngine.          *)
(***************************************************************************)
Inv == TypeOK /\ ApprovalsAccounted /\ HandOversApproved /\ AssignedMatchesStep

LEMMA InvInit == Init => Inv
<1> SUFFICES ASSUME Init PROVE Inv
  OBVIOUS
<1>1. TypeOK
  BY TypeInit
<1>2. ApprovalsAccounted
  BY DEF Init, ApprovalsAccounted, At, Idle
<1>3. HandOversApproved
  BY DEF Init, HandOversApproved, NoJobs
<1>4. AssignedMatchesStep
  BY DEF Init, AssignedMatchesStep, Exists, NoRow, Missing
<1> QED
  BY <1>1, <1>2, <1>3, <1>4 DEF Inv

\* The invariant holds in every state of every behaviour of the handlers.
THEOREM Invariance == Spec => []Inv
<1>1. Inv /\ [Next]_vars => Inv'
  BY TypeStep, BooksStep, ApprovedStep, AuditorsStep DEF Inv
<1> QED
  BY <1>1, InvInit, PTL DEF Spec

\* Every variable keeps its type: no goroutine that MultiAuditOrder let through
\* indexes the template past its last stage, and the engine's books never go
\* below zero.
THEOREM TypeCorrect == Spec => []TypeOK
<1>1. Inv => TypeOK
  BY DEF Inv
<1> QED
  BY <1>1, Invariance, PTL

\* ExecuteOrder hands an order to the engine only when somebody accepted at its
\* last stage has approved it there and, as long as its requests carry stages
\* its pages have shown, at every stage before: for any template and any number
\* of late pages, concurrent requests and restarts.
THEOREM HandedAfterApproval == Spec => []HandOversApproved
<1>1. Inv => HandOversApproved
  BY DEF Inv
<1> QED
  BY <1>1, Invariance, PTL

\* The accounts that an order lists as its auditors are those of its stage.
THEOREM AuditorsOfTheStage == Spec => []AssignedMatchesStep
<1>1. Inv => AssignedMatchesStep
  BY DEF Inv
<1> QED
  BY <1>1, Invariance, PTL

\* A goroutine past the check of MultiAuditOrder, and a page that shows a later stage,
\* each stand for the approval of all the stages before.
THEOREM ApprovalsBehind == Spec => []ApprovalsAccounted
<1>1. Inv => ApprovalsAccounted
  BY DEF Inv
<1> QED
  BY <1>1, Invariance, PTL

-----------------------------------------------------------------------------
(***************************************************************************)
(* Withdrawal.  FetchUndo never takes away an order that the engine is     *)
(* running, though it looks at the status and deletes the row in two       *)
(* statements.                                                             *)
(***************************************************************************)

(***************************************************************************)
(* The inductive invariant.  An order in review has no running job, since  *)
(* the engine writes "executing" when it starts one and nothing leads back *)
(* to review; and that is so from the start because nothing at all refers  *)
(* to a work id that has not been posted.                                  *)
(***************************************************************************)
Untouched(w) ==
    /\ shown[w] = {}
    /\ juno[w].queued = 0 /\ juno[w].running = 0
    /\ \A h \in Handlers : job[h].work # w

ReviewIsIdle ==
    \A w \in WorkIds :
        /\ row[w].status = "unposted" => Untouched(w)
        /\ row[w].status = "review"   => juno[w].running = 0

LEMMA StatusWritten ==
    ASSUME TypeOK, NEW w \in WorkIds, NEW st \in Status, SetStatus(w, st)
    PROVE  \A v \in WorkIds :
              row'[v].status = IF v = w /\ Exists(w) THEN st ELSE row[v].status
<1>1. row \in [WorkIds -> RowType]
  BY DEF TypeOK
<1> QED
  BY <1>1 DEF SetStatus, RowType

LEMMA StepWritten ==
    ASSUME TypeOK, NEW w \in WorkIds, NEW n, NEW A, SetStep(w, n, A)
    PROVE  /\ \A v \in WorkIds : row'[v].status = row[v].status
           /\ \A v \in WorkIds \ {w} : shown'[v] = shown[v]
  BY DEF SetStep, TypeOK

LEMMA RunningKept ==
    ASSUME TypeOK, NEW w \in WorkIds, NEW m \in Nat, NEW a \in Nat,
           Book(w, 1, 0, m, a)
    PROVE  /\ \A v \in WorkIds \ {w} : juno'[v] = juno[v]
           /\ juno'[w].running = juno[w].running
<1>1. juno \in [WorkIds -> JunoType] /\ juno[w] \in JunoType
  BY DEF TypeOK
<1> QED
  BY <1>1 DEF Book, JunoType

\* What a goroutine's step leaves alone.
LEMMA ContinueWrites ==
    ASSUME TypeOK, NEW h \in Handlers, Continue(h)
    PROVE  LET w == job[h].work IN
           /\ w \in WorkIds
           /\ \A v \in WorkIds : row'[v].status \in
                 {row[v].status, "rejected", "undone", "withdrawn"}
           /\ \A v \in WorkIds : row'[v].status = "withdrawn"
                 => row[v].status \in {"withdrawn", "review"}
           /\ \A v \in WorkIds \ {w} : /\ row'[v].status = row[v].status
                                       /\ shown'[v] = shown[v] /\ juno'[v] = juno[v]
           /\ juno'[w].running = juno[w].running
           /\ job'[h].work \in {w, None}
           /\ \A g \in Handlers \ {h} : job'[g] = job[g]
<1> DEFINE w == job[h].work
<1>1. job[h].pc # "idle"
  BY DEF Continue, At, SubmitDetail, RobotCall, RobotDetail, RobotStep,
     AdvanceStep, AgreeDetail, LoadOrder, CallEngine, ExecuteDetail,
     RejectStatus, RejectDetail, RejectReason, UndoStatus, KillDetail,
     KillStatus, WithdrawDelete
<1>2. w \in WorkIds
  BY <1>1, JobFields
<1>3. /\ job'[h].work \in {w, None}
      /\ \A g \in Handlers \ {h} : job'[g] = job[g]
  <2>1. (\E pc : Goto(h, pc)) \/ Reply(h)
    BY DEF Continue, CallExec, SubmitDetail, RobotCall, RobotDetail, RobotStep,
       AdvanceStep, AgreeDetail, LoadOrder, CallEngine, ExecuteDetail,
       RejectStatus, RejectDetail, RejectReason, UndoStatus, KillDetail,
       KillStatus, WithdrawDelete
  <2>2. CASE \E pc : Goto(h, pc)
    BY <1>1, <2>2, GotoMoves
  <2>3. CASE Reply(h)
    BY <2>3 DEF Reply, Idle, TypeOK
  <2> QED
    BY <2>1, <2>2, <2>3
<1> HIDE DEF w
<1>4. /\ \A v \in WorkIds \ {w} : juno'[v] = juno[v]
      /\ juno'[w].running = juno[w].running
  <2>1. CASE juno' = juno
    BY <2>1
  <2>2. CASE juno' # juno
    <3>1. Book(w, 1, 0, 1, 0) \/ Book(w, 1, 0, 0, 1)
      BY <2>2 DEF Continue, CallExec, AcceptByHand, AcceptByRobot, SubmitDetail,
         RobotCall, RobotDetail, RobotStep, AdvanceStep, AgreeDetail, LoadOrder,
         CallEngine, ExecuteDetail, RejectStatus, RejectDetail, RejectReason,
         UndoStatus, KillDetail, KillStatus, WithdrawDelete, w
    <3> QED
      BY <1>2, <3>1, RunningKept
  <2> QED
    BY <2>1, <2>2
<1>5. \A v \in WorkIds \ {w} : shown'[v] = shown[v]
  <2>1. CASE shown' = shown
    BY <2>1
  <2>2. CASE shown' # shown
    <3>1. \E n, A : SetStep(w, n, A)
      BY <2>2 DEF Continue, SubmitDetail, RobotCall, RobotDetail, RobotStep,
         AdvanceStep, AgreeDetail, LoadOrder, CallEngine, ExecuteDetail,
         RejectStatus, RejectDetail, RejectReason, UndoStatus, KillDetail,
         KillStatus, WithdrawDelete, w
    <3> QED
      BY <1>2, <3>1, StepWritten
  <2> QED
    BY <2>1, <2>2
<1>6. /\ \A v \in WorkIds : row'[v].status \in
            {row[v].status, "rejected", "undone", "withdrawn"}
      /\ \A v \in WorkIds : row'[v].status = "withdrawn"
            => row[v].status \in {"withdrawn", "review"}
      /\ \A v \in WorkIds \ {w} : row'[v].status = row[v].status
  <2>1. \/ row' = row
        \/ \E n, A : SetStep(w, n, A)
        \/ SetStatus(w, "rejected") \/ SetStatus(w, "undone")
        \/ WithdrawDelete(h)
    BY DEF Continue, SubmitDetail, RobotCall, RobotDetail, RobotStep,
       AdvanceStep, AgreeDetail, LoadOrder, CallEngine, ExecuteDetail,
       RejectStatus, RejectDetail, RejectReason, UndoStatus, KillDetail,
       KillStatus, w
  <2>2. CASE row' = row
    BY <2>2
  <2>3. CASE \E n, A : SetStep(w, n, A)
    BY <1>2, <2>3, StepWritten
  <2>4. CASE SetStatus(w, "rejected") \/ SetStatus(w, "undone")
    <3>1. "rejected" \in Status /\ "undone" \in Status
      BY DEF Status
    <3> QED
      BY <1>2, <2>4, <3>1, StatusWritten
  <2>5. CASE WithdrawDelete(h)
    <3>1. CASE row[w].status = "review"
      <4>1. row' = [row EXCEPT ![w] = NoRow("withdrawn")]
        BY <2>5, <3>1 DEF WithdrawDelete, w
      <4> QED
        BY <1>2, <3>1, <4>1 DEF NoRow, TypeOK
    <3>2. CASE row[w].status # "review"
      BY <2>5, <3>2 DEF WithdrawDelete, w
    <3> QED
      BY <3>1, <3>2
  <2> QED
    BY <2>1, <2>2, <2>3, <2>4, <2>5
<1> QED
  BY <1>2, <1>3, <1>4, <1>5, <1>6 DEF w

LEMMA ContinueIdle ==
    ASSUME TypeOK, ReviewIsIdle, NEW h \in Handlers, Continue(h)
    PROVE  ReviewIsIdle'
<1> DEFINE w == job[h].work
<1>1. /\ w \in WorkIds /\ row[w].status # "unposted"
      /\ None \notin WorkIds
  <2>1. w \in WorkIds
    BY ContinueWrites
  <2> QED
    BY <2>1, OrderAssumption DEF ReviewIsIdle, Untouched
<1>2. ASSUME NEW v \in WorkIds, row'[v].status = "unposted"
      PROVE  Untouched(v)'
  <2>1. v # w /\ row[v].status = "unposted"
    BY <1>1, <1>2, ContinueWrites
  <2>2. /\ Untouched(v)
        /\ shown'[v] = shown[v] /\ juno'[v] = juno[v]
        /\ job'[h].work # v
        /\ \A g \in Handlers \ {h} : job'[g] = job[g]
    BY <1>1, <2>1, ContinueWrites DEF ReviewIsIdle
  <2> QED
    BY <2>2 DEF Untouched
<1>3. ASSUME NEW v \in WorkIds, row'[v].status = "review"
      PROVE  juno'[v].running = 0
  <2>1. row[v].status = "review" /\ juno'[v].running = juno[v].running
    BY <1>3, ContinueWrites
  <2> QED
    BY <2>1 DEF ReviewIsIdle
<1> QED
  BY <1>2, <1>3 DEF ReviewIsIdle

LEMMA RequestIdle ==
    ASSUME TypeOK, ReviewIsIdle, NEW h \in Handlers, Request(h)
    PROVE  ReviewIsIdle'
<1>1. PICK w \in WorkIds : \/ CreateOrder(h, w)
                           \/ \E u \in Users, s \in 1..Length : AgreeRequest(h, w, u, s)
                           \/ ButtonRequest(h, w)
                           \/ WithdrawRequest(h, w)
  BY DEF Request
<1>2. \E pc, u, s : Serve(h, pc, w, u, s)
  BY <1>1 DEF CreateOrder, AgreeRequest, ButtonRequest, WithdrawRequest
<1>3. /\ job'[h].work = w
      /\ \A g \in Handlers \ {h} : job'[g] = job[g]
  BY <1>2, ServeMoves
<1>4. juno' = juno
  BY <1>1 DEF CreateOrder, AgreeRequest, ButtonRequest, WithdrawRequest
<1>5. CASE CreateOrder(h, w)
  <2>1. /\ row[w].status = "unposted" /\ row'[w].status = "review"
        /\ \A v \in WorkIds \ {w} : row'[v] = row[v] /\ shown'[v] = shown[v]
    BY <1>5 DEF CreateOrder, TypeOK
  <2> QED
    BY <1>3, <1>4, <2>1 DEF ReviewIsIdle, Untouched
<1>6. CASE ~CreateOrder(h, w)
  <2>1. row' = row /\ shown' = shown
    BY <1>1, <1>6 DEF AgreeRequest, ButtonRequest, WithdrawRequest
  <2>2. row[w].status # "unposted"
    BY <1>1, <1>6 DEF AgreeRequest, ButtonRequest, WithdrawRequest,
       ReviewIsIdle, Untouched
  <2> QED
    BY <1>3, <1>4, <2>1, <2>2 DEF ReviewIsIdle, Untouched
<1> QED
  BY <1>5, <1>6

LEMMA OutsideIdle ==
    ASSUME TypeOK, ReviewIsIdle, NEW w \in WorkIds,
           ScheduledChange(w) \/ SuperDelOrder(w) \/ Engine(w)
    PROVE  ReviewIsIdle'
<1>1. /\ juno \in [WorkIds -> JunoType] /\ row \in [WorkIds -> RowType]
      /\ job' = job /\ shown' = shown
  BY DEF TypeOK, ScheduledChange, SuperDelOrder, Engine, EngineDelay,
     EngineStart, EngineFinish
<1>2. row[w].status # "unposted"
  BY <1>1 DEF ReviewIsIdle, Untouched, ScheduledChange, SuperDelOrder, Engine,
     EngineDelay, EngineStart, EngineFinish, Exists, Missing
<1>3. \A v \in WorkIds \ {w} : juno'[v] = juno[v] /\ row'[v].status = row[v].status
  BY <1>1 DEF ScheduledChange, SuperDelOrder, Engine, EngineDelay,
     EngineStart, EngineFinish, Book, SetStatus
<1>4. CASE ScheduledChange(w)
  <2>1. row' = row /\ juno'[w].running = juno[w].running + 0
    BY <1>1, <1>4 DEF ScheduledChange, Book
  <2>2. juno[w].running \in Nat
    BY <1>1 DEF JunoType
  <2>3. \A v \in WorkIds : juno'[v].running = juno[v].running
    BY <1>3, <2>1, <2>2
  <2>4. \A v \in WorkIds \ {w} : Untouched(v) => Untouched(v)'
    BY <1>1, <1>3 DEF Untouched
  <2>5. \A v \in WorkIds : row[v].status = "unposted" => v # w /\ Untouched(v)
    BY <1>2 DEF ReviewIsIdle
  <2>6. \A v \in WorkIds : row[v].status = "review" => juno'[v].running = 0
    BY <2>3 DEF ReviewIsIdle
  <2> QED
    BY <2>1, <2>4, <2>5, <2>6 DEF ReviewIsIdle
<1>5. CASE SuperDelOrder(w)
  <2>1. juno' = juno /\ row'[w].status = "deleted"
    BY <1>1, <1>5 DEF SuperDelOrder, NoRow
  <2> QED
    BY <1>1, <1>3, <2>1 DEF ReviewIsIdle, Untouched
<1>6. CASE Engine(w)
  <2>1. row'[w].status \notin {"unposted", "review"}
    <3>1. PICK st \in {"delayed", "executing", "executed", "failed"} : SetStatus(w, st)
      BY <1>6 DEF Engine, EngineDelay, EngineStart, EngineFinish
    <3>2. st \in Status
      BY DEF Status
    <3>3. row'[w].status = IF Exists(w) THEN st ELSE row[w].status
      BY <3>1, <3>2, StatusWritten
    <3> QED
      BY <1>2, <3>3 DEF Exists, Missing
  <2> QED
    BY <1>1, <1>3, <2>1 DEF ReviewIsIdle, Untouched
<1> QED
  BY <1>4, <1>5, <1>6

\* Between any two statements of the handlers and the engine, no order in review
\* is being run, and nothing refers to a work id that was never posted.
THEOREM ReviewIsNeverRunning == Spec => []ReviewIsIdle
<1>1. Init => ReviewIsIdle
  <2> SUFFICES ASSUME Init PROVE ReviewIsIdle
    OBVIOUS
  <2>1. /\ \A w \in WorkIds : /\ row[w].status = "unposted" /\ shown[w] = {}
                              /\ juno[w].queued = 0 /\ juno[w].running = 0
        /\ \A h \in Handlers : job[h].work = None
    BY DEF Init, Idle, NoRow, NoJobs
  <2> QED
    BY <2>1, OrderAssumption DEF ReviewIsIdle, Untouched
<1>2. TypeOK /\ ReviewIsIdle /\ [Next]_vars => ReviewIsIdle'
  <2> SUFFICES ASSUME TypeOK, ReviewIsIdle, [Next]_vars PROVE ReviewIsIdle'
    OBVIOUS
  <2>1. CASE UNCHANGED vars
    BY <2>1 DEF vars, ReviewIsIdle, Untouched
  <2>2. CASE Restart
    BY <2>2, OrderAssumption DEF Restart, Idle, ReviewIsIdle, Untouched
  <2> QED
    BY <2>1, <2>2, RequestIdle, ContinueIdle, OutsideIdle DEF Next
<1> QED
  BY <1>1, <1>2, TypeCorrect, PTL DEF Spec

\* FetchUndo deletes no order the engine runs: the status it read may have
\* changed by the time it deletes, but the DELETE asks for "review" again, and
\* an order in review is not running.
THEOREM WithdrawIsSafe == Spec => WithdrawSparesRunningOrder
<1>1. TypeOK /\ ReviewIsIdle /\ [Next]_vars
         => \A w \in WorkIds : Exists(w) /\ juno[w].running > 0
                                  => row'[w].status # "withdrawn"
  <2> SUFFICES ASSUME TypeOK, ReviewIsIdle, [Next]_vars, NEW w \in WorkIds,
                      Exists(w), juno[w].running > 0, row'[w].status = "withdrawn"
               PROVE  FALSE
    OBVIOUS
  <2>1. row[w].status \notin {"withdrawn", "review", "unposted"}
    BY DEF Exists, Missing, ReviewIsIdle
  <2>2. ASSUME NEW h \in Handlers, Continue(h)
        PROVE  FALSE
    BY <2>1, <2>2, ContinueWrites
  <2>3. ASSUME NEW h \in Handlers, Request(h)
        PROVE  FALSE
    BY <2>1, <2>3 DEF Request, CreateOrder, AgreeRequest, ButtonRequest,
       WithdrawRequest, TypeOK
  <2>4. ASSUME NEW v \in WorkIds, Engine(v)
        PROVE  FALSE
    <3>1. PICK st \in {"delayed", "executing", "executed", "failed"} : SetStatus(v, st)
      BY <2>4 DEF Engine, EngineDelay, EngineStart, EngineFinish
    <3>2. st \in Status
      BY DEF Status
    <3> QED
      BY <2>1, <3>1, <3>2, StatusWritten
  <2>5. ASSUME NEW v \in WorkIds, ScheduledChange(v) \/ SuperDelOrder(v)
        PROVE  FALSE
    BY <2>1, <2>5 DEF ScheduledChange, SuperDelOrder, NoRow, TypeOK
  <2>6. CASE UNCHANGED row
    BY <2>1, <2>6
  <2> QED
    BY <2>2, <2>3, <2>4, <2>5, <2>6 DEF Next, Restart, vars
<1> QED
  BY <1>1, TypeCorrect, ReviewIsNeverRunning, PTL DEF Spec, WithdrawSparesRunningOrder

-----------------------------------------------------------------------------
HIDE OrderAssumption DEF Length

(***************************************************************************)
(* OrderAudit implements OrderLifecycle.  First, what a change of rows,    *)
(* goroutines and books is under the mapping.                              *)
(***************************************************************************)
Phase(status) == CASE status = "unposted" -> "new"
                   [] status \in Open     -> "open"
                   [] OTHER               -> "closed"

PermitPc == {"submitDetail", "robotCall", "call"}

LEMMA PhaseOfRow == phase = [w \in WorkIds |-> Phase(row[w].status)]
  BY DEF phase, Phase

LEMMA StatusMoves ==
    ASSUME TypeOK, NEW w \in WorkIds, NEW st \in Status, SetStatus(w, st)
    PROVE  phase' = IF Exists(w) THEN [phase EXCEPT ![w] = Phase(st)] ELSE phase
<1>1. row \in [WorkIds -> RowType]
  BY DEF TypeOK
<1>2. ASSUME NEW v \in WorkIds
      PROVE  row'[v].status = IF Exists(w) /\ v = w THEN st ELSE row[v].status
  BY <1>1 DEF SetStatus, RowType
<1> QED
  BY <1>2 DEF phase, Phase

LEMMA RowMoves ==
    ASSUME TypeOK, NEW w \in WorkIds, NEW r, row' = [row EXCEPT ![w] = r]
    PROVE  phase' = [phase EXCEPT ![w] = Phase(r.status)]
<1>1. /\ phase  = [v \in WorkIds |-> Phase(row[v].status)]
      /\ phase' = [v \in WorkIds |-> Phase(row'[v].status)]
  BY DEF phase, Phase
<1>2. \A v \in WorkIds : row'[v] = IF v = w THEN r ELSE row[v]
  BY DEF TypeOK
<1> QED
  BY <1>1, <1>2

LEMMA StepMoves ==
    ASSUME TypeOK, NEW w \in WorkIds, NEW n, NEW A, SetStep(w, n, A)
    PROVE  phase' = phase
<1>1. \A v \in WorkIds : row'[v].status = row[v].status
  BY DEF SetStep, TypeOK
<1> QED
  BY <1>1 DEF phase

\* Who holds a permit for an order, before and after a step.
LEMMA PermitMembers ==
    /\ permits  = [v \in WorkIds |-> permits[v]]
    /\ permits' = [v \in WorkIds |-> permits'[v]]
    /\ \A v \in WorkIds :
          /\ permits[v] \subseteq Handlers /\ permits'[v] \subseteq Handlers
          /\ \A g \in Handlers :
                /\ g \in permits[v] <=> job[g].work = v /\ job[g].pc \in PermitPc
                /\ g \in permits'[v] <=> job'[g].work = v /\ job'[g].pc \in PermitPc
BY DEF permits, PermitPc

\* One goroutine moves: its permit, if it had one, is kept only by a pc that
\* carries a permit for the same order.
LEMMA JobMoves ==
    ASSUME TypeOK, NEW h \in Handlers, NEW w \in WorkIds, job[h].work = w,
           \A g \in Handlers \ {h} : job'[g] = job[g]
    PROVE  /\ job'[h].pc \notin PermitPc
                => permits' = [permits EXCEPT ![w] = @ \ {h}]
           /\ job'[h].pc \in PermitPc /\ job'[h].work = w
                => permits' = [permits EXCEPT ![w] = @ \union {h}]
           /\ (job'[h].pc \in PermitPc <=> job[h].pc \in PermitPc) /\ job'[h].work = w
                => permits' = permits
           /\ job'[h].pc \notin PermitPc /\ job[h].pc \notin PermitPc
                => permits' = permits
<1>1. \A v \in WorkIds :
         /\ permits[v] \subseteq Handlers /\ permits'[v] \subseteq Handlers
         /\ \A g \in Handlers :
               /\ g \in permits[v] <=> job[g].work = v /\ job[g].pc \in PermitPc
               /\ g \in permits'[v] <=> job'[g].work = v /\ job'[g].pc \in PermitPc
  BY PermitMembers
<1>2. /\ permits  = [v \in WorkIds |-> permits[v]]
      /\ permits' = [v \in WorkIds |-> permits'[v]]
  BY PermitMembers
<1>3. ASSUME job'[h].pc \notin PermitPc, NEW v \in WorkIds
      PROVE  permits'[v] = IF v = w THEN permits[v] \ {h} ELSE permits[v]
  <2>1. \A g \in Handlers :
           g \in permits'[v] <=> g \in permits[v] /\ ~(g = h /\ v = w)
    BY <1>1, <1>3
  <2>2. CASE v = w
    <3>1. \A g : g \in permits'[v] <=> g \in permits[v] \ {h}
      BY <1>1, <2>1, <2>2
    <3> QED
      BY <2>2, <3>1
  <2>3. CASE v # w
    <3>1. \A g \in Handlers : g \in permits'[v] <=> g \in permits[v]
      BY <2>1, <2>3
    <3>2. permits'[v] = permits[v]
      BY <1>1, <3>1
    <3> QED
      BY <2>3, <3>2
  <2> QED
    BY <2>2, <2>3
<1>4. ASSUME job'[h].pc \in PermitPc, job'[h].work = w, NEW v \in WorkIds
      PROVE  permits'[v] = IF v = w THEN permits[v] \union {h} ELSE permits[v]
  <2>1. \A g \in Handlers :
           g \in permits'[v] <=> g \in permits[v] \/ (g = h /\ v = w)
    BY <1>1, <1>4
  <2>2. CASE v = w
    <3>1. \A g : g \in permits'[v] <=> g \in permits[v] \union {h}
      BY <1>1, <2>1, <2>2
    <3> QED
      BY <2>2, <3>1
  <2>3. CASE v # w
    <3>1. \A g \in Handlers : g \in permits'[v] <=> g \in permits[v]
      BY <2>1, <2>3
    <3>2. permits'[v] = permits[v]
      BY <1>1, <3>1
    <3> QED
      BY <2>3, <3>2
  <2> QED
    BY <2>2, <2>3
<1>5. ASSUME \/ (job'[h].pc \in PermitPc <=> job[h].pc \in PermitPc) /\ job'[h].work = w
             \/ job'[h].pc \notin PermitPc /\ job[h].pc \notin PermitPc,
             NEW v \in WorkIds
      PROVE  permits'[v] = permits[v]
  <2>1. \A g \in Handlers : g \in permits'[v] <=> g \in permits[v]
    BY <1>1, <1>5
  <2> QED
    BY <1>1, <2>1
<1> QED
  BY <1>2, <1>3, <1>4, <1>5

\* A goroutine that was idle takes up an order.
LEMMA ServePermits ==
    ASSUME TypeOK, NEW h \in Handlers, NEW w \in WorkIds, job[h].pc = "idle",
           \A g \in Handlers \ {h} : job'[g] = job[g]
    PROVE  /\ job'[h].pc \notin PermitPc => permits' = permits
           /\ job'[h].pc \in PermitPc /\ job'[h].work = w
                => permits' = [permits EXCEPT ![w] = @ \union {h}]
<1>1. job[h].pc \notin PermitPc
  BY DEF PermitPc
<1>2. ASSUME job'[h].pc \notin PermitPc, NEW v \in WorkIds
      PROVE  permits'[v] = permits[v]
  <2>1. \A g \in Handlers : g \in permits'[v] <=> g \in permits[v]
    BY <1>1, <1>2, PermitMembers
  <2>2. permits[v] \subseteq Handlers /\ permits'[v] \subseteq Handlers
    BY PermitMembers
  <2> QED
    BY <2>1, <2>2
<1>3. ASSUME job'[h].pc \in PermitPc, job'[h].work = w, NEW v \in WorkIds
      PROVE  permits'[v] = IF v = w THEN permits[v] \union {h} ELSE permits[v]
  <2>1. \A g \in Handlers :
           g \in permits'[v] <=> g \in permits[v] \/ (g = h /\ v = w)
    BY <1>1, <1>3, PermitMembers
  <2>2. permits[v] \subseteq Handlers /\ permits'[v] \subseteq Handlers
    BY PermitMembers
  <2>3. CASE v = w
    <3>1. \A g : g \in permits'[v] <=> g \in permits[v] \union {h}
      BY <2>1, <2>2, <2>3
    <3> QED
      BY <2>3, <3>1
  <2>4. CASE v # w
    <3>1. \A g \in Handlers : g \in permits'[v] <=> g \in permits[v]
      BY <2>1, <2>4
    <3>2. permits'[v] = permits[v]
      BY <2>2, <3>1
    <3> QED
      BY <2>4, <3>2
  <2> QED
    BY <2>3, <2>4
<1> QED
  BY <1>2, <1>3, PermitMembers

LEMMA BookMoves ==
    ASSUME TypeOK, NEW w \in WorkIds, NEW q \in Int, NEW r \in Int,
           NEW m \in Nat, NEW a \in Nat, Book(w, q, r, m, a)
    PROVE  handed' = [handed EXCEPT ![w] = @ + (m + a)]
<1>1. juno \in [WorkIds -> JunoType]
  BY DEF TypeOK
<1>2. ASSUME NEW v \in WorkIds
      PROVE  juno'[v].by_hand + juno'[v].by_robot =
                IF v = w THEN (juno[v].by_hand + juno[v].by_robot) + (m + a)
                         ELSE juno[v].by_hand + juno[v].by_robot
  <2>1. juno[v] \in JunoType
    BY <1>1
  <2>2. CASE v = w
    <3>1. juno'[v] = [queued   |-> juno[v].queued + q,  running  |-> juno[v].running + r,
                      by_hand  |-> juno[v].by_hand + m, by_robot |-> juno[v].by_robot + a]
      BY <1>1, <2>2 DEF Book
    <3> QED
      BY <2>1, <2>2, <3>1 DEF JunoType
  <2>3. CASE v # w
    BY <1>1, <2>3 DEF Book
  <2> QED
    BY <2>2, <2>3
<1> QED
  BY <1>2 DEF handed

(***************************************************************************)
(* The engine holds no job that it was not given: without that, its status *)
(* "delayed" would open a closed order out of nothing.                     *)
(***************************************************************************)
JobsWereGiven ==
    \A w \in WorkIds : juno[w].queued + juno[w].running <= handed[w]

LEMMA BookGiven ==
    ASSUME TypeOK, JobsWereGiven, NEW w \in WorkIds, NEW q \in Int, NEW r \in Int,
           NEW m \in Nat, NEW a \in Nat, q + r <= m + a, Book(w, q, r, m, a)
    PROVE  JobsWereGiven'
<1>1. juno \in [WorkIds -> JunoType]
  BY DEF TypeOK
<1> SUFFICES ASSUME NEW v \in WorkIds
             PROVE  juno'[v].queued + juno'[v].running <= handed'[v]
  BY DEF JobsWereGiven
<1>2. juno[v] \in JunoType /\ juno[v].queued + juno[v].running <= handed[v]
  BY <1>1 DEF JobsWereGiven
<1>3. handed[v] \in Nat
  BY <1>2 DEF handed, JunoType
<1>4. CASE v = w
  <2>1. juno'[v].queued = juno[v].queued + q /\ juno'[v].running = juno[v].running + r
    BY <1>1, <1>4 DEF Book
  <2>2. handed' = [handed EXCEPT ![w] = @ + (m + a)]
    BY BookMoves
  <2>3. handed'[v] = handed[v] + (m + a)
    <3>1. DOMAIN handed = WorkIds
      BY DEF handed
    <3> QED
      BY <1>4, <2>2, <3>1
  <2> QED
    BY <1>2, <1>3, <2>1, <2>3 DEF JunoType
<1>5. CASE v # w
  <2>1. juno'[v] = juno[v]
    BY <1>1, <1>5 DEF Book
  <2> QED
    BY <1>2, <2>1 DEF handed
<1> QED
  BY <1>4, <1>5

LEMMA GivenStep ==
    ASSUME TypeOK, JobsWereGiven, [Next]_vars
    PROVE  JobsWereGiven'
<1>1. CASE juno' = juno
  BY <1>1 DEF JobsWereGiven, handed
<1>2. ASSUME NEW h \in Handlers, Request(h) \/ Continue(h), juno' # juno
      PROVE  JobsWereGiven'
  <2>1. RobotCall(h) \/ CallEngine(h)
    BY <1>2 DEF Request, CreateOrder, AgreeRequest, ButtonRequest,
       WithdrawRequest, Continue, SubmitDetail, RobotDetail, RobotStep,
       AdvanceStep, AgreeDetail, LoadOrder, ExecuteDetail, RejectStatus,
       RejectDetail, RejectReason, UndoStatus, KillDetail, KillStatus,
       WithdrawDelete
  <2>2. job[h].work \in WorkIds
    BY <2>1, JobFields DEF RobotCall, CallEngine, At
  <2>3. Book(job[h].work, 1, 0, 0, 1) \/ Book(job[h].work, 1, 0, 1, 0)
    BY <1>2, <2>1 DEF RobotCall, CallEngine, CallExec, AcceptByRobot, AcceptByHand
  <2> QED
    BY <2>2, <2>3, BookGiven
<1>3. ASSUME NEW w \in WorkIds, ScheduledChange(w) \/ SuperDelOrder(w) \/ Engine(w),
             juno' # juno
      PROVE  JobsWereGiven'
  <2>1. Book(w, -1, 0, 0, 0) \/ Book(w, -1, 1, 0, 0) \/ Book(w, 0, -1, 0, 0)
    BY <1>3 DEF ScheduledChange, SuperDelOrder, Engine, EngineDelay,
       EngineStart, EngineFinish
  <2> QED
    BY <2>1, BookGiven
<1> QED
  BY <1>1, <1>2, <1>3 DEF Next, Restart, vars
(***************************************************************************)
(* Every step of a handler, the engine or an administrator is a step of    *)
(* the lifecycle or changes nothing that the lifecycle knows.              *)
(***************************************************************************)
Stutter == UNCHANGED <<phase, permits, handed>>

LEMMA StatusCloses ==
    ASSUME TypeOK, NEW w \in WorkIds, NEW st \in Status \ (Open \union {"unposted"}),
           SetStatus(w, st), permits' = permits, handed' = handed
    PROVE  Stutter \/ Lifecycle!Close(w)
<1>1. phase' = IF Exists(w) THEN [phase EXCEPT ![w] = "closed"] ELSE phase
  BY StatusMoves DEF Phase
<1>2. phase \in [WorkIds -> {"new", "open", "closed"}]
  BY DEF phase
<1>3. Exists(w) => phase[w] \in {"open", "closed"}
  BY DEF phase, Exists, Missing
<1> QED
  BY <1>1, <1>2, <1>3 DEF Stutter, Lifecycle!Close

LEMMA GoneCloses ==
    ASSUME TypeOK, NEW w \in WorkIds, Exists(w),
           NEW st \in Missing \ {"unposted"}, row' = [row EXCEPT ![w] = NoRow(st)],
           permits' = permits, handed' = handed
    PROVE  Stutter \/ Lifecycle!Close(w)
<1>1. Phase(NoRow(st).status) = "closed"
  BY DEF Phase, NoRow, Missing, Open
<1>2. phase' = [phase EXCEPT ![w] = "closed"]
  BY <1>1, RowMoves
<1>3. phase \in [WorkIds -> {"new", "open", "closed"}]
  BY DEF phase
<1>4. phase[w] \in {"open", "closed"}
  BY DEF phase, Exists, Missing
<1> QED
  BY <1>2, <1>3, <1>4 DEF Stutter, Lifecycle!Close

LEMMA RequestMaps ==
    ASSUME TypeOK, NEW h \in Handlers, Request(h)
    PROVE  Stutter \/ \E w \in WorkIds : Lifecycle!Post(h, w)
<1>1. PICK w \in WorkIds : \/ CreateOrder(h, w)
                           \/ \E u \in Users, s \in 1..Length : AgreeRequest(h, w, u, s)
                           \/ ButtonRequest(h, w)
                           \/ WithdrawRequest(h, w)
  BY DEF Request
<1>2. handed' = handed
  BY <1>1 DEF CreateOrder, AgreeRequest, ButtonRequest, WithdrawRequest, handed
<1>3. CASE CreateOrder(h, w)
  <2>1. /\ job[h].pc = "idle"
        /\ job'[h].pc = "submitDetail" /\ job'[h].work = w
        /\ \A g \in Handlers \ {h} : job'[g] = job[g]
    BY <1>3, ServeMoves DEF CreateOrder, Serve
  <2>2. permits' = [permits EXCEPT ![w] = @ \union {h}]
    BY <2>1, ServePermits DEF PermitPc
  <2>3. phase[w] = "new"
    BY <1>3 DEF CreateOrder, phase, Open
  <2>4. phase' = [phase EXCEPT ![w] = "open"]
    <3> DEFINE posted == [status |-> "review", step |-> 1, assigned |-> Auditor[1]]
    <3>1. row' = [row EXCEPT ![w] = posted]
      BY <1>3 DEF CreateOrder
    <3>2. Phase(posted.status) = "open"
      BY DEF Phase, Open
    <3> QED
      BY <3>1, <3>2, RowMoves
  <2> QED
    BY <1>2, <2>2, <2>3, <2>4 DEF Lifecycle!Post
<1>4. ASSUME NEW pc \in Waiting \ PermitPc, NEW v \in WorkIds, NEW u, NEW s,
             Serve(h, pc, v, u, s), row' = row
      PROVE  Stutter
  <2>1. job[h].pc = "idle" /\ job'[h].pc = pc
        /\ \A g \in Handlers \ {h} : job'[g] = job[g]
    BY <1>4, ServeMoves DEF Serve
  <2>2. permits' = permits
    BY <2>1, ServePermits
  <2> QED
    BY <1>2, <1>4, <2>2 DEF Stutter, phase
<1>5. ASSUME NEW u \in Users, NEW s \in 1..Length, AgreeRequest(h, w, u, s)
      PROVE  Stutter
  <2>1. \E pc \in {"load", "advance"} : Serve(h, pc, w, u, s)
    BY <1>5 DEF AgreeRequest
  <2> QED
    BY <1>4, <1>5, <2>1 DEF AgreeRequest, Waiting, PermitPc
<1>6. CASE ButtonRequest(h, w)
  <2>1. \E pc \in {"reject", "undo", "killDetail"} : Serve(h, pc, w, None, 0)
    BY <1>6 DEF ButtonRequest
  <2> QED
    BY <1>4, <1>6, <2>1 DEF ButtonRequest, Waiting, PermitPc
<1>7. CASE WithdrawRequest(h, w)
  BY <1>4, <1>7 DEF WithdrawRequest, Waiting, PermitPc
<1> QED
  BY <1>1, <1>3, <1>5, <1>6, <1>7

LEMMA CallSpends ==
    ASSUME TypeOK, NEW h \in Handlers, job[h].pc \in PermitPc,
           NEW w \in WorkIds, w = job[h].work,
           NEW next \in Waiting \ PermitPc, UNCHANGED row,
           \/ CallExec(h, AcceptByHand(w), next)
           \/ CallExec(h, AcceptByRobot(w), next)
    PROVE  Lifecycle!Spend(h, w)
<1>1. /\ job'[h].pc \notin PermitPc
      /\ \A g \in Handlers \ {h} : job'[g] = job[g]
  <2>1. Goto(h, next) \/ Reply(h)
    BY DEF CallExec
  <2>2. "idle" \notin PermitPc
    BY DEF PermitPc
  <2> QED
    BY <2>1, <2>2, GotoMoves, ReplyMoves
<1>2. permits' = [permits EXCEPT ![w] = @ \ {h}]
  BY <1>1, JobMoves
<1>3. h \in permits[w]
  BY DEF permits, PermitPc
<1>4. handed' \in {handed, [handed EXCEPT ![w] = @ + 1]}
  <2>1. CASE UNCHANGED juno
    BY <2>1 DEF handed
  <2>2. CASE Book(w, 1, 0, 1, 0)
    BY <2>2, BookMoves
  <2>3. CASE Book(w, 1, 0, 0, 1)
    BY <2>3, BookMoves
  <2> QED
    BY <2>1, <2>2, <2>3 DEF CallExec, AcceptByHand, AcceptByRobot
<1>5. phase' = phase
  BY DEF phase
<1> QED
  BY <1>2, <1>3, <1>4, <1>5 DEF Lifecycle!Spend

\* A step that neither gives nor takes a permit.
LEMMA OrdinaryMoves ==
    ASSUME TypeOK, NEW h \in Handlers, job[h].pc \in Waiting \ PermitPc,
           NEW next \in Waiting \ PermitPc, Goto(h, next) \/ Reply(h)
    PROVE  permits' = permits
<1>1. "idle" \notin PermitPc /\ "idle" \notin Waiting
  BY DEF PermitPc, Waiting
<1>2. job[h].work \in WorkIds
  BY <1>1, JobFields
<1>3. /\ job'[h].pc \notin PermitPc
      /\ \A g \in Handlers \ {h} : job'[g] = job[g]
  BY <1>1, GotoMoves, ReplyMoves
<1> QED
  BY <1>2, <1>3, JobMoves

LEMMA ContinueMaps ==
    ASSUME TypeOK, NEW h \in Handlers, Continue(h)
    PROVE  \/ Stutter
           \/ \E w \in WorkIds : \/ Lifecycle!Permit(h, w) \/ Lifecycle!Spend(h, w)
                               \/ Lifecycle!Close(w)
<1> DEFINE w == job[h].work
           Plain == Waiting \ PermitPc
<1>1. job[h].pc \in Waiting /\ job[h].pc # "idle"
  BY DEF Continue, At, Waiting, SubmitDetail, RobotCall, RobotDetail, RobotStep,
     AdvanceStep, AgreeDetail, LoadOrder, CallEngine, ExecuteDetail,
     RejectStatus, RejectDetail, RejectReason, UndoStatus, KillDetail,
     KillStatus, WithdrawDelete
<1>2. w \in WorkIds
  BY <1>1, JobFields
<1> HIDE DEF w
<1>3. CASE SubmitDetail(h)
  <2>1. phase' = phase /\ handed' = handed
    BY <1>3 DEF SubmitDetail, phase, handed
  <2>2. job[h].pc \in PermitPc
    BY <1>3 DEF SubmitDetail, At, PermitPc
  <2>3. CASE Goto(h, "robotCall")
    <3>1. /\ job'[h].pc \in PermitPc /\ job'[h].work = w
          /\ \A g \in Handlers \ {h} : job'[g] = job[g]
      BY <1>1, <2>3, GotoMoves DEF PermitPc, w
    <3>2. permits' = permits
      BY <1>2, <2>2, <3>1, JobMoves DEF w
    <3> QED
      BY <2>1, <3>2 DEF Stutter
  <2>4. CASE Reply(h)
    <3>1. /\ job'[h].pc \notin PermitPc
          /\ \A g \in Handlers \ {h} : job'[g] = job[g]
      BY <2>4, ReplyMoves DEF PermitPc
    <3>2. permits' = [permits EXCEPT ![w] = @ \ {h}]
      BY <1>2, <3>1, JobMoves DEF w
    <3>3. h \in permits[w]
      BY <1>2, <2>2 DEF permits, PermitPc, w
    <3> QED
      BY <1>2, <2>1, <3>2, <3>3 DEF Lifecycle!Spend
  <2> QED
    BY <1>3, <2>3, <2>4 DEF SubmitDetail
<1>4. CASE RobotCall(h) \/ CallEngine(h)
  <2>1. PICK next \in {"robotDetail", "executeDetail"} :
           \/ CallExec(h, AcceptByHand(w), next)
           \/ CallExec(h, AcceptByRobot(w), next)
    BY <1>4 DEF RobotCall, CallEngine, w
  <2>2. next \in Plain /\ job[h].pc \in PermitPc /\ UNCHANGED row
    BY <1>4 DEF RobotCall, CallEngine, At, Waiting, PermitPc
  <2>3. Lifecycle!Spend(h, w)
    BY <1>2, <2>1, <2>2, CallSpends DEF w
  <2> QED
    BY <1>2, <2>3
<1>5. CASE LoadOrder(h)
  <2>1. phase' = phase /\ handed' = handed
    BY <1>5 DEF LoadOrder, phase, handed
  <2>2. CASE row[w].status \in Open
    <3>1. Goto(h, "call")
      BY <1>5, <2>2 DEF LoadOrder, w
    <3>2. /\ job'[h].pc \in PermitPc /\ job'[h].work = w
          /\ \A g \in Handlers \ {h} : job'[g] = job[g]
      BY <1>1, <3>1, GotoMoves DEF PermitPc, w
    <3>3. permits' = [permits EXCEPT ![w] = @ \union {h}]
      BY <1>2, <3>2, JobMoves DEF w
    <3>4. phase[w] = "open"
      BY <1>2, <2>2 DEF phase, Open
    <3>5. Lifecycle!Permit(h, w)
      BY <2>1, <3>3, <3>4 DEF Lifecycle!Permit
    <3> QED
      BY <1>2, <3>5
  <2>3. CASE row[w].status \notin Open
    <3>1. Reply(h) /\ job[h].pc \notin PermitPc
      BY <1>5, <2>3 DEF LoadOrder, At, PermitPc, w
    <3>2. "reject" \in Plain
      BY DEF Waiting, PermitPc
    <3>3. permits' = permits
      BY <1>1, <3>1, <3>2, OrdinaryMoves
    <3> QED
      BY <2>1, <3>3 DEF Stutter
  <2> QED
    BY <2>2, <2>3
<1>6. ASSUME ~SubmitDetail(h), ~RobotCall(h), ~CallEngine(h), ~LoadOrder(h)
      PROVE  permits' = permits /\ handed' = handed
  <2>1. PICK next \in Plain : Goto(h, next) \/ Reply(h)
    <3>1. {"robotStep", "agreeDetail", "rejectDetail", "rejectReason", "killStatus"}
             \subseteq Plain
      BY DEF Waiting, PermitPc
    <3> QED
      BY <1>6, <3>1 DEF Continue, RobotDetail, RobotStep, AdvanceStep,
         AgreeDetail, ExecuteDetail, RejectStatus, RejectDetail, RejectReason,
         UndoStatus, KillDetail, KillStatus, WithdrawDelete
  <2>2. job[h].pc \in Plain /\ juno' = juno
    BY <1>6 DEF Continue, At, Waiting, PermitPc, RobotDetail, RobotStep,
       AdvanceStep, AgreeDetail, ExecuteDetail, RejectStatus, RejectDetail,
       RejectReason, UndoStatus, KillDetail, KillStatus, WithdrawDelete
  <2> QED
    BY <2>1, <2>2, OrdinaryMoves DEF handed
<1>7. CASE RobotDetail(h) \/ AgreeDetail(h) \/ ExecuteDetail(h) \/ RejectDetail(h)
           \/ RejectReason(h) \/ KillDetail(h) \/ KillStatus(h)
  <2>1. row' = row
    BY <1>7 DEF RobotDetail, AgreeDetail, ExecuteDetail, RejectDetail,
       RejectReason, KillDetail, KillStatus
  <2>2. permits' = permits /\ handed' = handed
    BY <1>6, <1>7 DEF RobotDetail, AgreeDetail, ExecuteDetail,
       RejectDetail, RejectReason, KillDetail, KillStatus, SubmitDetail,
       RobotCall, CallEngine, LoadOrder, At
  <2> QED
    BY <2>1, <2>2 DEF Stutter, phase
<1>8. CASE RobotStep(h) \/ AdvanceStep(h)
  <2>1. PICK n, A : SetStep(w, n, A)
    BY <1>8 DEF RobotStep, AdvanceStep, w
  <2>2. phase' = phase
    BY <1>2, <2>1, StepMoves
  <2>3. permits' = permits /\ handed' = handed
    BY <1>6, <1>8 DEF RobotStep, AdvanceStep, SubmitDetail, RobotCall,
       CallEngine, LoadOrder, At
  <2> QED
    BY <2>2, <2>3 DEF Stutter
<1>9. CASE RejectStatus(h) \/ UndoStatus(h)
  <2>1. PICK st \in {"rejected", "undone"} : SetStatus(w, st)
    BY <1>9 DEF RejectStatus, UndoStatus, w
  <2>2. st \in Status \ (Open \union {"unposted"})
    BY DEF Status, Open, Missing
  <2>3. permits' = permits /\ handed' = handed
    BY <1>6, <1>9 DEF RejectStatus, UndoStatus, SubmitDetail, RobotCall,
       CallEngine, LoadOrder, At
  <2> QED
    BY <1>2, <2>1, <2>2, <2>3, StatusCloses
<1>10. CASE WithdrawDelete(h)
  <2>1. permits' = permits /\ handed' = handed
    BY <1>6, <1>10 DEF WithdrawDelete, SubmitDetail, RobotCall, CallEngine,
       LoadOrder, At
  <2>2. CASE row[w].status = "review"
    <3>1. Exists(w) /\ "withdrawn" \in Missing \ {"unposted"}
      BY <2>2 DEF Exists, Missing
    <3>2. row' = [row EXCEPT ![w] = NoRow("withdrawn")]
      BY <1>10, <2>2 DEF WithdrawDelete, w
    <3> QED
      BY <1>2, <2>1, <3>1, <3>2, GoneCloses
  <2>3. CASE row[w].status # "review"
    <3>1. row' = row
      BY <1>10, <2>3 DEF WithdrawDelete, w
    <3> QED
      BY <2>1, <3>1 DEF Stutter, phase
  <2> QED
    BY <2>2, <2>3
<1> QED
  BY <1>3, <1>4, <1>5, <1>7, <1>8, <1>9, <1>10 DEF Continue

LEMMA OutsideMaps ==
    ASSUME TypeOK, JobsWereGiven, NEW w \in WorkIds,
           ScheduledChange(w) \/ SuperDelOrder(w) \/ Engine(w)
    PROVE  Stutter \/ Lifecycle!Close(w) \/ Lifecycle!Reopen(w)
<1>1. permits' = permits
  BY DEF ScheduledChange, SuperDelOrder, Engine, EngineDelay, EngineStart,
     EngineFinish, permits
<1>2. handed' = handed
  <2>1. /\ handed[w] \in Nat /\ DOMAIN handed = WorkIds
        /\ handed = [v \in WorkIds |-> handed[v]]
    <3>1. juno[w] \in JunoType
      BY DEF TypeOK
    <3> QED
      BY <3>1 DEF JunoType, handed
  <2>2. CASE juno' = juno
    BY <2>2 DEF handed
  <2>3. CASE juno' # juno
    <3>1. Book(w, -1, 0, 0, 0) \/ Book(w, -1, 1, 0, 0) \/ Book(w, 0, -1, 0, 0)
      BY <2>3 DEF ScheduledChange, SuperDelOrder, Engine, EngineDelay,
         EngineStart, EngineFinish
    <3>2. handed' = [handed EXCEPT ![w] = @ + (0 + 0)]
      BY <3>1, BookMoves
    <3>3. handed[w] + (0 + 0) = handed[w]
      BY <2>1
    <3> QED
      BY <2>1, <3>2, <3>3
  <2> QED
    BY <2>2, <2>3
<1>3. CASE ScheduledChange(w)
  BY <1>1, <1>2, <1>3 DEF ScheduledChange, Stutter, phase
<1>4. CASE SuperDelOrder(w)
  <2>1. "deleted" \in Missing \ {"unposted"}
    BY DEF Missing
  <2> QED
    BY <1>1, <1>2, <1>4, <2>1, GoneCloses DEF SuperDelOrder
<1>5. CASE EngineDelay(w)
  <2>1. phase' = IF Exists(w) THEN [phase EXCEPT ![w] = "open"] ELSE phase
    <3>1. "delayed" \in Status /\ Phase("delayed") = "open"
      BY DEF Status, Phase, Open
    <3> QED
      BY <1>5, <3>1, StatusMoves DEF EngineDelay
  <2>2. /\ phase \in [WorkIds -> {"new", "open", "closed"}]
        /\ Exists(w) => phase[w] \in {"open", "closed"}
    BY DEF phase, Exists, Missing
  <2>3. handed[w] > 0
    <3>1. juno[w] \in JunoType /\ juno[w].queued > 0
      BY <1>5 DEF EngineDelay, TypeOK
    <3>2. handed[w] \in Nat
      BY <3>1 DEF handed, JunoType
    <3>3. juno[w].queued + juno[w].running <= handed[w]
      BY DEF JobsWereGiven
    <3> QED
      BY <3>1, <3>2, <3>3 DEF JunoType
  <2> QED
    BY <1>1, <1>2, <2>1, <2>2, <2>3 DEF Stutter, Lifecycle!Reopen
<1>6. CASE EngineStart(w) \/ EngineFinish(w)
  <2>1. PICK st \in {"executing", "executed", "failed"} : SetStatus(w, st)
    BY <1>6 DEF EngineStart, EngineFinish
  <2>2. st \in Status \ (Open \union {"unposted"})
    BY DEF Status, Open, Missing
  <2> QED
    BY <1>1, <1>2, <2>1, <2>2, StatusCloses
<1> QED
  BY <1>3, <1>4, <1>5, <1>6 DEF Engine

LEMMA RestartMaps ==
    ASSUME Restart
    PROVE  Lifecycle!LoseAll
<1>1. phase' = phase /\ handed' = handed
  BY DEF Restart, phase, handed
<1>2. \A w \in WorkIds : permits'[w] = {}
  BY DEF Restart, permits, Idle
<1>3. permits' = [w \in WorkIds |-> permits'[w]]
  BY DEF permits
<1> QED
  BY <1>1, <1>2, <1>3 DEF Lifecycle!LoseAll

LEMMA InitMaps ==
    ASSUME Init
    PROVE  Lifecycle!Init /\ JobsWereGiven
<1>1. phase = [w \in WorkIds |-> "new"]
  BY DEF Init, phase, NoRow, Open
<1>2. permits = [w \in WorkIds |-> {}]
  BY DEF Init, permits, Idle
<1>3. \A w \in WorkIds : juno[w] = NoJobs
  BY DEF Init
<1>4. handed = [w \in WorkIds |-> 0]
  BY <1>3 DEF handed, NoJobs
<1> QED
  BY <1>1, <1>2, <1>3, <1>4 DEF Lifecycle!Init, JobsWereGiven, NoJobs

LEMMA StepMaps ==
    ASSUME TypeOK, JobsWereGiven, [Next]_vars
    PROVE  Lifecycle!Next \/ Stutter
<1>1. CASE UNCHANGED vars
  BY <1>1 DEF vars, Stutter, phase, permits, handed
<1>2. ASSUME NEW h \in Handlers, Request(h) \/ Continue(h)
      PROVE  Lifecycle!Next \/ Stutter
  BY <1>2, RequestMaps, ContinueMaps DEF Lifecycle!Next
<1>3. ASSUME NEW w \in WorkIds, ScheduledChange(w) \/ SuperDelOrder(w) \/ Engine(w)
      PROVE  Lifecycle!Next \/ Stutter
  BY <1>3, OutsideMaps DEF Lifecycle!Next
<1>4. CASE Restart
  BY <1>4, RestartMaps DEF Lifecycle!Next
<1> QED
  BY <1>1, <1>2, <1>3, <1>4 DEF Next

\* The engine holds at most the jobs it was given, in every reachable state.
THEOREM EngineJobsWereGiven == Spec => []JobsWereGiven
<1>1. Init => JobsWereGiven
  BY InitMaps
<1>2. TypeOK /\ JobsWereGiven /\ [Next]_vars => JobsWereGiven'
  BY GivenStep
<1> QED
  BY <1>1, <1>2, TypeCorrect, PTL DEF Spec

\* The workflow implements its specification: no interleaving of requests, late
\* pages, engine writes, deletions and restarts gives the engine a job that no
\* permit covers, or opens a closed order without the engine.
THEOREM Implementation == Spec => ImplementsLifecycle
<1>1. Init => Lifecycle!Init
  BY InitMaps
<1>2. TypeOK /\ JobsWereGiven /\ [Next]_vars
         => [Lifecycle!Next]_(Lifecycle!abstract)
  BY StepMaps DEF Stutter, Lifecycle!abstract
<1> QED
  BY <1>1, <1>2, TypeCorrect, EngineJobsWereGiven, PTL
     DEF Spec, ImplementsLifecycle, Lifecycle!Spec
=============================================================================
