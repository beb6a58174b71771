-------------------------- MODULE QueryOrderProofs --------------------------
(***************************************************************************)
(* Proofs about QueryOrder: its types, that a query runs and is recorded   *)
(* under an order of its user that has been granted and at a source that   *)
(* one was granted for, and that the query orders implement QueryAccess.   *)
(***************************************************************************)
EXTENDS QuerySources, WellFoundedInduction, TLAPS

-----------------------------------------------------------------------------
(***************************************************************************)
(* LastOf.                                                                 *)
(***************************************************************************)

\* A set of numbers has a least one.
LEMMA LeastNumber ==
    ASSUME NEW T \in SUBSET Nat, T # {}
    PROVE  \E n \in T : \A m \in T : ~(m < n)
<1> DEFINE R == {p \in Nat \X Nat : p[1] < p[2]}
<1>1. IsWellFoundedOn(R, Nat)
  <2>1. SUFFICES ASSUME NEW f \in [Nat -> Nat], \A n \in Nat : <<f[n + 1], f[n]>> \in R
                 PROVE  FALSE
    BY DEF IsWellFoundedOn
  <2> QED
    BY <2>1, NatLessThanWellFounded DEF IsWellFoundedOn, OpToRel
<1>2. PICK n \in T : \A m \in T : <<m, n>> \notin R
  <2> HIDE DEF R
  <2> QED
    BY <1>1, WFMin
<1> QED
  BY <1>2

\* A set of numbers that has a bound has a greatest one, and Max is it.
LEMMA MaxIsElement ==
    ASSUME NEW b \in Nat, NEW S \in SUBSET (0 .. b), S # {}
    PROVE  Max(S) \in S /\ \A x \in S : x <= Max(S)
<1> DEFINE T == {b - x : x \in S}
<1>1. T \in SUBSET Nat /\ T # {}
  <2>1. \A x \in S : b - x \in Nat
    OBVIOUS
  <2> QED
    BY <2>1
<1>2. PICK n \in T : \A m \in T : ~(m < n)
  <2> HIDE DEF T
  <2> QED
    BY <1>1, LeastNumber
<1>3. PICK x \in S : n = b - x
  BY <1>2
<1>4. ASSUME NEW y \in S
      PROVE  x >= y
  <2>1. b - y \in T
    OBVIOUS
  <2>2. ~(b - y < n)
    BY <2>1, <1>2
  <2> QED
    BY <2>2, <1>3
<1> QED
  BY <1>4 DEF Max

\* gorm's Last is 0 or one of the rows it was asked of.
LEMMA LastOfIsElement ==
    ASSUME NEW S \in SUBSET Ids
    PROVE  IF S = {} THEN LastOf(S) = 0 ELSE LastOf(S) \in S
<1>1. MaxOrders \in Nat /\ S \in SUBSET (0 .. MaxOrders)
  BY QueryAssumption DEF Ids
<1> QED
  BY <1>1, MaxIsElement DEF LastOf

-----------------------------------------------------------------------------
(***************************************************************************)
(* The table of orders.                                                    *)
(***************************************************************************)

\* The IDs that were granted have been given out.
GrantedExist == \A o \in granted : o <= last

\* The part of the types that is about the table.
TableOK ==
    /\ orders \in [Ids -> OrderType]
    /\ last \in 0 .. MaxOrders
    /\ \A o \in Ids : orders[o].status = "none" <=> o > last
    /\ granted \subseteq Ids

TableInv == TableOK /\ ApprovedIsGranted /\ GrantedExist

\* What every step keeps: a granted order stays granted, its user's and its source's.
GrantedStay ==
    /\ granted \subseteq granted'
    /\ \A o \in granted : /\ orders'[o].user = orders[o].user
                          /\ orders'[o].source = orders[o].source

\* A row that is given another status.
LEMMA RowWithStatus ==
    ASSUME NEW r \in OrderType, NEW status \in Status
    PROVE  /\ [r EXCEPT !.status = status, !.age = 0] \in OrderType
           /\ [r EXCEPT !.status = status, !.age = 0].user = r.user
           /\ [r EXCEPT !.status = status, !.age = 0].source = r.source
           /\ [r EXCEPT !.status = status, !.age = 0].status = status
<1>1. 0 \in 0 .. (ExQueryTime + 1)
  BY QueryAssumption
<1> QED
  BY <1>1 DEF OrderType

\* A statement that takes approvals away, or deletes.
LEMMA SetStatusStep ==
    ASSUME TableInv, NEW S, NEW status \in {"ended", "rejected", "gone"},
           SetStatus(S, status), UNCHANGED <<last, granted>>
    PROVE  TableInv' /\ GrantedStay
<1> USE DEF TableInv, TableOK
<1>1. \A o \in Ids : orders'[o] = IF o \in S /\ Exists(o)
                                  THEN [orders[o] EXCEPT !.status = status, !.age = 0]
                                  ELSE orders[o]
  BY DEF SetStatus
<1>2. ASSUME NEW o \in Ids
      PROVE  /\ orders'[o] \in OrderType
             /\ orders'[o].user = orders[o].user
             /\ orders'[o].source = orders[o].source
             /\ orders'[o].status = "none" <=> orders[o].status = "none"
             /\ orders'[o].status = "approved" => orders[o].status = "approved"
  <2>1. orders[o] \in OrderType
    OBVIOUS
  <2>2. CASE o \in S /\ Exists(o)
    <3>1. orders'[o] = [orders[o] EXCEPT !.status = status, !.age = 0]
      BY <1>1, <2>2
    <3>2. /\ status \in Status /\ status \notin {"none", "approved"}
          /\ orders[o].status # "none"
      BY <2>2 DEF Status, Exists
    <3> DEFINE r == [orders[o] EXCEPT !.status = status, !.age = 0]
    <3>3. /\ r \in OrderType /\ r.status = status
          /\ r.user = orders[o].user /\ r.source = orders[o].source
      BY <2>1, <3>2, RowWithStatus
    <3> HIDE DEF r
    <3> QED
      BY <3>1, <3>2, <3>3 DEF r
  <2>3. CASE ~(o \in S /\ Exists(o))
    BY <1>1, <2>1, <2>3
  <2> QED
    BY <2>2, <2>3
<1>3. orders' \in [Ids -> OrderType]
  BY <1>2 DEF SetStatus
<1> QED
  BY <1>2, <1>3 DEF ApprovedIsGranted, GrantedExist, GrantedStay

\* A row is added.
LEMMA InsertStep ==
    ASSUME TableInv, NEW u \in Users \union {None}, NEW s \in Sources \union {None},
           NEW status \in {"pending", "approved"}, Insert(u, s, status),
           IF status = "approved" THEN granted' = granted \union {last + 1}
                                  ELSE granted' = granted
    PROVE  TableInv' /\ GrantedStay
<1> USE DEF TableInv, TableOK
<1>1. last + 1 \in Ids /\ last' = last + 1 /\ last' \in 0 .. MaxOrders
  BY QueryAssumption DEF Insert, Ids
<1>2. last + 1 \notin granted
  BY <1>1 DEF GrantedExist
<1>3. \A o \in Ids : orders'[o] = IF o = last + 1
                        THEN [status |-> status, user |-> u, source |-> s, age |-> 0]
                        ELSE orders[o]
  BY DEF Insert
<1>4. orders' \in [Ids -> OrderType]
  <2>1. [status |-> status, user |-> u, source |-> s, age |-> 0] \in OrderType
    BY QueryAssumption DEF OrderType, Status
  <2> QED
    BY <2>1 DEF Insert
<1>5. \A o \in Ids : orders'[o].status = "none" <=> o > last'
  BY <1>1, <1>3, QueryAssumption DEF Ids
<1>6. granted' \subseteq Ids /\ granted \subseteq granted'
  BY <1>1
<1>7. ApprovedIsGranted'
  BY <1>3 DEF ApprovedIsGranted
<1>8. GrantedExist'
  <2>1. \A o \in granted : o \in Int /\ o <= last + 1
    BY QueryAssumption DEF GrantedExist, Ids
  <2> QED
    BY <1>1, <2>1 DEF GrantedExist
<1>9. \A o \in granted : /\ orders'[o].user = orders[o].user
                         /\ orders'[o].source = orders[o].source
  BY <1>2, <1>3
<1> QED
  BY <1>1, <1>4, <1>5, <1>6, <1>7, <1>8, <1>9 DEF GrantedStay

\* An order is agreed to.
LEMMA AgreeStep ==
    ASSUME TableInv, NEW o \in Ids, Agree(o)
    PROVE  TableInv' /\ GrantedStay
<1> USE DEF TableInv, TableOK
<1>1. /\ orders[o].status # "none" /\ o <= last
      /\ granted' = granted \union {o} /\ last' = last
  BY QueryAssumption DEF Agree, Exists, Ids
<1>2. \A i \in Ids : /\ orders'[i] = IF i = o THEN [orders[o] EXCEPT !.status = "approved",
                                                                    !.age = 0]
                                             ELSE orders[i]
  BY DEF Agree
<1>3. orders' \in [Ids -> OrderType]
  <2>1. [orders[o] EXCEPT !.status = "approved", !.age = 0] \in OrderType
    <3>1. orders[o] \in OrderType /\ "approved" \in Status
      BY DEF Status
    <3> QED
      BY <3>1, RowWithStatus
  <2> QED
    BY <2>1 DEF Agree
<1>4. \A i \in Ids : /\ orders'[i].user = orders[i].user
                     /\ orders'[i].source = orders[i].source
                     /\ orders'[i].status = "none" <=> orders[i].status = "none"
                     /\ orders'[i].status = "approved"
                           => i = o \/ orders[i].status = "approved"
  <2> TAKE i \in Ids
  <2>1. orders[i] \in OrderType
    OBVIOUS
  <2>2. CASE i = o
    BY <2>1, <2>2, <1>1, <1>2 DEF OrderType
  <2>3. CASE i # o
    BY <2>3, <1>2
  <2> QED
    BY <2>2, <2>3
<1> QED
  BY <1>1, <1>3, <1>4 DEF ApprovedIsGranted, GrantedExist, GrantedStay

\* A minute passes.
LEMMA TickStep ==
    ASSUME TableInv, Tick
    PROVE  TableInv' /\ GrantedStay
<1> USE DEF TableInv, TableOK
<1>1. ASSUME NEW o \in Ids
      PROVE  /\ orders'[o] \in OrderType
             /\ orders'[o].user = orders[o].user
             /\ orders'[o].source = orders[o].source
             /\ orders'[o].status = orders[o].status
  <2>1. orders[o] \in OrderType
    OBVIOUS
  <2>2. CASE orders[o].status = "approved" /\ ~TimeDifference(o) /\ ExQueryTime > 0
    <3>1. orders'[o] = [orders[o] EXCEPT !.age = orders[o].age + 1]
      BY <2>2 DEF Tick
    <3>2. orders[o].age + 1 \in 0 .. (ExQueryTime + 1)
      BY <2>1, <2>2, QueryAssumption DEF OrderType, TimeDifference
    <3> QED
      BY <2>1, <3>1, <3>2 DEF OrderType
  <2>3. CASE ~(orders[o].status = "approved" /\ ~TimeDifference(o) /\ ExQueryTime > 0)
    BY <2>1, <2>3 DEF Tick
  <2> QED
    BY <2>2, <2>3
<1>2. orders' \in [Ids -> OrderType] /\ UNCHANGED <<last, granted>>
  BY <1>1 DEF Tick
<1> QED
  BY <1>1, <1>2 DEF ApprovedIsGranted, GrantedExist, GrantedStay

\* Whatever is in the table stays in order at every step.
LEMMA TableStep ==
    ASSUME TypeOK, TableInv, [Next]_vars
    PROVE  TableInv' /\ GrantedStay
<1>1. ASSUME UNCHANGED table
      PROVE  TableInv' /\ GrantedStay
  BY <1>1 DEF table, TableInv, TableOK, ApprovedIsGranted, GrantedExist, GrantedStay
<1>2. ASSUME NEW h \in Handlers, Request(h)
      PROVE  TableInv' /\ GrantedStay
  <2>1. CASE UNCHANGED table
    BY <2>1, <1>1
  <2>2. ASSUME NEW from \in Ids, NEW to \in Ids, DeleteRequest(h, from, to)
        PROVE  TableInv' /\ GrantedStay
    BY <2>2, SetStatusStep DEF DeleteRequest
  <2> QED
    BY <2>1, <2>2, <1>2 DEF Request, ReferRequest, UndoRequest, StatusRequest,
       SaveRequest, ClearRequest
<1>3. ASSUME NEW h \in Handlers, Continue(h)
      PROVE  TableInv' /\ GrantedStay
  <2>1. task[h].user \in Users \union {None} /\ task[h].source \in Sources \union {None}
    BY DEF TypeOK, TaskType
  <2>2. CASE CreateFree(h)
    BY <2>1, <2>2, InsertStep DEF CreateFree
  <2>3. CASE CreatePending(h)
    BY <2>1, <2>3, InsertStep DEF CreatePending
  <2>4. CASE EndOne(h)
    BY <2>4, SetStatusStep DEF EndOne
  <2>5. CASE SaveEnd(h)
    BY <2>5, SetStatusStep DEF SaveEnd
  <2>6. CASE ClearDelete(h)
    BY <2>6, SetStatusStep DEF ClearDelete
  <2>7. CASE \/ DupCheck(h) \/ SaveConfig(h) \/ SaveMemory(h)
            \/ ClearLook(h) \/ DeleteRecords(h)
    BY <2>7, <1>1 DEF DupCheck, SaveConfig, SaveMemory, ClearLook, DeleteRecords
  <2> QED
    BY <1>3, <2>2, <2>3, <2>4, <2>5, <2>6, <2>7 DEF Continue
<1>4. ASSUME Statement
      PROVE  TableInv' /\ GrantedStay
  <2>1. ASSUME NEW o \in Ids, Reject(o) \/ Stop(o)
        PROVE  TableInv' /\ GrantedStay
    BY <2>1, SetStatusStep DEF Reject, Stop, Button
  <2>2. ASSUME NEW u \in Users, UndoQueryOrder(u)
        PROVE  TableInv' /\ GrantedStay
    BY <2>2, SetStatusStep DEF UndoQueryOrder, Button
  <2> QED
    BY <1>4, <2>1, <2>2, AgreeStep DEF Statement
<1>5. ASSUME NEW k \in Sockets, Browse(k)
      PROVE  TableInv' /\ GrantedStay
  BY <1>5, <1>1 DEF Browse, Connect, Receive, Disconnect
<1>6. ASSUME NEW k \in Sockets, Answer(k)
      PROVE  TableInv' /\ GrantedStay
  <2>1. CASE EndAll(k)
    BY <2>1, SetStatusStep DEF EndAll
  <2>2. CASE Check(k) \/ Run(k)
    BY <2>2, <1>1 DEF Check, Run
  <2> QED
    BY <1>6, <2>1, <2>2 DEF Answer
<1>7. CASE Cron
  <2>1. CASE CronEnd
    BY <2>1, SetStatusStep DEF CronEnd
  <2>2. CASE CronList
    BY <2>2, <1>1 DEF CronList
  <2> QED
    BY <1>7, <2>1, <2>2 DEF Cron
<1>8. CASE Record \/ Restart \/ UNCHANGED vars
  BY <1>8, <1>1 DEF Record, WriteRecord, Restart, vars
<1> QED
  BY <1>2, <1>3, <1>4, <1>5, <1>6, <1>7, <1>8, TickStep DEF Next

-----------------------------------------------------------------------------
(***************************************************************************)
(* The request goroutines and the settings.                                *)
(***************************************************************************)
TaskOK ==
    /\ config \in BOOLEAN /\ audit \in BOOLEAN
    /\ task \in [Handlers -> TaskType]
    /\ \A h \in Handlers : task[h].pc \in {"clear", "clearDelete"} => task[h].todo # {}

\* A request goroutine keeps a state of its type, and a list while it works one off.
LEMMA TaskStep ==
    ASSUME TypeOK, [Next]_vars
    PROVE  TaskOK'
<1> DEFINE Fine(t) == t \in TaskType /\ (t.pc \in {"clear", "clearDelete"} => t.todo # {})
<1>1. \A h \in Handlers : Fine(task[h])
  BY DEF TypeOK
<1>2. ASSUME NEW h \in Handlers, NEW t, Fine(t), task' = [task EXCEPT ![h] = t],
             config' \in BOOLEAN, audit' \in BOOLEAN
      PROVE  TaskOK'
  BY <1>1, <1>2 DEF TaskOK, TypeOK
<1>3. Fine(Idle)
  BY DEF Idle, TaskType
<1>4. ASSUME UNCHANGED <<task, config, audit>>
      PROVE  TaskOK'
  BY <1>4 DEF TaskOK, TypeOK
<1>5. ASSUME NEW h \in Handlers, Request(h)
      PROVE  TaskOK'
  <2>1. UNCHANGED setting
    BY <1>5 DEF Request, ReferRequest, UndoRequest, StatusRequest, SaveRequest,
       ClearRequest, DeleteRequest, Serve
  <2>2. PICK t : task' = [task EXCEPT ![h] = t] /\ Fine(t)
    <3>1. ASSUME NEW u \in Users, NEW s \in Sources, ReferRequest(h, u, s)
          PROVE  \E t : task' = [task EXCEPT ![h] = t] /\ Fine(t)
      <4> DEFINE t == [Idle EXCEPT !.pc = IF audit THEN "dupCheck" ELSE "createFree",
                                   !.user = u, !.source = s]
      <4>1. task' = [task EXCEPT ![h] = t]
        BY <3>1 DEF ReferRequest, Serve
      <4>2. Fine(t)
        BY DEF Idle, TaskType
      <4> QED
        BY <4>1, <4>2
    <3>2. ASSUME NEW u \in Users, UndoRequest(h, u)
          PROVE  \E t : task' = [task EXCEPT ![h] = t] /\ Fine(t)
      <4> DEFINE t == [Idle EXCEPT !.pc = "endOne", !.todo = {LastOf(Owned(u))}]
      <4>1. task' = [task EXCEPT ![h] = t]
        BY <3>2 DEF UndoRequest, Serve
      <4>2. LastOf(Owned(u)) \in Ids
        BY <3>2, LastOfIsElement DEF UndoRequest, Owned
      <4>3. Fine(t)
        BY <4>2 DEF Idle, TaskType
      <4> QED
        BY <4>1, <4>3
    <3>3. ASSUME NEW u \in Users, StatusRequest(h, u)
          PROVE  \E t : task' = [task EXCEPT ![h] = t] /\ Fine(t)
      <4> DEFINE t == [Idle EXCEPT !.pc = "endOne", !.todo = {LastOf(Owned(u))}]
      <4>1. task' = [task EXCEPT ![h] = t] /\ LastOf(Owned(u)) \in Ids
        BY <3>3 DEF StatusRequest, Serve, Exists
      <4>2. Fine(t)
        BY <4>1 DEF Idle, TaskType
      <4> QED
        BY <4>1, <4>2
    <3>4. ASSUME NEW on \in BOOLEAN, SaveRequest(h, on)
          PROVE  \E t : task' = [task EXCEPT ![h] = t] /\ Fine(t)
      <4> DEFINE t == [Idle EXCEPT !.pc = IF on THEN "saveConfig" ELSE "saveEnd",
                                   !.on = on]
      <4>1. task' = [task EXCEPT ![h] = t]
        BY <3>4 DEF SaveRequest, Serve
      <4>2. Fine(t)
        BY DEF Idle, TaskType
      <4> QED
        BY <4>1, <4>2
    <3>5. ASSUME ClearRequest(h)
          PROVE  \E t : task' = [task EXCEPT ![h] = t] /\ Fine(t)
      <4> DEFINE ended == {o \in Ids : orders[o].status = "ended"}
                 t == [Idle EXCEPT !.pc = "clear", !.todo = ended]
      <4>1. task' = [task EXCEPT ![h] = t] /\ ended # {}
        BY <3>5 DEF ClearRequest, Serve
      <4>2. Fine(t)
        BY <4>1 DEF Idle, TaskType
      <4> QED
        BY <4>1, <4>2
    <3>6. ASSUME NEW from \in Ids, NEW to \in Ids, DeleteRequest(h, from, to)
          PROVE  \E t : task' = [task EXCEPT ![h] = t] /\ Fine(t)
      <4> DEFINE range == {o \in from..to : Exists(o)}
                 t == [Idle EXCEPT !.pc = "deleteRecords", !.todo = range]
      <4>1. task' = [task EXCEPT ![h] = t]
        BY <3>6 DEF DeleteRequest, Serve
      <4>2. range \subseteq Ids
        BY DEF Exists
      <4>3. Fine(t)
        BY <4>2 DEF Idle, TaskType
      <4> QED
        BY <4>1, <4>3
    <3> QED
      BY <1>5, <3>1, <3>2, <3>3, <3>4, <3>5, <3>6 DEF Request
  <2> QED
    BY <1>2, <2>1, <2>2 DEF setting, TypeOK
<1>6. ASSUME NEW h \in Handlers, Continue(h)
      PROVE  TaskOK'
  <2>1. task[h] \in TaskType /\ Fine(task[h])
    BY <1>1 DEF TypeOK
  <2>2. config' \in BOOLEAN /\ audit' \in BOOLEAN
    <3>1. task[h].on \in BOOLEAN
      BY <2>1 DEF TaskType
    <3> QED
      BY <1>6, <3>1 DEF Continue, CreateFree, DupCheck, CreatePending, EndOne, SaveEnd,
         SaveConfig, SaveMemory, ClearLook, ClearDelete, DeleteRecords, setting, TypeOK
  <2>3. CASE task' = [task EXCEPT ![h] = Idle]
    BY <1>2, <1>3, <2>2, <2>3
  <2>4. ASSUME NEW pc \in {"createPending", "saveConfig", "saveMemory", "clearDelete"},
               Goto(h, pc), pc = "clearDelete" => task[h].todo # {}
        PROVE  TaskOK'
    <3>1. task' = [task EXCEPT ![h] = [task[h] EXCEPT !.pc = pc]]
      BY <2>4 DEF Goto
    <3>2. Fine([task[h] EXCEPT !.pc = pc])
      BY <2>1, <2>4 DEF TaskType
    <3> HIDE DEF Fine
    <3> QED
      BY <1>2, <2>2, <3>1, <3>2
  <2>5. ASSUME ClearLook(h) \/ ClearDelete(h)
        PROVE  TaskOK'
    <3> DEFINE t == [task[h] EXCEPT !.pc = "clear", !.todo = Rest(h)]
    <3>1. task[h].todo # {} /\ Rest(h) \subseteq Ids
      BY <2>1, <2>5 DEF ClearLook, ClearDelete, At, TaskType, Rest
    <3>2. CASE Goto(h, "clearDelete")
      BY <2>1, <2>4, <3>1, <3>2
    <3>3. ASSUME Rest(h) # {}, task' = [task EXCEPT ![h] = t]
          PROVE  TaskOK'
      <4>1. Fine(t)
        BY <2>1, <3>1, <3>3 DEF TaskType
      <4> HIDE DEF Fine, t
      <4> QED
        BY <1>2, <2>2, <3>3, <4>1
    <3>4. CASE ClearLook(h) /\ ~Goto(h, "clearDelete")
      <4>1. task[h].pc = "clear"
        BY <3>4 DEF ClearLook, At
      <4>2. [task[h] EXCEPT !.todo = Rest(h)] = t
        BY <4>1, <2>1 DEF TaskType
      <4>3. CASE Rest(h) = {}
        BY <2>3, <3>4, <4>3 DEF ClearLook
      <4>4. CASE Rest(h) # {}
        <5>1. task' = [task EXCEPT ![h] = [task[h] EXCEPT !.todo = Rest(h)]]
          BY <3>4, <4>4 DEF ClearLook
        <5> QED
          BY <3>3, <4>2, <4>4, <5>1
      <4> QED
        BY <4>3, <4>4
    <3>5. CASE ClearDelete(h)
      <4>1. CASE Rest(h) = {}
        BY <2>3, <3>5, <4>1 DEF ClearDelete
      <4>2. CASE Rest(h) # {}
        BY <3>3, <3>5, <4>2 DEF ClearDelete
      <4> QED
        BY <4>1, <4>2
    <3> QED
      BY <2>5, <3>2, <3>4, <3>5
  <2>6. ASSUME \/ CreateFree(h) \/ CreatePending(h) \/ EndOne(h)
               \/ SaveMemory(h) \/ DeleteRecords(h)
        PROVE  TaskOK'
    BY <2>3, <2>6 DEF CreateFree, CreatePending, EndOne, SaveMemory, DeleteRecords, Reply
  <2>7. ASSUME DupCheck(h) \/ SaveEnd(h) \/ SaveConfig(h)
        PROVE  TaskOK'
    BY <2>3, <2>4, <2>7 DEF DupCheck, SaveEnd, SaveConfig, Reply
  <2> QED
    BY <1>6, <2>5, <2>6, <2>7 DEF Continue
<1>7. CASE Restart
  <2>1. task' = [h \in Handlers |-> Idle] /\ audit' = config /\ config' = config
    BY <1>7 DEF Restart
  <2> QED
    BY <2>1, <1>3 DEF TaskOK, TypeOK
<1>8. CASE Statement
  BY <1>8, <1>4 DEF Statement, Agree, Reject, Stop, UndoQueryOrder, Button, setting
<1>9. ASSUME NEW k \in Sockets, Browse(k) \/ Answer(k)
      PROVE  TaskOK'
  BY <1>9, <1>4 DEF Browse, Answer, Connect, Receive, Disconnect, Check, EndAll, Run,
     setting
<1>10. CASE Record \/ Cron \/ Tick \/ UNCHANGED vars
  BY <1>10, <1>4 DEF Record, WriteRecord, Cron, CronList, CronEnd, Tick, vars, setting
<1> QED
  BY <1>5, <1>6, <1>7, <1>8, <1>9, <1>10 DEF Next

-----------------------------------------------------------------------------
(***************************************************************************)
(* The connections and the records.                                        *)
(***************************************************************************)

\* What a connection has received when it answers.
Received(s) ==
    /\ s.pc # "off" => s.user \in Users
    /\ s.pc \in {"check", "endAll", "run"} => s.number >= 1

SocketOK ==
    /\ records \subseteq RecordType
    /\ cron \subseteq Ids
    /\ socket \in [Sockets -> SocketType]
    /\ recording \subseteq RecordingType
    /\ queries \in 0 .. MaxQueries
    /\ lost \subseteq 1 .. MaxQueries

SocketInv ==
    /\ SocketOK
    /\ \A k \in Sockets : Received(socket[k])
    /\ RunsUnderGrantedOrder

\* What a connection holds is in order: a query runs under a granted order.
Fit(s) ==
    /\ s \in SocketType
    /\ Received(s)
    /\ s.pc = "run" => s.order \in granted /\ orders[s.order].user = s.user

\* A step of one connection that leaves the records alone.
LEMMA OneSocketStep ==
    ASSUME TableInv, SocketInv, NEW k \in Sockets, NEW s, Fit(s), SetSocket(k, s),
           GrantedStay, queries' \in 0 .. MaxQueries,
           UNCHANGED <<records, cron, recording, lost>>
    PROVE  SocketInv'
<1> USE DEF SocketInv, SocketOK
<1>1. \A i \in Sockets : socket'[i] = IF i = k THEN s ELSE socket[i]
  BY DEF SetSocket
<1>2. SocketOK'
  BY DEF SetSocket, Fit
<1>3. (\A i \in Sockets : Received(socket[i]))'
  BY <1>1 DEF Fit
<1>4. RunsUnderGrantedOrder'
  <2>1. \A i \in Sockets : socket[i].pc = "run" => /\ socket[i].order \in granted
                                                  /\ orders[socket[i].order].user = socket[i].user
    BY DEF RunsUnderGrantedOrder, Socket
  <2>2. ASSUME NEW i \in Sockets, socket'[i].pc = "run"
        PROVE  /\ socket'[i].order \in granted'
               /\ orders'[socket'[i].order].user = socket'[i].user
    <3>1. CASE i = k
      BY <1>1, <2>2, <3>1 DEF Fit, GrantedStay
    <3>2. CASE i # k
      BY <1>1, <2>1, <2>2, <3>2 DEF GrantedStay
    <3> QED
      BY <3>1, <3>2
  <2>3. \A g \in recording' : g.order \in granted' /\ orders'[g.order].user = g.user
    BY DEF RunsUnderGrantedOrder, GrantedStay
  <2>4. \A r \in records' : r.order \in granted'
    BY DEF RunsUnderGrantedOrder, GrantedStay
  <2> QED
    BY <2>2, <2>3, <2>4 DEF RunsUnderGrantedOrder, Socket
<1> QED
  BY <1>2, <1>3, <1>4

\* A step of another part of the system.
LEMMA OtherStep ==
    ASSUME SocketInv, GrantedStay, UNCHANGED ws,
           records' \subseteq records, cron' \subseteq Ids, lost' = lost
    PROVE  SocketInv'
<1>1. SocketOK'
  BY DEF SocketInv, SocketOK, ws
<1>2. (\A i \in Sockets : Received(socket[i]))'
  BY DEF SocketInv, ws
<1>3. RunsUnderGrantedOrder'
  BY DEF SocketInv, RunsUnderGrantedOrder, GrantedStay, Socket, ws
<1> QED
  BY <1>1, <1>2, <1>3 DEF SocketInv

\* A connection that has answered waits, and is still that of its user and source.
LEMMA AnsweredKept ==
    ASSUME NEW k \in Sockets, socket[k] \in SocketType
    PROVE  /\ Answered(k).pc = "open"
           /\ Answered(k).user = socket[k].user /\ Answered(k).source = socket[k].source
  BY DEF Answered, SocketType

LEMMA AnsweredWaits ==
    ASSUME NEW k \in Sockets, socket[k] \in SocketType, socket[k].user \in Users
    PROVE  /\ Answered(k) \in SocketType /\ Received(Answered(k))
           /\ Answered(k).pc = "open" /\ Answered(k).user = socket[k].user
<1>1. 0 \in 0 .. MaxQueries /\ 0 \in 0 .. MaxOrders
  BY QueryAssumption
<1> QED
  BY <1>1 DEF Answered, SocketType, Received

\* A step of a connection.
LEMMA ConnectionStep ==
    ASSUME TypeOK, TableInv, SocketInv, GrantedStay, NEW k \in Sockets,
           Browse(k) \/ Check(k) \/ EndAll(k)
    PROVE  SocketInv'
<1>1. Fit(socket[k])
  BY DEF SocketInv, SocketOK, Fit, RunsUnderGrantedOrder, Socket
<1>2. socket[k] \in SocketType /\ queries \in 0 .. MaxQueries
  BY DEF SocketInv, SocketOK
<1>3. ASSUME NEW u \in Users, NEW s \in Sources, Connect(k, u, s)
      PROVE  SocketInv'
  <2> DEFINE c == [Off EXCEPT !.pc = "open", !.user = u, !.source = s]
  <2>2. Fit(c)
    <3>1. c.pc = "open" /\ c.user = u
      BY DEF Off
    <3>2. 0 \in 0 .. MaxQueries /\ 0 \in 0 .. MaxOrders
      BY QueryAssumption
    <3>3. c \in SocketType
      BY <3>2 DEF Off, SocketType
    <3> HIDE DEF c
    <3> QED
      BY <3>1, <3>3 DEF Fit, Received
  <2>3. SetSocket(k, c) /\ UNCHANGED <<records, cron, recording, queries, lost>>
    BY <1>3 DEF Connect
  <2> QED
    BY <1>2, <2>2, <2>3, OneSocketStep
<1>4. CASE Receive(k)
  <2> DEFINE c == [socket[k] EXCEPT !.pc = "check", !.number = queries + 1]
  <2>1. queries + 1 \in 1 .. MaxQueries
    BY <1>2, <1>4, QueryAssumption DEF Receive
  <2>2. socket[k].user \in Users
    BY <1>1, <1>4 DEF Fit, Received, Receive, Socket
  <2>3. Fit(c)
    <3>1. /\ c.pc = "check" /\ c.user = socket[k].user
          /\ c.number = queries + 1
      BY <1>2 DEF SocketType
    <3>2. queries + 1 \in 0 .. MaxQueries /\ queries + 1 >= 1
      BY <2>1
    <3>3. c \in SocketType
      BY <1>2, <3>2 DEF SocketType
    <3> HIDE DEF c
    <3> QED
      BY <2>2, <3>1, <3>2, <3>3 DEF Fit, Received
  <2>4. /\ SetSocket(k, c) /\ queries' \in 0 .. MaxQueries
        /\ UNCHANGED <<records, cron, recording, lost>>
    BY <1>4, <2>1 DEF Receive
  <2> HIDE DEF c
  <2> QED
    BY <2>3, <2>4, OneSocketStep
<1>5. CASE Disconnect(k)
  <2>1. Fit(Off)
    BY QueryAssumption DEF Fit, Off, SocketType, Received
  <2>2. /\ SetSocket(k, Off)
        /\ UNCHANGED <<records, cron, recording, queries, lost>>
    BY <1>5 DEF Disconnect
  <2> QED
    BY <1>2, <2>1, <2>2, OneSocketStep
<1>6. socket[k].pc # "off" => Fit(Answered(k))
  BY <1>1, <1>2, AnsweredWaits DEF Fit, Received
<1>7. CASE Check(k)
  <2> DEFINE d     == LastOf(ApprovedOf(socket[k].user))
             end   == [socket[k] EXCEPT !.pc = "endAll"]
             run   == [socket[k] EXCEPT !.pc = "run", !.order = d]
  <2>1. UNCHANGED <<records, cron, recording, queries, lost>>
    BY <1>7 DEF Check
  <2>2. socket[k].pc = "check"
    BY <1>7 DEF Check, Socket
  <2>3. CASE SetSocket(k, Answered(k))
    BY <1>2, <1>6, <2>1, <2>2, <2>3, OneSocketStep
  <2>6. CASE SetSocket(k, end)
    <3>1. Fit(end)
      BY <1>1, <1>2, <2>2 DEF Fit, SocketType, Received
    <3> HIDE DEF end
    <3> QED
      BY <1>2, <2>1, <2>6, <3>1, OneSocketStep
  <2>4. ASSUME d # 0, SetSocket(k, run)
        PROVE  SocketInv'
    <3>1. d \in ApprovedOf(socket[k].user)
      BY <2>4, LastOfIsElement DEF ApprovedOf, Owned
    <3>2. d \in granted /\ d \in Ids /\ orders[d].user = socket[k].user
      BY <3>1 DEF ApprovedOf, Owned, TableInv, ApprovedIsGranted
    <3>3. d \in 0 .. MaxOrders
      BY <3>2, QueryAssumption DEF Ids
    <3> HIDE DEF d
    <3>4. Fit(run)
      BY <1>1, <1>2, <2>2, <3>2, <3>3 DEF Fit, SocketType, Received
    <3> HIDE DEF run
    <3> QED
      BY <1>2, <2>1, <2>4, <3>4, OneSocketStep
  <2>5. \/ SetSocket(k, Answered(k)) \/ SetSocket(k, end)
        \/ d # 0 /\ SetSocket(k, run)
    BY <1>7 DEF Check
  <2> QED
    BY <2>3, <2>6, <2>4, <2>5
<1>8. CASE EndAll(k)
  <2>1. /\ SetSocket(k, Answered(k)) /\ socket[k].pc = "endAll"
        /\ UNCHANGED <<records, cron, recording, queries, lost>>
    BY <1>8 DEF EndAll, Socket
  <2> QED
    BY <1>2, <1>6, <2>1, OneSocketStep
<1> QED
  BY <1>3, <1>4, <1>5, <1>7, <1>8 DEF Browse

\* A query runs, and a goroutine may be left to record it.
LEMMA RunStep ==
    ASSUME TypeOK, TableInv, SocketInv, GrantedStay, NEW k \in Sockets, Run(k)
    PROVE  SocketInv'
<1> DEFINE c == Answered(k)
           g == [number |-> socket[k].number, order |-> socket[k].order,
                 user |-> socket[k].user]
<1>1. /\ SetSocket(k, c) /\ socket[k].pc = "run"
      /\ UNCHANGED <<records, cron, queries, lost>>
      /\ recording' = recording \/ recording' = recording \union {g}
  BY DEF Run, Socket
<1>2. socket[k] \in SocketType
  BY DEF SocketInv, SocketOK
<1>3. /\ socket[k].user \in Users
      /\ socket[k].number \in 1 .. MaxQueries
  BY <1>1, <1>2, QueryAssumption DEF SocketInv, Received, SocketType
<1>4. socket[k].order \in granted /\ orders[socket[k].order].user = socket[k].user
  BY <1>1 DEF SocketInv, RunsUnderGrantedOrder, Socket
<1>5. socket[k].order \in Ids
  BY <1>4 DEF TableInv, TableOK
<1>6. g \in RecordingType
  BY <1>3, <1>5 DEF RecordingType
<1>7. c \in SocketType /\ Received(c) /\ c.pc = "open"
  BY <1>2, <1>3, AnsweredWaits
<1>8. g.order = socket[k].order /\ g.user = socket[k].user
  OBVIOUS
<1> HIDE DEF c, g
<1>9. \A i \in Sockets : socket'[i] = IF i = k THEN c ELSE socket[i]
  BY <1>1 DEF SetSocket, SocketInv, SocketOK
<1>10. SocketOK'
  BY <1>1, <1>6, <1>7 DEF SocketInv, SocketOK, SetSocket
<1>11. (\A i \in Sockets : Received(socket[i]))'
  BY <1>7, <1>9 DEF SocketInv
<1>12. RunsUnderGrantedOrder'
  <2>1. ASSUME NEW i \in Sockets, socket'[i].pc = "run"
        PROVE  /\ socket'[i].order \in granted'
               /\ orders'[socket'[i].order].user = socket'[i].user
    <3>1. i # k
      BY <1>7, <1>9, <2>1
    <3> QED
      BY <1>9, <2>1, <3>1 DEF SocketInv, RunsUnderGrantedOrder, Socket, GrantedStay
  <2>2. \A r \in recording' : r.order \in granted' /\ orders'[r.order].user = r.user
    BY <1>1, <1>4, <1>8 DEF SocketInv, RunsUnderGrantedOrder, GrantedStay
  <2>3. \A r \in records' : r.order \in granted'
    BY <1>1 DEF SocketInv, RunsUnderGrantedOrder, GrantedStay
  <2> QED
    BY <2>1, <2>2, <2>3 DEF RunsUnderGrantedOrder, Socket
<1> QED
  BY <1>10, <1>11, <1>12 DEF SocketInv

\* A goroutine writes its record.
LEMMA RecordStep ==
    ASSUME SocketInv, GrantedStay, NEW g \in recording, WriteRecord(g)
    PROVE  SocketInv'
<1> DEFINE r == [number |-> g.number, order |-> g.order]
<1>1. /\ records' = records \union {r} /\ recording' = recording \ {g}
      /\ UNCHANGED <<cron, socket, queries, lost>>
  BY DEF WriteRecord
<1>2. r \in RecordType /\ r.order = g.order
  BY DEF SocketInv, SocketOK, RecordingType, RecordType
<1>3. g.order \in granted
  BY DEF SocketInv, RunsUnderGrantedOrder
<1> HIDE DEF r
<1>4. SocketOK'
  BY <1>1, <1>2 DEF SocketInv, SocketOK
<1>5. (\A i \in Sockets : Received(socket[i]))'
  BY <1>1 DEF SocketInv
<1>6. RunsUnderGrantedOrder'
  BY <1>1, <1>2, <1>3 DEF SocketInv, RunsUnderGrantedOrder, GrantedStay, Socket
<1> QED
  BY <1>4, <1>5, <1>6 DEF SocketInv

\* What the connections and the records hold stays in order at every step.
LEMMA SocketStep ==
    ASSUME TypeOK, TableInv, SocketInv, [Next]_vars
    PROVE  SocketInv'
<1>1. GrantedStay
  BY TableStep
<1>2. ASSUME UNCHANGED <<ws, records, cron, lost>>
      PROVE  SocketInv'
  BY <1>1, <1>2, OtherStep DEF SocketInv, SocketOK
<1>3. ASSUME NEW h \in Handlers, Request(h)
      PROVE  SocketInv'
  BY <1>2, <1>3 DEF Request, ReferRequest, UndoRequest, StatusRequest, SaveRequest,
     ClearRequest, DeleteRequest, Serve
<1>4. ASSUME NEW h \in Handlers, Continue(h)
      PROVE  SocketInv'
  <2>1. CASE DeleteRecords(h)
    BY <1>1, <2>1, OtherStep DEF DeleteRecords, SocketInv, SocketOK
  <2>2. CASE ~DeleteRecords(h)
    BY <1>2, <1>4, <2>2 DEF Continue, CreateFree, DupCheck, CreatePending, EndOne, SaveEnd,
       SaveConfig, SaveMemory, ClearLook, ClearDelete
  <2> QED
    BY <2>1, <2>2
<1>5. CASE Statement
  BY <1>2, <1>5 DEF Statement, Agree, Reject, Stop, UndoQueryOrder, Button
<1>6. ASSUME NEW k \in Sockets, Browse(k) \/ Answer(k)
      PROVE  SocketInv'
  BY <1>1, <1>6, ConnectionStep, RunStep DEF Answer
<1>7. CASE Record
  BY <1>1, <1>7, RecordStep DEF Record
<1>8. CASE Cron
  BY <1>1, <1>8, OtherStep DEF Cron, CronList, CronEnd, SocketInv, SocketOK
<1>9. CASE Tick \/ UNCHANGED vars
  BY <1>2, <1>9 DEF Tick, vars
<1>10. CASE Restart
  <2>1. Off \in SocketType /\ Off.pc = "off"
    BY QueryAssumption DEF Off, SocketType
  <2>2. lost' \subseteq 1 .. MaxQueries
    BY <1>10 DEF Restart, SocketInv, SocketOK, RecordingType
  <2>3. SocketOK'
    BY <1>10, <2>1, <2>2 DEF Restart, SocketInv, SocketOK
  <2>4. (\A i \in Sockets : Received(socket[i]))'
    BY <1>10, <2>1 DEF Restart, Received
  <2>5. RunsUnderGrantedOrder'
    BY <1>1, <1>10, <2>1 DEF Restart, SocketInv, RunsUnderGrantedOrder, GrantedStay, Socket
  <2> QED
    BY <2>3, <2>4, <2>5 DEF SocketInv
<1> QED
  BY <1>3, <1>4, <1>5, <1>6, <1>7, <1>8, <1>9, <1>10 DEF Next

-----------------------------------------------------------------------------
(***************************************************************************)
(* The theorems.                                                           *)
(***************************************************************************)
Inv == TableInv /\ TaskOK /\ SocketInv

LEMMA InvTypes == Inv => TypeOK
  BY DEF Inv, TableInv, TableOK, TaskOK, SocketInv, SocketOK, TypeOK

LEMMA InitInv == Init => Inv
<1> SUFFICES ASSUME Init
             PROVE  Inv
  OBVIOUS
<1>1. TableInv
  <2>1. NoOrder \in OrderType /\ NoOrder.status = "none"
    BY QueryAssumption DEF NoOrder, OrderType, Status
  <2> QED
    BY <2>1, QueryAssumption DEF Init, TableInv, TableOK, ApprovedIsGranted, GrantedExist, Ids
<1>2. TaskOK
  <2>1. Idle \in TaskType /\ Idle.pc = "idle"
    BY DEF Idle, TaskType
  <2> QED
    BY <2>1 DEF Init, TaskOK
<1>3. SocketInv
  <2>1. Off \in SocketType /\ Off.pc = "off"
    BY QueryAssumption DEF Off, SocketType
  <2> QED
    BY <2>1, QueryAssumption DEF Init, SocketInv, SocketOK, Received,
       RunsUnderGrantedOrder, Socket
<1> QED
  BY <1>1, <1>2, <1>3 DEF Inv

\* What the table, the request goroutines and the connections hold refers to orders that
\* exist, and what a connection let through is an order of its user that was granted.
THEOREM InvInductive == Spec => []Inv
<1>1. Inv /\ [Next]_vars => Inv'
  BY InvTypes, TableStep, TaskStep, SocketStep DEF Inv
<1> QED
  BY <1>1, InitInv, PTL DEF Spec

\* Every variable keeps its type, whatever the number of users, connections and
\* request goroutines and whatever the life of an approval.
THEOREM QueryTypes == Spec => []TypeOK
  BY InvInductive, InvTypes, PTL

\* An order that stands approved has been agreed to or was created while the audit
\* was off: no other handler, nor the cron job, nor a restart approves one.
THEOREM OnlyGrantsApprove == Spec => []ApprovedIsGranted
<1>1. Inv => ApprovedIsGranted
  BY DEF Inv, TableInv
<1> QED
  BY <1>1, InvInductive, PTL

\* A query runs, and is recorded, under an order of the user who sent it that has
\* been granted, whatever becomes of that order while the query is under way.
THEOREM QueriesRunUnderGrants == Spec => []RunsUnderGrantedOrder
<1>1. Inv => RunsUnderGrantedOrder
  BY DEF Inv, SocketInv
<1> QED
  BY <1>1, InvInductive, PTL

-----------------------------------------------------------------------------
(***************************************************************************)
(* The source of a connection.                                             *)
(***************************************************************************)

\* A connection that was opened with the audit on goes back to a granted order.
Warranted(k) ==
    audited[k] =>
        /\ socket[k].pc # "off"
        /\ \E o \in granted : /\ orders[o].user = socket[k].user
                             /\ orders[o].source = socket[k].source

Warrants ==
    /\ audited \in [Sockets -> BOOLEAN]
    /\ \A k \in Sockets : Warranted(k)

\* The comparison when a connection is opened finds the order.
LEMMA ConnectWarranted ==
    ASSUME Inv, NEW k \in Sockets, NEW u \in Users, NEW s \in Sources, Connect(k, u, s),
           audited'[k] => audit
    PROVE  Warranted(k)'
<1> DEFINE c == [Off EXCEPT !.pc = "open", !.user = u, !.source = s]
<1>1. c.pc = "open" /\ c.user = u /\ c.source = s
  BY DEF Off
<1>2. socket'[k] = c /\ orders' = orders /\ granted' = granted
  BY DEF Connect, SetSocket, table, Inv, SocketInv, SocketOK
<1> HIDE DEF c
<1>3. CASE audit
  <2>1. \E o \in ApprovedOf(u) : orders[o].source = s
    BY <1>3 DEF Connect
  <2>2. PICK o \in ApprovedOf(u) : orders[o].source = s
    BY <2>1
  <2>3. o \in granted /\ orders[o].user = u
    BY <2>2 DEF ApprovedOf, Owned, Inv, TableInv, ApprovedIsGranted
  <2> QED
    BY <1>1, <1>2, <2>2, <2>3 DEF Warranted
<1>4. CASE ~audit
  BY <1>4 DEF Warranted
<1> QED
  BY <1>3, <1>4

\* A connection that is not being opened is closed, or keeps its user and source.
Kept(k) ==
    \/ socket'[k].pc = "off"
    \/ socket'[k] = socket[k]
    \/ /\ socket[k].pc # "off"
       /\ socket'[k].user = socket[k].user /\ socket'[k].source = socket[k].source

\* What a connection goes back to stays granted, while it keeps its user and source.
LEMMA WarrantStays ==
    ASSUME GrantedStay, NEW k \in Sockets, Warranted(k), Kept(k),
           audited'[k] => socket'[k].pc # "off" /\ audited[k]
    PROVE  Warranted(k)'
  BY DEF Warranted, GrantedStay, Kept

\* Only opening it changes the user and the source of a connection.
LEMMA ConnectionKept ==
    ASSUME Inv, Next, NEW k \in Sockets,
           \A u \in Users, s \in Sources : ~Connect(k, u, s)
    PROVE  Kept(k)
<1> USE DEF Kept
<1>1. socket \in [Sockets -> SocketType]
  BY DEF Inv, SocketInv, SocketOK
<1>2. ASSUME NEW i \in Sockets, i # k, Browse(i) \/ Answer(i)
      PROVE  socket'[k] = socket[k]
  BY <1>1, <1>2 DEF Browse, Connect, Receive, Disconnect, Answer, Check, EndAll, Run,
     SetSocket
<1>3. CASE Browse(k)
  <2>1. CASE Receive(k)
    BY <1>1, <2>1 DEF Receive, SetSocket, Socket, SocketType
  <2>2. CASE Disconnect(k)
    BY <1>1, <2>2 DEF Disconnect, SetSocket, Off
  <2> QED
    BY <1>3, <2>1, <2>2 DEF Browse
<1>4. CASE Answer(k)
  <2>1. ASSUME SetSocket(k, Answered(k))
        PROVE  socket'[k].user = socket[k].user /\ socket'[k].source = socket[k].source
    BY <1>1, <2>1, AnsweredKept DEF SetSocket
  <2>2. ASSUME SetSocket(k, [socket[k] EXCEPT !.pc = "endAll"])
        PROVE  socket'[k].user = socket[k].user /\ socket'[k].source = socket[k].source
    BY <1>1, <2>2 DEF SetSocket, SocketType
  <2>3. ASSUME NEW pc, NEW o, SetSocket(k, [socket[k] EXCEPT !.pc = pc, !.order = o])
        PROVE  socket'[k].user = socket[k].user /\ socket'[k].source = socket[k].source
    BY <1>1, <2>3 DEF SetSocket, SocketType
  <2>4. CASE Check(k)
    BY <2>1, <2>2, <2>3, <2>4 DEF Check, Socket
  <2>5. CASE EndAll(k)
    BY <2>1, <2>5 DEF EndAll, Socket
  <2>6. CASE Run(k)
    BY <2>1, <2>6 DEF Run, Socket
  <2> QED
    BY <1>4, <2>4, <2>5, <2>6 DEF Answer
<1>5. ASSUME NEW h \in Handlers, Request(h) \/ Continue(h)
      PROVE  socket'[k] = socket[k]
  BY <1>5 DEF Request, ReferRequest, UndoRequest, StatusRequest, SaveRequest, ClearRequest,
     DeleteRequest, Serve, Continue, CreateFree, DupCheck, CreatePending, EndOne, SaveEnd,
     SaveConfig, SaveMemory, ClearLook, ClearDelete, DeleteRecords, ws
<1>6. CASE Statement \/ Record \/ Cron \/ Tick
  BY <1>6 DEF Statement, Agree, Reject, Stop, UndoQueryOrder, Button, Record, WriteRecord,
     Cron, CronList, CronEnd, Tick, ws
<1>7. CASE Restart
  BY <1>7 DEF Restart, Off
<1> QED
  BY <1>2, <1>3, <1>4, <1>5, <1>6, <1>7 DEF Next

\* A query runs only at a source for which its sender was granted an order, or on a
\* connection opened without audit: the comparison at the opening is enough, although
\* the order it finds may be gone, and another one in force, when the query runs.
THEOREM SourcesWereGranted == HistorySpec => []SourceWasGranted
<1>1. HistoryInit => Inv /\ Warrants
  BY InitInv DEF HistoryInit, Warrants, Warranted
<1>2. Inv /\ Warrants /\ [HistoryNext]_<<vars, audited>> => (Inv /\ Warrants)'
  <2> SUFFICES ASSUME Inv, Warrants, [HistoryNext]_<<vars, audited>>
               PROVE  (Inv /\ Warrants)'
    OBVIOUS
  <2>1. [Next]_vars
    BY DEF HistoryNext
  <2>2. Inv' /\ GrantedStay
    BY <2>1, InvTypes, TableStep, TaskStep, SocketStep DEF Inv
  <2>3. CASE HistoryNext
    <3>1. ASSUME NEW k \in Sockets
          PROVE  audited'[k] <=> socket'[k].pc # "off" /\ Opened(k)
      BY <2>3 DEF HistoryNext
    <3>2. audited' \in [Sockets -> BOOLEAN]
      BY <2>3 DEF HistoryNext
    <3>3. ASSUME NEW k \in Sockets
          PROVE  Warranted(k)'
      <4>1. ASSUME NEW u \in Users, NEW s \in Sources, Connect(k, u, s)
            PROVE  Warranted(k)'
        BY <3>1, <4>1, ConnectWarranted DEF Connect, Opened
      <4>2. CASE \A u \in Users, s \in Sources : ~Connect(k, u, s)
        <5>1. Kept(k) /\ Warranted(k)
          BY <2>3, <4>2, ConnectionKept DEF HistoryNext, Warrants
        <5>2. audited'[k] => socket'[k].pc # "off" /\ audited[k]
          BY <3>1, <5>1 DEF Kept, Opened, Socket
        <5> QED
          BY <2>2, <5>1, <5>2, WarrantStays
      <4> QED
        BY <4>1, <4>2
    <3> QED
      BY <2>2, <3>2, <3>3 DEF Warrants
  <2>4. CASE UNCHANGED <<vars, audited>>
    BY <2>2, <2>4 DEF Warrants, Warranted, vars, table, ws
  <2> QED
    BY <2>3, <2>4
<1>3. Warrants => SourceWasGranted
  BY DEF Warrants, Warranted, SourceWasGranted
<1> QED
  BY <1>1, <1>2, <1>3, PTL DEF HistorySpec

-----------------------------------------------------------------------------
(***************************************************************************)
(* The refinement of QueryAccess.  First, what a step does to the orders.  *)
(***************************************************************************)

\* A row has a user as soon as it is there.
Owners ==
    \A o \in Ids : IF orders[o].status = "none" THEN orders[o].user = None
                                                ELSE orders[o].user \in Users

\* What a request goroutine knows of the orders: who files one, and that the orders
\* whose records it is about to delete are deleted.
TasksKnow ==
    \A h \in Handlers :
        /\ At(h, "createFree") \/ At(h, "dupCheck") \/ At(h, "createPending")
              => task[h].user \in Users
        /\ At(h, "deleteRecords") => \A o \in task[h].todo : orders[o].status = "gone"

\* A deleted row stays deleted.
GoneStay == \A o \in Ids : orders[o].status = "gone" => orders'[o].status = "gone"

\* A statement that takes approvals away, or deletes.
LEMMA StatusEnds ==
    ASSUME TableOK, Owners, NEW S, NEW status \in {"ended", "rejected", "gone"},
           SetStatus(S, status)
    PROVE  /\ filed' = filed /\ leave' \in SUBSET leave
           /\ Owners' /\ GoneStay
<1>1. ASSUME NEW o \in Ids
      PROVE  /\ orders'[o].user = orders[o].user
             /\ orders'[o].status = "none" <=> orders[o].status = "none"
             /\ orders'[o].status \in {orders[o].status, status}
             /\ orders[o].status = "gone" => orders'[o] = orders[o]
             /\ orders'[o].status = "approved" => orders'[o] = orders[o]
  <2>1. orders[o] \in OrderType
    BY DEF TableOK
  <2>2. CASE o \in S /\ Exists(o)
    <3>1. orders'[o] = [orders[o] EXCEPT !.status = status, !.age = 0]
      BY <2>2 DEF SetStatus
    <3>2. orders'[o].user = orders[o].user /\ orders'[o].status = status
      BY <2>1, <3>1 DEF OrderType
    <3>3. orders[o].status \notin {"none", "gone"}
      BY <2>2 DEF Exists
    <3> QED
      BY <3>2, <3>3
  <2>3. CASE ~(o \in S /\ Exists(o))
    BY <2>3 DEF SetStatus
  <2> QED
    BY <2>2, <2>3
<1>2. filed' = filed
  BY <1>1 DEF filed
<1>3. leave' \in SUBSET leave
  BY <1>1 DEF leave, TimeDifference
<1> QED
  BY <1>1, <1>2, <1>3 DEF Owners, GoneStay

\* A row is added.
LEMMA InsertFiles ==
    ASSUME TableInv, Owners, NEW u \in Users, NEW s,
           NEW status \in {"pending", "approved"}, Insert(u, s, status)
    PROVE  /\ last + 1 \in Ids /\ filed[last + 1] = None
           /\ filed' = [filed EXCEPT ![last + 1] = u]
           /\ leave' \in {leave, leave \union {last + 1}}
           /\ Owners' /\ GoneStay
<1>1. last + 1 \in Ids /\ orders[last + 1].status = "none"
  BY QueryAssumption DEF Insert, Ids, TableInv, TableOK
<1> DEFINE r == [status |-> status, user |-> u, source |-> s, age |-> 0]
<1>2. \A o \in Ids : orders'[o] = IF o = last + 1 THEN r ELSE orders[o]
  BY DEF Insert, TableInv, TableOK
<1>3. r.status = status /\ r.user = u /\ r.age = 0
  OBVIOUS
<1> HIDE DEF r
<1>4. filed' = [filed EXCEPT ![last + 1] = u]
  BY <1>1, <1>2, <1>3 DEF filed
<1>5. leave' = IF status = "approved" THEN leave \union {last + 1} ELSE leave
  <2>1. \A o \in Ids : o # last + 1 => (o \in leave' <=> o \in leave)
    BY <1>2 DEF leave, TimeDifference
  <2>2. last + 1 \notin leave /\ (last + 1 \in leave' <=> status = "approved")
    <3>1. ~(ExQueryTime > 0 /\ 0 > ExQueryTime)
      BY QueryAssumption
    <3> QED
      BY <1>1, <1>2, <1>3, <3>1 DEF leave, TimeDifference
  <2>3. leave \subseteq Ids /\ leave' \subseteq Ids
    BY DEF leave
  <2>4. CASE status = "approved"
    <3>1. \A o : o \in leave' <=> o \in leave \union {last + 1}
      BY <1>1, <2>1, <2>2, <2>3, <2>4
    <3> QED
      BY <2>4, <3>1
  <2>5. CASE status # "approved"
    <3>1. \A o : o \in leave' <=> o \in leave
      BY <1>1, <2>1, <2>2, <2>3, <2>5
    <3>2. leave' = leave
      BY <3>1
    <3> QED
      BY <2>5, <3>2
  <2> QED
    BY <2>4, <2>5
<1>6. filed[last + 1] = None
  BY <1>1 DEF filed, Owners
<1>7. Owners'
  BY <1>1, <1>2, <1>3 DEF Owners
<1>8. GoneStay
  BY <1>1, <1>2 DEF GoneStay
<1> QED
  BY <1>1, <1>4, <1>5, <1>6, <1>7, <1>8

\* An order is agreed to.
LEMMA AgreeOpens ==
    ASSUME TableOK, Owners, NEW o \in Ids, Agree(o)
    PROVE  /\ filed[o] # None /\ filed' = filed
           /\ leave' = leave \union {o}
           /\ Owners' /\ GoneStay
<1>1. orders[o].status \notin {"none", "gone"} /\ orders[o] \in OrderType
  BY DEF Agree, Exists, TableOK
<1>2. \A i \in Ids : orders'[i] = IF i = o
                        THEN [orders[o] EXCEPT !.status = "approved", !.age = 0]
                        ELSE orders[i]
  BY DEF Agree, TableOK
<1>3. /\ orders'[o].status = "approved" /\ orders'[o].age = 0
      /\ orders'[o].user = orders[o].user
  BY <1>1, <1>2 DEF OrderType
<1>4. leave' = leave \union {o}
  <2>1. o \in leave'
    <3>1. ~(ExQueryTime > 0 /\ 0 > ExQueryTime)
      BY QueryAssumption
    <3> QED
      BY <1>3, <3>1 DEF leave, TimeDifference
  <2>2. \A i \in Ids : i # o => (i \in leave' <=> i \in leave)
    BY <1>2 DEF leave, TimeDifference
  <2>3. leave \subseteq Ids /\ leave' \subseteq Ids
    BY DEF leave
  <2>4. \A i : i \in leave' <=> i \in leave \union {o}
    BY <2>1, <2>2, <2>3
  <2> QED
    BY <2>4
<1>5. \A i \in Ids : orders'[i].user = orders[i].user
  BY <1>2, <1>3
<1>6. filed' = filed
  BY <1>5 DEF filed
<1>7. filed[o] # None
  <2>1. orders[o].user \in Users /\ None \notin Users
    BY <1>1, QueryAssumption DEF Owners
  <2> QED
    BY <2>1 DEF filed
<1>8. Owners' /\ GoneStay
  BY <1>1, <1>2, <1>3, <1>5 DEF Owners, GoneStay
<1> QED
  BY <1>4, <1>6, <1>7, <1>8

\* A minute passes.
LEMMA TickEnds ==
    ASSUME TableOK, Owners, Tick
    PROVE  /\ filed' = filed /\ leave' \in SUBSET leave
           /\ Owners' /\ GoneStay
<1>1. ASSUME NEW o \in Ids
      PROVE  /\ orders'[o].user = orders[o].user
             /\ orders'[o].status = orders[o].status
             /\ o \in leave' => o \in leave
  <2>1. orders[o] \in OrderType
    BY DEF TableOK
  <2>2. CASE orders[o].status = "approved" /\ ~TimeDifference(o) /\ ExQueryTime > 0
    <3>1. orders'[o] = [orders[o] EXCEPT !.age = orders[o].age + 1]
      BY <2>2 DEF Tick
    <3> QED
      BY <2>1, <2>2, <3>1 DEF OrderType, leave
  <2>3. CASE ~(orders[o].status = "approved" /\ ~TimeDifference(o) /\ ExQueryTime > 0)
    <3>1. orders'[o] = orders[o]
      BY <2>3 DEF Tick
    <3> QED
      BY <3>1 DEF leave, TimeDifference
  <2> QED
    BY <2>2, <2>3
<1>2. filed' = filed
  BY <1>1 DEF filed
<1>3. leave' \in SUBSET leave
  <2>1. leave' \subseteq Ids
    BY DEF leave
  <2> QED
    BY <1>1, <2>1
<1> QED
  BY <1>1, <1>2, <1>3 DEF Owners, GoneStay

\* What each step does to the orders.
LEMMA OrdersStep ==
    ASSUME Inv, Owners, TasksKnow, [Next]_vars
    PROVE  Owners' /\ GoneStay
<1> USE DEF Inv, TableInv
<1>1. ASSUME orders' = orders
      PROVE  Owners' /\ GoneStay
  BY <1>1 DEF Owners, GoneStay
<1>2. ASSUME NEW h \in Handlers, Request(h)
      PROVE  Owners' /\ GoneStay
  <2>1. ASSUME NEW from \in Ids, NEW to \in Ids, DeleteRequest(h, from, to)
        PROVE  Owners' /\ GoneStay
    BY <2>1, StatusEnds DEF DeleteRequest
  <2> QED
    BY <1>1, <1>2, <2>1 DEF Request, ReferRequest, UndoRequest, StatusRequest,
       SaveRequest, ClearRequest, table
<1>3. ASSUME NEW h \in Handlers, Continue(h)
      PROVE  Owners' /\ GoneStay
  <2>1. CASE CreateFree(h) \/ CreatePending(h)
    <3>1. task[h].user \in Users
      BY <2>1 DEF TasksKnow, CreateFree, CreatePending
    <3>2. CASE CreateFree(h)
      BY <3>1, <3>2, InsertFiles DEF CreateFree
    <3>3. CASE CreatePending(h)
      BY <3>1, <3>3, InsertFiles DEF CreatePending
    <3> QED
      BY <2>1, <3>2, <3>3
  <2>2. CASE EndOne(h) \/ SaveEnd(h) \/ ClearDelete(h)
    BY <2>2, StatusEnds DEF EndOne, SaveEnd, ClearDelete
  <2> QED
    BY <1>1, <1>3, <2>1, <2>2 DEF Continue, DupCheck, SaveConfig, SaveMemory,
       ClearLook, DeleteRecords, table
<1>4. CASE Statement
  <2>1. ASSUME NEW o \in Ids, Agree(o) \/ Reject(o) \/ Stop(o)
        PROVE  Owners' /\ GoneStay
    BY <2>1, AgreeOpens, StatusEnds DEF Reject, Stop, Button
  <2>2. ASSUME NEW u \in Users, UndoQueryOrder(u)
        PROVE  Owners' /\ GoneStay
    BY <2>2, StatusEnds DEF UndoQueryOrder, Button
  <2> QED
    BY <1>4, <2>1, <2>2 DEF Statement
<1>5. ASSUME NEW k \in Sockets, Browse(k) \/ Answer(k)
      PROVE  Owners' /\ GoneStay
  <2>1. CASE EndAll(k)
    BY <2>1, StatusEnds DEF EndAll
  <2> QED
    BY <1>1, <1>5, <2>1 DEF Browse, Answer, Connect, Receive, Disconnect, Check, Run,
       table
<1>6. CASE Cron
  BY <1>1, <1>6, StatusEnds DEF Cron, CronList, CronEnd, table
<1>7. CASE Record \/ Restart \/ UNCHANGED vars
  BY <1>1, <1>7 DEF Record, WriteRecord, Restart, vars, table
<1>8. CASE Tick
  BY <1>8, TickEnds
<1> QED
  BY <1>2, <1>3, <1>4, <1>5, <1>6, <1>7, <1>8 DEF Next

\* What a request goroutine knows stays true.
LEMMA TasksKnowStep ==
    ASSUME Inv, TasksKnow, GoneStay, [Next]_vars
    PROVE  TasksKnow'
<1> DEFINE Filing(t) == t.pc \in {"createFree", "dupCheck", "createPending"}
<1>1. /\ task \in [Handlers -> TaskType]
      /\ \A o \in Ids : orders[o] \in OrderType
      /\ \A h \in Handlers : task[h].todo \subseteq Ids
  BY DEF Inv, TaskOK, TaskType, TableInv, TableOK
<1>2. \A h \in Handlers :
         /\ Filing(task[h]) => task[h].user \in Users
         /\ task[h].pc = "deleteRecords" =>
               \A o \in task[h].todo : orders[o].status = "gone" /\ orders'[o].status = "gone"
  BY <1>1 DEF TasksKnow, At, GoneStay
<1>3. ASSUME NEW h \in Handlers, NEW t, task' = [task EXCEPT ![h] = t],
             Filing(t) => t.user \in Users,
             t.pc = "deleteRecords" => \A o \in t.todo : orders'[o].status = "gone"
      PROVE  TasksKnow'
  <2>1. \A i \in Handlers : task'[i] = IF i = h THEN t ELSE task[i]
    BY <1>1, <1>3
  <2>2. \A i \in Handlers :
           /\ Filing(task'[i]) => task'[i].user \in Users
           /\ task'[i].pc = "deleteRecords"
                 => \A o \in task'[i].todo : orders'[o].status = "gone"
    BY <1>2, <1>3, <2>1
  <2> QED
    BY <2>2 DEF TasksKnow, At
<1>4. ASSUME UNCHANGED task
      PROVE  TasksKnow'
  BY <1>2, <1>4 DEF TasksKnow, At
<1>5. ASSUME NEW h \in Handlers, NEW t, task' = [task EXCEPT ![h] = t],
             ~Filing(t), t.pc # "deleteRecords"
      PROVE  TasksKnow'
  BY <1>3, <1>5
<1>6. ASSUME NEW h \in Handlers, Request(h)
      PROVE  TasksKnow'
  <2>1. ASSUME NEW u \in Users, NEW s \in Sources, ReferRequest(h, u, s)
        PROVE  TasksKnow'
    <3> DEFINE t == [Idle EXCEPT !.pc = IF audit THEN "dupCheck" ELSE "createFree",
                                 !.user = u, !.source = s]
    <3>1. t.user = u /\ t.pc # "deleteRecords"
      BY DEF Idle
    <3>2. task' = [task EXCEPT ![h] = t]
      BY <2>1 DEF ReferRequest, Serve
    <3> HIDE DEF t
    <3> QED
      BY <1>3, <3>1, <3>2
  <2>2. ASSUME NEW u \in Users, UndoRequest(h, u) \/ StatusRequest(h, u)
        PROVE  TasksKnow'
    <3> DEFINE t == [Idle EXCEPT !.pc = "endOne", !.todo = {LastOf(Owned(u))}]
    <3>1. task' = [task EXCEPT ![h] = t]
      BY <2>2 DEF UndoRequest, StatusRequest, Serve
    <3>2. ~Filing(t) /\ t.pc # "deleteRecords"
      BY DEF Idle
    <3> HIDE DEF t, Filing
    <3> QED
      BY <1>5, <3>1, <3>2
  <2>3. ASSUME NEW on \in BOOLEAN, SaveRequest(h, on)
        PROVE  TasksKnow'
    <3> DEFINE t == [Idle EXCEPT !.pc = IF on THEN "saveConfig" ELSE "saveEnd",
                                 !.on = on]
    <3>1. task' = [task EXCEPT ![h] = t]
      BY <2>3 DEF SaveRequest, Serve
    <3>2. ~Filing(t) /\ t.pc # "deleteRecords"
      BY DEF Idle
    <3> HIDE DEF t, Filing
    <3> QED
      BY <1>5, <3>1, <3>2
  <2>4. CASE ClearRequest(h)
    <3> DEFINE ended == {o \in Ids : orders[o].status = "ended"}
               t == [Idle EXCEPT !.pc = "clear", !.todo = ended]
    <3>1. task' = [task EXCEPT ![h] = t]
      BY <2>4 DEF ClearRequest, Serve
    <3>2. ~Filing(t) /\ t.pc # "deleteRecords"
      BY DEF Idle
    <3> HIDE DEF t, Filing
    <3> QED
      BY <1>5, <3>1, <3>2
  <2>5. ASSUME NEW from \in Ids, NEW to \in Ids, DeleteRequest(h, from, to)
        PROVE  TasksKnow'
    <3> DEFINE range == {o \in from .. to : Exists(o)}
               t == [Idle EXCEPT !.pc = "deleteRecords", !.todo = range]
    <3>1. task' = [task EXCEPT ![h] = t] /\ SetStatus(range, "gone")
      BY <2>5 DEF DeleteRequest, Serve
    <3>2. ~Filing(t) /\ t.todo = range
      BY DEF Idle
    <3>3. ASSUME NEW o \in range
          PROVE  orders'[o].status = "gone"
      <4>1. Exists(o) /\ o \in Ids
        BY DEF Exists
      <4>2. orders'[o] = [orders[o] EXCEPT !.status = "gone", !.age = 0]
        BY <3>1, <4>1 DEF SetStatus
      <4> QED
        BY <1>1, <4>1, <4>2 DEF OrderType
    <3> HIDE DEF t, range
    <3> QED
      BY <1>3, <3>1, <3>2, <3>3
  <2> QED
    BY <1>6, <2>1, <2>2, <2>3, <2>4, <2>5 DEF Request
<1>7. ASSUME NEW h \in Handlers, Continue(h)
      PROVE  TasksKnow'
  <2>1. CASE task' = [task EXCEPT ![h] = Idle]
    <3>1. ~Filing(Idle) /\ Idle.pc # "deleteRecords"
      BY DEF Idle
    <3> HIDE DEF Filing
    <3> QED
      BY <1>5, <2>1, <3>1
  <2>2. ASSUME NEW pc, Goto(h, pc), pc # "deleteRecords",
               pc \in {"createFree", "dupCheck", "createPending"} => task[h].user \in Users
        PROVE  TasksKnow'
    <3> DEFINE t == [task[h] EXCEPT !.pc = pc]
    <3>1. t.pc = pc /\ t.user = task[h].user
      BY <1>1 DEF TaskType
    <3>2. task' = [task EXCEPT ![h] = t]
      BY <2>2 DEF Goto
    <3> HIDE DEF t
    <3> QED
      BY <1>3, <2>2, <3>1, <3>2
  <2>3. CASE DupCheck(h)
    <3>1. task[h].user \in Users
      BY <1>2, <2>3 DEF DupCheck, At
    <3> QED
      BY <2>1, <2>2, <2>3, <3>1 DEF DupCheck, Reply
  <2>4. CASE SaveEnd(h) \/ SaveConfig(h)
    BY <2>2, <2>4 DEF SaveEnd, SaveConfig
  <2>5. ASSUME NEW t \in TaskType, t.pc = "clear", task' = [task EXCEPT ![h] = t]
        PROVE  TasksKnow'
    BY <1>5, <2>5
  <2>6. CASE ClearLook(h) \/ ClearDelete(h)
    <3> DEFINE a == [task[h] EXCEPT !.todo = Rest(h)]
               b == [task[h] EXCEPT !.pc = "clear", !.todo = Rest(h)]
    <3>1. a \in TaskType /\ a.pc = task[h].pc /\ b \in TaskType /\ b.pc = "clear"
      BY <1>1 DEF TaskType, Rest
    <3>2. \/ Goto(h, "clearDelete")
          \/ task' = [task EXCEPT ![h] = Idle]
          \/ task[h].pc = "clear" /\ task' = [task EXCEPT ![h] = a]
          \/ task' = [task EXCEPT ![h] = b]
      <4>1. CASE Rest(h) = {}
        BY <2>6, <4>1 DEF ClearLook, ClearDelete, At
      <4>2. CASE Rest(h) # {}
        BY <2>6, <4>2 DEF ClearLook, ClearDelete, At
      <4> QED
        BY <4>1, <4>2
    <3> HIDE DEF a, b
    <3> QED
      BY <2>1, <2>2, <2>5, <3>1, <3>2
  <2> QED
    BY <1>7, <2>1, <2>3, <2>4, <2>6 DEF Continue, CreateFree, CreatePending, EndOne,
       SaveMemory, DeleteRecords, Reply
<1>8. CASE Restart
  BY <1>8 DEF Restart, TasksKnow, At, Idle
<1>9. CASE Statement \/ Record \/ Cron \/ Tick \/ UNCHANGED vars
  BY <1>4, <1>9 DEF Statement, Agree, Reject, Stop, UndoQueryOrder, Button, Record,
     WriteRecord, Cron, CronList, CronEnd, Tick, vars
<1>10. ASSUME NEW k \in Sockets, Browse(k) \/ Answer(k)
       PROVE  TasksKnow'
  BY <1>4, <1>10 DEF Browse, Answer, Connect, Receive, Disconnect, Check, EndAll, Run
<1> QED
  BY <1>6, <1>7, <1>8, <1>9, <1>10 DEF Next

-----------------------------------------------------------------------------
(***************************************************************************)
(* Second, the messages: no two of those that are under way, or have a     *)
(* record, have the same number.                                           *)
(***************************************************************************)

\* The connections that look at a message or run it.
Busy == {k \in Sockets : Socket(k, "check") \/ Socket(k, "run")}

MessagesApart ==
    /\ \A k \in Busy : socket[k].number \in 1 .. queries
    /\ \A g \in recording : g.number \in 1 .. queries
    /\ \A r \in records : r.number \in 1 .. queries
    /\ \A k, l \in Busy : socket[k].number = socket[l].number => k = l
    /\ \A k \in Busy : \A m \in recording \union records : m.number # socket[k].number
    /\ \A f, g \in recording : f.number = g.number => f = g
    /\ \A g \in recording : \A r \in records : r.number # g.number
    /\ \A q, r \in records : q.number = r.number => q = r

\* A connection that looks at nothing any more, or goes on with the message it has.
LEMMA ConnectionApart ==
    ASSUME Inv, MessagesApart, NEW k \in Sockets, NEW s, SetSocket(k, s),
           s.pc \in {"check", "run"} => k \in Busy /\ s.number = socket[k].number,
           UNCHANGED <<recording, records, queries>>
    PROVE  MessagesApart'
<1>1. \A i \in Sockets : socket'[i] = IF i = k THEN s ELSE socket[i]
  BY DEF SetSocket, Inv, SocketInv, SocketOK
<1>2. \A i \in Busy' : i \in Busy /\ socket'[i].number = socket[i].number
  BY <1>1 DEF Busy, Socket
<1> QED
  BY <1>2 DEF MessagesApart

\* A connection is given a new message.
LEMMA ReceiveApart ==
    ASSUME Inv, MessagesApart, NEW k \in Sockets, Receive(k)
    PROVE  MessagesApart'
<1> DEFINE s == [socket[k] EXCEPT !.pc = "check", !.number = queries + 1]
<1>1. socket \in [Sockets -> SocketType] /\ queries \in Nat
  BY QueryAssumption DEF Inv, SocketInv, SocketOK
<1>2. s.number = queries + 1 /\ SetSocket(k, s)
  BY <1>1 DEF Receive, SocketType
<1>3. queries' = queries + 1 /\ recording' = recording /\ records' = records
  BY DEF Receive
<1> HIDE DEF s
<1>4. \A i \in Sockets : socket'[i] = IF i = k THEN s ELSE socket[i]
  BY <1>1, <1>2 DEF SetSocket
<1>5. k \notin Busy
  BY DEF Receive, Busy, Socket
<1>6. \A i \in Busy' : IF i = k THEN socket'[i].number = queries + 1
                                ELSE i \in Busy /\ socket'[i].number = socket[i].number
  BY <1>2, <1>4 DEF Busy, Socket
<1>7. \A n \in 1 .. queries : n \in 1 .. queries' /\ n # queries + 1
  BY <1>1, <1>3
<1>8. queries + 1 \in 1 .. queries'
  BY <1>1, <1>3
<1>9. /\ \A i \in Busy' : socket'[i].number \in 1 .. queries'
      /\ \A g \in recording' : g.number \in 1 .. queries'
      /\ \A r \in records' : r.number \in 1 .. queries'
  BY <1>3, <1>6, <1>7, <1>8 DEF MessagesApart
<1>10. \A i, j \in Busy' : socket'[i].number = socket'[j].number => i = j
  BY <1>6, <1>7 DEF MessagesApart
<1>11. \A i \in Busy' : \A m \in recording' \union records' : m.number # socket'[i].number
  BY <1>3, <1>6, <1>7 DEF MessagesApart
<1>12. /\ \A f, g \in recording' : f.number = g.number => f = g
       /\ \A g \in recording' : \A r \in records' : r.number # g.number
       /\ \A q, r \in records' : q.number = r.number => q = r
  BY <1>3 DEF MessagesApart
<1> QED
  BY <1>9, <1>10, <1>11, <1>12 DEF MessagesApart

\* A message runs; what is left of it is a goroutine that records it.
LEMMA RunApart ==
    ASSUME Inv, MessagesApart, NEW k \in Sockets, Run(k)
    PROVE  MessagesApart'
<1> DEFINE s == Answered(k)
           g == [number |-> socket[k].number, order |-> socket[k].order,
                 user |-> socket[k].user]
<1>1. /\ SetSocket(k, s) /\ k \in Busy /\ queries' = queries /\ records' = records
      /\ recording' = recording \/ recording' = recording \union {g}
  BY DEF Run, Busy, Socket
<1>2. socket \in [Sockets -> SocketType]
  BY DEF Inv, SocketInv, SocketOK
<1>3. s.pc = "open" /\ g.number = socket[k].number
  BY <1>2, AnsweredKept
<1> HIDE DEF s, g
<1>4. \A i \in Sockets : socket'[i] = IF i = k THEN s ELSE socket[i]
  BY <1>1, <1>2 DEF SetSocket
<1>5. \A i \in Busy' : i # k /\ i \in Busy /\ socket'[i] = socket[i]
  BY <1>3, <1>4 DEF Busy, Socket
<1>6. \A f \in recording' : f \in recording \/ f = g
  BY <1>1
<1>7. /\ \A i \in Busy' : socket'[i].number \in 1 .. queries'
      /\ \A f \in recording' : f.number \in 1 .. queries'
      /\ \A r \in records' : r.number \in 1 .. queries'
  BY <1>1, <1>3, <1>5, <1>6 DEF MessagesApart
<1>8. /\ \A i, j \in Busy' : socket'[i].number = socket'[j].number => i = j
      /\ \A i \in Busy' : \A m \in recording' \union records' : m.number # socket'[i].number
  BY <1>1, <1>3, <1>5, <1>6 DEF MessagesApart
<1>9. /\ \A f, h \in recording' : f.number = h.number => f = h
      /\ \A f \in recording' : \A r \in records' : r.number # f.number
      /\ \A q, r \in records' : q.number = r.number => q = r
  BY <1>1, <1>3, <1>6 DEF MessagesApart
<1> QED
  BY <1>7, <1>8, <1>9 DEF MessagesApart

\* A message is recorded.
LEMMA RecordApart ==
    ASSUME Inv, MessagesApart, NEW g \in recording, WriteRecord(g)
    PROVE  MessagesApart'
<1> DEFINE r == [number |-> g.number, order |-> g.order]
<1>1. /\ records' = records \union {r} /\ recording' = recording \ {g}
      /\ UNCHANGED <<socket, queries>>
  BY DEF WriteRecord
<1>2. r.number = g.number
  OBVIOUS
<1> HIDE DEF r
<1>3. Busy' = Busy
  BY <1>1 DEF Busy, Socket
<1>4. \A f \in recording' : f \in recording /\ f.number # g.number
  BY <1>1 DEF MessagesApart
<1> QED
  BY <1>1, <1>2, <1>3, <1>4 DEF MessagesApart

\* The messages stay apart at every step.
LEMMA MessagesStep ==
    ASSUME Inv, MessagesApart, [Next]_vars
    PROVE  MessagesApart'
<1>1. ASSUME UNCHANGED ws, records' \subseteq records
      PROVE  MessagesApart'
  <2>1. Busy' = Busy /\ UNCHANGED <<socket, recording, queries>>
    BY <1>1 DEF Busy, Socket, ws
  <2> QED
    BY <1>1, <2>1 DEF MessagesApart
<1>2. ASSUME NEW h \in Handlers, Request(h) \/ Continue(h)
      PROVE  MessagesApart'
  BY <1>1, <1>2 DEF Request, ReferRequest, UndoRequest, StatusRequest, SaveRequest,
     ClearRequest, DeleteRequest, Serve, Continue, CreateFree, DupCheck, CreatePending,
     EndOne, SaveEnd, SaveConfig, SaveMemory, ClearLook, ClearDelete, DeleteRecords
<1>3. CASE Statement \/ Cron \/ Tick \/ UNCHANGED vars
  BY <1>1, <1>3 DEF Statement, Agree, Reject, Stop, UndoQueryOrder, Button, Cron,
     CronList, CronEnd, Tick, vars
<1>4. socket \in [Sockets -> SocketType]
  BY DEF Inv, SocketInv, SocketOK
<1>5. ASSUME NEW k \in Sockets, Browse(k)
      PROVE  MessagesApart'
  <2>1. ASSUME NEW u \in Users, NEW s \in Sources, Connect(k, u, s)
        PROVE  MessagesApart'
    <3> DEFINE c == [Off EXCEPT !.pc = "open", !.user = u, !.source = s]
    <3>1. c.pc = "open"
      BY DEF Off
    <3>2. SetSocket(k, c) /\ UNCHANGED <<recording, records, queries>>
      BY <2>1 DEF Connect
    <3> HIDE DEF c
    <3> QED
      BY <3>1, <3>2, ConnectionApart
  <2>2. CASE Disconnect(k)
    <3>1. Off.pc = "off"
      BY DEF Off
    <3> QED
      BY <2>2, <3>1, ConnectionApart DEF Disconnect
  <2> QED
    BY <1>5, <2>1, <2>2, ReceiveApart DEF Browse
<1>6. ASSUME NEW k \in Sockets, Answer(k)
      PROVE  MessagesApart'
  <2>1. CASE Check(k) \/ EndAll(k)
    <3> DEFINE to(pc) == [socket[k] EXCEPT !.pc = pc]
               d      == LastOf(ApprovedOf(socket[k].user))
               run    == [socket[k] EXCEPT !.pc = "run", !.order = d]
    <3>1. \/ SetSocket(k, Answered(k))
          \/ SetSocket(k, to("endAll"))
          \/ k \in Busy /\ SetSocket(k, run)
      BY <2>1 DEF Check, EndAll, Busy
    <3>2. UNCHANGED <<recording, records, queries>>
      BY <2>1 DEF Check, EndAll
    <3>3. /\ Answered(k).pc = "open" /\ to("endAll").pc = "endAll"
          /\ run.number = socket[k].number
      BY <1>4, AnsweredKept DEF SocketType
    <3> HIDE DEF to, run
    <3>4. CASE SetSocket(k, Answered(k))
      BY <3>2, <3>3, <3>4, ConnectionApart
    <3>5. CASE SetSocket(k, to("endAll"))
      BY <3>2, <3>3, <3>5, ConnectionApart
    <3>6. CASE k \in Busy /\ SetSocket(k, run)
      BY <3>2, <3>3, <3>6, ConnectionApart
    <3> QED
      BY <3>1, <3>4, <3>5, <3>6
  <2> QED
    BY <1>6, <2>1, RunApart DEF Answer
<1>7. CASE Record
  BY <1>7, RecordApart DEF Record
<1>8. CASE Restart
  <2>1. Busy' = {} /\ recording' = {} /\ records' = records /\ queries' = queries
    BY <1>8 DEF Restart, Busy, Socket, Off
  <2> QED
    BY <2>1 DEF MessagesApart
<1> QED
  BY <1>2, <1>3, <1>5, <1>6, <1>7, <1>8 DEF Next

-----------------------------------------------------------------------------
(***************************************************************************)
(* Third, the steps of QueryAccess.                                        *)
(***************************************************************************)

\* The messages that wait, and those that may run, when one connection takes a step.
LEMMA WaitingAfter ==
    ASSUME Inv, MessagesApart, NEW k \in Sockets, NEW s, SetSocket(k, s)
    PROVE  waiting' = (IF Socket(k, "check")
                       THEN waiting \ {<<socket[k].number, socket[k].user>>}
                       ELSE waiting)
                      \union (IF s.pc = "check" THEN {<<s.number, s.user>>} ELSE {})
<1> DEFINE P(i) == <<socket[i].number, socket[i].user>>
           Q    == <<s.number, s.user>>
           A    == IF Socket(k, "check") THEN waiting \ {P(k)} ELSE waiting
           B    == IF s.pc = "check" THEN {Q} ELSE {}
<1>1. \A i \in Sockets : socket'[i] = IF i = k THEN s ELSE socket[i]
  BY DEF SetSocket, Inv, SocketInv, SocketOK
<1>2. \A w : w \in waiting' <=> \E i \in Sockets :
                 IF i = k THEN s.pc = "check" /\ w = Q
                          ELSE Socket(i, "check") /\ w = P(i)
  BY <1>1 DEF waiting, On, Socket
<1>3. \A w : w \in waiting <=> \E i \in Sockets : Socket(i, "check") /\ w = P(i)
  BY DEF waiting, On
<1>4. \A i, j \in Sockets : Socket(i, "check") /\ Socket(j, "check") /\ P(i) = P(j) => i = j
  BY DEF MessagesApart, Busy
<1>5. ASSUME NEW w
      PROVE  w \in A <=> \E i \in Sockets : i # k /\ Socket(i, "check") /\ w = P(i)
  <2> HIDE DEF P
  <2>1. CASE Socket(k, "check")
    BY <1>3, <1>4, <2>1
  <2>2. CASE ~Socket(k, "check")
    BY <1>3, <2>2
  <2> QED
    BY <2>1, <2>2
<1>6. ASSUME NEW w
      PROVE  w \in B <=> s.pc = "check" /\ w = Q
  OBVIOUS
<1> HIDE DEF A, B, P, Q
<1>7. \A w : w \in waiting' <=> w \in A \union B
  BY <1>2, <1>5, <1>6
<1>8. waiting' = A \union B
  BY <1>7
<1> QED
  BY <1>8 DEF A, B, P, Q

LEMMA AdmittedAfter ==
    ASSUME Inv, MessagesApart, NEW k \in Sockets, NEW s, SetSocket(k, s)
    PROVE  admitted' = (IF Socket(k, "run")
                        THEN admitted \ {<<socket[k].number, socket[k].order>>}
                        ELSE admitted)
                       \union (IF s.pc = "run" THEN {<<s.number, s.order>>} ELSE {})
<1> DEFINE P(i) == <<socket[i].number, socket[i].order>>
           Q    == <<s.number, s.order>>
           A    == IF Socket(k, "run") THEN admitted \ {P(k)} ELSE admitted
           B    == IF s.pc = "run" THEN {Q} ELSE {}
<1>1. \A i \in Sockets : socket'[i] = IF i = k THEN s ELSE socket[i]
  BY DEF SetSocket, Inv, SocketInv, SocketOK
<1>2. \A w : w \in admitted' <=> \E i \in Sockets :
                 IF i = k THEN s.pc = "run" /\ w = Q
                          ELSE Socket(i, "run") /\ w = P(i)
  BY <1>1 DEF admitted, On, Socket
<1>3. \A w : w \in admitted <=> \E i \in Sockets : Socket(i, "run") /\ w = P(i)
  BY DEF admitted, On
<1>4. \A i, j \in Sockets : Socket(i, "run") /\ Socket(j, "run") /\ P(i) = P(j) => i = j
  BY DEF MessagesApart, Busy
<1>5. ASSUME NEW w
      PROVE  w \in A <=> \E i \in Sockets : i # k /\ Socket(i, "run") /\ w = P(i)
  <2> HIDE DEF P
  <2>1. CASE Socket(k, "run")
    BY <1>3, <1>4, <2>1
  <2>2. CASE ~Socket(k, "run")
    BY <1>3, <2>2
  <2> QED
    BY <2>1, <2>2
<1>6. ASSUME NEW w
      PROVE  w \in B <=> s.pc = "run" /\ w = Q
  OBVIOUS
<1> HIDE DEF A, B, P, Q
<1>7. \A w : w \in admitted' <=> w \in A \union B
  BY <1>2, <1>5, <1>6
<1>8. admitted' = A \union B
  BY <1>7
<1> QED
  BY <1>8 DEF A, B, P, Q

\* What leaves the connections and the records alone leaves the messages alone, and what
\* leaves the orders alone leaves the leave to query alone.
LEMMA MessagesSame ==
    ASSUME UNCHANGED <<ws, records>>
    PROVE  UNCHANGED <<queries, waiting, admitted, unwritten, recorded>>
<1>1. UNCHANGED <<queries, socket, recording, records>>
  BY DEF ws
<1> QED
  BY <1>1 DEF waiting, admitted, unwritten, recorded, On, Socket

LEMMA AccessSame ==
    ASSUME orders' = orders
    PROVE  UNCHANGED <<filed, leave>>
  BY DEF filed, leave, TimeDifference

\* Orders that go out of force, and nothing else, and a step of nothing.
LEMMA EndMaps ==
    ASSUME UNCHANGED <<ws, records>>, filed' = filed, leave' \in SUBSET leave
    PROVE  Access!Next
<1>1. UNCHANGED <<queries, waiting, admitted, unwritten, recorded>>
  BY MessagesSame
<1>2. Access!End
  BY <1>1 DEF Access!End, Access!messages
<1> QED
  BY <1>2 DEF Access!Next

LEMMA StutterMaps ==
    ASSUME UNCHANGED <<ws, records, orders>>
    PROVE  UNCHANGED Access!abstract
<1>1. UNCHANGED <<queries, waiting, admitted, unwritten, recorded>>
  BY MessagesSame
<1>2. UNCHANGED <<filed, leave>>
  BY AccessSame
<1> QED
  BY <1>1, <1>2 DEF Access!abstract, Access!access, Access!messages

\* The newest order in force.
LEMMA LastIsNewest ==
    ASSUME Inv, NEW u, LastOf(ApprovedOf(u)) # 0, NEW o \in ApprovedOf(u)
    PROVE  o <= LastOf(ApprovedOf(u))
<1>1. MaxOrders \in Nat /\ ApprovedOf(u) \in SUBSET (0 .. MaxOrders)
  BY QueryAssumption DEF ApprovedOf, Owned, Ids
<1>2. \A x \in ApprovedOf(u) : x <= Max(ApprovedOf(u))
  BY <1>1, MaxIsElement
<1> QED
  BY <1>2 DEF LastOf

\* A message is looked at.
LEMMA CheckMaps ==
    ASSUME Inv, MessagesApart, NEW k \in Sockets, Check(k)
    PROVE  Access!Next
<1> DEFINE m == socket[k].number
           u == socket[k].user
           d == LastOf(ApprovedOf(u))
           end == [socket[k] EXCEPT !.pc = "endAll"]
           run == [socket[k] EXCEPT !.pc = "run", !.order = d]
<1>1. socket[k] \in SocketType /\ Socket(k, "check") /\ ~Socket(k, "run")
  BY DEF Inv, SocketInv, SocketOK, Check, Socket
<1>2. m \in 1 .. queries /\ u \in Users
  BY <1>1 DEF MessagesApart, Busy, Inv, SocketInv, Received, Socket
<1>3. <<m, u>> \in waiting
  BY <1>1 DEF waiting, On
<1>4. UNCHANGED <<orders, recording, records, queries>>
  BY DEF Check, table
<1>5. UNCHANGED <<filed, leave, queries, unwritten, recorded>>
  BY <1>4, AccessSame DEF unwritten, recorded
<1>6. ASSUME NEW s \in {Answered(k), end}, SetSocket(k, s)
      PROVE  Access!Next
  <2>1. s.pc \notin {"check", "run"}
    BY <1>1, AnsweredKept DEF SocketType
  <2>2. waiting' = waiting \ {<<m, u>>} /\ admitted' = admitted
    BY <1>1, <1>6, <2>1, WaitingAfter, AdmittedAfter
  <2>3. Access!Refuse(m, u)
    BY <1>3, <1>5, <2>2 DEF Access!Refuse, Access!access
  <2> QED
    BY <1>2, <2>3 DEF Access!Next
<1>7. ASSUME d # 0, ~TimeDifference(d), SetSocket(k, run)
      PROVE  Access!Next
  <2>1. d \in ApprovedOf(u)
    BY <1>7, LastOfIsElement DEF ApprovedOf, Owned
  <2>2. d \in Ids /\ d \in leave /\ filed[d] = u
    BY <1>7, <2>1 DEF ApprovedOf, Owned, leave, filed
  <2>3. \A o \in leave : filed[o] = u => o <= d
    <3>1. \A o \in leave : filed[o] = u => o \in ApprovedOf(u)
      BY DEF leave, filed, ApprovedOf, Owned, Exists
    <3> QED
      BY <1>7, <3>1, LastIsNewest
  <2> HIDE DEF d
  <2>4. run.pc = "run" /\ run.number = m /\ run.order = d
    BY <1>1 DEF SocketType
  <2> HIDE DEF run
  <2>5. waiting' = waiting \ {<<m, u>>} /\ admitted' = admitted \union {<<m, d>>}
    BY <1>1, <1>7, <2>4, WaitingAfter, AdmittedAfter
  <2>6. Access!Admit(m, u, d)
    BY <1>3, <1>5, <2>2, <2>3, <2>5 DEF Access!Admit, Access!access
  <2> QED
    BY <1>2, <2>2, <2>6 DEF Access!Next
<1>8. \/ \E s \in {Answered(k), end} : SetSocket(k, s)
      \/ d # 0 /\ ~TimeDifference(d) /\ SetSocket(k, run)
  BY DEF Check
<1> QED
  BY <1>6, <1>7, <1>8

\* A message runs.
LEMMA RunMaps ==
    ASSUME Inv, MessagesApart, NEW k \in Sockets, Run(k)
    PROVE  Access!Next
<1> DEFINE m == socket[k].number
           o == socket[k].order
           s == Answered(k)
           g == [number |-> m, order |-> o, user |-> socket[k].user]
<1>1. /\ SetSocket(k, s) /\ Socket(k, "run") /\ ~Socket(k, "check")
      /\ UNCHANGED <<orders, records, queries>>
      /\ recording' = recording \/ recording' = recording \union {g}
  BY DEF Run, Socket, table
<1>2. s.pc = "open" /\ g.number = m /\ g.order = o
  BY AnsweredKept DEF Inv, SocketInv, SocketOK
<1>3. m \in 1 .. queries
  BY <1>1 DEF MessagesApart, Busy
<1>4. o \in Ids
  BY <1>1 DEF Inv, SocketInv, RunsUnderGrantedOrder, TableInv, TableOK
<1>5. <<m, o>> \in admitted
  BY <1>1 DEF admitted, On
<1>6. unwritten' = unwritten \/ unwritten' = unwritten \union {<<m, o>>}
  BY <1>1, <1>2 DEF unwritten
<1> HIDE DEF s, g
<1>7. waiting' = waiting /\ admitted' = admitted \ {<<m, o>>}
  BY <1>1, <1>2, WaitingAfter, AdmittedAfter
<1>8. UNCHANGED <<filed, leave, queries, recorded>>
  BY <1>1, AccessSame DEF recorded
<1>9. Access!Run(m, o)
  BY <1>5, <1>6, <1>7, <1>8 DEF Access!Run, Access!access
<1> QED
  BY <1>3, <1>4, <1>9 DEF Access!Next

\* A message is recorded.
LEMMA RecordMaps ==
    ASSUME Inv, MessagesApart, NEW g \in recording, WriteRecord(g)
    PROVE  Access!Next
<1> DEFINE m == g.number
           o == g.order
           r == [number |-> m, order |-> o]
<1>1. /\ records' = records \union {r} /\ recording' = recording \ {g}
      /\ UNCHANGED <<orders, socket, queries>>
  BY DEF WriteRecord, table
<1>2. r.number = m /\ r.order = o
  OBVIOUS
<1> HIDE DEF r
<1>3. m \in 1 .. queries /\ o \in Ids
  BY DEF MessagesApart, Inv, SocketInv, SocketOK, RecordingType
<1>4. \A f \in recording : f # g => f.number # m
  BY DEF MessagesApart
<1>5. unwritten' = unwritten \ {<<m, o>>}
  <2>1. \A w : w \in unwritten' <=> \E f \in recording : f # g /\ w = <<f.number, f.order>>
    BY <1>1 DEF unwritten
  <2>2. \A w : w \in unwritten <=> \E f \in recording : w = <<f.number, f.order>>
    BY DEF unwritten
  <2>3. \A w : w \in unwritten' <=> w \in unwritten \ {<<m, o>>}
    BY <1>4, <2>1, <2>2
  <2> QED
    BY <2>3
<1>6. recorded' = recorded \union {<<m, o>>}
  BY <1>1, <1>2 DEF recorded
<1>7. <<m, o>> \in unwritten
  BY DEF unwritten
<1>8. UNCHANGED <<filed, leave, queries, waiting, admitted>>
  BY <1>1, AccessSame DEF waiting, admitted, On, Socket
<1>9. Access!Record(m, o)
  BY <1>5, <1>6, <1>7, <1>8 DEF Access!Record, Access!access
<1> QED
  BY <1>3, <1>9 DEF Access!Next

\* A connection that is opened, closed or given a message, or that ends the orders.
LEMMA ConnectionMaps ==
    ASSUME Inv, MessagesApart, Owners, NEW k \in Sockets, Browse(k) \/ EndAll(k)
    PROVE  Access!Next \/ UNCHANGED Access!abstract
<1>1. socket[k] \in SocketType /\ queries \in Nat
  BY QueryAssumption DEF Inv, SocketInv, SocketOK
<1>2. UNCHANGED <<recording, records>>
  BY DEF Browse, EndAll, Connect, Receive, Disconnect
<1>3. UNCHANGED <<unwritten, recorded>>
  BY <1>2 DEF unwritten, recorded
<1>4. ASSUME NEW s, SetSocket(k, s), s.pc \notin {"check", "run"},
             ~Socket(k, "check"), ~Socket(k, "run")
      PROVE  UNCHANGED <<waiting, admitted>>
  BY <1>4, WaitingAfter, AdmittedAfter
<1>5. ASSUME NEW u \in Users, NEW s \in Sources, Connect(k, u, s)
      PROVE  UNCHANGED Access!abstract
  <2> DEFINE c == [Off EXCEPT !.pc = "open", !.user = u, !.source = s]
  <2>1. /\ SetSocket(k, c) /\ c.pc = "open" /\ UNCHANGED <<orders, queries>>
        /\ ~Socket(k, "check") /\ ~Socket(k, "run")
    BY <1>5 DEF Connect, Off, Socket, table
  <2> HIDE DEF c
  <2> QED
    BY <1>3, <1>4, <2>1, AccessSame DEF Access!abstract, Access!access, Access!messages
<1>6. CASE Disconnect(k)
  <2>1. /\ SetSocket(k, Off) /\ Off.pc = "off" /\ UNCHANGED <<orders, queries>>
        /\ ~Socket(k, "check") /\ ~Socket(k, "run")
    BY <1>6 DEF Disconnect, Off, Socket, table
  <2>2. UNCHANGED <<waiting, admitted>>
    BY <1>4, <2>1
  <2> QED
    BY <1>3, <2>1, <2>2, AccessSame DEF Access!abstract, Access!access, Access!messages
<1>7. CASE EndAll(k)
  <2> DEFINE c == Answered(k)
  <2>1. /\ SetSocket(k, c) /\ queries' = queries
        /\ ~Socket(k, "check") /\ ~Socket(k, "run")
    BY <1>7 DEF EndAll, Socket
  <2>2. c.pc = "open"
    BY <1>1, AnsweredKept
  <2> HIDE DEF c
  <2>3. UNCHANGED <<waiting, admitted>>
    BY <1>4, <2>1, <2>2
  <2>4. filed' = filed /\ leave' \in SUBSET leave
    BY <1>7, StatusEnds DEF EndAll, Inv, TableInv
  <2>5. Access!End
    BY <1>3, <2>1, <2>3, <2>4 DEF Access!End, Access!messages
  <2> QED
    BY <2>5 DEF Access!Next
<1>8. CASE Receive(k)
  <2> DEFINE c == [socket[k] EXCEPT !.pc = "check", !.number = queries + 1]
             u == socket[k].user
  <2>1. /\ SetSocket(k, c) /\ queries' = queries + 1 /\ orders' = orders
        /\ Socket(k, "open") /\ ~Socket(k, "check") /\ ~Socket(k, "run")
    BY <1>8 DEF Receive, Socket, table
  <2>2. c.pc = "check" /\ c.number = queries + 1 /\ c.user = u
    BY <1>1 DEF SocketType
  <2> HIDE DEF c
  <2>3. waiting' = waiting \union {<<queries + 1, u>>} /\ admitted' = admitted
    BY <2>1, <2>2, WaitingAfter, AdmittedAfter
  <2>4. u \in Users
    BY <2>1 DEF Inv, SocketInv, Received, Socket
  <2>5. UNCHANGED <<filed, leave>>
    BY <2>1, AccessSame
  <2>6. Access!Receive(u)
    BY <1>3, <2>1, <2>3, <2>5 DEF Access!Receive, Access!access
  <2> QED
    BY <2>4, <2>6 DEF Access!Next
<1> QED
  BY <1>5, <1>6, <1>7, <1>8 DEF Browse

\* A request goroutine.
LEMMA TaskMaps ==
    ASSUME Inv, Owners, TasksKnow, NEW h \in Handlers, Request(h) \/ Continue(h)
    PROVE  Access!Next \/ UNCHANGED Access!abstract
<1> USE DEF Inv, TableInv
<1>1. UNCHANGED ws
  BY DEF Request, ReferRequest, UndoRequest, StatusRequest, SaveRequest, ClearRequest,
     DeleteRequest, Serve, Continue, CreateFree, DupCheck, CreatePending, EndOne, SaveEnd,
     SaveConfig, SaveMemory, ClearLook, ClearDelete, DeleteRecords
<1>2. ASSUME UNCHANGED <<orders, records>>
      PROVE  UNCHANGED Access!abstract
  BY <1>1, <1>2, StutterMaps
<1>3. ASSUME NEW S, NEW status \in {"ended", "rejected", "gone"}, SetStatus(S, status),
             records' = records
      PROVE  Access!Next
  BY <1>1, <1>3, StatusEnds, EndMaps
<1>4. CASE Request(h)
  <2>1. ASSUME NEW from \in Ids, NEW to \in Ids, DeleteRequest(h, from, to)
        PROVE  Access!Next
    BY <1>3, <2>1 DEF DeleteRequest, Serve
  <2> QED
    BY <1>2, <1>4, <2>1 DEF Request, ReferRequest, UndoRequest, StatusRequest,
       SaveRequest, ClearRequest, Serve, table
<1>5. CASE CreateFree(h) \/ CreatePending(h)
  <2>1. task[h].user \in Users
    BY <1>5 DEF TasksKnow, CreateFree, CreatePending
  <2>2. /\ last + 1 \in Ids /\ filed[last + 1] = None
        /\ filed' = [filed EXCEPT ![last + 1] = task[h].user]
        /\ leave' \in {leave, leave \union {last + 1}}
    <3>1. CASE CreateFree(h)
      BY <2>1, <3>1, InsertFiles DEF CreateFree
    <3>2. CASE CreatePending(h)
      BY <2>1, <3>2, InsertFiles DEF CreatePending
    <3> QED
      BY <1>5, <3>1, <3>2
  <2>3. UNCHANGED <<queries, waiting, admitted, unwritten, recorded>>
    BY <1>1, <1>5, MessagesSame DEF CreateFree, CreatePending
  <2>4. Access!File(task[h].user, last + 1)
    BY <2>2, <2>3 DEF Access!File, Access!messages
  <2> QED
    BY <2>1, <2>2, <2>4 DEF Access!Next
<1>6. CASE EndOne(h) \/ SaveEnd(h) \/ ClearDelete(h)
  BY <1>3, <1>6 DEF EndOne, SaveEnd, ClearDelete
<1>7. CASE DeleteRecords(h)
  <2> DEFINE S == task[h].todo
  <2>1. S \in SUBSET Ids /\ \A o \in S : orders[o].status = "gone"
    BY <1>7 DEF TaskOK, TaskType, TasksKnow, DeleteRecords
  <2>2. S \intersect leave = {}
    BY <2>1 DEF leave
  <2>3. records' = {r \in records : r.order \notin S} /\ orders' = orders
    BY <1>7 DEF DeleteRecords, table
  <2> HIDE DEF S
  <2>4. recorded' = {p \in recorded : p[2] \notin S}
    <3>1. \A p : p \in recorded' <=> \E r \in records : r.order \notin S
                                                       /\ p = <<r.number, r.order>>
      BY <2>3 DEF recorded
    <3>2. \A p : p \in recorded <=> \E r \in records : p = <<r.number, r.order>>
      BY DEF recorded
    <3>3. \A p : p \in recorded' <=> p \in {q \in recorded : q[2] \notin S}
      BY <3>1, <3>2
    <3> QED
      BY <3>3
  <2>5. UNCHANGED <<filed, leave, queries, waiting, admitted, unwritten>>
    BY <1>1, <2>3, AccessSame DEF ws, waiting, admitted, unwritten, On, Socket
  <2>6. Access!Erase(S)
    BY <2>2, <2>4, <2>5 DEF Access!Erase, Access!access
  <2> QED
    BY <2>1, <2>6 DEF Access!Next
<1>8. CASE DupCheck(h) \/ SaveConfig(h) \/ SaveMemory(h) \/ ClearLook(h)
  BY <1>2, <1>8 DEF DupCheck, SaveConfig, SaveMemory, ClearLook, table
<1> QED
  BY <1>4, <1>5, <1>6, <1>7, <1>8 DEF Continue

\* Every step of the program is a step of QueryAccess or leaves it where it is.
LEMMA StepMaps ==
    ASSUME Inv, Owners, TasksKnow, MessagesApart, [Next]_vars
    PROVE  [Access!Next]_Access!abstract
<1>1. CASE Statement
  <2>1. UNCHANGED <<ws, records>>
    BY <1>1 DEF Statement, Agree, Reject, Stop, UndoQueryOrder, Button
  <2>2. ASSUME NEW o \in Ids, Agree(o)
        PROVE  Access!Next
    <3>1. UNCHANGED <<queries, waiting, admitted, unwritten, recorded>>
      BY <2>1, MessagesSame
    <3>2. filed[o] # None /\ filed' = filed /\ leave' = leave \union {o}
      BY <2>2, AgreeOpens DEF Inv, TableInv
    <3>3. Access!Agree(o)
      BY <3>1, <3>2 DEF Access!Agree, Access!messages
    <3> QED
      BY <3>3 DEF Access!Next
  <2>3. ASSUME NEW S, NEW status \in {"ended", "rejected"}, Button(S, status)
        PROVE  Access!Next
    BY <2>1, <2>3, StatusEnds, EndMaps DEF Button, Inv, TableInv
  <2> QED
    BY <1>1, <2>2, <2>3 DEF Statement, Reject, Stop, UndoQueryOrder
<1>2. CASE CronEnd
  BY <1>2, StatusEnds, EndMaps DEF CronEnd, Inv, TableInv
<1>3. CASE CronList \/ UNCHANGED vars
  BY <1>3, StutterMaps DEF CronList, vars, table
<1>4. CASE Tick
  BY <1>4, TickEnds, EndMaps DEF Tick, Inv, TableInv
<1>5. CASE Restart
  <2>1. /\ socket' = [k \in Sockets |-> Off] /\ recording' = {}
        /\ UNCHANGED <<orders, records, queries>>
    BY <1>5 DEF Restart, table
  <2>2. waiting' = {} /\ admitted' = {} /\ unwritten' = {}
    BY <2>1 DEF waiting, admitted, unwritten, On, Socket, Off
  <2>3. UNCHANGED <<filed, leave, recorded>>
    BY <2>1, AccessSame DEF recorded
  <2>4. Access!LoseAll
    BY <2>1, <2>2, <2>3 DEF Access!LoseAll, Access!access
  <2> QED
    BY <2>4 DEF Access!Next
<1>6. ASSUME NEW k \in Sockets, Browse(k) \/ Answer(k)
      PROVE  [Access!Next]_Access!abstract
  BY <1>6, ConnectionMaps, CheckMaps, RunMaps DEF Answer
<1>7. CASE Record
  BY <1>7, RecordMaps DEF Record
<1>8. ASSUME NEW h \in Handlers, Request(h) \/ Continue(h)
      PROVE  [Access!Next]_Access!abstract
  BY <1>8, TaskMaps
<1> QED
  BY <1>1, <1>2, <1>3, <1>4, <1>5, <1>6, <1>7, <1>8 DEF Next, Cron

\* Nothing is filed, in force or under way at the start.
LEMMA InitMaps == Init => Owners /\ TasksKnow /\ MessagesApart /\ Access!Init
<1> SUFFICES ASSUME Init
             PROVE  Owners /\ TasksKnow /\ MessagesApart /\ Access!Init
  OBVIOUS
<1>1. Owners /\ filed = [o \in Ids |-> None] /\ leave = {}
  BY DEF Init, Owners, NoOrder, filed, leave
<1>2. TasksKnow
  BY DEF Init, TasksKnow, At, Idle
<1>3. On("check") = {} /\ On("run") = {} /\ Busy = {}
  BY DEF Init, On, Busy, Socket, Off
<1>4. MessagesApart
  BY <1>3 DEF Init, MessagesApart
<1>5. Access!Init
  BY <1>1, <1>3 DEF Init, Access!Init, waiting, admitted, unwritten, recorded
<1> QED
  BY <1>1, <1>2, <1>4, <1>5

\* A message is let through at most once: no two that wait, run or are recorded are the
\* same message, so that no query is run twice or recorded twice, whatever connections,
\* goroutines and restarts there are.
THEOREM MessagesStayApart == Spec => []MessagesApart
<1>1. Inv /\ MessagesApart /\ [Next]_vars => MessagesApart'
  BY MessagesStep
<1>2. Init => MessagesApart
  BY InitMaps
<1> QED
  BY <1>1, <1>2, InvInductive, PTL DEF Spec

\* The query orders implement QueryAccess: a message is admitted only while the newest
\* order of its sender in force covers it, whatever the button, the setting, the cron
\* job, the deletion or the clock does between the statements of its goroutine.
THEOREM QueriesImplementAccess == Spec => ImplementsAccess
<1> DEFINE Known == Inv /\ Owners /\ TasksKnow /\ MessagesApart
<1>1. Init => Known /\ Access!Init
  BY InitInv, InitMaps
<1>2. Known /\ [Next]_vars => Known'
  BY InvTypes, TableStep, TaskStep, SocketStep, OrdersStep, TasksKnowStep, MessagesStep
     DEF Inv
<1>3. Known /\ [Next]_vars => [Access!Next]_Access!abstract
  BY StepMaps
<1> QED
  BY <1>1, <1>2, <1>3, PTL DEF Spec, ImplementsAccess, Access!Spec
=============================================================================
