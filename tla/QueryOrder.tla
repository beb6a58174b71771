----------------------------- MODULE QueryOrder -----------------------------
(***************************************************************************)
(* The life of a query order (core_query_orders): a user asks for leave to *)
(* query a data source, the source's principal agrees or rejects, and the  *)
(* user's websocket runs queries until the order is ended or its approval  *)
(* expires.  handler/personal/query.go and impl.go, handler/order/query,   *)
(* service/cron.go, FetchQueryStatus of handler/fetch and the two          *)
(* operations of handler/manage/settings that touch query orders.          *)
(*                                                                         *)
(* Request goroutines, websocket goroutines, the goroutines that write     *)
(* query records and the cron job interleave between two statements; an    *)
(* action is one statement, with what is computed before the next one.     *)
(*                                                                         *)
(* Left out: who may see and press a button (the guard of QueryHandlerSets *)
(* is a Find, which never answers ErrRecordNotFound, so it stops nobody),  *)
(* the permission groups that SocketQueryResults asks as well, the texts   *)
(* and schemas of queries (a record takes its schema from msg.Ref when it  *)
(* is written, which may by then hold the next message: no property speaks *)
(* of it), and the "cancel" button, whose UPDATE without WHERE gorm        *)
(* refuses to send.                                                        *)
(***************************************************************************)
EXTENDS Integers, FiniteSetsExt

CONSTANTS
    Users,        \* account names
    Sources,      \* data source ids
    Handlers,     \* request goroutines that may be live at the same time
    Sockets,      \* websocket connections that may be open at the same time
    ExQueryTime,  \* GloOther.ExQueryTime: life of an approval, 0 for no limit
    MaxOrders,    \* bound: orders ever created
    MaxQueries,   \* bound: query messages ever received
    None

ASSUME QueryAssumption ==
    /\ ExQueryTime \in Nat
    /\ MaxOrders \in Nat
    /\ MaxQueries \in Nat
    /\ None \notin Users \union Sources

VARIABLES
    orders,     \* core_query_orders: rows by ID, in the order of creation
    last,       \* the last ID given out
    records,    \* core_query_records
    config,     \* Other.Query in core_global_configurations
    audit,      \* model.GloOther.Query, its copy in memory
    task,       \* what each request goroutine still has to do
    cron,       \* the orders that cronTabMaskQuery still has to end
    socket,     \* the state of each websocket goroutine
    recording,  \* goroutines that have a record to write
    queries,    \* query messages received so far
    granted,    \* history: orders that were approved, or created approved
    lost        \* history: messages whose record a restart prevented

table   == <<orders, last, granted>>
setting == <<config, audit>>
ws      == <<socket, recording, queries>>

vars == <<table, records, setting, task, cron, ws, lost>>

-----------------------------------------------------------------------------
(***************************************************************************)
(* Orders.  1 is "pending", 2 "approved", 3 "ended", 4 "rejected".  "none" *)
(* is an ID not given out yet and "gone" a deleted row, whose other fields *)
(* are kept for the properties only.  age counts the minutes since         *)
(* ApprovalTime, up to the first one that is past ExQueryTime.             *)
(***************************************************************************)
Ids == 1..MaxOrders

NoOrder == [status |-> "none", user |-> None, source |-> None, age |-> 0]

Exists(o) == o \in Ids /\ orders[o].status \notin {"none", "gone"}

\* factory.TimeDifference(ApprovalTime).
TimeDifference(o) == ExQueryTime > 0 /\ orders[o].age > ExQueryTime

Owned(u) == {o \in Ids : Exists(o) /\ orders[o].user = u}

ApprovedOf(u) == {o \in Owned(u) : orders[o].status = "approved"}

\* gorm's Last: the greatest primary key, no row (0) if there is none.
LastOf(S) == IF S = {} THEN 0 ELSE Max(S)

\* UPDATE ... SET status = ? (or DELETE) for the orders of a set that exist; the
\* age is read of approved orders only.
SetStatus(S, status) ==
    orders' = [o \in Ids |-> IF o \in S /\ Exists(o)
                             THEN [orders[o] EXCEPT !.status = status, !.age = 0]
                             ELSE orders[o]]

\* INSERT: the next ID, and an approval that is as old as the row.
Insert(u, s, status) ==
    /\ last < MaxOrders
    /\ last' = last + 1
    /\ orders' = [orders EXCEPT ![last + 1] =
                    [status |-> status, user |-> u, source |-> s, age |-> 0]]

-----------------------------------------------------------------------------
(***************************************************************************)
(* Request goroutines.                                                     *)
(***************************************************************************)
Idle == [pc |-> "idle", user |-> None, source |-> None, todo |-> {}, on |-> FALSE]

At(h, pc) == task[h].pc = pc

\* A request comes in; so far it has read something and done nothing.
Serve(h, t) ==
    /\ At(h, "idle")
    /\ task' = [task EXCEPT ![h] = t]
    /\ UNCHANGED <<records, setting, cron, ws, lost>>

Goto(h, pc) == task' = [task EXCEPT ![h].pc = pc]

Reply(h) == task' = [task EXCEPT ![h] = Idle]

\* number is that of the message being answered, 0 when there is none.
Off == [pc |-> "off", user |-> None, source |-> None, number |-> 0, order |-> 0]

Init ==
    /\ orders    = [o \in Ids |-> NoOrder]
    /\ last      = 0
    /\ records   = {}
    /\ config    \in BOOLEAN
    /\ audit     = config
    /\ task      = [h \in Handlers |-> Idle]
    /\ cron      = {}
    /\ socket    = [k \in Sockets |-> Off]
    /\ recording = {}
    /\ queries   = 0
    /\ granted   = {}
    /\ lost      = {}

-----------------------------------------------------------------------------
(***************************************************************************)
(* ReferQueryOrder.                                                        *)
(***************************************************************************)
\* GloOther.Query is read once.
ReferRequest(h, u, s) ==
    /\ last < MaxOrders
    /\ Serve(h, [Idle EXCEPT !.pc = IF audit THEN "dupCheck" ELSE "createFree",
                             !.user = u, !.source = s])
    /\ UNCHANGED table

\* With the audit off the order is born approved and names no source.
CreateFree(h) ==
    /\ At(h, "createFree")
    /\ Insert(task[h].user, None, "approved")
    /\ granted' = granted \union {last + 1}
    /\ Reply(h)
    /\ UNCHANGED <<records, setting, cron, ws, lost>>

DupCheck(h) ==
    /\ At(h, "dupCheck")
    /\ IF ApprovedOf(task[h].user) = {} THEN Goto(h, "createPending") ELSE Reply(h)
    /\ UNCHANGED <<table, records, setting, cron, ws, lost>>

CreatePending(h) ==
    /\ At(h, "createPending")
    /\ Insert(task[h].user, task[h].source, "pending")
    /\ Reply(h)
    /\ UNCHANGED <<granted, records, setting, cron, ws, lost>>

-----------------------------------------------------------------------------
(***************************************************************************)
(* QueryHandlerSets, UndoQueryOrder, FetchQueryStatus.  A page may be old: *)
(* its button works whatever has become of the order.                      *)
(***************************************************************************)
\* One UPDATE and the answer.
Button(S, status) ==
    /\ SetStatus(S, status)
    /\ UNCHANGED <<last, granted, records, setting, task, cron, ws, lost>>

\* "agreed": only an order that named a source was ever shown as pending.
Agree(o) ==
    /\ Exists(o) /\ orders[o].source # None
    /\ orders' = [orders EXCEPT ![o].status = "approved", ![o].age = 0]
    /\ granted' = granted \union {o}
    /\ UNCHANGED <<last, records, setting, task, cron, ws, lost>>

Reject(o) ==
    /\ Exists(o) /\ orders[o].source # None
    /\ Button({o}, "rejected")

Stop(o) ==
    /\ Exists(o)
    /\ Button({o}, "ended")

\* UndoQueryOrder: every order of the user, in one statement.
UndoQueryOrder(u) ==
    /\ Owned(u) # {}
    /\ Button(Owned(u), "ended")

\* "undo" ends the user's last order, which it reads first.
UndoRequest(h, u) ==
    /\ Owned(u) # {}
    /\ Serve(h, [Idle EXCEPT !.pc = "endOne", !.todo = {LastOf(Owned(u))}])
    /\ UNCHANGED table

\* FetchQueryStatus ends the user's last order when its approval has expired.
StatusRequest(h, u) ==
    LET o == LastOf(Owned(u)) IN
    /\ Exists(o) /\ orders[o].status = "approved" /\ TimeDifference(o)
    /\ Serve(h, [Idle EXCEPT !.pc = "endOne", !.todo = {o}])
    /\ UNCHANGED table

EndOne(h) ==
    /\ At(h, "endOne")
    /\ SetStatus(task[h].todo, "ended")
    /\ Reply(h)
    /\ UNCHANGED <<last, granted, records, setting, cron, ws, lost>>

-----------------------------------------------------------------------------
(***************************************************************************)
(* SuperSaveSetting: the orders, the row, the copy in memory.              *)
(***************************************************************************)
SaveRequest(h, on) ==
    /\ Serve(h, [Idle EXCEPT !.pc = IF on THEN "saveConfig" ELSE "saveEnd",
                             !.on = on])
    /\ UNCHANGED table

SaveEnd(h) ==
    /\ At(h, "saveEnd")
    /\ SetStatus({o \in Ids : orders[o].status \in {"pending", "approved"}}, "ended")
    /\ Goto(h, "saveConfig")
    /\ UNCHANGED <<last, granted, records, setting, cron, ws, lost>>

SaveConfig(h) ==
    /\ At(h, "saveConfig")
    /\ config' = task[h].on
    /\ Goto(h, "saveMemory")
    /\ UNCHANGED <<table, records, audit, cron, ws, lost>>

SaveMemory(h) ==
    /\ At(h, "saveMemory")
    /\ audit' = task[h].on
    /\ Reply(h)
    /\ UNCHANGED <<table, records, config, cron, ws, lost>>

-----------------------------------------------------------------------------
(***************************************************************************)
(* QueryDeleteEmptyRecord lists the ended orders and deletes each of them  *)
(* that has no record; SuperDelOrder deletes the orders of a range of      *)
(* dates and then their records.                                           *)
(***************************************************************************)
ClearRequest(h) ==
    LET ended == {o \in Ids : orders[o].status = "ended"} IN
    /\ ended # {}
    /\ Serve(h, [Idle EXCEPT !.pc = "clear", !.todo = ended])
    /\ UNCHANGED table

\* The list without the order it has come to, the first one.
Rest(h) == task[h].todo \ {Min(task[h].todo)}

\* A look at the records of that order.
ClearLook(h) ==
    /\ At(h, "clear")
    /\ IF \E r \in records : r.order = Min(task[h].todo)
       THEN task' = [task EXCEPT ![h] =
                       IF Rest(h) = {} THEN Idle ELSE [@ EXCEPT !.todo = Rest(h)]]
       ELSE Goto(h, "clearDelete")
    /\ UNCHANGED <<table, records, setting, cron, ws, lost>>

\* Mutant: the loop goes on once more after the last order of the list.
ClearDeleteGoesOn(h) ==
    /\ At(h, "clearDelete")
    /\ SetStatus({Min(task[h].todo)}, "gone")
    /\ task' = [task EXCEPT ![h] = [@ EXCEPT !.pc = "clear", !.todo = Rest(h)]]
    /\ UNCHANGED <<last, granted, records, setting, cron, ws, lost>>

ClearDelete(h) ==
    /\ At(h, "clearDelete")
    /\ SetStatus({Min(task[h].todo)}, "gone")
    /\ task' = [task EXCEPT ![h] =
                   IF Rest(h) = {} THEN Idle
                   ELSE [@ EXCEPT !.pc = "clear", !.todo = Rest(h)]]
    /\ UNCHANGED <<last, granted, records, setting, cron, ws, lost>>

\* Orders are dated when they are created, so a range of dates is one of IDs.
DeleteRequest(h, from, to) ==
    LET range == {o \in from..to : Exists(o)} IN
    /\ range # {}
    /\ Serve(h, [Idle EXCEPT !.pc = "deleteRecords", !.todo = range])
    /\ SetStatus(range, "gone")
    /\ UNCHANGED <<last, granted>>

DeleteRecords(h) ==
    /\ At(h, "deleteRecords")
    /\ records' = {r \in records : r.order \notin task[h].todo}
    /\ Reply(h)
    /\ UNCHANGED <<table, setting, cron, ws, lost>>

-----------------------------------------------------------------------------
(***************************************************************************)
(* SocketQueryResults.                                                     *)
(***************************************************************************)
Socket(k, pc) == socket[k].pc = pc

SetSocket(k, s) == socket' = [socket EXCEPT ![k] = s]

\* The loop waits for the next message.
Answered(k) == [socket[k] EXCEPT !.pc = "open", !.number = 0, !.order = 0]

\* Mutant: any approved order of the user will do.
ConnectAnySource(k, u, s) ==
    /\ Socket(k, "off")
    /\ audit => ApprovedOf(u) # {}
    /\ SetSocket(k, [Off EXCEPT !.pc = "open", !.user = u, !.source = s])
    /\ UNCHANGED <<table, records, setting, task, cron, recording, queries, lost>>

\* The source is compared with the user's order here, and only with audit on.
Connect(k, u, s) ==
    /\ Socket(k, "off")
    /\ audit => \E o \in ApprovedOf(u) :
                   o = LastOf(ApprovedOf(u)) /\ orders[o].source = s
    /\ SetSocket(k, [Off EXCEPT !.pc = "open", !.user = u, !.source = s])
    /\ UNCHANGED <<table, records, setting, task, cron, recording, queries, lost>>

\* The message is decoded into msg.Ref, which the connection keeps.
Receive(k) ==
    /\ Socket(k, "open")
    /\ queries < MaxQueries
    /\ queries' = queries + 1
    /\ SetSocket(k, [socket[k] EXCEPT !.pc = "check", !.number = queries + 1])
    /\ UNCHANGED <<table, records, setting, task, cron, recording, lost>>

\* Mutant: the SELECT forgets "status = 2".
CheckAnyStatus(k) ==
    LET d == LastOf(Owned(socket[k].user)) IN
    /\ Socket(k, "check")
    /\ SetSocket(k, CASE d = 0             -> Answered(k)
                      [] TimeDifference(d) -> [socket[k] EXCEPT !.pc = "endAll"]
                      [] OTHER -> [socket[k] EXCEPT !.pc = "run", !.order = d])
    /\ UNCHANGED <<table, records, setting, task, cron, recording, queries, lost>>

\* Mutant: the look at the clock is left to the cron job.
CheckExpired(k) ==
    LET d == LastOf(ApprovedOf(socket[k].user)) IN
    /\ Socket(k, "check")
    /\ SetSocket(k, IF d = 0 THEN Answered(k)
                    ELSE [socket[k] EXCEPT !.pc = "run", !.order = d])
    /\ UNCHANGED <<table, records, setting, task, cron, recording, queries, lost>>

\* The user's last approved order lets the query through, unless it has expired.
Check(k) ==
    LET d == LastOf(ApprovedOf(socket[k].user)) IN
    /\ Socket(k, "check")
    /\ SetSocket(k, IF d = 0 THEN Answered(k)
                    ELSE IF TimeDifference(d) THEN [socket[k] EXCEPT !.pc = "endAll"]
                    ELSE [socket[k] EXCEPT !.pc = "run", !.order = d])
    /\ UNCHANGED <<table, records, setting, task, cron, recording, queries, lost>>

EndAll(k) ==
    /\ Socket(k, "endAll")
    /\ SetStatus(Owned(socket[k].user), "ended")
    /\ SetSocket(k, Answered(k))
    /\ UNCHANGED <<last, granted, records, setting, task, cron, recording, queries,
                   lost>>

\* PreCheck refuses the text, or the statements run; a goroutine is started to
\* write the record and the answer is sent.
Run(k) ==
    /\ Socket(k, "run")
    /\ SetSocket(k, Answered(k))
    /\ \/ UNCHANGED recording
       \/ recording' = recording \union
            {[number |-> socket[k].number, order |-> socket[k].order,
              user |-> socket[k].user]}
    /\ UNCHANGED <<table, records, setting, task, cron, queries, lost>>

\* Mutant: the goroutine writes nothing once the order has been ended.
WriteRecordWhileApproved(g) ==
    /\ records' = IF orders[g.order].status = "approved"
                  THEN records \union {[number |-> g.number, order |-> g.order]}
                  ELSE records
    /\ recording' = recording \ {g}
    /\ UNCHANGED <<table, setting, task, cron, socket, queries, lost>>

\* The goroutine was given the order and the text by value.
WriteRecord(g) ==
    /\ records' = records \union {[number |-> g.number, order |-> g.order]}
    /\ recording' = recording \ {g}
    /\ UNCHANGED <<table, setting, task, cron, socket, queries, lost>>

\* The loop ends; the goroutines it has started are not waited for.
Disconnect(k) ==
    /\ Socket(k, "open")
    /\ SetSocket(k, Off)
    /\ UNCHANGED <<table, records, setting, task, cron, recording, queries, lost>>

-----------------------------------------------------------------------------
(***************************************************************************)
(* Time, the cron job and restarts.  A pass of the cron job, like a look   *)
(* at one order, takes much less than the minute an age is counted in, so  *)
(* TimeDifference is evaluated when the orders are listed.                 *)
(***************************************************************************)
Tick ==
    /\ \E o \in Ids : orders[o].status = "approved" /\ ~TimeDifference(o)
    /\ orders' = [o \in Ids |->
                    IF orders[o].status = "approved" /\ ~TimeDifference(o)
                       /\ ExQueryTime > 0
                    THEN [orders[o] EXCEPT !.age = @ + 1]
                    ELSE orders[o]]
    /\ UNCHANGED <<last, granted, records, setting, task, cron, ws, lost>>

CronList ==
    /\ cron = {}
    /\ cron' = {o \in Ids : orders[o].status = "approved" /\ TimeDifference(o)}
    /\ UNCHANGED <<table, records, setting, task, ws, lost>>

\* Mutant: the test of the loop is the wrong way round.
CronEndYoung ==
    /\ cron # {}
    /\ SetStatus({o \in {Min(cron)} : ~TimeDifference(o)}, "ended")
    /\ cron' = cron \ {Min(cron)}
    /\ UNCHANGED <<last, granted, records, setting, task, ws, lost>>

\* The status is not looked at again.
CronEnd ==
    /\ cron # {}
    /\ SetStatus({Min(cron)}, "ended")
    /\ cron' = cron \ {Min(cron)}
    /\ UNCHANGED <<last, granted, records, setting, task, ws, lost>>

\* Load reads the settings back; no goroutine survives.
Restart ==
    /\ lost' = lost \union {g.number : g \in recording}
    /\ audit' = config
    /\ task' = [h \in Handlers |-> Idle]
    /\ socket' = [k \in Sockets |-> Off]
    /\ recording' = {}
    /\ cron' = {}
    /\ UNCHANGED <<table, records, config, queries>>

-----------------------------------------------------------------------------
\* A request arrives.
Request(h) ==
    \/ \E u \in Users, s \in Sources : ReferRequest(h, u, s)
    \/ \E u \in Users : UndoRequest(h, u) \/ StatusRequest(h, u)
    \/ \E on \in BOOLEAN : SaveRequest(h, on)
    \/ ClearRequest(h)
    \/ \E from, to \in Ids : DeleteRequest(h, from, to)

\* One that is a single statement.
Statement ==
    \/ \E o \in Ids : Agree(o) \/ Reject(o) \/ Stop(o)
    \/ \E u \in Users : UndoQueryOrder(u)

\* A request goroutine takes its next step.
Continue(h) ==
    \/ CreateFree(h) \/ DupCheck(h) \/ CreatePending(h) \/ EndOne(h)
    \/ SaveEnd(h) \/ SaveConfig(h) \/ SaveMemory(h)
    \/ ClearLook(h) \/ ClearDelete(h) \/ DeleteRecords(h)

\* What the browser does with a connection, and what the server does with it.
Browse(k) ==
    \/ \E u \in Users, s \in Sources : Connect(k, u, s)
    \/ Receive(k) \/ Disconnect(k)

Answer(k) == Check(k) \/ EndAll(k) \/ Run(k)

Record == \E g \in recording : WriteRecord(g)

Cron == CronList \/ CronEnd

Next ==
    \/ \E h \in Handlers : Request(h) \/ Continue(h)
    \/ Statement
    \/ \E k \in Sockets : Browse(k) \/ Answer(k)
    \/ Record \/ Cron \/ Tick \/ Restart

Spec == Init /\ [][Next]_vars

\* Every goroutine that can run does, and cron/v3 starts the job every minute, as
\* long as the process is not restarted again and again; nothing is assumed of
\* users, browsers and the clock.
Fairness ==
    /\ \A h \in Handlers : WF_vars(Continue(h))
    /\ \A k \in Sockets : WF_vars(Answer(k))
    /\ WF_vars(Record)
    /\ WF_vars(Cron)
    /\ <>[][~Restart]_vars

FairSpec == Spec /\ Fairness

-----------------------------------------------------------------------------
Status == {"none", "pending", "approved", "ended", "rejected", "gone"}

OrderType == [status : Status, user : Users \union {None},
              source : Sources \union {None}, age : 0..(ExQueryTime + 1)]

TaskType ==
    [pc : {"idle", "createFree", "dupCheck", "createPending", "endOne", "saveEnd",
           "saveConfig", "saveMemory", "clear", "clearDelete", "deleteRecords"},
     user : Users \union {None}, source : Sources \union {None},
     todo : SUBSET Ids, on : BOOLEAN]

SocketType ==
    [pc : {"off", "open", "check", "endAll", "run"}, user : Users \union {None},
     source : Sources \union {None}, number : 0..MaxQueries, order : 0..MaxOrders]

RecordType == [number : 1..MaxQueries, order : Ids]

RecordingType == [number : 1..MaxQueries, order : Ids, user : Users]

TypeOK ==
    /\ orders \in [Ids -> OrderType]
    /\ last \in 0..MaxOrders
    /\ \A o \in Ids : orders[o].status = "none" <=> o > last
    /\ records \subseteq RecordType
    /\ config \in BOOLEAN /\ audit \in BOOLEAN
    /\ task \in [Handlers -> TaskType]
    /\ \A h \in Handlers : task[h].pc \in {"clear", "clearDelete"} => task[h].todo # {}
    /\ cron \subseteq Ids
    /\ socket \in [Sockets -> SocketType]
    /\ recording \subseteq RecordingType
    /\ queries \in 0..MaxQueries
    /\ granted \subseteq Ids
    /\ lost \subseteq 1..MaxQueries

-----------------------------------------------------------------------------
(***************************************************************************)
(* Properties.                                                             *)
(***************************************************************************)

\* A query runs, and is recorded, under an order of the user who sent it, and
\* one that has been granted: agreed to on its own page, or created while the
\* audit was off.  Neither a pending order next to an approved one, nor an order
\* ended, approved afresh or deleted while the query is under way, nor the audit
\* switched on or off, nor a restart gets a query past that.
RunsUnderGrantedOrder ==
    /\ \A k \in Sockets :
          Socket(k, "run") => /\ socket[k].order \in granted
                              /\ orders[socket[k].order].user = socket[k].user
    /\ \A g \in recording : g.order \in granted /\ orders[g.order].user = g.user
    /\ \A r \in records : r.order \in granted

\* What keeps it so: an order that stands approved has been granted.
ApprovedIsGranted == \A o \in Ids : orders[o].status = "approved" => o \in granted

\* A message is admitted only while an order of its sender is in force, runs and is
\* recorded at most once under that order, and its record is erased only with an
\* order that is out of force (see QueryAccess).
filed == [o \in Ids |-> orders[o].user]

leave == {o \in Ids : orders[o].status = "approved" /\ ~TimeDifference(o)}

On(pc) == {k \in Sockets : Socket(k, pc)}

waiting == {<<socket[k].number, socket[k].user>> : k \in On("check")}

admitted == {<<socket[k].number, socket[k].order>> : k \in On("run")}

unwritten == {<<g.number, g.order>> : g \in recording}

recorded == {<<r.number, r.order>> : r \in records}

Access == INSTANCE QueryAccess WITH Orders <- Ids, sent <- queries

ImplementsAccess == Access!Spec

\* An approval does not outlive ExQueryTime for ever: once it has expired the
\* cron job ends the order, unless it is approved afresh.  An order created with
\* the audit off names no source, so that once the audit is on its user can
\* neither connect with it nor file another order, and depends on this.
ExpiredIsEnded ==
    \A o \in Ids :
        orders[o].status = "approved" /\ orders[o].age > ExQueryTime
            ~> orders[o].status # "approved" \/ orders[o].age = 0

\* A query that was run is recorded even if its order is ended or deleted, or its
\* connection closed, before the goroutine gets to write the record; only a restart
\* that comes first prevents it.
RunIsRecorded ==
    \A n \in 1..MaxQueries :
        (\E g \in recording : g.number = n)
            ~> (\E r \in records : r.number = n) \/ n \in lost
=============================================================================
