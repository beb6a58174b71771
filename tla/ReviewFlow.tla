----------------------------- MODULE ReviewFlow -----------------------------
(***************************************************************************)
(* Audit templates (core_workflow_tpls) under orders in flight: a source   *)
(* names a template by flow_id, an order is posted under the template its  *)
(* source names at that moment, and every approval reads the template the  *)
(* source names by then.  Administrators create, edit and delete templates,*)
(* give sources other templates and delete accounts meanwhile.             *)
(*                                                                         *)
(* One action is one statement of the template, source and account         *)
(* handlers.  What OrderAudit takes apart is taken together here: an       *)
(* approval is its two SELECTs and one action for its writes, a hand-over  *)
(* is one action for the guard, call and entry of ExecuteOrder or for      *)
(* those of autoTask, and any other button closes the order.  Steps[1] is  *)
(* the stage 0 of the code, at which the order is posted: the page puts a  *)
(* word there and no account, so that nobody agrees to it.  A stage is the *)
(* set of its auditors, which TplPostSourceTemplate lets be empty.         *)
(***************************************************************************)
EXTENDS Integers, Sequences

CONSTANTS
    Sources,
    TplIds,       \* primary keys that templates will get
    WorkIds,      \* work ids that factory.GenWorkId may draw
    EmptyId,      \* the work id of an order posted without one
    Accounts,
    StepLists,    \* the lists of stages administrators save
    Handlers,     \* request goroutines
    MaxRequests,  \* bound on the requests of a behaviour
    MaxRestarts,  \* bound on the restarts of the process
    NoFlow,       \* flow_id -1
    Unused,       \* a key that no template has had
    None

ASSUME FlowAssumption ==
    /\ StepLists \subseteq Seq(SUBSET Accounts)
    /\ EmptyId \notin WorkIds
    /\ NoFlow \notin TplIds
    /\ None # Unused /\ {None, Unused} \intersect StepLists = {}
    /\ MaxRequests \in Nat
    /\ MaxRestarts \in Nat

VARIABLES
    tpl,       \* id -> the steps of its row, Unused or None once deleted
    flow,      \* source -> flow_id of its row
    order,     \* work id -> its row and its trail, with history fields
    accounts,  \* names with a row in core_accounts
    job,       \* request goroutine -> what it has read and still has to do
    requests,
    restarts

vars == <<tpl, flow, order, accounts, job, requests, restarts>>

-----------------------------------------------------------------------------
Stages(steps) == 1 .. Len(steps) - 1
Auditors(steps, stage) == steps[stage + 1]

\* First on the row with this id: None stands for ErrRecordNotFound.
Find(id) == IF id # NoFlow /\ tpl[id] \in StepLists THEN tpl[id] ELSE None

\* trail counts the rows of core_workflow_details.  The others are history: the
\* template it was posted under, the stages that were agreed to, the values
\* current_step has had; whether an approval carried a stage that no page had
\* shown, whether the trail has an entry that is not the first approval of a stage,
\* whether its source or its source's template was changed since the template was
\* read for posting, whether ExecuteOrder handed it to the engine, and autoTask.
NoOrder == [status |-> "none", source |-> None, step |-> 0, assigned |-> {},
            trail |-> 0, under |-> <<>>, passed |-> {}, shown |-> {}, offpage |-> FALSE,
            extra |-> FALSE, disturbed |-> FALSE, handed |-> FALSE, robot |-> FALSE]

\* The statuses that ExecuteOrder goes on from: 2, and 5 while the engine waits for
\* the order's hour.
Open == {"review", "delayed"}

Posted(source, steps, moved) ==
    [NoOrder EXCEPT !.status = "review", !.source = source, !.step = 1,
                    !.assigned = Auditors(steps, 1), !.trail = 1, !.under = steps,
                    !.shown = {1}, !.disturbed = moved]

Exists(w) == order[w].status # "none"
InReview == {w \in WorkIds : order[w].status = "review"}

\* Follows a change of tpl or flow in the history of the orders it concerns.
Track ==
    LET moved == {s \in Sources : <<flow[s], Find(flow[s])>> # <<flow[s], Find(flow[s])>>'}
    IN order' = [w \in DOMAIN order |->
                    [order[w] EXCEPT !.disturbed = @ \/ order[w].source \in moved]]

Idle == [pc |-> "idle"]
JobType ==
    {Idle}
    \union [pc : {"editWrite"}, id : TplIds, steps : StepLists, since : SUBSET (WorkIds \union {EmptyId})]
    \union [pc : {"detach"}, id : TplIds]
    \union [pc : {"deleteUser"}, user : Accounts, since : SUBSET TplIds]
    \union [pc : {"postTpl"}, work : WorkIds, source : Sources, id : TplIds \union {NoFlow}]
    \union [pc : {"insert"}, work : WorkIds, source : Sources, id : TplIds, steps : StepLists]
    \union [pc : {"robot"}, work : WorkIds \union {EmptyId}, length : Nat]
    \union [pc : {"agreeTpl"}, work : WorkIds, stage : Nat \ {0}, id : TplIds \union {NoFlow}]
    \union [pc : {"advance", "execute"}, work : WorkIds, stage : Nat \ {0}, steps : StepLists]

At(h, pc) == job[h].pc = pc

Serve(h, task) ==
    /\ job[h] = Idle
    /\ requests < MaxRequests
    /\ requests' = requests + 1
    /\ job' = [job EXCEPT ![h] = task]
    /\ UNCHANGED restarts

Goto(h, task) ==
    /\ job' = [job EXCEPT ![h] = task]
    /\ UNCHANGED <<requests, restarts>>

\* Ends the request of h; the requests that wait learn (history) what was saved.
Save(h, id) ==
    job' = [g \in Handlers |->
        IF g = h THEN Idle
        ELSE IF At(g, "deleteUser") THEN [job[g] EXCEPT !.since = @ \union {id}] ELSE job[g]]

\* An installation with templates and sources, before its first order.
Init ==
    /\ tpl \in [TplIds -> StepLists \union {Unused}]
    /\ flow \in [Sources -> TplIds \union {NoFlow}]
    /\ \A s \in Sources : flow[s] # NoFlow => tpl[flow[s]] # Unused
    /\ order = [w \in WorkIds \union {EmptyId} |-> NoOrder]
    /\ accounts = Accounts
    /\ job = [h \in Handlers |-> Idle]
    /\ requests = 0
    /\ restarts = 0

-----------------------------------------------------------------------------
(* TplPostSourceTemplate. *)

\* No row with the request's id: a row with the next key is inserted.
CreateTemplate(id, steps) ==
    /\ requests < MaxRequests
    /\ requests' = requests + 1
    /\ tpl[id] = Unused
    /\ tpl' = [tpl EXCEPT ![id] = steps]
    /\ \E h \in Handlers : job[h] = Idle /\ Save(h, id)
    /\ UNCHANGED <<flow, order, accounts, restarts>>

\* Mutant: orders in review do not stop the edit.
EditLookAlways(h, id, steps) ==
    /\ Find(id) # None
    /\ Serve(h, [pc |-> "editWrite", id |-> id, steps |-> steps, since |-> {}])
    /\ UNCHANGED <<tpl, flow, order, accounts>>

\* checkFlowOrderCompletion finds no order in review, of whatever source.
EditLook(h, id, steps) ==
    /\ Find(id) # None
    /\ InReview = {}
    /\ Serve(h, [pc |-> "editWrite", id |-> id, steps |-> steps, since |-> {}])
    /\ UNCHANGED <<tpl, flow, order, accounts>>

\* Mutant: First and Save instead of an UPDATE: a deleted template comes back.
EditWriteSave(h) ==
    /\ At(h, "editWrite")
    /\ tpl' = [tpl EXCEPT ![job[h].id] = job[h].steps]
    /\ Save(h, job[h].id)
    /\ UNCHANGED <<flow, accounts, requests, restarts>>
    /\ Track

\* UPDATE WHERE id = ?: no row, no effect.
EditWrite(h) ==
    /\ At(h, "editWrite")
    /\ tpl' = [tpl EXCEPT ![job[h].id] = IF Find(job[h].id) # None THEN job[h].steps ELSE @]
    /\ Save(h, job[h].id)
    /\ UNCHANGED <<flow, accounts, requests, restarts>>
    /\ Track

(* DeleteSourceTemplateInfo: the row, then the sources that name it. *)

DeleteTemplate(h, id) ==
    /\ Find(id) # None
    /\ tpl' = [tpl EXCEPT ![id] = None]
    /\ Serve(h, [pc |-> "detach", id |-> id])
    /\ UNCHANGED <<flow, accounts>>
    /\ Track

\* Mutant: the column becomes NULL.
DetachSourcesNull(h) ==
    /\ At(h, "detach")
    /\ flow' = [s \in Sources |-> IF flow[s] = job[h].id THEN None ELSE flow[s]]
    /\ Goto(h, Idle)
    /\ UNCHANGED <<tpl, order, accounts>>

DetachSources(h) ==
    /\ At(h, "detach")
    /\ flow' = [s \in Sources |-> IF flow[s] = job[h].id THEN NoFlow ELSE flow[s]]
    /\ Goto(h, Idle)
    /\ UNCHANGED <<tpl, accounts>>
    /\ Track

\* SuperEditSource writes the flow_id of a page that may be older than the
\* template's deletion or another edit; orders of the source are not looked at.
AssignFlow(h, s, id) ==
    /\ id # NoFlow => tpl[id] # Unused
    /\ flow' = [flow EXCEPT ![s] = id]
    /\ Serve(h, Idle)
    /\ UNCHANGED <<tpl, accounts>>
    /\ Track

(* SuperDeleteUser: all templates, then the account. *)

Names(steps, u) == \E i \in 1 .. Len(steps) : u \in steps[i]

\* Mutant: only the stage at which orders are posted is searched.
DeleteUserLookFirst(h, u) ==
    /\ u \in accounts
    /\ \A id \in TplIds : Find(id) # None => u \notin Find(id)[1]
    /\ Serve(h, [pc |-> "deleteUser", user |-> u, since |-> {}])
    /\ UNCHANGED <<tpl, flow, order, accounts>>

DeleteUserLook(h, u) ==
    /\ u \in accounts
    /\ \A id \in TplIds : Find(id) # None => ~Names(Find(id), u)
    /\ Serve(h, [pc |-> "deleteUser", user |-> u, since |-> {}])
    /\ UNCHANGED <<tpl, flow, order, accounts>>

DeleteUser(h) ==
    /\ At(h, "deleteUser")
    /\ accounts' = accounts \ {job[h].user}
    /\ Goto(h, Idle)
    /\ UNCHANGED <<tpl, flow, order>>

-----------------------------------------------------------------------------
(* sqlOrderPost and wrapperPostOrderInfo. *)

PostFlow(h, w, s) ==
    /\ ~Exists(w)
    /\ \A g \in Handlers : job[g].pc \in {"postTpl", "insert"} => job[g].work # w
    /\ Serve(h, [pc |-> "postTpl", work |-> w, source |-> s, id |-> flow[s]])
    /\ UNCHANGED <<tpl, flow, order, accounts>>

\* Without a template json.Unmarshal fails and the post is refused.
PostTpl(h) ==
    /\ At(h, "postTpl")
    /\ LET steps == Find(job[h].id) IN
       Goto(h, IF steps = None THEN Idle
               ELSE [pc |-> "insert", work |-> job[h].work, source |-> job[h].source,
                     id |-> job[h].id, steps |-> steps])
    /\ UNCHANGED <<tpl, flow, order, accounts>>

\* The reply, or autoTask for a DML order on a table with a row in core_auto_tasks;
\* requests that wait learn (history) which order was posted.
PostEnds(h, w, length) ==
    /\ \E task \in {Idle, [pc |-> "robot", work |-> w, length |-> length]} :
         job' = [g \in Handlers |->
            IF g = h THEN task
            ELSE IF At(g, "editWrite") THEN [job[g] EXCEPT !.since = @ \union {w}] ELSE job[g]]
    /\ UNCHANGED <<requests, restarts>>

\* A template of fewer than two steps: the error that is returned is nil, and the
\* row is inserted as the page sent it, without a work id and with status 0.
InsertShort(h) ==
    /\ At(h, "insert")
    /\ Len(job[h].steps) < 2
    /\ order' = [order EXCEPT ![EmptyId] =
                    [NoOrder EXCEPT !.status = "rejected", !.source = job[h].source,
                                    !.trail = order[EmptyId].trail + 1]]
    /\ PostEnds(h, EmptyId, 0)
    /\ UNCHANGED <<tpl, flow, accounts>>

\* Mutant: the first stage's auditors are left to the request.
InsertUnassigned(h) ==
    /\ At(h, "insert")
    /\ Len(job[h].steps) >= 2
    /\ order' = [order EXCEPT ![job[h].work] =
                    [Posted(job[h].source, job[h].steps, FALSE) EXCEPT !.assigned = {}]]
    /\ PostEnds(h, job[h].work, Len(job[h].steps))
    /\ UNCHANGED <<tpl, flow, accounts>>

\* Mutant: current_step is the second stage.
InsertAtTwo(h) ==
    /\ At(h, "insert")
    /\ Len(job[h].steps) >= 2
    /\ order' = [order EXCEPT ![job[h].work] =
                    [Posted(job[h].source, job[h].steps, FALSE) EXCEPT !.step = 2, !.shown = {2}]]
    /\ PostEnds(h, job[h].work, Len(job[h].steps))
    /\ UNCHANGED <<tpl, flow, accounts>>

Insert(h) ==
    /\ At(h, "insert")
    /\ Len(job[h].steps) >= 2
    /\ LET s == job[h].source
           moved == <<flow[s], Find(flow[s])>> # <<job[h].id, job[h].steps>>
       IN order' = [order EXCEPT ![job[h].work] = Posted(s, job[h].steps, moved)]
    /\ PostEnds(h, job[h].work, Len(job[h].steps))
    /\ UNCHANGED <<tpl, flow, accounts>>

\* Engine.Exec: nothing comes of the call, or the engine runs the order or puts it
\* off until its hour.
Called(r) == {r.status, "executing", "delayed"}

\* autoTask calls the engine at once.  When the answer is yes, or there is no engine
\* to ask, it signs the trail and moves current_step past the stages of the template;
\* the length 0 of a short template is a zero value, which Updates leaves out.
Robot(h) ==
    /\ At(h, "robot")
    /\ LET w == job[h].work
           step == IF job[h].length = 0 THEN order[w].step ELSE job[h].length
       IN \E st \in Called(order[w]) :
            \/ order' = [order EXCEPT ![w].status = st, ![w].robot = TRUE]
            \/ order' = [order EXCEPT ![w].status = st, ![w].robot = TRUE,
                                     ![w].trail = @ + 1, ![w].extra = TRUE,
                                     ![w].step = step, ![w].shown = @ \union {step}]
    /\ Goto(h, Idle)
    /\ UNCHANGED <<tpl, flow, accounts>>

-----------------------------------------------------------------------------
(* MultiAuditOrder and ExecuteOrder on the template the source names now. *)

\* The Flag of a request: the current_step of the order when its page was loaded,
\* or any other, for nothing compares it with the row.  A Flag that no template has
\* a stage for finds no auditors.
Flags == UNION {Stages(steps) : steps \in StepLists}

AgreeFlow(h, w, stage) ==
    /\ Exists(w)
    /\ Serve(h, [pc |-> "agreeTpl", work |-> w, stage |-> stage, id |-> flow[order[w].source]])
    /\ UNCHANGED <<tpl, flow, order, accounts>>

\* GetTPL's second SELECT and isNotIdempotent; without a row the list is empty, and
\* to a stage without auditors nobody can agree.
AgreeTpl(h) ==
    /\ At(h, "agreeTpl")
    /\ LET steps == Find(job[h].id)
           w == job[h].work
           stage == job[h].stage
       IN IF \/ steps = None \/ stage >= Len(steps)
             \/ Auditors(steps, stage) = {}
          THEN Goto(h, Idle) /\ UNCHANGED order
          ELSE /\ Goto(h, [pc |-> IF stage + 1 = Len(steps) THEN "execute" ELSE "advance",
                           work |-> w, stage |-> stage, steps |-> steps])
               /\ order' = [order EXCEPT ![w].passed = @ \union {stage},
                                         ![w].offpage = @ \/ stage \notin order[w].shown,
                                         ![w].extra = @ \/ stage \in order[w].passed]
    /\ UNCHANGED <<tpl, flow, accounts>>

\* Mutant: a second entry, for the stage the order goes to.
AdvanceTwice(h) ==
    /\ At(h, "advance")
    /\ LET w == job[h].work
           next == job[h].stage + 1
       IN order' = [order EXCEPT ![w].step = next, ![w].shown = @ \union {next},
                                 ![w].assigned = Auditors(job[h].steps, next),
                                 ![w].trail = @ + 2]
    /\ Goto(h, Idle)
    /\ UNCHANGED <<tpl, flow, accounts>>

Advance(h) ==
    /\ At(h, "advance")
    /\ LET w == job[h].work
           next == job[h].stage + 1
       IN order' = [order EXCEPT ![w].step = next, ![w].shown = @ \union {next},
                                 ![w].assigned = Auditors(job[h].steps, next),
                                 ![w].trail = @ + 1]
    /\ Goto(h, Idle)
    /\ UNCHANGED <<tpl, flow, accounts>>

\* ExecuteOrder: the guard, the call, and the entry when the answer is yes or there
\* is no engine to ask.
Execute(h) ==
    /\ At(h, "execute")
    /\ LET w == job[h].work IN
       \/ order[w].status \notin Open /\ UNCHANGED order
       \/ /\ order[w].status \in Open
          /\ \E st \in Called(order[w]), entries \in {0, 1} :
               order' = [order EXCEPT ![w].status = st, ![w].handed = TRUE, ![w].trail = @ + entries]
    /\ Goto(h, Idle)
    /\ UNCHANGED <<tpl, flow, accounts>>

\* Reject, undo or kill: an entry of the trail that no stage asks for.
OtherButton(h, w, status) ==
    /\ Exists(w)
    /\ order' = [order EXCEPT ![w].status = status, ![w].trail = @ + 1, ![w].extra = TRUE]
    /\ Serve(h, Idle)
    /\ UNCHANGED <<tpl, flow, accounts>>

Stop ==
    /\ restarts < MaxRestarts
    /\ restarts' = restarts + 1
    /\ job' = [h \in Handlers |-> Idle]
    /\ UNCHANGED <<tpl, flow, order, accounts, requests>>

\* What a goroutine does for an administrator, for an order that is posted and for
\* one that is reviewed.
Administer(h) ==
    \/ \E id \in TplIds, steps \in StepLists : EditLook(h, id, steps)
    \/ \E id \in TplIds : DeleteTemplate(h, id)
    \/ \E s \in Sources, id \in TplIds \union {NoFlow} : AssignFlow(h, s, id)
    \/ \E u \in Accounts : DeleteUserLook(h, u)
    \/ EditWrite(h) \/ DetachSources(h) \/ DeleteUser(h)

Post(h) ==
    \/ \E w \in WorkIds, s \in Sources : PostFlow(h, w, s)
    \/ PostTpl(h) \/ InsertShort(h) \/ Insert(h) \/ Robot(h)

Review(h) ==
    \/ \E w \in WorkIds, stage \in Flags : AgreeFlow(h, w, stage)
    \/ \E w \in WorkIds : \E st \in {order[w].status, "rejected"} : OtherButton(h, w, st)
    \/ AgreeTpl(h) \/ Advance(h) \/ Execute(h)

Next ==
    \/ \E id \in TplIds, steps \in StepLists : CreateTemplate(id, steps)
    \/ \E h \in Handlers : Administer(h) \/ Post(h) \/ Review(h)
    \/ Stop

Spec == Init /\ [][Next]_vars

-----------------------------------------------------------------------------
(* Properties. *)

OrderType ==
    [status : {"none", "review", "rejected", "executing", "delayed"}, source : Sources \union {None},
     step : Nat, assigned : SUBSET Accounts, trail : Nat, under : StepLists \union {<<>>},
     passed : SUBSET Nat, shown : SUBSET Nat, offpage : BOOLEAN,
     extra : BOOLEAN, disturbed : BOOLEAN, handed : BOOLEAN, robot : BOOLEAN]

\* Every variable keeps its type.
TypeOK ==
    /\ tpl \in [TplIds -> StepLists \union {Unused, None}]
    /\ flow \in [Sources -> TplIds \union {NoFlow}]
    /\ order \in [WorkIds \union {EmptyId} -> OrderType]
    /\ accounts \subseteq Accounts
    /\ job \in [Handlers -> JobType]
    /\ requests \in 0 .. MaxRequests
    /\ restarts \in 0 .. MaxRestarts

\* ExecuteOrder hands an order to the engine only when the last stage of the template
\* it was posted under has been agreed to, and every stage when all its approvals came
\* from pages that had shown their stage; unless its source got another template, or
\* its template was edited or deleted, since it was posted.  (autoTask asks nobody.)
ApprovedAsPosted ==
    \A w \in WorkIds :
        order[w].handed /\ ~order[w].disturbed =>
            /\ Len(order[w].under) - 1 \in order[w].passed
            /\ order[w].offpage \/ Stages(order[w].under) \subseteq order[w].passed

\* An edit of a template changes the stages of an order in review only when the order
\* was posted between the look of the edit (flow.go:41) and its UPDATE.
EditMeetsOnlyLatePosts ==
    [][\A h \in Handlers, w \in WorkIds :
        At(h, "editWrite") /\ job'[h] = Idle /\ restarts' = restarts
        /\ order[w].status = "review" /\ order[w] # order'[w]
            => w \in job[h].since]_vars

\* What the page of an order in review shows agrees with the template that its next
\* approval will be checked against: a stage of it with this stage's auditors, or, once
\* autoTask has been there, the end of it, which nobody can agree to.  Only a change of
\* the source's template since the post can part the two.
ReviewShowsItsStage ==
    \A w \in InReview :
        LET steps == Find(flow[order[w].source]) IN
        ~order[w].disturbed =>
            /\ steps # None
            /\ \/ order[w].step = Len(steps) /\ order[w].robot
               \/ /\ order[w].step \in Stages(steps)
                  /\ order[w].assigned = Auditors(steps, order[w].step)

\* The source of w names no template, and no goroutine has one it could use for w.
Stranded(w) ==
    /\ w \in InReview
    /\ Find(flow[order[w].source]) = None
    /\ \A h \in Handlers :
        /\ job[h].pc \in {"advance", "execute"} => job[h].work # w
        /\ At(h, "agreeTpl") /\ job[h].work = w => Find(job[h].id) = None

\* Deleting a template (flow.go:64) strands the orders in review of its sources: the
\* only ways on are another template for the source and a button that closes the
\* order; no edit that began before the deletion brings the template back.
StrandedOrderWaits ==
    [][\A w \in InReview :
        Stranded(w) => \/ Stranded(w)' \/ w \notin InReview'
                       \/ \E h \in Handlers, id \in TplIds : AssignFlow(h, order[w].source, id)]_vars

\* SuperDeleteUser removes an account that a template names only when that template
\* was saved after it had looked (user.go:55).
DeletedAuditorWasJustSaved ==
    [][\A h \in Handlers :
        At(h, "deleteUser") /\ job[h].user \in accounts /\ job[h].user \notin accounts' =>
            \A id \in TplIds : Find(id) # None /\ Names(Find(id), job[h].user) => id \in job[h].since]_vars

\* FetchAuditSteps of an order that is open: the entry i of the trail goes to the
\* step i of the template, which panics when there are more entries than steps.
FetchAuditStepsPanics(w) ==
    LET steps == Find(flow[order[w].source]) IN
    order[w].status \in {"review", "executing", "delayed"} /\ steps # None /\ order[w].trail > Len(steps)

\* The page with the steps of an order fails only when a stage was agreed to twice,
\* another button was pressed, autoTask signed before the auditors, or the template is
\* not the one it was posted under.
StepsPageFailsOnlyOnExtraEntries ==
    \A w \in WorkIds : FetchAuditStepsPanics(w) => order[w].extra \/ order[w].disturbed
=============================================================================
