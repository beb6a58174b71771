------------------------- MODULE ReviewFlowProofs -------------------------
(***************************************************************************)
(* Proofs about ReviewFlow: its types, after which stages of the template  *)
(* it was posted under an order that nothing has disturbed is executed,    *)
(* that its page shows a stage of this template, when the page with the    *)
(* steps of an order can fail, and what the looks of an edit and of an     *)
(* account's deletion may miss.                                            *)
(***************************************************************************)
EXTENDS ReviewFlow, FiniteSetTheorems, TLAPS

-----------------------------------------------------------------------------
(***************************************************************************)
(* Request goroutines.                                                     *)
(***************************************************************************)
Posting(h)  == job[h].pc \in {"postTpl", "insert"}
Agreed(h)   == job[h].pc \in {"advance", "execute"}
Agreeing(h) == job[h].pc = "agreeTpl" \/ Agreed(h)

\* The fields that a goroutine has at each point.
LEMMA JobFields ==
    ASSUME TypeOK, NEW h \in Handlers
    PROVE  /\ At(h, "editWrite") => /\ job[h].id \in TplIds /\ job[h].steps \in StepLists
                                    /\ job[h].since \subseteq WorkIds \union {EmptyId}
           /\ At(h, "detach") => job[h].id \in TplIds
           /\ At(h, "deleteUser") => job[h].user \in Accounts /\ job[h].since \subseteq TplIds
           /\ Posting(h) => job[h].work \in WorkIds /\ job[h].source \in Sources
           /\ At(h, "postTpl") => job[h].id \in TplIds \union {NoFlow}
           /\ At(h, "insert") => job[h].id \in TplIds /\ job[h].steps \in StepLists
           /\ At(h, "robot") => job[h].work \in WorkIds \union {EmptyId} /\ job[h].length \in Nat
           /\ Agreeing(h) => job[h].work \in WorkIds /\ job[h].stage \in Nat \ {0}
           /\ At(h, "agreeTpl") => job[h].id \in TplIds \union {NoFlow}
           /\ Agreed(h) => job[h].steps \in StepLists
<1>1. job[h] \in JobType
  BY DEF TypeOK
<1> QED
  BY <1>1 DEF JobType, Idle, At, Posting, Agreeing, Agreed

\* A deletion or an edit that learns of another request stays what it is.
LEMMA SinceGrows ==
    ASSUME TypeOK, NEW h \in Handlers
    PROVE  /\ \A id \in TplIds : At(h, "deleteUser") =>
                 /\ [job[h] EXCEPT !.since = @ \union {id}] \in JobType
                 /\ [job[h] EXCEPT !.since = @ \union {id}].pc = "deleteUser"
                 /\ [job[h] EXCEPT !.since = @ \union {id}].user = job[h].user
                 /\ [job[h] EXCEPT !.since = @ \union {id}].since = job[h].since \union {id}
           /\ \A w \in WorkIds \union {EmptyId} : At(h, "editWrite") =>
                 /\ [job[h] EXCEPT !.since = @ \union {w}] \in JobType
                 /\ [job[h] EXCEPT !.since = @ \union {w}].pc = "editWrite"
                 /\ [job[h] EXCEPT !.since = @ \union {w}].since = job[h].since \union {w}
<1> DEFINE Deletes == [pc : {"deleteUser"}, user : Accounts, since : SUBSET TplIds]
           Edits   == [pc : {"editWrite"}, id : TplIds, steps : StepLists,
                       since : SUBSET (WorkIds \union {EmptyId})]
<1>1. Deletes \subseteq JobType /\ Edits \subseteq JobType
  BY DEF JobType
<1>2. At(h, "deleteUser") => job[h] \in Deletes
  BY DEF TypeOK, JobType, Idle, At
<1>3. At(h, "editWrite") => job[h] \in Edits
  BY DEF TypeOK, JobType, Idle, At
<1>4. ASSUME NEW j \in Deletes, NEW id \in TplIds
      PROVE  /\ [j EXCEPT !.since = j.since \union {id}] \in Deletes
             /\ [j EXCEPT !.since = j.since \union {id}].pc = "deleteUser"
             /\ [j EXCEPT !.since = j.since \union {id}].user = j.user
             /\ [j EXCEPT !.since = j.since \union {id}].since = j.since \union {id}
  OBVIOUS
<1>5. ASSUME NEW j \in Edits, NEW w \in WorkIds \union {EmptyId}
      PROVE  /\ [j EXCEPT !.since = j.since \union {w}] \in Edits
             /\ [j EXCEPT !.since = j.since \union {w}].pc = "editWrite"
             /\ [j EXCEPT !.since = j.since \union {w}].since = j.since \union {w}
  OBVIOUS
<1> HIDE DEF Deletes, Edits
<1> QED
  BY <1>1, <1>2, <1>3, <1>4, <1>5

\* The goroutines that go on only learn.
OthersLearn(h) ==
    \A g \in Handlers : g # h =>
        \/ job'[g] = job[g]
        \/ job'[g].pc = job[g].pc /\ job[g].pc \in {"editWrite", "deleteUser"}

LEMMA SaveLearning ==
    ASSUME TypeOK, NEW h \in Handlers, NEW id \in TplIds, Save(h, id)
    PROVE  job' \in [Handlers -> JobType] /\ job'[h] = Idle /\ OthersLearn(h)
<1>1. Idle \in JobType /\ \A g \in Handlers : job[g] \in JobType
  BY DEF JobType, TypeOK
<1>2. ASSUME NEW g \in Handlers, g # h
      PROVE  \/ job'[g] = job[g]
             \/ /\ job'[g].pc = job[g].pc /\ job[g].pc \in {"editWrite", "deleteUser"}
                /\ job'[g] \in JobType
  <2>1. CASE At(g, "deleteUser")
    <3>1. job'[g] = [job[g] EXCEPT !.since = job[g].since \union {id}]
      BY <1>2, <2>1 DEF Save
    <3> QED
      BY <2>1, <3>1, SinceGrows DEF At
  <2>2. CASE ~At(g, "deleteUser")
    BY <1>2, <2>2 DEF Save
  <2> QED
    BY <2>1, <2>2
<1>3. job'[h] = Idle
  BY DEF Save
<1>4. \A g \in Handlers : job'[g] \in JobType
  BY <1>1, <1>2, <1>3
<1> QED
  BY <1>2, <1>3, <1>4 DEF Save, OthersLearn

\* What a post leaves to its goroutine.
Ended(h, w, length) ==
    \/ job'[h] = Idle
    \/ job'[h].pc = "robot" /\ job'[h].work = w /\ job'[h].length = length

LEMMA PostLearning ==
    ASSUME TypeOK, NEW h \in Handlers, NEW w \in WorkIds \union {EmptyId}, NEW length \in Nat,
           PostEnds(h, w, length)
    PROVE  job' \in [Handlers -> JobType] /\ Ended(h, w, length) /\ OthersLearn(h)
<1>1. PICK task \in {Idle, [pc |-> "robot", work |-> w, length |-> length]} :
         job' = [g \in Handlers |->
            IF g = h THEN task
            ELSE IF At(g, "editWrite") THEN [job[g] EXCEPT !.since = @ \union {w}] ELSE job[g]]
  BY DEF PostEnds
<1>2. task \in JobType /\ \A g \in Handlers : job[g] \in JobType
  BY DEF JobType, TypeOK
<1>3. ASSUME NEW g \in Handlers, g # h
      PROVE  \/ job'[g] = job[g]
             \/ /\ job'[g].pc = job[g].pc /\ job[g].pc \in {"editWrite", "deleteUser"}
                /\ job'[g] \in JobType
  <2>1. CASE At(g, "editWrite")
    <3>1. job'[g] = [job[g] EXCEPT !.since = job[g].since \union {w}]
      BY <1>1, <1>3, <2>1
    <3> QED
      BY <2>1, <3>1, SinceGrows DEF At
  <2>2. CASE ~At(g, "editWrite")
    BY <1>1, <1>3, <2>2
  <2> QED
    BY <2>1, <2>2
<1>4. job'[h] = task
  BY <1>1
<1>5. \A g \in Handlers : job'[g] \in JobType
  BY <1>2, <1>3, <1>4
<1>6. Ended(h, w, length)
  BY <1>4 DEF Ended
<1> QED
  BY <1>1, <1>3, <1>5, <1>6 DEF OthersLearn

-----------------------------------------------------------------------------
(***************************************************************************)
(* Templates, and what a change of one leaves in the history of an order.  *)
(***************************************************************************)

\* A source names a template that exists or existed.
FlowUsed == \A s \in Sources : flow[s] # NoFlow => tpl[flow[s]] # Unused

\* So did the source that an approval has read.
AgreeUsed ==
    \A h \in Handlers : At(h, "agreeTpl") /\ job[h].id # NoFlow => tpl[job[h].id] # Unused

\* What a table of templates must not do: forget that a key was used.
KeysStayUsed == \A id \in TplIds : tpl'[id] = Unused => tpl[id] = Unused

\* Templates and sources keep their types, and no source gets an unused template.
LEMMA TemplatesStep ==
    ASSUME TypeOK, FlowUsed, [Next]_vars
    PROVE  /\ tpl' \in [TplIds -> StepLists \union {Unused, None}]
           /\ flow' \in [Sources -> TplIds \union {NoFlow}]
           /\ KeysStayUsed
           /\ FlowUsed'
<1> DEFINE Goal == /\ tpl' \in [TplIds -> StepLists \union {Unused, None}]
                   /\ flow' \in [Sources -> TplIds \union {NoFlow}]
                   /\ KeysStayUsed
                   /\ FlowUsed'
<1>0. Unused \notin StepLists \union {None} /\ NoFlow \notin TplIds
  BY FlowAssumption
<1>1. CASE UNCHANGED <<tpl, flow>>
  BY <1>1 DEF TypeOK, KeysStayUsed, FlowUsed
<1>2. ASSUME NEW id \in TplIds, NEW t \in StepLists \union {None},
             tpl' = [tpl EXCEPT ![id] = t], flow' = flow
      PROVE  Goal
  <2>1. t # Unused
    BY <1>0, <1>2
  <2> QED
    BY <1>2, <2>1 DEF TypeOK, KeysStayUsed, FlowUsed
<1>3. ASSUME NEW id \in TplIds, NEW steps \in StepLists, CreateTemplate(id, steps)
      PROVE  Goal
  BY <1>2, <1>3 DEF CreateTemplate
<1>4. ASSUME NEW h \in Handlers, EditWrite(h)
      PROVE  Goal
  <2>1. job[h].id \in TplIds /\ job[h].steps \in StepLists
    BY <1>4, JobFields DEF EditWrite
  <2>2. CASE Find(job[h].id) # None
    BY <1>2, <1>4, <2>1, <2>2 DEF EditWrite
  <2>3. CASE Find(job[h].id) = None
    BY <1>1, <1>4, <2>3 DEF EditWrite, TypeOK
  <2> QED
    BY <2>2, <2>3
<1>5. ASSUME NEW h \in Handlers, NEW id \in TplIds, DeleteTemplate(h, id)
      PROVE  Goal
  BY <1>2, <1>5 DEF DeleteTemplate
<1>6. ASSUME NEW h \in Handlers, DetachSources(h)
      PROVE  Goal
  BY <1>0, <1>6 DEF DetachSources, TypeOK, KeysStayUsed, FlowUsed
<1>7. ASSUME NEW h \in Handlers, NEW s \in Sources, NEW id \in TplIds \union {NoFlow},
             AssignFlow(h, s, id)
      PROVE  Goal
  BY <1>7 DEF AssignFlow, TypeOK, KeysStayUsed, FlowUsed
<1>8. CASE Stop \/ UNCHANGED vars
  BY <1>1, <1>8 DEF Stop, vars
<1>9. ASSUME NEW h \in Handlers, Post(h) \/ Review(h)
      PROVE  Goal
  BY <1>1, <1>9 DEF Post, PostFlow, PostTpl, InsertShort, Insert, Robot, Review, AgreeFlow,
     AgreeTpl, Advance, Execute, OtherButton
<1>10. ASSUME NEW h \in Handlers, Administer(h)
       PROVE  Goal
  BY <1>1, <1>4, <1>5, <1>6, <1>7, <1>10 DEF Administer, EditLook, DeleteUserLook, DeleteUser
<1> QED
  BY <1>3, <1>8, <1>9, <1>10 DEF Next

\* All of a row but whether it was disturbed.
SameRow(r, q) ==
    /\ r.status = q.status /\ r.source = q.source /\ r.step = q.step
    /\ r.assigned = q.assigned /\ r.trail = q.trail /\ r.under = q.under
    /\ r.passed = q.passed /\ r.shown = q.shown /\ r.offpage = q.offpage
    /\ r.extra = q.extra /\ r.handed = q.handed /\ r.robot = q.robot

\* A step of an administrator: the orders of a source that has another template now
\* are disturbed, and nothing else becomes of them.
HistoryOnly ==
    /\ order' \in [WorkIds \union {EmptyId} -> OrderType]
    /\ \A w \in WorkIds \union {EmptyId} :
          /\ SameRow(order'[w], order[w])
          /\ ~order'[w].disturbed =>
                /\ ~order[w].disturbed
                /\ \A s \in Sources : s = order[w].source =>
                      flow'[s] = flow[s] /\ Find(flow[s])' = Find(flow[s])

LEMMA TrackStep ==
    ASSUME TypeOK, Track
    PROVE  HistoryOnly
<1> DEFINE moved == {s \in Sources : <<flow[s], Find(flow[s])>> # <<flow[s], Find(flow[s])>>'}
           row(w) == [order[w] EXCEPT !.disturbed = order[w].disturbed \/ order[w].source \in moved]
<1>1. order' = [w \in DOMAIN order |-> row(w)]
  BY DEF Track
<1>2. DOMAIN order = WorkIds \union {EmptyId}
  BY DEF TypeOK
<1>3. ASSUME NEW w \in WorkIds \union {EmptyId}
      PROVE  /\ row(w) \in OrderType
             /\ SameRow(row(w), order[w])
             /\ row(w).disturbed = (order[w].disturbed \/ order[w].source \in moved)
  <2>1. order[w] \in OrderType
    BY DEF TypeOK
  <2>2. (order[w].disturbed \/ order[w].source \in moved) \in BOOLEAN
    OBVIOUS
  <2> HIDE DEF moved
  <2> QED
    BY <2>1, <2>2 DEF OrderType, SameRow
<1>4. ASSUME NEW s \in Sources, s \notin moved
      PROVE  flow'[s] = flow[s] /\ Find(flow[s])' = Find(flow[s])
  BY <1>4
<1> HIDE DEF moved, row
<1>5. order' \in [WorkIds \union {EmptyId} -> OrderType]
  BY <1>1, <1>2, <1>3
<1>6. ASSUME NEW w \in WorkIds \union {EmptyId}
      PROVE  /\ SameRow(order'[w], order[w])
             /\ order'[w].disturbed = (order[w].disturbed \/ order[w].source \in moved)
  BY <1>1, <1>2, <1>3
<1>7. ASSUME NEW w \in WorkIds \union {EmptyId}, ~order'[w].disturbed,
             NEW s \in Sources, s = order[w].source
      PROVE  flow'[s] = flow[s] /\ Find(flow[s])' = Find(flow[s])
  BY <1>4, <1>6, <1>7
<1>8. \A w \in WorkIds \union {EmptyId} : ~order'[w].disturbed => ~order[w].disturbed
  BY <1>6
<1> QED
  BY <1>5, <1>6, <1>7, <1>8 DEF HistoryOnly

\* When nothing happens to templates, sources and orders.
LEMMA NothingMoved ==
    ASSUME TypeOK, order' = order, flow' = flow,
           \A s \in Sources : Find(flow[s])' = Find(flow[s])
    PROVE  HistoryOnly
BY DEF TypeOK, HistoryOnly, SameRow

-----------------------------------------------------------------------------
(***************************************************************************)
(* Steps that neither post nor review.                                     *)
(***************************************************************************)
Aside ==
    \/ \E id \in TplIds, steps \in StepLists : CreateTemplate(id, steps)
    \/ \E h \in Handlers : Administer(h)
    \/ Stop
    \/ UNCHANGED vars

\* The goroutines that post or review go on as they were, or are gone.
JobsKept ==
    \A h \in Handlers :
        \/ job'[h] = job[h]
        \/ job'[h].pc \notin {"postTpl", "insert", "robot", "agreeTpl", "advance", "execute"}

CountersOK ==
    /\ accounts \subseteq Accounts
    /\ requests \in 0 .. MaxRequests
    /\ restarts \in 0 .. MaxRestarts

\* A request that starts, or goes on, without being the last step of one.
LEMMA ServeStep ==
    ASSUME TypeOK, NEW h \in Handlers, NEW t \in JobType, Serve(h, t) \/ Goto(h, t)
    PROVE  /\ job' \in [Handlers -> JobType]
           /\ job'[h] = t
           /\ \A g \in Handlers : g # h => job'[g] = job[g]
           /\ requests' \in 0 .. MaxRequests /\ restarts' = restarts
<1>1. job' = [job EXCEPT ![h] = t] /\ restarts' = restarts
  BY DEF Serve, Goto
<1>2. requests' \in 0 .. MaxRequests
  BY FlowAssumption DEF TypeOK, Serve, Goto
<1> QED
  BY <1>1, <1>2 DEF TypeOK

LEMMA AsideOrders ==
    ASSUME TypeOK, FlowUsed, Aside
    PROVE  HistoryOnly
<1>1. ASSUME UNCHANGED <<order, flow, tpl>>
      PROVE  HistoryOnly
  BY <1>1, NothingMoved DEF Find
<1>2. ASSUME NEW id \in TplIds, NEW steps \in StepLists, CreateTemplate(id, steps)
      PROVE  HistoryOnly
  <2>1. /\ tpl[id] = Unused /\ tpl' = [tpl EXCEPT ![id] = steps]
        /\ flow' = flow /\ order' = order
    BY <1>2 DEF CreateTemplate
  <2>2. ASSUME NEW s \in Sources
        PROVE  Find(flow[s])' = Find(flow[s])
    BY <2>1 DEF Find, FlowUsed, TypeOK
  <2> QED
    BY <2>1, <2>2, NothingMoved
<1>3. ASSUME NEW h \in Handlers, Administer(h)
      PROVE  HistoryOnly
  BY <1>1, <1>3, TrackStep DEF Administer, EditLook, DeleteTemplate, AssignFlow,
     DeleteUserLook, EditWrite, DetachSources, DeleteUser
<1>4. CASE Stop \/ UNCHANGED vars
  BY <1>1, <1>4 DEF Stop, vars
<1> QED
  BY <1>2, <1>3, <1>4 DEF Aside

LEMMA AsideJobs ==
    ASSUME TypeOK, Aside
    PROVE  job' \in [Handlers -> JobType] /\ JobsKept /\ CountersOK'
<1> DEFINE Goal == job' \in [Handlers -> JobType] /\ JobsKept /\ CountersOK'
<1>1. Idle \in JobType /\ Idle.pc = "idle"
  BY DEF JobType, Idle
<1>2. ASSUME NEW h \in Handlers, NEW t \in JobType, Serve(h, t) \/ Goto(h, t),
             t.pc \notin {"postTpl", "insert", "robot", "agreeTpl", "advance", "execute"},
             accounts' \subseteq accounts
      PROVE  Goal
  BY <1>2, ServeStep DEF JobsKept, CountersOK, TypeOK
<1>3. ASSUME NEW h \in Handlers, NEW id \in TplIds, Save(h, id), accounts' = accounts,
             requests' \in 0 .. MaxRequests, restarts' = restarts
      PROVE  Goal
  BY <1>1, <1>3, SaveLearning DEF JobsKept, CountersOK, TypeOK, OthersLearn
<1>4. ASSUME NEW id \in TplIds, NEW steps \in StepLists, CreateTemplate(id, steps)
      PROVE  Goal
  <2>1. requests' \in 0 .. MaxRequests
    BY <1>4, FlowAssumption DEF CreateTemplate, TypeOK
  <2> QED
    BY <1>3, <1>4, <2>1 DEF CreateTemplate
<1>5. ASSUME NEW h \in Handlers, Administer(h)
      PROVE  Goal
  <2>1. ASSUME NEW id \in TplIds, NEW steps \in StepLists, EditLook(h, id, steps)
        PROVE  Goal
    <3> DEFINE t == [pc |-> "editWrite", id |-> id, steps |-> steps, since |-> {}]
    <3>1. t \in JobType /\ t.pc = "editWrite"
      BY DEF JobType
    <3> QED
      BY <1>2, <2>1, <3>1 DEF EditLook
  <2>2. ASSUME NEW id \in TplIds, DeleteTemplate(h, id)
        PROVE  Goal
    <3> DEFINE t == [pc |-> "detach", id |-> id]
    <3>1. t \in JobType /\ t.pc = "detach"
      BY DEF JobType
    <3> QED
      BY <1>2, <2>2, <3>1 DEF DeleteTemplate
  <2>3. ASSUME NEW s \in Sources, NEW id \in TplIds \union {NoFlow}, AssignFlow(h, s, id)
        PROVE  Goal
    BY <1>1, <1>2, <2>3 DEF AssignFlow
  <2>4. ASSUME NEW u \in Accounts, DeleteUserLook(h, u)
        PROVE  Goal
    <3> DEFINE t == [pc |-> "deleteUser", user |-> u, since |-> {}]
    <3>1. t \in JobType /\ t.pc = "deleteUser"
      BY DEF JobType
    <3> QED
      BY <1>2, <2>4, <3>1 DEF DeleteUserLook
  <2>5. CASE EditWrite(h)
    <3>1. job[h].id \in TplIds
      BY <2>5, JobFields DEF EditWrite
    <3> QED
      BY <1>3, <2>5, <3>1 DEF EditWrite, TypeOK
  <2>6. CASE DetachSources(h) \/ DeleteUser(h)
    BY <1>1, <1>2, <2>6 DEF DetachSources, DeleteUser
  <2> QED
    BY <1>5, <2>1, <2>2, <2>3, <2>4, <2>5, <2>6 DEF Administer
<1>6. CASE Stop
  BY <1>1, <1>6, FlowAssumption DEF Stop, JobsKept, CountersOK, TypeOK
<1>7. CASE UNCHANGED vars
  BY <1>7 DEF vars, JobsKept, CountersOK, TypeOK
<1> QED
  BY <1>4, <1>5, <1>6, <1>7 DEF Aside

-----------------------------------------------------------------------------
(***************************************************************************)
(* The inductive invariant.                                                *)
(***************************************************************************)

\* A goroutine that posts has a work id of its own that no order has yet; one that
\* reviews is about an order, and so is autoTask, unless the order has no work id.
JobFits(h) ==
    /\ Posting(h) => ~Exists(job[h].work)
    /\ At(h, "robot") /\ job[h].work # EmptyId =>
          Exists(job[h].work) /\ job[h].length = Len(order[job[h].work].under)
    /\ Agreeing(h) => Exists(job[h].work)
    /\ At(h, "agreeTpl") /\ job[h].id # NoFlow => tpl[job[h].id] # Unused
    /\ At(h, "advance") => job[h].stage + 1 < Len(job[h].steps)
    /\ At(h, "execute") => job[h].stage + 1 = Len(job[h].steps)

PostsDiffer ==
    \A g, h \in Handlers :
        g # h /\ Posting(g) /\ Posting(h) => job[g].work # job[h].work

\* An order names a source and is at a stage after that of the post.
RowFits(w) ==
    /\ order[w].handed => Exists(w)
    /\ Exists(w) => /\ order[w].source \in Sources
                    /\ order[w].step >= 1
                    /\ order[w].shown \subseteq Nat \ {0}

Undisturbed(w) == Exists(w) /\ ~order[w].disturbed

\* The page shows a stage of the template of the post, or the end that autoTask sets.
ShowsStage(r) ==
    \/ r.step = Len(r.under) /\ r.robot
    \/ r.step \in Stages(r.under) /\ r.assigned = Auditors(r.under, r.step)

\* An order that is handed over has passed the last stage; when its approvals came
\* from its pages, a stage that was shown comes after stages that were agreed to.
PassedInOrder(r) ==
    /\ ~r.offpage => \A n \in r.shown : n < Len(r.under) => 1 .. n - 1 \subseteq r.passed
    /\ r.passed \subseteq Stages(r.under)
    /\ r.handed => /\ Len(r.under) - 1 \in r.passed
                   /\ r.offpage \/ Stages(r.under) \subseteq r.passed

RowAsPosted(r) == ShowsStage(r) /\ PassedInOrder(r)

\* A goroutine that writes an approval of the row r.
AgreedAsPosted(h, r) ==
    /\ job[h].stage \in r.passed /\ job[h].steps = r.under
    /\ r.offpage \/ job[h].stage \in r.shown

\* While nothing disturbs an order its source names the template it was posted under,
\* and a goroutine that reviews it has the template, or is about to read it.
AsPosted(w) ==
    Undisturbed(w) =>
        /\ Find(flow[order[w].source]) = order[w].under
        /\ RowAsPosted(order[w])
        /\ \A h \in Handlers : Agreeing(h) /\ job[h].work = w =>
              IF At(h, "agreeTpl") THEN job[h].id = flow[order[w].source]
              ELSE AgreedAsPosted(h, order[w])

\* The stages that were agreed to and have no entry in the trail yet.
Pending(w) == {job[h].stage : h \in {g \in Handlers : Agreed(g) /\ job[g].work = w}}

\* While no stage is agreed to twice and no other button is pressed, the trail has
\* the entry of the post and at most one for each stage that is not pending.
TrailFits(w) ==
    Undisturbed(w) /\ ~order[w].extra =>
        /\ \A g, h \in Handlers :
              g # h /\ Agreed(g) /\ Agreed(h) /\ job[g].work = w /\ job[h].work = w
                => job[g].stage # job[h].stage
        /\ order[w].trail <= 1 + Cardinality(order[w].passed \ Pending(w))

\* Which of the conjuncts a row keeps when its fields stay.
LEMMA SameRowFits ==
    ASSUME NEW r, NEW q, SameRow(r, q), RowAsPosted(q)
    PROVE  RowAsPosted(r)
BY DEF SameRow, RowAsPosted, ShowsStage, PassedInOrder

OrdersFit == \A w \in WorkIds : RowFits(w) /\ AsPosted(w) /\ TrailFits(w)

Core ==
    /\ TypeOK /\ FlowUsed
    /\ \A h \in Handlers : JobFits(h)
    /\ PostsDiffer
    /\ OrdersFit

\* The stages of an order are finitely many.
LEMMA PassedFinite ==
    ASSUME TypeOK, NEW w \in WorkIds, AsPosted(w), Undisturbed(w)
    PROVE  /\ IsFiniteSet(order[w].passed)
           /\ Len(order[w].under) \in Nat
           /\ Cardinality(order[w].passed) <= IF Len(order[w].under) = 0 THEN 0
                                              ELSE Len(order[w].under) - 1
<1>1. order[w].under \in Seq(SUBSET Accounts)
  <2>1. order[w] \in OrderType
    BY DEF TypeOK
  <2>2. order[w].under \in StepLists \/ order[w].under = <<>>
    BY <2>1 DEF OrderType
  <2>3. <<>> \in Seq(SUBSET Accounts)
    OBVIOUS
  <2> QED
    BY <2>2, <2>3, FlowAssumption
<1>2. Len(order[w].under) \in Nat
  BY <1>1
<1>3. order[w].passed \in SUBSET (1 .. Len(order[w].under) - 1)
  BY DEF AsPosted, RowAsPosted, PassedInOrder, Stages
<1>4. /\ IsFiniteSet(1 .. Len(order[w].under) - 1)
      /\ Cardinality(1 .. Len(order[w].under) - 1) = IF Len(order[w].under) = 0 THEN 0
                                              ELSE Len(order[w].under) - 1
  <2> DEFINE n == Len(order[w].under) - 1
  <2>1. n \in Int /\ 1 \in Int
    BY <1>2
  <2>2. IsFiniteSet(1 .. n) /\ Cardinality(1 .. n) = IF 1 > n THEN 0 ELSE n - 1 + 1
    <3> HIDE DEF n
    <3> QED
      BY <2>1, FS_Interval
  <2> QED
    BY <1>2, <2>2
<1> QED
  BY <1>2, <1>3, <1>4, FS_Subset

\* With fewer pending stages the bound on the trail can only grow.
LEMMA FewerPending ==
    ASSUME NEW S, IsFiniteSet(S), NEW P, NEW Q, Q \subseteq P
    PROVE  /\ Cardinality(S \ P) <= Cardinality(S \ Q)
           /\ Cardinality(S \ P) \in Nat /\ Cardinality(S \ Q) \in Nat
<1>1. IsFiniteSet(S \ Q) /\ IsFiniteSet(S \ P)
  BY FS_Difference
<1>2. (S \ P) \in SUBSET (S \ Q)
  OBVIOUS
<1> QED
  BY <1>1, <1>2, FS_Subset, FS_CardinalityType

\* A step that is about other orders, or begins an approval of this one.
Untouched(w) ==
    /\ SameRow(order'[w], order[w])
    /\ ~order'[w].disturbed =>
          /\ ~order[w].disturbed
          /\ \A s \in Sources : s = order[w].source =>
                flow'[s] = flow[s] /\ Find(flow[s])' = Find(flow[s])
    /\ \A h \in Handlers : Agreeing(h)' /\ job'[h].work = w =>
          \/ job'[h] = job[h]
          \/ At(h, "agreeTpl")' /\ job'[h].id = flow'[order'[w].source]

LEMMA OthersFit ==
    ASSUME TypeOK, NEW w \in WorkIds, RowFits(w), AsPosted(w), TrailFits(w), Untouched(w)
    PROVE  RowFits(w)' /\ AsPosted(w)' /\ TrailFits(w)'
<1>1. RowFits(w)'
  BY DEF RowFits, Untouched, SameRow, Exists
<1>2. Undisturbed(w)' => Undisturbed(w)
  BY DEF Untouched, Undisturbed, SameRow, Exists
<1>3. ASSUME Undisturbed(w)'
      PROVE  /\ Find(flow[order[w].source])' = Find(flow[order[w].source])
             /\ flow'[order[w].source] = flow[order[w].source]
             /\ order'[w].source = order[w].source
  <2>1. PICK s \in Sources : s = order[w].source
    BY <1>2, <1>3 DEF RowFits, Undisturbed
  <2>2. Find(flow[s])' = Find(flow[s]) /\ flow'[s] = flow[s]
    BY <1>3, <2>1 DEF Untouched, Undisturbed
  <2>3. order'[w].source = s
    BY <2>1 DEF Untouched, SameRow
  <2> QED
    BY <2>1, <2>2, <2>3 DEF Find
<1>4. AsPosted(w)'
  <2> SUFFICES ASSUME Undisturbed(w)'
               PROVE  AsPosted(w)'
    BY DEF AsPosted
  <2>1. \A h \in Handlers : Agreeing(h)' /\ job'[h].work = w =>
              IF At(h, "agreeTpl")' THEN job'[h].id = flow'[order'[w].source]
              ELSE AgreedAsPosted(h, order[w])'
    <3> TAKE h \in Handlers
    <3> HAVE Agreeing(h)' /\ job'[h].work = w
    <3>1. CASE At(h, "agreeTpl")' /\ job'[h].id = flow'[order'[w].source]
      BY <3>1
    <3>2. CASE job'[h] = job[h]
      <4>1. Agreeing(h) /\ job[h].work = w /\ At(h, "agreeTpl")' = At(h, "agreeTpl")
        BY <3>2 DEF Agreeing, Agreed, At
      <4> QED
        BY <1>2, <1>3, <3>2, <4>1 DEF AsPosted, AgreedAsPosted, Untouched, SameRow
    <3> QED
      BY <3>1, <3>2 DEF Untouched
  <2>2. RowAsPosted(order[w])'
    <3>1. \A r, q : SameRow(r, q) /\ RowAsPosted(q) => RowAsPosted(r)
      BY SameRowFits
    <3> QED
      BY <1>2, <3>1 DEF AsPosted, Untouched
  <2> QED
    BY <1>2, <1>3, <2>1, <2>2 DEF AsPosted, Untouched, SameRow
<1>5. TrailFits(w)'
  <2> SUFFICES ASSUME Undisturbed(w)', ~order'[w].extra
               PROVE  TrailFits(w)'
    BY DEF TrailFits
  <2>1. /\ order'[w].extra = order[w].extra /\ order'[w].passed = order[w].passed
        /\ order'[w].trail = order[w].trail
    BY DEF Untouched, SameRow
  <2>2. \A h \in Handlers : Agreed(h)' /\ job'[h].work = w => job'[h] = job[h] /\ Agreed(h)
    BY DEF Untouched, Agreeing, Agreed, At
  <2>3. Pending(w)' \subseteq Pending(w)
    BY <2>2 DEF Pending
  <2>4. Cardinality(order[w].passed \ Pending(w)) <= Cardinality(order[w].passed \ Pending(w)')
        /\ Cardinality(order[w].passed \ Pending(w)) \in Nat
        /\ Cardinality(order[w].passed \ Pending(w)') \in Nat
    BY <1>2, <2>3, PassedFinite, FewerPending
  <2>5. order[w].trail \in Nat
    BY DEF TypeOK, OrderType
  <2>6. order[w].trail <= 1 + Cardinality(order[w].passed \ Pending(w))
    BY <1>2, <2>1 DEF TrailFits
  <2>7. order'[w].trail <= 1 + Cardinality(order'[w].passed \ Pending(w)')
    BY <2>1, <2>4, <2>5, <2>6
  <2> QED
    BY <1>2, <2>1, <2>2, <2>7 DEF TrailFits
<1> QED
  BY <1>1, <1>4, <1>5

\* Every variable keeps its type when the orders and the goroutines do.
LEMMA TypesFollow ==
    ASSUME Core, [Next]_vars, order' \in [WorkIds \union {EmptyId} -> OrderType],
           job' \in [Handlers -> JobType], CountersOK'
    PROVE  TypeOK' /\ FlowUsed' /\ KeysStayUsed
BY TemplatesStep DEF Core, CountersOK, TypeOK

\* A goroutine that goes on as it was is still right about its order.
LEMMA JobStays ==
    ASSUME Core, NEW h \in Handlers, job'[h] = job[h], KeysStayUsed,
           Posting(h) => order'[job[h].work].status = order[job[h].work].status,
           Agreeing(h) => Exists(job[h].work)',
           At(h, "robot") /\ job[h].work # EmptyId =>
              Exists(job[h].work)' /\ order'[job[h].work].under = order[job[h].work].under
    PROVE  JobFits(h)'
<1>1. JobFits(h)
  BY DEF Core
<1>2. /\ Posting(h)' = Posting(h) /\ Agreeing(h)' = Agreeing(h)
      /\ \A pc : At(h, pc)' = At(h, pc)
  BY DEF Posting, Agreeing, Agreed, At
<1>3. Posting(h) => ~Exists(job[h].work)'
  BY <1>1 DEF JobFits, Exists
<1>4. At(h, "agreeTpl") /\ job[h].id # NoFlow => tpl'[job[h].id] # Unused
  BY <1>1, JobFields DEF JobFits, KeysStayUsed, Core
<1>5. At(h, "robot") /\ job[h].work # EmptyId =>
         Exists(job[h].work)' /\ job[h].length = Len(order'[job[h].work].under)
  BY <1>1 DEF JobFits
<1>6. Agreeing(h) => Exists(job[h].work)'
  OBVIOUS
<1> QED
  BY <1>1, <1>2, <1>3, <1>4, <1>5, <1>6 DEF JobFits, Exists

LEMMA AsideStep ==
    ASSUME Core, Aside
    PROVE  Core'
<1>1. [Next]_vars
  BY DEF Aside, Next
<1>2. HistoryOnly /\ JobsKept /\ job' \in [Handlers -> JobType] /\ CountersOK'
  BY AsideOrders, AsideJobs DEF Core
<1>3. TypeOK' /\ FlowUsed' /\ KeysStayUsed
  BY <1>1, <1>2, TypesFollow DEF HistoryOnly
<1>4. ASSUME NEW h \in Handlers
      PROVE  JobFits(h)'
  <2>1. CASE job'[h] = job[h]
    <3>1. Posting(h) \/ Agreeing(h) => job[h].work \in WorkIds
      BY JobFields DEF Core
    <3>2. /\ Agreeing(h) => Exists(job[h].work)
          /\ At(h, "robot") /\ job[h].work # EmptyId =>
                job[h].work \in WorkIds /\ Exists(job[h].work)
      BY JobFields DEF Core, JobFits
    <3> QED
      BY <1>2, <1>3, <2>1, <3>1, <3>2, JobStays DEF HistoryOnly, SameRow, Exists
  <2>2. CASE job'[h].pc \notin {"postTpl", "insert", "robot", "agreeTpl", "advance", "execute"}
    BY <2>2 DEF JobFits, Posting, Agreeing, Agreed, At
  <2> QED
    BY <1>2, <2>1, <2>2 DEF JobsKept
<1>5. PostsDiffer'
  BY <1>2 DEF Core, PostsDiffer, JobsKept, Posting
<1>6. ASSUME NEW w \in WorkIds
      PROVE  (RowFits(w) /\ AsPosted(w) /\ TrailFits(w))'
  <2>1. Untouched(w)
    BY <1>2 DEF Untouched, HistoryOnly, JobsKept, Agreeing, Agreed
  <2> QED
    BY <2>1, OthersFit DEF Core, OrdersFit
<1> QED
  BY <1>3, <1>4, <1>5, <1>6 DEF Core, OrdersFit

\* A goroutine takes a step that only it knows of.
LEMMA PrivateStep ==
    ASSUME Core, [Next]_vars, UNCHANGED <<tpl, flow, order, accounts>>,
           NEW h \in Handlers, NEW t \in JobType, Serve(h, t) \/ Goto(h, t),
           t.pc \notin {"robot", "advance", "execute"},
           t.pc \in {"postTpl", "insert"} =>
              ~Exists(t.work) /\ \A g \in Handlers : g # h /\ Posting(g) => job[g].work # t.work,
           t.pc = "agreeTpl" =>
              /\ Exists(t.work)
              /\ t.id = flow[order[t.work].source]
              /\ t.id # NoFlow => tpl[t.id] # Unused
    PROVE  Core'
<1>1. /\ job' \in [Handlers -> JobType] /\ job'[h] = t
      /\ \A g \in Handlers : g # h => job'[g] = job[g]
      /\ CountersOK'
  BY ServeStep DEF Core, CountersOK, TypeOK
<1>2. TypeOK' /\ FlowUsed' /\ KeysStayUsed
  BY <1>1, TypesFollow DEF Core, TypeOK
<1>3. ASSUME NEW g \in Handlers
      PROVE  JobFits(g)'
  <2>1. CASE g = h
    BY <1>1, <2>1 DEF JobFits, Posting, Agreeing, Agreed, At, Exists
  <2>2. CASE g # h
    BY <1>1, <1>2, <2>2, JobStays DEF Core, JobFits, Exists
  <2> QED
    BY <2>1, <2>2
<1>4. PostsDiffer'
  BY <1>1 DEF Core, PostsDiffer, Posting
<1>5. ASSUME NEW w \in WorkIds
      PROVE  (RowFits(w) /\ AsPosted(w) /\ TrailFits(w))'
  <2>1. /\ SameRow(order'[w], order[w]) /\ order'[w].disturbed = order[w].disturbed
        /\ \A s \in Sources : flow'[s] = flow[s] /\ Find(flow[s])' = Find(flow[s])
    BY DEF SameRow, Find
  <2>2. Untouched(w)
    BY <1>1, <2>1 DEF Untouched, Agreeing, Agreed, At
  <2> QED
    BY <2>2, OthersFit DEF Core, OrdersFit
<1> QED
  BY <1>2, <1>3, <1>4, <1>5 DEF Core, OrdersFit

LEMMA PostFlowStep ==
    ASSUME Core, [Next]_vars, NEW h \in Handlers, NEW w \in WorkIds, NEW s \in Sources,
           PostFlow(h, w, s)
    PROVE  Core'
<1> DEFINE t == [pc |-> "postTpl", work |-> w, source |-> s, id |-> flow[s]]
<1>1. t \in JobType /\ t.pc = "postTpl" /\ t.work = w
  <2>1. flow[s] \in TplIds \union {NoFlow}
    BY DEF Core, TypeOK
  <2> QED
    BY <2>1 DEF JobType
<1>2. /\ Serve(h, t) /\ ~Exists(w) /\ UNCHANGED <<tpl, flow, order, accounts>>
      /\ \A g \in Handlers : g # h /\ Posting(g) => job[g].work # w
  BY DEF PostFlow, Posting
<1> HIDE DEF t
<1> QED
  BY <1>1, <1>2, PrivateStep

LEMMA PostTplStep ==
    ASSUME Core, [Next]_vars, NEW h \in Handlers, PostTpl(h)
    PROVE  Core'
<1> DEFINE steps == Find(job[h].id)
           t == [pc |-> "insert", work |-> job[h].work, source |-> job[h].source,
                 id |-> job[h].id, steps |-> steps]
<1>1. UNCHANGED <<tpl, flow, order, accounts>> /\ Posting(h)
  BY DEF PostTpl, Posting, At
<1>2. CASE steps = None
  <2>1. Goto(h, Idle)
    BY <1>2 DEF PostTpl
  <2>2. Idle \in JobType /\ Idle.pc = "idle"
    BY DEF JobType, Idle
  <2> QED
    BY <1>1, <2>1, <2>2, PrivateStep
<1>3. CASE steps # None
  <2>1. Goto(h, t)
    BY <1>3 DEF PostTpl
  <2>2. steps \in StepLists /\ job[h].id # NoFlow
    BY <1>3 DEF Find
  <2>3. /\ job[h].work \in WorkIds /\ job[h].source \in Sources
        /\ job[h].id \in TplIds
    BY <1>1, <2>2, JobFields DEF Core, PostTpl
  <2> HIDE DEF steps
  <2>4. t \in JobType /\ t.pc = "insert" /\ t.work = job[h].work
    BY <2>2, <2>3 DEF JobType
  <2>5. /\ ~Exists(job[h].work)
        /\ \A g \in Handlers : g # h /\ Posting(g) => job[g].work # job[h].work
    BY <1>1 DEF Core, JobFits, PostsDiffer
  <2> HIDE DEF t
  <2> QED
    BY <1>1, <2>1, <2>4, <2>5, PrivateStep
<1> QED
  BY <1>2, <1>3

\* A Flag is never the stage of the post.
LEMMA FlagsPositive == Flags \subseteq Nat \ {0}
<1>1. ASSUME NEW steps \in StepLists
      PROVE  Stages(steps) \subseteq Nat \ {0}
  <2>1. Len(steps) \in Nat
    BY FlowAssumption
  <2> QED
    BY <2>1 DEF Stages
<1> QED
  BY <1>1 DEF Flags

LEMMA AgreeFlowStep ==
    ASSUME Core, [Next]_vars, NEW h \in Handlers, NEW w \in WorkIds,
           NEW stage \in Flags, AgreeFlow(h, w, stage)
    PROVE  Core'
<1> DEFINE id == flow[order[w].source]
           t == [pc |-> "agreeTpl", work |-> w, stage |-> stage, id |-> id]
<1>1. /\ Serve(h, t) /\ Exists(w) /\ UNCHANGED <<tpl, flow, order, accounts>>
  BY DEF AgreeFlow
<1>2. order[w].source \in Sources /\ stage \in Nat \ {0}
  BY <1>1, FlagsPositive DEF Core, OrdersFit, RowFits
<1>3. id \in TplIds \union {NoFlow} /\ (id # NoFlow => tpl[id] # Unused)
  BY <1>2 DEF Core, TypeOK, FlowUsed
<1>4. t \in JobType /\ t.pc = "agreeTpl" /\ t.work = w /\ t.stage = stage /\ t.id = id
  <2> HIDE DEF id
  <2> QED
    BY <1>2, <1>3 DEF JobType
<1> HIDE DEF t
<1> QED
  BY <1>1, <1>3, <1>4, PrivateStep

\* A step that writes one row: what is left to show is about that row.
LEMMA OneRowStep ==
    ASSUME Core, [Next]_vars, UNCHANGED <<tpl, flow, accounts>>,
           NEW h \in Handlers, NEW w \in WorkIds \union {EmptyId},
           order' \in [WorkIds \union {EmptyId} -> OrderType],
           \A v \in WorkIds \union {EmptyId} : v # w => order'[v] = order[v],
           job' \in [Handlers -> JobType], CountersOK',
           OthersLearn(h),
           ~Posting(h)' /\ (Agreeing(h)' => job'[h].work = w),
           JobFits(h)',
           \A g \in Handlers : g # h /\ Posting(g) => job[g].work # w,
           w # EmptyId =>
              /\ Exists(w) => Exists(w)' /\ order'[w].under = order[w].under
              /\ RowFits(w)' /\ AsPosted(w)' /\ TrailFits(w)'
    PROVE  Core'
<1>1. TypeOK' /\ FlowUsed' /\ KeysStayUsed
  BY TypesFollow
<1>2. ASSUME NEW g \in Handlers, g # h
      PROVE  JobFits(g)'
  <2>1. CASE job'[g] = job[g]
    <3>1. Posting(g) \/ Agreeing(g) => job[g].work \in WorkIds
      BY JobFields DEF Core
    <3>2. /\ Agreeing(g) => Exists(job[g].work)
          /\ At(g, "robot") /\ job[g].work # EmptyId =>
                job[g].work \in WorkIds /\ Exists(job[g].work)
      BY JobFields DEF Core, JobFits
    <3>3. \A v \in WorkIds : Exists(v) => Exists(v)' /\ order'[v].under = order[v].under
      BY FlowAssumption DEF Exists
    <3> QED
      BY <1>1, <1>2, <2>1, <3>1, <3>2, <3>3, JobStays, FlowAssumption DEF Exists
  <2>2. CASE job'[g].pc \in {"editWrite", "deleteUser"}
    BY <2>2 DEF JobFits, Posting, Agreeing, Agreed, At
  <2> QED
    BY <1>2, <2>1, <2>2 DEF OthersLearn
<1>3. PostsDiffer'
  <2>2. \A g \in Handlers : Posting(g)' => job'[g] = job[g] /\ Posting(g)
    BY DEF Posting, OthersLearn
  <2> QED
    BY <2>2 DEF Core, PostsDiffer
<1>4. ASSUME NEW v \in WorkIds, v # w
      PROVE  (RowFits(v) /\ AsPosted(v) /\ TrailFits(v))'
  <2>1. SameRow(order'[v], order[v]) /\ order'[v].disturbed = order[v].disturbed
    BY <1>4 DEF SameRow
  <2>2. \A s \in Sources : flow'[s] = flow[s] /\ Find(flow[s])' = Find(flow[s])
    BY DEF Find
  <2>3. ASSUME NEW g \in Handlers, Agreeing(g)', job'[g].work = v
        PROVE  job'[g] = job[g]
    <3>1. g # h
      BY <1>4, <2>3
    <3> QED
      BY <2>3, <3>1 DEF Agreeing, Agreed, At, OthersLearn
  <2>4. Untouched(v)
    BY <2>1, <2>2, <2>3 DEF Untouched
  <2> QED
    BY <2>4, OthersFit DEF Core, OrdersFit
<1>5. \A v \in WorkIds : (RowFits(v) /\ AsPosted(v) /\ TrailFits(v))'
  BY <1>4, FlowAssumption
<1> QED
  BY <1>1, <1>2, <1>3, <1>5 DEF Core, OrdersFit

\* The end of a post.
LEMMA PostEnded ==
    ASSUME Core, NEW h \in Handlers, NEW w \in WorkIds \union {EmptyId}, NEW length \in Nat,
           PostEnds(h, w, length), accounts' = accounts,
           w # EmptyId => Exists(w)' /\ length = Len(order'[w].under)
    PROVE  /\ job' \in [Handlers -> JobType] /\ CountersOK' /\ OthersLearn(h)
           /\ ~Posting(h)' /\ ~Agreeing(h)' /\ JobFits(h)'
<1>1. job' \in [Handlers -> JobType] /\ Ended(h, w, length) /\ OthersLearn(h)
  BY PostLearning DEF Core
<1>2. CountersOK'
  BY DEF Core, TypeOK, CountersOK, PostEnds
<1>3. job'[h].pc \in {"idle", "robot"}
  BY <1>1 DEF Ended, Idle
<1>4. ~Posting(h)' /\ ~Agreeing(h)'
  BY <1>3 DEF Posting, Agreeing, Agreed
<1>5. job'[h].pc = "robot" => job'[h].work = w /\ job'[h].length = length
  BY <1>1 DEF Ended, Idle
<1>6. JobFits(h)'
  BY <1>3, <1>4, <1>5 DEF JobFits, At, Exists
<1> QED
  BY <1>1, <1>2, <1>4, <1>6

LEMMA InsertShortStep ==
    ASSUME Core, [Next]_vars, NEW h \in Handlers, InsertShort(h)
    PROVE  Core'
<1> DEFINE r == [NoOrder EXCEPT !.status = "rejected", !.source = job[h].source,
                                !.trail = order[EmptyId].trail + 1]
<1>1. job[h].source \in Sources /\ job[h].work \in WorkIds
  BY JobFields DEF Core, InsertShort, Posting, At
<1>2. order' = [order EXCEPT ![EmptyId] = r] /\ PostEnds(h, EmptyId, 0)
      /\ UNCHANGED <<tpl, flow, accounts>>
  BY DEF InsertShort
<1>3. r \in OrderType
  <2>1. order[EmptyId].trail + 1 \in Nat
    BY DEF Core, TypeOK, OrderType
  <2> QED
    BY <1>1, <2>1 DEF NoOrder, OrderType
<1> HIDE DEF r
<1>4. /\ order' \in [WorkIds \union {EmptyId} -> OrderType] /\ order'[EmptyId] = r
      /\ \A v \in WorkIds \union {EmptyId} : v # EmptyId => order'[v] = order[v]
  BY <1>2, <1>3 DEF Core, TypeOK
<1>5. \A g \in Handlers : Posting(g) => job[g].work # EmptyId
  BY JobFields, FlowAssumption DEF Core
<1>6. 0 \in Nat
  OBVIOUS
<1>7. /\ job' \in [Handlers -> JobType] /\ CountersOK' /\ OthersLearn(h)
      /\ ~Posting(h)' /\ ~Agreeing(h)' /\ JobFits(h)'
  BY <1>2, <1>6, PostEnded
<1> QED
  BY <1>2, <1>4, <1>5, <1>7, OneRowStep

\* The row of a post.
LEMMA PostedRow ==
    ASSUME NEW s \in Sources, NEW steps \in StepLists, NEW moved \in BOOLEAN,
           Auditors(steps, 1) \subseteq Accounts, NEW r, r = Posted(s, steps, moved)
    PROVE  /\ r \in OrderType /\ r.status = "review" /\ r.source = s /\ r.step = 1
           /\ r.assigned = Auditors(steps, 1) /\ r.trail = 1 /\ r.under = steps
           /\ r.passed = {} /\ r.shown = {1} /\ ~r.handed /\ r.disturbed = moved
           /\ ~r.offpage
<1>1. r = [status |-> "review", source |-> s, step |-> 1, assigned |-> Auditors(steps, 1),
           trail |-> 1, under |-> steps, passed |-> {}, shown |-> {1}, offpage |-> FALSE,
           extra |-> FALSE, disturbed |-> moved, handed |-> FALSE, robot |-> FALSE]
  BY DEF Posted, NoOrder
<1> QED
  BY <1>1 DEF OrderType

LEMMA InsertStep ==
    ASSUME Core, [Next]_vars, NEW h \in Handlers, Insert(h)
    PROVE  Core'
<1>1. /\ job[h].source \in Sources /\ job[h].work \in WorkIds
      /\ job[h].steps \in StepLists /\ Posting(h)
  BY JobFields DEF Core, Insert, Posting, At
<1>2. PICK w \in WorkIds, s \in Sources, steps \in StepLists :
         w = job[h].work /\ s = job[h].source /\ steps = job[h].steps
  BY <1>1
<1>3. PICK moved \in BOOLEAN :
         moved = (<<flow[s], Find(flow[s])>> # <<job[h].id, steps>>)
  OBVIOUS
<1>4. PICK r : r = Posted(s, steps, moved)
  OBVIOUS
<1>5. /\ order' = [order EXCEPT ![w] = r] /\ PostEnds(h, w, Len(steps)) /\ Len(steps) >= 2
      /\ UNCHANGED <<tpl, flow, accounts>>
  BY <1>2, <1>3, <1>4 DEF Insert
<1>6. Auditors(steps, 1) \subseteq Accounts /\ Len(steps) \in Nat
  <2>1. steps \in Seq(SUBSET Accounts)
    BY FlowAssumption
  <2>2. 2 \in 1 .. Len(steps)
    BY <1>5, <2>1
  <2> QED
    BY <2>1, <2>2 DEF Auditors
<1>7. /\ r \in OrderType /\ r.status = "review" /\ r.source = s /\ r.step = 1
      /\ r.assigned = Auditors(steps, 1) /\ r.trail = 1 /\ r.under = steps
      /\ r.passed = {} /\ r.shown = {1} /\ ~r.handed /\ r.disturbed = moved
      /\ ~r.offpage
  BY <1>4, <1>6, PostedRow
<1>8. /\ order' \in [WorkIds \union {EmptyId} -> OrderType] /\ order'[w] = r
      /\ \A v \in WorkIds \union {EmptyId} : v # w => order'[v] = order[v]
  BY <1>5, <1>7 DEF Core, TypeOK
<1>9. ~Exists(w) /\ \A g \in Handlers : g # h /\ Posting(g) => job[g].work # w
  BY <1>1, <1>2 DEF Core, JobFits, PostsDiffer
<1>10. /\ job' \in [Handlers -> JobType] /\ CountersOK' /\ OthersLearn(h)
       /\ ~Posting(h)' /\ ~Agreeing(h)' /\ JobFits(h)'
  <2>1. Exists(w)' /\ Len(steps) = Len(order'[w].under)
    BY <1>7, <1>8 DEF Exists
  <2> QED
    BY <1>5, <1>6, <2>1, PostEnded
<1>11. \A g \in Handlers : Agreeing(g)' => job'[g].work # w
  <2> TAKE g \in Handlers
  <2> HAVE Agreeing(g)'
  <2>1. g # h /\ job'[g] = job[g] /\ Agreeing(g)
    BY <1>10 DEF Agreeing, Agreed, At, OthersLearn
  <2>2. Exists(job[g].work)
    BY <2>1 DEF Core, JobFits
  <2> QED
    BY <1>9, <2>1, <2>2
<1>12. RowFits(w)'
  BY <1>7, <1>8 DEF RowFits, Exists
<1>13. AsPosted(w)'
  <2> SUFFICES ASSUME Undisturbed(w)'
               PROVE  AsPosted(w)'
    BY DEF AsPosted
  <2>1. ~moved
    BY <1>7, <1>8 DEF Undisturbed
  <2>2. Find(flow[s])' = steps
    BY <1>3, <1>5, <2>1 DEF Find
  <2>3. Find(flow[order[w].source])' = steps
    BY <1>7, <1>8, <2>2 DEF Find
  <2>4. PassedInOrder(r)
    <3>1. \A n \in {1} : 1 .. n - 1 \subseteq {}
      OBVIOUS
    <3> QED
      BY <1>7, <3>1 DEF PassedInOrder
  <2>5. ShowsStage(r)
    <3>1. 1 \in Stages(steps)
      BY <1>5, <1>6 DEF Stages
    <3> QED
      BY <1>7, <3>1 DEF ShowsStage
  <2> QED
    BY <1>7, <1>8, <1>11, <2>3, <2>4, <2>5 DEF AsPosted, RowAsPosted
<1>14. TrailFits(w)'
  <2>1. \A g \in Handlers : ~(Agreed(g)' /\ job'[g].work = w)
    BY <1>11 DEF Agreeing
  <2>2. Cardinality({} \ Pending(w)') = 0
    <3>1. {} \ Pending(w)' = {}
      OBVIOUS
    <3> QED
      BY <3>1, FS_EmptySet
  <2>3. order'[w].trail <= 1 + Cardinality(order'[w].passed \ Pending(w)')
    BY <1>7, <1>8, <2>2
  <2> QED
    BY <2>1, <2>3 DEF TrailFits
<1> QED
  BY <1>5, <1>8, <1>9, <1>10, <1>12, <1>13, <1>14, OneRowStep

\* A stage is agreed to.
LEMMA AgreeTplStep ==
    ASSUME Core, [Next]_vars, NEW h \in Handlers, AgreeTpl(h)
    PROVE  Core'
<1>1. /\ job[h].work \in WorkIds /\ job[h].stage \in Nat \ {0}
      /\ job[h].id \in TplIds \union {NoFlow} /\ Agreeing(h) /\ At(h, "agreeTpl")
  BY JobFields DEF Core, AgreeTpl, Agreeing, At
<1>2. PICK w \in WorkIds, stage \in Nat \ {0}, steps \in {Find(job[h].id)} :
         w = job[h].work /\ stage = job[h].stage /\ steps = Find(job[h].id)
  BY <1>1
<1>3. UNCHANGED <<tpl, flow, accounts>>
  BY DEF AgreeTpl
<1>4. CASE \/ steps = None \/ stage >= Len(steps)
           \/ Auditors(steps, stage) = {}
  <2>1. Goto(h, Idle) /\ UNCHANGED order
    BY <1>2, <1>4 DEF AgreeTpl
  <2>2. Idle \in JobType /\ Idle.pc = "idle"
    BY DEF JobType, Idle
  <2> QED
    BY <1>3, <2>1, <2>2, PrivateStep
<1>5. CASE ~(\/ steps = None \/ stage >= Len(steps)
             \/ Auditors(steps, stage) = {})
  <2>1. steps \in StepLists /\ Len(steps) \in Nat
    <3>1. steps \in StepLists
      BY <1>2, <1>5 DEF Find
    <3> QED
      BY <3>1, FlowAssumption
  <2>2. PICK t : t = [pc |-> IF stage + 1 = Len(steps) THEN "execute" ELSE "advance",
                      work |-> w, stage |-> stage, steps |-> steps]
    OBVIOUS
  <2>3. /\ t \in JobType /\ t.work = w /\ t.stage = stage /\ t.steps = steps
        /\ t.pc \in {"advance", "execute"}
        /\ t.pc = "advance" => stage + 1 < Len(steps)
        /\ t.pc = "execute" => stage + 1 = Len(steps)
    BY <1>2, <1>5, <2>1, <2>2 DEF JobType
  <2>4. PICK r : r = [order[w] EXCEPT !.passed = order[w].passed \union {stage},
                                      !.offpage = order[w].offpage \/ stage \notin order[w].shown,
                                      !.extra = order[w].extra \/ stage \in order[w].passed]
    OBVIOUS
  <2>5. Goto(h, t) /\ order' = [order EXCEPT ![w] = r]
    <3>1. /\ Goto(h, t)
          /\ order' = [order EXCEPT ![w].passed = @ \union {stage},
                                    ![w].offpage = @ \/ stage \notin order[w].shown,
                                    ![w].extra = @ \/ stage \in order[w].passed]
      BY <1>2, <1>5, <2>2 DEF AgreeTpl
    <3> QED
      BY <2>4, <3>1 DEF Core, TypeOK
  <2>6. order[w] \in OrderType
    BY DEF Core, TypeOK
  <2>7. /\ r \in OrderType
        /\ r.status = order[w].status /\ r.source = order[w].source
        /\ r.step = order[w].step /\ r.assigned = order[w].assigned
        /\ r.trail = order[w].trail /\ r.under = order[w].under
        /\ r.passed = order[w].passed \union {stage} /\ r.shown = order[w].shown
        /\ r.extra = (order[w].extra \/ stage \in order[w].passed)
        /\ r.offpage = (order[w].offpage \/ stage \notin order[w].shown)
        /\ r.disturbed = order[w].disturbed /\ r.handed = order[w].handed
        /\ r.robot = order[w].robot
    <3>1. /\ (order[w].extra \/ stage \in order[w].passed) \in BOOLEAN
          /\ (order[w].offpage \/ stage \notin order[w].shown) \in BOOLEAN
      OBVIOUS
    <3> QED
      BY <2>4, <2>6, <3>1 DEF OrderType
  <2>8. /\ order' \in [WorkIds \union {EmptyId} -> OrderType] /\ order'[w] = r
        /\ \A v \in WorkIds \union {EmptyId} : v # w => order'[v] = order[v]
    BY <2>5, <2>7 DEF Core, TypeOK
  <2>9. /\ job' \in [Handlers -> JobType] /\ job'[h] = t /\ CountersOK'
        /\ \A g \in Handlers : g # h => job'[g] = job[g]
    BY <1>3, <2>3, <2>5, ServeStep DEF Core, CountersOK, TypeOK
  <2>10. Exists(w) /\ stage >= 1
    BY <1>1, <1>2 DEF Core, JobFits
  <2>11. JobFits(h)'
    BY <2>3, <2>7, <2>8, <2>9, <2>10 DEF JobFits, Posting, Agreeing, Agreed, At, Exists
  <2>12. \A g \in Handlers : g # h /\ Posting(g) => job[g].work # w
    BY <2>10 DEF Core, JobFits
  <2>13. RowFits(w)'
    BY <2>7, <2>8 DEF Core, OrdersFit, RowFits, Exists
  <2>14. ASSUME Undisturbed(w)'
         PROVE  /\ Undisturbed(w) /\ AsPosted(w)
                /\ Find(flow[order[w].source])' = order[w].under
                /\ flow'[order'[w].source] = flow[order[w].source]
                /\ steps = order[w].under
    <3>1. Undisturbed(w) /\ AsPosted(w)
      BY <2>7, <2>8, <2>14 DEF Core, OrdersFit, Undisturbed, Exists
    <3>2. job[h].id = flow[order[w].source]
      BY <1>1, <1>2, <3>1 DEF AsPosted
    <3> QED
      BY <1>2, <1>3, <2>7, <2>8, <3>1, <3>2 DEF AsPosted, Find
  <2>15. AsPosted(w)'
    <3> SUFFICES ASSUME Undisturbed(w)'
                 PROVE  AsPosted(w)'
      BY DEF AsPosted
    <3>1. stage \in Stages(order[w].under)
      BY <1>5, <2>1, <2>10, <2>14 DEF Stages
    <3>2. ShowsStage(r)
      BY <2>7, <2>14 DEF AsPosted, RowAsPosted, ShowsStage
    <3>3. PassedInOrder(r)
      <4>1. PassedInOrder(order[w])
        BY <2>14 DEF AsPosted, RowAsPosted
      <4> QED
        BY <2>7, <3>1, <4>1 DEF PassedInOrder
    <3>4. ASSUME NEW g \in Handlers, Agreeing(g)', job'[g].work = w
          PROVE  IF At(g, "agreeTpl")' THEN job'[g].id = flow'[order'[w].source]
                 ELSE AgreedAsPosted(g, order[w])'
      <4>1. CASE g = h
        BY <2>3, <2>7, <2>8, <2>9, <2>14, <4>1 DEF At, AgreedAsPosted
      <4>2. CASE g # h
        <5>1. job'[g] = job[g] /\ Agreeing(g) /\ At(g, "agreeTpl")' = At(g, "agreeTpl")
          BY <2>9, <3>4, <4>2 DEF Agreeing, Agreed, At
        <5> QED
          BY <2>7, <2>8, <2>14, <3>4, <5>1 DEF AsPosted, AgreedAsPosted
      <4> QED
        BY <4>1, <4>2
    <3>5. Find(flow[order[w].source])' = order'[w].under
      BY <2>7, <2>8, <2>14
    <3>6. RowAsPosted(order'[w])
      BY <2>8, <3>2, <3>3 DEF RowAsPosted
    <3> QED
      BY <3>4, <3>5, <3>6 DEF AsPosted
  <2>16. TrailFits(w)'
    <3> SUFFICES ASSUME Undisturbed(w)', ~order'[w].extra
                 PROVE  TrailFits(w)'
      BY DEF TrailFits
    <3>1. stage \notin order[w].passed /\ ~order[w].extra
      BY <2>7, <2>8
    <3>2. \A g \in Handlers : Agreed(g) /\ job[g].work = w => job[g].stage \in order[w].passed
      BY <2>14 DEF AsPosted, AgreedAsPosted, Agreeing, Agreed, At
    <3>3. ~Agreed(h) /\ Agreed(h)' /\ job'[h].work = w /\ job'[h].stage = stage
      BY <1>1, <2>3, <2>9 DEF Agreed, At
    <3>4. \A g \in Handlers : g # h => job'[g] = job[g] /\ Agreed(g)' = Agreed(g)
      BY <2>9 DEF Agreed
    <3>5. \A f, g \in Handlers :
              f # g /\ Agreed(f)' /\ Agreed(g)' /\ job'[f].work = w /\ job'[g].work = w
                => job'[f].stage # job'[g].stage
      <4>1. \A f, g \in Handlers :
               f # g /\ Agreed(f) /\ Agreed(g) /\ job[f].work = w /\ job[g].work = w
                 => job[f].stage # job[g].stage
        BY <2>14, <3>1 DEF Core, OrdersFit, TrailFits
      <4> QED
        BY <3>1, <3>2, <3>3, <3>4, <4>1
    <3>6. Pending(w)' = Pending(w) \union {stage}
      BY <3>3, <3>4 DEF Pending
    <3>7. order'[w].passed \ Pending(w)' = order[w].passed \ Pending(w)
      BY <2>7, <2>8, <3>1, <3>6
    <3>8. order[w].trail <= 1 + Cardinality(order[w].passed \ Pending(w))
      BY <2>14, <3>1 DEF Core, OrdersFit, TrailFits
    <3> QED
      BY <2>7, <2>8, <3>5, <3>7, <3>8 DEF TrailFits
  <2>17. Exists(w)' /\ order'[w].under = order[w].under
    BY <2>7, <2>8, <2>10 DEF Exists
  <2>18. ~Posting(h)' /\ job'[h].work = w /\ OthersLearn(h)
    BY <2>3, <2>9 DEF Posting, OthersLearn
  <2> QED
    BY <1>3, <2>8, <2>9, <2>11, <2>12, <2>13, <2>15, <2>16, <2>17, <2>18, OneRowStep
<1> QED
  BY <1>4, <1>5

\* The stage that gets its entry in the trail is no longer pending.
LEMMA StageEntered ==
    ASSUME Core, NEW h \in Handlers, NEW w \in WorkIds, Agreed(h), job[h].work = w,
           job'[h] = Idle, \A g \in Handlers : g # h => job'[g] = job[g],
           Undisturbed(w), ~order[w].extra,
           order'[w].passed = order[w].passed,
           order'[w].trail \in Nat, order'[w].trail <= order[w].trail + 1
    PROVE  /\ \A f, g \in Handlers :
                 f # g /\ Agreed(f)' /\ Agreed(g)' /\ job'[f].work = w /\ job'[g].work = w
                   => job'[f].stage # job'[g].stage
           /\ order'[w].trail <= 1 + Cardinality(order'[w].passed \ Pending(w)')
<1>1. AsPosted(w) /\ TrailFits(w)
  BY DEF Core, OrdersFit
<1>2. \A f, g \in Handlers :
         f # g /\ Agreed(f) /\ Agreed(g) /\ job[f].work = w /\ job[g].work = w
           => job[f].stage # job[g].stage
  BY <1>1 DEF TrailFits
<1>3. \A g \in Handlers : Agreed(g)' => g # h /\ job'[g] = job[g] /\ Agreed(g)
  BY DEF Agreed, Idle
<1> DEFINE stage == job[h].stage
           S     == order[w].passed
           P     == Pending(w)
           Q     == Pending(w)'
<1>4. stage \in S /\ stage \in P /\ IsFiniteSet(S)
  <2>1. ~At(h, "agreeTpl")
    BY DEF Agreed, At
  <2> QED
    BY <1>1, <2>1, PassedFinite DEF AsPosted, AgreedAsPosted, Agreeing, Pending, Core
<1>5. Q = P \ {stage}
  <2>1. \A g \in Handlers : g # h => (Agreed(g)' <=> Agreed(g)) /\ job'[g] = job[g]
    BY DEF Agreed
  <2>2. \A g \in Handlers : Agreed(g)' /\ job'[g].work = w => job'[g].stage # stage
    BY <1>2, <1>3
  <2> QED
    BY <1>3, <2>1, <2>2 DEF Pending
<1> HIDE DEF stage, S, P, Q
<1>6. S \ Q = (S \ P) \union {stage} /\ stage \notin S \ P
  BY <1>4, <1>5
<1>7. IsFiniteSet(S \ P)
  BY <1>4, FS_Difference
<1>8. Cardinality(S \ Q) = Cardinality(S \ P) + 1 /\ Cardinality(S \ P) \in Nat
  <2> DEFINE R == S \ P
  <2>1. IsFiniteSet(R) /\ S \ Q = R \union {stage} /\ stage \notin R
    BY <1>6, <1>7
  <2> HIDE DEF R
  <2>2. Cardinality(R) \in Nat /\ Cardinality(R \union {stage}) = Cardinality(R) + 1
    BY <2>1, FS_AddElement, FS_CardinalityType
  <2> QED
    BY <2>1, <2>2 DEF R
<1>9. order[w].trail <= 1 + Cardinality(S \ P) /\ order[w].trail \in Nat
  BY <1>1 DEF TrailFits, S, P, Core, TypeOK, OrderType
<1>10. order'[w].trail <= 1 + Cardinality(S \ Q)
  BY <1>8, <1>9
<1>11. order'[w].trail <= 1 + Cardinality(order'[w].passed \ Pending(w)')
  BY <1>10 DEF S, Q
<1> QED
  BY <1>2, <1>3, <1>11

\* What the goroutine that writes an approval knows.
LEMMA AgreedKnows ==
    ASSUME Core, NEW h \in Handlers, Agreed(h)
    PROVE  /\ job[h].work \in WorkIds /\ job[h].stage \in Nat \ {0}
           /\ job[h].steps \in StepLists /\ Len(job[h].steps) \in Nat
           /\ Exists(job[h].work)
           /\ At(h, "advance") => job[h].stage + 1 < Len(job[h].steps)
           /\ At(h, "execute") => job[h].stage + 1 = Len(job[h].steps)
           /\ Undisturbed(job[h].work) =>
                 /\ RowAsPosted(order[job[h].work])
                 /\ job[h].stage \in order[job[h].work].passed
                 /\ job[h].steps = order[job[h].work].under
                 /\ \/ order[job[h].work].offpage
                    \/ 1 .. job[h].stage \subseteq order[job[h].work].passed
<1>1. /\ job[h].work \in WorkIds /\ job[h].stage \in Nat \ {0} /\ job[h].steps \in StepLists
  BY JobFields DEF Core, Agreeing
<1>2. Len(job[h].steps) \in Nat
  BY <1>1, FlowAssumption
<1>3. /\ Exists(job[h].work)
      /\ At(h, "advance") => job[h].stage + 1 < Len(job[h].steps)
      /\ At(h, "execute") => job[h].stage + 1 = Len(job[h].steps)
  BY DEF Core, JobFits, Agreeing
<1>4. ASSUME Undisturbed(job[h].work)
      PROVE  /\ RowAsPosted(order[job[h].work])
             /\ job[h].stage \in order[job[h].work].passed
             /\ job[h].steps = order[job[h].work].under
             /\ \/ order[job[h].work].offpage
                \/ 1 .. job[h].stage \subseteq order[job[h].work].passed
  <2>1. AsPosted(job[h].work) /\ ~At(h, "agreeTpl")
    BY <1>1 DEF Core, OrdersFit, Agreed, At
  <2>2. RowAsPosted(order[job[h].work]) /\ AgreedAsPosted(h, order[job[h].work])
    BY <1>4, <2>1 DEF AsPosted, Agreeing
  <2>3. CASE ~order[job[h].work].offpage
    <3>1. job[h].stage \in order[job[h].work].shown
      BY <2>2, <2>3 DEF AgreedAsPosted
    <3>2. job[h].stage < Len(order[job[h].work].under)
      <4>1. job[h].stage < Len(job[h].steps)
        BY <1>1, <1>2, <1>3 DEF Agreed, At
      <4> QED
        BY <2>2, <4>1 DEF AgreedAsPosted
    <3>3. 1 .. job[h].stage - 1 \subseteq order[job[h].work].passed
      BY <2>2, <2>3, <3>1, <3>2 DEF RowAsPosted, PassedInOrder
    <3>4. \A n \in 1 .. job[h].stage : n \in 1 .. job[h].stage - 1 \/ n = job[h].stage
      BY <1>1
    <3> QED
      BY <2>2, <3>3, <3>4 DEF AgreedAsPosted
  <2> QED
    BY <2>2, <2>3 DEF AgreedAsPosted
<1> QED
  BY <1>1, <1>2, <1>3, <1>4

\* A goroutine that ends leaves nothing behind.
LEMMA LastStep ==
    ASSUME Core, NEW h \in Handlers, Goto(h, Idle) \/ Serve(h, Idle), accounts' = accounts
    PROVE  /\ job' \in [Handlers -> JobType] /\ CountersOK' /\ job'[h] = Idle
           /\ \A g \in Handlers : g # h => job'[g] = job[g]
           /\ JobFits(h)'
<1>1. Idle \in JobType
  BY DEF JobType
<1>2. /\ job' \in [Handlers -> JobType] /\ CountersOK' /\ job'[h] = Idle
      /\ \A g \in Handlers : g # h => job'[g] = job[g]
  BY <1>1, ServeStep DEF Core, CountersOK, TypeOK
<1>3. JobFits(h)'
  BY <1>2 DEF JobFits, Posting, Agreeing, Agreed, At, Idle
<1> QED
  BY <1>2, <1>3

\* What is left to show of a row, when one goroutine ends and the template, the
\* stages that were agreed to and the rest of the history stay.
LEMMA ReviewedRow ==
    ASSUME Core, [Next]_vars, UNCHANGED <<tpl, flow, accounts>>,
           NEW h \in Handlers, NEW w \in WorkIds, NEW r \in OrderType,
           Goto(h, Idle) \/ Serve(h, Idle), Exists(w),
           order' = [order EXCEPT ![w] = r],
           r.status # "none", r.source = order[w].source, r.under = order[w].under,
           r.passed = order[w].passed, r.disturbed = order[w].disturbed,
           r.offpage = order[w].offpage, r.step >= 1, order[w].shown \subseteq r.shown,
           r.shown \subseteq Nat \ {0},
           Undisturbed(w) => RowAsPosted(r),
           ~r.extra =>
              /\ ~order[w].extra
              /\ \/ Agreed(h) /\ job[h].work = w /\ r.trail <= order[w].trail + 1
                 \/ ~Agreed(h) /\ r.trail = order[w].trail
    PROVE  Core'
<1>1. /\ job' \in [Handlers -> JobType] /\ CountersOK' /\ job'[h] = Idle /\ JobFits(h)'
      /\ \A g \in Handlers : g # h => job'[g] = job[g]
  BY LastStep
<1>2. /\ order' \in [WorkIds \union {EmptyId} -> OrderType] /\ order'[w] = r
      /\ \A v \in WorkIds \union {EmptyId} : v # w => order'[v] = order[v]
  BY DEF Core, TypeOK
<1>3. \A g \in Handlers : g # h /\ Posting(g) => job[g].work # w
  BY DEF Core, JobFits
<1>4. Exists(w)' /\ RowFits(w)'
  BY <1>2 DEF Core, OrdersFit, RowFits, Exists
<1>5. Undisturbed(w)' => Undisturbed(w) /\ AsPosted(w) /\ TrailFits(w)
  BY <1>2 DEF Core, OrdersFit, Undisturbed
<1>6. AsPosted(w)'
  <2> SUFFICES ASSUME Undisturbed(w)'
               PROVE  AsPosted(w)'
    BY DEF AsPosted
  <2>1. Find(flow[order[w].source])' = order'[w].under
    BY <1>2, <1>5 DEF AsPosted, Find
  <2>2. RowAsPosted(order'[w])
    BY <1>2, <1>5
  <2>4. ASSUME NEW g \in Handlers, Agreeing(g)', job'[g].work = w
        PROVE  IF At(g, "agreeTpl")' THEN job'[g].id = flow'[order'[w].source]
               ELSE AgreedAsPosted(g, order[w])'
    <3>1. /\ g # h /\ job'[g] = job[g] /\ Agreeing(g)
          /\ At(g, "agreeTpl")' = At(g, "agreeTpl")
      BY <1>1, <2>4 DEF Agreeing, Agreed, At, Idle
    <3> QED
      BY <1>2, <1>5, <2>4, <3>1 DEF AsPosted, AgreedAsPosted
  <2> QED
    BY <2>1, <2>2, <2>4 DEF AsPosted
<1>7. TrailFits(w)'
  <2> SUFFICES ASSUME Undisturbed(w)', ~order'[w].extra
               PROVE  TrailFits(w)'
    BY DEF TrailFits
  <2>1. order'[w].trail \in Nat
    BY <1>2 DEF OrderType
  <2>2. CASE Agreed(h) /\ job[h].work = w /\ r.trail <= order[w].trail + 1
    <3>1. /\ order'[w].passed = order[w].passed /\ ~order[w].extra /\ Undisturbed(w)
          /\ order'[w].trail <= order[w].trail + 1
      BY <1>2, <1>5, <2>2
    <3> QED
      BY <1>1, <2>1, <2>2, <3>1, StageEntered DEF TrailFits
  <2>3. CASE ~Agreed(h) /\ r.trail = order[w].trail
    <3>1. \A g \in Handlers : Agreed(g)' = Agreed(g) /\ (Agreed(g) => job'[g] = job[g])
      BY <1>1, <2>3 DEF Agreed, Idle
    <3>2. Pending(w)' = Pending(w)
      BY <3>1 DEF Pending
    <3>3. /\ order'[w].passed \ Pending(w)' = order[w].passed \ Pending(w)
          /\ order'[w].trail = order[w].trail
      BY <1>2, <2>3, <3>2
    <3>4. TrailFits(w) /\ Undisturbed(w) /\ ~order[w].extra
      BY <1>2, <1>5
    <3>5. order'[w].trail <= 1 + Cardinality(order'[w].passed \ Pending(w)')
      BY <3>3, <3>4 DEF TrailFits
    <3>6. \A f, g \in Handlers :
             f # g /\ Agreed(f)' /\ Agreed(g)' /\ job'[f].work = w /\ job'[g].work = w
               => job'[f].stage # job'[g].stage
      BY <3>1, <3>4 DEF TrailFits
    <3> QED
      BY <3>5, <3>6 DEF TrailFits
  <2> QED
    BY <1>2, <2>2, <2>3
<1>8. ~Posting(h)' /\ ~Agreeing(h)' /\ OthersLearn(h)
  BY <1>1 DEF Posting, Agreeing, Agreed, Idle, OthersLearn
<1>9. order'[w].under = order[w].under
  BY <1>2
<1> QED
  BY <1>1, <1>2, <1>3, <1>4, <1>6, <1>7, <1>8, <1>9, OneRowStep

LEMMA AdvanceStep ==
    ASSUME Core, [Next]_vars, NEW h \in Handlers, Advance(h)
    PROVE  Core'
<1>1. Agreed(h) /\ At(h, "advance") /\ Goto(h, Idle) /\ UNCHANGED <<tpl, flow, accounts>>
  BY DEF Advance, Agreed, At
<1>2. PICK w \in WorkIds, stage \in Nat \ {0}, steps \in StepLists :
         w = job[h].work /\ stage = job[h].stage /\ steps = job[h].steps
  BY <1>1, AgreedKnows
<1>3. /\ Exists(w) /\ stage + 1 < Len(steps) /\ Len(steps) \in Nat
      /\ Undisturbed(w) => /\ RowAsPosted(order[w]) /\ steps = order[w].under
                           /\ order[w].offpage \/ 1 .. stage \subseteq order[w].passed
  BY <1>1, <1>2, AgreedKnows
<1>4. Auditors(steps, stage + 1) \subseteq Accounts
  <2>1. steps \in Seq(SUBSET Accounts) /\ Len(steps) \in Nat
    BY FlowAssumption
  <2>2. stage + 2 \in 1 .. Len(steps)
    BY <1>3, <2>1
  <2>3. Auditors(steps, stage + 1) = steps[stage + 2]
    BY DEF Auditors
  <2> QED
    BY <2>1, <2>2, <2>3
<1>5. PICK next, auditors : next = stage + 1 /\ auditors = Auditors(steps, next)
  OBVIOUS
<1>6. order[w] \in OrderType /\ RowFits(w)
  BY DEF Core, TypeOK, OrdersFit
<1>7. PICK r : r = [order[w] EXCEPT !.step = next, !.shown = order[w].shown \union {next},
                                    !.assigned = auditors, !.trail = order[w].trail + 1]
  OBVIOUS
<1>8. order' = [order EXCEPT ![w] = r]
  <2>1. order' = [order EXCEPT ![w].step = next, ![w].shown = @ \union {next},
                               ![w].assigned = auditors, ![w].trail = @ + 1]
    BY <1>2, <1>5 DEF Advance
  <2> QED
    BY <1>7, <2>1 DEF Core, TypeOK
<1>9. /\ r \in OrderType
      /\ r.status = order[w].status /\ r.source = order[w].source
      /\ r.under = order[w].under /\ r.passed = order[w].passed
      /\ r.disturbed = order[w].disturbed /\ r.handed = order[w].handed
      /\ r.extra = order[w].extra /\ r.trail = order[w].trail + 1
      /\ r.step = next /\ r.shown = order[w].shown \union {next} /\ r.assigned = auditors
      /\ r.offpage = order[w].offpage /\ r.robot = order[w].robot
  <2>1. next \in Nat /\ auditors \subseteq Accounts /\ order[w].trail + 1 \in Nat
    BY <1>4, <1>5, <1>6 DEF OrderType
  <2> QED
    BY <1>6, <1>7, <2>1 DEF OrderType
<1>10. Undisturbed(w) => RowAsPosted(r)
  <2> SUFFICES ASSUME Undisturbed(w)
               PROVE  RowAsPosted(r)
    OBVIOUS
  <2>1. next - 1 = stage /\ next \in Stages(steps)
    BY <1>3, <1>5 DEF Stages
  <2>2. ShowsStage(r)
    BY <1>3, <1>5, <1>9, <2>1 DEF ShowsStage
  <2>3. PassedInOrder(order[w]) /\ (order[w].offpage \/ 1 .. next - 1 \subseteq order[w].passed)
    BY <1>3, <2>1 DEF RowAsPosted
  <2>4. PassedInOrder(r)
    BY <1>9, <2>3 DEF PassedInOrder
  <2> QED
    BY <2>2, <2>4 DEF RowAsPosted
<1>11. r.shown \subseteq Nat \ {0} /\ r.step >= 1 /\ r.status # "none"
  BY <1>3, <1>5, <1>6, <1>9 DEF RowFits, Exists
<1>12. ~r.extra => /\ ~order[w].extra
                   /\ Agreed(h) /\ job[h].work = w /\ r.trail <= order[w].trail + 1
  BY <1>1, <1>2, <1>6, <1>9 DEF OrderType
<1> QED
  BY <1>1, <1>3, <1>8, <1>9, <1>10, <1>11, <1>12, ReviewedRow

LEMMA ExecuteStep ==
    ASSUME Core, [Next]_vars, NEW h \in Handlers, Execute(h)
    PROVE  Core'
<1>1. Agreed(h) /\ At(h, "execute") /\ Goto(h, Idle) /\ UNCHANGED <<tpl, flow, accounts>>
  BY DEF Execute, Agreed, At
<1>2. PICK w \in WorkIds, stage \in Nat \ {0}, steps \in StepLists :
         w = job[h].work /\ stage = job[h].stage /\ steps = job[h].steps
  BY <1>1, AgreedKnows
<1>3. /\ Exists(w) /\ stage + 1 = Len(steps) /\ Len(steps) \in Nat
      /\ Undisturbed(w) => /\ RowAsPosted(order[w]) /\ steps = order[w].under
                           /\ stage \in order[w].passed
                           /\ order[w].offpage \/ 1 .. stage \subseteq order[w].passed
  BY <1>1, <1>2, AgreedKnows
<1>4. order[w] \in OrderType /\ RowFits(w)
  BY DEF Core, TypeOK, OrdersFit
<1>5. CASE order[w].status \in Open
  <2>1. PICK st \in Called(order[w]), entries \in {0, 1} :
           order' = [order EXCEPT ![w].status = st, ![w].handed = TRUE, ![w].trail = @ + entries]
    BY <1>2, <1>5 DEF Execute
  <2>2. PICK r : r = [order[w] EXCEPT !.status = st, !.handed = TRUE,
                                      !.trail = order[w].trail + entries]
    OBVIOUS
  <2>3. order' = [order EXCEPT ![w] = r]
    BY <2>1, <2>2 DEF Core, TypeOK
  <2>4. /\ r \in OrderType
        /\ r.status = st /\ r.source = order[w].source
        /\ r.under = order[w].under /\ r.passed = order[w].passed
        /\ r.disturbed = order[w].disturbed /\ r.handed = TRUE
        /\ r.extra = order[w].extra /\ r.trail = order[w].trail + entries
        /\ r.step = order[w].step /\ r.shown = order[w].shown
        /\ r.assigned = order[w].assigned
        /\ r.offpage = order[w].offpage /\ r.robot = order[w].robot
    <3>1. order[w].trail + entries \in Nat
      BY <1>4 DEF OrderType
    <3>2. st \in {"none", "review", "rejected", "executing", "delayed"}
      BY <1>4 DEF OrderType, Called
    <3> QED
      BY <1>4, <2>2, <3>1, <3>2 DEF OrderType
  <2>5. Undisturbed(w) => RowAsPosted(r)
    <3> SUFFICES ASSUME Undisturbed(w)
                 PROVE  RowAsPosted(r)
      OBVIOUS
    <3>1. ShowsStage(r)
      BY <1>3, <2>4 DEF RowAsPosted, ShowsStage
    <3>2. Len(steps) - 1 = stage
      BY <1>3
    <3>3. PassedInOrder(r)
      BY <1>3, <2>4, <3>2 DEF RowAsPosted, PassedInOrder, Stages
    <3> QED
      BY <3>1, <3>3 DEF RowAsPosted
  <2>6. r.shown \subseteq Nat \ {0} /\ r.step >= 1 /\ r.status # "none"
    BY <1>3, <1>4, <1>5, <2>1, <2>4 DEF RowFits, Open, Called
  <2>7. ~r.extra => /\ ~order[w].extra
                    /\ Agreed(h) /\ job[h].work = w /\ r.trail <= order[w].trail + 1
    BY <1>1, <1>2, <1>4, <2>4 DEF OrderType
  <2> QED
    BY <1>1, <1>3, <2>3, <2>4, <2>5, <2>6, <2>7, ReviewedRow
<1>6. CASE order[w].status \notin Open
  <2>1. UNCHANGED order
    BY <1>2, <1>6 DEF Execute
  <2>2. Idle \in JobType /\ Idle.pc = "idle"
    BY DEF JobType, Idle
  <2> QED
    BY <1>1, <2>1, <2>2, PrivateStep
<1> QED
  BY <1>5, <1>6

\* autoTask, for an order with a work id and for one without.
LEMMA RobotStep ==
    ASSUME Core, [Next]_vars, NEW h \in Handlers, Robot(h)
    PROVE  Core'
<1>1. At(h, "robot") /\ Goto(h, Idle) /\ UNCHANGED <<tpl, flow, accounts>> /\ ~Agreed(h)
  BY DEF Robot, Agreed, At
<1>2. PICK w \in WorkIds \union {EmptyId}, length \in Nat :
         w = job[h].work /\ length = job[h].length
  BY <1>1, JobFields DEF Core
<1>3. order[w] \in OrderType
  BY DEF Core, TypeOK
<1>4. PICK step \in Nat : step = IF length = 0 THEN order[w].step ELSE length
  BY <1>3 DEF OrderType
<1>5. PICK st \in Called(order[w]) :
         \/ order' = [order EXCEPT ![w].status = st, ![w].robot = TRUE]
         \/ order' = [order EXCEPT ![w].status = st, ![w].robot = TRUE,
                                  ![w].trail = @ + 1, ![w].extra = TRUE,
                                  ![w].step = step, ![w].shown = @ \union {step}]
  BY <1>2, <1>4 DEF Robot
<1>6. st \in {"none", "review", "rejected", "executing", "delayed"}
      /\ (order[w].status # "none" => st # "none")
  BY <1>3 DEF OrderType, Called
<1>7. PICK r \in OrderType :
        /\ order' = [order EXCEPT ![w] = r]
        /\ r.status = st /\ r.source = order[w].source
        /\ r.under = order[w].under /\ r.passed = order[w].passed
        /\ r.disturbed = order[w].disturbed /\ r.handed = order[w].handed
        /\ r.assigned = order[w].assigned /\ r.offpage = order[w].offpage /\ r.robot = TRUE
        /\ \/ /\ r.extra = order[w].extra /\ r.trail = order[w].trail
              /\ r.step = order[w].step /\ r.shown = order[w].shown
           \/ /\ r.extra = TRUE /\ r.step = step /\ r.shown = order[w].shown \union {step}
  <2>1. CASE order' = [order EXCEPT ![w].status = st, ![w].robot = TRUE]
    <3>1. PICK r : r = [order[w] EXCEPT !.status = st, !.robot = TRUE]
      OBVIOUS
    <3>2. order' = [order EXCEPT ![w] = r]
      BY <2>1, <3>1 DEF Core, TypeOK
    <3>3. r \in OrderType /\ r.status = st /\ r.robot = TRUE
      BY <1>3, <1>6, <3>1 DEF OrderType
    <3>4. /\ r.source = order[w].source
          /\ r.under = order[w].under /\ r.passed = order[w].passed
          /\ r.disturbed = order[w].disturbed /\ r.handed = order[w].handed
          /\ r.assigned = order[w].assigned /\ r.offpage = order[w].offpage
          /\ r.extra = order[w].extra /\ r.trail = order[w].trail
          /\ r.step = order[w].step /\ r.shown = order[w].shown
      BY <1>3, <3>1 DEF OrderType
    <3> QED
      BY <3>2, <3>3, <3>4
  <2>2. CASE order' = [order EXCEPT ![w].status = st, ![w].robot = TRUE,
                                    ![w].trail = @ + 1, ![w].extra = TRUE,
                                    ![w].step = step, ![w].shown = @ \union {step}]
    <3>1. PICK r : r = [order[w] EXCEPT !.status = st, !.robot = TRUE,
                                        !.trail = order[w].trail + 1, !.extra = TRUE,
                                        !.step = step, !.shown = order[w].shown \union {step}]
      OBVIOUS
    <3>2. order' = [order EXCEPT ![w] = r]
      BY <2>2, <3>1 DEF Core, TypeOK
    <3>3. r \in OrderType /\ r.status = st /\ r.robot = TRUE
      <4>1. order[w].trail + 1 \in Nat
        BY <1>3 DEF OrderType
      <4> QED
        BY <1>3, <1>6, <3>1, <4>1 DEF OrderType
    <3>4. /\ r.source = order[w].source
          /\ r.under = order[w].under /\ r.passed = order[w].passed
          /\ r.disturbed = order[w].disturbed /\ r.handed = order[w].handed
          /\ r.assigned = order[w].assigned /\ r.offpage = order[w].offpage
          /\ r.extra = TRUE /\ r.step = step /\ r.shown = order[w].shown \union {step}
      BY <1>3, <3>1 DEF OrderType
    <3> QED
      BY <3>2, <3>3, <3>4
  <2> QED
    BY <1>5, <2>1, <2>2
<1>8. CASE w = EmptyId
  <2>1. /\ order' \in [WorkIds \union {EmptyId} -> OrderType]
        /\ \A v \in WorkIds \union {EmptyId} : v # w => order'[v] = order[v]
    BY <1>7 DEF Core, TypeOK
  <2>2. \A g \in Handlers : Posting(g) => job[g].work # EmptyId
    BY JobFields, FlowAssumption DEF Core
  <2>3. /\ job' \in [Handlers -> JobType] /\ CountersOK' /\ job'[h] = Idle
        /\ \A g \in Handlers : g # h => job'[g] = job[g]
        /\ JobFits(h)'
    BY <1>1, LastStep
  <2>4. ~Posting(h)' /\ ~Agreeing(h)' /\ OthersLearn(h)
    BY <2>3 DEF Posting, Agreeing, Agreed, Idle, OthersLearn
  <2> QED
    BY <1>1, <1>8, <2>1, <2>2, <2>3, <2>4, OneRowStep
<1>9. CASE w # EmptyId
  <2>1. w \in WorkIds /\ Exists(w) /\ length = Len(order[w].under) /\ RowFits(w) /\ AsPosted(w)
    BY <1>1, <1>2, <1>9 DEF Core, JobFits, OrdersFit
  <2>2. step >= 1
    BY <1>4, <2>1 DEF RowFits
  <2>3. r.shown \subseteq Nat \ {0} /\ r.step >= 1 /\ r.status # "none"
        /\ order[w].shown \subseteq r.shown
    BY <1>6, <1>7, <2>1, <2>2 DEF RowFits, Exists
  <2>4. Undisturbed(w) => RowAsPosted(r)
    <3> SUFFICES ASSUME Undisturbed(w)
                 PROVE  RowAsPosted(r)
      OBVIOUS
    <3>1. ShowsStage(order[w]) /\ PassedInOrder(order[w])
      BY <2>1 DEF AsPosted, RowAsPosted
    <3>2. ShowsStage(r)
      BY <1>4, <1>7, <2>1, <3>1 DEF ShowsStage
    <3>3. ~(step < Len(r.under))
      BY <1>4, <1>7, <2>1, <2>2
    <3>4. \A n \in r.shown : n < Len(r.under) => n \in order[w].shown
      BY <1>7, <3>3
    <3>5. PassedInOrder(r)
      BY <1>7, <3>1, <3>4 DEF PassedInOrder
    <3> QED
      BY <3>2, <3>5 DEF RowAsPosted
  <2>5. ~r.extra => ~order[w].extra /\ r.trail = order[w].trail
    BY <1>7
  <2> QED
    BY <1>1, <1>7, <2>1, <2>3, <2>4, <2>5, ReviewedRow
<1> QED
  BY <1>8, <1>9

LEMMA OtherButtonStep ==
    ASSUME Core, [Next]_vars, NEW h \in Handlers, NEW w \in WorkIds,
           NEW st \in {order[w].status, "rejected"}, OtherButton(h, w, st)
    PROVE  Core'
<1>1. Exists(w) /\ Serve(h, Idle) /\ UNCHANGED <<tpl, flow, accounts>>
  BY DEF OtherButton
<1>2. order[w] \in OrderType /\ RowFits(w) /\ AsPosted(w)
  BY DEF Core, TypeOK, OrdersFit
<1>3. PICK r : r = [order[w] EXCEPT !.status = st, !.trail = order[w].trail + 1, !.extra = TRUE]
  OBVIOUS
<1>4. /\ r \in OrderType
      /\ r.status = st /\ r.source = order[w].source
      /\ r.under = order[w].under /\ r.passed = order[w].passed
      /\ r.disturbed = order[w].disturbed /\ r.handed = order[w].handed
      /\ r.extra = TRUE /\ r.step = order[w].step /\ r.shown = order[w].shown
      /\ r.assigned = order[w].assigned
      /\ r.offpage = order[w].offpage /\ r.robot = order[w].robot
  <2>1. order[w].trail + 1 \in Nat /\ st \in {"none", "review", "rejected", "executing", "delayed"}
    BY <1>2 DEF OrderType
  <2> QED
    BY <1>2, <1>3, <2>1 DEF OrderType
<1>5. order' = [order EXCEPT ![w] = r]
  <2>1. order' = [order EXCEPT ![w].status = st, ![w].trail = @ + 1, ![w].extra = TRUE]
    BY DEF OtherButton
  <2> QED
    BY <1>3, <2>1 DEF Core, TypeOK
<1>6. r.shown \subseteq Nat \ {0} /\ r.step >= 1 /\ r.status # "none"
  BY <1>1, <1>2, <1>4 DEF RowFits, Exists
<1>7. Undisturbed(w) => RowAsPosted(r)
  BY <1>2, <1>4 DEF AsPosted, RowAsPosted, ShowsStage, PassedInOrder
<1> QED
  BY <1>1, <1>4, <1>5, <1>6, <1>7, ReviewedRow

\* Core holds initially and every step preserves it.
LEMMA InitCore == Init => Core
<1> SUFFICES ASSUME Init PROVE Core
  OBVIOUS
<1>1. NoOrder \in OrderType
  BY DEF NoOrder, OrderType
<1>2. Idle \in JobType
  BY DEF JobType
<1>3. TypeOK
  BY <1>1, <1>2, FlowAssumption DEF Init, TypeOK
<1>4. \A h \in Handlers : ~Posting(h) /\ ~Agreeing(h) /\ ~Agreed(h) /\ job[h].pc = "idle"
  BY DEF Init, Idle, Posting, Agreeing, Agreed
<1>5. \A w \in WorkIds \union {EmptyId} : order[w].status = "none" /\ ~order[w].handed
  BY DEF Init, NoOrder
<1>6. OrdersFit
  BY <1>5 DEF OrdersFit, RowFits, AsPosted, TrailFits, Undisturbed, Exists
<1>7. FlowUsed /\ PostsDiffer /\ \A h \in Handlers : JobFits(h)
  BY <1>4 DEF Init, FlowUsed, PostsDiffer, JobFits, Agreed, At
<1> QED
  BY <1>3, <1>6, <1>7 DEF Core

LEMMA CoreStep == Core /\ [Next]_vars => Core'
<1> SUFFICES ASSUME Core, [Next]_vars PROVE Core'
  OBVIOUS
<1>1. CASE Aside
  BY <1>1, AsideStep
<1>2. ASSUME NEW h \in Handlers, Post(h)
      PROVE  Core'
  BY <1>2, PostFlowStep, PostTplStep, InsertShortStep, InsertStep, RobotStep DEF Post
<1>3. ASSUME NEW h \in Handlers, Review(h)
      PROVE  Core'
  BY <1>3, AgreeFlowStep, OtherButtonStep, AgreeTplStep, AdvanceStep, ExecuteStep DEF Review
<1> QED
  BY <1>1, <1>2, <1>3 DEF Next, Aside

\* The inductive invariant: rows, trails and requests fit each other, and no two requests
\* still to insert an order have the same work id.
THEOREM CoreHolds == Spec => []Core
<1> QED
  BY InitCore, CoreStep, PTL DEF Spec

\* What becomes of an order: it is posted, or keeps its source and the template it
\* was posted under and comes into review only from review.
LEMMA RowKeeps ==
    ASSUME Core, [Next]_vars, NEW w \in WorkIds
    PROVE  \/ /\ Exists(w)' <=> Exists(w)
              /\ w \in InReview' => w \in InReview
              /\ order'[w].source = order[w].source /\ order'[w].under = order[w].under
           \/ /\ ~Exists(w)
              /\ \E h \in Handlers :
                    /\ Insert(h) /\ job[h].work = w
                    /\ order'[w].under = job[h].steps /\ Len(job[h].steps) >= 2
<1> DEFINE Keeps == /\ Exists(w)' <=> Exists(w)
                    /\ w \in InReview' => w \in InReview
                    /\ order'[w].source = order[w].source
                    /\ order'[w].under = order[w].under
           Enters == /\ ~Exists(w)
                     /\ \E h \in Handlers :
                           /\ Insert(h) /\ job[h].work = w
                           /\ order'[w].under = job[h].steps /\ Len(job[h].steps) >= 2
<1>0. order[w] \in OrderType /\ order \in [WorkIds \union {EmptyId} -> OrderType] /\ TypeOK
  BY DEF Core, TypeOK
<1>1. EmptyId # w
  BY FlowAssumption
<1>2. CASE Aside
  <2>1. SameRow(order'[w], order[w])
    BY <1>2, AsideOrders DEF Core, HistoryOnly
  <2> QED
    BY <2>1 DEF SameRow, Exists, InReview
<1>3. ASSUME UNCHANGED order
      PROVE  Keeps
  BY <1>3 DEF Exists, InReview
<1>4. ASSUME NEW h \in Handlers, Insert(h)
      PROVE  Keeps \/ Enters
  <2>1. PICK v \in WorkIds, s \in Sources, steps \in StepLists, moved \in BOOLEAN :
           /\ v = job[h].work /\ steps = job[h].steps
           /\ order' = [order EXCEPT ![v] = Posted(s, steps, moved)]
           /\ Len(steps) >= 2
    <3>1. /\ job[h].work \in WorkIds /\ job[h].source \in Sources
          /\ job[h].steps \in StepLists
      BY <1>0, <1>4, JobFields DEF Insert, At, Posting
    <3> QED
      BY <1>4, <3>1 DEF Insert
  <2>2. CASE v = w
    <3>1. ~Exists(w)
      <4>1. JobFits(h) /\ Posting(h)
        BY <1>4 DEF Core, Insert, At, Posting
      <4> QED
        BY <2>1, <2>2, <4>1 DEF JobFits
    <3>2. order'[w] = Posted(s, steps, moved)
      BY <1>0, <2>1, <2>2
    <3>3. order'[w].under = steps
      BY <3>2 DEF Posted, NoOrder
    <3> QED
      BY <1>4, <2>1, <2>2, <3>1, <3>3
  <2>3. CASE v # w
    <3>1. order'[w] = order[w]
      BY <1>0, <2>1, <2>3
    <3> QED
      BY <3>1 DEF Exists, InReview
  <2> QED
    BY <2>2, <2>3
<1>5. ASSUME NEW h \in Handlers, Post(h)
      PROVE  Keeps \/ Enters
  <2>1. CASE InsertShort(h)
    <3>1. order'[w] = order[w]
      BY <1>0, <1>1, <2>1 DEF InsertShort
    <3> QED
      BY <3>1 DEF Exists, InReview
  <2>2. CASE Robot(h)
    <3>1. /\ order'[w].source = order[w].source /\ order'[w].under = order[w].under
          /\ order'[w].status \in Called(order[w])
      <4>1. PICK v \in {job[h].work},
                 step \in {IF job[h].length = 0 THEN order[job[h].work].step ELSE job[h].length},
                 st \in Called(order[job[h].work]) :
               /\ st \in Called(order[v])
               /\ \/ order' = [order EXCEPT ![v].status = st, ![v].robot = TRUE]
                  \/ order' = [order EXCEPT ![v].status = st, ![v].robot = TRUE,
                                           ![v].trail = @ + 1, ![v].extra = TRUE,
                                           ![v].step = step, ![v].shown = @ \union {step}]
        BY <2>2 DEF Robot
      <4>2. CASE v # w
        <5>1. order'[w] = order[w]
          BY <1>0, <4>1, <4>2
        <5> QED
          BY <5>1 DEF Called
      <4>3. CASE v = w
        <5>0. /\ order \in [WorkIds \union {EmptyId} -> OrderType]
              /\ v = w /\ w \in WorkIds /\ order[w] \in OrderType
          BY <1>0, <4>3
        <5>1. CASE order' = [order EXCEPT ![v].status = st, ![v].robot = TRUE]
          <6>1. /\ order'[w].source = order[w].source /\ order'[w].under = order[w].under
                /\ order'[w].status = st
            BY <5>0, <5>1 DEF OrderType
          <6> QED
            BY <4>1, <4>3, <6>1
        <5>2. CASE order' = [order EXCEPT ![v].status = st, ![v].robot = TRUE,
                                           ![v].trail = @ + 1, ![v].extra = TRUE,
                                           ![v].step = step, ![v].shown = @ \union {step}]
          <6>1. /\ order'[w].source = order[w].source /\ order'[w].under = order[w].under
                /\ order'[w].status = st
            BY <5>0, <5>2 DEF OrderType
          <6> QED
            BY <4>1, <4>3, <6>1
        <5> QED
          BY <4>1, <5>1, <5>2
      <4> QED
        BY <4>2, <4>3
    <3>2. (order'[w].status # "none") = (order[w].status # "none")
      <4>1. CASE order[w].status # "none"
        BY <3>1, <4>1 DEF Called
      <4>2. CASE order[w].status = "none"
        <5>1. At(h, "robot") /\ (job[h].work # EmptyId => Exists(job[h].work))
          BY <2>2 DEF Core, JobFits, Robot
        <5>2. job[h].work # w
          BY <1>1, <4>2, <5>1 DEF Exists
        <5>3. order'[w] = order[w]
          BY <1>0, <2>2, <5>2 DEF Robot
        <5> QED
          BY <5>3
      <4> QED
        BY <4>1, <4>2
    <3> QED
      BY <3>1, <3>2 DEF Exists, InReview, Called
  <2> QED
    BY <1>3, <1>4, <1>5, <2>1, <2>2 DEF Post, PostFlow, PostTpl
<1>6. ASSUME NEW h \in Handlers, Review(h)
      PROVE  Keeps
  <2>1. ASSUME NEW v \in WorkIds, NEW stage \in Flags, AgreeFlow(h, v, stage)
        PROVE  Keeps
    <3>1. UNCHANGED order
      BY <2>1 DEF AgreeFlow
    <3> QED
      BY <1>3, <3>1
  <2>2. ASSUME NEW v \in WorkIds, NEW st \in {order[v].status, "rejected"}, OtherButton(h, v, st)
        PROVE  Keeps
    <3>1. CASE v = w
      <4>1. /\ order'[w].status = st /\ order'[w].source = order[w].source
            /\ order'[w].under = order[w].under /\ Exists(w)
        BY <1>0, <2>2, <3>1 DEF OtherButton, OrderType
      <4>2. st # "none" /\ (st = "review" => order[w].status = "review")
        BY <2>2, <3>1, <4>1 DEF Exists
      <4> QED
        BY <4>1, <4>2 DEF Exists, InReview
    <3>2. CASE v # w
      <4>1. order'[w] = order[w]
        BY <1>0, <2>2, <3>2 DEF OtherButton
      <4> QED
        BY <4>1 DEF Exists, InReview
    <3> QED
      BY <3>1, <3>2
  <2>3. CASE AgreeTpl(h)
    <3>1. /\ order'[w].status = order[w].status /\ order'[w].source = order[w].source
          /\ order'[w].under = order[w].under
      <4>1. \/ order' = order
            \/ \E v \in {job[h].work}, stage \in {job[h].stage} : order' = [order EXCEPT ![v].passed = @ \union {stage},
                                       ![v].offpage = @ \/ stage \notin order[v].shown,
                                       ![v].extra = @ \/ stage \in order[v].passed]
        BY <2>3 DEF AgreeTpl
      <4>2. CASE order' = order
        BY <4>2
      <4>3. ASSUME NEW v \in {job[h].work}, NEW stage \in {job[h].stage},
                   order' = [order EXCEPT ![v].passed = @ \union {stage},
                                ![v].offpage = @ \/ stage \notin order[v].shown,
                                ![v].extra = @ \/ stage \in order[v].passed]
            PROVE  /\ order'[w].status = order[w].status /\ order'[w].source = order[w].source
                   /\ order'[w].under = order[w].under
        <5>1. CASE v # w
          BY <1>0, <4>3, <5>1
        <5>2. CASE v = w
          BY <1>0, <4>3, <5>2 DEF OrderType
        <5> QED
          BY <5>1, <5>2
      <4> QED
        BY <4>1, <4>2, <4>3
    <3> QED
      BY <3>1 DEF Exists, InReview
  <2>4. CASE Advance(h)
    <3>1. /\ order'[w].status = order[w].status /\ order'[w].source = order[w].source
          /\ order'[w].under = order[w].under
      BY <1>0, <2>4 DEF Advance, OrderType
    <3> QED
      BY <3>1 DEF Exists, InReview
  <2>5. CASE Execute(h)
    <3>1. /\ \/ order'[w].status = order[w].status
             \/ order[w].status \in Open /\ order'[w].status \in {"executing", "delayed"}
          /\ order'[w].source = order[w].source /\ order'[w].under = order[w].under
      <4>1. CASE order' = order
        BY <4>1
      <4>2. CASE order' # order
        <5>1. PICK v \in {job[h].work}, st \in Called(order[job[h].work]), entries \in {0, 1} :
                 /\ order[v].status \in Open
                 /\ order' = [order EXCEPT ![v].status = st, ![v].handed = TRUE,
                                        ![v].trail = @ + entries]
          BY <2>5, <4>2 DEF Execute
        <5>2. CASE v # w
          BY <1>0, <5>1, <5>2
        <5>3. CASE v = w
          <6>1. /\ order'[w].source = order[w].source /\ order'[w].under = order[w].under
                /\ order'[w].status = st
            BY <1>0, <5>1, <5>3 DEF OrderType
          <6> QED
            BY <5>1, <5>3, <6>1 DEF Called
        <5> QED
          BY <5>2, <5>3
      <4> QED
        BY <4>1, <4>2
    <3> QED
      BY <3>1 DEF Exists, InReview, Open
  <2> QED
    BY <1>6, <2>1, <2>2, <2>3, <2>4, <2>5 DEF Review
<1> QED
  BY <1>2, <1>5, <1>6 DEF Next, Aside

\* An order that has a work id was posted under a template of at least two steps.
PostedUnderSteps == \A w \in WorkIds : Exists(w) => Len(order[w].under) >= 2

\* The INSERT of a post under a template of fewer than two steps never fills in a work id.
THEOREM UnderHolds == Spec => []PostedUnderSteps
<1>1. Init => PostedUnderSteps
  BY DEF Init, PostedUnderSteps, Exists, NoOrder
<1>2. Core /\ PostedUnderSteps /\ [Next]_vars => PostedUnderSteps'
  <2> SUFFICES ASSUME Core, PostedUnderSteps, [Next]_vars, NEW w \in WorkIds, Exists(w)'
               PROVE  Len(order'[w].under) >= 2
    BY DEF PostedUnderSteps
  <2>1. CASE Exists(w)
    BY <2>1, RowKeeps DEF PostedUnderSteps
  <2>2. CASE ~Exists(w)
    BY <2>2, RowKeeps
  <2> QED
    BY <2>1, <2>2
<1> QED
  BY <1>1, <1>2, CoreHolds, PTL DEF Spec

-----------------------------------------------------------------------------
(***************************************************************************)
(* What every state promises.                                              *)
(***************************************************************************)

\* Templates, sources, orders and requests keep their types through every
\* interleaving of administrators with the goroutines that post and review.
THEOREM FlowTypes == Spec => []TypeOK
<1>1. Core => TypeOK
  BY DEF Core
<1> QED
  BY <1>1, CoreHolds, PTL

\* An order that no change of its source or its template has disturbed is handed to the
\* engine by ExecuteOrder only after the last stage of the template it was posted under
\* (post.go) has been agreed to, and after each stage when the approvals came from pages
\* that showed it, although every approval reads the template anew (impl.go, GetTPL).
THEOREM HandedAsPosted == Spec => []ApprovedAsPosted
<1>1. ASSUME Core, NEW w \in WorkIds, order[w].handed, ~order[w].disturbed
      PROVE  /\ Len(order[w].under) - 1 \in order[w].passed
             /\ order[w].offpage \/ Stages(order[w].under) \subseteq order[w].passed
  BY <1>1 DEF Core, OrdersFit, RowFits, AsPosted, Undisturbed, RowAsPosted, PassedInOrder
<1>2. Core => ApprovedAsPosted
  BY <1>1 DEF ApprovedAsPosted
<1> QED
  BY <1>2, CoreHolds, PTL

\* Every approval and every page of an undisturbed order finds the stage that the page
\* shows in the template its source names now, with the auditors the page lists, unless
\* autoTask has moved the order past the template's end (util.go).
THEOREM StageIsShown == Spec => []ReviewShowsItsStage
<1>1. ASSUME Core, PostedUnderSteps, NEW w \in InReview, ~order[w].disturbed
      PROVE  LET steps == Find(flow[order[w].source]) IN
             /\ steps # None
             /\ \/ order[w].step = Len(steps) /\ order[w].robot
                \/ /\ order[w].step \in Stages(steps)
                   /\ order[w].assigned = Auditors(steps, order[w].step)
  <2>1. w \in WorkIds /\ Undisturbed(w) /\ AsPosted(w) /\ order[w] \in OrderType
    BY <1>1 DEF InReview, Undisturbed, Exists, Core, OrdersFit, TypeOK
  <2>2. Find(flow[order[w].source]) = order[w].under /\ ShowsStage(order[w])
    BY <2>1 DEF AsPosted, RowAsPosted
  <2>3. order[w].under # None
    <3>1. Len(order[w].under) >= 2
      BY <1>1, <2>1 DEF PostedUnderSteps, Undisturbed
    <3>2. order[w].under # <<>>
      BY <3>1
    <3> QED
      BY <2>1, <3>2, FlowAssumption DEF OrderType
  <2> QED
    BY <2>2, <2>3 DEF ShowsStage
<1>2. Core /\ PostedUnderSteps => ReviewShowsItsStage
  BY <1>1 DEF ReviewShowsItsStage
<1> QED
  BY <1>2, CoreHolds, UnderHolds, PTL

\* FetchAuditSteps indexes the template with the entries of the trail: it can only run
\* past its end after a stage was agreed to twice, another button or autoTask's entry, or
\* when the template is not the one of the post.
THEOREM StepsPageHolds == Spec => []StepsPageFailsOnlyOnExtraEntries
<1>1. ASSUME Core, PostedUnderSteps, NEW w \in WorkIds, FetchAuditStepsPanics(w),
             ~order[w].extra, ~order[w].disturbed
      PROVE  FALSE
  <2>1. RowFits(w) /\ AsPosted(w) /\ TrailFits(w) /\ order[w] \in OrderType /\ TypeOK
    BY <1>1 DEF Core, OrdersFit, TypeOK
  <2>2. Undisturbed(w) /\ order[w].trail \in Nat
    BY <1>1, <2>1 DEF FetchAuditStepsPanics, Undisturbed, Exists, OrderType
  <2>3. order[w].under = Find(flow[order[w].source]) /\ order[w].under # None
    BY <1>1, <2>1, <2>2 DEF AsPosted, FetchAuditStepsPanics
  <2>4. order[w].trail > Len(order[w].under)
    BY <1>1, <2>3 DEF FetchAuditStepsPanics
  <2>5. order[w].trail <= 1 + Cardinality(order[w].passed \ Pending(w))
    BY <1>1, <2>1, <2>2 DEF TrailFits
  <2>6. order[w].under \in StepLists
    BY <2>3 DEF Find
  <2>7. Len(order[w].under) # 0
    BY <1>1, <2>2 DEF PostedUnderSteps, Undisturbed
  <2>8. /\ IsFiniteSet(order[w].passed) /\ Len(order[w].under) \in Nat
        /\ Cardinality(order[w].passed) <= Len(order[w].under) - 1
    BY <2>1, <2>2, <2>7, PassedFinite
  <2>9. /\ Cardinality(order[w].passed \ Pending(w)) <= Cardinality(order[w].passed)
        /\ Cardinality(order[w].passed \ Pending(w)) \in Nat
        /\ Cardinality(order[w].passed) \in Nat
    BY <2>8, FS_Subset, FS_CardinalityType
  <2> QED
    BY <2>2, <2>4, <2>5, <2>8, <2>9
<1>2. Core /\ PostedUnderSteps => StepsPageFailsOnlyOnExtraEntries
  BY <1>1 DEF StepsPageFailsOnlyOnExtraEntries
<1> QED
  BY <1>2, CoreHolds, UnderHolds, PTL

-----------------------------------------------------------------------------
(***************************************************************************)
(* What an edit or a deletion does not see: what came after its look.      *)
(***************************************************************************)

\* The INSERT of a post, with a work id or without.
EndsPost(h) ==
    \E w \in WorkIds \union {EmptyId}, length \in Nat : PostEnds(h, w, length)

LEMMA InsertEnds ==
    ASSUME TypeOK, NEW h \in Handlers, Insert(h) \/ InsertShort(h)
    PROVE  EndsPost(h)
<1>1. job[h].work \in WorkIds /\ job[h].steps \in StepLists
  BY JobFields DEF Insert, InsertShort, Posting, At
<1>2. Len(job[h].steps) \in Nat /\ 0 \in Nat
  BY <1>1, FlowAssumption
<1> QED
  BY <1>1, <1>2 DEF Insert, InsertShort, EndsPost

\* How a goroutine comes to wait between the look and the writes of an edit or of an
\* account's deletion, and how it learns of other requests.
LEMMA JobMoves ==
    ASSUME TypeOK, [Next]_vars, NEW g \in Handlers,
           job'[g].pc \in {"editWrite", "deleteUser"}, job'[g] # job[g]
    PROVE  \/ \E id \in TplIds, steps \in StepLists : EditLook(g, id, steps)
           \/ \E u \in Accounts : DeleteUserLook(g, u)
           \/ \E h \in Handlers, id \in TplIds : h # g /\ Save(h, id)
           \/ \E h \in Handlers : h # g /\ EndsPost(h)
<1> DEFINE Goal == \/ \E id \in TplIds, steps \in StepLists : EditLook(g, id, steps)
                   \/ \E u \in Accounts : DeleteUserLook(g, u)
                   \/ \E h \in Handlers, id \in TplIds : h # g /\ Save(h, id)
                   \/ \E h \in Handlers : h # g /\ EndsPost(h)
<1>0. Idle.pc = "idle" /\ job \in [Handlers -> JobType]
  BY DEF Idle, TypeOK
<1>1. ASSUME NEW h \in Handlers, NEW t, Serve(h, t) \/ Goto(h, t),
             t.pc \notin {"editWrite", "deleteUser"}
      PROVE  FALSE
  BY <1>0, <1>1 DEF Serve, Goto
<1>2. ASSUME NEW h \in Handlers, NEW t, Serve(h, t)
      PROVE  g = h
  BY <1>0, <1>2 DEF Serve
<1>3. ASSUME NEW h \in Handlers, NEW id \in TplIds, Save(h, id)
      PROVE  Goal
  BY <1>0, <1>3 DEF Save
<1>4. ASSUME NEW id \in TplIds, NEW steps \in StepLists, CreateTemplate(id, steps)
      PROVE  Goal
  BY <1>3, <1>4 DEF CreateTemplate
<1>5. ASSUME NEW h \in Handlers, Administer(h)
      PROVE  Goal
  <2>1. CASE EditWrite(h)
    BY <1>3, <2>1, JobFields DEF EditWrite
  <2>2. ASSUME NEW id \in TplIds, NEW steps \in StepLists, EditLook(h, id, steps)
        PROVE  Goal
    BY <1>2, <2>2 DEF EditLook
  <2>3. ASSUME NEW u \in Accounts, DeleteUserLook(h, u)
        PROVE  Goal
    BY <1>2, <2>3 DEF DeleteUserLook
  <2>4. ASSUME NEW id \in TplIds, DeleteTemplate(h, id)
        PROVE  FALSE
    <3>1. Serve(h, [pc |-> "detach", id |-> id])
      BY <2>4 DEF DeleteTemplate
    <3> QED
      BY <1>1, <3>1
  <2>5. ASSUME NEW s \in Sources, NEW id \in TplIds \union {NoFlow}, AssignFlow(h, s, id)
        PROVE  FALSE
    BY <1>0, <1>1, <2>5 DEF AssignFlow
  <2>6. CASE DetachSources(h) \/ DeleteUser(h)
    BY <1>0, <1>1, <2>6 DEF DetachSources, DeleteUser
  <2> QED
    BY <1>5, <2>1, <2>2, <2>3, <2>4, <2>5, <2>6 DEF Administer
<1>6. ASSUME NEW h \in Handlers, Post(h)
      PROVE  Goal
  <2>1. CASE InsertShort(h) \/ Insert(h)
    <3>1. EndsPost(h)
      BY <2>1, InsertEnds
    <3>2. job'[h].pc \in {"idle", "robot"}
      BY <1>0, <3>1, PostLearning DEF EndsPost, Ended
    <3> QED
      BY <1>0, <3>1, <3>2
  <2>2. ASSUME NEW w \in WorkIds, NEW s \in Sources, PostFlow(h, w, s)
        PROVE  FALSE
    <3>1. Serve(h, [pc |-> "postTpl", work |-> w, source |-> s, id |-> flow[s]])
      BY <2>2 DEF PostFlow
    <3> QED
      BY <1>1, <3>1
  <2>3. CASE PostTpl(h)
    <3>1. PICK t : Goto(h, t) /\ t.pc \in {"idle", "insert"}
      BY <1>0, <2>3 DEF PostTpl
    <3> QED
      BY <1>1, <3>1
  <2>4. CASE Robot(h)
    BY <1>0, <1>1, <2>4 DEF Robot
  <2> QED
    BY <1>6, <2>1, <2>2, <2>3, <2>4 DEF Post
<1>7. ASSUME NEW h \in Handlers, Review(h)
      PROVE  FALSE
  <2>1. ASSUME NEW w \in WorkIds, NEW stage \in Flags, AgreeFlow(h, w, stage)
        PROVE  FALSE
    <3>1. Serve(h, [pc |-> "agreeTpl", work |-> w, stage |-> stage,
                    id |-> flow[order[w].source]])
      BY <2>1 DEF AgreeFlow
    <3> QED
      BY <1>1, <3>1
  <2>2. CASE AgreeTpl(h)
    <3>1. PICK t : Goto(h, t) /\ t.pc \in {"idle", "advance", "execute"}
      BY <1>0, <2>2 DEF AgreeTpl
    <3> QED
      BY <1>1, <3>1
  <2>3. ASSUME NEW w \in WorkIds, NEW st \in {order[w].status, "rejected"}, OtherButton(h, w, st)
        PROVE  FALSE
    BY <1>0, <1>1, <2>3 DEF OtherButton
  <2>4. CASE Advance(h) \/ Execute(h)
    BY <1>0, <1>1, <2>4 DEF Advance, Execute
  <2> QED
    BY <1>7, <2>1, <2>2, <2>3, <2>4 DEF Review
<1>8. CASE Stop \/ UNCHANGED vars
  BY <1>0, <1>8 DEF Stop, vars
<1> QED
  BY <1>4, <1>5, <1>6, <1>7, <1>8 DEF Next

\* An edit that is still to write has heard of every order in review, since there was
\* none when it looked.
LateInReview == \A h \in Handlers : At(h, "editWrite") => InReview \subseteq job[h].since

LEMMA LateStep == Core /\ LateInReview /\ [Next]_vars => LateInReview'
<1> SUFFICES ASSUME Core, LateInReview, [Next]_vars,
                    NEW g \in Handlers, At(g, "editWrite")', NEW w \in InReview'
             PROVE  w \in job'[g].since
  BY DEF LateInReview
<1>0. TypeOK /\ w \in WorkIds /\ job'[g].pc = "editWrite"
  BY DEF Core, InReview, At
<1>1. ASSUME NEW h \in Handlers, NEW v \in WorkIds \union {EmptyId}, NEW length \in Nat,
             PostEnds(h, v, length)
      PROVE  At(g, "editWrite") /\ job'[g].since = job[g].since \union {v}
  <2>1. g # h /\ At(g, "editWrite")
    BY <1>0, <1>1 DEF PostEnds, At, Idle
  <2>2. job'[g] = [job[g] EXCEPT !.since = job[g].since \union {v}]
    BY <1>1, <2>1 DEF PostEnds
  <2> QED
    BY <1>0, <2>1, <2>2, SinceGrows
<1>2. CASE w \notin InReview
  <2>1. PICK h \in Handlers : Insert(h) /\ job[h].work = w
    BY <1>0, <1>2, RowKeeps
  <2>2. Len(job[h].steps) \in Nat
    BY <1>0, <2>1, JobFields, FlowAssumption DEF Insert
  <2> QED
    BY <1>0, <1>1, <2>1, <2>2 DEF Insert
<1>3. CASE w \in InReview
  <2>1. CASE job'[g] = job[g]
    BY <1>0, <1>3, <2>1 DEF LateInReview, At
  <2>2. ASSUME NEW id \in TplIds, NEW steps \in StepLists, EditLook(g, id, steps)
        PROVE  FALSE
    BY <1>3, <2>2 DEF EditLook
  <2>3. ASSUME NEW u \in Accounts, DeleteUserLook(g, u)
        PROVE  FALSE
    BY <1>0, <2>3 DEF DeleteUserLook, Serve, TypeOK
  <2>4. ASSUME NEW h \in Handlers, NEW id \in TplIds, h # g, Save(h, id)
        PROVE  job'[g] = job[g]
    <3>1. CASE At(g, "deleteUser")
      <4>1. job'[g] = [job[g] EXCEPT !.since = job[g].since \union {id}]
        BY <2>4, <3>1 DEF Save
      <4> QED
        BY <1>0, <3>1, <4>1, SinceGrows
    <3>2. CASE ~At(g, "deleteUser")
      BY <2>4, <3>2 DEF Save
    <3> QED
      BY <3>1, <3>2
  <2>5. ASSUME NEW h \in Handlers, EndsPost(h)
        PROVE  w \in job'[g].since
    BY <1>1, <1>3, <2>5 DEF LateInReview, EndsPost
  <2> QED
    BY <1>0, <2>1, <2>2, <2>3, <2>4, <2>5, JobMoves
<1> QED
  BY <1>2, <1>3

\* A request to edit, past its look for orders in review, meets only such orders in review as
\* were posted after the look.
THEOREM LateHolds == Spec => []LateInReview
<1>1. Init => LateInReview
  BY DEF Init, LateInReview, At, Idle
<1> QED
  BY <1>1, LateStep, CoreHolds, PTL DEF Spec

\* The UPDATE of an edit changes, in the rows of orders in review, only those that were
\* posted after checkFlowOrderCompletion (flow.go) had found none in review.
THEOREM EditsMeetLatePosts == Spec => EditMeetsOnlyLatePosts
<1>1. ASSUME LateInReview, NEW h \in Handlers, NEW w \in WorkIds,
             At(h, "editWrite"), order[w].status = "review"
      PROVE  w \in job[h].since
  BY <1>1 DEF LateInReview, InReview
<1>2. LateInReview /\ [Next]_vars =>
         [\A h \in Handlers, w \in WorkIds :
             At(h, "editWrite") /\ job'[h] = Idle /\ restarts' = restarts
             /\ order[w].status = "review" /\ order[w] # order'[w]
                 => w \in job[h].since]_vars
  BY <1>1
<1> QED
  BY <1>2, LateHolds, PTL DEF Spec, EditMeetsOnlyLatePosts

\* A deletion that is still to remove its account has heard of the save of every
\* template that names it, since none did when it looked.
LateNames ==
    \A h \in Handlers : At(h, "deleteUser") =>
        \A id \in TplIds : Find(id) # None /\ Names(Find(id), job[h].user) => id \in job[h].since

\* A template that is found after a step was saved by it or was there before.
LEMMA FoundBefore ==
    ASSUME TypeOK, [Next]_vars, NEW id \in TplIds, Find(id)' # None
    PROVE  Find(id)' = Find(id) \/ \E h \in Handlers : Save(h, id)
<1> DEFINE Goal == Find(id)' = Find(id) \/ \E h \in Handlers : Save(h, id)
<1>1. ASSUME tpl' = tpl
      PROVE  Goal
  BY <1>1 DEF Find
<1>2. ASSUME NEW i \in TplIds, NEW t \in StepLists \union {None}, tpl' = [tpl EXCEPT ![i] = t],
             t = None \/ \E h \in Handlers : Save(h, i)
      PROVE  Goal
  BY <1>2, FlowAssumption DEF Find, TypeOK
<1>3. ASSUME NEW i \in TplIds, NEW steps \in StepLists, CreateTemplate(i, steps)
      PROVE  Goal
  BY <1>2, <1>3 DEF CreateTemplate
<1>4. ASSUME NEW h \in Handlers, Administer(h)
      PROVE  Goal
  <2>1. CASE EditWrite(h)
    <3>1. job[h].id \in TplIds /\ job[h].steps \in StepLists
      BY <2>1, JobFields DEF EditWrite
    <3>2. CASE Find(job[h].id) # None
      BY <1>2, <2>1, <3>1, <3>2 DEF EditWrite
    <3>3. CASE Find(job[h].id) = None
      BY <1>1, <2>1, <3>3 DEF EditWrite, TypeOK
    <3> QED
      BY <3>2, <3>3
  <2>2. ASSUME NEW i \in TplIds, DeleteTemplate(h, i)
        PROVE  Goal
    BY <1>2, <2>2 DEF DeleteTemplate
  <2> QED
    BY <1>1, <1>4, <2>1, <2>2 DEF Administer, EditLook, AssignFlow, DeleteUserLook,
       DetachSources, DeleteUser
<1>5. ASSUME NEW h \in Handlers, Post(h) \/ Review(h)
      PROVE  Goal
  BY <1>1, <1>5 DEF Post, PostFlow, PostTpl, InsertShort, Insert, Robot, Review, AgreeFlow,
     AgreeTpl, Advance, Execute, OtherButton
<1>6. CASE Stop \/ UNCHANGED vars
  BY <1>1, <1>6 DEF Stop, vars
<1> QED
  BY <1>3, <1>4, <1>5, <1>6 DEF Next

LEMMA NamesStep == TypeOK /\ LateNames /\ [Next]_vars => LateNames'
<1> SUFFICES ASSUME TypeOK, LateNames, [Next]_vars,
                    NEW g \in Handlers, At(g, "deleteUser")', NEW id \in TplIds,
                    Find(id)' # None, Names(Find(id)', job'[g].user)
             PROVE  id \in job'[g].since
  BY DEF LateNames
<1>0. job'[g].pc = "deleteUser"
  BY DEF At
<1>1. ASSUME NEW h \in Handlers, NEW i \in TplIds, Save(h, i)
      PROVE  /\ At(g, "deleteUser") /\ job'[g].user = job[g].user
             /\ job'[g].since = job[g].since \union {i}
  <2>1. g # h /\ At(g, "deleteUser")
    BY <1>0, <1>1 DEF Save, At, Idle
  <2>2. job'[g] = [job[g] EXCEPT !.since = job[g].since \union {i}]
    BY <1>1, <2>1 DEF Save
  <2> QED
    BY <2>1, <2>2, SinceGrows
<1>2. ASSUME Find(id)' = Find(id), At(g, "deleteUser"), job'[g].user = job[g].user,
             job[g].since \subseteq job'[g].since
      PROVE  id \in job'[g].since
  BY <1>2 DEF LateNames
<1>3. CASE \E h \in Handlers : Save(h, id)
  BY <1>1, <1>3
<1>4. CASE ~ \E h \in Handlers : Save(h, id)
  <2>1. Find(id)' = Find(id)
    BY <1>4, FoundBefore
  <2>2. CASE job'[g] = job[g]
    BY <1>0, <1>2, <2>1, <2>2 DEF At
  <2>3. ASSUME NEW i \in TplIds, NEW steps \in StepLists, EditLook(g, i, steps)
        PROVE  FALSE
    BY <1>0, <2>3 DEF EditLook, Serve, TypeOK
  <2>4. ASSUME NEW u \in Accounts, DeleteUserLook(g, u)
        PROVE  FALSE
    <3>1. job'[g] = [pc |-> "deleteUser", user |-> u, since |-> {}]
      BY <2>4 DEF DeleteUserLook, Serve, TypeOK
    <3>2. Find(id) # None => ~Names(Find(id), u)
      BY <2>4 DEF DeleteUserLook
    <3>3. job'[g].user = u
      BY <3>1
    <3> QED
      BY <2>1, <3>2, <3>3
  <2>5. ASSUME NEW h \in Handlers, NEW i \in TplIds, Save(h, i)
        PROVE  id \in job'[g].since
    BY <1>1, <1>2, <2>1, <2>5
  <2>6. ASSUME NEW h \in Handlers, h # g, EndsPost(h)
        PROVE  job'[g] = job[g]
    <3>0. PICK w \in WorkIds \union {EmptyId}, length \in Nat : PostEnds(h, w, length)
      BY <2>6 DEF EndsPost
    <3>1. CASE At(g, "editWrite")
      <4>1. job'[g] = [job[g] EXCEPT !.since = job[g].since \union {w}]
        BY <2>6, <3>0, <3>1 DEF PostEnds
      <4> QED
        BY <1>0, <3>1, <4>1, SinceGrows
    <3>2. CASE ~At(g, "editWrite")
      BY <2>6, <3>0, <3>2 DEF PostEnds
    <3> QED
      BY <3>1, <3>2
  <2> QED
    BY <1>0, <2>2, <2>3, <2>4, <2>5, <2>6, JobMoves
<1> QED
  BY <1>3, <1>4

\* A deletion that found no template with its account meets one only if it was saved since.
THEOREM NamesHold == Spec => []LateNames
<1>1. Init => LateNames
  BY DEF Init, LateNames, At, Idle
<1> QED
  BY <1>1, NamesStep, FlowTypes, PTL DEF Spec

\* SuperDeleteUser removes an account that a template names only when that template
\* was saved after the search through the templates (user.go).
THEOREM DeletedAuditorSaved == Spec => DeletedAuditorWasJustSaved
<1>1. LateNames /\ [Next]_vars =>
         [\A h \in Handlers :
             At(h, "deleteUser") /\ job[h].user \in accounts /\ job[h].user \notin accounts' =>
                 \A id \in TplIds :
                     Find(id) # None /\ Names(Find(id), job[h].user) => id \in job[h].since]_vars
  BY DEF LateNames
<1> QED
  BY <1>1, NamesHold, PTL DEF Spec, DeletedAuditorWasJustSaved

-----------------------------------------------------------------------------
(***************************************************************************)
(* Orders whose template was deleted.                                      *)
(***************************************************************************)

\* A deleted template stays deleted, and a source that names one, or none, gets a
\* template only from SuperEditSource.
LEMMA GoneStaysGone ==
    ASSUME TypeOK, [Next]_vars
    PROVE  /\ \A id \in TplIds : tpl[id] = None => tpl'[id] = None
           /\ \A s \in Sources :
                 \/ flow'[s] = flow[s] \/ flow'[s] = NoFlow
                 \/ \E h \in Handlers, id \in TplIds : AssignFlow(h, s, id)
<1> DEFINE Goal == /\ \A id \in TplIds : tpl[id] = None => tpl'[id] = None
                   /\ \A s \in Sources :
                         \/ flow'[s] = flow[s] \/ flow'[s] = NoFlow
                         \/ \E h \in Handlers, id \in TplIds : AssignFlow(h, s, id)
<1>1. ASSUME UNCHANGED <<tpl, flow>>
      PROVE  Goal
  BY <1>1
<1>2. ASSUME NEW i \in TplIds, NEW t, tpl' = [tpl EXCEPT ![i] = t], flow' = flow,
             tpl[i] = None => t = None
      PROVE  Goal
  BY <1>2 DEF TypeOK
<1>3. ASSUME NEW i \in TplIds, NEW steps \in StepLists, CreateTemplate(i, steps)
      PROVE  Goal
  <2>1. tpl[i] # None
    BY <1>3, FlowAssumption DEF CreateTemplate
  <2> QED
    BY <1>2, <1>3, <2>1 DEF CreateTemplate
<1>4. ASSUME NEW h \in Handlers, Administer(h)
      PROVE  Goal
  <2>1. CASE EditWrite(h)
    <3>1. job[h].id \in TplIds /\ job[h].steps \in StepLists
      BY <2>1, JobFields DEF EditWrite
    <3>2. CASE Find(job[h].id) # None
      <4>1. tpl[job[h].id] # None
        BY <3>2, FlowAssumption DEF Find
      <4> QED
        BY <1>2, <2>1, <3>1, <3>2, <4>1 DEF EditWrite
    <3>3. CASE Find(job[h].id) = None
      BY <1>1, <2>1, <3>3 DEF EditWrite, TypeOK
    <3> QED
      BY <3>2, <3>3
  <2>2. ASSUME NEW i \in TplIds, DeleteTemplate(h, i)
        PROVE  Goal
    BY <1>2, <2>2 DEF DeleteTemplate
  <2>3. CASE DetachSources(h)
    BY <2>3 DEF DetachSources
  <2>4. ASSUME NEW s \in Sources, NEW i \in TplIds \union {NoFlow}, AssignFlow(h, s, i)
        PROVE  Goal
    BY <2>4 DEF AssignFlow, TypeOK
  <2> QED
    BY <1>1, <1>4, <2>1, <2>2, <2>3, <2>4 DEF Administer, EditLook, DeleteUserLook, DeleteUser
<1>5. ASSUME NEW h \in Handlers, Post(h) \/ Review(h)
      PROVE  Goal
  BY <1>1, <1>5 DEF Post, PostFlow, PostTpl, InsertShort, Insert, Robot, Review, AgreeFlow,
     AgreeTpl, Advance, Execute, OtherButton
<1>6. CASE Stop \/ UNCHANGED vars
  BY <1>1, <1>6 DEF Stop, vars
<1> QED
  BY <1>3, <1>4, <1>5, <1>6 DEF Next

\* A goroutine that reviews after a step did so before, or begins, or has read a template.
LEMMA ReviewMoves ==
    ASSUME TypeOK, [Next]_vars, NEW g \in Handlers,
           job'[g].pc \in {"agreeTpl", "advance", "execute"}, job'[g] # job[g]
    PROVE  \/ \E w \in WorkIds : \E stage \in Flags : AgreeFlow(g, w, stage)
           \/ AgreeTpl(g) /\ Find(job[g].id) # None /\ job'[g].work = job[g].work
              /\ job'[g].pc \in {"advance", "execute"}
<1> DEFINE Goal == \/ \E w \in WorkIds : \E stage \in Flags : AgreeFlow(g, w, stage)
                   \/ AgreeTpl(g) /\ Find(job[g].id) # None /\ job'[g].work = job[g].work
                      /\ job'[g].pc \in {"advance", "execute"}
<1>0. Idle.pc = "idle" /\ job \in [Handlers -> JobType]
  BY DEF Idle, TypeOK
<1>1. ASSUME NEW h \in Handlers, NEW t, Serve(h, t) \/ Goto(h, t)
      PROVE  g = h /\ t.pc \in {"agreeTpl", "advance", "execute"}
  BY <1>0, <1>1 DEF Serve, Goto
<1>2. CASE Aside
  BY <1>2, AsideJobs DEF JobsKept
<1>3. ASSUME NEW h \in Handlers, Post(h)
      PROVE  FALSE
  <2>1. CASE InsertShort(h) \/ Insert(h)
    <3>1. PICK w \in WorkIds \union {EmptyId}, length \in Nat : PostEnds(h, w, length)
      BY <2>1, InsertEnds DEF EndsPost
    <3>2. Ended(h, w, length) /\ OthersLearn(h)
      BY <3>1, PostLearning
    <3> QED
      BY <1>0, <3>2 DEF Ended, OthersLearn
  <2>2. ASSUME NEW w \in WorkIds, NEW s \in Sources, PostFlow(h, w, s)
        PROVE  FALSE
    <3>1. Serve(h, [pc |-> "postTpl", work |-> w, source |-> s, id |-> flow[s]])
      BY <2>2 DEF PostFlow
    <3> QED
      BY <1>1, <3>1
  <2>3. CASE PostTpl(h)
    <3>1. PICK t : Goto(h, t) /\ t.pc \in {"idle", "insert"}
      BY <1>0, <2>3 DEF PostTpl
    <3> QED
      BY <1>1, <3>1
  <2>4. CASE Robot(h)
    BY <1>0, <1>1, <2>4 DEF Robot
  <2> QED
    BY <1>3, <2>1, <2>2, <2>3, <2>4 DEF Post
<1>4. ASSUME NEW h \in Handlers, Review(h)
      PROVE  Goal
  <2>1. ASSUME NEW w \in WorkIds, NEW stage \in Flags, AgreeFlow(h, w, stage)
        PROVE  Goal
    <3>1. Serve(h, [pc |-> "agreeTpl", work |-> w, stage |-> stage,
                    id |-> flow[order[w].source]])
      BY <2>1 DEF AgreeFlow
    <3>2. g = h
      BY <1>1, <3>1
    <3> QED
      BY <2>1, <3>2
  <2>2. CASE AgreeTpl(h)
    <3>1. CASE Goto(h, Idle)
      BY <1>0, <1>1, <3>1
    <3>2. CASE ~Goto(h, Idle)
      <4>1. PICK t : /\ Goto(h, t) /\ t.pc \in {"advance", "execute"}
                     /\ t.work = job[h].work /\ Find(job[h].id) # None
        BY <2>2, <3>2 DEF AgreeTpl
      <4>2. g = h
        BY <1>1, <4>1
      <4>3. job'[g] = t
        BY <1>0, <4>1, <4>2 DEF Goto
      <4> QED
        BY <2>2, <4>1, <4>2, <4>3
    <3> QED
      BY <3>1, <3>2
  <2>3. ASSUME NEW w \in WorkIds, NEW st \in {order[w].status, "rejected"}, OtherButton(h, w, st)
        PROVE  FALSE
    BY <1>0, <1>1, <2>3 DEF OtherButton
  <2>4. CASE Advance(h) \/ Execute(h)
    BY <1>0, <1>1, <2>4 DEF Advance, Execute
  <2> QED
    BY <1>4, <2>1, <2>2, <2>3, <2>4 DEF Review
<1> QED
  BY <1>2, <1>3, <1>4 DEF Next, Aside

\* An order in review whose source has lost its template (flow.go) waits until the
\* source is given another or a button closes it, whatever edits and approvals that
\* had already begun do.
THEOREM StrandedWaits == Spec => StrandedOrderWaits
<1>1. ASSUME Core, [Next]_vars, NEW w \in InReview, Stranded(w), w \in InReview',
             ~ \E h \in Handlers, id \in TplIds : AssignFlow(h, order[w].source, id)
      PROVE  Stranded(w)'
  <2>0. TypeOK /\ FlowUsed /\ w \in WorkIds /\ Exists(w) /\ RowFits(w) /\ NoFlow \notin TplIds
    BY <1>1, FlowAssumption DEF Core, InReview, Exists, OrdersFit
  <2>1. PICK s \in Sources : s = order[w].source
    BY <2>0 DEF RowFits
  <2>2. order'[w].source = s
    BY <1>1, <2>0, <2>1, RowKeeps
  <2>3. ASSUME NEW id \in TplIds \union {NoFlow}, Find(id) = None,
               id # NoFlow => tpl[id] # Unused
        PROVE  Find(id)' = None
    <3>1. CASE id = NoFlow
      BY <3>1 DEF Find
    <3>2. CASE id # NoFlow
      <4>1. tpl[id] = None
        BY <2>0, <2>3, <3>2 DEF Find, TypeOK
      <4>2. tpl'[id] = None
        BY <1>1, <2>0, <3>2, <4>1, GoneStaysGone
      <4> QED
        BY <4>2 DEF Find
    <3> QED
      BY <3>1, <3>2
  <2>4. /\ Find(flow[s]) = None /\ flow[s] \in TplIds \union {NoFlow}
        /\ flow[s] # NoFlow => tpl[flow[s]] # Unused
    BY <1>1, <2>0, <2>1 DEF Stranded, FlowUsed, TypeOK
  <2>5. flow'[s] \in {flow[s], NoFlow}
    BY <1>1, <2>0, <2>1, GoneStaysGone
  <2>6. Find(flow[s])' = None
    <3>1. PICK f : f = flow'[s]
      OBVIOUS
    <3>2. Find(f)' = None
      BY <2>3, <2>4, <2>5, <3>1 DEF Find
    <3> QED
      BY <3>1, <3>2 DEF Find
  <2>7. ASSUME NEW h \in Handlers, job'[h].work = w
        PROVE  /\ job'[h].pc \notin {"advance", "execute"}
               /\ job'[h].pc = "agreeTpl" => Find(job[h].id)' = None
    <3>1. /\ job[h].pc \in {"advance", "execute"} => job[h].work # w
          /\ job[h].pc = "agreeTpl" /\ job[h].work = w => Find(job[h].id) = None
      BY <1>1 DEF Stranded, At
    <3>2. CASE job'[h] = job[h]
      <4>1. ASSUME job[h].pc = "agreeTpl"
            PROVE  Find(job[h].id)' = None
        <5>1. PICK id : id = job[h].id
          OBVIOUS
        <5>2. /\ id \in TplIds \union {NoFlow} /\ Find(id) = None
              /\ id # NoFlow => tpl[id] # Unused
          BY <1>1, <2>0, <2>7, <3>1, <3>2, <4>1, <5>1, JobFields DEF Core, JobFits, At
        <5>3. Find(id)' = None
          BY <2>3, <5>2
        <5> QED
          BY <3>2, <5>1, <5>3 DEF Find
      <4> QED
        BY <2>7, <3>1, <3>2, <4>1 DEF Find
    <3>3. ASSUME NEW v \in WorkIds, NEW stage \in Flags, AgreeFlow(h, v, stage)
          PROVE  job'[h].pc = "agreeTpl" /\ Find(job[h].id)' = None
      <4>1. /\ job'[h] = [pc |-> "agreeTpl", work |-> v, stage |-> stage,
                          id |-> flow[order[v].source]]
            /\ tpl' = tpl
        BY <2>0, <3>3 DEF AgreeFlow, Serve, TypeOK
      <4>2. job'[h].pc = "agreeTpl" /\ v = w /\ job'[h].id = flow[s]
        BY <2>1, <2>7, <4>1
      <4> QED
        BY <2>4, <4>1, <4>2 DEF Find
    <3>4. CASE AgreeTpl(h) /\ Find(job[h].id) # None /\ job'[h].work = job[h].work
      BY <2>7, <3>1, <3>4 DEF AgreeTpl, At
    <3> QED
      BY <1>1, <2>0, <3>2, <3>3, <3>4, ReviewMoves
  <2> QED
    BY <1>1, <2>2, <2>6, <2>7 DEF Stranded, At, Find
<1>2. Core /\ [Next]_vars =>
         [\A w \in InReview :
             Stranded(w) =>
                 \/ Stranded(w)' \/ w \notin InReview'
                 \/ \E h \in Handlers, id \in TplIds : AssignFlow(h, order[w].source, id)]_vars
  BY <1>1
<1> QED
  BY <1>2, CoreHolds, PTL DEF Spec, StrandedOrderWaits
=============================================================================
