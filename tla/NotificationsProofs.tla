------------------------ MODULE NotificationsProofs ------------------------
(***************************************************************************)
(* Theorems about Notifications, for any template, any accounts with and   *)
(* without an address, and any number of goroutines, requests, lost sends  *)
(* and restarts.                                                           *)
(***************************************************************************)
EXTENDS Notifications, TLAPS

-----------------------------------------------------------------------------
(***************************************************************************)
(* Types, and the order of the statements of a handler.                    *)
(***************************************************************************)
RowType ==
    [kind : {"sql", "query"},
     status : {"none", "review", "rejected", "agreed", "undone", "gone", "running"},
     stage : Nat, assigned : SUBSET Users, text : {"plain", "quoted"}]

HandlerType ==
    [next : {"idle", "write", "read", "push", "undo", "delete"}, flag : Nat,
     state : StatusTypes, after : {"idle", "undo", "delete"}, row : RowType]

TypeOK ==
    /\ order \in RowType
    /\ handler \in [Handlers -> HandlerType]
    /\ lost \in Nat
    /\ restarts \in Nat

\* An approval is of a stage before the last, so that the next one has auditors.
FlagsFit == \A h \in Handlers : handler[h].next = "write" => handler[h].flag \in 1 .. LastStage - 1

\* Who tells that the order is withdrawn has still to write it.
ToldBefore ==
    \A h \in Handlers :
        handler[h].next \in {"read", "push"} /\ handler[h].state = "undo" => handler[h].after # "idle"

\* Nobody has heard of an order that is not posted.
Unheard ==
    order.status = "none" =>
        /\ \A h \in Handlers : handler[h] = Idle
        /\ outbox = {} /\ delivered = {}

Shape == TypeOK /\ FlagsFit /\ ToldBefore /\ Unheard

LEMMA IdleType == Idle \in HandlerType /\ NoRow \in RowType
  BY DEF Idle, NoRow, HandlerType, RowType, StatusTypes

\* A handler that begins or goes on.
LEMMA BegunType ==
    ASSUME NEW n \in {"idle", "write", "read", "push", "undo", "delete"}, NEW f \in Nat,
           NEW s \in StatusTypes, NEW a \in {"idle", "undo", "delete"}
    PROVE  /\ [Idle EXCEPT !.next = n] \in HandlerType
           /\ [Idle EXCEPT !.next = n, !.flag = f] \in HandlerType
           /\ [Idle EXCEPT !.next = n, !.state = s] \in HandlerType
           /\ [Idle EXCEPT !.next = n, !.state = s, !.after = a] \in HandlerType
  BY IdleType DEF Idle, HandlerType

-----------------------------------------------------------------------------
(***************************************************************************)
(* One step of one handler leaves the others alone.                        *)
(***************************************************************************)
Moves(h, r) == r \in HandlerType /\ handler' = [handler EXCEPT ![h] = r]

Act(h) ==
    \/ Post(h) \/ Agree(h) \/ Advance(h) \/ Reject(h) \/ Agreed(h) \/ Undo(h)
    \/ UndoWrite(h) \/ Withdraw(h) \/ WithdrawDelete(h) \/ Read(h) \/ Push(h)

LEMMA PostMoves ==
    ASSUME Shape, NEW h \in Handlers, Post(h)
    PROVE  /\ \E r : /\ Moves(h, r)
                     /\ r.next = "read" /\ r.state = "submit"
           /\ order' \in RowType /\ order'.stage = 1
           /\ order.status = "none" /\ order'.status = "review"
<1>1. PICK k \in {"sql", "query"}, t \in {"plain", "quoted"} :
         WriteAndTell(h, [kind |-> k, status |-> "review", stage |-> 1, assigned |-> Auditor[1], text |-> t], "submit")
  BY DEF Post
<1>2. Auditor[1] \in SUBSET Users
  BY NotificationsAssumption
<1>3. order' = [kind |-> k, status |-> "review", stage |-> 1, assigned |-> Auditor[1], text |-> t]
  BY <1>1 DEF WriteAndTell
<1>4. order' \in RowType /\ order'.stage = 1 /\ order'.status = "review"
  BY <1>2, <1>3 DEF RowType
<1>5. PICK r : r = [Idle EXCEPT !.next = "read", !.state = "submit"]
  OBVIOUS
<1>6. r \in HandlerType
  BY <1>5, BegunType DEF StatusTypes
<1>7. r.next = "read" /\ r.state = "submit"
  BY <1>5 DEF Idle
<1>8. handler' = [handler EXCEPT ![h] = r]
  BY <1>1, <1>5 DEF WriteAndTell
<1> QED
  BY <1>4, <1>6, <1>7, <1>8 DEF Moves, Post

\* Agree, Undo, Withdraw.
LEMMA RequestMoves ==
    ASSUME Shape, NEW h \in Handlers, Agree(h) \/ Undo(h) \/ Withdraw(h)
    PROVE  /\ \E r : /\ Moves(h, r)
                     /\ r.next = "write" => r.flag \in 1 .. LastStage - 1
                     /\ r.state = "undo" => r.after # "idle"
           /\ handler[h] = Idle
           /\ order.status # "none" /\ order' = order
           /\ UNCHANGED <<outbox, delivered, lost, restarts>>
<1>1. CASE Agree(h)
  <2>1. PICK f \in 1 .. LastStage - 1 : Request(h, [Idle EXCEPT !.next = "write", !.flag = f])
    BY <1>1 DEF Agree
  <2>2. PICK r : r = [Idle EXCEPT !.next = "write", !.flag = f]
    OBVIOUS
  <2>3. f \in Nat
    BY NotificationsAssumption
  <2>4. r \in HandlerType
    BY <2>2, <2>3, BegunType DEF StatusTypes
  <2>5. r.flag = f /\ r.state = "submit"
    BY <2>2 DEF Idle
  <2> QED
    BY <2>1, <2>2, <2>4, <2>5 DEF Request, Moves
<1>2. CASE Undo(h)
  <2>1. PICK r : r = [Idle EXCEPT !.next = "read", !.state = "undo", !.after = "undo"]
    OBVIOUS
  <2>2. r \in HandlerType /\ r.next = "read" /\ r.after = "undo"
    BY <2>1, BegunType DEF StatusTypes, Idle
  <2> QED
    BY <1>2, <2>1, <2>2 DEF Undo, Request, Moves
<1>3. CASE Withdraw(h)
  <2>1. PICK r : r = [Idle EXCEPT !.next = "read", !.state = "undo", !.after = "delete"]
    OBVIOUS
  <2>2. r \in HandlerType /\ r.next = "read" /\ r.after = "delete"
    BY <2>1, BegunType DEF StatusTypes, Idle
  <2> QED
    BY <1>3, <2>1, <2>2 DEF Withdraw, Request, Moves
<1> QED
  BY <1>1, <1>2, <1>3

\* An approval: the next stage has a number above one, and the row its auditors.
LEMMA AdvanceMoves ==
    ASSUME Shape, NEW h \in Handlers, Advance(h)
    PROVE  /\ \E r : /\ Moves(h, r)
                     /\ r.next = "read" /\ r.state = "next"
           /\ handler[h].next = "write"
           /\ order' \in RowType
           /\ order'.status = order.status
           /\ InDatabase => order'.stage # 1
           /\ UNCHANGED <<outbox, delivered, lost, restarts>>
<1>1. PICK f : f = handler[h].flag
  OBVIOUS
<1>2. f \in 1 .. LastStage - 1 /\ f + 1 \in 1 .. LastStage
  BY <1>1, NotificationsAssumption DEF Shape, FlagsFit, Advance
<1>3. Auditor[f + 1] \in SUBSET Users /\ f + 1 \in Nat /\ f + 1 # 1
  BY <1>2, NotificationsAssumption
<1>4. PICK row : row = IF InDatabase THEN [order EXCEPT !.stage = f + 1, !.assigned = Auditor[f + 1]] ELSE order
  OBVIOUS
<1>5. row \in RowType /\ row.status = order.status /\ (InDatabase => row.stage # 1)
  BY <1>3, <1>4 DEF Shape, TypeOK, RowType
<1>6. PICK r : r = [Idle EXCEPT !.next = "read", !.state = "next"]
  OBVIOUS
<1>7. r \in HandlerType /\ r.next = "read" /\ r.state = "next"
  BY <1>6, BegunType DEF StatusTypes, Idle
<1>8. WriteAndTell(h, row, "next") /\ handler[h].next = "write"
  BY <1>1, <1>4 DEF Advance
<1> QED
  BY <1>5, <1>6, <1>7, <1>8 DEF WriteAndTell, Moves

\* Reject, Agreed, and the two writes after a push: the order leaves the review.
LEMMA LeaveMoves ==
    ASSUME Shape, NEW h \in Handlers,
           Reject(h) \/ Agreed(h) \/ UndoWrite(h) \/ WithdrawDelete(h)
    PROVE  /\ \E r : /\ Moves(h, r)
                     /\ r.next # "write" /\ r.state # "undo"
           /\ order.status # "none"
           /\ order' \in RowType
           /\ order'.status \notin {"none", "review"}
           /\ UNCHANGED <<outbox, delivered, lost, restarts>>
<1>1. ASSUME NEW s \in {"reject", "agree"}, NEW st \in {"rejected", "agreed"},
             InDatabase, order' = [order EXCEPT !.status = st],
             handler' = [handler EXCEPT ![h] = [Idle EXCEPT !.next = "read", !.state = s]],
             UNCHANGED <<outbox, delivered, lost, restarts>>
      PROVE  /\ \E r : /\ Moves(h, r)
                       /\ r.next # "write" /\ r.state # "undo"
             /\ order.status # "none"
             /\ order' \in RowType
             /\ order'.status \notin {"none", "review"}
             /\ UNCHANGED <<outbox, delivered, lost, restarts>>
  <2>1. PICK r : r = [Idle EXCEPT !.next = "read", !.state = s]
    OBVIOUS
  <2>2. r \in HandlerType /\ r.next = "read" /\ r.state = s
    BY <2>1, BegunType DEF StatusTypes, Idle
  <2>3. order' \in RowType /\ order'.status = st
    BY <1>1 DEF Shape, TypeOK, RowType
  <2> QED
    BY <1>1, <2>1, <2>2, <2>3 DEF Moves, InDatabase
<1>2. CASE Reject(h)
  BY <1>1, <1>2 DEF Reject
<1>3. CASE Agreed(h)
  BY <1>1, <1>3 DEF Agreed
<1>4. CASE UndoWrite(h) \/ WithdrawDelete(h)
  <2>1. PICK r : r = Idle
    OBVIOUS
  <2>2. r \in HandlerType /\ r.next = "idle" /\ r.state = "submit"
    BY <2>1, IdleType DEF Idle
  <2>3. order.status # "none"
    BY <1>4 DEF Shape, Unheard, Idle, UndoWrite, WithdrawDelete
  <2>4. order' \in RowType /\ order'.status \notin {"none", "review"}
    BY <1>4, <2>3 DEF UndoWrite, WithdrawDelete, InDatabase, Shape, TypeOK, RowType
  <2> QED
    BY <1>4, <2>1, <2>2, <2>3, <2>4 DEF UndoWrite, WithdrawDelete, Moves
<1> QED
  BY <1>2, <1>3, <1>4

LEMMA ReadMoves ==
    ASSUME Shape, NEW h \in Handlers, Read(h)
    PROVE  /\ \E r : /\ Moves(h, r)
                     /\ r.next = "push" /\ r.state = handler[h].state /\ r.after = handler[h].after
                     /\ InDatabase => r.row = order
           /\ handler[h].next = "read"
           /\ order.status # "none"
           /\ UNCHANGED <<order, outbox, delivered, lost, restarts>>
<1>1. PICK row : row = IF InDatabase THEN order ELSE NoRow
  OBVIOUS
<1>2. row \in RowType
  BY <1>1, IdleType DEF Shape, TypeOK
<1>3. PICK r : r = [handler[h] EXCEPT !.next = "push", !.row = row]
  OBVIOUS
<1>4. handler[h] \in HandlerType
  BY DEF Shape, TypeOK
<1>5. /\ r \in HandlerType /\ r.next = "push" /\ r.state = handler[h].state
      /\ r.after = handler[h].after /\ r.row = row
  BY <1>2, <1>3, <1>4 DEF HandlerType
<1>6. handler' = [handler EXCEPT ![h] = r]
  BY <1>1, <1>3 DEF Read
<1>7. order.status # "none"
  BY DEF Shape, Unheard, Idle, Read
<1> QED
  BY <1>1, <1>5, <1>6, <1>7 DEF Read, Moves

\* Whose message it is, and what the handler does then.
LEMMA PushMoves ==
    ASSUME Shape, NEW h \in Handlers, Push(h)
    PROVE  /\ \E r : /\ Moves(h, r)
                     /\ r.next = handler[h].after /\ r.state = "submit"
           /\ handler[h].next = "push"
           /\ order.status # "none"
           /\ \E to \in Recipients(handler[h].state, handler[h].row) :
                 outbox' = outbox \union Mails(to, handler[h].state, handler[h].row)
                                  \union Hook(handler[h].state, handler[h].row)
           /\ UNCHANGED <<order, delivered, lost, restarts>>
<1>1. handler[h] \in HandlerType
  BY DEF Shape, TypeOK
<1>2. PICK r : r = IF handler[h].after = "idle" THEN Idle
                                                ELSE [Idle EXCEPT !.next = handler[h].after]
  OBVIOUS
<1>3. r \in HandlerType /\ r.next = handler[h].after /\ r.state = "submit"
  BY <1>1, <1>2, IdleType DEF HandlerType, Idle
<1>4. handler' = [handler EXCEPT ![h] = r]
  BY <1>2 DEF Push
<1>5. order.status # "none"
  BY DEF Shape, Unheard, Idle, Push
<1> QED
  BY <1>3, <1>4, <1>5 DEF Push, Moves

\* A handler that has moved, next to the others.
LEMMA MovedShape ==
    ASSUME Shape, NEW h \in Handlers, NEW r, Moves(h, r),
           order' \in RowType, order'.status # "none",
           r.next = "write" => r.flag \in 1 .. LastStage - 1,
           r.next \in {"read", "push"} /\ r.state = "undo" => r.after # "idle",
           UNCHANGED <<lost, restarts>>
    PROVE  Shape'
<1>1. handler' = [handler EXCEPT ![h] = r] /\ r \in HandlerType
  BY DEF Moves
<1>2. handler \in [Handlers -> HandlerType]
  BY DEF Shape, TypeOK
<1>3. TypeOK'
  BY <1>1, <1>2 DEF Shape, TypeOK
<1>4. \A g \in Handlers : handler'[g] = IF g = h THEN r ELSE handler[g]
  BY <1>1, <1>2
<1>5. FlagsFit'
  BY <1>4 DEF Shape, FlagsFit
<1>6. ToldBefore'
  BY <1>4 DEF Shape, ToldBefore
<1>7. Unheard'
  BY DEF Unheard
<1> QED
  BY <1>3, <1>5, <1>6, <1>7 DEF Shape

LEMMA ActShape ==
    ASSUME Shape, NEW h \in Handlers, Act(h)
    PROVE  Shape'
<1>0. order \in RowType /\ handler \in [Handlers -> HandlerType]
  BY DEF Shape, TypeOK
<1>1. CASE Post(h)
  <2>1. UNCHANGED <<lost, restarts>>
    BY <1>1 DEF Post, WriteAndTell
  <2> QED
    BY <1>1, <2>1, PostMoves, MovedShape
<1>2. CASE Agree(h) \/ Undo(h) \/ Withdraw(h)
  BY <1>0, <1>2, RequestMoves, MovedShape
<1>3. CASE Advance(h)
  <2>1. order.status # "none"
    BY <1>3 DEF Shape, Unheard, Idle, Advance
  <2> QED
    BY <1>3, <2>1, AdvanceMoves, MovedShape
<1>4. CASE Reject(h) \/ Agreed(h) \/ UndoWrite(h) \/ WithdrawDelete(h)
  BY <1>4, LeaveMoves, MovedShape
<1>5. CASE Read(h)
  <2>1. handler[h].state = "undo" => handler[h].after # "idle"
    BY <1>5 DEF Shape, ToldBefore, Read
  <2> QED
    BY <1>0, <1>5, <2>1, ReadMoves, MovedShape
<1>6. CASE Push(h)
  <2>1. handler[h].after # "write"
    BY <1>0 DEF HandlerType
  <2> QED
    BY <1>0, <1>6, <2>1, PushMoves, MovedShape
<1> QED
  BY <1>1, <1>2, <1>3, <1>4, <1>5, <1>6 DEF Act

\* What happens beside the handlers.
Beside == (\E m \in outbox : Send(m) \/ Lose(m)) \/ BulkDelete \/ EngineRuns \/ Restart

LEMMA BesideShape ==
    ASSUME Shape, Beside
    PROVE  Shape'
<1>1. ASSUME NEW m \in outbox, Send(m) \/ Lose(m)
      PROVE  Shape'
  <2>1. order.status # "none"
    BY <1>1 DEF Shape, Unheard
  <2>2. TypeOK' /\ UNCHANGED <<order, handler>>
    BY <1>1 DEF Shape, TypeOK, Send, Lose
  <2> QED
    BY <2>1, <2>2 DEF Shape, FlagsFit, ToldBefore, Unheard
<1>2. CASE BulkDelete \/ EngineRuns
  <2>1. order' \in RowType /\ order'.status # "none"
    BY <1>2 DEF Shape, TypeOK, RowType, BulkDelete, EngineRuns
  <2>2. TypeOK' /\ UNCHANGED handler
    BY <1>2, <2>1 DEF Shape, TypeOK, BulkDelete, EngineRuns
  <2> QED
    BY <2>1, <2>2 DEF Shape, FlagsFit, ToldBefore, Unheard
<1>3. CASE Restart
  <2>1. TypeOK'
    BY <1>3, IdleType DEF Shape, TypeOK, Restart
  <2>2. \A h \in Handlers : handler'[h] = Idle
    BY <1>3 DEF Restart
  <2>3. FlagsFit' /\ ToldBefore'
    BY <2>2 DEF FlagsFit, ToldBefore, Idle
  <2>4. Unheard'
    BY <1>3, <2>2 DEF Shape, Unheard, Restart
  <2> QED
    BY <2>1, <2>3, <2>4 DEF Shape
<1> QED
  BY <1>1, <1>2, <1>3 DEF Beside

LEMMA ShapeInit == Init => Shape
<1> SUFFICES ASSUME Init PROVE Shape
  OBVIOUS
<1>1. TypeOK
  BY IdleType DEF Init, TypeOK
<1>2. \A h \in Handlers : handler[h] = Idle
  BY DEF Init
<1> QED
  BY <1>1, <1>2 DEF Init, Shape, FlagsFit, ToldBefore, Unheard, Idle

LEMMA NextSplit ==
    ASSUME [Next]_vars
    PROVE  (\E h \in Handlers : Act(h)) \/ Beside \/ UNCHANGED vars
  BY DEF Next, Act, Beside

\* Nobody hears of an order that is not posted, an approval that was let through names
\* a stage before the last, and whoever tells of a withdrawal has still to carry it out.
THEOREM ShapeHolds == Spec => []Shape
<1>1. Shape /\ [Next]_vars => Shape'
  <2>1. Shape /\ UNCHANGED vars => Shape'
    BY DEF vars, Shape, TypeOK, FlagsFit, ToldBefore, Unheard
  <2> QED
    BY <2>1, NextSplit, ActShape, BesideShape
<1> QED
  BY <1>1, ShapeInit, PTL DEF Spec

-----------------------------------------------------------------------------
(***************************************************************************)
(* What was told of a withdrawal comes true.  While a handler has still to *)
(* write, the row may be anything; the message and the pending write are   *)
(* there together, since one statement pushes and goes on to the write.    *)
(***************************************************************************)
Sent == outbox \union delivered

Writing(h) == handler[h].next \in {"undo", "delete"}

UndoToldComesTrue ==
    restarts = 0 /\ (\E m \in Sent : m.state = "undo") =>
        order.status # "review" \/ \E h \in Handlers : Writing(h)

LEMMA MessageState ==
    ASSUME NEW to, NEW state, NEW row, NEW m \in Mails(to, state, row) \union Hook(state, row)
    PROVE  m.state = state
  BY DEF Mails, Hook

\* A handler that moves without a message and without having been about to write.
LEMMA OthersWrite ==
    ASSUME Shape, NEW h \in Handlers, NEW r, Moves(h, r), ~Writing(h),
           NEW g \in Handlers, Writing(g)
    PROVE  Writing(g)'
  BY DEF Shape, TypeOK, Moves, Writing

LEMMA ActComesTrue ==
    ASSUME Shape, UndoToldComesTrue, NEW h \in Handlers, Act(h)
    PROVE  UndoToldComesTrue'
<1>1. CASE Post(h)
  <2>1. Sent = {} /\ Sent' = {}
    BY <1>1, PostMoves DEF Shape, Unheard, Sent, Post, WriteAndTell
  <2> QED
    BY <2>1 DEF UndoToldComesTrue
<1>2. CASE Agree(h) \/ Undo(h) \/ Withdraw(h)
  <2>1. ~Writing(h)
    BY <1>2, RequestMoves DEF Writing, Idle
  <2>2. \A g \in Handlers : Writing(g) => Writing(g)'
    BY <1>2, <2>1, RequestMoves, OthersWrite
  <2> QED
    BY <1>2, <2>2, RequestMoves DEF UndoToldComesTrue, Sent
<1>3. CASE Advance(h)
  <2>1. ~Writing(h)
    BY <1>3 DEF Writing, Advance
  <2>2. \A g \in Handlers : Writing(g) => Writing(g)'
    BY <1>3, <2>1, AdvanceMoves, OthersWrite
  <2> QED
    BY <1>3, <2>2, AdvanceMoves DEF UndoToldComesTrue, Sent
<1>4. CASE Reject(h) \/ Agreed(h) \/ UndoWrite(h) \/ WithdrawDelete(h)
  BY <1>4, LeaveMoves DEF UndoToldComesTrue
<1>5. CASE Read(h)
  <2>1. ~Writing(h)
    BY <1>5 DEF Writing, Read
  <2>2. \A g \in Handlers : Writing(g) => Writing(g)'
    BY <1>5, <2>1, ReadMoves, OthersWrite
  <2> QED
    BY <1>5, <2>2, ReadMoves DEF UndoToldComesTrue, Sent
<1>6. CASE Push(h)
  <2>1. ~Writing(h)
    BY <1>6, PushMoves DEF Writing
  <2>2. \A g \in Handlers : Writing(g) => Writing(g)'
    BY <1>6, <2>1, PushMoves, OthersWrite
  <2>3. \A m \in Sent' : m \in Sent \/ m.state = handler[h].state
    BY <1>6, PushMoves, MessageState DEF Sent
  <2>4. handler[h].state = "undo" => Writing(h)'
    <3>1. handler[h].state = "undo" => handler[h].after \in {"undo", "delete"}
      BY <1>6, PushMoves DEF Shape, ToldBefore, TypeOK, HandlerType
    <3>2. handler'[h].next = handler[h].after
      BY <1>6, PushMoves DEF Shape, TypeOK, Moves
    <3> QED
      BY <3>1, <3>2 DEF Writing
  <2> QED
    BY <1>6, <2>2, <2>3, <2>4, PushMoves DEF UndoToldComesTrue
<1> QED
  BY <1>1, <1>2, <1>3, <1>4, <1>5, <1>6 DEF Act

LEMMA BesideComesTrue ==
    ASSUME Shape, UndoToldComesTrue, Beside
    PROVE  UndoToldComesTrue'
<1>1. ASSUME NEW m \in outbox, Send(m) \/ Lose(m)
      PROVE  UndoToldComesTrue'
  <2>1. Sent' \subseteq Sent /\ UNCHANGED <<order, handler, restarts>>
    BY <1>1 DEF Sent, Send, Lose
  <2> QED
    BY <2>1 DEF UndoToldComesTrue, Writing
<1>2. CASE BulkDelete \/ EngineRuns
  <2>1. order'.status # "review"
    BY <1>2 DEF Shape, TypeOK, RowType, BulkDelete, EngineRuns
  <2> QED
    BY <2>1 DEF UndoToldComesTrue
<1>3. CASE Restart
  <2>1. restarts' # 0
    BY <1>3 DEF Shape, TypeOK, Restart
  <2> QED
    BY <2>1 DEF UndoToldComesTrue
<1> QED
  BY <1>1, <1>2, <1>3 DEF Beside

\* Whoever was told that an order is withdrawn was told the truth, once the handlers are
\* done and if none of them died: a message goes out only from a handler whose write
\* follows, and no approval brings an order back into review.
THEOREM WithdrawalsComeTrue == Spec => []UndoneIsNotInReview
<1>1. Init => UndoToldComesTrue
  BY DEF Init, UndoToldComesTrue, Sent
<1>2. Shape /\ UndoToldComesTrue /\ [Next]_vars => UndoToldComesTrue'
  <2>1. UndoToldComesTrue /\ UNCHANGED vars => UndoToldComesTrue'
    BY DEF vars, UndoToldComesTrue, Sent, Writing
  <2> QED
    BY <2>1, NextSplit, ActComesTrue, BesideComesTrue
<1>3. UndoToldComesTrue => UndoneIsNotInReview
  BY DEF UndoToldComesTrue, UndoneIsNotInReview, Sent, Quiet, Writing, Idle
<1> QED
  BY <1>1, <1>2, <1>3, ShapeHolds, PTL DEF Spec

-----------------------------------------------------------------------------
(***************************************************************************)
(* The stage an order is at has been announced, or a handler is about to.  *)
(* The last handler to move the order reads it after its own write, so     *)
(* that at any moment it is this handler that still has to tell.           *)
(***************************************************************************)
StateOfStage == IF order.stage = 1 THEN "submit" ELSE "next"

Told ==
    /\ order.assigned # {} /\ order.assigned \subseteq HasMail =>
         \E m \in Sent : /\ m.by = "mail" /\ m.to \in order.assigned
                         /\ m.state = StateOfStage
                         /\ order.stage # 1 => m.names = order.assigned
    /\ Chinese /\ order.text = "plain" => \E m \in Sent : m.by = "hook" /\ m.names = order.assigned

Telling(h) ==
    /\ handler[h].state = StateOfStage
    /\ \/ handler[h].next = "read"
       \/ handler[h].next = "push" /\ handler[h].row = order

StageIsTold ==
    lost = 0 /\ restarts = 0 /\ order.status = "review" => Told \/ \E h \in Handlers : Telling(h)

\* The push of a handler that has read the row as it is tells what Told asks for.
LEMMA PushTells ==
    ASSUME NEW state, state = StateOfStage, NEW to \in Recipients(state, order), Shape,
           Mails(to, state, order) \union Hook(state, order) \subseteq Sent'
    PROVE  UNCHANGED order => Told'
<1>1. state \in {"submit", "next"} /\ (order.stage # 1 => state = "next")
  BY DEF StateOfStage
<1>2. ASSUME order.assigned # {}, order.assigned \subseteq HasMail
      PROVE  \E m \in Sent' : /\ m.by = "mail" /\ m.to \in order.assigned
                              /\ m.state = state
                              /\ order.stage # 1 => m.names = order.assigned
  <2>1. to \in order.assigned /\ to \in HasMail
    BY <1>1, <1>2 DEF Recipients
  <2>2. PICK m : m = [by |-> "mail", to |-> to, state |-> state,
                      names |-> IF state = "next" THEN order.assigned ELSE {}]
    OBVIOUS
  <2>3. m.by = "mail" /\ m.to = to /\ m.state = state /\ (state = "next" => m.names = order.assigned)
    BY <2>2
  <2>4. m \in Sent'
    BY <2>1, <2>2 DEF Mails
  <2> QED
    BY <1>1, <2>1, <2>3, <2>4
<1>3. ASSUME Chinese, order.text = "plain"
      PROVE  \E m \in Sent' : m.by = "hook" /\ m.names = order.assigned
  <2>1. PICK m : m = [by |-> "hook", to |-> None, state |-> state, names |-> Named(state, order)]
    OBVIOUS
  <2>2. m.by = "hook" /\ m.names = order.assigned
    BY <1>1, <1>3, <2>1 DEF Named
  <2>3. m \in Sent'
    BY <2>1 DEF Hook
  <2> QED
    BY <2>2, <2>3
<1> QED
  BY <1>2, <1>3 DEF Told, StateOfStage

\* What was told stays told, and who tells goes on to, while the order stays as it is.
LEMMA ToldStays ==
    ASSUME Told, UNCHANGED order, Sent \subseteq Sent'
    PROVE  Told'
  BY DEF Told, StateOfStage

LEMMA TellingStays ==
    ASSUME Shape, NEW h \in Handlers, NEW r, Moves(h, r), UNCHANGED order,
           NEW g \in Handlers \ {h}, Telling(g)
    PROVE  Telling(g)'
  BY DEF Shape, TypeOK, Moves, Telling, StateOfStage

LEMMA ActTells ==
    ASSUME Shape, StageIsTold, NEW h \in Handlers, Act(h)
    PROVE  StageIsTold'
<1>1. CASE Post(h)
  <2>1. handler'[h].next = "read" /\ handler'[h].state = "submit" /\ order'.stage = 1
    BY <1>1, PostMoves DEF Shape, TypeOK, Moves
  <2> QED
    BY <2>1 DEF StageIsTold, Telling, StateOfStage
<1>2. CASE Agree(h) \/ Undo(h) \/ Withdraw(h)
  <2>1. ~Telling(h)
    BY <1>2, RequestMoves DEF Telling, Idle
  <2>2. \A g \in Handlers : Telling(g) => Telling(g)'
    BY <1>2, <2>1, RequestMoves, TellingStays
  <2>3. Told => Told'
    BY <1>2, RequestMoves, ToldStays DEF Sent
  <2> QED
    BY <1>2, <2>2, <2>3, RequestMoves DEF StageIsTold
<1>3. CASE Advance(h)
  <2>1. handler'[h].next = "read" /\ handler'[h].state = "next"
    BY <1>3, AdvanceMoves DEF Shape, TypeOK, Moves
  <2>2. order'.status = "review" => order'.stage # 1
    BY <1>3, AdvanceMoves DEF InDatabase
  <2> QED
    BY <2>1, <2>2 DEF StageIsTold, Telling, StateOfStage
<1>4. CASE Reject(h) \/ Agreed(h) \/ UndoWrite(h) \/ WithdrawDelete(h)
  BY <1>4, LeaveMoves DEF StageIsTold
<1>5. CASE Read(h)
  <2>1. \A g \in Handlers \ {h} : Telling(g) => Telling(g)'
    BY <1>5, ReadMoves, TellingStays
  <2>2. order.status = "review" /\ Telling(h) => Telling(h)'
    BY <1>5, ReadMoves DEF Shape, TypeOK, Moves, Telling, StateOfStage, InDatabase
  <2>3. Told => Told'
    BY <1>5, ReadMoves, ToldStays DEF Sent
  <2> QED
    BY <1>5, <2>1, <2>2, <2>3, ReadMoves DEF StageIsTold
<1>6. CASE Push(h)
  <2>1. \A g \in Handlers \ {h} : Telling(g) => Telling(g)'
    BY <1>6, PushMoves, TellingStays
  <2>2. Told => Told'
    BY <1>6, PushMoves, ToldStays DEF Sent
  <2>3. Telling(h) => Told'
    <3> SUFFICES ASSUME Telling(h) PROVE Told'
      OBVIOUS
    <3>1. handler[h].row = order /\ handler[h].state = StateOfStage
      BY <1>6, PushMoves DEF Telling
    <3>2. PICK to \in Recipients(handler[h].state, handler[h].row) :
             outbox' = outbox \union Mails(to, handler[h].state, handler[h].row)
                              \union Hook(handler[h].state, handler[h].row)
      BY <1>6, PushMoves
    <3>3. PICK state : state = handler[h].state
      OBVIOUS
    <3>4. Mails(to, state, order) \union Hook(state, order) \subseteq Sent'
      BY <3>1, <3>2, <3>3 DEF Sent
    <3> QED
      BY <1>6, <3>1, <3>2, <3>3, <3>4, PushMoves, PushTells
  <2> QED
    BY <1>6, <2>1, <2>2, <2>3, PushMoves DEF StageIsTold
<1> QED
  BY <1>1, <1>2, <1>3, <1>4, <1>5, <1>6 DEF Act

LEMMA BesideTells ==
    ASSUME Shape, StageIsTold, Beside
    PROVE  StageIsTold'
<1>1. ASSUME NEW m \in outbox, Send(m)
      PROVE  StageIsTold'
  <2>1. Sent' = Sent /\ UNCHANGED <<order, handler, lost, restarts>>
    BY <1>1 DEF Sent, Send
  <2> QED
    BY <2>1, ToldStays DEF StageIsTold, Telling, StateOfStage
<1>2. ASSUME NEW m \in outbox, Lose(m)
      PROVE  StageIsTold'
  <2>1. lost' # 0
    BY <1>2 DEF Shape, TypeOK, Lose
  <2> QED
    BY <2>1 DEF StageIsTold
<1>3. CASE BulkDelete \/ EngineRuns
  <2>1. order'.status # "review"
    BY <1>3 DEF Shape, TypeOK, RowType, BulkDelete, EngineRuns
  <2> QED
    BY <2>1 DEF StageIsTold
<1>4. CASE Restart
  <2>1. restarts' # 0
    BY <1>4 DEF Shape, TypeOK, Restart
  <2> QED
    BY <2>1 DEF StageIsTold
<1> QED
  BY <1>1, <1>2, <1>3, <1>4 DEF Beside

\* However late, repeated or interleaved the approvals: when the handlers have finished and
\* no send failed, the auditors of the stage an order in review is at have been told of it,
\* by a mail to one of them and by name in the chat.
THEOREM StagesAnnounced == Spec => []StageIsAnnounced
<1>1. Init => StageIsTold
  BY DEF Init, StageIsTold, NoRow
<1>2. Shape /\ StageIsTold /\ [Next]_vars => StageIsTold'
  <2>1. StageIsTold /\ UNCHANGED vars => StageIsTold'
    BY DEF vars, StageIsTold, Told, Sent, Telling, StateOfStage
  <2> QED
    BY <2>1, NextSplit, ActTells, BesideTells
<1>3. StageIsTold => StageIsAnnounced
  <2> SUFFICES ASSUME StageIsTold, Quiet, outbox = {}, lost = 0, restarts = 0, order.status = "review"
               PROVE  StageIsAnnounced
    BY DEF StageIsAnnounced
  <2>1. \A h \in Handlers : ~Telling(h)
    BY DEF Quiet, Telling, Idle
  <2>2. Told
    BY <2>1 DEF StageIsTold
  <2>3. Sent = delivered
    BY DEF Sent
  <2> QED
    BY <2>2, <2>3 DEF Told, StateOfStage, StageIsAnnounced
<1> QED
  BY <1>1, <1>2, <1>3, ShapeHolds, PTL DEF Spec
=============================================================================
