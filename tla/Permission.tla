----------------------------- MODULE Permission -----------------------------
(***************************************************************************)
(* Permission groups: core_role_groups (what a group may do with which     *)
(* sources), core_graineds (which groups a user is in) and the sources     *)
(* they name.  Administrators edit groups and memberships; the clean-ups   *)
(* after a deletion or an edit read many rows, change the copies in memory *)
(* and write them back row by row, next to those edits.                    *)
(*                                                                         *)
(* One action is one statement of MySQL, one transaction, or one goroutine *)
(* with one statement.  Group ids and source ids are uuids: a new row has  *)
(* an id that no row had before.  The JSON list of a user's groups is a    *)
(* sequence, because ArrayRemove works by index; the lists of sources are  *)
(* sets, because MultiArrayRemove takes out every occurrence and readers   *)
(* go through mapset.                                                      *)
(***************************************************************************)
EXTENDS Integers, Sequences, FiniteSets

CONSTANTS
    Users,
    GroupIds,         \* the uuids that groups will get
    SourceIds,        \* the uuids that sources will get
    SourceName,       \* the column source: a name typed by an administrator
    PermissionLists,  \* the lists administrators tick for a group
    Memberships,      \* the lists of groups administrators tick for a user
    Handlers,         \* request goroutines that run a clean-up
    MaxRequests,      \* bound on the requests of a behaviour
    MaxRestarts,      \* bound on the restarts of the process
    None

\* vars.go: DDL, DML, QUERY; PermissionList: ddl_source, dml_source, query_source.
Kinds == {"ddl", "dml", "query"}
PermissionList == [Kinds -> SUBSET SourceIds]

\* The column is_query: 0, 1, 2 (modal.go:122).
IsQuery == {"write", "read", "both"}

ASSUME PermissionAssumption ==
    /\ PermissionLists \subseteq PermissionList
    /\ Memberships \subseteq Seq(GroupIds)
    /\ None \notin PermissionList
    /\ MaxRequests \in Nat
    /\ MaxRestarts \in Nat

VARIABLES
    groups,    \* group id -> its permissions, or None when there is no row
    grained,   \* user -> the groups of its row in core_graineds
    sources,   \* source id -> is_query of its row, "unused" or "gone"
    job,       \* request goroutine -> the clean-up it runs
    requests,
    restarts,
    cleared,   \* history: groups whose row SuperClearUserRule has deleted
    given,     \* history: the permissions <<g, k, s>> an administrator has saved
    joined     \* history: the memberships <<u, g>> an administrator has saved

vars == <<groups, grained, sources, job, requests, restarts, cleared, given, joined>>

-----------------------------------------------------------------------------
(* The list helpers of lib/factory. *)

DropAt(q, i) == SubSeq(q, 1, i - 1) \o SubSeq(q, i + 1, Len(q))

\* Mutant: the index of the next child is removed.
ArrayRemoveNext(q, flag) ==
    LET step[i \in 0 .. Len(q)] ==
          IF i = 0 THEN q
          ELSE IF q[i] = flag /\ i < Len(step[i - 1]) THEN DropAt(step[i - 1], i + 1)
          ELSE step[i - 1]
    IN step[Len(q)]

\* Mutant: the element is set to null instead of being taken out.
ArrayRemoveNull(q, flag) == [i \in DOMAIN q |-> IF q[i] = flag THEN None ELSE q[i]]

\* The loop runs over the children as they were, and removes from the list as
\* it has become; an index past its end is refused by gabs and ignored.
ArrayRemove(q, flag) ==
    LET step[i \in 0 .. Len(q)] ==
          IF i = 0 THEN q
          ELSE IF q[i] = flag /\ i <= Len(step[i - 1]) THEN DropAt(step[i - 1], i)
          ELSE step[i - 1]
    IN step[Len(q)]

\* Mutant: dml_source is left out of the lists to clean.
MultiArrayRemoveTwo(p, flag) == [p EXCEPT !.ddl = @ \ {flag}, !.query = @ \ {flag}]

\* The outcome when the three goroutines do not collide (see ConcurrentMapWrite).
MultiArrayRemove(p, flag) == [k \in Kinds |-> p[k] \ {flag}]

\* SuperEditSource takes the source's name out of lists that hold ids.
RemoveString(list, name) == list \ {name}

\* Mutant: p.QuerySource = RemoveString(p.DDLSource, ...).
RestrictKindsCopied(p, is_query, name) ==
    IF is_query = "write" THEN [p EXCEPT !.query = RemoveString(p["ddl"], name)] ELSE p

RestrictKinds(p, is_query, name) ==
    [k \in Kinds |->
        IF (is_query = "write" /\ k = "query") \/ (is_query = "read" /\ k # "query")
        THEN RemoveString(p[k], name) ELSE p[k]]

-----------------------------------------------------------------------------
(* lib/permission: what a user may do now. *)

GroupsOf(u) == {grained[u][i] : i \in DOMAIN grained[u]}

\* A group without a row is skipped.
CreatePermissionListFromGroups(gs) ==
    [k \in Kinds |-> UNION {groups[g][k] : g \in {x \in gs : groups[x] # None}}]

Equal(u, k, s) == s \in CreatePermissionListFromGroups(GroupsOf(u))[k]

-----------------------------------------------------------------------------
(* Clean-ups that are under way: what they have read and still have to write. *)

Idle == [pc |-> "idle"]
Copy == [GroupIds -> PermissionList \union {None}]
JobType ==
    {Idle}
    \union [pc : {"clear"}, group : GroupIds, seen : [Users -> Seq(GroupIds)],
            left : SUBSET Users, deleting : BOOLEAN]
    \union [pc : {"delete"}, source : SourceIds, copy : Copy]
    \union [pc : {"saved"}, source : SourceIds, is_query : IsQuery]
    \union [pc : {"edit"}, source : SourceIds, is_query : IsQuery, copy : Copy, left : SUBSET GroupIds]

Rows == {g \in GroupIds : groups[g] # None}
Live == {s \in SourceIds : sources[s] \in IsQuery}

Request == requests < MaxRequests /\ requests' = requests + 1

Init ==
    /\ groups = [g \in GroupIds |-> None]
    /\ grained = [u \in Users |-> <<>>]
    /\ sources = [s \in SourceIds |-> "unused"]
    /\ job = [h \in Handlers |-> Idle]
    /\ requests = 0
    /\ restarts = 0
    /\ cleared = {}
    /\ given = {}
    /\ joined = {}

Saved(g, p) == {x \in {g} \X Kinds \X SourceIds : x[3] \in p[x[2]]}

(* Administrators. *)

\* The page offers sources that can be written for ddl and dml, and sources that
\* can be read for query; it may be older than the deletion of a source.
MayTick(p) ==
    \A k \in Kinds : \A s \in p[k] :
        sources[s] = "gone" \/ (s \in Live /\ sources[s] # (IF k = "query" THEN "write" ELSE "read"))

CreateGroup(g, p) ==
    /\ Request
    /\ groups[g] = None /\ g \notin cleared
    /\ MayTick(p)
    /\ groups' = [groups EXCEPT ![g] = p]
    /\ given' = given \union Saved(g, p)
    /\ UNCHANGED <<grained, sources, job, restarts, cleared, joined>>

\* An UPDATE by the row's id: of a group that is gone it changes nothing.
UpdateGroup(g, p) ==
    /\ Request
    /\ groups[g] # None
    /\ MayTick(p)
    /\ groups' = [groups EXCEPT ![g] = p]
    /\ given' = given \union Saved(g, p)
    /\ UNCHANGED <<grained, sources, job, restarts, cleared, joined>>

\* ManageUserCreateOrEdit, "policy": the whole list is replaced by the ticked one,
\* which may name a group that was deleted after the page was loaded.
Policy(u, list) ==
    /\ Request
    /\ \A i \in DOMAIN list : groups[list[i]] # None \/ list[i] \in cleared
    /\ grained' = [grained EXCEPT ![u] = list]
    /\ joined' = joined \union {<<u, list[i]>> : i \in DOMAIN list}
    /\ UNCHANGED <<groups, sources, job, restarts, cleared, given>>

SuperCreateSource(s, is_query) ==
    /\ Request
    /\ sources[s] = "unused"
    /\ sources' = [sources EXCEPT ![s] = is_query]
    /\ UNCHANGED <<groups, grained, job, restarts, cleared, given, joined>>

(* SuperClearUserRule: read the users whose list contains the id, start a      *)
(* goroutine per user that writes the list computed from what was read, delete *)
(* the group.                                                                  *)

ClearLook(h, g) ==
    /\ Request
    /\ job[h] = Idle
    /\ groups[g] # None
    /\ job' = [job EXCEPT ![h] =
                [pc |-> "clear", group |-> g, seen |-> grained,
                 left |-> {u \in Users : g \in GroupsOf(u)}, deleting |-> TRUE]]
    /\ UNCHANGED <<groups, grained, sources, restarts, cleared, given, joined>>

ClearWrite(h, u) ==
    /\ job[h].pc = "clear"
    /\ u \in job[h].left
    /\ grained' = [grained EXCEPT ![u] = ArrayRemove(job[h].seen[u], job[h].group)]
    /\ job' = [job EXCEPT ![h].left = @ \ {u}]
    /\ UNCHANGED <<groups, sources, requests, restarts, cleared, given, joined>>

ClearDelete(h) ==
    /\ job[h].pc = "clear"
    /\ job[h].deleting
    /\ groups' = [groups EXCEPT ![job[h].group] = None]
    /\ cleared' = cleared \union {job[h].group}
    /\ job' = [job EXCEPT ![h].deleting = FALSE]
    /\ UNCHANGED <<grained, sources, requests, restarts, given, joined>>

(* SuperDeleteSource: read all groups, then one transaction that deletes the   *)
(* source and writes the copies without it.  The transaction locks the rows it *)
(* writes, so others see all of it or nothing, at its commit.                  *)

DeleteLook(h, s) ==
    /\ Request
    /\ job[h] = Idle
    /\ sources[s] # "unused"
    /\ job' = [job EXCEPT ![h] = [pc |-> "delete", source |-> s, copy |-> groups]]
    /\ UNCHANGED <<groups, grained, sources, restarts, cleared, given, joined>>

\* An UPDATE WHERE id = ? of each group that was read; a row that has gone since
\* is not there to be updated, a row that has come since is not touched.
WriteCopy(copy, s) ==
    [g \in GroupIds |->
        IF groups[g] # None /\ copy[g] # None THEN MultiArrayRemove(copy[g], s) ELSE groups[g]]

DeleteCommit(h) ==
    /\ job[h].pc = "delete"
    /\ sources' = [sources EXCEPT ![job[h].source] = "gone"]
    /\ groups' = WriteCopy(job[h].copy, job[h].source)
    /\ job' = [job EXCEPT ![h] = Idle]
    /\ UNCHANGED <<grained, requests, restarts, cleared, given, joined>>

\* A statement fails (a lock timeout): Rollback, and every later statement of the
\* loop, and the Commit, find the transaction finished.  Nothing is changed.
DeleteFail(h) ==
    /\ job[h].pc = "delete"
    /\ job' = [job EXCEPT ![h] = Idle]
    /\ UNCHANGED <<groups, grained, sources, requests, restarts, cleared, given, joined>>

(* SuperEditSource: an UPDATE of the row, which is not there when the source   *)
(* has been deleted since the page was loaded (and of its pending query        *)
(* orders); then all groups are read, and every one of them is written back.   *)

EditSource(h, s, is_query) ==
    /\ Request
    /\ job[h] = Idle
    /\ sources[s] # "unused"
    /\ sources' = IF s \in Live THEN [sources EXCEPT ![s] = is_query] ELSE sources
    /\ job' = [job EXCEPT ![h] = [pc |-> "saved", source |-> s, is_query |-> is_query]]
    /\ UNCHANGED <<groups, grained, restarts, cleared, given, joined>>

EditLook(h) ==
    /\ job[h].pc = "saved"
    /\ job' = [job EXCEPT ![h] = [pc |-> "edit", source |-> job[h].source, is_query |-> job[h].is_query,
                                  copy |-> groups, left |-> Rows]]
    /\ UNCHANGED <<groups, grained, sources, requests, restarts, cleared, given, joined>>

\* Mutant: the UPDATE lacks its condition on the id.
EditWriteAll(h, g) ==
    /\ job[h].pc = "edit"
    /\ g \in job[h].left
    /\ groups' = [x \in GroupIds |-> IF groups[x] = None THEN None ELSE job[h].copy[g]]
    /\ job' = [job EXCEPT ![h].left = @ \ {g}]
    /\ UNCHANGED <<grained, sources, requests, restarts, cleared, given, joined>>

EditWrite(h, g) ==
    /\ job[h].pc = "edit"
    /\ g \in job[h].left
    /\ groups' = [groups EXCEPT ![g] =
                    IF @ = None THEN None
                    ELSE RestrictKinds(job[h].copy[g], job[h].is_query, SourceName[job[h].source])]
    /\ job' = [job EXCEPT ![h].left = @ \ {g}]
    /\ UNCHANGED <<grained, sources, requests, restarts, cleared, given, joined>>

Reply(h) ==
    /\ \/ job[h].pc = "clear" /\ ~job[h].deleting
       \/ job[h].pc = "edit"
    /\ job[h].left = {}
    /\ job' = [job EXCEPT ![h] = Idle]
    /\ UNCHANGED <<groups, grained, sources, requests, restarts, cleared, given, joined>>

(* The process stops: the connection's transaction is rolled back, goroutines  *)
(* are gone.                                                                   *)
Stop ==
    /\ restarts < MaxRestarts
    /\ restarts' = restarts + 1
    /\ job' = [h \in Handlers |-> Idle]
    /\ UNCHANGED <<groups, grained, sources, requests, cleared, given, joined>>

\* MultiArrayRemove lets three goroutines read and write one Go map without a
\* lock: when one of them removes something the runtime may abort the process.
ConcurrentMapWrite(h) ==
    /\ job[h].pc = "delete"
    /\ \E g \in GroupIds : job[h].copy[g] # None /\ \E k \in Kinds : job[h].source \in job[h].copy[g][k]
    /\ Stop

\* The goroutines of a clean-up outlive the reply, but not the process; Reply is
\* the end of the last of them.
Administrator ==
    \/ \E g \in GroupIds, p \in PermissionLists : CreateGroup(g, p) \/ UpdateGroup(g, p)
    \/ \E u \in Users, list \in Memberships : Policy(u, list)

Cleanup(h) ==
    \/ \E u \in Users : ClearWrite(h, u)
    \/ ClearDelete(h)
    \/ DeleteCommit(h)
    \/ DeleteFail(h)
    \/ \E g \in GroupIds : EditWrite(h, g)
    \/ Reply(h)

ManageDBCreateOrEdit ==
    \E s \in SourceIds, q \in IsQuery :
        SuperCreateSource(s, q) \/ \E h \in Handlers : EditSource(h, s, q)

Next ==
    \/ Administrator
    \/ ManageDBCreateOrEdit
    \/ \E h \in Handlers :
        \/ \E g \in GroupIds : ClearLook(h, g)
        \/ \E s \in SourceIds : DeleteLook(h, s)
        \/ EditLook(h)
        \/ Cleanup(h)
        \/ ConcurrentMapWrite(h)
    \/ Stop

Spec == Init /\ [][Next]_vars

\* A clean-up that was started goes on: its goroutine is scheduled and MySQL answers.
FairSpec == Spec /\ \A h \in Handlers : WF_vars(Cleanup(h))

-----------------------------------------------------------------------------
(* Properties. *)

\* Every variable keeps its type; a clean-up's copies are lists of the table.
TypeOK ==
    /\ groups \in Copy
    /\ grained \in [Users -> Seq(GroupIds)]
    /\ sources \in [SourceIds -> IsQuery \union {"unused", "gone"}]
    /\ job \in [Handlers -> JobType]
    /\ requests \in 0 .. MaxRequests
    /\ restarts \in 0 .. MaxRestarts
    /\ cleared \subseteq GroupIds
    /\ given \subseteq GroupIds \X Kinds \X SourceIds
    /\ joined \subseteq Users \X GroupIds

\* Whatever the clean-ups write back, and in whatever order: what Equal lets a
\* user do goes through a membership and a permission that an administrator saved.
PermissionsWereGiven ==
    \A u \in Users, k \in Kinds, s \in SourceIds :
        Equal(u, k, s) => \E g \in GroupIds : <<u, g>> \in joined /\ <<g, k, s>> \in given

\* When the transaction of SuperDeleteSource commits, no group it has read names the
\* source any more, whatever was saved in those groups since it read them.
DeletionReachesGroups ==
    [][\A h \in Handlers :
        (/\ job[h].pc = "delete" /\ job'[h] = Idle
         /\ sources[job[h].source] # "gone" /\ sources'[job[h].source] = "gone")
            => \A g \in Rows, k \in Kinds :
                 job[h].copy[g] # None => job[h].source \notin groups'[g][k]]_vars

\* What the copies of a clean-up show of a user's permissions.
CopyShows(h, u, k, s) ==
    \/ /\ job[h].pc = "clear"
       /\ \E i \in DOMAIN job[h].seen[u] :
            groups[job[h].seen[u][i]] # None /\ s \in groups[job[h].seen[u][i]][k]
    \/ /\ job[h].pc \in {"delete", "edit"}
       /\ \E g \in GroupsOf(u) : job[h].copy[g] # None /\ s \in job[h].copy[g][k]

\* Clean-ups write stale copies, so they can undo an administrator's edit: a
\* permission that was withdrawn while one is under way may come back.  That is the
\* only way: a user gains a permission by an administrator's save, or by the write
\* of a clean-up that had read it before it was withdrawn.
ComesBackOnlyFromACopy ==
    [][\A u \in Users, k \in Kinds, s \in SourceIds :
        (~Equal(u, k, s) /\ Equal(u, k, s)') =>
            Administrator \/ \E h \in Handlers : CopyShows(h, u, k, s)]_vars

Occurrences(list, g) == Cardinality({i \in DOMAIN list : list[i] = g})

\* SuperClearUserRule answers before its goroutines have written; unless the process
\* stops first, each of them leaves the group fewer times in its user's list than it
\* was read there.  So it is gone where the list named it once; Policy prevents no
\* repetition, and then ArrayRemove, whose indices have shifted, may leave some.
ClearReachesUsers ==
    \A u \in Users, g \in GroupIds :
        \A n \in {Occurrences(list, g) : list \in Memberships} \ {0} :
            (\E h \in Handlers :
                /\ job[h].pc = "clear" /\ job[h].group = g /\ u \in job[h].left
                /\ Occurrences(job[h].seen[u], g) = n)
            ~> (Occurrences(grained[u], g) < n \/ restarts > 0)
=============================================================================
