------------------------- MODULE PermissionProofs -------------------------
(***************************************************************************)
(* Proofs about Permission: its types, that nobody has a permission which  *)
(* no administrator gave, where a withdrawn permission can come back from, *)
(* and that the deletion of a source reaches the groups it has read.       *)
(***************************************************************************)
EXTENDS Permission, WellFoundedInduction, TLAPS

-----------------------------------------------------------------------------
(***************************************************************************)
(* ArrayRemove.  Its loop is a recursive function: that there is one, and  *)
(* what its values are, follows from the least number that refutes it.     *)
(***************************************************************************)

\* A set of numbers has a least one.
LEMMA LeastNumber ==
    ASSUME NEW T \in SUBSET Nat, T # {}
    PROVE  \E n \in T : \A m \in T : ~(m < n)
<1> DEFINE R == {p \in Nat \X Nat : p[1] < p[2]}
<1>1. IsWellFoundedOn(R, Nat)
  <2>1. SUFFICES ASSUME NEW f \in [Nat -> Nat], \A n \in Nat : <<f[n + 1], f[n]>> \in R
                 PROVE  FALSE
    BY DEF IsWellFoundedOn
  <2> QED
    BY <2>1, NatLessThanWellFounded DEF IsWellFoundedOn, OpToRel
<1>2. PICK n \in T : \A m \in T : <<m, n>> \notin R
  <2> HIDE DEF R
  <2> QED
    BY <1>1, WFMin
<1> QED
  BY <1>2

\* Taking an element out of a list leaves a list.
LEMMA DropAtType ==
    ASSUME NEW S, NEW q \in Seq(S), NEW i \in 1 .. Len(q)
    PROVE  DropAt(q, i) \in Seq(S)
<1>1. SubSeq(q, 1, i - 1) \in Seq(S) /\ SubSeq(q, i + 1, Len(q)) \in Seq(S)
  OBVIOUS
<1> QED
  BY <1>1 DEF DropAt

\* What ArrayRemove leaves of a list has no element that was not in the list.
LEMMA ArrayRemoveType ==
    ASSUME NEW S, NEW q \in Seq(S), NEW flag
    PROVE  ArrayRemove(q, flag) \in Seq(S)
<1> DEFINE N       == Len(q)
           Go(p, i) == IF q[i] = flag /\ i <= Len(p) THEN DropAt(p, i) ELSE p
           Run(f, n) == /\ f \in [0 .. n -> Seq(S)]
                        /\ f[0] = q
                        /\ \A i \in 1 .. n : f[i] = Go(f[i - 1], i)
<1>1. N \in Nat
  OBVIOUS
<1>2. ASSUME NEW p \in Seq(S), NEW i \in 1 .. N
      PROVE  Go(p, i) \in Seq(S)
  <2>1. CASE q[i] = flag /\ i <= Len(p)
    <3>1. i \in 1 .. Len(p)
      BY <2>1, <1>1
    <3> QED
      BY <3>1, <2>1, DropAtType
  <2>2. CASE ~(q[i] = flag /\ i <= Len(p))
    BY <2>2
  <2> QED
    BY <2>1, <2>2
<1>3. \E f : Run(f, N)
  <2> DEFINE Short == {n \in 0 .. N : ~ \E f : Run(f, n)}
  <2>1. SUFFICES ASSUME Short # {}
                 PROVE  FALSE
    BY <1>1
  <2>2. PICK n \in Short : \A m \in Short : ~(m < n)
    <3>1. Short \in SUBSET Nat
      BY <1>1
    <3> HIDE DEF Short
    <3> QED
      BY <3>1, <2>1, LeastNumber
  <2>3. n # 0
    <3>1. Run([i \in 0 .. 0 |-> q], 0)
      OBVIOUS
    <3> QED
      BY <3>1, <2>2
  <2>4. PICK f : Run(f, n - 1)
    <3>1. n - 1 \in 0 .. N /\ n - 1 < n
      BY <2>2, <2>3, <1>1
    <3>2. n - 1 \notin Short
      <4> HIDE DEF Short
      <4> QED
        BY <3>1, <2>2
    <3> HIDE DEF Run
    <3> QED
      BY <3>1, <3>2
  <2> DEFINE g == [i \in 0 .. n |-> IF i = n THEN Go(f[n - 1], n) ELSE f[i]]
  <2>5. n \in 1 .. N /\ n - 1 \in 0 .. n - 1
    BY <2>2, <2>3, <1>1
  <2>6. f[n - 1] \in Seq(S)
    BY <2>4, <2>5
  <2>7. Go(f[n - 1], n) \in Seq(S)
    BY <2>6, <2>5, <1>2
  <2> HIDE DEF Go
  <2>8. g \in [0 .. n -> Seq(S)]
    BY <2>4, <2>5, <2>7
  <2>9. g[0] = q
    BY <2>4, <2>5
  <2>10. ASSUME NEW i \in 1 .. n
         PROVE  g[i] = Go(g[i - 1], i)
    <3>1. g[i - 1] = f[i - 1]
      BY <2>5
    <3>2. CASE i = n
      BY <3>1, <3>2, <2>5
    <3>3. CASE i # n
      <4>1. i \in 1 .. n - 1
        BY <3>3, <2>5
      <4> QED
        BY <4>1, <3>1, <3>3, <2>4
    <3> QED
      BY <3>2, <3>3
  <2> QED
    BY <2>8, <2>9, <2>10, <2>2
<1>4. PICK f : Run(f, N)
  BY <1>3
<1> DEFINE Loop(g) == g = [i \in 0 .. N |->
                        IF i = 0 THEN q
                        ELSE IF q[i] = flag /\ i <= Len(g[i - 1]) THEN DropAt(g[i - 1], i)
                        ELSE g[i - 1]]
           step == CHOOSE g : Loop(g)
<1>5. Loop(f)
  BY <1>4, <1>1
<1>6. Loop(step)
  BY <1>5
<1>7. step[0] = q /\ \A i \in 1 .. N : step[i] = Go(step[i - 1], i)
  <2> HIDE DEF step
  <2>1. step[0] = q
    BY <1>6, <1>1
  <2>2. ASSUME NEW i \in 1 .. N
        PROVE  step[i] = Go(step[i - 1], i)
    <3>1. i \in 0 .. N /\ i # 0
      BY <1>1
    <3> QED
      BY <3>1, <1>6
  <2> HIDE DEF Go
  <2> QED
    BY <2>1, <2>2
<1>8. \A i \in 0 .. N : step[i] \in Seq(S)
  <2> DEFINE Bad == {i \in 0 .. N : step[i] \notin Seq(S)}
  <2> HIDE DEF step
  <2>1. SUFFICES ASSUME Bad # {}
                 PROVE  FALSE
    OBVIOUS
  <2>2. PICK n \in Bad : \A m \in Bad : ~(m < n)
    <3>1. Bad \in SUBSET Nat
      BY <1>1
    <3> HIDE DEF Bad
    <3> QED
      BY <3>1, <2>1, LeastNumber
  <2>3. n \in 1 .. N
    BY <2>2, <1>7, <1>1
  <2>4. step[n - 1] \in Seq(S)
    BY <2>2, <2>3, <1>1
  <2> QED
    BY <2>2, <2>3, <2>4, <1>2, <1>7
<1>9. ArrayRemove(q, flag) = step[N]
  BY DEF ArrayRemove
<1> QED
  BY <1>8, <1>9, <1>1

-----------------------------------------------------------------------------
(***************************************************************************)
(* Types.  They are not inductive alone: an edit of a source writes back   *)
(* what it has read of a group, which is a list only because it writes the *)
(* groups that had a row.                                                  *)
(***************************************************************************)

LeftIsCopied ==
    \A h \in Handlers : job[h].pc = "edit" => \A g \in job[h].left : job[h].copy[g] # None

\* The clean-ups of a source leave lists of the table.
LEMMA ListTypes ==
    ASSUME NEW p \in PermissionList, NEW flag, NEW is_query
    PROVE  MultiArrayRemove(p, flag) \in PermissionList /\ RestrictKinds(p, is_query, flag) \in PermissionList
  BY DEF MultiArrayRemove, RestrictKinds, RemoveString, PermissionList

\* What a clean-up holds.
LEMMA JobFields ==
    ASSUME TypeOK, NEW h \in Handlers
    PROVE  /\ job[h].pc = "clear" =>
                /\ job[h].group \in GroupIds /\ job[h].seen \in [Users -> Seq(GroupIds)]
                /\ job[h].left \in SUBSET Users /\ job[h].deleting \in BOOLEAN
           /\ job[h].pc = "delete" => job[h].source \in SourceIds /\ job[h].copy \in Copy
           /\ job[h].pc = "saved" => job[h].source \in SourceIds /\ job[h].is_query \in IsQuery
           /\ job[h].pc = "edit" =>
                /\ job[h].source \in SourceIds /\ job[h].is_query \in IsQuery
                /\ job[h].copy \in Copy /\ job[h].left \in SUBSET GroupIds
<1>1. job[h] \in JobType
  BY DEF TypeOK
<1> QED
  BY <1>1 DEF JobType, Idle

\* A clean-up of a group, or an edit of a source, with something else left to do.
LEMMA ClearJob ==
    ASSUME TypeOK, NEW h \in Handlers, job[h].pc = "clear"
    PROVE  /\ \A left \in SUBSET Users : [job[h] EXCEPT !.left = left] \in JobType
           /\ [job[h] EXCEPT !.deleting = FALSE] \in JobType
<1> DEFINE Clear == [pc : {"clear"}, group : GroupIds, seen : [Users -> Seq(GroupIds)],
                     left : SUBSET Users, deleting : BOOLEAN]
<1>1. job[h] \in Clear
  BY DEF TypeOK, JobType, Idle
<1>2. \A j \in Clear :
        /\ \A left \in SUBSET Users : [j EXCEPT !.left = left] \in Clear
        /\ [j EXCEPT !.deleting = FALSE] \in Clear
  OBVIOUS
<1>3. Clear \subseteq JobType
  BY DEF JobType
<1> HIDE DEF Clear
<1> QED
  BY <1>1, <1>2, <1>3

LEMMA EditJob ==
    ASSUME TypeOK, NEW h \in Handlers, job[h].pc = "edit"
    PROVE  \A left \in SUBSET GroupIds : [job[h] EXCEPT !.left = left] \in JobType
<1> DEFINE Edit == [pc : {"edit"}, source : SourceIds, is_query : IsQuery, copy : Copy,
                    left : SUBSET GroupIds]
<1>1. job[h] \in Edit
  BY DEF TypeOK, JobType, Idle
<1>2. \A j \in Edit : \A left \in SUBSET GroupIds : [j EXCEPT !.left = left] \in Edit
  OBVIOUS
<1>3. Edit \subseteq JobType
  BY DEF JobType
<1> HIDE DEF Edit
<1> QED
  BY <1>1, <1>2, <1>3

\* An administrator's save keeps the types.
LEMMA AdministratorTypes ==
    ASSUME TypeOK, Administrator
    PROVE  TypeOK'
<1> USE PermissionAssumption DEF Request
<1>1. ASSUME NEW g \in GroupIds, NEW p \in PermissionLists, CreateGroup(g, p) \/ UpdateGroup(g, p)
      PROVE  TypeOK'
  <2>1. p \in PermissionList /\ Saved(g, p) \subseteq GroupIds \X Kinds \X SourceIds
    BY DEF Saved
  <2>2. groups' \in Copy
    BY <1>1, <2>1 DEF CreateGroup, UpdateGroup, TypeOK, Copy
  <2> QED
    BY <1>1, <2>1, <2>2 DEF CreateGroup, UpdateGroup, TypeOK
<1>2. ASSUME NEW u \in Users, NEW list \in Memberships, Policy(u, list)
      PROVE  TypeOK'
  <2>1. list \in Seq(GroupIds) /\ \A i \in DOMAIN list : list[i] \in GroupIds
    OBVIOUS
  <2> QED
    BY <1>2, <2>1 DEF Policy, TypeOK
<1> QED
  BY <1>1, <1>2 DEF Administrator

\* The first statement of a clean-up, and a new source, keep the types.
LEMMA LookTypes ==
    ASSUME TypeOK
    PROVE  /\ \A s \in SourceIds, q \in IsQuery : SuperCreateSource(s, q) => TypeOK'
           /\ \A h \in Handlers, s \in SourceIds, q \in IsQuery : EditSource(h, s, q) => TypeOK'
           /\ \A h \in Handlers : EditLook(h) => TypeOK'
           /\ \A h \in Handlers, g \in GroupIds : ClearLook(h, g) => TypeOK'
           /\ \A h \in Handlers, s \in SourceIds : DeleteLook(h, s) => TypeOK'
<1> USE PermissionAssumption DEF Request
<1>1. ASSUME NEW s \in SourceIds, NEW q \in IsQuery, SuperCreateSource(s, q)
      PROVE  TypeOK'
  BY <1>1 DEF SuperCreateSource, TypeOK
<1>2. ASSUME NEW h \in Handlers, NEW s \in SourceIds, NEW q \in IsQuery, EditSource(h, s, q)
      PROVE  TypeOK'
  <2>1. [pc |-> "saved", source |-> s, is_query |-> q] \in JobType
    BY DEF JobType
  <2> QED
    BY <1>2, <2>1 DEF EditSource, TypeOK
<1>3. ASSUME NEW h \in Handlers, NEW g \in GroupIds, ClearLook(h, g)
      PROVE  TypeOK'
  <2>1. [pc |-> "clear", group |-> g, seen |-> grained,
         left |-> {u \in Users : g \in GroupsOf(u)}, deleting |-> TRUE] \in JobType
    BY DEF JobType, TypeOK
  <2> QED
    BY <1>3, <2>1 DEF ClearLook, TypeOK
<1>4. ASSUME NEW h \in Handlers, NEW s \in SourceIds, DeleteLook(h, s)
      PROVE  TypeOK'
  <2>1. [pc |-> "delete", source |-> s, copy |-> groups] \in JobType
    BY DEF JobType, TypeOK
  <2> QED
    BY <1>4, <2>1 DEF DeleteLook, TypeOK
<1>5. ASSUME NEW h \in Handlers, EditLook(h)
      PROVE  TypeOK'
  <2>1. job[h].source \in SourceIds /\ job[h].is_query \in IsQuery
    BY <1>5, JobFields DEF EditLook
  <2>2. [pc |-> "edit", source |-> job[h].source, is_query |-> job[h].is_query,
         copy |-> groups, left |-> Rows] \in JobType
    BY <2>1 DEF JobType, TypeOK, Rows
  <2> QED
    BY <1>5, <2>2 DEF EditLook, TypeOK
<1> QED
  BY <1>1, <1>2, <1>3, <1>4, <1>5

\* The later statements of a clean-up keep the types.
LEMMA CleanupTypes ==
    ASSUME TypeOK, LeftIsCopied, NEW h \in Handlers, Cleanup(h)
    PROVE  TypeOK'
<1>1. Idle \in JobType
  BY DEF JobType
<1>2. ASSUME NEW u \in Users, ClearWrite(h, u)
      PROVE  TypeOK'
  <2>1. job[h].pc = "clear" /\ job[h].seen[u] \in Seq(GroupIds)
    BY <1>2, JobFields DEF ClearWrite
  <2>2. ArrayRemove(job[h].seen[u], job[h].group) \in Seq(GroupIds)
    BY <2>1, ArrayRemoveType
  <2>3. [job[h] EXCEPT !.left = @ \ {u}] \in JobType
    <3>1. job[h].left \ {u} \in SUBSET Users
      BY <2>1, JobFields
    <3> QED
      BY <2>1, <3>1, ClearJob
  <2> QED
    BY <1>2, <2>2, <2>3 DEF ClearWrite, TypeOK
<1>3. CASE ClearDelete(h)
  <2>1. job[h].pc = "clear"
    BY <1>3 DEF ClearDelete
  <2>2. [job[h] EXCEPT !.deleting = FALSE] \in JobType
    BY <2>1, ClearJob
  <2>3. job[h].group \in GroupIds
    BY <2>1, JobFields
  <2>4. groups' \in Copy
    BY <1>3 DEF ClearDelete, TypeOK, Copy
  <2> QED
    BY <1>3, <2>2, <2>3, <2>4 DEF ClearDelete, TypeOK
<1>4. CASE DeleteCommit(h)
  <2>1. job[h].pc = "delete" /\ job[h].source \in SourceIds /\ job[h].copy \in Copy
    BY <1>4, JobFields DEF DeleteCommit
  <2>2. WriteCopy(job[h].copy, job[h].source) \in Copy
    <3>1. ASSUME NEW g \in GroupIds, job[h].copy[g] # None
          PROVE  MultiArrayRemove(job[h].copy[g], job[h].source) \in PermissionList
      BY <2>1, <3>1, ListTypes DEF Copy
    <3> QED
      BY <3>1 DEF WriteCopy, Copy, TypeOK
  <2> QED
    BY <1>4, <1>1, <2>1, <2>2 DEF DeleteCommit, TypeOK
<1>5. CASE DeleteFail(h)
  BY <1>5, <1>1 DEF DeleteFail, TypeOK
<1>6. ASSUME NEW g \in GroupIds, EditWrite(h, g)
      PROVE  TypeOK'
  <2>1. job[h].pc = "edit" /\ g \in job[h].left
    BY <1>6 DEF EditWrite
  <2>2. [job[h] EXCEPT !.left = @ \ {g}] \in JobType
    <3>1. job[h].left \ {g} \in SUBSET GroupIds
      BY <2>1, JobFields
    <3> QED
      BY <2>1, <3>1, EditJob
  <2>3. job[h].copy[g] \in PermissionList
    BY <2>1, JobFields DEF LeftIsCopied, Copy
  <2>4. groups' \in Copy
    BY <1>6, <2>3, ListTypes DEF EditWrite, TypeOK, Copy
  <2> QED
    BY <1>6, <2>2, <2>4 DEF EditWrite, TypeOK
<1>7. CASE Reply(h)
  BY <1>7, <1>1 DEF Reply, TypeOK
<1> QED
  BY <1>2, <1>3, <1>4, <1>5, <1>6, <1>7 DEF Cleanup

\* A step keeps the types and what a clean-up still has to write.
LEMMA TypeStep ==
    ASSUME TypeOK, LeftIsCopied, [Next]_vars
    PROVE  TypeOK' /\ LeftIsCopied'
<1>1. TypeOK'
  <2>1. CASE Administrator
    BY <2>1, AdministratorTypes
  <2>2. CASE ManageDBCreateOrEdit
    BY <2>2, LookTypes DEF ManageDBCreateOrEdit
  <2>3. ASSUME NEW h \in Handlers,
               \/ \E g \in GroupIds : ClearLook(h, g)
               \/ \E s \in SourceIds : DeleteLook(h, s)
               \/ EditLook(h)
        PROVE  TypeOK'
    BY <2>3, LookTypes
  <2>4. ASSUME NEW h \in Handlers, Cleanup(h)
        PROVE  TypeOK'
    BY <2>4, CleanupTypes
  <2>5. CASE Stop
    <3>1. Idle \in JobType
      BY DEF JobType
    <3> QED
      BY <2>5, <3>1, PermissionAssumption DEF Stop, TypeOK
  <2>6. CASE UNCHANGED vars
    BY <2>6 DEF vars, TypeOK
  <2> QED
    BY <2>1, <2>2, <2>3, <2>4, <2>5, <2>6 DEF Next, ConcurrentMapWrite
<1>2. LeftIsCopied'
  <2>1. CASE Administrator
    BY <2>1 DEF Administrator, CreateGroup, UpdateGroup, Policy, LeftIsCopied
  <2>2. CASE ManageDBCreateOrEdit
    BY <2>2 DEF ManageDBCreateOrEdit, SuperCreateSource, EditSource, LeftIsCopied, TypeOK
  <2>3. ASSUME NEW h \in Handlers,
               \/ \E g \in GroupIds : ClearLook(h, g)
               \/ \E s \in SourceIds : DeleteLook(h, s)
               \/ EditLook(h)
        PROVE  LeftIsCopied'
    <3>1. CASE (\E g \in GroupIds : ClearLook(h, g)) \/ (\E s \in SourceIds : DeleteLook(h, s))
      <4>1. \A x \in Handlers : job'[x] = job[x] \/ job'[x].pc \in {"clear", "delete"}
        BY <3>1 DEF ClearLook, DeleteLook, TypeOK
      <4> QED
        BY <4>1 DEF LeftIsCopied
    <3>2. CASE EditLook(h)
      BY <3>2 DEF EditLook, LeftIsCopied, TypeOK, Rows
    <3> QED
      BY <2>3, <3>1, <3>2
  <2>4. ASSUME NEW h \in Handlers, Cleanup(h)
        PROVE  LeftIsCopied'
    <3>1. \A x \in Handlers : job'[x].pc = "edit" =>
            job[x].pc = "edit" /\ job'[x].copy = job[x].copy /\ job'[x].left \subseteq job[x].left
      <4>1. ASSUME NEW u \in Users, ClearWrite(h, u)
            PROVE  /\ job'[h].pc = "clear"
                   /\ \A x \in Handlers \ {h} : job'[x] = job[x]
        BY <4>1, JobFields DEF ClearWrite, TypeOK
      <4>2. CASE ClearDelete(h)
        BY <4>2, JobFields DEF ClearDelete, TypeOK
      <4>3. CASE DeleteCommit(h) \/ DeleteFail(h) \/ Reply(h)
        BY <4>3 DEF DeleteCommit, DeleteFail, Reply, Idle, TypeOK
      <4>4. ASSUME NEW g \in GroupIds, EditWrite(h, g)
            PROVE  /\ job[h].pc = "edit" /\ job'[h].copy = job[h].copy
                   /\ job'[h].left \subseteq job[h].left
                   /\ \A x \in Handlers \ {h} : job'[x] = job[x]
        BY <4>4, JobFields DEF EditWrite, TypeOK
      <4> QED
        BY <2>4, <4>1, <4>2, <4>3, <4>4 DEF Cleanup
    <3> QED
      BY <3>1 DEF LeftIsCopied
  <2>5. CASE Stop
    BY <2>5 DEF Stop, LeftIsCopied, Idle
  <2>6. CASE UNCHANGED vars
    BY <2>6 DEF vars, LeftIsCopied
  <2> QED
    BY <2>1, <2>2, <2>3, <2>4, <2>5, <2>6 DEF Next, ConcurrentMapWrite
<1> QED
  BY <1>1, <1>2

LEMMA TypesInvariant == Spec => [](TypeOK /\ LeftIsCopied)
<1>1. Init => TypeOK /\ LeftIsCopied
  BY PermissionAssumption DEF Init, TypeOK, LeftIsCopied, Copy, JobType, Idle
<1> QED
  BY <1>1, TypeStep, PTL DEF Spec

\* Every variable keeps its type.
THEOREM TypeCorrect == Spec => []TypeOK
  BY TypesInvariant, PTL

-----------------------------------------------------------------------------
(***************************************************************************)
(* Where permissions come from.  PermissionsWereGiven is not inductive: a  *)
(* clean-up writes what it has read, so that its copies must come from     *)
(* administrators as well.                                                 *)
(***************************************************************************)

Joined(u) == {g \in GroupIds : <<u, g>> \in joined}
WasGiven(g, p) == p # None => \A k \in Kinds : \A s \in p[k] : <<g, k, s>> \in given

GroupsWereGiven == \A g \in GroupIds : WasGiven(g, groups[g])
MembershipsWereGiven == \A u \in Users : grained[u] \in Seq(Joined(u))
SeenWasGiven ==
    \A h \in Handlers : job[h].pc = "clear" => \A u \in Users : job[h].seen[u] \in Seq(Joined(u))
CopiesWereGiven ==
    \A h \in Handlers : job[h].pc \in {"delete", "edit"} => \A g \in GroupIds : WasGiven(g, job[h].copy[g])

Provenance ==
    GroupsWereGiven /\ MembershipsWereGiven /\ SeenWasGiven /\ CopiesWereGiven

\* A list is one of the elements that are in it.
LEMMA SeqOfElements ==
    ASSUME NEW S, NEW T, NEW q \in Seq(S), \A i \in DOMAIN q : q[i] \in T
    PROVE  q \in Seq(T)
  OBVIOUS

\* Equal goes through a group of the user's list.
LEMMA EqualGroup ==
    ASSUME NEW u, NEW k \in Kinds, NEW s, Equal(u, k, s)
    PROVE  \E g \in GroupsOf(u) : groups[g] # None /\ s \in groups[g][k]
  BY DEF Equal, CreatePermissionListFromGroups

LEMMA EqualOfGroup ==
    ASSUME NEW u, NEW k \in Kinds, NEW s, NEW g \in GroupsOf(u), groups[g] # None, s \in groups[g][k]
    PROVE  Equal(u, k, s)
  BY DEF Equal, CreatePermissionListFromGroups

\* An administrator's save is remembered as given.
LEMMA AdministratorProvenance ==
    ASSUME TypeOK, Provenance, Administrator
    PROVE  Provenance'
<1>1. ASSUME NEW g \in GroupIds, NEW p \in PermissionLists, CreateGroup(g, p) \/ UpdateGroup(g, p)
      PROVE  Provenance'
  <2>1. /\ groups' = [groups EXCEPT ![g] = p]
        /\ given' = given \union Saved(g, p)
        /\ UNCHANGED <<grained, job, joined>>
    BY <1>1 DEF CreateGroup, UpdateGroup
  <2>2. \A k \in Kinds : \A s \in p[k] : <<g, k, s>> \in Saved(g, p)
    BY PermissionAssumption DEF Saved, PermissionList
  <2>3. GroupsWereGiven'
    BY <2>1, <2>2 DEF GroupsWereGiven, WasGiven, Provenance, TypeOK, Copy
  <2>4. CopiesWereGiven'
    BY <2>1 DEF CopiesWereGiven, WasGiven, Provenance
  <2> QED
    BY <2>1, <2>3, <2>4 DEF Provenance, MembershipsWereGiven, SeenWasGiven, Joined
<1>2. ASSUME NEW u \in Users, NEW list \in Memberships, Policy(u, list)
      PROVE  Provenance'
  <2>1. /\ grained' = [grained EXCEPT ![u] = list]
        /\ joined' = joined \union {<<u, list[i]>> : i \in DOMAIN list}
        /\ UNCHANGED <<groups, job, given>>
    BY <1>2 DEF Policy
  <2>2. list \in Seq(GroupIds) /\ \A i \in DOMAIN list : list[i] \in Joined(u)'
    BY <2>1, PermissionAssumption DEF Joined
  <2>3. list \in Seq(Joined(u)')
    BY <2>2, SeqOfElements
  <2>4. ASSUME NEW x \in Users, NEW q \in Seq(Joined(x))
        PROVE  q \in Seq(Joined(x)')
    <3>1. \A i \in DOMAIN q : q[i] \in Joined(x)'
      BY <2>1 DEF Joined
    <3> QED
      BY <3>1, SeqOfElements
  <2>5. MembershipsWereGiven'
    BY <2>1, <2>3, <2>4 DEF MembershipsWereGiven, Provenance, TypeOK
  <2>6. SeenWasGiven'
    BY <2>1, <2>4 DEF SeenWasGiven, Provenance
  <2> QED
    BY <2>1, <2>5, <2>6 DEF Provenance, GroupsWereGiven, CopiesWereGiven, WasGiven
<1> QED
  BY <1>1, <1>2 DEF Administrator

\* A clean-up reads what administrators have given.
LEMMA LookProvenance ==
    ASSUME TypeOK, Provenance,
           \/ ManageDBCreateOrEdit
           \/ \E h \in Handlers, g \in GroupIds : ClearLook(h, g)
           \/ \E h \in Handlers, s \in SourceIds : DeleteLook(h, s)
           \/ \E h \in Handlers : EditLook(h)
    PROVE  Provenance'
<1>1. UNCHANGED <<groups, grained, given, joined>>
  BY DEF ManageDBCreateOrEdit, SuperCreateSource, EditSource, EditLook, ClearLook, DeleteLook
<1>2. GroupsWereGiven' /\ MembershipsWereGiven'
  BY <1>1 DEF Provenance, GroupsWereGiven, MembershipsWereGiven, WasGiven, Joined
<1>3. \A x \in Handlers : \/ job'[x] = job[x]
                          \/ job'[x].pc = "clear" /\ job'[x].seen = grained
                          \/ job'[x].pc = "saved"
                          \/ job'[x].pc \in {"delete", "edit"} /\ job'[x].copy = groups
  BY DEF ManageDBCreateOrEdit, SuperCreateSource, EditSource, EditLook, ClearLook, DeleteLook, TypeOK
<1>4. SeenWasGiven'
  BY <1>1, <1>3 DEF Provenance, SeenWasGiven, MembershipsWereGiven, Joined
<1>5. CopiesWereGiven'
  BY <1>1, <1>3 DEF Provenance, CopiesWereGiven, GroupsWereGiven, WasGiven
<1> QED
  BY <1>2, <1>4, <1>5 DEF Provenance

\* What a step of a clean-up does to the jobs.
LEMMA CleanupJobs ==
    ASSUME TypeOK, NEW h \in Handlers, Cleanup(h), NEW x \in Handlers
    PROVE  \/ job'[x] = Idle
           \/ job'[x].pc = job[x].pc /\ job[x].pc = "clear" /\ job'[x].seen = job[x].seen
           \/ job'[x].pc = job[x].pc /\ job[x].pc = "edit" /\ job'[x].copy = job[x].copy
           \/ job'[x] = job[x]
<1>1. CASE x # h
  BY <1>1 DEF Cleanup, ClearWrite, ClearDelete, DeleteCommit, DeleteFail, EditWrite, Reply, TypeOK
<1>2. CASE x = h
  <2>1. ASSUME NEW u \in Users, ClearWrite(h, u)
        PROVE  job'[h].pc = "clear" /\ job[h].pc = "clear" /\ job'[h].seen = job[h].seen
    BY <2>1, JobFields DEF ClearWrite, TypeOK
  <2>2. CASE ClearDelete(h)
    BY <1>2, <2>2, JobFields DEF ClearDelete, TypeOK
  <2>3. CASE DeleteCommit(h) \/ DeleteFail(h) \/ Reply(h)
    BY <1>2, <2>3 DEF DeleteCommit, DeleteFail, Reply, TypeOK
  <2>4. ASSUME NEW g \in GroupIds, EditWrite(h, g)
        PROVE  job'[h].pc = "edit" /\ job[h].pc = "edit" /\ job'[h].copy = job[h].copy
    BY <2>4, JobFields DEF EditWrite, TypeOK
  <2> QED
    BY <1>2, <2>1, <2>2, <2>3, <2>4 DEF Cleanup
<1> QED
  BY <1>1, <1>2

\* What a step of a clean-up leaves of a group is the group as it was, or part of
\* what the clean-up has read of it.
LEMMA CleanupGroups ==
    ASSUME TypeOK, LeftIsCopied, NEW h \in Handlers, Cleanup(h), NEW g \in GroupIds
    PROVE  \/ groups'[g] = groups[g]
           \/ groups'[g] = None
           \/ /\ job[h].pc \in {"delete", "edit"} /\ job[h].copy[g] # None
              /\ \A k \in Kinds : groups'[g][k] \subseteq job[h].copy[g][k]
<1>1. CASE ClearDelete(h)
  BY <1>1 DEF ClearDelete, TypeOK, Copy
<1>2. CASE DeleteCommit(h)
  BY <1>2 DEF DeleteCommit, WriteCopy, MultiArrayRemove
<1>3. ASSUME NEW x \in GroupIds, EditWrite(h, x)
      PROVE  \/ groups'[g] = groups[g]
             \/ groups'[g] = None
             \/ /\ job[h].pc = "edit" /\ job[h].copy[g] # None
                /\ \A k \in Kinds : groups'[g][k] \subseteq job[h].copy[g][k]
  <2>1. CASE x = g
    BY <1>3, <2>1 DEF EditWrite, TypeOK, Copy, LeftIsCopied, RestrictKinds, RemoveString
  <2>2. CASE x # g
    BY <1>3, <2>2 DEF EditWrite, TypeOK, Copy
  <2> QED
    BY <2>1, <2>2
<1> QED
  BY <1>1, <1>2, <1>3 DEF Cleanup, ClearWrite, DeleteFail, Reply

\* What it leaves of a user's list is the list as it was, or part of what it has read.
LEMMA CleanupMemberships ==
    ASSUME TypeOK, NEW h \in Handlers, Cleanup(h), NEW u \in Users
    PROVE  \/ grained'[u] = grained[u]
           \/ /\ job[h].pc = "clear"
              /\ \A S : job[h].seen[u] \in Seq(S) => grained'[u] \in Seq(S)
<1>1. ASSUME NEW x \in Users, ClearWrite(h, x)
      PROVE  \/ grained'[u] = grained[u]
             \/ /\ job[h].pc = "clear"
                /\ \A S : job[h].seen[u] \in Seq(S) => grained'[u] \in Seq(S)
  <2>1. CASE x = u
    <3>1. grained'[u] = ArrayRemove(job[h].seen[u], job[h].group) /\ job[h].pc = "clear"
      BY <1>1, <2>1 DEF ClearWrite, TypeOK
    <3> QED
      BY <3>1, ArrayRemoveType
  <2>2. CASE x # u
    BY <1>1, <2>2 DEF ClearWrite, TypeOK
  <2> QED
    BY <2>1, <2>2
<1> QED
  BY <1>1 DEF Cleanup, ClearDelete, DeleteCommit, DeleteFail, EditWrite, Reply

\* A clean-up writes what administrators have given.
LEMMA CleanupProvenance ==
    ASSUME TypeOK, LeftIsCopied, Provenance, NEW h \in Handlers, Cleanup(h)
    PROVE  Provenance'
<1>1. UNCHANGED <<given, joined>>
  BY DEF Cleanup, ClearWrite, ClearDelete, DeleteCommit, DeleteFail, EditWrite, Reply
<1>2. GroupsWereGiven'
  <2>1. ASSUME NEW g \in GroupIds, groups'[g] # None, NEW k \in Kinds, NEW s \in groups'[g][k]
        PROVE  <<g, k, s>> \in given'
    BY <1>1, <2>1, CleanupGroups DEF Provenance, GroupsWereGiven, CopiesWereGiven, WasGiven
  <2> QED
    BY <2>1 DEF GroupsWereGiven, WasGiven
<1>3. MembershipsWereGiven'
  <2>1. ASSUME NEW u \in Users
        PROVE  grained'[u] \in Seq(Joined(u))
    BY CleanupMemberships DEF Provenance, MembershipsWereGiven, SeenWasGiven
  <2> QED
    BY <1>1, <2>1 DEF MembershipsWereGiven, Joined
<1>4. SeenWasGiven'
  <2>1. ASSUME NEW x \in Handlers, job'[x].pc = "clear"
        PROVE  job[x].pc = "clear" /\ job'[x].seen = job[x].seen
    BY <2>1, CleanupJobs DEF Idle
  <2> QED
    BY <1>1, <2>1 DEF Provenance, SeenWasGiven, Joined
<1>5. CopiesWereGiven'
  <2>1. ASSUME NEW x \in Handlers, job'[x].pc \in {"delete", "edit"}
        PROVE  job[x].pc \in {"delete", "edit"} /\ job'[x].copy = job[x].copy
    BY <2>1, CleanupJobs DEF Idle
  <2> QED
    BY <1>1, <2>1 DEF Provenance, CopiesWereGiven, WasGiven
<1> QED
  BY <1>2, <1>3, <1>4, <1>5 DEF Provenance

LEMMA ProvenanceStep ==
    ASSUME TypeOK, LeftIsCopied, Provenance, [Next]_vars
    PROVE  Provenance'
<1>1. CASE Administrator
  BY <1>1, AdministratorProvenance
<1>2. CASE \/ ManageDBCreateOrEdit
           \/ \E h \in Handlers, g \in GroupIds : ClearLook(h, g)
           \/ \E h \in Handlers, s \in SourceIds : DeleteLook(h, s)
           \/ \E h \in Handlers : EditLook(h)
  BY <1>2, LookProvenance
<1>3. ASSUME NEW h \in Handlers, Cleanup(h)
      PROVE  Provenance'
  BY <1>3, CleanupProvenance
<1>4. CASE Stop
  BY <1>4 DEF Stop, Provenance, GroupsWereGiven, MembershipsWereGiven, SeenWasGiven, CopiesWereGiven,
              WasGiven, Joined, Idle
<1>5. CASE UNCHANGED vars
  BY <1>5 DEF vars, Provenance, GroupsWereGiven, MembershipsWereGiven, SeenWasGiven, CopiesWereGiven,
              WasGiven, Joined
<1> QED
  BY <1>1, <1>2, <1>3, <1>4, <1>5 DEF Next, ConcurrentMapWrite

\* Whatever the clean-ups write back, and in whatever order: what Equal lets a user
\* do goes through a membership and a permission that an administrator saved.
THEOREM NothingFromNowhere == Spec => []PermissionsWereGiven
<1>1. Init => Provenance
  BY DEF Init, Provenance, GroupsWereGiven, MembershipsWereGiven, SeenWasGiven, CopiesWereGiven,
         WasGiven, Joined, Idle
<1>2. ASSUME Provenance
      PROVE  PermissionsWereGiven
  <2>1. SUFFICES ASSUME NEW u \in Users, NEW k \in Kinds, NEW s \in SourceIds, Equal(u, k, s)
                 PROVE  \E g \in GroupIds : <<u, g>> \in joined /\ <<g, k, s>> \in given
    BY DEF PermissionsWereGiven
  <2>2. PICK g \in GroupsOf(u) : groups[g] # None /\ s \in groups[g][k]
    BY <2>1, EqualGroup
  <2>3. g \in Joined(u)
    BY <1>2, <2>2 DEF Provenance, MembershipsWereGiven, GroupsOf
  <2> QED
    BY <1>2, <2>2, <2>3 DEF Provenance, GroupsWereGiven, WasGiven, Joined
<1>3. [](TypeOK /\ LeftIsCopied) /\ Provenance /\ [][Next]_vars => []Provenance
  BY ProvenanceStep, PTL
<1> QED
  BY <1>1, <1>2, <1>3, TypesInvariant, PTL DEF Spec

-----------------------------------------------------------------------------
(***************************************************************************)
(* What the clean-ups may and may not do in one step.                      *)
(***************************************************************************)

\* A user gains a permission by an administrator's save, or by the write of a clean-up
\* that had read it before it was withdrawn, and in no other way.
THEOREM GainsAreAccounted == Spec => ComesBackOnlyFromACopy
<1>1. ASSUME TypeOK, LeftIsCopied, [Next]_vars,
             NEW u \in Users, NEW k \in Kinds, NEW s \in SourceIds,
             ~Equal(u, k, s), Equal(u, k, s)'
      PROVE  Administrator \/ \E h \in Handlers : CopyShows(h, u, k, s)
  <2>1. PICK g \in GroupsOf(u)' : groups'[g] # None /\ s \in groups'[g][k]
    BY <1>1, EqualGroup DEF Equal, CreatePermissionListFromGroups
  <2>2. ASSUME NEW h \in Handlers, Cleanup(h)
        PROVE  CopyShows(h, u, k, s)
    <3>1. CASE grained'[u] # grained[u]
      <4> DEFINE T == {job[h].seen[u][i] : i \in DOMAIN job[h].seen[u]}
      <4>1. job[h].pc = "clear" /\ (job[h].seen[u] \in Seq(T) => grained'[u] \in Seq(T))
        BY <1>1, <2>2, <3>1, CleanupMemberships
      <4>2. job[h].seen[u] \in Seq(T)
        BY <1>1, <4>1, JobFields, SeqOfElements
      <4>3. g \in T
        BY <2>1, <4>1, <4>2 DEF GroupsOf
      <4>4. groups' = groups
        BY <2>2, <3>1 DEF Cleanup, ClearWrite, ClearDelete, DeleteCommit, DeleteFail, EditWrite, Reply
      <4> QED
        BY <2>1, <4>1, <4>3, <4>4 DEF CopyShows
    <3>2. CASE grained'[u] = grained[u]
      <4>1. g \in GroupsOf(u)
        BY <2>1, <3>2 DEF GroupsOf
      <4>2. g \in GroupIds
        BY <1>1, <4>1 DEF GroupsOf, TypeOK
      <4>3. groups'[g] # groups[g]
        BY <1>1, <2>1, <4>1, EqualOfGroup
      <4> QED
        BY <1>1, <2>1, <2>2, <4>1, <4>2, <4>3, CleanupGroups DEF CopyShows
    <3> QED
      BY <3>1, <3>2
  <2>3. CASE UNCHANGED <<groups, grained>>
    BY <1>1, <2>3 DEF Equal, CreatePermissionListFromGroups, GroupsOf
  <2> QED
    BY <1>1, <2>2, <2>3 DEF Next, vars, ManageDBCreateOrEdit, SuperCreateSource, EditSource, EditLook,
                            ClearLook, DeleteLook, ConcurrentMapWrite, Stop
<1>2. TypeOK /\ LeftIsCopied /\ [Next]_vars =>
        \A u \in Users, k \in Kinds, s \in SourceIds :
            (~Equal(u, k, s) /\ Equal(u, k, s)') =>
                Administrator \/ \E h \in Handlers : CopyShows(h, u, k, s)
  BY <1>1
<1> QED
  BY <1>2, TypesInvariant, PTL DEF Spec, ComesBackOnlyFromACopy

\* When the transaction of SuperDeleteSource commits, no group it has read names the
\* source any more.
THEOREM DeletionIsComplete == Spec => DeletionReachesGroups
<1>1. ASSUME TypeOK, [Next]_vars, NEW h \in Handlers,
             job[h].pc = "delete", job'[h] = Idle,
             sources[job[h].source] # "gone", sources'[job[h].source] = "gone",
             NEW g \in Rows, NEW k \in Kinds, job[h].copy[g] # None
      PROVE  job[h].source \notin groups'[g][k]
  <2>1. DeleteCommit(h)
    <3>1. ASSUME NEW x \in Handlers, DeleteCommit(x)
          PROVE  x = h
      BY <1>1, <3>1 DEF DeleteCommit, Idle, TypeOK
    <3>2. ~(UNCHANGED sources)
      BY <1>1
    <3>3. ASSUME NEW x \in Handlers, NEW s \in SourceIds, NEW q \in IsQuery,
                 SuperCreateSource(s, q) \/ EditSource(x, s, q)
          PROVE  FALSE
      <4>1. sources' = [sources EXCEPT ![s] = q] \/ sources' = sources
        BY <3>3 DEF SuperCreateSource, EditSource
      <4>2. job[h].source \in SourceIds
        BY <1>1, JobFields
      <4>3. q # "gone"
        BY DEF IsQuery
      <4> QED
        BY <1>1, <4>1, <4>2, <4>3 DEF TypeOK
    <3>4. \E x \in Handlers : DeleteCommit(x)
      BY <1>1, <3>2, <3>3 DEF Next, vars, Administrator, CreateGroup, UpdateGroup, Policy,
           ManageDBCreateOrEdit, ClearLook, DeleteLook, EditLook, Cleanup, ClearWrite, ClearDelete,
           DeleteFail, EditWrite, Reply, ConcurrentMapWrite, Stop
    <3> QED
      BY <3>1, <3>4
  <2> QED
    BY <1>1, <2>1 DEF DeleteCommit, WriteCopy, MultiArrayRemove, Rows
<1>2. TypeOK /\ LeftIsCopied /\ [Next]_vars =>
        \A h \in Handlers :
            (/\ job[h].pc = "delete" /\ job'[h] = Idle
             /\ sources[job[h].source] # "gone" /\ sources'[job[h].source] = "gone")
                => \A g \in Rows, k \in Kinds :
                     job[h].copy[g] # None => job[h].source \notin groups'[g][k]
  BY <1>1
<1> QED
  BY <1>2, TypesInvariant, PTL DEF Spec, DeletionReachesGroups
=============================================================================
