------------------------------ MODULE Accounts ------------------------------
(***************************************************************************)
(* Accounts (core_accounts, core_graineds) and the tokens that stand for   *)
(* them: registration, login with a password, LDAP or OIDC, changes by the *)
(* user and by the administrator, deletion.  core_accounts has an index on *)
(* username but no unique one, every creation is a look followed by two    *)
(* INSERTs, and a token carries the name and rights of the moment it was   *)
(* issued for eight hours, across restarts, whatever becomes of its        *)
(* account.                                                                *)
(*                                                                         *)
(* One action is one statement or one transaction.  "fresh" fields are     *)
(* history: the data were read from the account and nothing has changed    *)
(* the account since.                                                      *)
(***************************************************************************)
EXTENDS Integers, Sequences, FiniteSets

CONSTANTS
    Users,        \* account names but for "admin", whose account is never deleted
    RealNames,
    Passwords,
    Directory,    \* users the LDAP directory and the OIDC provider vouch for
    Handlers,     \* request goroutines
    Hours,        \* a token's life in hours (8)
    MaxOrders,    \* bound on the orders posted by one user
    MaxRequests,  \* bound on the requests of a behaviour
    MaxRestarts,  \* bound on the restarts of the process
    Random,       \* the password of an account created at its first login
    Nobody,       \* the username of a struct that no row was read into
    None          \* the empty real name

ASSUME AccountsAssumption ==
    /\ Directory \subseteq Users
    /\ Nobody \notin Users
    /\ IsFiniteSet(Handlers)
    /\ Hours \in Nat \ {0}
    /\ MaxOrders \in Nat
    /\ MaxRequests \in Nat
    /\ MaxRestarts \in Nat

VARIABLES
    rows,      \* user -> the rows of core_accounts with that username, by key
    grained,   \* user -> how many rows core_graineds has for it
    tokens,    \* tokens that have not expired
    orders,    \* user -> the real names on its orders
    job,       \* request goroutine -> what it still has to do
    requests,
    restarts,
    secret,    \* history: user -> password of the last UPDATE since the last INSERT
    torn       \* history: users whose creation or deletion was cut in two

vars == <<rows, grained, tokens, orders, job, requests, restarts, secret, torn>>

-----------------------------------------------------------------------------
Account == [name : RealNames \union {None}, password : Passwords \union {Random},
            record : BOOLEAN]
NoAccount == [name |-> None, password |-> Random, record |-> FALSE]

\* SELECT ... WHERE username = ? ORDER BY id LIMIT 1; no row leaves the struct empty.
First(u) == IF rows[u] = <<>> THEN NoAccount ELSE rows[u][1]

\* UPDATE ... WHERE username = ?: every row with that name.
UpdateAll(u, change) ==
    rows' = [rows EXCEPT ![u] = [i \in DOMAIN @ |-> change[@[i]]]]

Idle == [pc |-> "idle"]
JobType ==
    {Idle}
    \union [pc : {"account", "grained"}, user : Users, row : Account,
            by : {"register", "ldap", "oidc"}]
    \union [pc : {"reread"}, user : Users]
    \union [pc : {"token"}, user : Users \union {Nobody}, name : RealNames \union {None},
            record : BOOLEAN, fresh : BOOLEAN]
    \union [pc : {"degrain"}, user : Users]

TokenType == [user : Users \union {Nobody}, name : RealNames \union {None},
              record : BOOLEAN, fresh : BOOLEAN, left : 1 .. Hours]

Request == requests < MaxRequests /\ requests' = requests + 1

Serve(h, task) == Request /\ job[h] = Idle /\ job' = [job EXCEPT ![h] = task]

Goto(h, task) == job' = [job EXCEPT ![h] = task] /\ UNCHANGED requests

\* The token of a row, as the login handlers fill factory.Token.
TokenJob(user, row, fresh) ==
    [pc |-> "token", user |-> user, name |-> row.name, record |-> row.record, fresh |-> fresh]

\* A change of the account that tokens, pending logins and orders do not see.
StaleTokens(u) ==
    tokens' = {IF t.user = u THEN [t EXCEPT !.fresh = FALSE] ELSE t : t \in tokens}
StaleOrders(u) == orders' = [orders EXCEPT ![u] = [i \in DOMAIN @ |-> [@[i] EXCEPT !.fresh = FALSE]]]
StaleJobs(u) ==
    [h \in Handlers |->
        IF job[h].pc = "token" /\ job[h].user = u THEN [job[h] EXCEPT !.fresh = FALSE] ELSE job[h]]

Init ==
    /\ rows = [u \in Users |-> <<>>]
    /\ grained = [u \in Users |-> 0]
    /\ tokens = {}
    /\ orders = [u \in Users |-> <<>>]
    /\ job = [h \in Handlers |-> Idle]
    /\ requests = 0
    /\ restarts = 0
    /\ secret = [u \in Users |-> None]
    /\ torn = {}

-----------------------------------------------------------------------------
(* UserRegister, SuperUserRegister. *)

\* Mutant: the name is not looked for.
RegisterLookSkipped(h, u, name, password) ==
    /\ Serve(h, [pc |-> "account", user |-> u, by |-> "register",
                 row |-> [name |-> name, password |-> password, record |-> FALSE]])
    /\ UNCHANGED <<rows, grained, tokens, orders, restarts, secret, torn>>

RegisterLook(h, u, name, password) ==
    /\ rows[u] = <<>>
    /\ Serve(h, [pc |-> "account", user |-> u, by |-> "register",
                 row |-> [name |-> name, password |-> password, record |-> FALSE]])
    /\ UNCHANGED <<rows, grained, tokens, orders, restarts, secret, torn>>

\* Mutant: the handler answers without the row in core_graineds.
InsertAccountOnly(h) ==
    /\ job[h].pc = "account"
    /\ LET u == job[h].user IN
       /\ rows' = [rows EXCEPT ![u] = Append(@, job[h].row)]
       /\ secret' = [secret EXCEPT ![u] = None]
    /\ Goto(h, Idle)
    /\ UNCHANGED <<grained, tokens, orders, restarts, torn>>

InsertAccount(h) ==
    /\ job[h].pc = "account"
    /\ LET u == job[h].user IN
       /\ rows' = [rows EXCEPT ![u] = Append(@, job[h].row)]
       /\ secret' = [secret EXCEPT ![u] = None]
       /\ IF rows[u] = <<>> THEN StaleTokens(u) /\ StaleOrders(u)
                            ELSE UNCHANGED <<tokens, orders>>
       /\ job' = [(IF rows[u] = <<>> THEN StaleJobs(u) ELSE job) EXCEPT ![h].pc = "grained"]
    /\ UNCHANGED <<grained, requests, restarts, torn>>

\* UserLdapLogin goes on with the account it had looked for and not found.
InsertGrained(h) ==
    /\ job[h].pc = "grained"
    /\ LET u == job[h].user IN
       /\ grained' = [grained EXCEPT ![u] = @ + 1]
       /\ Goto(h, CASE job[h].by = "register" -> Idle
                    [] job[h].by = "ldap" -> TokenJob(u, NoAccount, FALSE)
                    [] job[h].by = "oidc" -> [pc |-> "reread", user |-> u])
    /\ UNCHANGED <<rows, tokens, orders, restarts, secret, torn>>

(* UserGeneralLogin, UserLdapLogin, OidcLogin. *)

GeneralLogin(h, u, password) ==
    /\ rows[u] # <<>>
    /\ First(u).password = password
    /\ Serve(h, TokenJob(u, First(u), TRUE))
    /\ UNCHANGED <<rows, grained, tokens, orders, restarts, secret, torn>>

\* The names that the LDAP entry or the OIDC provider may give for u; none when the
\* entry is missing, one of two, or refuses the password.  LdapConnect lets a user in
\* whose attributes it cannot read, without a name.
LdapConnect(u) == IF u \in Directory THEN RealNames \union {None} ELSE {}
getOidcUser(u) == IF u \in Directory THEN RealNames ELSE {}

NewAccount(u, by, name) ==
    [pc |-> "account", user |-> u, by |-> by,
     row |-> [name |-> name, password |-> Random, record |-> FALSE]]

LdapLogin(h, u) ==
    /\ \E name \in LdapConnect(u) :
         Serve(h, IF rows[u] = <<>> THEN NewAccount(u, "ldap", name) ELSE TokenJob(u, First(u), TRUE))
    /\ UNCHANGED <<rows, grained, tokens, orders, restarts, secret, torn>>

\* getAccount reads a row that it has found once more, by its id, and keeps what it
\* has when it is gone: as good as one read.
OidcLogin(h, u) ==
    /\ \E name \in getOidcUser(u) :
         Serve(h, IF rows[u] = <<>> THEN NewAccount(u, "oidc", name) ELSE TokenJob(u, First(u), TRUE))
    /\ UNCHANGED <<rows, grained, tokens, orders, restarts, secret, torn>>

\* The account just created is read by its name; when it has been deleted meanwhile the
\* token names nobody.
OidcReread(h) ==
    /\ job[h].pc = "reread"
    /\ LET u == job[h].user IN
       Goto(h, IF rows[u] = <<>> THEN TokenJob(Nobody, NoAccount, FALSE)
               ELSE TokenJob(u, First(u), TRUE))
    /\ UNCHANGED <<rows, grained, tokens, orders, restarts, secret, torn>>

JwtAuth(h) ==
    /\ job[h].pc = "token"
    /\ tokens' = tokens \union
         {[user |-> job[h].user, name |-> job[h].name, record |-> job[h].record,
           fresh |-> job[h].fresh, left |-> Hours]}
    /\ Goto(h, Idle)
    /\ UNCHANGED <<rows, grained, orders, restarts, secret, torn>>

\* Mutant: exp is not looked at.
HourWithoutExpiry ==
    /\ tokens # {}
    /\ tokens' = {IF t.left > 1 THEN [t EXCEPT !.left = @ - 1] ELSE t : t \in tokens}
    /\ UNCHANGED <<rows, grained, orders, job, requests, restarts, secret, torn>>

\* Mutant: a token lives one hour longer.
HourLate ==
    /\ tokens # {}
    /\ tokens' = {[t EXCEPT !.left = @ - 1] : t \in {x \in tokens : x.left > 0}}
    /\ UNCHANGED <<rows, grained, orders, job, requests, restarts, secret, torn>>

\* An hour passes; the JWT middleware refuses a token whose exp has passed.
Hour ==
    /\ tokens # {}
    /\ tokens' = {[t EXCEPT !.left = @ - 1] : t \in {x \in tokens : x.left > 1}}
    /\ UNCHANGED <<rows, grained, orders, job, requests, restarts, secret, torn>>

-----------------------------------------------------------------------------
(* Changes. *)

\* Mutant: the row that First returns is saved.
ChangePasswordFirst(u, password) ==
    /\ Request
    /\ rows' = [rows EXCEPT ![u] = IF @ = <<>> THEN @ ELSE [@ EXCEPT ![1].password = password]]
    /\ secret' = [secret EXCEPT ![u] = password]
    /\ UNCHANGED <<grained, tokens, orders, job, restarts, torn>>

\* The administrator's "password", and a new password in editPersonalUser.
ChangePassword(u, password) ==
    /\ Request
    /\ LET Set == [r \in Account |-> [r EXCEPT !.password = password]] IN UpdateAll(u, Set)
    /\ secret' = [secret EXCEPT ![u] = password]
    /\ UNCHANGED <<grained, tokens, orders, job, restarts, torn>>

\* The user's orders and tokens keep the name they have.  (An empty name is a zero field
\* of the struct and changes nothing.)
editPersonalUser(t, name) ==
    /\ Request
    /\ t.user \in Users
    /\ LET Set == [r \in Account |-> [r EXCEPT !.name = name]] IN UpdateAll(t.user, Set)
    /\ StaleTokens(t.user) /\ StaleOrders(t.user) /\ job' = StaleJobs(t.user)
    /\ UNCHANGED <<grained, restarts, secret, torn>>

\* Mutant: the orders are left to the next page that shows them.
SuperUserEditAccount(u, name, record) ==
    /\ Request
    /\ LET Set == [r \in Account |-> [r EXCEPT !.name = name, !.record = record]] IN UpdateAll(u, Set)
    /\ StaleTokens(u) /\ job' = StaleJobs(u)
    /\ UNCHANGED <<grained, orders, restarts, secret, torn>>

\* The name on every order of u; it is that of an account when there is one.
RenameOrders(u, name) ==
    orders' = [orders EXCEPT ![u] = [i \in DOMAIN @ |-> [name |-> name, fresh |-> rows[u] # <<>>]]]

\* One transaction: the account and the names on its orders of both kinds.  Nobody looks
\* whether the account is there.  An empty name is written to the account, by a map, and
\* not to the orders, by a struct whose zero fields are left out.
SuperUserEdit(u, name, record) ==
    /\ Request
    /\ LET Set == [r \in Account |-> [r EXCEPT !.name = name, !.record = record]] IN UpdateAll(u, Set)
    /\ IF name = None THEN StaleOrders(u) ELSE RenameOrders(u, name)
    /\ StaleTokens(u) /\ job' = StaleJobs(u)
    /\ UNCHANGED <<grained, restarts, secret, torn>>

\* sqlOrderPost and ReferQueryOrder take the name from the token.
PostOrder(t) ==
    /\ t.user \in Users
    /\ Len(orders[t.user]) < MaxOrders
    /\ orders' = [orders EXCEPT ![t.user] = Append(@, [name |-> t.name, fresh |-> t.fresh])]
    /\ UNCHANGED <<rows, grained, tokens, job, requests, restarts, secret, torn>>

\* SuperDeleteUser opens a transaction and does not use it: two statements.
DeleteAccount(h, u) ==
    /\ rows[u] # <<>>
    /\ Request
    /\ job[h] = Idle
    /\ rows' = [rows EXCEPT ![u] = <<>>]
    /\ job' = [StaleJobs(u) EXCEPT ![h] = [pc |-> "degrain", user |-> u]]
    /\ StaleTokens(u) /\ StaleOrders(u)
    /\ UNCHANGED <<grained, restarts, secret, torn>>

DeleteGrained(h) ==
    /\ job[h].pc = "degrain"
    /\ LET u == job[h].user IN
       /\ grained' = [grained EXCEPT ![u] = 0]
       /\ torn' = IF rows[u] # <<>> THEN torn \union {u} ELSE torn
    /\ Goto(h, Idle)
    /\ UNCHANGED <<rows, tokens, orders, restarts, secret>>

\* The process stops between two statements; tokens and rows remain.
Stop ==
    /\ restarts < MaxRestarts
    /\ restarts' = restarts + 1
    /\ torn' = torn \union {job[h].user : h \in {x \in Handlers : job[x].pc = "grained"}}
    /\ job' = [h \in Handlers |-> Idle]
    /\ UNCHANGED <<rows, grained, tokens, orders, requests, secret>>

Go(h) ==
    InsertAccount(h) \/ InsertGrained(h) \/ OidcReread(h) \/ JwtAuth(h) \/ DeleteGrained(h)

ManageUserCreateOrEdit ==
    \/ \E u \in Users, p \in Passwords : ChangePassword(u, p)
    \/ \E u \in Users, n \in RealNames \union {None}, r \in BOOLEAN : SuperUserEdit(u, n, r)
    \/ \E h \in Handlers, u \in Users, n \in RealNames, p \in Passwords : RegisterLook(h, u, n, p)

\* SuperManageGroup lets nobody but admin reach the handlers that change accounts.
SuperManageGroup ==
    \/ ManageUserCreateOrEdit
    \/ \E h \in Handlers, u \in Users : DeleteAccount(h, u)

Next ==
    \/ \E h \in Handlers, u \in Users :
        \/ \E n \in RealNames, p \in Passwords : RegisterLook(h, u, n, p)
        \/ \E p \in Passwords : GeneralLogin(h, u, p)
        \/ LdapLogin(h, u)
        \/ OidcLogin(h, u)
    \/ \E h \in Handlers : Go(h)
    \/ Hour
    \/ SuperManageGroup
    \/ \E t \in tokens :
        \/ \E n \in RealNames : editPersonalUser(t, n)
        \/ PostOrder(t)
    \/ Stop

Spec == Init /\ [][Next]_vars

\* Requests that were begun go on, and time passes.
FairSpec == Spec /\ WF_vars(Hour) /\ \A h \in Handlers : WF_vars(Go(h))

-----------------------------------------------------------------------------
(* Properties. *)

\* Every variable keeps its type.
TypeOK ==
    /\ rows \in [Users -> Seq(Account)]
    /\ grained \in [Users -> Nat]
    /\ tokens \subseteq TokenType
    /\ orders \in [Users -> Seq([name : RealNames \union {None}, fresh : BOOLEAN])]
    /\ job \in [Handlers -> JobType]
    /\ requests \in 0 .. MaxRequests
    /\ restarts \in 0 .. MaxRestarts
    /\ secret \in [Users -> Passwords \union {None}]
    /\ torn \subseteq Users

\* A name can get several accounts, because every creation looks first and inserts
\* later (user/impl.go:60), but only one per creation that was under way at the same
\* time: never more rows than request goroutines, however many are made in sequence.
DuplicatesAreConcurrent ==
    \A u \in Users : Len(rows[u]) <= Cardinality(Handlers)

\* Without its row in core_graineds an account can be given no group any more, since
\* "policy" is an UPDATE.  That happens only to an account whose creation or whose
\* namesake's deletion was cut in two, or is being made.
AccountHasGroups ==
    \A u \in Users : rows[u] # <<>> /\ grained[u] = 0 =>
        u \in torn \/ \E h \in Handlers : job[h].pc = "grained" /\ job[h].user = u

\* A new password holds for every row of its name, so that the old one is refused
\* whichever of them a login reads, until another account of that name is inserted.
PasswordReachesDuplicates ==
    \A u \in Users : secret[u] # None => \A i \in DOMAIN rows[u] : rows[u][i].password = secret[u]

\* What a token or an order shows of its account is true while nobody changes the
\* account after the login.  The administrator's edit makes it true again for every
\* order, when the account is there and the edit gives it a name; an edit that empties
\* the name leaves the old one on the orders, and tokens keep the old name and the old
\* right to records in any case.
FreshDataIsTrue ==
    \A u \in Users :
        /\ \A t \in tokens : t.user = u /\ t.fresh =>
              rows[u] # <<>> /\ t.name = First(u).name /\ t.record = First(u).record
        /\ \A i \in DOMAIN orders[u] : orders[u][i].fresh => orders[u][i].name = First(u).name

\* A deleted account keeps its tokens, but not for ever: either they have all expired
\* or the name has got an account again.
DeletedUserIsLockedOut ==
    \A u \in Users : (rows[u] = <<>>) ~> (rows[u] # <<>> \/ \A t \in tokens : t.user # u)
=============================================================================
