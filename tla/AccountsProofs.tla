-------------------------- MODULE AccountsProofs --------------------------
(***************************************************************************)
(* Proofs about Accounts: its types, how many accounts a name can get,     *)
(* when an account has no row in core_graineds, that a new password        *)
(* reaches every account of its name, and what tokens and orders show of   *)
(* their account.                                                          *)
(***************************************************************************)
EXTENDS Accounts, FiniteSetTheorems, TLAPS

-----------------------------------------------------------------------------
(***************************************************************************)
(* What a goroutine has at each point, and what its request begins with.   *)
(***************************************************************************)
Orders == [name : RealNames \union {None}, fresh : BOOLEAN]

LEMMA JobFields ==
    ASSUME TypeOK, NEW h \in Handlers
    PROVE  /\ job[h].pc \in {"account", "grained"} =>
                 /\ job[h].user \in Users /\ job[h].row \in Account
                 /\ job[h].by \in {"register", "ldap", "oidc"}
           /\ job[h].pc \in {"reread", "degrain"} => job[h].user \in Users
           /\ job[h].pc = "token" =>
                 /\ job[h].user \in Users \union {Nobody}
                 /\ job[h].name \in RealNames \union {None}
                 /\ job[h].record \in BOOLEAN /\ job[h].fresh \in BOOLEAN
<1>1. job[h] \in JobType
  BY DEF TypeOK
<1> QED
  BY <1>1 DEF JobType, Idle

\* What First reads.
LEMMA FirstType ==
    ASSUME TypeOK, NEW u \in Users
    PROVE  First(u) \in Account
<1>1. rows[u] \in Seq(Account)
  BY DEF TypeOK
<1>2. NoAccount \in Account
  BY DEF NoAccount, Account
<1>3. CASE rows[u] # <<>>
  <2>1. 1 \in 1 .. Len(rows[u])
    BY <1>1, <1>3
  <2> QED
    BY <1>1, <1>3, <2>1 DEF First
<1> QED
  BY <1>2, <1>3 DEF First

\* The first half of a creation, or the token of a row.
LEMMA TasksTyped ==
    ASSUME TypeOK, NEW u \in Users
    PROVE  /\ \A row \in Account, by \in {"register", "ldap", "oidc"} :
                 [pc |-> "account", user |-> u, by |-> by, row |-> row] \in JobType
           /\ \A row \in Account, v \in Users \union {Nobody}, fresh \in BOOLEAN :
                 /\ TokenJob(v, row, fresh) \in JobType
                 /\ TokenJob(v, row, fresh).pc = "token"
                 /\ TokenJob(v, row, fresh).user = v
                 /\ TokenJob(v, row, fresh).name = row.name
                 /\ TokenJob(v, row, fresh).record = row.record
                 /\ TokenJob(v, row, fresh).fresh = fresh
           /\ [pc |-> "reread", user |-> u] \in JobType
           /\ [pc |-> "degrain", user |-> u] \in JobType
BY DEF JobType, TokenJob, Account

\* The data of a task are those of its account.
Knows(t) == rows[t.user] # <<>> /\ t.name = First(t.user).name /\ t.record = First(t.user).record

\* A request that begins: a creation when there is no account, a login when there is one.
Begin(h) ==
    \E u \in Users :
        \/ \E n \in RealNames, p \in Passwords : RegisterLook(h, u, n, p)
        \/ \E p \in Passwords : GeneralLogin(h, u, p)
        \/ LdapLogin(h, u)
        \/ OidcLogin(h, u)

LEMMA BeginTask ==
    ASSUME TypeOK, NEW h \in Handlers, Begin(h)
    PROVE  /\ \E t \in JobType :
                 /\ Serve(h, t)
                 /\ \/ t.pc = "account" /\ t.user \in Users /\ rows[t.user] = <<>>
                    \/ t.pc = "token" /\ t.user \in Users /\ Knows(t)
           /\ UNCHANGED <<rows, grained, tokens, orders, restarts, secret, torn>>
<1> DEFINE Goal == /\ \E t \in JobType :
                         /\ Serve(h, t)
                         /\ \/ t.pc = "account" /\ t.user \in Users /\ rows[t.user] = <<>>
                            \/ t.pc = "token" /\ t.user \in Users /\ Knows(t)
                   /\ UNCHANGED <<rows, grained, tokens, orders, restarts, secret, torn>>
<1>1. PICK u \in Users :
         \/ \E n \in RealNames, p \in Passwords : RegisterLook(h, u, n, p)
         \/ \E p \in Passwords : GeneralLogin(h, u, p)
         \/ LdapLogin(h, u)
         \/ OidcLogin(h, u)
  BY DEF Begin
<1>2. ASSUME NEW row \in Account, NEW by \in {"register", "ldap", "oidc"}, rows[u] = <<>>,
             Serve(h, [pc |-> "account", user |-> u, by |-> by, row |-> row])
      PROVE  \E t \in JobType :
                /\ Serve(h, t)
                /\ t.pc = "account" /\ t.user \in Users /\ rows[t.user] = <<>>
  <2>1. [pc |-> "account", user |-> u, by |-> by, row |-> row] \in JobType
    BY TasksTyped
  <2>2. PICK t \in JobType : t = [pc |-> "account", user |-> u, by |-> by, row |-> row]
    BY <2>1
  <2>3. t.pc = "account" /\ t.user = u /\ Serve(h, t)
    BY <1>2, <2>2
  <2> QED
    BY <1>2, <2>3
<1>3. ASSUME rows[u] # <<>>, Serve(h, TokenJob(u, First(u), TRUE))
      PROVE  \E t \in JobType :
                /\ Serve(h, t)
                /\ t.pc = "token" /\ t.user \in Users /\ Knows(t)
  <2>1. PICK t \in JobType : /\ t = TokenJob(u, First(u), TRUE) /\ t.pc = "token" /\ t.user = u
                             /\ t.name = First(u).name /\ t.record = First(u).record
    <3>1. First(u) \in Account
      BY FirstType
    <3>2. TokenJob(u, First(u), TRUE) \in JobType
      BY <3>1, TasksTyped
    <3> QED
      BY <3>2 DEF TokenJob
  <2> QED
    BY <1>3, <2>1 DEF Knows
<1>4. ASSUME NEW n \in RealNames, NEW p \in Passwords, RegisterLook(h, u, n, p)
      PROVE  Goal
  <2>1. [name |-> n, password |-> p, record |-> FALSE] \in Account
    BY DEF Account
  <2> QED
    BY <1>2, <1>4, <2>1 DEF RegisterLook
<1>5. ASSUME NEW p \in Passwords, GeneralLogin(h, u, p)
      PROVE  Goal
  <2>1. /\ rows[u] # <<>> /\ Serve(h, TokenJob(u, First(u), TRUE))
        /\ UNCHANGED <<rows, grained, tokens, orders, restarts, secret, torn>>
    BY <1>5 DEF GeneralLogin
  <2> QED
    BY <1>3, <2>1
<1>6. ASSUME NEW n \in RealNames \union {None}, NEW by \in {"ldap", "oidc"},
             Serve(h, IF rows[u] = <<>> THEN NewAccount(u, by, n) ELSE TokenJob(u, First(u), TRUE)),
             UNCHANGED <<rows, grained, tokens, orders, restarts, secret, torn>>
      PROVE  Goal
  <2>1. [name |-> n, password |-> Random, record |-> FALSE] \in Account
    BY DEF Account
  <2>2. CASE rows[u] = <<>>
    <3>1. Serve(h, [pc |-> "account", user |-> u, by |-> by,
                    row |-> [name |-> n, password |-> Random, record |-> FALSE]])
      BY <1>6, <2>2 DEF NewAccount
    <3> QED
      BY <1>2, <1>6, <2>1, <2>2, <3>1
  <2>3. CASE rows[u] # <<>>
    BY <1>3, <1>6, <2>3
  <2> QED
    BY <2>2, <2>3
<1>7. CASE LdapLogin(h, u)
  <2>1. PICK n \in RealNames \union {None} :
           Serve(h, IF rows[u] = <<>> THEN NewAccount(u, "ldap", n)
                    ELSE TokenJob(u, First(u), TRUE))
    BY <1>7 DEF LdapLogin, LdapConnect
  <2> QED
    BY <1>6, <1>7, <2>1 DEF LdapLogin
<1>8. CASE OidcLogin(h, u)
  <2>1. PICK n \in RealNames :
           Serve(h, IF rows[u] = <<>> THEN NewAccount(u, "oidc", n)
                    ELSE TokenJob(u, First(u), TRUE))
    BY <1>8 DEF OidcLogin, getOidcUser
  <2> QED
    BY <1>6, <1>8, <2>1 DEF OidcLogin
<1> QED
  BY <1>1, <1>4, <1>5, <1>7, <1>8

-----------------------------------------------------------------------------
(***************************************************************************)
(* Changes of an account and of what was read from it.                     *)
(***************************************************************************)

\* UPDATE leaves as many rows as there were.
LEMMA UpdateKeeps ==
    ASSUME TypeOK, NEW u \in Users, NEW change \in [Account -> Account], UpdateAll(u, change)
    PROVE  /\ rows' \in [Users -> Seq(Account)]
           /\ \A v \in Users : /\ v # u => rows'[v] = rows[v]
                               /\ Len(rows'[v]) = Len(rows[v])
                               /\ DOMAIN rows'[v] = DOMAIN rows[v]
                               /\ rows'[v] = <<>> <=> rows[v] = <<>>
           /\ \A i \in DOMAIN rows[u] : rows[u][i] \in Account
                                        /\ rows'[u][i] = change[rows[u][i]]
           /\ rows[u] # <<>> => First(u)' = change[First(u)]
<1> DEFINE s == rows[u]
           t == [i \in DOMAIN s |-> change[s[i]]]
<1>1. rows \in [Users -> Seq(Account)] /\ s \in Seq(Account)
  BY DEF TypeOK
<1>2. rows' = [rows EXCEPT ![u] = t]
  BY DEF UpdateAll
<1>3. DOMAIN s = 1 .. Len(s) /\ Len(s) \in Nat /\ \A i \in 1 .. Len(s) : s[i] \in Account
  BY <1>1
<1>4. t \in Seq(Account) /\ Len(t) = Len(s) /\ DOMAIN t = DOMAIN s
  <2>1. \A i \in 1 .. Len(s) : change[s[i]] \in Account
    BY <1>3
  <2>2. t = [i \in 1 .. Len(s) |-> change[s[i]]]
    BY <1>3
  <2> QED
    BY <1>3, <2>1, <2>2
<1>5. t = <<>> <=> s = <<>>
  BY <1>1, <1>3, <1>4
<1>6. \A i \in DOMAIN s : s[i] \in Account /\ t[i] = change[s[i]]
  BY <1>3
<1>7. s # <<>> => 1 \in DOMAIN s
  BY <1>1, <1>3
<1>8. rows'[u] = t /\ \A v \in Users : v # u => rows'[v] = rows[v]
  BY <1>1, <1>2
<1>9. rows' \in [Users -> Seq(Account)]
  BY <1>1, <1>2, <1>4
<1>10. rows[u] # <<>> => First(u)' = change[First(u)]
  BY <1>5, <1>6, <1>7, <1>8 DEF First
<1> HIDE DEF t
<1> QED
  BY <1>4, <1>5, <1>6, <1>8, <1>9, <1>10

\* Which data are still fresh after a change of the account of u.
LEMMA TokensStale ==
    ASSUME TypeOK, NEW u \in Users, StaleTokens(u)
    PROVE  /\ tokens' \subseteq TokenType
           /\ \A t \in tokens' : t.fresh =>
                 t.user # u /\ \E x \in tokens : /\ x.fresh /\ x.user = t.user
                                                 /\ x.name = t.name /\ x.record = t.record
<1> SUFFICES ASSUME NEW t \in tokens'
             PROVE  /\ t \in TokenType
                    /\ t.fresh =>
                          t.user # u /\ \E x \in tokens : /\ x.fresh /\ x.user = t.user
                                                          /\ x.name = t.name /\ x.record = t.record
  OBVIOUS
<1>1. PICK x \in tokens : t = IF x.user = u THEN [x EXCEPT !.fresh = FALSE] ELSE x
  BY DEF StaleTokens
<1>2. x \in TokenType
  BY DEF TypeOK
<1>3. CASE x.user = u
  BY <1>1, <1>2, <1>3 DEF TokenType
<1>4. CASE x.user # u
  BY <1>1, <1>2, <1>4
<1> QED
  BY <1>3, <1>4

LEMMA JobsStale ==
    ASSUME TypeOK, NEW u \in Users, NEW h \in Handlers
    PROVE  /\ StaleJobs(u)[h] \in JobType /\ StaleJobs(u)[h].pc = job[h].pc
           /\ job[h].pc # "token" => StaleJobs(u)[h] = job[h]
           /\ job[h].pc = "token" /\ StaleJobs(u)[h].fresh =>
                 StaleJobs(u)[h] = job[h] /\ job[h].user # u
<1> DEFINE Tokens == [pc : {"token"}, user : Users \union {Nobody},
                      name : RealNames \union {None}, record : BOOLEAN, fresh : BOOLEAN]
<1>1. job[h] \in JobType
  BY DEF TypeOK
<1>2. job[h].pc = "token" => job[h] \in Tokens
  BY <1>1 DEF JobType, Idle
<1>3. Tokens \subseteq JobType
  BY DEF JobType
<1>4. ASSUME NEW j \in Tokens
      PROVE  /\ [j EXCEPT !.fresh = FALSE] \in Tokens
             /\ [j EXCEPT !.fresh = FALSE].pc = "token"
             /\ [j EXCEPT !.fresh = FALSE].fresh = FALSE
  OBVIOUS
<1>5. StaleJobs(u)[h] = IF job[h].pc = "token" /\ job[h].user = u
                        THEN [job[h] EXCEPT !.fresh = FALSE] ELSE job[h]
  BY DEF StaleJobs
<1> HIDE DEF Tokens
<1> QED
  BY <1>1, <1>2, <1>3, <1>4, <1>5

\* The administrator's name on the orders of a user, and on nobody else's.
LEMMA OrdersRenamed ==
    ASSUME TypeOK, NEW u \in Users, NEW n \in RealNames \union {None}, RenameOrders(u, n)
    PROVE  /\ orders' \in [Users -> Seq(Orders)]
           /\ \A v \in Users : v # u => orders'[v] = orders[v]
           /\ \A i \in DOMAIN orders'[u] : /\ orders'[u][i].name = n
                                           /\ orders'[u][i].fresh => rows[u] # <<>>
<1> DEFINE o == [name |-> n, fresh |-> rows[u] # <<>>]
<1>1. PICK q \in Seq(Orders) : q = orders[u]
  BY DEF TypeOK, Orders
<1>2. o \in Orders
  <2>1. (rows[u] # <<>>) \in BOOLEAN
    OBVIOUS
  <2> QED
    BY <2>1 DEF Orders
<1>3. o.name = n /\ (o.fresh => rows[u] # <<>>)
  OBVIOUS
<1>4. orders' = [orders EXCEPT ![u] = [i \in DOMAIN q |-> o]]
  BY <1>1 DEF RenameOrders
<1> HIDE DEF o
<1>5. [i \in DOMAIN q |-> o] \in Seq(Orders)
  <2>1. DOMAIN q = 1 .. Len(q) /\ Len(q) \in Nat
    OBVIOUS
  <2>2. [i \in 1 .. Len(q) |-> o] \in Seq(Orders)
    BY <1>2, <2>1
  <2> QED
    BY <2>1, <2>2
<1>6. orders \in [Users -> Seq(Orders)]
  BY DEF TypeOK, Orders
<1>7. orders'[u] = [i \in DOMAIN q |-> o]
  BY <1>4, <1>6
<1> QED
  BY <1>3, <1>4, <1>5, <1>6, <1>7

LEMMA OrdersStale ==
    ASSUME TypeOK, NEW u \in Users, StaleOrders(u)
    PROVE  /\ orders' \in [Users -> Seq(Orders)]
           /\ \A v \in Users : v # u => orders'[v] = orders[v]
           /\ \A i \in DOMAIN orders'[u] : ~orders'[u][i].fresh
<1> DEFINE s == orders[u]
           t == [i \in DOMAIN s |-> [s[i] EXCEPT !.fresh = FALSE]]
<1>1. orders \in [Users -> Seq(Orders)] /\ s \in Seq(Orders)
  BY DEF TypeOK, Orders
<1>2. orders' = [orders EXCEPT ![u] = t]
  BY DEF StaleOrders
<1>3. DOMAIN s = 1 .. Len(s) /\ Len(s) \in Nat /\ \A i \in 1 .. Len(s) : s[i] \in Orders
  BY <1>1
<1>4. \A r \in Orders : [r EXCEPT !.fresh = FALSE] \in Orders /\ ~[r EXCEPT !.fresh = FALSE].fresh
  BY DEF Orders
<1>5. t \in Seq(Orders) /\ DOMAIN t = DOMAIN s /\ \A i \in DOMAIN s : ~t[i].fresh
  <2>1. t = [i \in 1 .. Len(s) |-> [s[i] EXCEPT !.fresh = FALSE]]
    BY <1>3
  <2>2. \A i \in 1 .. Len(s) : [s[i] EXCEPT !.fresh = FALSE] \in Orders
                              /\ ~[s[i] EXCEPT !.fresh = FALSE].fresh
    BY <1>3, <1>4
  <2> QED
    BY <1>3, <2>1, <2>2
<1> HIDE DEF t
<1> QED
  BY <1>1, <1>2, <1>5

\* INSERT: one row more for its name, and the first one stays.
LEMMA InsertFacts ==
    ASSUME TypeOK, NEW h \in Handlers, InsertAccount(h), NEW u, u = job[h].user
    PROVE  /\ u \in Users /\ job[h].row \in Account
           /\ rows' = [rows EXCEPT ![u] = Append(@, job[h].row)]
           /\ rows' \in [Users -> Seq(Account)]
           /\ Len(rows'[u]) = Len(rows[u]) + 1 /\ rows'[u] # <<>>
           /\ \A v \in Users : /\ v # u => rows'[v] = rows[v]
                               /\ rows[v] # <<>> => First(v)' = First(v) /\ rows'[v] # <<>>
           /\ job' \in [Handlers -> JobType]
           /\ job'[h].pc = "grained" /\ job'[h].user = u
           /\ \A g \in Handlers : g # h =>
                 \/ rows[u] # <<>> /\ job'[g] = job[g]
                 \/ rows[u] = <<>> /\ job'[g] = StaleJobs(u)[g]
<1> DEFINE s == rows[u]
           jobs == IF rows[u] = <<>> THEN StaleJobs(u) ELSE job
           t == [job[h] EXCEPT !.pc = "grained"]
<1>1. /\ u \in Users /\ job[h].row \in Account /\ job[h].pc = "account"
      /\ rows \in [Users -> Seq(Account)] /\ s \in Seq(Account)
  BY JobFields DEF InsertAccount, TypeOK
<1>2. rows' = [rows EXCEPT ![u] = Append(@, job[h].row)]
  BY DEF InsertAccount
<1>3. rows'[u] = Append(s, job[h].row) /\ \A v \in Users : v # u => rows'[v] = rows[v]
  BY <1>1, <1>2
<1>4. /\ Append(s, job[h].row) \in Seq(Account)
      /\ Len(Append(s, job[h].row)) = Len(s) + 1
      /\ Append(s, job[h].row) # <<>>
      /\ s # <<>> => Append(s, job[h].row)[1] = s[1]
  <2>1. PICK q \in Seq(Account), r \in Account : q = s /\ r = job[h].row
    BY <1>1
  <2>2. /\ Append(q, r) \in Seq(Account) /\ Len(Append(q, r)) = Len(q) + 1 /\ Len(q) \in Nat
        /\ \A i \in 1 .. Len(q) : Append(q, r)[i] = q[i]
    OBVIOUS
  <2>3. Append(q, r) # <<>>
    BY <2>2
  <2>4. q # <<>> => 1 \in 1 .. Len(q)
    BY <2>2
  <2> QED
    BY <2>1, <2>2, <2>3, <2>4
<1>5. rows' \in [Users -> Seq(Account)]
  BY <1>1, <1>2, <1>4
<1>6. \A v \in Users : rows[v] # <<>> => First(v)' = First(v) /\ rows'[v] # <<>>
  BY <1>1, <1>3, <1>4 DEF First
<1>7. /\ jobs \in [Handlers -> JobType]
      /\ jobs[h] = job[h]
      /\ \A g \in Handlers : \/ rows[u] # <<>> /\ jobs[g] = job[g]
                             \/ rows[u] = <<>> /\ jobs[g] = StaleJobs(u)[g]
  <2>1. StaleJobs(u) \in [Handlers -> JobType] /\ StaleJobs(u)[h] = job[h]
    <3>1. StaleJobs(u) = [g \in Handlers |-> StaleJobs(u)[g]]
      BY DEF StaleJobs
    <3> QED
      BY <1>1, <3>1, JobsStale
  <2> QED
    BY <2>1 DEF TypeOK
<1>8. t \in JobType /\ t.pc = "grained" /\ t.user = u
  <2>1. job[h] \in [pc : {"account", "grained"}, user : Users, row : Account,
                    by : {"register", "ldap", "oidc"}]
    BY <1>1 DEF TypeOK, JobType, Idle
  <2>2. t \in [pc : {"account", "grained"}, user : Users, row : Account,
               by : {"register", "ldap", "oidc"}]
    BY <2>1
  <2>3. t.pc = "grained" /\ t.user = u
    BY <2>1
  <2> QED
    BY <2>2, <2>3 DEF JobType
<1>9. job' = [jobs EXCEPT ![h] = t]
  <2>1. job' = [jobs EXCEPT ![h].pc = "grained"]
    BY DEF InsertAccount
  <2> HIDE DEF jobs
  <2> QED
    BY <1>7, <2>1
<1>10. job' \in [Handlers -> JobType] /\ job'[h] = t /\ \A g \in Handlers : g # h => job'[g] = jobs[g]
  <2> HIDE DEF jobs, t
  <2> QED
    BY <1>7, <1>8, <1>9
<1> HIDE DEF t, jobs
<1> QED
  BY <1>1, <1>2, <1>3, <1>4, <1>5, <1>6, <1>7, <1>8, <1>10

\* What the other statements of a request leave to do.
LEMMA GotoFacts ==
    ASSUME TypeOK, NEW h \in Handlers, NEW t \in JobType, Goto(h, t) \/ Serve(h, t)
    PROVE  /\ job' \in [Handlers -> JobType]
           /\ job'[h] = t /\ \A g \in Handlers : g # h => job'[g] = job[g]
           /\ requests' \in 0 .. MaxRequests
           /\ Serve(h, t) => job[h].pc = "idle"
<1>1. job' = [job EXCEPT ![h] = t]
  BY DEF Goto, Serve
<1>2. requests' \in 0 .. MaxRequests
  BY AccountsAssumption DEF Goto, Serve, Request, TypeOK
<1> QED
  BY <1>1, <1>2 DEF TypeOK, Serve, Idle

\* InsertGrained and OidcReread go on to a token, to nothing, or to a second look.
LEMMA NextTask ==
    ASSUME TypeOK, NEW h \in Handlers, InsertGrained(h) \/ OidcReread(h)
    PROVE  /\ UNCHANGED <<rows, tokens, orders, restarts, secret, torn>>
           /\ job[h].pc \in {"grained", "reread"} /\ job[h].user \in Users
           /\ \E t \in JobType :
                 /\ Goto(h, t)
                 /\ t.pc \in {"idle", "reread", "token"}
                 /\ t.pc = "token" /\ t.fresh /\ t.user \in Users => Knows(t)
<1> DEFINE Goal == \E t \in JobType :
                      /\ Goto(h, t)
                      /\ t.pc \in {"idle", "reread", "token"}
                      /\ t.pc = "token" /\ t.fresh /\ t.user \in Users => Knows(t)
<1>1. /\ UNCHANGED <<rows, tokens, orders, restarts, secret, torn>>
      /\ job[h].pc \in {"grained", "reread"}
  BY DEF InsertGrained, OidcReread
<1>2. PICK u \in Users : u = job[h].user
  BY <1>1, JobFields
<1>3. NoAccount \in Account /\ First(u) \in Account
  BY FirstType DEF NoAccount, Account
<1>4. Idle \in JobType /\ Idle.pc = "idle"
  BY DEF JobType, Idle
<1>5. ASSUME Goto(h, Idle)
      PROVE  Goal
  BY <1>4, <1>5
<1>6. ASSUME Goto(h, [pc |-> "reread", user |-> u])
      PROVE  Goal
  <2>1. PICK t \in JobType : t = [pc |-> "reread", user |-> u] /\ t.pc = "reread"
    BY TasksTyped
  <2> QED
    BY <1>6, <2>1
<1>7. ASSUME NEW v \in Users \union {Nobody}, NEW row \in Account, NEW fresh \in BOOLEAN,
             Goto(h, TokenJob(v, row, fresh)),
             fresh /\ v \in Users => rows[v] # <<>> /\ row = First(v)
      PROVE  Goal
  <2>1. PICK t \in JobType : /\ t = TokenJob(v, row, fresh) /\ t.pc = "token" /\ t.user = v
                             /\ t.name = row.name /\ t.record = row.record /\ t.fresh = fresh
    BY TasksTyped, <1>2
  <2> QED
    BY <1>7, <2>1 DEF Knows
<1>8. ASSUME InsertGrained(h)
      PROVE  Goal
  <2>1. job[h].by \in {"register", "ldap", "oidc"}
    BY <1>8, JobFields DEF InsertGrained
  <2>2. Goto(h, CASE job[h].by = "register" -> Idle
                  [] job[h].by = "ldap" -> TokenJob(u, NoAccount, FALSE)
                  [] job[h].by = "oidc" -> [pc |-> "reread", user |-> u])
    BY <1>2, <1>8 DEF InsertGrained
  <2>3. CASE job[h].by = "register"
    BY <1>5, <2>2, <2>3
  <2>4. CASE job[h].by = "ldap"
    <3>1. Goto(h, TokenJob(u, NoAccount, FALSE))
      BY <2>2, <2>4
    <3> QED
      BY <1>3, <1>7, <3>1
  <2>5. CASE job[h].by = "oidc"
    BY <1>6, <2>2, <2>5
  <2> QED
    BY <2>1, <2>3, <2>4, <2>5
<1>9. ASSUME OidcReread(h)
      PROVE  Goal
  <2>1. Goto(h, IF rows[u] = <<>> THEN TokenJob(Nobody, NoAccount, FALSE)
                ELSE TokenJob(u, First(u), TRUE))
    BY <1>2, <1>9 DEF OidcReread
  <2>2. CASE rows[u] = <<>>
    <3>1. Goto(h, TokenJob(Nobody, NoAccount, FALSE))
      BY <2>1, <2>2
    <3> QED
      BY <1>3, <1>7, <3>1
  <2>3. CASE rows[u] # <<>>
    <3>1. Goto(h, TokenJob(u, First(u), TRUE))
      BY <2>1, <2>3
    <3> QED
      BY <1>3, <1>7, <2>3, <3>1
  <2> QED
    BY <2>2, <2>3
<1> QED
  BY <1>1, <1>2, <1>8, <1>9

\* The three UPDATEs of an account: what it may change, and whose data become stale.
Update(u) ==
    \/ \E p \in Passwords : ChangePassword(u, p)
    \/ \E n \in RealNames \union {None}, r \in BOOLEAN : SuperUserEdit(u, n, r)
    \/ \E t \in tokens, n \in RealNames : t.user = u /\ editPersonalUser(t, n)

LEMMA UpdateFacts ==
    ASSUME TypeOK, NEW u \in Users, Update(u)
    PROVE  /\ rows' \in [Users -> Seq(Account)]
           /\ \A v \in Users : /\ v # u => rows'[v] = rows[v]
                               /\ Len(rows'[v]) = Len(rows[v])
                               /\ rows'[v] = <<>> <=> rows[v] = <<>>
           /\ \/ /\ UNCHANGED <<tokens, orders, job>>
                 /\ \E p \in Passwords : /\ secret' = [secret EXCEPT ![u] = p]
                                         /\ \A i \in DOMAIN rows'[u] : rows'[u][i].password = p
                 /\ First(u).name' = First(u).name /\ First(u).record' = First(u).record
              \/ /\ StaleTokens(u) /\ job' = StaleJobs(u) /\ secret' = secret
                 /\ DOMAIN rows'[u] = DOMAIN rows[u]
                 /\ \A i \in DOMAIN rows[u] : rows'[u][i].password = rows[u][i].password
                 /\ \/ StaleOrders(u)
                    \/ \E n \in RealNames \union {None} :
                          /\ rows[u] # <<>> => First(u).name' = n
                          /\ RenameOrders(u, n)
           /\ UNCHANGED <<grained, restarts, torn>> /\ requests' \in 0 .. MaxRequests
<1>0. Request => requests' \in 0 .. MaxRequests
  BY AccountsAssumption DEF Request, TypeOK
<1>1. ASSUME NEW p \in Passwords, ChangePassword(u, p)
      PROVE  /\ rows' \in [Users -> Seq(Account)]
             /\ \A v \in Users : /\ v # u => rows'[v] = rows[v]
                                 /\ Len(rows'[v]) = Len(rows[v])
                                 /\ rows'[v] = <<>> <=> rows[v] = <<>>
             /\ \A i \in DOMAIN rows'[u] : rows'[u][i].password = p
             /\ First(u).name' = First(u).name /\ First(u).record' = First(u).record
  <2> DEFINE Set == [r \in Account |-> [r EXCEPT !.password = p]]
  <2>1. UpdateAll(u, Set)
    BY <1>1 DEF ChangePassword
  <2>2. \A r \in Account : /\ Set[r] \in Account /\ Set[r].password = p
                           /\ Set[r].name = r.name /\ Set[r].record = r.record
    BY DEF Account
  <2>3. Set \in [Account -> Account]
    BY <2>2
  <2>4. First(u) \in Account
    BY FirstType
  <2> HIDE DEF Set
  <2>5. /\ rows' \in [Users -> Seq(Account)]
        /\ \A v \in Users : /\ v # u => rows'[v] = rows[v]
                            /\ Len(rows'[v]) = Len(rows[v])
                            /\ DOMAIN rows'[v] = DOMAIN rows[v]
                            /\ rows'[v] = <<>> <=> rows[v] = <<>>
        /\ \A i \in DOMAIN rows[u] : rows[u][i] \in Account /\ rows'[u][i] = Set[rows[u][i]]
        /\ rows[u] # <<>> => First(u)' = Set[First(u)]
    BY <2>1, <2>3, UpdateKeeps
  <2>6. \A i \in DOMAIN rows'[u] : rows'[u][i].password = p
    BY <2>2, <2>5
  <2>7. First(u).name' = First(u).name /\ First(u).record' = First(u).record
    <3>1. CASE rows[u] # <<>>
      BY <2>2, <2>4, <2>5, <3>1
    <3>2. CASE rows[u] = <<>>
      BY <2>5, <3>2 DEF First
    <3> QED
      BY <3>1, <3>2
  <2> QED
    BY <2>5, <2>6, <2>7
<1>2. ASSUME NEW Set \in [Account -> Account], UpdateAll(u, Set),
             \A r \in Account : Set[r].password = r.password
      PROVE  /\ rows' \in [Users -> Seq(Account)]
             /\ \A v \in Users : /\ v # u => rows'[v] = rows[v]
                                 /\ Len(rows'[v]) = Len(rows[v])
                                 /\ rows'[v] = <<>> <=> rows[v] = <<>>
             /\ DOMAIN rows'[u] = DOMAIN rows[u]
             /\ \A i \in DOMAIN rows[u] : rows'[u][i].password = rows[u][i].password
             /\ rows[u] # <<>> => First(u)' = Set[First(u)]
  BY <1>2, UpdateKeeps
<1>3. ASSUME NEW n \in RealNames \union {None}, NEW r \in BOOLEAN, SuperUserEdit(u, n, r)
      PROVE  /\ rows' \in [Users -> Seq(Account)]
             /\ \A v \in Users : /\ v # u => rows'[v] = rows[v]
                                 /\ Len(rows'[v]) = Len(rows[v])
                                 /\ rows'[v] = <<>> <=> rows[v] = <<>>
             /\ DOMAIN rows'[u] = DOMAIN rows[u]
             /\ \A i \in DOMAIN rows[u] : rows'[u][i].password = rows[u][i].password
             /\ rows[u] # <<>> => First(u).name' = n
  <2> DEFINE Set == [x \in Account |-> [x EXCEPT !.name = n, !.record = r]]
  <2>1. UpdateAll(u, Set)
    BY <1>3 DEF SuperUserEdit
  <2>2. \A x \in Account : /\ Set[x] \in Account /\ Set[x].password = x.password
                           /\ Set[x].name = n
    BY DEF Account
  <2>3. Set \in [Account -> Account]
    BY <2>2
  <2>4. First(u) \in Account
    BY FirstType
  <2> HIDE DEF Set
  <2> QED
    BY <1>2, <2>1, <2>2, <2>3, <2>4
<1>4. ASSUME NEW n \in RealNames, NEW t \in tokens, t.user = u, editPersonalUser(t, n)
      PROVE  /\ rows' \in [Users -> Seq(Account)]
             /\ \A v \in Users : /\ v # u => rows'[v] = rows[v]
                                 /\ Len(rows'[v]) = Len(rows[v])
                                 /\ rows'[v] = <<>> <=> rows[v] = <<>>
             /\ DOMAIN rows'[u] = DOMAIN rows[u]
             /\ \A i \in DOMAIN rows[u] : rows'[u][i].password = rows[u][i].password
  <2> DEFINE Set == [x \in Account |-> [x EXCEPT !.name = n]]
  <2>1. UpdateAll(u, Set)
    BY <1>4 DEF editPersonalUser
  <2>2. \A x \in Account : Set[x] \in Account /\ Set[x].password = x.password
    BY DEF Account
  <2>3. Set \in [Account -> Account]
    BY <2>2
  <2> HIDE DEF Set
  <2> QED
    BY <1>2, <2>1, <2>2, <2>3
<1>5. CASE \E p \in Passwords : ChangePassword(u, p)
  BY <1>0, <1>1, <1>5 DEF ChangePassword
<1>6. CASE \E n \in RealNames \union {None}, r \in BOOLEAN : SuperUserEdit(u, n, r)
  BY <1>0, <1>3, <1>6 DEF SuperUserEdit
<1>7. CASE \E t \in tokens, n \in RealNames : t.user = u /\ editPersonalUser(t, n)
  BY <1>0, <1>4, <1>7 DEF editPersonalUser
<1> QED
  BY <1>5, <1>6, <1>7 DEF Update

\* A step is the start of a request, a statement of one, an UPDATE, a deletion, an order
\* that is posted, the passing of an hour or the end of the process.
LEMMA Steps ==
    ASSUME TypeOK, [Next]_vars
    PROVE  \/ \E h \in Handlers : Begin(h) \/ Go(h)
           \/ \E u \in Users : Update(u)
           \/ \E h \in Handlers, u \in Users : DeleteAccount(h, u)
           \/ \E t \in tokens : PostOrder(t)
           \/ Hour \/ Stop
           \/ UNCHANGED vars
<1>1. ASSUME NEW t \in tokens, NEW n \in RealNames, editPersonalUser(t, n)
      PROVE  \E u \in Users : Update(u)
  BY <1>1 DEF Update, editPersonalUser
<1>2. SuperManageGroup => \/ \E h \in Handlers : Begin(h)
                          \/ \E u \in Users : Update(u)
                          \/ \E h \in Handlers, u \in Users : DeleteAccount(h, u)
  BY DEF SuperManageGroup, ManageUserCreateOrEdit, Begin, Update
<1>3. (\E h \in Handlers, u \in Users :
          \/ \E n \in RealNames, p \in Passwords : RegisterLook(h, u, n, p)
          \/ \E p \in Passwords : GeneralLogin(h, u, p)
          \/ LdapLogin(h, u)
          \/ OidcLogin(h, u)) => \E h \in Handlers : Begin(h)
  BY DEF Begin
<1> QED
  BY <1>1, <1>2, <1>3 DEF Next

-----------------------------------------------------------------------------
(***************************************************************************)
(* Types.                                                                  *)
(***************************************************************************)
LEMMA TypeInit == Init => TypeOK
<1> SUFFICES ASSUME Init PROVE TypeOK
  OBVIOUS
<1>1. Idle \in JobType
  BY DEF JobType
<1>2. 0 \in 0 .. MaxRequests /\ 0 \in 0 .. MaxRestarts
  BY AccountsAssumption
<1> QED
  BY <1>1, <1>2 DEF Init, TypeOK

LEMMA GoType ==
    ASSUME TypeOK, NEW h \in Handlers, Go(h)
    PROVE  TypeOK'
<1>1. CASE InsertAccount(h)
  <2>1. PICK u : u = job[h].user
    OBVIOUS
  <2>2. /\ u \in Users /\ rows' \in [Users -> Seq(Account)] /\ job' \in [Handlers -> JobType]
    BY <1>1, <2>1, InsertFacts
  <2>3. /\ tokens' \subseteq TokenType
        /\ orders' \in [Users -> Seq([name : RealNames \union {None}, fresh : BOOLEAN])]
    <3>1. CASE rows[u] = <<>>
      BY <1>1, <2>1, <2>2, <3>1, TokensStale, OrdersStale DEF InsertAccount, Orders
    <3>2. CASE rows[u] # <<>>
      BY <1>1, <2>1, <3>2 DEF InsertAccount, TypeOK
    <3> QED
      BY <3>1, <3>2
  <2>4. UNCHANGED <<grained, requests, restarts, torn>> /\ secret' = [secret EXCEPT ![u] = None]
    BY <1>1, <2>1 DEF InsertAccount
  <2> QED
    BY <2>2, <2>3, <2>4 DEF TypeOK
<1>2. CASE InsertGrained(h)
  <2>1. /\ job' \in [Handlers -> JobType] /\ requests' \in 0 .. MaxRequests
        /\ UNCHANGED <<rows, tokens, orders, restarts, secret, torn>> /\ job[h].user \in Users
    BY <1>2, NextTask, GotoFacts
  <2>2. PICK u \in Users : grained' = [grained EXCEPT ![u] = grained[u] + 1]
    BY <1>2, <2>1 DEF InsertGrained
  <2>3. grained[u] + 1 \in Nat
    BY DEF TypeOK
  <2>4. grained' \in [Users -> Nat]
    BY <2>2, <2>3 DEF TypeOK
  <2> QED
    BY <2>1, <2>4 DEF TypeOK
<1>3. CASE OidcReread(h)
  <2>1. /\ job' \in [Handlers -> JobType] /\ requests' \in 0 .. MaxRequests
        /\ UNCHANGED <<rows, tokens, orders, restarts, secret, torn>>
    BY <1>3, NextTask, GotoFacts
  <2>2. grained' = grained
    BY <1>3 DEF OidcReread
  <2> QED
    BY <2>1, <2>2 DEF TypeOK
<1>4. Idle \in JobType
  BY DEF JobType
<1>5. CASE JwtAuth(h)
  <2>1. [user |-> job[h].user, name |-> job[h].name, record |-> job[h].record,
         fresh |-> job[h].fresh, left |-> Hours] \in TokenType
    BY <1>5, JobFields, AccountsAssumption DEF JwtAuth, TokenType
  <2>2. job' \in [Handlers -> JobType] /\ requests' \in 0 .. MaxRequests
    BY <1>4, <1>5, GotoFacts DEF JwtAuth
  <2> QED
    BY <1>5, <2>1, <2>2 DEF JwtAuth, TypeOK
<1>6. CASE DeleteGrained(h)
  <2>1. job[h].user \in Users
    BY <1>6, JobFields DEF DeleteGrained
  <2>2. job' \in [Handlers -> JobType] /\ requests' \in 0 .. MaxRequests
    BY <1>4, <1>6, GotoFacts DEF DeleteGrained
  <2> QED
    BY <1>6, <2>1, <2>2 DEF DeleteGrained, TypeOK
<1> QED
  BY <1>1, <1>2, <1>3, <1>5, <1>6 DEF Go

\* What becomes of the goroutines when an account is deleted.
LEMMA DeleteFacts ==
    ASSUME TypeOK, NEW h \in Handlers, NEW u \in Users, DeleteAccount(h, u)
    PROVE  /\ rows' \in [Users -> Seq(Account)] /\ rows'[u] = <<>>
           /\ \A v \in Users : v # u => rows'[v] = rows[v]
           /\ job' \in [Handlers -> JobType]
           /\ job[h].pc = "idle" /\ job'[h].pc = "degrain"
           /\ \A g \in Handlers : g # h => job'[g] = StaleJobs(u)[g]
           /\ StaleTokens(u) /\ StaleOrders(u)
           /\ UNCHANGED <<grained, restarts, secret, torn>> /\ requests' \in 0 .. MaxRequests
<1>1. /\ rows' = [rows EXCEPT ![u] = <<>>]
      /\ job' = [StaleJobs(u) EXCEPT ![h] = [pc |-> "degrain", user |-> u]]
      /\ StaleTokens(u) /\ StaleOrders(u) /\ UNCHANGED <<grained, restarts, secret, torn>>
      /\ job[h] = Idle
  BY DEF DeleteAccount
<1>2. requests' \in 0 .. MaxRequests
  BY AccountsAssumption DEF DeleteAccount, Request, TypeOK
<1>3. <<>> \in Seq(Account) /\ rows \in [Users -> Seq(Account)]
  BY DEF TypeOK
<1>4. StaleJobs(u) \in [Handlers -> JobType]
  <2>1. StaleJobs(u) = [g \in Handlers |-> StaleJobs(u)[g]]
    BY DEF StaleJobs
  <2> QED
    BY <2>1, JobsStale
<1>5. [pc |-> "degrain", user |-> u] \in JobType
  BY TasksTyped
<1>6. /\ job' \in [Handlers -> JobType] /\ job'[h].pc = "degrain"
      /\ \A g \in Handlers : g # h => job'[g] = StaleJobs(u)[g]
  BY <1>1, <1>4, <1>5
<1>7. rows' \in [Users -> Seq(Account)] /\ rows'[u] = <<>>
      /\ \A v \in Users : v # u => rows'[v] = rows[v]
  BY <1>1, <1>3
<1> QED
  BY <1>1, <1>2, <1>6, <1>7 DEF Idle

\* What an order that is posted takes from its token.
LEMMA PostFacts ==
    ASSUME TypeOK, NEW t \in tokens, PostOrder(t), NEW u, u = t.user
    PROVE  /\ u \in Users /\ orders' \in [Users -> Seq(Orders)]
           /\ \A v \in Users : v # u => orders'[v] = orders[v]
           /\ \A i \in DOMAIN orders'[u] :
                 \/ i \in DOMAIN orders[u] /\ orders'[u][i] = orders[u][i]
                 \/ orders'[u][i].name = t.name /\ orders'[u][i].fresh = t.fresh
<1>1. t \in TokenType /\ u \in Users
  BY DEF TypeOK, PostOrder
<1>2. PICK r \in Orders : r = [name |-> t.name, fresh |-> t.fresh]
  BY <1>1 DEF TokenType, Orders
<1>3. PICK q \in Seq(Orders) : q = orders[u]
  BY <1>1 DEF TypeOK, Orders
<1>4. orders' = [orders EXCEPT ![u] = Append(q, r)]
  BY <1>2, <1>3 DEF PostOrder
<1>5. /\ Append(q, r) \in Seq(Orders) /\ DOMAIN Append(q, r) = 1 .. Len(q) + 1
      /\ Len(q) \in Nat /\ DOMAIN q = 1 .. Len(q)
      /\ \A i \in 1 .. Len(q) : Append(q, r)[i] = q[i]
      /\ Append(q, r)[Len(q) + 1] = r
  OBVIOUS
<1>6. orders \in [Users -> Seq(Orders)]
  BY DEF TypeOK, Orders
<1>7. orders'[u] = Append(q, r) /\ \A v \in Users : v # u => orders'[v] = orders[v]
  BY <1>1, <1>4, <1>6
<1>8. \A i \in DOMAIN Append(q, r) : \/ i \in DOMAIN q /\ Append(q, r)[i] = q[i]
                                     \/ Append(q, r)[i] = r
  BY <1>5
<1>9. r.name = t.name /\ r.fresh = t.fresh
  BY <1>2
<1> QED
  BY <1>1, <1>3, <1>4, <1>5, <1>6, <1>7, <1>8, <1>9

LEMMA TypeStep ==
    ASSUME TypeOK, [Next]_vars
    PROVE  TypeOK'
<1>1. ASSUME NEW h \in Handlers, Begin(h)
      PROVE  TypeOK'
  <2>1. job' \in [Handlers -> JobType] /\ requests' \in 0 .. MaxRequests
    BY <1>1, BeginTask, GotoFacts
  <2> QED
    BY <1>1, <2>1, BeginTask DEF TypeOK
<1>2. ASSUME NEW u \in Users, Update(u)
      PROVE  TypeOK'
  <2>1. /\ rows' \in [Users -> Seq(Account)] /\ UNCHANGED <<grained, restarts, torn>>
        /\ requests' \in 0 .. MaxRequests
    BY <1>2, UpdateFacts
  <2>2. CASE /\ UNCHANGED <<tokens, orders, job>>
             /\ \E p \in Passwords : secret' = [secret EXCEPT ![u] = p]
    BY <2>1, <2>2 DEF TypeOK
  <2>3. CASE /\ StaleTokens(u) /\ job' = StaleJobs(u) /\ secret' = secret
             /\ \/ StaleOrders(u)
                \/ \E n \in RealNames \union {None} : RenameOrders(u, n)
    <3>1. job' \in [Handlers -> JobType]
      <4>1. StaleJobs(u) = [g \in Handlers |-> StaleJobs(u)[g]]
        BY DEF StaleJobs
      <4> QED
        BY <2>3, <4>1, JobsStale
    <3>2. orders' \in [Users -> Seq(Orders)]
      <4>1. ASSUME NEW n \in RealNames \union {None}, RenameOrders(u, n)
            PROVE  orders' \in [Users -> Seq(Orders)]
        BY <4>1, OrdersRenamed
      <4> QED
        BY <2>3, <4>1, OrdersStale
    <3>3. tokens' \subseteq TokenType
      BY <2>3, TokensStale
    <3> QED
      BY <2>1, <2>3, <3>1, <3>2, <3>3 DEF TypeOK, Orders
  <2> QED
    BY <1>2, <2>2, <2>3, UpdateFacts
<1>3. ASSUME NEW h \in Handlers, NEW u \in Users, DeleteAccount(h, u)
      PROVE  TypeOK'
  <2>1. /\ rows' \in [Users -> Seq(Account)] /\ job' \in [Handlers -> JobType]
        /\ StaleTokens(u) /\ StaleOrders(u)
        /\ UNCHANGED <<grained, restarts, secret, torn>> /\ requests' \in 0 .. MaxRequests
    BY <1>3, DeleteFacts
  <2>2. tokens' \subseteq TokenType /\ orders' \in [Users -> Seq(Orders)]
    BY <2>1, TokensStale, OrdersStale
  <2> QED
    BY <2>1, <2>2 DEF TypeOK, Orders
<1>4. ASSUME NEW t \in tokens, PostOrder(t)
      PROVE  TypeOK'
  <2>1. orders' \in [Users -> Seq(Orders)]
    BY <1>4, PostFacts
  <2> QED
    BY <1>4, <2>1 DEF PostOrder, TypeOK, Orders
<1>5. CASE Hour
  <2>1. tokens' \subseteq TokenType
    <3>1. ASSUME NEW t \in TokenType, t.left > 1
          PROVE  [t EXCEPT !.left = t.left - 1] \in TokenType
      <4>1. t.left - 1 \in 1 .. Hours
        BY <3>1, AccountsAssumption DEF TokenType
      <4> QED
        BY <4>1 DEF TokenType
    <3> QED
      BY <1>5, <3>1 DEF Hour, TypeOK
  <2> QED
    BY <1>5, <2>1 DEF Hour, TypeOK
<1>6. CASE Stop
  <2>1. \A h \in Handlers : job[h].pc = "grained" => job[h].user \in Users
    BY JobFields
  <2>2. Idle \in JobType /\ restarts' \in 0 .. MaxRestarts
    BY <1>6, AccountsAssumption DEF Stop, TypeOK, JobType
  <2> QED
    BY <1>6, <2>1, <2>2 DEF Stop, TypeOK
<1>7. CASE UNCHANGED vars
  BY <1>7 DEF vars, TypeOK
<1> QED
  BY <1>1, <1>2, <1>3, <1>4, <1>5, <1>6, <1>7, GoType, Steps

\* Rows, tokens, orders and requests keep their types, however requests, deletions,
\* expiries and restarts interleave.
THEOREM TypeCorrect == Spec => []TypeOK
<1> QED
  BY TypeInit, TypeStep, PTL DEF Spec

-----------------------------------------------------------------------------
(***************************************************************************)
(* How many accounts a name can get.                                       *)
(***************************************************************************)

\* The creations of u that have looked and not yet inserted.
Creating(u) == {h \in Handlers : job[h].pc = "account" /\ job[h].user = u}

\* Each row of u was inserted by a creation that had found none: those still to insert
\* and the rows together are never more than the goroutines.
RowsBounded == \A u \in Users : Len(rows[u]) + Cardinality(Creating(u)) <= Cardinality(Handlers)

\* Sets of goroutines are finite.
LEMMA GoroutineSets ==
    ASSUME NEW S \in SUBSET Handlers, NEW T \in SUBSET S
    PROVE  /\ IsFiniteSet(S) /\ Cardinality(S) \in Nat /\ Cardinality(T) \in Nat
           /\ Cardinality(T) <= Cardinality(S) /\ Cardinality(S) <= Cardinality(Handlers)
           /\ Cardinality(Handlers) \in Nat
<1>1. IsFiniteSet(Handlers)
  BY AccountsAssumption
<1>2. IsFiniteSet(S) /\ Cardinality(S) <= Cardinality(Handlers)
  BY <1>1, FS_Subset
<1>3. IsFiniteSet(T) /\ Cardinality(T) <= Cardinality(S)
  BY <1>2, FS_Subset
<1> QED
  BY <1>1, <1>2, <1>3, FS_CardinalityType

\* No creation of u begins, and u gets no row.
LEMMA BoundStays ==
    ASSUME TypeOK, RowsBounded, NEW u \in Users, rows'[u] \in Seq(Account),
           \/ rows'[u] = <<>>
           \/ Len(rows'[u]) = Len(rows[u]) /\ Creating(u)' \subseteq Creating(u)
    PROVE  Len(rows'[u]) + Cardinality(Creating(u)') <= Cardinality(Handlers)
<1>1. Creating(u) \in SUBSET Handlers /\ Creating(u)' \in SUBSET Handlers
  BY DEF Creating
<1>2. CASE rows'[u] = <<>>
  <2>1. Len(rows'[u]) = 0
    BY <1>2
  <2>2. Cardinality(Creating(u)') <= Cardinality(Handlers) /\ Cardinality(Creating(u)') \in Nat
    BY <1>1, GoroutineSets
  <2> QED
    BY <2>1, <2>2
<1>3. CASE Len(rows'[u]) = Len(rows[u]) /\ Creating(u)' \subseteq Creating(u)
  <2>1. PICK S \in SUBSET Handlers, T \in SUBSET Handlers :
           S = Creating(u) /\ T = Creating(u)' /\ T \subseteq S
    BY <1>1, <1>3
  <2>2. /\ Cardinality(S) \in Nat /\ Cardinality(T) \in Nat /\ Cardinality(T) <= Cardinality(S)
        /\ Cardinality(Handlers) \in Nat
    BY <2>1, GoroutineSets
  <2>3. Len(rows[u]) + Cardinality(S) <= Cardinality(Handlers)
    BY <2>1 DEF RowsBounded
  <2>4. Len(rows[u]) \in Nat
    BY DEF TypeOK
  <2> QED
    BY <1>3, <2>1, <2>2, <2>3, <2>4
<1> QED
  BY <1>2, <1>3

\* What a step does to the rows of u and to the creations that are to insert one.
LEMMA RowsMoves ==
    ASSUME TypeOK, [Next]_vars, NEW u \in Users
    PROVE  \/ rows'[u] = <<>>
           \/ Len(rows'[u]) = Len(rows[u]) /\ Creating(u)' \subseteq Creating(u)
           \/ \E h \in Handlers : InsertAccount(h) /\ job[h].user = u
<1> DEFINE Goal == \/ rows'[u] = <<>>
                   \/ Len(rows'[u]) = Len(rows[u]) /\ Creating(u)' \subseteq Creating(u)
                   \/ \E h \in Handlers : InsertAccount(h) /\ job[h].user = u
<1>1. ASSUME rows'[u] = rows[u],
             \A g \in Handlers : job'[g].pc = "account" /\ job'[g].user = u
                => job[g].pc = "account" /\ job[g].user = u
      PROVE  Goal
  BY <1>1 DEF Creating
<1>2. ASSUME NEW h \in Handlers, Begin(h)
      PROVE  Goal
  <2>1. PICK t \in JobType :
           /\ Serve(h, t)
           /\ \/ t.pc = "account" /\ t.user \in Users /\ rows[t.user] = <<>>
              \/ t.pc = "token" /\ t.user \in Users /\ Knows(t)
    BY <1>2, BeginTask
  <2>2. rows' = rows
    BY <1>2, BeginTask
  <2>3. job'[h] = t /\ \A g \in Handlers : g # h => job'[g] = job[g]
    BY <2>1, GotoFacts
  <2>4. CASE t.pc = "account" /\ t.user = u
    BY <2>1, <2>2, <2>4
  <2>5. CASE ~(t.pc = "account" /\ t.user = u)
    BY <1>1, <2>2, <2>3, <2>5
  <2> QED
    BY <2>4, <2>5
<1>3. ASSUME NEW h \in Handlers, NEW t \in JobType, Goto(h, t), t.pc # "account", rows' = rows
      PROVE  Goal
  BY <1>1, <1>3, GotoFacts
<1>4. Idle \in JobType /\ Idle.pc = "idle"
  BY DEF JobType, Idle
<1>5. ASSUME NEW h \in Handlers, Go(h), job[h].user # u \/ ~InsertAccount(h)
      PROVE  Goal
  <2>1. CASE InsertAccount(h)
    <3>1. PICK v \in Users : v = job[h].user
      BY <2>1, InsertFacts
    <3>2. /\ rows'[u] = rows[u] /\ job'[h].pc = "grained"
          /\ \A g \in Handlers : g # h => job'[g] = job[g] \/ job'[g] = StaleJobs(v)[g]
      BY <1>5, <2>1, <3>1, InsertFacts
    <3> QED
      BY <1>1, <3>1, <3>2, JobsStale
  <2>2. CASE InsertGrained(h) \/ OidcReread(h)
    BY <1>3, <2>2, NextTask
  <2>3. CASE JwtAuth(h) \/ DeleteGrained(h)
    BY <1>3, <1>4, <2>3 DEF JwtAuth, DeleteGrained
  <2> QED
    BY <1>5, <2>1, <2>2, <2>3 DEF Go
<1>6. ASSUME NEW v \in Users, Update(v)
      PROVE  Goal
  <2>1. Len(rows'[u]) = Len(rows[u]) /\ (job' = job \/ job' = StaleJobs(v))
    BY <1>6, UpdateFacts
  <2>2. Creating(u)' \subseteq Creating(u)
    BY <2>1, JobsStale DEF Creating
  <2> QED
    BY <2>1, <2>2
<1>7. ASSUME NEW h \in Handlers, NEW v \in Users, DeleteAccount(h, v)
      PROVE  Goal
  <2>1. CASE v = u
    BY <1>7, <2>1, DeleteFacts
  <2>2. CASE v # u
    <3>1. /\ rows'[u] = rows[u] /\ job'[h].pc = "degrain"
          /\ \A g \in Handlers : g # h => job'[g] = StaleJobs(v)[g]
      BY <1>7, <2>2, DeleteFacts
    <3> QED
      BY <1>1, <3>1, JobsStale
  <2> QED
    BY <2>1, <2>2
<1>8. CASE (\E t \in tokens : PostOrder(t)) \/ Hour \/ UNCHANGED vars
  BY <1>1, <1>8 DEF PostOrder, Hour, vars
<1>9. CASE Stop
  BY <1>1, <1>4, <1>9 DEF Stop
<1> QED
  BY <1>2, <1>5, <1>6, <1>7, <1>8, <1>9, Steps

LEMMA BoundStep ==
    ASSUME TypeOK, RowsBounded, [Next]_vars
    PROVE  RowsBounded'
<1> SUFFICES ASSUME NEW u \in Users
             PROVE  Len(rows'[u]) + Cardinality(Creating(u)') <= Cardinality(Handlers)
  BY DEF RowsBounded
<1>1. rows'[u] \in Seq(Account)
  BY TypeStep DEF TypeOK
<1>2. ASSUME NEW h \in Handlers, InsertAccount(h), job[h].user = u
      PROVE  Len(rows'[u]) + Cardinality(Creating(u)') <= Cardinality(Handlers)
  <2>1. /\ Len(rows'[u]) = Len(rows[u]) + 1 /\ job'[h].pc = "grained"
        /\ \A g \in Handlers : g # h => job'[g] = job[g] \/ job'[g] = StaleJobs(u)[g]
    BY <1>2, InsertFacts
  <2>2. h \in Creating(u)
    BY <1>2 DEF Creating, InsertAccount
  <2>3. Creating(u)' \subseteq Creating(u) \ {h}
    BY <2>1, JobsStale DEF Creating
  <2>4. PICK S \in SUBSET Handlers : S = Creating(u)
    BY DEF Creating
  <2>5. IsFiniteSet(S) /\ h \in S
    BY <2>2, <2>4, GoroutineSets
  <2>6. Cardinality(S \ {h}) = Cardinality(S) - 1
    BY <2>5, FS_RemoveElement
  <2>7. Cardinality(Creating(u)') <= Cardinality(S \ {h}) /\ Cardinality(Creating(u)') \in Nat
    <3>1. PICK T \in SUBSET (S \ {h}) : T = Creating(u)'
      BY <2>3, <2>4
    <3>2. S \ {h} \in SUBSET Handlers
      OBVIOUS
    <3> QED
      BY <3>1, <3>2, GoroutineSets
  <2>8. Len(rows[u]) + Cardinality(S) <= Cardinality(Handlers)
    BY <2>4 DEF RowsBounded
  <2>9. Len(rows[u]) \in Nat /\ Cardinality(S) \in Nat /\ Cardinality(Handlers) \in Nat
    BY GoroutineSets DEF TypeOK
  <2> QED
    BY <2>1, <2>6, <2>7, <2>8, <2>9
<1> QED
  BY <1>1, <1>2, BoundStays, RowsMoves

\* Creations look for the name first and insert later (user/impl.go), so that a name
\* may get several accounts, but never more than there are request goroutines.
THEOREM DuplicatesBounded == Spec => []DuplicatesAreConcurrent
<1>1. Init => RowsBounded
  <2> SUFFICES ASSUME Init, NEW u \in Users
               PROVE  Len(rows[u]) + Cardinality(Creating(u)) <= Cardinality(Handlers)
    BY DEF RowsBounded
  <2>1. rows[u] = <<>> /\ Len(rows[u]) = 0
    BY DEF Init
  <2>2. Creating(u) \in SUBSET Handlers
    BY DEF Creating
  <2>3. Cardinality(Creating(u)) <= Cardinality(Handlers) /\ Cardinality(Creating(u)) \in Nat
    BY <2>2, GoroutineSets
  <2> QED
    BY <2>1, <2>3
<1>2. TypeOK /\ RowsBounded => DuplicatesAreConcurrent
  <2> SUFFICES ASSUME TypeOK, RowsBounded, NEW u \in Users
               PROVE  Len(rows[u]) <= Cardinality(Handlers)
    BY DEF DuplicatesAreConcurrent
  <2>1. Creating(u) \in SUBSET Handlers
    BY DEF Creating
  <2>2. Cardinality(Creating(u)) \in Nat /\ Cardinality(Handlers) \in Nat
    BY <2>1, GoroutineSets
  <2>3. Len(rows[u]) \in Nat
    BY DEF TypeOK
  <2> QED
    BY <2>2, <2>3 DEF RowsBounded
<1> QED
  BY <1>1, <1>2, BoundStep, TypeCorrect, PTL DEF Spec

-----------------------------------------------------------------------------
(***************************************************************************)
(* The row in core_graineds.                                               *)
(***************************************************************************)

\* A goroutine that is to insert the row of u.
Graining(u) == \E h \in Handlers : job[h].pc = "grained" /\ job[h].user = u

LEMMA GrainedStep ==
    ASSUME TypeOK, AccountHasGroups, [Next]_vars
    PROVE  AccountHasGroups'
<1> SUFFICES ASSUME NEW u \in Users, rows'[u] # <<>>, grained'[u] = 0, u \notin torn'
             PROVE  Graining(u)'
  BY DEF AccountHasGroups, Graining
<1>1. ASSUME rows[u] # <<>>, grained[u] = 0, u \notin torn,
             \A g \in Handlers : job[g].pc = "grained" =>
                job'[g].pc = "grained" /\ job'[g].user = job[g].user
      PROVE  Graining(u)'
  <2>1. Graining(u)
    BY <1>1 DEF AccountHasGroups, Graining
  <2> QED
    BY <1>1, <2>1 DEF Graining
<1>2. ASSUME NEW h \in Handlers, NEW t \in JobType, Goto(h, t) \/ Serve(h, t),
             job[h].pc # "grained", UNCHANGED <<rows, grained, torn>>
      PROVE  Graining(u)'
  BY <1>1, <1>2, GotoFacts
<1>3. ASSUME NEW h \in Handlers, Begin(h)
      PROVE  Graining(u)'
  <2>1. PICK t \in JobType : Serve(h, t)
    BY <1>3, BeginTask
  <2>2. UNCHANGED <<rows, grained, torn>>
    BY <1>3, BeginTask
  <2>3. job[h].pc # "grained"
    BY <2>1, GotoFacts
  <2> QED
    BY <1>2, <2>1, <2>2, <2>3
<1>4. CASE \E h \in Handlers : InsertAccount(h)
  <2>1. PICK h \in Handlers : InsertAccount(h)
    BY <1>4
  <2>2. PICK v \in Users : v = job[h].user
    BY <2>1, InsertFacts
  <2>3. /\ job'[h].pc = "grained" /\ job'[h].user = v
        /\ \A g \in Handlers : g # h => job'[g] = job[g] \/ job'[g] = StaleJobs(v)[g]
        /\ v # u => rows'[u] = rows[u]
    BY <2>1, <2>2, InsertFacts
  <2>4. UNCHANGED <<grained, torn>> /\ job[h].pc # "grained"
    BY <2>1 DEF InsertAccount
  <2>5. CASE v = u
    BY <2>3, <2>5 DEF Graining
  <2>6. CASE v # u
    BY <1>1, <2>3, <2>4, <2>6, JobsStale
  <2> QED
    BY <2>5, <2>6
<1>5. CASE \E h \in Handlers : InsertGrained(h)
  <2>1. PICK h \in Handlers : InsertGrained(h)
    BY <1>5
  <2>2. PICK v \in Users : v = job[h].user
    BY <2>1, NextTask
  <2>3. UNCHANGED <<rows, torn>> /\ \A g \in Handlers : g # h => job'[g] = job[g]
    BY <2>1, NextTask, GotoFacts
  <2>4. grained' = [grained EXCEPT ![v] = grained[v] + 1] /\ grained \in [Users -> Nat]
    BY <2>1, <2>2 DEF InsertGrained, TypeOK
  <2>5. v # u /\ grained[u] = 0
    BY <2>4
  <2>6. Graining(u)
    BY <2>3, <2>5 DEF AccountHasGroups, Graining
  <2> QED
    BY <2>2, <2>3, <2>5, <2>6 DEF Graining
<1>6. CASE \E h \in Handlers : OidcReread(h)
  <2>1. PICK h \in Handlers : OidcReread(h)
    BY <1>6
  <2>2. PICK t \in JobType : Goto(h, t)
    BY <2>1, NextTask
  <2>3. UNCHANGED <<rows, grained, torn>> /\ job[h].pc # "grained"
    BY <2>1 DEF OidcReread
  <2> QED
    BY <1>2, <2>2, <2>3
<1>7. CASE \E h \in Handlers : JwtAuth(h)
  <2>1. Idle \in JobType
    BY DEF JobType
  <2> QED
    BY <1>2, <1>7, <2>1 DEF JwtAuth
<1>8. CASE \E h \in Handlers : DeleteGrained(h)
  <2>1. PICK h \in Handlers : DeleteGrained(h)
    BY <1>8
  <2>2. PICK v \in Users : v = job[h].user
    BY <2>1, JobFields DEF DeleteGrained
  <2>3. /\ grained' = [grained EXCEPT ![v] = 0] /\ rows' = rows
        /\ torn' = IF rows[v] # <<>> THEN torn \union {v} ELSE torn
        /\ job' = [job EXCEPT ![h] = Idle] /\ job[h].pc # "grained"
    BY <2>1, <2>2 DEF DeleteGrained, Goto
  <2>4. v # u
    BY <2>3
  <2>5. grained[u] = 0 /\ u \notin torn
    BY <2>3, <2>4 DEF TypeOK
  <2> QED
    BY <1>1, <2>3, <2>5 DEF TypeOK
<1>9. ASSUME NEW v \in Users, Update(v)
      PROVE  Graining(u)'
  <2>1. /\ rows'[u] = <<>> <=> rows[u] = <<>>
        /\ UNCHANGED <<grained, torn>> /\ (job' = job \/ job' = StaleJobs(v))
    BY <1>9, UpdateFacts
  <2> QED
    BY <1>1, <2>1, JobsStale
<1>10. ASSUME NEW h \in Handlers, NEW v \in Users, DeleteAccount(h, v)
       PROVE  Graining(u)'
  <2>1. v # u
    BY <1>10, DeleteFacts
  <2>2. /\ rows'[u] = rows[u] /\ UNCHANGED <<grained, torn>> /\ job[h].pc = "idle"
        /\ \A g \in Handlers : g # h => job'[g] = StaleJobs(v)[g]
    BY <1>10, <2>1, DeleteFacts
  <2> QED
    BY <1>1, <2>2, JobsStale
<1>11. CASE (\E t \in tokens : PostOrder(t)) \/ Hour \/ UNCHANGED vars
  BY <1>1, <1>11 DEF PostOrder, Hour, vars
<1>12. CASE Stop
  <2>1. rows[u] # <<>> /\ grained[u] = 0 /\ u \notin torn /\ ~Graining(u)
    BY <1>12 DEF Stop, Graining
  <2> QED
    BY <2>1 DEF AccountHasGroups, Graining
<1> QED
  BY <1>3, <1>4, <1>5, <1>6, <1>7, <1>8, <1>9, <1>10, <1>11, <1>12, Steps DEF Go

\* An account is without its row in core_graineds, and with it without groups, only
\* while its creation goes on or after a creation or a deletion was cut in two.
THEOREM GroupsFollow == Spec => []AccountHasGroups
<1>1. Init => AccountHasGroups
  BY DEF Init, AccountHasGroups
<1> QED
  BY <1>1, GrainedStep, TypeCorrect, PTL DEF Spec

-----------------------------------------------------------------------------
(***************************************************************************)
(* Passwords.                                                              *)
(***************************************************************************)
LEMMA PasswordStep ==
    ASSUME TypeOK, PasswordReachesDuplicates, [Next]_vars
    PROVE  PasswordReachesDuplicates'
<1> SUFFICES ASSUME NEW u \in Users, secret'[u] # None, NEW i \in DOMAIN rows'[u]
             PROVE  rows'[u][i].password = secret'[u]
  BY DEF PasswordReachesDuplicates
<1>1. ASSUME secret'[u] = secret[u], DOMAIN rows'[u] = DOMAIN rows[u],
             rows'[u][i].password = rows[u][i].password
      PROVE  rows'[u][i].password = secret'[u]
  BY <1>1 DEF PasswordReachesDuplicates
<1>2. ASSUME NEW h \in Handlers, Begin(h) \/ Go(h), ~InsertAccount(h)
      PROVE  UNCHANGED <<rows, secret>>
  <2>1. Begin(h) => UNCHANGED <<rows, secret>>
    BY BeginTask
  <2> QED
    BY <1>2, <2>1 DEF Go, InsertGrained, OidcReread, JwtAuth, DeleteGrained
<1>3. ASSUME NEW h \in Handlers, InsertAccount(h)
      PROVE  rows'[u][i].password = secret'[u]
  <2>1. PICK v \in Users : v = job[h].user
    BY <1>3, InsertFacts
  <2>2. secret' = [secret EXCEPT ![v] = None] /\ (v # u => rows'[u] = rows[u])
    BY <1>3, <2>1, InsertFacts DEF InsertAccount
  <2>3. v # u
    BY <2>2 DEF TypeOK
  <2> QED
    BY <1>1, <2>2, <2>3 DEF TypeOK
<1>4. ASSUME NEW v \in Users, Update(v)
      PROVE  rows'[u][i].password = secret'[u]
  <2>1. v # u => rows'[u] = rows[u]
    BY <1>4, UpdateFacts
  <2>2. CASE \E p \in Passwords : /\ secret' = [secret EXCEPT ![v] = p]
                                  /\ \A j \in DOMAIN rows'[v] : rows'[v][j].password = p
    BY <1>1, <2>1, <2>2 DEF TypeOK
  <2>3. CASE /\ secret' = secret /\ DOMAIN rows'[v] = DOMAIN rows[v]
             /\ \A j \in DOMAIN rows[v] : rows'[v][j].password = rows[v][j].password
    BY <1>1, <2>1, <2>3
  <2> QED
    BY <1>4, <2>2, <2>3, UpdateFacts
<1>5. ASSUME NEW h \in Handlers, NEW v \in Users, DeleteAccount(h, v)
      PROVE  rows'[u][i].password = secret'[u]
  <2>1. CASE v = u
    BY <1>5, <2>1, DeleteFacts
  <2>2. CASE v # u
    BY <1>1, <1>5, <2>2, DeleteFacts
  <2> QED
    BY <2>1, <2>2
<1>6. CASE (\E t \in tokens : PostOrder(t)) \/ Hour \/ Stop \/ UNCHANGED vars
  BY <1>1, <1>6 DEF PostOrder, Hour, Stop, vars
<1> QED
  BY <1>1, <1>2, <1>3, <1>4, <1>5, <1>6, Steps

\* The UPDATE of a password (WHERE username = ?) reaches every row of the name, so
\* that the old password is refused whichever of them a login reads.
THEOREM PasswordsHold == Spec => []PasswordReachesDuplicates
<1>1. Init => PasswordReachesDuplicates
  BY DEF Init, PasswordReachesDuplicates
<1> QED
  BY <1>1, PasswordStep, TypeCorrect, PTL DEF Spec

-----------------------------------------------------------------------------
(***************************************************************************)
(* What tokens and orders show of their account.                           *)
(***************************************************************************)

\* What FreshDataIsTrue says of one user, and the same of the logins that have read the
\* account and still have to issue their token.
FreshTokensOf(u) ==
    \A t \in tokens : t.user = u /\ t.fresh =>
        rows[u] # <<>> /\ t.name = First(u).name /\ t.record = First(u).record
FreshOrdersOf(u) ==
    \A i \in DOMAIN orders[u] : orders[u][i].fresh => orders[u][i].name = First(u).name
FreshTasksOf(u) ==
    \A h \in Handlers : job[h].pc = "token" /\ job[h].fresh /\ job[h].user = u =>
        rows[u] # <<>> /\ job[h].name = First(u).name /\ job[h].record = First(u).record

Fresh == \A u \in Users : FreshTokensOf(u) /\ FreshOrdersOf(u) /\ FreshTasksOf(u)

\* Fresh data stay true when the account read first stays, and no data become fresh.
LEMMA FreshStays ==
    ASSUME TypeOK, Fresh, NEW u \in Users,
           rows[u] # <<>> => rows'[u] # <<>> /\ First(u).record' = First(u).record,
           First(u).name' = First(u).name
    PROVE  /\ (\A t \in tokens' : t.fresh =>
                  \/ t.user # u
                  \/ \E x \in tokens : /\ x.fresh /\ x.user = t.user
                                       /\ x.name = t.name /\ x.record = t.record)
                 => FreshTokensOf(u)'
           /\ orders'[u] = orders[u] => FreshOrdersOf(u)'
           /\ (\A h \in Handlers : job'[h].pc = "token" /\ job'[h].fresh =>
                  job'[h].user # u \/ job'[h] = job[h])
                 => FreshTasksOf(u)'
BY DEF Fresh, FreshTokensOf, FreshOrdersOf, FreshTasksOf

\* Nothing is fresh of u after what makes the data of u stale.
LEMMA StaleAll ==
    ASSUME TypeOK, NEW u \in Users
    PROVE  /\ StaleTokens(u) => FreshTokensOf(u)'
           /\ StaleOrders(u) => FreshOrdersOf(u)'
           /\ \A h \in Handlers : job[h].pc = "token" /\ StaleJobs(u)[h].fresh => job[h].user # u
<1>1. StaleTokens(u) => FreshTokensOf(u)'
  BY TokensStale DEF FreshTokensOf
<1>2. StaleOrders(u) => FreshOrdersOf(u)'
  BY OrdersStale DEF FreshOrdersOf
<1> QED
  BY <1>1, <1>2, JobsStale

\* The data of another user's account may become stale, and those of u do not change.
LEMMA OthersFresh ==
    ASSUME TypeOK, Fresh, NEW u \in Users, NEW v \in Users, v # u, rows'[u] = rows[u],
           StaleTokens(v) \/ tokens' = tokens, orders'[u] = orders[u],
           \A h \in Handlers : \/ job'[h].pc # "token" \/ job'[h] = job[h]
                               \/ job'[h] = StaleJobs(v)[h]
    PROVE  FreshTokensOf(u)' /\ FreshOrdersOf(u)' /\ FreshTasksOf(u)'
<1>1. First(u)' = First(u)
  BY DEF First
<1>2. \A t \in tokens' : t.fresh =>
         \E x \in tokens : x.fresh /\ x.user = t.user /\ x.name = t.name /\ x.record = t.record
  BY TokensStale
<1>3. \A h \in Handlers : job'[h].pc = "token" /\ job'[h].fresh => job'[h] = job[h]
  BY JobsStale
<1> QED
  BY <1>1, <1>2, <1>3, FreshStays

LEMMA FreshStep ==
    ASSUME TypeOK, Fresh, [Next]_vars
    PROVE  Fresh'
<1> SUFFICES ASSUME NEW u \in Users
             PROVE  FreshTokensOf(u)' /\ FreshOrdersOf(u)' /\ FreshTasksOf(u)'
  BY DEF Fresh
<1> DEFINE Goal == FreshTokensOf(u)' /\ FreshOrdersOf(u)' /\ FreshTasksOf(u)'
<1>1. ASSUME NEW h \in Handlers, NEW t \in JobType, Goto(h, t) \/ Serve(h, t),
             UNCHANGED <<rows, tokens, orders>>,
             t.pc = "token" /\ t.fresh /\ t.user \in Users => Knows(t)
      PROVE  Goal
  <2>1. First(u)' = First(u) /\ rows'[u] = rows[u] /\ orders'[u] = orders[u]
    BY <1>1 DEF First
  <2>2. FreshTokensOf(u)' /\ FreshOrdersOf(u)'
    BY <1>1, <2>1 DEF Fresh, FreshTokensOf, FreshOrdersOf
  <2>3. job'[h] = t /\ \A g \in Handlers : g # h => job'[g] = job[g]
    BY <1>1, GotoFacts
  <2>4. FreshTasksOf(u)'
    BY <1>1, <2>1, <2>3 DEF Fresh, FreshTasksOf, Knows
  <2> QED
    BY <2>2, <2>4
<1>2. ASSUME NEW h \in Handlers, Begin(h)
      PROVE  Goal
  <2>1. PICK t \in JobType :
           /\ Serve(h, t)
           /\ \/ t.pc = "account" /\ t.user \in Users /\ rows[t.user] = <<>>
              \/ t.pc = "token" /\ t.user \in Users /\ Knows(t)
    BY <1>2, BeginTask
  <2>2. UNCHANGED <<rows, tokens, orders>>
    BY <1>2, BeginTask
  <2> QED
    BY <1>1, <2>1, <2>2
<1>3. ASSUME NEW h \in Handlers, InsertAccount(h)
      PROVE  Goal
  <2>1. PICK v \in Users : v = job[h].user
    BY <1>3, InsertFacts
  <2>2. /\ job'[h].pc = "grained" /\ (v # u => rows'[u] = rows[u])
        /\ rows[u] # <<>> => First(u)' = First(u) /\ rows'[u] # <<>>
        /\ \A g \in Handlers : g # h =>
              \/ rows[v] # <<>> /\ job'[g] = job[g]
              \/ rows[v] = <<>> /\ job'[g] = StaleJobs(v)[g]
    BY <1>3, <2>1, InsertFacts
  <2>3. IF rows[v] = <<>> THEN StaleTokens(v) /\ StaleOrders(v) ELSE UNCHANGED <<tokens, orders>>
    BY <1>3, <2>1 DEF InsertAccount
  <2>4. CASE v # u
    <3>1. orders'[u] = orders[u]
      BY <2>3, <2>4, OrdersStale
    <3> QED
      BY <2>2, <2>3, <2>4, <3>1, OthersFresh
  <2>5. CASE v = u /\ rows[u] = <<>>
    <3>1. FreshTokensOf(u)' /\ FreshOrdersOf(u)'
      BY <2>3, <2>5, StaleAll
    <3>2. FreshTasksOf(u)'
      BY <2>2, <2>5, JobsStale DEF FreshTasksOf
    <3> QED
      BY <3>1, <3>2
  <2>6. CASE v = u /\ rows[u] # <<>>
    BY <2>2, <2>3, <2>6, FreshStays
  <2> QED
    BY <2>4, <2>5, <2>6
<1>4. ASSUME NEW h \in Handlers, InsertGrained(h) \/ OidcReread(h)
      PROVE  Goal
  <2>1. PICK t \in JobType : /\ Goto(h, t)
                             /\ t.pc = "token" /\ t.fresh /\ t.user \in Users => Knows(t)
    BY <1>4, NextTask
  <2>2. UNCHANGED <<rows, tokens, orders>>
    BY <1>4, NextTask
  <2> QED
    BY <1>1, <2>1, <2>2
<1>5. Idle \in JobType /\ Idle.pc = "idle"
  BY DEF JobType, Idle
<1>6. ASSUME NEW h \in Handlers, DeleteGrained(h)
      PROVE  Goal
  <2>1. Goto(h, Idle) /\ UNCHANGED <<rows, tokens, orders>>
    BY <1>6 DEF DeleteGrained
  <2> QED
    BY <1>1, <1>5, <2>1
<1>7. ASSUME NEW h \in Handlers, JwtAuth(h)
      PROVE  Goal
  <2>1. PICK x : /\ x = [user |-> job[h].user, name |-> job[h].name, record |-> job[h].record,
                         fresh |-> job[h].fresh, left |-> Hours]
                 /\ tokens' = tokens \union {x}
    BY <1>7 DEF JwtAuth
  <2>2. /\ UNCHANGED <<rows, orders>> /\ job[h].pc = "token" /\ First(u)' = First(u)
    BY <1>7 DEF JwtAuth, First
  <2>3. job'[h] = Idle /\ \A g \in Handlers : g # h => job'[g] = job[g]
    BY <1>5, <1>7, GotoFacts DEF JwtAuth
  <2>4. FreshOrdersOf(u)' /\ FreshTasksOf(u)'
    BY <1>5, <2>2, <2>3 DEF Fresh, FreshOrdersOf, FreshTasksOf
  <2>5. x.user = u /\ x.fresh =>
           rows[u] # <<>> /\ x.name = First(u).name /\ x.record = First(u).record
    BY <2>1, <2>2 DEF Fresh, FreshTasksOf
  <2>6. FreshTokensOf(u)'
    BY <2>1, <2>2, <2>5 DEF Fresh, FreshTokensOf
  <2> QED
    BY <2>4, <2>6
<1>8. ASSUME NEW v \in Users, Update(v)
      PROVE  Goal
  <2>1. /\ v # u => rows'[u] = rows[u]
        /\ rows'[u] = <<>> <=> rows[u] = <<>>
    BY <1>8, UpdateFacts
  <2>2. CASE /\ UNCHANGED <<tokens, orders, job>>
             /\ First(v).name' = First(v).name /\ First(v).record' = First(v).record
    <3>1. First(u).name' = First(u).name /\ First(u).record' = First(u).record
      BY <2>1, <2>2 DEF First
    <3> QED
      BY <2>1, <2>2, <3>1, FreshStays
  <2>3. CASE /\ StaleTokens(v) /\ job' = StaleJobs(v)
             /\ \/ StaleOrders(v)
                \/ \E n \in RealNames \union {None} :
                      /\ rows[v] # <<>> => First(v).name' = n
                      /\ RenameOrders(v, n)
    <3>1. CASE v # u
      <4>1. orders'[u] = orders[u]
        BY <2>3, <3>1, OrdersStale, OrdersRenamed
      <4> QED
        BY <2>1, <2>3, <3>1, <4>1, OthersFresh
    <3>2. CASE v = u
      <4>1. FreshTokensOf(u)'
        BY <2>3, <3>2, StaleAll
      <4>2. FreshTasksOf(u)'
        BY <2>3, <3>2, JobsStale DEF FreshTasksOf
      <4>3. ASSUME NEW n \in RealNames \union {None}, RenameOrders(u, n),
                   rows[u] # <<>> => First(u).name' = n
            PROVE  FreshOrdersOf(u)'
        <5>1. \A i \in DOMAIN orders'[u] : orders'[u][i].fresh =>
                 rows[u] # <<>> /\ orders'[u][i].name = n
          BY <4>3, OrdersRenamed
        <5> QED
          BY <4>3, <5>1 DEF FreshOrdersOf
      <4>4. FreshOrdersOf(u)'
        BY <2>3, <3>2, <4>3, StaleAll
      <4> QED
        BY <4>1, <4>2, <4>4
    <3> QED
      BY <3>1, <3>2
  <2> QED
    BY <1>8, <2>2, <2>3, UpdateFacts
<1>9. ASSUME NEW h \in Handlers, NEW v \in Users, DeleteAccount(h, v)
      PROVE  Goal
  <2>1. /\ v # u => rows'[u] = rows[u]
        /\ job'[h].pc = "degrain" /\ \A g \in Handlers : g # h => job'[g] = StaleJobs(v)[g]
        /\ StaleTokens(v) /\ StaleOrders(v)
    BY <1>9, DeleteFacts
  <2>2. CASE v # u
    <3>1. orders'[u] = orders[u]
      BY <2>1, <2>2, OrdersStale
    <3> QED
      BY <2>1, <2>2, <3>1, OthersFresh
  <2>3. CASE v = u
    <3>1. FreshTokensOf(u)' /\ FreshOrdersOf(u)'
      BY <2>1, <2>3, StaleAll
    <3>2. FreshTasksOf(u)'
      BY <2>1, <2>3, JobsStale DEF FreshTasksOf
    <3> QED
      BY <3>1, <3>2
  <2> QED
    BY <2>2, <2>3
<1>10. ASSUME NEW t \in tokens, PostOrder(t)
       PROVE  Goal
  <2>1. UNCHANGED <<rows, tokens, job>> /\ First(u)' = First(u)
    BY <1>10 DEF PostOrder, First
  <2>2. FreshTokensOf(u)' /\ FreshTasksOf(u)'
    BY <2>1 DEF Fresh, FreshTokensOf, FreshTasksOf
  <2>3. PICK v \in Users : v = t.user
    BY <1>10 DEF PostOrder
  <2>4. CASE v # u
    <3>1. orders'[u] = orders[u]
      BY <1>10, <2>3, <2>4, PostFacts
    <3> QED
      BY <2>1, <2>2, <3>1 DEF Fresh, FreshOrdersOf
  <2>5. CASE v = u
    <3>1. \A i \in DOMAIN orders'[u] :
             \/ i \in DOMAIN orders[u] /\ orders'[u][i] = orders[u][i]
             \/ orders'[u][i].name = t.name /\ orders'[u][i].fresh = t.fresh
      BY <1>10, <2>3, <2>5, PostFacts
    <3>2. t.fresh => t.name = First(u).name
      BY <2>3, <2>5 DEF Fresh, FreshTokensOf
    <3> QED
      BY <2>1, <2>2, <3>1, <3>2 DEF Fresh, FreshOrdersOf
  <2> QED
    BY <2>4, <2>5
<1>11. CASE Hour
  <2>1. UNCHANGED <<rows, orders, job>> /\ First(u)' = First(u)
    BY <1>11 DEF Hour, First
  <2>2. ASSUME NEW t \in tokens'
        PROVE  \E x \in tokens : /\ x.fresh = t.fresh /\ x.user = t.user
                                 /\ x.name = t.name /\ x.record = t.record
    <3>1. PICK x \in tokens : t = [x EXCEPT !.left = @ - 1]
      BY <1>11 DEF Hour
    <3>2. x \in TokenType
      BY DEF TypeOK
    <3> QED
      BY <3>1, <3>2 DEF TokenType
  <2> QED
    BY <2>1, <2>2 DEF Fresh, FreshTokensOf, FreshOrdersOf, FreshTasksOf
<1>12. CASE Stop
  <2>1. UNCHANGED <<rows, tokens, orders>> /\ \A h \in Handlers : job'[h].pc = "idle"
    BY <1>12 DEF Stop, Idle
  <2> QED
    BY <2>1 DEF Fresh, FreshTokensOf, FreshOrdersOf, FreshTasksOf, First
<1>13. CASE UNCHANGED vars
  BY <1>13 DEF vars, Fresh, FreshTokensOf, FreshOrdersOf, FreshTasksOf, First
<1> QED
  BY <1>2, <1>3, <1>4, <1>6, <1>7, <1>8, <1>9, <1>10, <1>11, <1>12, <1>13, Steps DEF Go

\* What a token or an order shows of its account is true as long as nobody has changed
\* the account since the login; the administrator's edit makes it true for all orders.
THEOREM FreshIsTrue == Spec => []FreshDataIsTrue
<1>1. Init => Fresh
  BY DEF Init, Fresh, FreshTokensOf, FreshOrdersOf, FreshTasksOf, Idle
<1>2. Fresh => FreshDataIsTrue
  BY DEF Fresh, FreshTokensOf, FreshOrdersOf, FreshDataIsTrue
<1> QED
  BY <1>1, <1>2, FreshStep, TypeCorrect, PTL DEF Spec
=============================================================================
