---------------------------- MODULE Installation ----------------------------
(***************************************************************************)
(* The commands of the Yearning binary and the schema they work on:        *)
(* "install" creates the tables and the first account, "run" brings the    *)
(* schema of an older version up to date and serves, "migrate" repairs an  *)
(* upgrade across a destructive change.  A command is a program of         *)
(* statements; none of them is in a transaction, errors are dropped, and a *)
(* process may stop, or another one start, between any two of them.        *)
(***************************************************************************)
EXTENDS Integers, Sequences, FiniteSets

CONSTANTS
    Processes,
    Tables,       \* the tables, in the order in which AutoMigrate makes them
    MaxCommands,  \* bound on the commands that are started
    MaxStops,     \* bound on the processes that are stopped
    None

ASSUME InstallationAssumption ==
    /\ Tables \in Seq(STRING)
    /\ Tables # <<>> /\ Tables[1] = "core_accounts"
    /\ MaxCommands \in Nat
    /\ MaxStops \in Nat

VARIABLES
    tables,    \* the tables that exist
    columns,   \* columns of older versions that exist, and data_base
    taskBase,  \* where the schema names of the auto tasks are
    seeds,     \* rows that DataInit has inserted, by table
    ai, ldap,  \* of the first row of core_global_configurations
    process,   \* process -> its command, its next statement and what it has read
    commands,
    stops,
    failed     \* history: a statement has failed

vars == <<tables, columns, taskBase, seeds, ai, ldap, process, commands, stops, failed>>

-----------------------------------------------------------------------------
AllTables == {Tables[i] : i \in DOMAIN Tables}
Config == "core_global_configurations"
Seeds == <<"core_accounts", Config, "core_graineds", "core_role_groups">>
SeedRows == {Seeds[i] : i \in DOMAIN Seeds}

\* What UpdateData removes, in this order, and what "migrate" removes.
Obsolete == <<"uuid", "rejected", "base", "time", "query_password">>
Destructive == <<"source", "order_rejected", "permissions", "rule">>
ObsoleteColumns == {Obsolete[i] : i \in DOMAIN Obsolete}
DestructiveColumns == {Destructive[i] : i \in DOMAIN Destructive}

AutoMigrate == [i \in DOMAIN Tables |-> <<"table", Tables[i]>>]

Program ==
    [install |-> <<<<"hasTable", None>>>> \o AutoMigrate
                   \o [i \in DOMAIN Seeds |-> <<"seed", Seeds[i]>>] \o <<<<"done", None>>>>,
     run |-> AutoMigrate \o <<<<"rename", "base">>>>
               \o [i \in DOMAIN Obsolete |-> <<"drop", Obsolete[i]>>]
               \o <<<<"readAI", None>>, <<"writeAI", None>>, <<"load", None>>, <<"serve", None>>>>,
     migrate |-> [i \in DOMAIN Destructive |-> <<"drop", Destructive[i]>>]
                   \o <<<<"ldap", None>>, <<"done", None>>>>]

Commands == DOMAIN Program

ASSUME NoneAssumption ==
    None \notin Commands
        \union {"hasTable", "table", "seed", "rename", "drop", "readAI", "writeAI", "load",
                "serve", "ldap", "done"}
        \union {"default", "saved"}

\* noAI: the configuration was read without an AI document; since: it was saved
\* after that (history).
Idle == [command |-> None, at |-> 0, noAI |-> FALSE, since |-> FALSE]
ProcessType == [command : Commands \union {None}, at : Nat, noAI : BOOLEAN, since : BOOLEAN]

Statement(p) ==
    IF process[p] = Idle THEN <<None, None>> ELSE Program[process[p].command][process[p].at]
At(p, kind) == Statement(p)[1] = kind

GoOn(p) ==
    /\ process' = [process EXCEPT ![p].at = @ + 1]
    /\ UNCHANGED <<commands, stops, failed>>

Exit(p) ==
    /\ process' = [process EXCEPT ![p] = Idle]
    /\ UNCHANGED <<commands, stops, failed>>

data == <<tables, columns, taskBase, seeds, ai, ldap>>

\* An empty schema, or one of an older version with any of its old columns.
Init ==
    /\ \/ /\ tables = {} /\ columns = {} /\ taskBase = None
          /\ seeds = [s \in SeedRows |-> 0] /\ ai = None /\ ldap = None
       \/ /\ tables \in {AllTables, AllTables \ {Tables[Len(Tables)]}}
          /\ \E old \in {{}, {"base", "time", "permissions"}} :
                /\ columns = old \union (IF "base" \in old THEN {} ELSE {"data_base"})
                /\ taskBase = IF "base" \in old THEN "base" ELSE "data_base"
          /\ seeds = [s \in SeedRows |-> 1]
          /\ ai \in {None, "saved"} /\ ldap = "saved"
    /\ process = [p \in Processes |-> Idle]
    /\ commands = 0
    /\ stops = 0
    /\ failed = FALSE

-----------------------------------------------------------------------------
(* Commands. *)

\* DBNew: without a connection the process exits at once.
Start(p, command) ==
    /\ process[p] = Idle
    /\ commands < MaxCommands
    /\ commands' = commands + 1
    /\ process' = [process EXCEPT ![p] = [Idle EXCEPT !.command = command, !.at = 1]]
    /\ UNCHANGED <<data, stops, failed>>

\* Mutant: the guard looks for the last table it makes.
HasTableLast(p) ==
    /\ At(p, "hasTable")
    /\ IF Tables[Len(Tables)] \in tables THEN Exit(p) ELSE GoOn(p)
    /\ UNCHANGED data

\* Migrate does nothing when core_accounts exists.
HasTable(p) ==
    /\ At(p, "hasTable")
    /\ IF "core_accounts" \in tables THEN Exit(p) ELSE GoOn(p)
    /\ UNCHANGED data

\* AutoMigrate creates the table, or adds the columns it lacks.
MigrateTable(p) ==
    /\ At(p, "table")
    /\ LET t == Statement(p)[2] IN
       /\ tables' = tables \union {t}
       /\ columns' = IF t = "core_auto_tasks" THEN columns \union {"data_base"} ELSE columns
    /\ GoOn(p)
    /\ UNCHANGED <<taskBase, seeds, ai, ldap>>

\* AutoMigrate has already made data_base, so that RENAME is refused.
RenameColumn(p) ==
    /\ At(p, "rename")
    /\ IF "base" \in columns /\ "data_base" \notin columns
       THEN /\ columns' = (columns \ {"base"}) \union {"data_base"}
            /\ taskBase' = IF taskBase = "base" THEN "data_base" ELSE taskBase
       ELSE UNCHANGED <<columns, taskBase>>
    /\ GoOn(p)
    /\ UNCHANGED <<tables, seeds, ai, ldap>>

\* Mutant: a column whose successor exists is kept.
DropColumnKept(p) ==
    /\ At(p, "drop")
    /\ LET c == Statement(p)[2] IN
       columns' = IF c = "base" /\ "data_base" \in columns THEN columns ELSE columns \ {c}
    /\ GoOn(p)
    /\ UNCHANGED <<tables, taskBase, seeds, ai, ldap>>

\* HasColumn and DropColumn.
DropColumn(p) ==
    /\ At(p, "drop")
    /\ LET c == Statement(p)[2] IN
       /\ columns' = columns \ {c}
       /\ taskBase' = IF c = taskBase THEN "lost" ELSE taskBase
    /\ GoOn(p)
    /\ UNCHANGED <<tables, seeds, ai, ldap>>

\* DataInit: one INSERT; later rows of a table do not count, since all readers take
\* the first.
Seed(p) ==
    /\ At(p, "seed")
    /\ LET t == Statement(p)[2] IN
       /\ seeds' = IF t \in tables THEN [seeds EXCEPT ![t] = @ + 1] ELSE seeds
       /\ IF t = Config /\ t \in tables /\ seeds[t] = 0
          THEN ai' = "default" /\ ldap' = "default" ELSE UNCHANGED <<ai, ldap>>
    /\ GoOn(p)
    /\ UNCHANGED <<tables, columns, taskBase>>

ReadAI(p) ==
    /\ At(p, "readAI")
    /\ process' = [process EXCEPT ![p].at = @ + 1, ![p].noAI = (ai = None), ![p].since = FALSE]
    /\ UNCHANGED <<data, commands, stops, failed>>

\* Mutant: config.AI is not looked at.
WriteAIAlways(p) ==
    /\ At(p, "writeAI")
    /\ ai' = IF seeds[Config] > 0 THEN "default" ELSE ai
    /\ GoOn(p)
    /\ UNCHANGED <<tables, columns, taskBase, seeds, ldap>>

\* An UPDATE ... WHERE 1=1 on the strength of what was read.
WriteAI(p) ==
    /\ At(p, "writeAI")
    /\ ai' = IF process[p].noAI /\ seeds[Config] > 0 THEN "default" ELSE ai
    /\ GoOn(p)
    /\ UNCHANGED <<tables, columns, taskBase, seeds, ldap>>

\* loadDBInit.
Load(p) ==
    /\ At(p, "load")
    /\ GoOn(p)
    /\ UNCHANGED data

\* Mutant: the document becomes empty.
ResetLdapEmpty(p) ==
    /\ At(p, "ldap")
    /\ ldap' = IF seeds[Config] > 0 THEN "" ELSE ldap
    /\ GoOn(p)
    /\ UNCHANGED <<tables, columns, taskBase, seeds, ai>>

\* MargeRuleGroup resets the LDAP settings.
ResetLdap(p) ==
    /\ At(p, "ldap")
    /\ ldap' = IF seeds[Config] > 0 THEN "default" ELSE ldap
    /\ GoOn(p)
    /\ UNCHANGED <<tables, columns, taskBase, seeds, ai>>

Done(p) == At(p, "done") /\ Exit(p) /\ UNCHANGED data

(* A server, and what can go wrong. *)

\* SuperSaveSetting; other processes that wait learn of it (history).
SuperSaveSetting(p) ==
    /\ At(p, "serve")
    /\ seeds[Config] > 0
    /\ ai' = "saved" /\ ldap' = "saved"
    /\ process' = [q \in Processes |-> [process[q] EXCEPT !.since = process[q] # Idle]]
    /\ UNCHANGED <<tables, columns, taskBase, seeds, commands, stops, failed>>

\* MySQL refuses a statement; the error is dropped and the next one is tried.
Refused(p) ==
    /\ Statement(p)[1] \in {"table", "rename", "drop", "seed", "writeAI", "ldap"}
    /\ failed' = TRUE
    /\ process' = [process EXCEPT ![p].at = @ + 1]
    /\ UNCHANGED <<data, commands, stops>>

Stop(p) ==
    /\ process[p] # Idle
    /\ stops < MaxStops
    /\ stops' = stops + 1
    /\ process' = [process EXCEPT ![p] = Idle]
    /\ UNCHANGED <<data, commands, failed>>

Execute(p) ==
    \/ HasTable(p) \/ MigrateTable(p) \/ Seed(p)
    \/ RenameColumn(p) \/ DropColumn(p)
    \/ ReadAI(p) \/ WriteAI(p) \/ Load(p)
    \/ ResetLdap(p) \/ Done(p)

Next ==
    \E p \in Processes :
        \/ \E command \in Commands : Start(p, command)
        \/ Execute(p)
        \/ SuperSaveSetting(p) \/ Refused(p) \/ Stop(p)

Spec == Init /\ [][Next]_vars

-----------------------------------------------------------------------------
(* Properties. *)

\* Every variable keeps its type.
TypeOK ==
    /\ tables \subseteq AllTables
    /\ columns \subseteq ObsoleteColumns \union DestructiveColumns \union {"data_base"}
    /\ taskBase \in {None, "base", "data_base", "lost"}
    /\ seeds \in [SeedRows -> Nat]
    /\ ai \in {None, "default", "saved"}
    /\ ldap \in {None, "default", "saved"}
    /\ process \in [Processes -> ProcessType]
    /\ commands \in 0 .. MaxCommands
    /\ stops \in 0 .. MaxStops
    /\ failed \in BOOLEAN

\* A server has every table and none of the columns that "run" removes, whatever
\* version it found, whatever was stopped half-way before, and whatever other commands
\* run next to it, unless a statement failed.
ServesUpToDate ==
    \A p \in Processes :
        At(p, "serve") /\ ~failed =>
            tables = AllTables /\ columns \intersect ObsoleteColumns = {}

\* An install that stopped after its first table, or a server that was started on an
\* empty schema, leaves an installation without an administrator; since the guard looks
\* for that table only, no command ever adds one.
Unmanaged ==
    /\ "core_accounts" \in tables
    /\ seeds["core_accounts"] = 0
    /\ \A p \in Processes : process[p].command = "install" => At(p, "hasTable")
UnmanagedStays == [][Unmanaged => Unmanaged']_vars

\* Starting a server does not overwrite AI settings that somebody saved, except those
\* saved between its look and its UPDATE (migrate.go:327-344).
SavedAIIsKept ==
    [][ai = "saved" /\ ai' # "saved" =>
        \E p \in Processes : At(p, "writeAI") /\ process[p].noAI /\ process[p].since]_vars
=============================================================================
