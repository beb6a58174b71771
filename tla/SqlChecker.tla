----------------------------- MODULE SqlChecker -----------------------------
(***************************************************************************)
(* The built-in SQL checker and the merge of ALTER statements, as the page *)
(* that writes an order uses them, next to the audit rules that            *)
(* administrators save, delete and give to a source meanwhile.             *)
(*                                                                         *)
(* A text is a sequence of lower-case words of letters and digits (the \w+ *)
(* of a regular expression), separators (a blank, the end of a line) and   *)
(* marks; two words always have something between them, and a quote with   *)
(* a backslash before it is one mark.  The name of a table is a word, or   *)
(* several tokens when it is qualified or has backticks.  "Contains w and  *)
(* a blank" and the regular expressions of the checker are read over       *)
(* these.  The statements of a text, and the records made of them, are     *)
(* kept by the place in the text that each one starts at, not by number.   *)
(* A rule is the set of its switches that are on.                          *)
(***************************************************************************)
EXTENDS Naturals, Sequences, SequencesExt

CONSTANTS
    Tokens,       \* words, separators and marks
    Phrases,      \* what the user appends to the text at a time
    Rules,        \* the rules administrators save
    MaxPhrases,   \* bound on the phrases of a text
    MaxRules,     \* bound on the rows of CoreRules
    None

Switches == {"DMLWhere", "DMLInsertColumns", "DMLAllowLimitSTMT",
             "DDLEnableDropTable", "DDLEnableDropDatabase", "DDLCheckTableComment"}

ASSUME RulesAssumption == Rules \subseteq SUBSET Switches /\ None \notin Rules

ASSUME TextAssumption ==
    /\ "" \notin Tokens /\ ";" \in Tokens
    /\ Phrases \subseteq Seq(Tokens)
    /\ MaxPhrases \in Nat

VARIABLES
    text,      \* SQL on the page
    phrases,   \* number of phrases in it
    glo,       \* GloRole
    rules,     \* CoreRules by id: a rule, or None once deleted
    ruleId     \* RuleId of the source, 0 for GloRole

vars == <<text, phrases, glo, rules, ruleId>>

Blanks == {" ", "\n"}
Quotes == {"'", "\"", "backtick"}
Marks == Quotes \union {";", "(", ")", ",", ".", "\\", "\\'", "\\\""}
IsWord(t) == t \notin Blanks \union Marks \union {""}

-----------------------------------------------------------------------------
(***************************************************************************)
(* Reading a text.                                                         *)
(***************************************************************************)

At(s, i) == IF i \in DOMAIN s THEN s[i] ELSE ""

\* The first position after i without a blank.
After(s, i) == CHOOSE j \in i + 1 .. Len(s) + 1 : At(s, j) \notin Blanks /\ \A k \in i + 1 .. j - 1 : s[k] \in Blanks

\* strings.TrimSpace.
Trim(s) == LET ink == {i \in DOMAIN s : s[i] \notin Blanks}
           IN  IF ink = {} THEN <<>> ELSE SubSeq(s, Min(ink), Max(ink))

\* strings.Contains.
Holds(s, part) == \E i \in 0 .. Len(s) - Len(part) : \A k \in DOMAIN part : s[i + k] = part[k]
Has(s, w) == Holds(s, <<w, " ">>)
Starts(s, ws) == At(s, 1) \in ws /\ At(s, 2) = " "
Count(s, t) == Cardinality({i \in DOMAIN s : s[i] = t})

\* The quotation that is open after each place, "" for none; an escaped quote neither
\* opens nor closes one.
Quotation(s, quotes) ==
    LET open[n \in 0 .. Len(s)] ==
          IF n = 0 THEN ""
          ELSE IF s[n] \notin quotes \/ open[n - 1] \notin {"", s[n]} THEN open[n - 1]
          ELSE IF open[n - 1] = "" THEN s[n] ELSE ""
    IN  open

\* strings.Split(sql, ";"): the places of the semicolons; with quotes the reference,
\* which leaves a semicolon inside a quotation alone.
Cuts(s, quotes) == {c \in DOMAIN s : s[c] = ";" /\ Quotation(s, quotes)[c - 1] = ""}

\* What is between a cut, or the start of the text, and the next one.
Piece(s, cuts, c) == Trim(SubSeq(s, c + 1, Min({d \in cuts \union {Len(s) + 1} : d > c}) - 1))

\* The pieces that are not empty, each at the cut before it.
Statements(s, quotes) ==
    LET cuts == Cuts(s, quotes)
    IN  [c \in {d \in {0} \union cuts : Piece(s, cuts, d) # <<>>} |-> Piece(s, cuts, c)]

splitSQL(s) == LET parts == Statements(s, {}) IN [c \in DOMAIN parts |-> Append(parts[c], ";")]

-----------------------------------------------------------------------------
(***************************************************************************)
(* The checker: the errors of one statement.  Every statement ends with    *)
(* the semicolon that splitSQL adds, so the test for it never fails.       *)
(***************************************************************************)

isParenthesesBalanced(s) ==
    LET Depth(n) == [open |-> Count(SubSeq(s, 1, n), "("), shut |-> Count(SubSeq(s, 1, n), ")")]
    IN  /\ \A n \in DOMAIN s : Depth(n).shut <= Depth(n).open
        /\ Depth(Len(s)).shut = Depth(Len(s)).open

\* strings.Count(s, quote): the escaped ones are found too.
AllOf(s, quote, escaped) == Count(s, quote) + Count(s, escaped)

\* Mutant: the escaped quotes are not subtracted.
isQuotesBalancedRaw(s) ==
    /\ AllOf(s, "'", "\\'") % 2 = 0 /\ AllOf(s, "\"", "\\\"") % 2 = 0 /\ Count(s, "backtick") % 2 = 0

isQuotesBalanced(s) ==
    /\ (AllOf(s, "'", "\\'") - Count(s, "\\'")) % 2 = 0
    /\ (AllOf(s, "\"", "\\\"") - Count(s, "\\\"")) % 2 = 0
    /\ Count(s, "backtick") % 2 = 0

checkBasicSyntax(s) ==
    {e \in {"parentheses", "quotes"} : \/ e = "parentheses" /\ ~isParenthesesBalanced(s)
                                       \/ e = "quotes" /\ ~isQuotesBalanced(s)}

\* insert\s+into\s+\w+\s*\([^)]+\)\s*values
hasInsertColumns(s) ==
    \E i \in DOMAIN s :
        LET into == After(s, i)
            name == After(s, into)
            open == After(s, name)
        IN  /\ s[i] = "insert" /\ At(s, into) = "into" /\ IsWord(At(s, name)) /\ At(s, open) = "("
            /\ \E c \in open + 2 .. Len(s) : /\ s[c] = ")" /\ At(s, After(s, c)) = "values"
                                             /\ \A k \in open + 1 .. c - 1 : s[k] # ")"

checkDML(s, rule) ==
    LET change == Has(s, "update") \/ Has(s, "delete")
    IN  {e \in {"where", "columns", "limit"} :
           \/ e = "where" /\ "DMLWhere" \in rule /\ change /\ ~Has(s, "where")
           \/ e = "columns" /\ "DMLInsertColumns" \in rule /\ Has(s, "insert") /\ ~hasInsertColumns(s)
           \/ e = "limit" /\ "DMLAllowLimitSTMT" \notin rule /\ Has(s, "limit") /\ (Has(s, "update") \/ Has(s, "insert"))}

checkDDL(s, rule) ==
    {e \in {"drop table", "drop database", "comment"} :
       \/ /\ e = "drop table" /\ "DDLEnableDropTable" \notin rule
          /\ Holds(s, <<"drop", " ", "table", " ">>)
       \/ /\ e = "drop database" /\ "DDLEnableDropDatabase" \notin rule
          /\ Holds(s, <<"drop", " ", "database", " ">>)
       \/ /\ e = "comment" /\ "DDLCheckTableComment" \in rule
          /\ Holds(s, <<"create", " ", "table", " ">>) /\ ~Has(s, "comment")}

\* Mutant: written like the one for DELETE, that is, without the .*?
updateRegexShort(s) ==
    \E i \in DOMAIN s :
        LET name == After(s, i)
            set  == After(s, name)
        IN  s[i] = "update" /\ IsWord(At(s, name)) /\ At(s, set) = "set" /\ At(s, After(s, set)) \in {"where", ""}

\* update\s+\w+\s+set\s+.*?(?:where|$): the dot stops at the end of a line,
\* and the dollar stands for the end of the text only.  A name of
\* several tokens, or one with an alias, is not \w+ before set.
updateRegex(s) ==
    \E i \in DOMAIN s :
        LET name == After(s, i)
            set  == After(s, name)
            from == After(s, set)
        IN  /\ s[i] = "update" /\ IsWord(At(s, name)) /\ At(s, set) = "set" /\ from > set + 1
            /\ \E q \in from .. Len(s) + 1 : At(s, q) \in {"where", ""} /\ \A k \in from .. q - 1 : s[k] # "\n"

\* delete\s+from\s+\w+\s*(?:where|$): never at the end, which is a semicolon.
deleteRegex(s) ==
    \E i \in DOMAIN s :
        LET from == After(s, i)
            name == After(s, from)
        IN  /\ s[i] = "delete" /\ At(s, from) = "from" /\ IsWord(At(s, name))
            /\ At(s, After(s, name)) \in {"where", ""}

\* Whatever the rule says.
checkDangerousOperations(s) ==
    {e \in {"truncate", "danger drop database", "danger drop table", "alter drop", "update all", "delete all"} :
       \/ e = "truncate" /\ Count(s, "truncate") > 0
       \/ e = "danger drop database" /\ Holds(s, <<"drop", " ", "database">>)
       \/ e = "danger drop table" /\ Holds(s, <<"drop", " ", "table">>)
       \/ /\ e = "alter drop"
          /\ \E i, j \in DOMAIN s : /\ i < j /\ Holds(SubSeq(s, i, j), <<"alter", " ", "table">>)
                                    /\ s[j] = "drop" /\ \A k \in i .. j : s[k] # "\n"
       \/ e = "update all" /\ updateRegex(s) /\ ~Has(s, "where")
       \/ e = "delete all" /\ deleteRegex(s) /\ ~Has(s, "where")}

isDML(s) == Starts(s, {"select", "insert", "update", "delete"})
isDDL(s) == Starts(s, {"create", "alter", "drop", "truncate"})

validateSQL(s, rule) ==
    checkBasicSyntax(s)
        \union (IF isDML(s) THEN checkDML(s, rule) ELSE {})
        \union (IF isDDL(s) THEN checkDDL(s, rule) ELSE {})
        \union checkDangerousOperations(s)

Check(s, rule) ==
    LET parts == splitSQL(s)
    IN  [i \in DOMAIN parts |-> [sql |-> parts[i], errors |-> validateSQL(parts[i], rule)]]

Passes(records) == \A i \in DOMAIN records : records[i].errors = {}

\* The rule of the source, or none when its row is gone (the empty column is
\* not JSON); the engine answers with the records, or the page with an error.
CheckDataSourceRule == IF ruleId = 0 THEN glo ELSE rules[ruleId]
FetchSQLTest == IF CheckDataSourceRule = None THEN None ELSE Check(text, CheckDataSourceRule)

-----------------------------------------------------------------------------
(***************************************************************************)
(* The merge: alter\s+table\s+(\w+)\s+(.+) at the start of a statement;    *)
(* the dot stops at the end of the first line, and what follows is lost.   *)
(***************************************************************************)

\* The table that a statement alters and what it does to it.
Alter(s, lines) ==
    LET table == After(s, 0)
        name  == After(s, After(s, table))
        from  == After(s, name)
        stop  == IF lines THEN Len(s) + 1
                 ELSE CHOOSE q \in from .. Len(s) + 1 : At(s, q) \in {"\n", ""} /\ \A k \in from .. q - 1 : s[k] # "\n"
    IN  IF /\ At(s, table) = "alter" /\ At(s, After(s, table)) = "table"
           /\ IsWord(At(s, name)) /\ from > name + 1 /\ from <= Len(s)
        THEN [table |-> s[name], action |-> SubSeq(s, from, stop - 1)]
        ELSE [table |-> "", action |-> s]

\* The tables that the statements of a text alter.
Tables(s) == LET all == Statements(s, {}) IN {Alter(all[c], TRUE).table : c \in DOMAIN all} \ {""}

\* Mutant: the last action on a table takes the place of those before it.
tableGroupsLast(s) ==
    LET all == Statements(s, {})
        loop[n \in 0 .. Len(s) + 1] ==
          IF n = 0 THEN [t \in Tokens \union {""} |-> <<>>]
          ELSE IF n - 1 \notin DOMAIN all THEN loop[n - 1]
          ELSE LET stmt == Alter(all[n - 1], FALSE)
               IN  [loop[n - 1] EXCEPT ![stmt.table] = <<stmt.action>>]
    IN  loop[Len(s) + 1]

\* The loop over the statements: the actions found so far for each table (none is no
\* entry in the map), and at "" otherStatements.
tableGroups(s) ==
    LET all == Statements(s, {})
        loop[n \in 0 .. Len(s) + 1] ==
          IF n = 0 THEN [t \in Tokens \union {""} |-> <<>>]
          ELSE IF n - 1 \notin DOMAIN all THEN loop[n - 1]
          ELSE LET stmt == Alter(all[n - 1], FALSE)
               IN  [loop[n - 1] EXCEPT ![stmt.table] = Append(@, stmt.action)]
    IN  loop[Len(s) + 1]

\* One statement for every table, in the order in which Go walks the map,
\* that is, in any, and then the other statements.
mergeAlterStatements(s) ==
    LET groups == tableGroups(s)
        row(t) == [table |-> t, actions |-> groups[t]]
    IN  {[i \in DOMAIN order |-> row(order[i])] \o <<row("")>> :
            order \in SetToSeqs({t \in Tokens : groups[t] # <<>>})}

-----------------------------------------------------------------------------
(***************************************************************************)
(* The page and the administrators.                                        *)
(***************************************************************************)

TypeText(p) ==
    /\ phrases < MaxPhrases
    /\ text # <<>> => /\ ~(IsWord(Last(text)) /\ IsWord(p[1]))
                      /\ ~(Last(text) = "\\" /\ p[1] \in {"'", "\""})
    /\ text' = text \o p
    /\ phrases' = phrases + 1
    /\ UNCHANGED <<glo, rules, ruleId>>

SuperSaveRoles(r) == glo' = r /\ UNCHANGED <<text, phrases, rules, ruleId>>

SuperRolesAdd(r) ==
    /\ Len(rules) < MaxRules
    /\ rules' = Append(rules, r)
    /\ UNCHANGED <<text, phrases, glo, ruleId>>

\* An UPDATE of a row that is gone changes nothing.
SuperRoleUpdate(i, r) ==
    /\ rules' = IF rules[i] = None THEN rules ELSE [rules EXCEPT ![i] = r]
    /\ UNCHANGED <<text, phrases, glo, ruleId>>

\* The sources that have the rule are not looked at.
SuperRoleDelete(i) == rules' = [rules EXCEPT ![i] = None] /\ UNCHANGED <<text, phrases, glo, ruleId>>

\* SuperEditSource with a rule of the list, or none.
AssignRule(i) == ruleId' = i /\ UNCHANGED <<text, phrases, glo, rules>>

Init == text = <<>> /\ phrases = 0 /\ glo \in Rules /\ rules = <<>> /\ ruleId = 0

Next ==
    \/ \E p \in Phrases : TypeText(p)
    \/ \E r \in Rules : \/ SuperSaveRoles(r) \/ SuperRolesAdd(r)
                        \/ \E i \in DOMAIN rules : SuperRoleUpdate(i, r)
    \/ \E i \in DOMAIN rules : SuperRoleDelete(i)
    \/ \E i \in {0} \union {j \in DOMAIN rules : rules[j] # None} : AssignRule(i)

Spec == Init /\ [][Next]_vars

-----------------------------------------------------------------------------
OneLine(s) == \A i \in DOMAIN s : s[i] # "\n"
Passed == IF FetchSQLTest = None THEN {} ELSE {r \in ToSet(FetchSQLTest) : r.errors = {}}
UpdatesWord(s) ==
    /\ \A i \in {2, 4, 6} : At(s, i) = " "
    /\ At(s, 1) = "update" /\ IsWord(At(s, 3)) /\ At(s, 5) = "set"

\* The actions on a table, or for "" the other statements, in the order of the text.
InTextOrder(actions, s, table) ==
    LET all  == Statements(s, {})
        here == {c \in DOMAIN all : Alter(all[c], TRUE).table = table}
    IN  /\ Len(actions) = Cardinality(here)
        /\ \A c \in here : actions[Cardinality({d \in here : d <= c})] = Alter(all[c], TRUE).action

\* A source refers to a row of CoreRules, deleted or not, or to none.
TypeOK ==
    /\ text \in Seq(Tokens)
    /\ phrases \in 0 .. MaxPhrases
    /\ glo \in Rules
    /\ rules \in Seq(Rules \union {None})
    /\ ruleId \in 0 .. Len(rules)

\* Under a rule with DMLWhere a statement that starts with UPDATE or DELETE and
\* passes has "where " in it, whatever it looks like (builtin_checker.go:116).
\* Under any other rule only the expression of builtin_checker.go:185 is left: it
\* stops an UPDATE without WHERE on one line whose table is a plain word, and no
\* other: not one of a qualified, quoted or aliased table, nor one on two lines.
UpdateNamesWhere ==
    \A r \in Passed :
        /\ "DMLWhere" \in CheckDataSourceRule /\ Starts(r.sql, {"update", "delete"})
              => Has(r.sql, "where")
        /\ OneLine(r.sql) /\ UpdatesWord(r.sql) => Has(r.sql, "where")

\* splitSQL cuts at every semicolon, quoted or not (builtin_checker.go:203),
\* but the halves of a quotation are never let through: when all statements
\* of a text with one kind of quotes pass, they are the statements that a
\* database which honours the quotes and their escapes executes.  (A backslash
\* that stands elsewhere, as in '\\', ends this: the quote after two of them is
\* a quote, and builtin_checker.go:262 takes it for an escaped one.)
PassedIsNotCut ==
    /\ FetchSQLTest # None /\ Passes(FetchSQLTest)
    /\ Count(text, "\\") = 0
    /\ \E k \in Quotes : \A o \in Quotes \ {k} : Count(text, o) = 0
    => Statements(text, {}) = Statements(text, Quotes)

\* Merging loses no statement and no action, repeats none and keeps their order
\* within each table, in whatever order the tables come out (juno_engine.go:141),
\* provided that every statement is on one line.  (Across tables nothing is kept:
\* engine_test.go:83 expects the order of the text.)
MergeKeepsActions ==
    OneLine(text) =>
        \A merged \in mergeAlterStatements(text) :
            /\ \A t \in Tables(text) \union {""} : \E i \in DOMAIN merged : merged[i].table = t
            /\ \A i, j \in DOMAIN merged : merged[i].table = merged[j].table => i = j
            /\ \A i \in DOMAIN merged : InTextOrder(merged[i].actions, text, merged[i].table)

\* builtin_checker.go:184-194 tests whether UPDATE and DELETE have a WHERE
\* under every rule: no statement that deletes from a table passes without.
DeleteNamesWhere ==
    \A r \in Passed : At(r.sql, 1) = "delete" /\ OneLine(r.sql) => Has(r.sql, "where")
=============================================================================
