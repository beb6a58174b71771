---------------------------- MODULE MCSqlChecker ----------------------------
(***************************************************************************)
(* SqlChecker for TLC: statements and pieces of statements to write with,  *)
(* a strict rule and a permissive one.                                     *)
(***************************************************************************)
EXTENDS SqlChecker

MCPhrases == {
    <<"update", " ", "t", " ", "set", " ", "a">>, <<"update", " ", "t", "\n", "set", " ", "a">>,
    <<"delete", " ", "from", " ", "t">>, <<" ", "where", " ", "a">>, <<" ", "limit", " ", "a">>,
    <<"insert", " ", "into", " ", "t">>, <<"(", "a", ")">>, <<" ", "values">>,
    <<"alter", " ", "table", " ", "t", " ", "add", " ", "a">>,
    <<";", "alter", " ", "table", " ", "t", " ", "drop", " ", "a">>,
    <<";", "alter", " ", "table", " ", "u", " ", "add", " ", "a">>,
    <<"drop", " ", "table", " ", "t">>, <<";", "create", " ", "table", " ", "t">>, <<" ", "comment", " ", "a">>,
    <<"update", " ", "d", ".", "t", " ", "set", " ", "a">>, <<"alter", " ", "table", " ", "backtick", "t", "backtick", " ", "drop", " ", "a">>,
    <<";">>, <<"'">>, <<"\"">>, <<"backtick">>, <<"\n">>, <<";", "'">>, <<"\\">>, <<"'", "\\'">>, <<"\\'", "'">>}

MCTokens == UNION {ToSet(p) : p \in MCPhrases}

MCRules == {{"DMLWhere", "DMLInsertColumns", "DDLCheckTableComment"},
            {"DMLAllowLimitSTMT", "DDLEnableDropTable", "DDLEnableDropDatabase"}}
=============================================================================
