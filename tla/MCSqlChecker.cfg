\* Texts of up to three phrases; one row of rules besides the global one.
CONSTANTS
    None = None
    Tokens <- MCTokens
    Phrases <- MCPhrases
    Rules <- MCRules
    MaxPhrases = 3
    MaxRules = 1
SPECIFICATION Spec
INVARIANTS
    UpdateNamesWhere
    PassedIsNotCut
    MergeKeepsActions
CHECK_DEADLOCK FALSE
