\* Texts with a DELETE.
CONSTANTS
    None = None
    Tokens <- MCTokens
    Phrases <- MCPhrases
    Rules <- MCRules
    MaxPhrases = 2
    MaxRules = 1
SPECIFICATION Spec
INVARIANT
    DeleteNamesWhere
CHECK_DEADLOCK FALSE
