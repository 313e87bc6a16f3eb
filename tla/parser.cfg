CONSTANTS
    Opening <- MCOpening
    Phrases <- MCPhrases
    MaxPhrases <- MCMaxPhrases
    Queries <- MCQueries
    OptionNames <- MCOptionNames
SPECIFICATION Spec
CHECK_DEADLOCK FALSE
INVARIANTS  ArgumentsKept
