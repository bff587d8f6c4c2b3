\* Templates of up to six tokens; inputs of up to five symbols in a buffer of two.
CONSTANTS
    MaxTokens = 6
    Symbols <- LexerSymbols
    MaxInput = 5
    MaxBuffer = 2
SPECIFICATION MCSpec
INVARIANTS
    ContentWrittenOnce
    NestingAsWritten
    LexerReadsAll
CHECK_DEADLOCK FALSE
