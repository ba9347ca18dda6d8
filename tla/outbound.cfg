CONSTANTS
    V1 = 2
    V2 = 1
    Targets <- MCTargets
    MaxAttempts = 2
    Messages <- MCMessages
    LineLength = 76
    Rcpts = 3
    Timeout = 2
    Deadlines <- MCDeadlines
    NoDeadline = 9
    Flaws <- MCFlaws
    Lists <- MCLists
    MaxTokensPerBatch = 2
    Queue = queue
    Names <- MCNames
    NoName = noName
    MaxTries = 3
    Given <- MCGiven
    Draws <- MCDraws
    Headers <- MCHeaders
    MaxDuration = 1000000000
SPECIFICATION OutboundSpec
INVARIANTS OutboundTypeOK FailsOnlyAfterAll Delays Accounted ReadsAsWritten WithinDeadline OncePerName
PROPERTIES Delivers QuietAtTheEnd Returns
