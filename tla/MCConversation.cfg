SPECIFICATION ConversationSpec
CONSTANTS
    Upstreams = {"openai", "anthropic", "responses"}
    Clients = {"openai", "anthropic", "responses"}
    Usages <- MCUsages
    MaxPieces = 2
    MaxBlocks = 3
    MaxTools = 2
    MaxAnswers = 1
INVARIANTS
    ContentIsFaithful
    ClientStreamWellFormed
    VerdictIsTold
    UsageIsLogged
    NothingIsLost
    UpstreamAccepts
CHECK_DEADLOCK FALSE
