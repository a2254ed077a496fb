SPECIFICATION ConversationSpec
CONSTANTS
    Upstreams = {"openai", "anthropic", "responses"}
    Clients = {"openai", "anthropic", "responses"}
    Usages <- MCUsages
    MaxPieces = 1
    MaxBlocks = 2
    MaxTools = 2
    MaxAnswers = 1
INVARIANT
    SameRoleMessagesMerged
CHECK_DEADLOCK FALSE
