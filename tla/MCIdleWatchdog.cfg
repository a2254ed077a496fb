SPECIFICATION Spec
CONSTANTS
    Upstreams = {"openai", "anthropic", "responses"}
    Clients = {"openai", "anthropic", "responses"}
    Usages <- MCUsages
    MaxPieces = 1
    MaxBlocks = 1
    MaxTools = 1
PROPERTY
    IdleAborts
CHECK_DEADLOCK FALSE
