SPECIFICATION Spec
CONSTANTS
    Node <- MCNode
    Id <- MCId
    Plans <- MCPlans
    MaxTrials = 2
    UseLlmCritic = TRUE
INVARIANTS
    PassIsReturned
CHECK_DEADLOCK FALSE
