SPECIFICATION Spec
CONSTANTS
    Node <- MCNode
    Id <- MCId
    Plans <- MCPlans
    MaxTrials = 2
    UseLlmCritic = TRUE
INVARIANTS
    DependenciesDone
    OncePerTrial
    StatusMatchesRecord
    DeltaExact
PROPERTIES
    RunEnds
    ImplementsRounds
CHECK_DEADLOCK FALSE
