SPECIFICATION Spec
CONSTANTS
    g1 = g1
    r1 = r1
    r2 = r2
    User = User
    None = None
    GoalIds <- MCGoalIds
    Runs <- MCRuns
    AgentTargets <- MCAgentTargets
    MaxActs = 2
    MaxContinuations = 1
    MaxCrashes = 1
SYMMETRY MCSymmetry
INVARIANTS
    TypeOK
    CompletedByRunStays
    EndedGoalHasEndedFlow
PROPERTIES
    CompletionWasAsked
    GoalFollowsTransitions
CHECK_DEADLOCK FALSE
