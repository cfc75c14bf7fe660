SPECIFICATION Spec
CONSTANTS
    Environments <- MCEnvironments
    Visits <- MCVisits
    NewKeys <- MCNewKeys
    Edge = "edge"
    MaxRotations = 2
    MaxTokens = 2
CHECK_DEADLOCK FALSE
INVARIANTS TypeOK SoundRuntime HonestVisitConfirmed
