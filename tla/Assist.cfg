SPECIFICATION FairSpec
CONSTANTS
    r1 = r1
    Requests <- OneRequest
    Tiers <- FreeAndPro
    Severities <- TwoSeverities
    Answers <- ModelAnswers
    Contents <- ModelContents
    RetryLimits <- Limits
    Values <- ModelValues
    SecretKeys <- SecretLike
    maxEvidenceKeys = 2
    maxEvidenceString = 2
    maxEvidenceList = 2
    minGroundedExplanation = 20
INVARIANTS
    TypeOK
    ShownIsGrounded
    KeyedFollowsLicence
    RetriesOnlyWhatMayPass
    PacketIsBounded
PROPERTIES
    PacketKeepsTheRest
    EveryRequestAnswered
