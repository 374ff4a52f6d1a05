SPECIFICATION Spec
CONSTANTS
    None = None
    LastRound = 3
    QueueSize = 2
INVARIANTS
    RoundFollowsCertificates
    SentInCurrentRound
    TimerNeverLost
    BackoffInRange
PROPERTIES
    TimeoutsRecur
