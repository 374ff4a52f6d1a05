SPECIFICATION MCSpec
CONSTANTS
    v1 = v1
    v2 = v2
    v3 = v3
    b1 = b1
    b2 = b2
    d1 = d1
    d2 = d2
    None = None
    o1 = o1
    o2 = o2
    x2 = x2
    OrderDigests = {o1, o2, x2}
    CertifiedDigests = {o1, o2}
    LIRound <- MCLIRound
    ParentDigest <- MCParentDigest
    OrderVoteWindow = 3
    Collectors = {"votes", "order_votes"}
    Validators <- MCFive
    Byzantine <- MCPair
    sum_voting_power <- MCSumStake
    Digests = {d1, d2}
    HqcRounds = {0}
SYMMETRY MCSymmetry
CHECK_DEADLOCK FALSE
INVARIANTS
    QuorumCertsVerify
    HonestQuorumCertifies
    EachAuthorCountsOnce
    EchoHasHonestTimeout
    EchoNotMissed
    TimeoutsAreCounted
    OrderCertsVerify
    OneEntryPerRound
    HonestQuorumOrders
