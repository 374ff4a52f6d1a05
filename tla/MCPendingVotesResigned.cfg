SPECIFICATION MCSpec
CONSTANTS
    v1 = v1
    v2 = v2
    v3 = v3
    b1 = b1
    b2 = b2
    d1 = d1
    d2 = d2
    None = None
    o1 = o1
    o2 = o2
    x2 = x2
    OrderDigests = {o1, o2, x2}
    CertifiedDigests = {o1, o2}
    LIRound <- MCLIRound
    ParentDigest <- MCParentDigest
    OrderVoteWindow = 3
    Collectors = {"votes"}
    Validators <- MCFour
    Byzantine <- MCOne
    sum_voting_power <- MCSumEqual
    Digests = {d1, d2}
    HqcRounds = {0, 1}
CHECK_DEADLOCK FALSE
INVARIANT
    TimeoutCertsVerify
