SPECIFICATION Spec
CONSTANTS
    v1 = v1
    v2 = v2
    v3 = v3
    b1 = b1
    None = None
    Validators <- MCVoters
    Byzantine <- MCByzantine
    sum_voting_power <- MCSumEqual
    Blocks <- ChainBlocks
    Genesis = "g"
    BlockRound <- ChainRound
    Parent <- ChainParent
    Ancestors <- ChainAncestors
    U64Max = 3
SYMMETRY MCSymmetry
CHECK_DEADLOCK FALSE
INVARIANTS
    Agreement
    CertifiedExtendsOrdered
    TimeoutAlwaysPossible
