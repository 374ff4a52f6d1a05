SPECIFICATION Spec
CONSTANTS
    v1 = v1
    v2 = v2
    v3 = v3
    b1 = b1
    None = None
    Validators <- MCVoters
    Byzantine <- MCByzantine
    sum_voting_power <- MCSumStake
    Blocks <- ForkBlocks
    Genesis = "g"
    BlockRound <- ForkRound
    Parent <- ForkParent
    Ancestors <- ForkAncestors
    U64Max = 2
SYMMETRY MCStakeSymmetry
CHECK_DEADLOCK FALSE
INVARIANTS
    IInv
    UniqueCertifiedBlock
PROPERTY
    SafetyDataNeverRegresses
