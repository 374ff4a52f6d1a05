SPECIFICATION FairSpec
CONSTANTS
    num_txns = 3
    Workers = {w1, w2}
    x = x  y = y  m = m
    Keys = {x, y, m}
    ModuleKeys = {m}
    Base <- MCBase
    Blocks = {"data", "module", "cut"}
    ReadKeys <- MCReadKeys
    Output <- MCOutput
    SkipsRest <- MCSkipsRest
    EpilogueKeys <- MCEpilogueKeys
    None = None
INVARIANTS NoInvariantError CommittedAsSequential NoZombieDependency BlockFinalizes
PROPERTIES BlockEnds
