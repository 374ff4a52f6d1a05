CONSTANTS
    g0 = g0 a1 = a1 b2 = b2 c3 = c3 d5 = d5 f4 = f4
    None = None
    Blocks = {g0, a1, b2, c3, d5}
    Genesis = g0
    Parent <- MCParent
    RoundOf <- MCRoundOf
    CertifiedBlocks = {a1, b2, c3, d5}
    OrderCertified = {c3}
    SyncInfos <- MCSyncInfos
    TimeoutRounds = {4}
    order_vote_enabled = TRUE
    max_pruned_blocks_in_mem = 0
    max_commit_gap = 1
    MAX_PRECOMMIT_GAP = 1
    skip_sync_small_gap_rounds = 1
    StateSyncMayFail = TRUE
SPECIFICATION Spec
INVARIANTS NoPanic RootsOnOneBranch RootBlockStored SyncReachesPeer
PROPERTIES CertificatesNeverLost LedgerExtends
