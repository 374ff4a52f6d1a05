CONSTANTS
    g0 = g0 a1 = a1 b2 = b2 c3 = c3 d5 = d5 f4 = f4
    None = None
    Blocks = {g0, a1, b2, c3}
    Genesis = g0
    Parent <- MCParent
    RoundOf <- MCRoundOf
    CertifiedBlocks = {a1, b2, c3}
    OrderCertified = {a1, b2, c3}
    SyncInfos <- MCSyncInfosShort
    TimeoutRounds = {}
    order_vote_enabled = TRUE
    max_pruned_blocks_in_mem = 1
    max_commit_gap = 1
    MAX_PRECOMMIT_GAP = 1
    skip_sync_small_gap_rounds = 0
    StateSyncMayFail = TRUE
SPECIFICATION LiveSpec
PROPERTY OrderedIsCommitted
\* LiveSpec has no restart: a node that panicked stays stopped.
CHECK_DEADLOCK FALSE
