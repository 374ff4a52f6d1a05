SPECIFICATION FairSpec
CONSTANTS
    None = None
    U64Max = 2
    Epochs = {1, 2}
    Proposals <- MCProposals
    Author = "me"
    Keys = {"k1", "k2"}
    expected_key <- MCExpectedKey
    StoredKeys = {"k1", "k2"}
    enable_cached_safety_data = TRUE
    skip_sig_verify = TRUE
    StorageFailures = {"set_lost", "set_applied", "get"}
INVARIANTS
    IInv
    OneVotePerRound
    TimeoutsCarryQCs
    StoreCoversReleased
PROPERTIES
    ImplementsHonestSigner
    SignerComesBack
