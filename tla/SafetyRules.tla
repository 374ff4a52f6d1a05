----------------------------- MODULE SafetyRules -----------------------------
(***************************************************************************)
(* One validator's SafetyRules over its PersistentSafetyStorage, through   *)
(* several epochs: what is persisted, what is only cached, what is         *)
(* released to the caller, and what a failed or half-failed storage call   *)
(* or a restart leaves behind.  Module TwoChain assumes of each honest     *)
(* validator what this module shows of the code.                           *)
(*                                                                         *)
(* The certificates in a request are the environment's: a request whose    *)
(* certificates do not verify, or that fails any other check, is refused   *)
(* and leaves at most the cache filled (action ConsensusState).            *)
(***************************************************************************)
EXTENDS TwoChainRules, FiniteSets

CONSTANTS
    Epochs,           \* the epochs this validator lives through
    Proposals,        \* the blocks it may be asked about
    Author,           \* the validator itself
    Keys,             \* consensus public keys
    expected_key,     \* its key in the validator set of an epoch, or None
    StoredKeys,       \* the keys whose private half is in its storage
    enable_cached_safety_data,
    skip_sig_verify,  \* local mode: consensus has verified the certificates
    StorageFailures,  \* which storage calls may fail, and how
    None              \* Option::None

\* A block as the rules see it: its own round, the round of the block its QC
\* certifies and the round of that block's parent.
Block == [epoch : Epochs, round : Round \ {0}, qc_round : Round,
          qc_parent_round : Round, author : {Author, None}, id : STRING]

ASSUME SafetyRulesAssumption ==
    /\ Epochs \subseteq Nat \ {0}
    /\ Proposals \subseteq Block
    /\ \A b \in Proposals : b.qc_round < b.round /\ b.qc_parent_round <= b.qc_round
    /\ None \notin Keys
    /\ None \notin Proposals
    /\ expected_key \in [Epochs -> Keys \cup {None}]
    /\ StoredKeys \subseteq Keys
    /\ enable_cached_safety_data \in BOOLEAN
    /\ skip_sig_verify \in BOOLEAN
    /\ StorageFailures \subseteq {"set_lost", "set_applied", "get"}

VARIABLES
    store,         \* SafetyData in the secure storage
    waypoint,      \* the epoch that the stored waypoint starts
    cached_safety_data,
    validator_signer,  \* the key it signs with, or None
    epoch_state,   \* the epoch whose verifier is loaded, or None
    votes,         \* released signatures: blocks voted for,
    timeouts,      \*   [epoch, round, hqc_round] timed out,
    order_votes,   \*   blocks order-voted for,
    proposals      \*   blocks proposed

persisted == <<store, waypoint>>
memory == <<cached_safety_data, validator_signer, epoch_state>>
released == <<votes, timeouts, order_votes, proposals>>
vars == <<persisted, memory, released>>

SafetyData == [epoch : Epochs, last_voted_round : Round, preferred_round : Round,
               one_chain_round : Round, highest_timeout_round : Round,
               last_vote : Proposals \cup {None}]

\* SafetyData::new(epoch, 0, 0, 0, None, 0)
NewSafetyData(epoch) ==
    [epoch |-> epoch, last_voted_round |-> 0, preferred_round |-> 0,
     one_chain_round |-> 0, highest_timeout_round |-> 0, last_vote |-> None]

\* A node starts on the storage of a fresh validator, whose waypoint may
\* belong to an earlier epoch.
Init ==
    /\ \E e \in Epochs : store = NewSafetyData(e) /\ waypoint \in {w \in Epochs : w <= e}
    /\ cached_safety_data = None
    /\ validator_signer = None
    /\ epoch_state = None
    /\ votes = {}
    /\ timeouts = {}
    /\ order_votes = {}
    /\ proposals = {}

-----------------------------------------------------------------------------
(* PersistentSafetyStorage.                                                *)

\* How a set on the storage may end: "ok", "set_lost" (an error, nothing
\* written) or "set_applied" (an error although the value was written).
SetOutcomes == {"ok"} \cup (StorageFailures \cap {"set_lost", "set_applied"})

\* Whether another entry of the storage is read.
GetOutcomes == {TRUE, "get" \notin StorageFailures}

\* Whether safety_data() may return a value.  Without the cache it does not:
\* `return self.internal_store.get(SAFETY_DATA).map(..)?` asks the storage for
\* a Result<SafetyData, Error>, which what set_safety_data wrote is not.
can_read == enable_cached_safety_data

\* Whether safety_data() may fail: also when the storage has to be read.
may_fail_to_read ==
    \/ ~can_read
    \/ cached_safety_data = None /\ "get" \in StorageFailures

\* The value of safety_data(): the cache if it is filled, else the store.
safety_data ==
    IF cached_safety_data # None THEN cached_safety_data ELSE store

\* The cache after safety_data() was called.
fill_cache == cached_safety_data' = safety_data

\* Mutant: the cache is updated before the outcome of the write is known.
set_safety_data_caches_first(data, outcome) ==
    /\ store' = IF outcome = "set_lost" THEN store ELSE data
    /\ cached_safety_data' = data

set_safety_data(data, outcome) ==
    /\ store' = IF outcome = "set_lost" THEN store ELSE data
    /\ cached_safety_data' = IF outcome = "ok" THEN data ELSE None

-----------------------------------------------------------------------------
(* Certificates: one of an epoch verifies under that epoch's verifier only, *)
(* except the QC of a genesis block, which carries no signatures.          *)

verify_epoch(epoch) == can_read /\ epoch = safety_data.epoch

verify_qc(epoch, round) ==
    /\ epoch_state # None
    /\ skip_sig_verify \/ round = 0 \/ epoch_state = epoch

verify_tc(epoch, tc) ==
    tc # NoTC => epoch_state # None /\ (skip_sig_verify \/ epoch_state = epoch)

\* The timeout certificates a request may carry: none, or one of the epoch.
OptionalTC == {NoTC} \cup Timeout

\* The part of verify_proposal that depends on this validator's state.
verify_proposal(b) == verify_epoch(b.epoch) /\ verify_qc(b.epoch, b.qc_round)

-----------------------------------------------------------------------------
(* Operations.                                                             *)

\* consensus_state(), or any request that was refused after the read.
ConsensusState ==
    /\ can_read
    /\ fill_cache
    /\ UNCHANGED <<persisted, validator_signer, epoch_state, released>>

\* The key to sign with in an epoch: the one in the validator set, if there
\* is one, and the validator has it already or the storage returns its
\* private half.
reconcile_key(epoch, key_read) ==
    IF expected_key[epoch] # None
          /\ (expected_key[epoch] = validator_signer
                \/ (key_read /\ expected_key[epoch] \in StoredKeys))
    THEN expected_key[epoch]
    ELSE None

\* Mutant: safety data is reset also when the epoch is not new.
starts_new_epoch_always(epoch) == safety_data.epoch <= epoch

starts_new_epoch(epoch) == safety_data.epoch < epoch

\* initialize(proof) with a proof that leads from the waypoint to the start
\* of an epoch.  It sets the waypoint, then the safety data, then what is
\* kept in memory, and any of its storage calls may end it early:
\*   the waypoint cannot be written;
InitializeWaypointFails(epoch, outcome) ==
    /\ epoch > waypoint
    /\ outcome # "ok"
    /\ waypoint' = IF outcome = "set_applied" THEN epoch ELSE waypoint
    /\ UNCHANGED <<store, memory, released>>

\*   the safety data cannot be read;
InitializeReadFails(epoch) ==
    /\ epoch >= waypoint
    /\ may_fail_to_read
    /\ waypoint' = epoch
    /\ UNCHANGED <<store, memory, released>>

\*   the safety data is already of a later epoch (WaypointOutOfDate);
InitializeOutOfDate(epoch) ==
    /\ epoch >= waypoint
    /\ can_read
    /\ safety_data.epoch > epoch
    /\ waypoint' = epoch
    /\ fill_cache
    /\ UNCHANGED <<store, validator_signer, epoch_state, released>>

\*   the new epoch's safety data cannot be written;
InitializeStoreFails(epoch, outcome) ==
    /\ epoch >= waypoint
    /\ can_read
    /\ starts_new_epoch(epoch)
    /\ outcome # "ok"
    /\ waypoint' = epoch
    /\ set_safety_data(NewSafetyData(epoch), outcome)
    /\ UNCHANGED <<validator_signer, epoch_state, released>>

\*   or the author cannot be read: the verifier is loaded, the signer kept.
Initialize(epoch, author_read, key_read) ==
    /\ epoch >= waypoint
    /\ can_read
    /\ safety_data.epoch <= epoch
    /\ waypoint' = epoch
    /\ IF starts_new_epoch(epoch)
       THEN set_safety_data(NewSafetyData(epoch), "ok")
       ELSE fill_cache /\ UNCHANGED store
    /\ epoch_state' = epoch
    /\ validator_signer' =
          IF author_read THEN reconcile_key(epoch, key_read) ELSE validator_signer
    /\ UNCHANGED released

proposes_later_round(b) == b.round > safety_data.last_voted_round

\* sign_proposal: the preferred round it observes is not persisted.
SignProposal(b) ==
    /\ validator_signer # None
    /\ b.author = Author
    /\ verify_epoch(b.epoch)
    /\ proposes_later_round(b)
    /\ verify_qc(b.epoch, b.qc_round)
    /\ b.qc_round >= safety_data.preferred_round
    /\ fill_cache
    /\ proposals' = proposals \cup {b}
    /\ UNCHANGED <<persisted, validator_signer, epoch_state, votes, timeouts,
                   order_votes>>

\* sign_timeout_with_qc: persisted first, signed and released after.
SignTimeoutWithQC(epoch, t, tc, outcome) ==
    LET sd == safety_data
    IN  /\ validator_signer # None
        /\ verify_epoch(epoch)
        /\ skip_sig_verify \/ verify_qc(epoch, t.hqc_round)
        /\ verify_tc(epoch, tc)
        /\ safe_to_timeout(t.round, t.hqc_round, tc, sd)
        /\ t.round >= sd.last_voted_round
        /\ set_safety_data(
              update_highest_timeout_round(
                  [sd EXCEPT !.last_voted_round = t.round], t.round),
              outcome)
        /\ timeouts' = IF outcome = "ok"
                       THEN timeouts \cup {[epoch |-> epoch, round |-> t.round,
                                            hqc_round |-> t.hqc_round]}
                       ELSE timeouts
        /\ UNCHANGED <<waypoint, validator_signer, epoch_state, votes,
                       order_votes, proposals>>

\* construct_and_sign_vote_two_chain, the last vote was in this round: the
\* caller gets it again, whatever block it asked about.
ResendLastVote(b, tc) ==
    LET last_vote == safety_data.last_vote
    IN  /\ validator_signer # None
        /\ verify_proposal(b)
        /\ verify_tc(b.epoch, tc)
        /\ last_vote # None
        /\ last_vote.round = b.round
        /\ fill_cache
        /\ votes' = votes \cup {last_vote}
        /\ UNCHANGED <<persisted, validator_signer, epoch_state, timeouts,
                       order_votes, proposals>>

\* Mutant: the vote is released although it could not be persisted.
ConstructAndSignVoteReleasesFirst(b, tc, outcome) ==
    LET sd == safety_data
    IN  /\ validator_signer # None
        /\ verify_proposal(b)
        /\ sd.last_vote # None => sd.last_vote.round # b.round
        /\ b.round > sd.last_voted_round
        /\ safe_to_vote(b.round, b.qc_round, tc)
        /\ set_safety_data(
              observe_qc([sd EXCEPT !.last_voted_round = b.round, !.last_vote = b],
                         b.qc_round, b.qc_parent_round),
              outcome)
        /\ votes' = votes \cup {b}
        /\ UNCHANGED <<waypoint, validator_signer, epoch_state, timeouts,
                       order_votes, proposals>>

\* construct_and_sign_vote_two_chain, a new vote: signed, persisted with the
\* safety data, and only then released.
ConstructAndSignVote(b, tc, outcome) ==
    LET sd == safety_data
    IN  /\ validator_signer # None
        /\ verify_proposal(b)
        /\ verify_tc(b.epoch, tc)
        /\ sd.last_vote # None => sd.last_vote.round # b.round
        /\ b.round > sd.last_voted_round
        /\ safe_to_vote(b.round, b.qc_round, tc)
        /\ set_safety_data(
              observe_qc([sd EXCEPT !.last_voted_round = b.round, !.last_vote = b],
                         b.qc_round, b.qc_parent_round),
              outcome)
        /\ votes' = IF outcome = "ok" THEN votes \cup {b} ELSE votes
        /\ UNCHANGED <<waypoint, validator_signer, epoch_state, timeouts,
                       order_votes, proposals>>

\* Mutant: the QC observed with an order vote is not persisted.
ConstructAndSignOrderVoteUnsaved(b, outcome) ==
    /\ validator_signer # None
    /\ verify_epoch(b.epoch)
    /\ verify_qc(b.epoch, b.round)
    /\ safe_for_order_vote(b.round, safety_data)
    /\ set_safety_data(safety_data, outcome)
    /\ order_votes' = IF outcome = "ok" THEN order_votes \cup {b} ELSE order_votes
    /\ UNCHANGED <<waypoint, validator_signer, epoch_state, votes, timeouts,
                   proposals>>

\* construct_and_sign_order_vote with the QC of b.
ConstructAndSignOrderVote(b, outcome) ==
    LET sd == observe_qc(safety_data, b.round, b.qc_round)
    IN  /\ validator_signer # None
        /\ verify_epoch(b.epoch)
        /\ verify_qc(b.epoch, b.round)
        /\ safe_for_order_vote(b.round, sd)
        /\ set_safety_data(sd, outcome)
        /\ order_votes' = IF outcome = "ok" THEN order_votes \cup {b} ELSE order_votes
        /\ UNCHANGED <<waypoint, validator_signer, epoch_state, votes, timeouts,
                       proposals>>

\* The process stops, at any point, and starts again on the same storage.
\* (Stopping between a write and the release of the signature is the
\* outcome "set_applied" followed by this action.)
Restart ==
    /\ cached_safety_data' = None
    /\ validator_signer' = None
    /\ epoch_state' = None
    /\ UNCHANGED <<persisted, released>>

Next ==
    \/ ConsensusState
    \/ \E epoch \in Epochs, outcome \in SetOutcomes :
          InitializeWaypointFails(epoch, outcome)
    \/ \E epoch \in Epochs : InitializeReadFails(epoch) \/ InitializeOutOfDate(epoch)
    \/ \E epoch \in Epochs, outcome \in SetOutcomes :
          InitializeStoreFails(epoch, outcome)
    \/ \E epoch \in Epochs, author_read, key_read \in GetOutcomes :
          Initialize(epoch, author_read, key_read)
    \/ \E b \in Proposals : SignProposal(b)
    \/ \E epoch \in Epochs, t \in Timeout, tc \in OptionalTC, outcome \in SetOutcomes :
          SignTimeoutWithQC(epoch, t, tc, outcome)
    \/ \E b \in Proposals, tc \in OptionalTC : ResendLastVote(b, tc)
    \/ \E b \in Proposals, tc \in OptionalTC, outcome \in SetOutcomes :
          ConstructAndSignVote(b, tc, outcome)
    \/ \E b \in Proposals, outcome \in SetOutcomes :
          ConstructAndSignOrderVote(b, outcome)
    \/ Restart

Spec == Init /\ [][Next]_vars

\* The latest epoch.
LatestEpoch == CHOOSE e \in Epochs : \A d \in Epochs : d <= e

\* Mutant: a request that fails with IncorrectEpoch is not retried.
RetriesUninitializedOnly == validator_signer = None

\* A request of the latest epoch fails with NotInitialized or IncorrectEpoch,
\* after which MetricsSafetyRules::retry initializes.
retries == validator_signer = None \/ safety_data.epoch # LatestEpoch

\* perform_initialize, with proofs up to the latest epoch.
Reinitialize == retries /\ Initialize(LatestEpoch, TRUE, TRUE)

\* A node in the latest epoch keeps making requests: its local timeouts recur.
\* One that has to be retried for ever finds a storage that does not fail.
FairSpec == Spec /\ WF_vars(Reinitialize)

-----------------------------------------------------------------------------
(* Properties.                                                             *)

TypeOK ==
    /\ store \in SafetyData
    /\ waypoint \in Epochs
    /\ cached_safety_data \in SafetyData \cup {None}
    /\ validator_signer \in Keys \cup {None}
    /\ epoch_state \in Epochs \cup {None}
    /\ votes \subseteq Proposals
    /\ timeouts \subseteq [epoch : Epochs, round : Round, hqc_round : Round]
    /\ order_votes \subseteq Proposals
    /\ proposals \subseteq Proposals

\* No two released votes of one epoch and round are for different blocks,
\* whatever was lost, half-written or restarted in between.
OneVotePerRound ==
    \A b1, b2 \in votes :
        b1.epoch = b2.epoch /\ b1.round = b2.round => b1 = b2

\* A released timeout of the round of a released vote, or of a later round,
\* carries a QC at least as high as the block voted for; and one at least as
\* high as any block order-voted for.  (TimeoutCarriesVotedQC and
\* TimeoutCarriesOrderVotedQC of TwoChain, for the code that persists.)
TimeoutsCarryQCs ==
    \A t \in timeouts :
        /\ \A b \in votes :
              b.epoch = t.epoch /\ t.round >= b.round => t.hqc_round >= b.qc_round
        /\ \A b \in order_votes :
              b.epoch = t.epoch /\ t.round >= b.round => t.hqc_round >= b.round

\* What is persisted covers everything that was ever released: the store is
\* in the last epoch signed in, and its rounds are not behind.
StoreCoversReleased ==
    /\ \A b \in votes :
          /\ b.epoch <= store.epoch
          /\ b.epoch = store.epoch =>
                /\ b.round <= store.last_voted_round
                /\ b.qc_round <= store.one_chain_round
                /\ b.round = store.last_voted_round => store.last_vote = b
    /\ \A t \in timeouts :
          /\ t.epoch <= store.epoch
          /\ t.epoch = store.epoch =>
                /\ t.round <= store.last_voted_round
                /\ t.round <= store.highest_timeout_round
    /\ \A b \in order_votes :
          /\ b.epoch <= store.epoch
          /\ b.epoch = store.epoch => b.round <= store.one_chain_round

\* The cache is empty or holds exactly what is persisted, so that a decision
\* made on the cache is one made on the storage.
CacheCoherent == cached_safety_data \in {None, store}

\* The persisted last vote, which any later proposal of its round makes the
\* service hand out again, is of the store's epoch and no older than any vote
\* released in it, and no timeout released since contradicts it.
LastVoteIsLatest ==
    /\ store.last_vote # None =>
          /\ store.last_vote.epoch = store.epoch
          /\ store.last_vote.round <= store.last_voted_round
          /\ store.last_vote.qc_round <= store.one_chain_round
          /\ \A t \in timeouts :
                t.epoch = store.epoch /\ t.round >= store.last_vote.round
                    => t.hqc_round >= store.last_vote.qc_round
    /\ \A b \in votes :
          b.epoch = store.epoch =>
              /\ store.last_vote # None
              /\ b.round <= store.last_vote.round
              /\ b.round = store.last_vote.round => b = store.last_vote

\* The invariant the proofs of module SafetyRulesProofs show to be inductive.
\* StoreCoversReleased says why a new signature agrees with the released ones
\* and LastVoteIsLatest why one handed out again does, after whatever failed.
IInv ==
    /\ TypeOK
    /\ CacheCoherent
    /\ StoreCoversReleased
    /\ LastVoteIsLatest
    /\ OneVotePerRound
    /\ TimeoutsCarryQCs

Signer == INSTANCE HonestSigner WITH safety_data <- store

\* With its cache, its keys and its storage hidden, and with whatever the
\* storage fails to do or does without saying so, the service is the honest
\* signer of module HonestSigner: each of its steps signs, and persists in the
\* same step, exactly what the rules allow on what is persisted, or nothing.
\* (A decision on a stale cache, a signature released before it is persisted,
\* or one whose QC is forgotten is not such a step.)
ImplementsHonestSigner == Signer!Spec

\* The signer of an earlier epoch, kept by an initialize of the latest epoch that
\* failed after the safety data was written: its requests do not fail with an
\* error that makes retry initialize again.
StaleSigner ==
    /\ safety_data.epoch = LatestEpoch
    /\ validator_signer \notin {None, expected_key[LatestEpoch]}

\* Whatever failed before, and however often it restarts, a member of the latest
\* epoch gets to sign in it again and again, unless it keeps a stale signer for
\* ever.  In every other state that a failed initialize, a half-failed write or
\* a restart leaves behind, the next request is retried; and a stale signer is
\* gone with the first restart.
SignerComesBack ==
    expected_key[LatestEpoch] # None =>
        []<>(validator_signer = expected_key[LatestEpoch]) \/ <>[]StaleSigner

=============================================================================
