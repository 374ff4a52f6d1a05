-------------------------- MODULE SafetyRulesProofs --------------------------
(***************************************************************************)
(* Safety of one validator's SafetyRules for every set of blocks, every    *)
(* number of epochs and rounds, and every way in which the calls on its    *)
(* storage may fail.  The argument goes through the refinement:            *)
(*   - TypeOK and CacheCoherent are inductive, by a case for every         *)
(*     operation of the service;                                           *)
(*   - under them every operation is a step of HonestSigner on the         *)
(*     persisted safety data, or does not change what HonestSigner sees;   *)
(*   - so the rest of IInv, which is about persisted and released data     *)
(*     only, need only be preserved by the steps of HonestSigner.          *)
(***************************************************************************)
EXTENDS SafetyRules, TLAPS

-----------------------------------------------------------------------------
(* Facts about constants and operators.                                    *)

LEMMA RoundFacts ==
    /\ Round \subseteq Nat
    /\ 0 \in Round
    /\ \A r, s \in Round : MaxRound(r, s) \in Round
    /\ \A r, s \in Round : MaxRound(r, s) >= r /\ MaxRound(r, s) >= s
BY U64MaxAssumption DEF Round, MaxRound

\* The instance's copies of the rules are the rules.
LEMMA SignerRules ==
    /\ Signer!Timeout = Timeout
    /\ Signer!NoTC = NoTC
    /\ \A e : Signer!FreshSafetyData(e) = NewSafetyData(e)
    /\ \A r, q, tc : Signer!safe_to_vote(r, q, tc) <=> safe_to_vote(r, q, tc)
    /\ \A r, q, tc, sd :
          Signer!safe_to_timeout(r, q, tc, sd) <=> safe_to_timeout(r, q, tc, sd)
    /\ \A r, sd : Signer!safe_for_order_vote(r, sd) <=> safe_for_order_vote(r, sd)
    /\ \A sd, r, s : Signer!observe_qc(sd, r, s) = observe_qc(sd, r, s)
    /\ \A sd, r : Signer!update_highest_timeout_round(sd, r)
                    = update_highest_timeout_round(sd, r)
<1>1. Signer!Timeout = Timeout
  BY DEF Signer!Timeout, Timeout, Signer!Round, Round
<1>2. Signer!NoTC = NoTC /\ \A e : Signer!FreshSafetyData(e) = NewSafetyData(e)
  BY DEF Signer!NoTC, NoTC, Signer!FreshSafetyData, NewSafetyData
<1>3. \A r, q, tc : Signer!safe_to_vote(r, q, tc) <=> safe_to_vote(r, q, tc)
  BY Zenon DEF Signer!safe_to_vote, safe_to_vote, Signer!is_next_round, is_next_round
<1>4. \A r, q, tc, sd :
         Signer!safe_to_timeout(r, q, tc, sd) <=> safe_to_timeout(r, q, tc, sd)
  BY Zenon DEF Signer!safe_to_timeout, safe_to_timeout, Signer!is_next_round,
               is_next_round
<1>5. \A r, sd : Signer!safe_for_order_vote(r, sd) <=> safe_for_order_vote(r, sd)
  BY Zenon DEF Signer!safe_for_order_vote, safe_for_order_vote
<1>6. \A sd, r, s : Signer!observe_qc(sd, r, s) = observe_qc(sd, r, s)
  BY Zenon DEF Signer!observe_qc, observe_qc, Signer!MaxRound, MaxRound
<1>7. \A sd, r : Signer!update_highest_timeout_round(sd, r)
                   = update_highest_timeout_round(sd, r)
  BY Zenon DEF Signer!update_highest_timeout_round, update_highest_timeout_round,
               Signer!MaxRound, MaxRound
<1>8. QED
  BY <1>1, <1>2, <1>3, <1>4, <1>5, <1>6, <1>7

\* What is known of a block a validator is asked about.
LEMMA ProposalFacts ==
    \A b \in Proposals :
        /\ b.epoch \in Epochs /\ b.round \in Round /\ b.qc_round \in Round
        /\ b.qc_parent_round \in Round
        /\ b.qc_round < b.round
        /\ b # None
BY SafetyRulesAssumption DEF Block

LEMMA SafetyDataFields ==
    \A sd \in SafetyData :
        /\ sd.epoch \in Epochs /\ sd.last_voted_round \in Round
        /\ sd.preferred_round \in Round /\ sd.one_chain_round \in Round
        /\ sd.highest_timeout_round \in Round
        /\ sd.last_vote \in Proposals \cup {None}
BY DEF SafetyData

\* The three ways in which the rules advance safety data, field by field.
LEMMA NewSafetyDataFields ==
    ASSUME NEW e \in Epochs
    PROVE  /\ NewSafetyData(e) \in SafetyData
           /\ NewSafetyData(e).epoch = e
           /\ NewSafetyData(e).last_vote = None
BY RoundFacts DEF NewSafetyData, SafetyData

LEMMA VotedSafetyData ==
    ASSUME NEW sd \in SafetyData, NEW b \in Proposals
    PROVE  LET new == observe_qc([sd EXCEPT !.last_voted_round = b.round, !.last_vote = b],
                                 b.qc_round, b.qc_parent_round)
           IN  /\ new \in SafetyData
               /\ new.epoch = sd.epoch
               /\ new.last_voted_round = b.round
               /\ new.last_vote = b
               /\ new.highest_timeout_round = sd.highest_timeout_round
               /\ new.one_chain_round >= sd.one_chain_round
               /\ new.one_chain_round >= b.qc_round
<1> DEFINE mid == [sd EXCEPT !.last_voted_round = b.round, !.last_vote = b]
<1>1. /\ mid \in SafetyData
      /\ mid.epoch = sd.epoch /\ mid.last_voted_round = b.round /\ mid.last_vote = b
      /\ mid.highest_timeout_round = sd.highest_timeout_round
      /\ mid.one_chain_round = sd.one_chain_round
  BY ProposalFacts DEF SafetyData
<1> HIDE DEF mid
<1>2. QED
  BY <1>1, ProposalFacts, RoundFacts DEF observe_qc, SafetyData, mid

LEMMA TimedOutSafetyData ==
    ASSUME NEW sd \in SafetyData, NEW r \in Round
    PROVE  LET new == update_highest_timeout_round([sd EXCEPT !.last_voted_round = r], r)
           IN  /\ new \in SafetyData
               /\ new.epoch = sd.epoch
               /\ new.last_voted_round = r
               /\ new.last_vote = sd.last_vote
               /\ new.one_chain_round = sd.one_chain_round
               /\ new.highest_timeout_round >= sd.highest_timeout_round
               /\ new.highest_timeout_round >= r
<1> DEFINE mid == [sd EXCEPT !.last_voted_round = r]
<1>1. /\ mid \in SafetyData
      /\ mid.epoch = sd.epoch /\ mid.last_voted_round = r
      /\ mid.last_vote = sd.last_vote
      /\ mid.highest_timeout_round = sd.highest_timeout_round
      /\ mid.one_chain_round = sd.one_chain_round
  BY DEF SafetyData
<1> HIDE DEF mid
<1>2. QED
  BY <1>1, RoundFacts DEF update_highest_timeout_round, SafetyData, mid

LEMMA ObservedSafetyData ==
    ASSUME NEW sd \in SafetyData, NEW r \in Round, NEW s \in Round
    PROVE  LET new == observe_qc(sd, r, s)
           IN  /\ new \in SafetyData
               /\ new.epoch = sd.epoch
               /\ new.last_voted_round = sd.last_voted_round
               /\ new.last_vote = sd.last_vote
               /\ new.highest_timeout_round = sd.highest_timeout_round
               /\ new.one_chain_round >= sd.one_chain_round
               /\ new.one_chain_round >= r
BY RoundFacts DEF observe_qc, SafetyData

LEMMA TimeoutFacts ==
    \A t \in Timeout : t.round \in Round /\ t.hqc_round \in Round
BY DEF Timeout

-----------------------------------------------------------------------------
(* Reading and writing the storage.                                        *)

\* What a state must satisfy for the service to see its storage as it is.
Storage == TypeOK /\ CacheCoherent

\* A decision is made on what is persisted.
LEMMA ReadsStore ==
    ASSUME Storage
    PROVE  safety_data = store /\ store \in SafetyData
BY DEF Storage, TypeOK, CacheCoherent, safety_data

\* After any outcome of a write the cache agrees with the store.
LEMMA WriteKeepsStorage ==
    ASSUME Storage, NEW data \in SafetyData, NEW outcome, set_safety_data(data, outcome)
    PROVE  /\ store' \in {store, data} /\ store' \in SafetyData
           /\ outcome = "ok" => store' = data
           /\ CacheCoherent'
           /\ cached_safety_data' \in SafetyData \cup {None}
BY DEF Storage, TypeOK, CacheCoherent, set_safety_data

LEMMA ReadKeepsStorage ==
    ASSUME Storage, fill_cache, UNCHANGED store
    PROVE  /\ store' \in SafetyData
           /\ CacheCoherent'
           /\ cached_safety_data' \in SafetyData \cup {None}
BY ReadsStore DEF fill_cache, CacheCoherent

-----------------------------------------------------------------------------
(* Type correctness and the cache, one step per operation.                 *)

LEMMA StorageInit == Init => Storage
<1>1. SUFFICES ASSUME Init
               PROVE  Storage
  OBVIOUS
<1>2. PICK e \in Epochs : store = NewSafetyData(e) /\ waypoint \in {w \in Epochs : w <= e}
  BY <1>1 DEF Init
<1>3. store \in SafetyData
  BY <1>2, NewSafetyDataFields
<1>4. QED
  BY <1>1, <1>2, <1>3 DEF Init, Storage, TypeOK, CacheCoherent

LEMMA SignTimeoutStorage ==
    ASSUME Storage, NEW epoch \in Epochs, NEW t \in Timeout, NEW tc, NEW outcome,
           SignTimeoutWithQC(epoch, t, tc, outcome)
    PROVE  Storage'
<1> DEFINE new == update_highest_timeout_round(
                      [store EXCEPT !.last_voted_round = t.round], t.round)
           signed == [epoch |-> epoch, round |-> t.round, hqc_round |-> t.hqc_round]
<1>1. safety_data = store /\ store \in SafetyData
  BY ReadsStore
<1>2. new \in SafetyData
  BY <1>1, TimedOutSafetyData, TimeoutFacts
<1>3. set_safety_data(new, outcome)
  BY <1>1 DEF SignTimeoutWithQC
<1>4. signed \in [epoch : Epochs, round : Round, hqc_round : Round]
  BY TimeoutFacts
<1>5. timeouts' \subseteq timeouts \cup {signed}
  BY DEF SignTimeoutWithQC
<1>6. UNCHANGED <<waypoint, validator_signer, epoch_state, votes, order_votes, proposals>>
  BY DEF SignTimeoutWithQC
<1> HIDE DEF new, signed
<1>7. /\ store' \in SafetyData /\ CacheCoherent'
      /\ cached_safety_data' \in SafetyData \cup {None}
  BY <1>2, <1>3, WriteKeepsStorage
<1>8. QED
  BY <1>4, <1>5, <1>6, <1>7 DEF Storage, TypeOK

LEMMA VoteStorage ==
    ASSUME Storage, NEW b \in Proposals, NEW tc, NEW outcome,
           ConstructAndSignVote(b, tc, outcome)
    PROVE  Storage'
<1> DEFINE new == observe_qc([store EXCEPT !.last_voted_round = b.round, !.last_vote = b],
                             b.qc_round, b.qc_parent_round)
<1>1. safety_data = store /\ store \in SafetyData
  BY ReadsStore
<1>2. new \in SafetyData
  BY <1>1, VotedSafetyData
<1>3. set_safety_data(new, outcome)
  BY <1>1 DEF ConstructAndSignVote
<1>4. votes' \subseteq votes \cup {b}
  BY DEF ConstructAndSignVote
<1>5. UNCHANGED <<waypoint, validator_signer, epoch_state, timeouts, order_votes, proposals>>
  BY DEF ConstructAndSignVote
<1> HIDE DEF new
<1>6. /\ store' \in SafetyData /\ CacheCoherent'
      /\ cached_safety_data' \in SafetyData \cup {None}
  BY <1>2, <1>3, WriteKeepsStorage
<1>7. QED
  BY <1>4, <1>5, <1>6 DEF Storage, TypeOK

LEMMA OrderVoteStorage ==
    ASSUME Storage, NEW b \in Proposals, NEW outcome,
           ConstructAndSignOrderVote(b, outcome)
    PROVE  Storage'
<1> DEFINE new == observe_qc(store, b.round, b.qc_round)
<1>1. safety_data = store /\ store \in SafetyData
  BY ReadsStore
<1>2. new \in SafetyData
  BY <1>1, ObservedSafetyData, ProposalFacts
<1>3. set_safety_data(new, outcome)
  BY <1>1 DEF ConstructAndSignOrderVote
<1>4. order_votes' \subseteq order_votes \cup {b}
  BY DEF ConstructAndSignOrderVote
<1>5. UNCHANGED <<waypoint, validator_signer, epoch_state, votes, timeouts, proposals>>
  BY DEF ConstructAndSignOrderVote
<1> HIDE DEF new
<1>6. /\ store' \in SafetyData /\ CacheCoherent'
      /\ cached_safety_data' \in SafetyData \cup {None}
  BY <1>2, <1>3, WriteKeepsStorage
<1>7. QED
  BY <1>4, <1>5, <1>6 DEF Storage, TypeOK

LEMMA InitializeStorage ==
    ASSUME Storage, NEW epoch \in Epochs, NEW author_read, NEW key_read,
           Initialize(epoch, author_read, key_read)
    PROVE  Storage'
<1>1. /\ store' \in SafetyData /\ CacheCoherent'
      /\ cached_safety_data' \in SafetyData \cup {None}
  <2>1. CASE starts_new_epoch(epoch)
    <3>1. set_safety_data(NewSafetyData(epoch), "ok")
      BY <2>1 DEF Initialize
    <3>2. QED
      BY <3>1, NewSafetyDataFields, WriteKeepsStorage
  <2>2. CASE ~ starts_new_epoch(epoch)
    BY <2>2, ReadKeepsStorage DEF Initialize
  <2>3. QED
    BY <2>1, <2>2
<1>2. reconcile_key(epoch, key_read) \in Keys \cup {None}
  BY SafetyRulesAssumption DEF reconcile_key
<1>3. /\ waypoint' = epoch /\ epoch_state' = epoch /\ UNCHANGED released
      /\ validator_signer' \in {reconcile_key(epoch, key_read), validator_signer}
  BY DEF Initialize
<1>4. QED
  BY <1>1, <1>2, <1>3 DEF Storage, TypeOK, released

LEMMA StorageStep == Storage /\ [Next]_vars => Storage'
<1> SUFFICES ASSUME Storage, [Next]_vars
             PROVE  Storage'
  OBVIOUS
<1>1. CASE ConsensusState
  BY <1>1, ReadKeepsStorage DEF ConsensusState, persisted, released, Storage, TypeOK
<1>2. CASE \E epoch \in Epochs, outcome \in SetOutcomes :
              InitializeWaypointFails(epoch, outcome)
  BY <1>2 DEF InitializeWaypointFails, memory, released, Storage, TypeOK, CacheCoherent
<1>3. CASE \E epoch \in Epochs : InitializeReadFails(epoch)
  BY <1>3 DEF InitializeReadFails, memory, released, Storage, TypeOK, CacheCoherent
<1>4. CASE \E epoch \in Epochs : InitializeOutOfDate(epoch)
  BY <1>4, ReadKeepsStorage DEF InitializeOutOfDate, released, Storage, TypeOK
<1>5. CASE \E epoch \in Epochs, outcome \in SetOutcomes :
              InitializeStoreFails(epoch, outcome)
  BY <1>5, NewSafetyDataFields, WriteKeepsStorage
  DEF InitializeStoreFails, released, Storage, TypeOK
<1>6. CASE \E epoch \in Epochs, author_read, key_read \in GetOutcomes :
              Initialize(epoch, author_read, key_read)
  BY <1>6, InitializeStorage
<1>7. CASE \E b \in Proposals : SignProposal(b)
  BY <1>7, ReadKeepsStorage DEF SignProposal, persisted, Storage, TypeOK
<1>8. CASE \E epoch \in Epochs, t \in Timeout, tc \in OptionalTC, outcome \in SetOutcomes :
              SignTimeoutWithQC(epoch, t, tc, outcome)
  BY <1>8, SignTimeoutStorage
<1>9. CASE \E b \in Proposals, tc \in OptionalTC : ResendLastVote(b, tc)
  <2>1. store.last_vote \in Proposals \cup {None}
    BY ReadsStore, SafetyDataFields
  <2>2. QED
    BY <1>9, <2>1, ReadsStore, ReadKeepsStorage DEF ResendLastVote, persisted, Storage, TypeOK
<1>10. CASE \E b \in Proposals, tc \in OptionalTC, outcome \in SetOutcomes :
               ConstructAndSignVote(b, tc, outcome)
  BY <1>10, VoteStorage
<1>11. CASE \E b \in Proposals, outcome \in SetOutcomes :
               ConstructAndSignOrderVote(b, outcome)
  BY <1>11, OrderVoteStorage
<1>12. CASE Restart
  BY <1>12 DEF Restart, persisted, released, Storage, TypeOK, CacheCoherent
<1>13. CASE UNCHANGED vars
  BY <1>13 DEF vars, persisted, memory, released, Storage, TypeOK, CacheCoherent
<1>14. QED
  BY <1>1, <1>2, <1>3, <1>4, <1>5, <1>6, <1>7, <1>8, <1>9, <1>10, <1>11, <1>12,
     <1>13 DEF Next

\* Every reachable state is well typed, and whatever failed, its cache is
\* empty or what is persisted (set_safety_data, safety_data).
THEOREM StorageCorrect == Spec => [](TypeOK /\ CacheCoherent)
<1>1. Spec => []Storage
  BY StorageInit, StorageStep, PTL DEF Spec
<1>2. Storage => TypeOK /\ CacheCoherent
  BY DEF Storage
<1>3. QED
  BY <1>1, <1>2, PTL

-----------------------------------------------------------------------------
(* Every operation is a step of HonestSigner, or invisible to it.          *)

\* A proposal is signed on what is persisted.
LEMMA ProposeImplements ==
    ASSUME Storage, NEW b \in Proposals, SignProposal(b)
    PROVE  Signer!Propose(b)
BY ReadsStore
DEF SignProposal, verify_epoch, proposes_later_round, persisted, Signer!Propose

\* A timeout that was written is one that the rules allow on what was
\* persisted, and it is released in the same step or not at all; one whose
\* write was lost is not released.
LEMMA TimeoutImplements ==
    ASSUME Storage, NEW epoch \in Epochs, NEW t \in Timeout, NEW tc \in OptionalTC,
           NEW outcome \in SetOutcomes, SignTimeoutWithQC(epoch, t, tc, outcome)
    PROVE  Signer!SignTimeout(t) \/ UNCHANGED Signer!vars
<1> DEFINE new == update_highest_timeout_round(
                      [store EXCEPT !.last_voted_round = t.round], t.round)
           signed == [epoch |-> store.epoch, round |-> t.round, hqc_round |-> t.hqc_round]
<1>1. safety_data = store
  BY ReadsStore
<1>2. /\ epoch = store.epoch
      /\ safe_to_timeout(t.round, t.hqc_round, tc, store)
      /\ t.round >= store.last_voted_round
      /\ set_safety_data(new, outcome)
      /\ timeouts' = IF outcome = "ok" THEN timeouts \cup {signed} ELSE timeouts
      /\ UNCHANGED <<votes, order_votes, proposals>>
  BY <1>1 DEF SignTimeoutWithQC, verify_epoch
<1> HIDE DEF new, signed
<1>3. CASE outcome = "set_lost"
  BY <1>2, <1>3 DEF set_safety_data, Signer!vars
<1>4. CASE outcome # "set_lost"
  <2>1. store' = new /\ timeouts' \in {timeouts, timeouts \cup {signed}}
    BY <1>2, <1>4 DEF set_safety_data
  <2>2. \E c \in {Signer!NoTC} \cup Signer!Timeout :
           Signer!safe_to_timeout(t.round, t.hqc_round, c, store)
    BY <1>2, SignerRules DEF OptionalTC
  <2>3. new = Signer!update_highest_timeout_round(
                  [store EXCEPT !.last_voted_round = t.round], t.round)
    BY SignerRules DEF new
  <2>4. QED
    BY <1>2, <2>1, <2>2, <2>3 DEF Signer!SignTimeout, signed
<1>5. QED
  BY <1>3, <1>4

\* The same for a new vote;
LEMMA VoteImplements ==
    ASSUME Storage, NEW b \in Proposals, NEW tc \in OptionalTC,
           NEW outcome \in SetOutcomes, ConstructAndSignVote(b, tc, outcome)
    PROVE  Signer!Vote(b) \/ UNCHANGED Signer!vars
<1> DEFINE new == observe_qc([store EXCEPT !.last_voted_round = b.round, !.last_vote = b],
                             b.qc_round, b.qc_parent_round)
<1>1. safety_data = store
  BY ReadsStore
<1>2. /\ b.epoch = store.epoch
      /\ safe_to_vote(b.round, b.qc_round, tc)
      /\ b.round > store.last_voted_round
      /\ set_safety_data(new, outcome)
      /\ votes' = IF outcome = "ok" THEN votes \cup {b} ELSE votes
      /\ UNCHANGED <<timeouts, order_votes, proposals>>
  BY <1>1 DEF ConstructAndSignVote, verify_proposal, verify_epoch
<1> HIDE DEF new
<1>3. CASE outcome = "set_lost"
  BY <1>2, <1>3 DEF set_safety_data, Signer!vars
<1>4. CASE outcome # "set_lost"
  <2>1. store' = new /\ votes' \in {votes, votes \cup {b}}
    BY <1>2, <1>4 DEF set_safety_data
  <2>2. \E c \in {Signer!NoTC} \cup Signer!Timeout :
           Signer!safe_to_vote(b.round, b.qc_round, c)
    BY <1>2, SignerRules DEF OptionalTC
  <2>3. new = Signer!observe_qc(
                  [store EXCEPT !.last_voted_round = b.round, !.last_vote = b],
                  b.qc_round, b.qc_parent_round)
    BY SignerRules DEF new
  <2>4. QED
    BY <1>2, <2>1, <2>2, <2>3 DEF Signer!Vote
<1>5. QED
  BY <1>3, <1>4

\* for the last vote handed out again;
LEMMA ResendImplements ==
    ASSUME Storage, NEW b \in Proposals, NEW tc, ResendLastVote(b, tc)
    PROVE  Signer!RepeatVote
BY ReadsStore DEF ResendLastVote, persisted, Signer!RepeatVote

\* and for an order vote.
LEMMA OrderVoteImplements ==
    ASSUME Storage, NEW b \in Proposals, NEW outcome \in SetOutcomes,
           ConstructAndSignOrderVote(b, outcome)
    PROVE  Signer!OrderVote(b) \/ UNCHANGED Signer!vars
<1> DEFINE new == observe_qc(store, b.round, b.qc_round)
<1>1. safety_data = store
  BY ReadsStore
<1>2. /\ b.epoch = store.epoch
      /\ safe_for_order_vote(b.round, new)
      /\ set_safety_data(new, outcome)
      /\ order_votes' = IF outcome = "ok" THEN order_votes \cup {b} ELSE order_votes
      /\ UNCHANGED <<votes, timeouts, proposals>>
  BY <1>1 DEF ConstructAndSignOrderVote, verify_epoch
<1>3. new = Signer!observe_qc(store, b.round, b.qc_round)
  BY SignerRules
<1> HIDE DEF new
<1>4. CASE outcome = "set_lost"
  BY <1>2, <1>4 DEF set_safety_data, Signer!vars
<1>5. CASE outcome # "set_lost"
  BY <1>2, <1>3, <1>5, SignerRules DEF set_safety_data, Signer!OrderVote
<1>6. QED
  BY <1>4, <1>5

\* A new epoch's safety data replaces that of an earlier epoch, or nothing
\* that HonestSigner sees changes.
LEMMA InitializeImplements ==
    ASSUME Storage, NEW epoch \in Epochs, NEW author_read, NEW key_read,
           Initialize(epoch, author_read, key_read)
    PROVE  Signer!StartEpoch(epoch) \/ UNCHANGED Signer!vars
<1>1. safety_data = store /\ store.epoch \in Nat /\ epoch \in Nat
  BY ReadsStore, SafetyDataFields, SafetyRulesAssumption
<1>2. UNCHANGED <<votes, timeouts, order_votes, proposals>>
  BY DEF Initialize, released
<1>3. CASE starts_new_epoch(epoch)
  <2>1. store' = NewSafetyData(epoch)
    BY <1>3 DEF Initialize, set_safety_data
  <2>2. QED
    BY <1>1, <1>2, <1>3, <2>1, SignerRules DEF starts_new_epoch, Signer!StartEpoch
<1>4. CASE ~ starts_new_epoch(epoch)
  BY <1>2, <1>4 DEF Initialize, Signer!vars
<1>5. QED
  BY <1>3, <1>4

LEMMA InitializeStoreFailsImplements ==
    ASSUME Storage, NEW epoch \in Epochs, NEW outcome,
           InitializeStoreFails(epoch, outcome)
    PROVE  Signer!StartEpoch(epoch) \/ UNCHANGED Signer!vars
<1>1. safety_data = store /\ store.epoch \in Nat /\ epoch \in Nat
  BY ReadsStore, SafetyDataFields, SafetyRulesAssumption
<1>2. /\ UNCHANGED <<votes, timeouts, order_votes, proposals>>
      /\ epoch > store.epoch
      /\ store' \in {store, NewSafetyData(epoch)}
  BY <1>1 DEF InitializeStoreFails, released, starts_new_epoch, set_safety_data
<1>3. QED
  BY <1>2, SignerRules DEF Signer!StartEpoch, Signer!vars

LEMMA StepImplements == Storage /\ [Next]_vars => [Signer!Next]_(Signer!vars)
<1> SUFFICES ASSUME Storage, [Next]_vars
             PROVE  Signer!Next \/ UNCHANGED Signer!vars
  OBVIOUS
<1>1. CASE ConsensusState
  BY <1>1 DEF ConsensusState, persisted, released, Signer!vars
<1>2. CASE \E epoch \in Epochs, outcome \in SetOutcomes :
              InitializeWaypointFails(epoch, outcome)
  BY <1>2 DEF InitializeWaypointFails, released, Signer!vars
<1>3. CASE \E epoch \in Epochs : InitializeReadFails(epoch) \/ InitializeOutOfDate(epoch)
  BY <1>3 DEF InitializeReadFails, InitializeOutOfDate, released, Signer!vars
<1>4. CASE \E epoch \in Epochs, outcome \in SetOutcomes :
              InitializeStoreFails(epoch, outcome)
  BY <1>4, InitializeStoreFailsImplements DEF Signer!Next
<1>5. CASE \E epoch \in Epochs, author_read, key_read \in GetOutcomes :
              Initialize(epoch, author_read, key_read)
  BY <1>5, InitializeImplements DEF Signer!Next
<1>6. CASE \E b \in Proposals : SignProposal(b)
  BY <1>6, ProposeImplements DEF Signer!Next
<1>7. CASE \E epoch \in Epochs, t \in Timeout, tc \in OptionalTC, outcome \in SetOutcomes :
              SignTimeoutWithQC(epoch, t, tc, outcome)
  BY <1>7, TimeoutImplements, SignerRules DEF Signer!Next
<1>8. CASE \E b \in Proposals, tc \in OptionalTC : ResendLastVote(b, tc)
  BY <1>8, ResendImplements DEF Signer!Next
<1>9. CASE \E b \in Proposals, tc \in OptionalTC, outcome \in SetOutcomes :
              ConstructAndSignVote(b, tc, outcome)
  BY <1>9, VoteImplements DEF Signer!Next
<1>10. CASE \E b \in Proposals, outcome \in SetOutcomes :
               ConstructAndSignOrderVote(b, outcome)
  BY <1>10, OrderVoteImplements DEF Signer!Next
<1>11. CASE Restart
  BY <1>11 DEF Restart, persisted, released, Signer!vars
<1>12. CASE UNCHANGED vars
  BY <1>12 DEF vars, persisted, released, Signer!vars
<1>13. QED
  BY <1>1, <1>2, <1>3, <1>4, <1>5, <1>6, <1>7, <1>8, <1>9, <1>10, <1>11, <1>12 DEF Next

LEMMA InitImplements == Init => Signer!Init
BY SignerRules DEF Init, Signer!Init

\* The service, with its cache, its keys and a storage that fails in every
\* modelled way, implements the signer that has none of them.
THEOREM RefinesHonestSigner == Spec => ImplementsHonestSigner
<1>1. Spec => []Storage
  BY StorageInit, StorageStep, PTL DEF Spec
<1>2. QED
  BY <1>1, InitImplements, StepImplements, PTL DEF Spec, ImplementsHonestSigner, Signer!Spec

-----------------------------------------------------------------------------
(* What was released never contradicts itself: the part of IInv that is    *)
(* about persisted and released data, one lemma per step of HonestSigner.  *)

ReleasedInv ==
    /\ StoreCoversReleased
    /\ LastVoteIsLatest
    /\ OneVotePerRound
    /\ TimeoutsCarryQCs

\* The types that the steps below use.
LEMMA TypeFacts ==
    ASSUME TypeOK
    PROVE  /\ store.epoch \in Nat /\ store.last_voted_round \in Nat
           /\ store.one_chain_round \in Nat /\ store.highest_timeout_round \in Nat
           /\ store.last_vote \in Proposals \cup {None}
           /\ \A b \in Proposals : /\ b.epoch \in Nat /\ b.round \in Nat
                                   /\ b.qc_round \in Nat /\ b # None
           /\ votes \subseteq Proposals /\ order_votes \subseteq Proposals
           /\ \A t \in timeouts : t.epoch \in Nat /\ t.round \in Nat /\ t.hqc_round \in Nat
<1>1. store \in SafetyData
  BY DEF TypeOK
<1>2. Epochs \subseteq Nat /\ Round \subseteq Nat
  BY RoundFacts, SafetyRulesAssumption
<1>3. \A t \in timeouts : t.epoch \in Epochs /\ t.round \in Round /\ t.hqc_round \in Round
  BY DEF TypeOK
<1>4. votes \subseteq Proposals /\ order_votes \subseteq Proposals
  BY DEF TypeOK
<1>5. QED
  BY <1>1, <1>2, <1>3, <1>4, SafetyDataFields, ProposalFacts

LEMMA StartEpochReleased ==
    ASSUME TypeOK, TypeOK', ReleasedInv, NEW epoch \in Epochs, Signer!StartEpoch(epoch)
    PROVE  ReleasedInv'
<1>1. /\ store'.epoch = epoch /\ store'.last_vote = None /\ epoch > store.epoch
      /\ UNCHANGED <<votes, timeouts, order_votes>>
  BY NewSafetyDataFields, SignerRules DEF Signer!StartEpoch
<1>2. epoch \in Nat
  BY SafetyRulesAssumption
<1>3. StoreCoversReleased'
  BY <1>1, <1>2, TypeFacts DEF ReleasedInv, StoreCoversReleased
<1>4. LastVoteIsLatest'
  BY <1>1, <1>2, TypeFacts DEF ReleasedInv, StoreCoversReleased, LastVoteIsLatest
<1>5. QED
  BY <1>1, <1>3, <1>4 DEF ReleasedInv, OneVotePerRound, TimeoutsCarryQCs

LEMMA VoteReleased ==
    ASSUME TypeOK, TypeOK', ReleasedInv, NEW b \in Proposals, Signer!Vote(b)
    PROVE  ReleasedInv'
<1>1. /\ b.epoch = store.epoch /\ b.round > store.last_voted_round
      /\ votes' \in {votes, votes \cup {b}}
      /\ UNCHANGED <<timeouts, order_votes>>
  BY DEF Signer!Vote
<1>2. /\ store'.epoch = store.epoch /\ store'.last_voted_round = b.round
      /\ store'.last_vote = b
      /\ store'.highest_timeout_round = store.highest_timeout_round
      /\ store'.one_chain_round >= store.one_chain_round
      /\ store'.one_chain_round >= b.qc_round
  BY VotedSafetyData, SignerRules DEF Signer!Vote, TypeOK
<1>3. /\ store'.one_chain_round \in Nat
      /\ b.epoch \in Nat /\ b.round \in Nat /\ b.qc_round \in Nat /\ b # None
  <2>1. store' \in SafetyData
    BY DEF TypeOK
  <2>2. QED
    BY <2>1, RoundFacts, SafetyDataFields, TypeFacts
<1>4. \A c \in votes' : c \in votes \/ c = b
  BY <1>1
<1>5. StoreCoversReleased'
  BY <1>1, <1>2, <1>3, <1>4, TypeFacts DEF ReleasedInv, StoreCoversReleased
<1>6. LastVoteIsLatest'
  BY <1>1, <1>2, <1>3, <1>4, TypeFacts DEF ReleasedInv, StoreCoversReleased, LastVoteIsLatest
<1>7. OneVotePerRound'
  BY <1>1, <1>3, <1>4, TypeFacts DEF ReleasedInv, StoreCoversReleased, OneVotePerRound
<1>8. TimeoutsCarryQCs'
  BY <1>1, <1>3, <1>4, TypeFacts DEF ReleasedInv, StoreCoversReleased, TimeoutsCarryQCs
<1>9. QED
  BY <1>5, <1>6, <1>7, <1>8 DEF ReleasedInv

LEMMA RepeatVoteReleased ==
    ASSUME TypeOK, ReleasedInv, Signer!RepeatVote
    PROVE  ReleasedInv'
<1>1. /\ store.last_vote # None
      /\ votes' = votes \cup {store.last_vote}
      /\ UNCHANGED <<store, timeouts, order_votes>>
  BY DEF Signer!RepeatVote
<1>2. store.last_vote \in Proposals
  BY <1>1, TypeFacts
<1>3. StoreCoversReleased'
  BY <1>1, <1>2, TypeFacts DEF ReleasedInv, StoreCoversReleased, LastVoteIsLatest
<1>4. LastVoteIsLatest'
  BY <1>1, <1>2, TypeFacts DEF ReleasedInv, LastVoteIsLatest
<1>5. OneVotePerRound'
  BY <1>1, <1>2, TypeFacts DEF ReleasedInv, LastVoteIsLatest, OneVotePerRound
<1>6. TimeoutsCarryQCs'
  BY <1>1, <1>2, TypeFacts DEF ReleasedInv, LastVoteIsLatest, TimeoutsCarryQCs
<1>7. QED
  BY <1>3, <1>4, <1>5, <1>6 DEF ReleasedInv

LEMMA SignTimeoutReleased ==
    ASSUME TypeOK, TypeOK', ReleasedInv, NEW t \in Timeout, Signer!SignTimeout(t)
    PROVE  ReleasedInv'
<1> DEFINE signed == [epoch |-> store.epoch, round |-> t.round, hqc_round |-> t.hqc_round]
<1>1. /\ t.round >= store.last_voted_round
      /\ timeouts' \in {timeouts, timeouts \cup {signed}}
      /\ UNCHANGED <<votes, order_votes>>
  BY DEF Signer!SignTimeout
<1>2. t.hqc_round >= store.one_chain_round
  BY SignerRules DEF Signer!SignTimeout, safe_to_timeout
<1>3. /\ t.round \in Nat /\ t.hqc_round \in Nat
      /\ signed.epoch = store.epoch /\ signed.round = t.round
      /\ signed.hqc_round = t.hqc_round
  BY TimeoutFacts, RoundFacts
<1>4. /\ store'.epoch = store.epoch /\ store'.last_voted_round = t.round
      /\ store'.last_vote = store.last_vote
      /\ store'.one_chain_round = store.one_chain_round
      /\ store'.highest_timeout_round >= store.highest_timeout_round
      /\ store'.highest_timeout_round >= t.round
  BY TimedOutSafetyData, TimeoutFacts, SignerRules DEF Signer!SignTimeout, TypeOK
<1>5. store'.highest_timeout_round \in Nat
  <2>1. store' \in SafetyData
    BY DEF TypeOK
  <2>2. QED
    BY <2>1, RoundFacts, SafetyDataFields
<1>6. \A u \in timeouts' : u \in timeouts \/ u = signed
  BY <1>1
<1> HIDE DEF signed
<1>7. StoreCoversReleased'
  BY <1>1, <1>3, <1>4, <1>5, <1>6, TypeFacts
  DEF ReleasedInv, StoreCoversReleased, LastVoteIsLatest
<1>8. LastVoteIsLatest'
  BY <1>1, <1>2, <1>3, <1>4, <1>6, TypeFacts
  DEF ReleasedInv, LastVoteIsLatest
<1>9. TimeoutsCarryQCs'
  BY <1>1, <1>2, <1>3, <1>6, TypeFacts
  DEF ReleasedInv, StoreCoversReleased, TimeoutsCarryQCs
<1>10. QED
  BY <1>1, <1>7, <1>8, <1>9 DEF ReleasedInv, OneVotePerRound

LEMMA OrderVoteReleased ==
    ASSUME TypeOK, TypeOK', ReleasedInv, NEW b \in Proposals, Signer!OrderVote(b)
    PROVE  ReleasedInv'
<1>1. /\ b.epoch = store.epoch
      /\ order_votes' \in {order_votes, order_votes \cup {b}}
      /\ UNCHANGED <<votes, timeouts>>
  BY DEF Signer!OrderVote
<1>2. /\ store'.epoch = store.epoch
      /\ store'.last_voted_round = store.last_voted_round
      /\ store'.last_vote = store.last_vote
      /\ store'.highest_timeout_round = store.highest_timeout_round
      /\ store'.one_chain_round >= store.one_chain_round
      /\ store'.one_chain_round >= b.round
  BY ObservedSafetyData, ProposalFacts, SignerRules DEF Signer!OrderVote, TypeOK
<1>3. b.round > store.highest_timeout_round
  BY <1>2, SignerRules DEF Signer!OrderVote, safe_for_order_vote
<1>4. store'.one_chain_round \in Nat
  <2>1. store' \in SafetyData
    BY DEF TypeOK
  <2>2. QED
    BY <2>1, RoundFacts, SafetyDataFields
<1>5. \A c \in order_votes' : c \in order_votes \/ c = b
  BY <1>1
<1>6. StoreCoversReleased'
  BY <1>1, <1>2, <1>4, <1>5, TypeFacts DEF ReleasedInv, StoreCoversReleased
<1>7. LastVoteIsLatest'
  BY <1>1, <1>2, <1>4, TypeFacts DEF ReleasedInv, LastVoteIsLatest
<1>8. TimeoutsCarryQCs'
  BY <1>1, <1>3, <1>5, TypeFacts DEF ReleasedInv, StoreCoversReleased, TimeoutsCarryQCs
<1>9. QED
  BY <1>1, <1>6, <1>7, <1>8 DEF ReleasedInv, OneVotePerRound

LEMMA ReleasedStep ==
    TypeOK /\ TypeOK' /\ ReleasedInv /\ [Signer!Next]_(Signer!vars) => ReleasedInv'
<1> SUFFICES ASSUME TypeOK, TypeOK', ReleasedInv, [Signer!Next]_(Signer!vars)
             PROVE  ReleasedInv'
  OBVIOUS
<1>1. CASE \E epoch \in Epochs : Signer!StartEpoch(epoch)
  BY <1>1, StartEpochReleased
<1>2. CASE \E b \in Proposals : Signer!Vote(b)
  BY <1>2, VoteReleased
<1>3. CASE \E b \in Proposals : Signer!OrderVote(b)
  BY <1>3, OrderVoteReleased
<1>4. CASE \E b \in Proposals : Signer!Propose(b)
  BY <1>4 DEF Signer!Propose, ReleasedInv, StoreCoversReleased, LastVoteIsLatest,
              OneVotePerRound, TimeoutsCarryQCs
<1>5. CASE Signer!RepeatVote
  BY <1>5, RepeatVoteReleased
<1>6. CASE \E t \in Timeout : Signer!SignTimeout(t)
  BY <1>6, SignTimeoutReleased
<1>7. CASE UNCHANGED Signer!vars
  BY <1>7 DEF Signer!vars, ReleasedInv, StoreCoversReleased, LastVoteIsLatest,
              OneVotePerRound, TimeoutsCarryQCs
<1>8. QED
  BY <1>1, <1>2, <1>3, <1>4, <1>5, <1>6, <1>7, SignerRules DEF Signer!Next

LEMMA ReleasedInit == Init => ReleasedInv
<1>1. SUFFICES ASSUME Init
               PROVE  ReleasedInv
  OBVIOUS
<1>2. store.last_vote = None
  BY <1>1, NewSafetyDataFields DEF Init
<1>3. QED
  BY <1>1, <1>2 DEF Init, ReleasedInv, StoreCoversReleased, LastVoteIsLatest,
                    OneVotePerRound, TimeoutsCarryQCs

\* IInv holds in every reachable state of the service, for every set of
\* blocks, number of epochs and rounds, and set of storage failures.
THEOREM InductiveInvariant == Spec => []IInv
<1>1. Init => Storage /\ ReleasedInv
  BY StorageInit, ReleasedInit
<1>2. (Storage /\ ReleasedInv) /\ [Next]_vars => (Storage /\ ReleasedInv)'
  BY StorageStep, StepImplements, ReleasedStep DEF Storage
<1>3. Storage /\ ReleasedInv => IInv
  BY DEF Storage, ReleasedInv, IInv
<1>4. QED
  BY <1>1, <1>2, <1>3, PTL DEF Spec

\* The validator never releases votes for two blocks of one round, whatever
\* its storage loses and whenever it restarts.
THEOREM NeverEquivocates == Spec => []OneVotePerRound
BY InductiveInvariant, PTL DEF IInv

\* The timeouts it releases carry the QCs that its votes and order votes
\* depend on: what module TwoChain assumes of an honest validator.
THEOREM TimeoutsCarryWhatWasVoted == Spec => []TimeoutsCarryQCs
BY InductiveInvariant, PTL DEF IInv

\* Nothing it released is ahead of what it has persisted.
THEOREM PersistedBeforeReleased == Spec => []StoreCoversReleased
BY InductiveInvariant, PTL DEF IInv

=============================================================================
