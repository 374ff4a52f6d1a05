---------------------------- MODULE TwoChainProofs ----------------------------
(***************************************************************************)
(* Safety of the 2-chain protocol with order votes, for every validator    *)
(* set within the fault bound, every block tree and every number of        *)
(* rounds.  The argument:                                                  *)
(*   - certificates persist (CertifiedMonotone, TimeoutCertifiedMonotone), *)
(*   - IInv is inductive (IInvInductive),                                  *)
(*   - in a state of IInv a certified block of the round of an ordered     *)
(*     block or of a later round extends it (Locked): the least            *)
(*     counterexample would need a TC whose quorum shares an honest        *)
(*     validator with the quorum that ordered the block,                   *)
(*   - hence Agreement.                                                    *)
(***************************************************************************)
EXTENDS TwoChain, ValidatorVerifierProofs, WellFoundedInduction

-----------------------------------------------------------------------------
(* Facts about constants and operators.                                    *)

LEMMA RoundFacts ==
    /\ Round \subseteq Nat
    /\ 0 \in Round
    /\ \A r \in Round : r <= U64Max /\ r \in Nat
    /\ \A r, s \in Round : MaxRound(r, s) \in Round
    /\ \A r, s \in Round : MaxRound(r, s) >= r /\ MaxRound(r, s) >= s
    /\ \A r, s \in Round : MaxRound(r, s) = r \/ MaxRound(r, s) = s
BY U64MaxAssumption DEF Round, MaxRound

LEMMA BlockFacts ==
    /\ Genesis \in Blocks
    /\ \A b \in Blocks : BlockRound[b] \in Round /\ BlockRound[b] \in Nat
    /\ \A b \in Blocks : Parent[b] \in Blocks
    /\ BlockRound[Genesis] = 0
    /\ \A b \in Blocks : b # Genesis => BlockRound[b] > 0
    /\ \A b \in Blocks : b \in Ancestors[b]
    /\ \A b, c \in Blocks :
          c # Genesis /\ b \in Ancestors[Parent[c]] => b \in Ancestors[c]
<1>1. /\ Genesis \in Blocks
      /\ \A b \in Blocks : BlockRound[b] \in Round
      /\ \A b \in Blocks : Parent[b] \in Blocks
      /\ BlockRound[Genesis] = 0
  BY BlocksAssumption
<1>2. \A b \in Blocks : b # Genesis => BlockRound[b] # 0
  BY BlocksAssumption
<1>3. \A b \in Blocks : b \in Ancestors[b]
  BY BlocksAssumption
<1>4. \A b, c \in Blocks :
         c # Genesis /\ b \in Ancestors[Parent[c]] => b \in Ancestors[c]
  BY BlocksAssumption
<1>5. \A r \in Round : r \in Nat /\ (r # 0 => r > 0)
  BY RoundFacts
<1>6. QED
  BY <1>1, <1>2, <1>3, <1>4, <1>5

LEMMA TimeoutFacts ==
    \A t \in Timeout : /\ t.round \in Round /\ t.hqc_round \in Round
                       /\ t.round \in Nat /\ t.hqc_round \in Nat
                       /\ t.hqc_round < t.round
                       /\ t = [round |-> t.round, hqc_round |-> t.hqc_round]
<1>1. \A t \in Timeout : /\ t \in [round : Round, hqc_round : Round]
                         /\ t.hqc_round < t.round
  BY DEF Timeout
<1>2. \A t \in [round : Round, hqc_round : Round] :
         /\ t.round \in Round /\ t.hqc_round \in Round
         /\ t = [round |-> t.round, hqc_round |-> t.hqc_round]
  OBVIOUS
<1>3. QED
  BY <1>1, <1>2, RoundFacts

\* A larger set of signers can put together the same certificate.
LEMMA QuorumSignedMonotone ==
    ASSUME NEW S \in SUBSET Honest, NEW T \in SUBSET Honest,
           S \subseteq T, QuorumSigned(S)
    PROVE  QuorumSigned(T)
<1>1. /\ S \cup Byzantine \in SUBSET Validators
      /\ T \cup Byzantine \in SUBSET Validators
      /\ S \cup Byzantine \subseteq T \cup Byzantine
  BY ByzantineAssumption DEF Honest
<1>2. /\ sum_voting_power[S \cup Byzantine] \in Nat
      /\ sum_voting_power[T \cup Byzantine] \in Nat
      /\ sum_voting_power[S \cup Byzantine] <= sum_voting_power[T \cup Byzantine]
  BY <1>1, VotingPowerAssumption
<1>3. QED
  BY <1>2, ValidatorsAssumption, QuorumMoreThanTwoThirds
  DEF QuorumSigned, check_voting_power

\* Two certificates share an honest signer.
LEMMA CertificatesIntersect ==
    ASSUME NEW S \in SUBSET Honest, NEW T \in SUBSET Honest,
           QuorumSigned(S), QuorumSigned(T)
    PROVE  \E v \in Honest : v \in S /\ v \in T
<1>1. /\ S \cup Byzantine \in SUBSET Validators
      /\ T \cup Byzantine \in SUBSET Validators
  BY ByzantineAssumption DEF Honest
<1>2. PICK v \in Honest : v \in S \cup Byzantine /\ v \in T \cup Byzantine
  BY <1>1, QuorumIntersection, ValidatorsAssumption DEF QuorumSigned
<1>3. QED
  BY <1>2 DEF Honest

\* Whoever signed for a timeout certificate signed a timeout of its round
\* with a QC not above the one it carries.
LEMMA TimeoutSignersSigned ==
    ASSUME TypeOK, NEW tc \in Timeout
    PROVE  /\ TimeoutSigners(tc.round, tc.hqc_round) \in SUBSET Honest
           /\ \A v \in TimeoutSigners(tc.round, tc.hqc_round) :
                 \E t \in Timeout : /\ v \in timeouts[t]
                                    /\ t.round = tc.round
                                    /\ t.hqc_round <= tc.hqc_round
<1>1. /\ tc.round \in Round /\ tc.hqc_round \in Round
      /\ tc.round \in Nat /\ tc.hqc_round \in Nat /\ tc.hqc_round < tc.round
  BY TimeoutFacts
<1>2. \A h \in 0 .. tc.hqc_round :
         /\ [round |-> tc.round, hqc_round |-> h] \in Timeout
         /\ h <= tc.hqc_round
  <2>1. \A h \in 0 .. tc.hqc_round : h \in Round /\ h < tc.round /\ h <= tc.hqc_round
    BY <1>1, U64MaxAssumption DEF Round
  <2>2. QED
    BY <1>1, <2>1 DEF Timeout
<1>3. \A v \in TimeoutSigners(tc.round, tc.hqc_round) :
         \E h \in 0 .. tc.hqc_round :
             v \in timeouts[[round |-> tc.round, hqc_round |-> h]]
  BY DEF TimeoutSigners
<1>4. \A t \in Timeout : timeouts[t] \in SUBSET Honest
  BY DEF TypeOK
<1>5. TimeoutSigners(tc.round, tc.hqc_round) \in SUBSET Honest
  BY <1>2, <1>3, <1>4
<1>6. ASSUME NEW v \in TimeoutSigners(tc.round, tc.hqc_round)
      PROVE  \E t \in Timeout : /\ v \in timeouts[t]
                                /\ t.round = tc.round
                                /\ t.hqc_round <= tc.hqc_round
  <2>1. PICK h \in 0 .. tc.hqc_round :
           v \in timeouts[[round |-> tc.round, hqc_round |-> h]]
    BY <1>3
  <2> DEFINE t == [round |-> tc.round, hqc_round |-> h]
  <2>2. t \in Timeout /\ h <= tc.hqc_round
    BY <1>2
  <2>3. v \in timeouts[t] /\ t.round = tc.round /\ t.hqc_round = h
    BY <2>1
  <2>4. QED
    BY <2>2, <2>3
<1>7. QED
  BY <1>5, <1>6

\* A certified block other than genesis has an honest vote.
LEMMA CertifiedHasVote ==
    ASSUME TypeOK, NEW b \in Blocks, b # Genesis, Certified(b)
    PROVE  votes[b] # {}
<1>1. votes[b] \in SUBSET Honest
  BY DEF TypeOK
<1>2. QuorumSigned(votes[b])
  BY DEF Certified
<1>3. QED
  BY <1>1, <1>2, CertificatesIntersect

-----------------------------------------------------------------------------
(* What holds in every state of the inductive invariant.                   *)

\* Two certified blocks of one round share an honest voter, who votes once
\* per round.
LEMMA UniqueLemma ==
    ASSUME IInv
    PROVE  UniqueCertifiedBlock
<1>1. SUFFICES ASSUME NEW b1 \in Blocks, NEW b2 \in Blocks,
                      Certified(b1), Certified(b2),
                      BlockRound[b1] = BlockRound[b2]
               PROVE  b1 = b2
  BY DEF UniqueCertifiedBlock, CertifiedBlocks
<1>2. CASE b1 = Genesis \/ b2 = Genesis
  BY <1>1, <1>2, BlocksAssumption
<1>3. CASE b1 # Genesis /\ b2 # Genesis
  <2>1. votes[b1] \in SUBSET Honest /\ votes[b2] \in SUBSET Honest
    BY DEF IInv, TypeOK
  <2>2. QuorumSigned(votes[b1]) /\ QuorumSigned(votes[b2])
    BY <1>1, <1>3 DEF Certified
  <2>3. PICK v \in Honest : v \in votes[b1] /\ v \in votes[b2]
    BY <2>1, <2>2, CertificatesIntersect
  <2>4. QED
    BY <1>1, <2>3 DEF IInv, VotesOncePerRound
<1>4. QED
  BY <1>2, <1>3

\* An ordered block is certified and is not genesis.
LEMMA OrderedCertified ==
    ASSUME IInv, NEW b \in Blocks, Ordered(b)
    PROVE  Certified(b) /\ b # Genesis
<1>1. CASE OrderedByVotes(b)
  <2>1. order_votes[b] \in SUBSET Honest
    BY DEF IInv, TypeOK
  <2>2. order_votes[b] # {}
    BY <1>1, <2>1, CertificatesIntersect DEF OrderedByVotes
  <2>3. QED
    BY <2>2 DEF IInv, OrderVotesAreJustified
<1>2. CASE OrderedByQC(b)
  <2>1. PICK c \in Blocks \ {Genesis} :
           Parent[c] = b /\ BlockRound[b] > 0 /\ Certified(c)
    BY <1>2 DEF OrderedByQC, commits_parent
  <2>2. votes[c] # {}
    BY <2>1, CertifiedHasVote DEF IInv
  <2>3. Certified(b)
    BY <2>1, <2>2 DEF IInv, VotesAreJustified
  <2>4. b # Genesis
    BY <2>1, BlockFacts
  <2>5. QED
    BY <2>3, <2>4
<1>3. QED
  BY <1>1, <1>2 DEF Ordered

\* A timeout certificate of the round of an ordered block or of a later
\* round carries a QC at least as high as the ordered block - for a block
\* ordered by votes at once, for one ordered by the QC of a child from the
\* round of the child on.
LEMMA TimeoutCertAboveOrderVotes ==
    ASSUME IInv, NEW b \in Blocks, OrderedByVotes(b),
           NEW tc \in Timeout, TimeoutCertified(tc),
           tc.round >= BlockRound[b]
    PROVE  tc.hqc_round >= BlockRound[b]
<1>1. /\ order_votes[b] \in SUBSET Honest
      /\ QuorumSigned(order_votes[b])
  BY DEF IInv, TypeOK, OrderedByVotes
<1>2. /\ TimeoutSigners(tc.round, tc.hqc_round) \in SUBSET Honest
      /\ QuorumSigned(TimeoutSigners(tc.round, tc.hqc_round))
  BY TimeoutSignersSigned DEF IInv, TimeoutCertified
<1>3. PICK v \in Honest : /\ v \in order_votes[b]
                          /\ v \in TimeoutSigners(tc.round, tc.hqc_round)
  BY <1>1, <1>2, CertificatesIntersect
<1>4. PICK t \in Timeout : /\ v \in timeouts[t]
                           /\ t.round = tc.round
                           /\ t.hqc_round <= tc.hqc_round
  BY <1>3, TimeoutSignersSigned DEF IInv
<1>5. t.hqc_round >= BlockRound[b]
  BY <1>3, <1>4 DEF IInv, TimeoutCarriesOrderVotedQC
<1>6. QED
  BY <1>4, <1>5, TimeoutFacts, BlockFacts

LEMMA TimeoutCertAboveVotes ==
    ASSUME IInv, NEW d \in Blocks, d # Genesis, Certified(d),
           NEW tc \in Timeout, TimeoutCertified(tc),
           tc.round >= BlockRound[d]
    PROVE  tc.hqc_round >= BlockRound[Parent[d]]
<1>1. /\ votes[d] \in SUBSET Honest
      /\ QuorumSigned(votes[d])
  BY DEF IInv, TypeOK, Certified
<1>2. /\ TimeoutSigners(tc.round, tc.hqc_round) \in SUBSET Honest
      /\ QuorumSigned(TimeoutSigners(tc.round, tc.hqc_round))
  BY TimeoutSignersSigned DEF IInv, TimeoutCertified
<1>3. PICK v \in Honest : /\ v \in votes[d]
                          /\ v \in TimeoutSigners(tc.round, tc.hqc_round)
  BY <1>1, <1>2, CertificatesIntersect
<1>4. PICK t \in Timeout : /\ v \in timeouts[t]
                           /\ t.round = tc.round
                           /\ t.hqc_round <= tc.hqc_round
  BY <1>3, TimeoutSignersSigned DEF IInv
<1>5. t.hqc_round >= BlockRound[Parent[d]]
  BY <1>3, <1>4 DEF IInv, TimeoutCarriesVotedQC
<1>6. QED
  BY <1>4, <1>5, TimeoutFacts, BlockFacts

\* The heart of the argument, by least counterexample: c is a certified
\* block of lowest round that does not extend the ordered block b.
LEMMA LockedLemma ==
    ASSUME IInv
    PROVE  CertifiedExtendsOrdered
<1> SUFFICES ASSUME NEW b \in Blocks, Ordered(b),
                    NEW c0 \in Blocks, Certified(c0),
                    BlockRound[c0] >= BlockRound[b],
                    b \notin Ancestors[c0]
             PROVE  FALSE
  BY DEF CertifiedExtendsOrdered, CertifiedBlocks, OrderedBlocks
<1> DEFINE Bad(c) == /\ Certified(c)
                     /\ BlockRound[c] >= BlockRound[b]
                     /\ b \notin Ancestors[c]
           T == {r \in Nat : \E c \in Blocks : Bad(c) /\ BlockRound[c] = r}
<1>1. T \subseteq Nat /\ T # {}
  <2>1. BlockRound[c0] \in T
    BY BlockFacts
  <2>2. QED
    BY <2>1
<1>2. PICK m \in T : \A r \in T : ~ (<<r, m>> \in OpToRel(<, Nat))
  <2> HIDE DEF T
  <2>1. QED
    BY <1>1, NatLessThanWellFounded, WFMin
<1>3. \A r \in T : ~ (r < m)
  <2>1. \A r, s \in Nat : r < s => <<r, s>> \in OpToRel(<, Nat)
    BY DEF OpToRel
  <2> HIDE DEF T
  <2>2. QED
    BY <1>1, <1>2, <2>1
<1>4. PICK c \in Blocks : Bad(c) /\ BlockRound[c] = m
  OBVIOUS
<1>5. \A d \in Blocks : Bad(d) => BlockRound[d] >= BlockRound[c]
  <2>1. SUFFICES ASSUME NEW d \in Blocks, Bad(d)
                 PROVE  BlockRound[d] >= BlockRound[c]
    OBVIOUS
  <2>2. BlockRound[d] \in T
    BY <2>1, BlockFacts
  <2> HIDE DEF T, Bad
  <2>3. QED
    BY <1>3, <1>4, <2>2, BlockFacts
<1> HIDE DEF T
<1>6. Certified(b) /\ b # Genesis
  BY OrderedCertified
<1>7. BlockRound[c] > BlockRound[b]
  <2>1. BlockRound[c] = BlockRound[b] => c = b
    BY <1>4, <1>6, UniqueLemma DEF UniqueCertifiedBlock, CertifiedBlocks
  <2>2. QED
    BY <1>4, <2>1, BlockFacts
<1>8. c # Genesis
  BY <1>7, BlockFacts
<1>9. votes[c] # {}
  BY <1>4, <1>8, CertifiedHasVote DEF IInv
<1>10. /\ Certified(Parent[c])
       /\ BlockRound[Parent[c]] < BlockRound[c]
       /\ \/ BlockRound[c] = BlockRound[Parent[c]] + 1
          \/ \E tc \in Timeout : /\ TimeoutCertified(tc)
                                 /\ BlockRound[c] = tc.round + 1
                                 /\ BlockRound[Parent[c]] >= tc.hqc_round
  BY <1>9 DEF IInv, VotesAreJustified
<1>11. BlockRound[Parent[c]] < BlockRound[b]
  <2>1. b \notin Ancestors[Parent[c]]
    BY <1>4, <1>8, BlockFacts
  <2>2. BlockRound[Parent[c]] >= BlockRound[b] => Bad(Parent[c])
    BY <1>10, <2>1
  <2> HIDE DEF Bad
  <2>3. QED
    BY <1>5, <1>10, <2>2, BlockFacts
<1>12. PICK tc \in Timeout : /\ TimeoutCertified(tc)
                             /\ BlockRound[c] = tc.round + 1
                             /\ BlockRound[Parent[c]] >= tc.hqc_round
  BY <1>7, <1>10, <1>11, BlockFacts
<1>13. tc.hqc_round < BlockRound[b] /\ tc.round >= BlockRound[b]
  BY <1>7, <1>11, <1>12, BlockFacts, TimeoutFacts
<1>14. CASE OrderedByVotes(b)
  BY <1>12, <1>13, <1>14, TimeoutCertAboveOrderVotes, BlockFacts, TimeoutFacts
<1>15. CASE OrderedByQC(b)
  <2>1. PICK d \in Blocks \ {Genesis} : /\ Parent[d] = b
                                        /\ BlockRound[d] = BlockRound[b] + 1
                                        /\ Certified(d)
    BY <1>15 DEF OrderedByQC, commits_parent, is_next_round
  <2>2. BlockRound[c] # BlockRound[d]
    <3>1. SUFFICES ASSUME BlockRound[c] = BlockRound[d]
                   PROVE  FALSE
      OBVIOUS
    <3>2. c = d
      BY <1>4, <2>1, <3>1, UniqueLemma DEF UniqueCertifiedBlock, CertifiedBlocks
    <3>3. QED
      BY <1>11, <2>1, <3>2, BlockFacts
  <2>3. tc.round >= BlockRound[d]
    BY <1>7, <1>12, <2>1, <2>2, BlockFacts, TimeoutFacts
  <2>4. tc.hqc_round >= BlockRound[b]
    BY <1>12, <2>1, <2>3, TimeoutCertAboveVotes
  <2>5. QED
    BY <1>13, <2>4, BlockFacts, TimeoutFacts
<1>16. QED
  BY <1>14, <1>15 DEF Ordered

LEMMA AgreementLemma ==
    ASSUME IInv
    PROVE  Agreement
<1>1. SUFFICES ASSUME NEW b1 \in Blocks, NEW b2 \in Blocks,
                      Ordered(b1), Ordered(b2)
               PROVE  b1 \in Ancestors[b2] \/ b2 \in Ancestors[b1]
  BY DEF Agreement, OrderedBlocks
<1>2. Certified(b1) /\ Certified(b2)
  BY <1>1, OrderedCertified
<1>3. BlockRound[b1] >= BlockRound[b2] \/ BlockRound[b2] >= BlockRound[b1]
  BY BlockFacts
<1>4. QED
  BY <1>1, <1>2, <1>3, LockedLemma
  DEF CertifiedExtendsOrdered, CertifiedBlocks, OrderedBlocks

\* A lagging validator is never locked out of timing out.
LEMMA TimeoutPossibleLemma ==
    ASSUME IInv
    PROVE  TimeoutAlwaysPossible
<1>1. SUFFICES ASSUME NEW r \in EndedRounds, r # U64Max,
                      \A s \in EndedRounds : s <= r,
                      NEW v \in Honest
               PROVE  \E qc \in CertifiedBlocks, tc \in VerifiedTC :
                        /\ BlockRound[qc] <= r
                        /\ safe_to_timeout(r + 1, BlockRound[qc], tc, safety_data[v])
                        /\ r + 1 >= safety_data[v].last_voted_round
  BY DEF TimeoutAlwaysPossible
<1>2. /\ safety_data[v].last_voted_round \in Nat
      /\ safety_data[v].one_chain_round \in Nat
  BY RoundFacts DEF IInv, TypeOK, SafetyData
<1>3. NoTC \in VerifiedTC /\ NoTC.round = 0
  BY DEF VerifiedTC, NoTC
<1>4. \A tc \in VerifiedTC : tc.round \in Round
  BY TimeoutFacts, RoundFacts DEF VerifiedTC, NoTC
<1>5. EndedRounds \subseteq Round
  BY <1>4, BlockFacts DEF EndedRounds, CertifiedBlocks
<1>6. r \in Nat /\ r < U64Max
  BY <1>1, <1>5, RoundFacts, U64MaxAssumption
<1>7. r + 1 >= safety_data[v].last_voted_round
  <2>1. PICK s \in EndedRounds : safety_data[v].last_voted_round <= s + 1
    BY DEF IInv, RoundsFollowCertificates
  <2>2. s <= r /\ s \in Nat
    BY <1>1, <1>5, <2>1, RoundFacts
  <2>3. QED
    BY <1>2, <1>6, <2>1, <2>2
<1>8. PICK b \in CertifiedBlocks : BlockRound[b] = safety_data[v].one_chain_round
  BY DEF IInv, OneChainCoversQCs
<1>9. BlockRound[b] <= r
  BY <1>1, <1>8 DEF EndedRounds
<1>10. CASE \E c \in CertifiedBlocks : BlockRound[c] = r
  <2>1. PICK c \in CertifiedBlocks : BlockRound[c] = r
    BY <1>10
  <2>2. safe_to_timeout(r + 1, BlockRound[c], NoTC, safety_data[v])
    BY <1>2, <1>6, <1>8, <1>9, <2>1 DEF safe_to_timeout, is_next_round
  <2>3. QED
    BY <1>3, <1>6, <1>7, <2>1, <2>2
<1>11. CASE \E tc \in VerifiedTC : tc.round = r
  <2>1. PICK tc \in VerifiedTC : tc.round = r
    BY <1>11
  <2>2. safe_to_timeout(r + 1, BlockRound[b], tc, safety_data[v])
    <3>1. BlockRound[b] < U64Max
      BY <1>2, <1>6, <1>8, <1>9, U64MaxAssumption
    <3>2. is_next_round(r + 1, tc.round)
      BY <1>6, <2>1 DEF is_next_round
    <3>3. BlockRound[b] >= safety_data[v].one_chain_round
      BY <1>2, <1>8
    <3>4. QED
      BY <3>1, <3>2, <3>3 DEF safe_to_timeout
  <2>3. QED
    BY <1>7, <1>8, <1>9, <2>1, <2>2
<1>12. QED
  BY <1>1, <1>10, <1>11 DEF EndedRounds

-----------------------------------------------------------------------------
(* Certificates persist.                                                   *)

\* Signatures are never taken back.
SignaturesGrow ==
    /\ \A b \in Blocks : votes[b] \subseteq votes'[b]
    /\ \A t \in Timeout : timeouts[t] \subseteq timeouts'[t]
    /\ \A b \in Blocks : order_votes[b] \subseteq order_votes'[b]

LEMMA CertifiedMonotone ==
    ASSUME TypeOK, TypeOK', SignaturesGrow, NEW b \in Blocks, Certified(b)
    PROVE  Certified(b)'
<1>1. votes[b] \in SUBSET Honest /\ votes'[b] \in SUBSET Honest
  BY DEF TypeOK
<1>2. QuorumSigned(votes[b]) => QuorumSigned(votes'[b])
  BY <1>1, QuorumSignedMonotone DEF SignaturesGrow
<1>3. QED
  BY <1>2 DEF Certified, QuorumSigned, check_voting_power

LEMMA TimeoutCertifiedMonotone ==
    ASSUME TypeOK, TypeOK', SignaturesGrow,
           NEW tc \in Timeout, TimeoutCertified(tc)
    PROVE  TimeoutCertified(tc)'
<1> DEFINE S == TimeoutSigners(tc.round, tc.hqc_round)
           S1 == UNION {timeouts'[[round |-> tc.round, hqc_round |-> h]] :
                           h \in 0 .. tc.hqc_round}
<1>1. \A h \in 0 .. tc.hqc_round : [round |-> tc.round, hqc_round |-> h] \in Timeout
  <2>1. \A h \in 0 .. tc.hqc_round : h \in Round /\ h < tc.round
    BY TimeoutFacts, U64MaxAssumption DEF Round
  <2>2. QED
    BY <2>1, TimeoutFacts DEF Timeout
<1>2. \A t \in Timeout : timeouts[t] \subseteq timeouts'[t]
                         /\ timeouts'[t] \in SUBSET Honest
  BY DEF SignaturesGrow, TypeOK
<1>3. S \subseteq S1 /\ S1 \in SUBSET Honest
  BY <1>1, <1>2 DEF TimeoutSigners
<1>4. QuorumSigned(S1)
  BY <1>3, QuorumSignedMonotone DEF TimeoutCertified
<1>5. QuorumSigned(TimeoutSigners(tc.round, tc.hqc_round))'
  BY <1>4 DEF TimeoutSigners, QuorumSigned, check_voting_power
<1>6. (timeouts[tc] # {} \/ Byzantine # {})'
  BY <1>2 DEF TimeoutCertified
<1>7. (\E b \in Blocks : BlockRound[b] = tc.hqc_round /\ Certified(b))'
  BY CertifiedMonotone DEF TimeoutCertified
<1>8. QED
  BY <1>5, <1>6, <1>7 DEF TimeoutCertified

-----------------------------------------------------------------------------
(* Type correctness.                                                       *)

LEMMA ObserveQCType ==
    ASSUME NEW sd \in SafetyData, NEW r \in Round, NEW s \in Round
    PROVE  /\ observe_qc(sd, r, s) \in SafetyData
           /\ observe_qc(sd, r, s).one_chain_round = MaxRound(r, sd.one_chain_round)
           /\ observe_qc(sd, r, s).last_voted_round = sd.last_voted_round
           /\ observe_qc(sd, r, s).highest_timeout_round = sd.highest_timeout_round
           /\ observe_qc(sd, r, s).preferred_round = MaxRound(s, sd.preferred_round)
<1>1. /\ sd.one_chain_round \in Round /\ sd.preferred_round \in Round
  BY DEF SafetyData
<1>2. /\ MaxRound(r, sd.one_chain_round) \in Round
      /\ MaxRound(s, sd.preferred_round) \in Round
  BY <1>1, RoundFacts
<1>3. QED
  BY <1>2 DEF observe_qc, SafetyData

LEMMA VoteType ==
    ASSUME TypeOK, NEW v \in Honest, NEW b \in Blocks,
           ConstructAndSignVote(v, b)
    PROVE  TypeOK' /\ SignaturesGrow
<1> DEFINE sd0 == [safety_data[v] EXCEPT !.last_voted_round = BlockRound[b],
                                         !.last_vote = b]
           sd1 == observe_qc(sd0, BlockRound[Parent[b]],
                             BlockRound[Parent[Parent[b]]])
<1>1. sd0 \in SafetyData
  BY BlockFacts DEF TypeOK, SafetyData
<1>2. sd1 \in SafetyData
  BY <1>1, BlockFacts, ObserveQCType
<1>3. safety_data' = [safety_data EXCEPT ![v] = sd1]
  BY DEF ConstructAndSignVote
<1> HIDE DEF sd0, sd1
<1>4. safety_data' \in [Honest -> SafetyData]
  BY <1>2, <1>3 DEF TypeOK
<1>5. votes' \in [Blocks -> SUBSET Honest]
  BY DEF TypeOK, ConstructAndSignVote
<1>6. UNCHANGED <<timeouts, order_votes>>
  BY DEF ConstructAndSignVote
<1>7. \A c \in Blocks : votes[c] \subseteq votes'[c]
  BY DEF TypeOK, ConstructAndSignVote
<1>8. QED
  BY <1>4, <1>5, <1>6, <1>7 DEF TypeOK, SignaturesGrow

LEMMA TimeoutType ==
    ASSUME TypeOK, NEW v \in Honest, NEW round \in Round, NEW qc \in Blocks,
           SignTimeoutWithQC(v, round, qc)
    PROVE  TypeOK' /\ SignaturesGrow
<1> DEFINE sd0 == [safety_data[v] EXCEPT !.last_voted_round = MaxRound(round, @)]
           sd1 == update_highest_timeout_round(sd0, round)
           t0 == [round |-> round, hqc_round |-> BlockRound[qc]]
<1>1. sd0 \in SafetyData
  BY RoundFacts DEF TypeOK, SafetyData
<1>2. sd1 \in SafetyData
  BY <1>1, RoundFacts DEF update_highest_timeout_round, SafetyData
<1>3. safety_data' = [safety_data EXCEPT ![v] = sd1]
  BY DEF SignTimeoutWithQC
<1>4. t0 \in Timeout
  BY BlockFacts DEF SignTimeoutWithQC, Timeout
<1>5. timeouts' = [timeouts EXCEPT ![t0] = @ \cup {v}]
  BY DEF SignTimeoutWithQC
<1> HIDE DEF sd0, sd1, t0
<1>6. safety_data' \in [Honest -> SafetyData]
  BY <1>2, <1>3 DEF TypeOK
<1>7. timeouts' \in [Timeout -> SUBSET Honest]
  BY <1>4, <1>5 DEF TypeOK
<1>8. UNCHANGED <<votes, order_votes>>
  BY DEF SignTimeoutWithQC
<1>9. \A t \in Timeout : timeouts[t] \subseteq timeouts'[t]
  BY <1>4, <1>5 DEF TypeOK
<1>10. QED
  BY <1>6, <1>7, <1>8, <1>9 DEF TypeOK, SignaturesGrow

LEMMA OrderVoteType ==
    ASSUME TypeOK, NEW v \in Honest, NEW b \in Blocks,
           ConstructAndSignOrderVote(v, b)
    PROVE  TypeOK' /\ SignaturesGrow
<1> DEFINE sd1 == observe_qc(safety_data[v], BlockRound[b], BlockRound[Parent[b]])
<1>1. sd1 \in SafetyData
  BY BlockFacts, ObserveQCType DEF TypeOK
<1>2. safety_data' = [safety_data EXCEPT ![v] = sd1]
  BY DEF ConstructAndSignOrderVote
<1> HIDE DEF sd1
<1>3. safety_data' \in [Honest -> SafetyData]
  BY <1>1, <1>2 DEF TypeOK
<1>4. order_votes' \in [Blocks -> SUBSET Honest]
  BY DEF TypeOK, ConstructAndSignOrderVote
<1>5. UNCHANGED <<votes, timeouts>>
  BY DEF ConstructAndSignOrderVote
<1>6. \A c \in Blocks : order_votes[c] \subseteq order_votes'[c]
  BY DEF TypeOK, ConstructAndSignOrderVote
<1>7. QED
  BY <1>3, <1>4, <1>5, <1>6 DEF TypeOK, SignaturesGrow

LEMMA TypeStep ==
    ASSUME TypeOK, [Next]_vars
    PROVE  TypeOK' /\ SignaturesGrow
<1>1. CASE UNCHANGED vars
  BY <1>1 DEF vars, TypeOK, SignaturesGrow
<1>2. ASSUME NEW v \in Honest, NEW b \in Blocks,
             ConstructAndSignVote(v, b)
      PROVE  TypeOK' /\ SignaturesGrow
  BY <1>2, VoteType
<1>3. ASSUME NEW v \in Honest, NEW round \in Round,
             NEW qc \in Blocks, SignTimeoutWithQC(v, round, qc)
      PROVE  TypeOK' /\ SignaturesGrow
  BY <1>3, TimeoutType
<1>4. ASSUME NEW v \in Honest, NEW b \in Blocks, ConstructAndSignOrderVote(v, b)
      PROVE  TypeOK' /\ SignaturesGrow
  BY <1>4, OrderVoteType
<1>5. QED
  BY <1>1, <1>2, <1>3, <1>4 DEF Next

LEMMA TypeInit == Init => TypeOK
<1>1. SUFFICES ASSUME Init PROVE TypeOK
  OBVIOUS
<1>2. InitialSafetyData \in SafetyData
  BY RoundFacts DEF InitialSafetyData, SafetyData
<1>3. QED
  BY <1>1, <1>2 DEF Init, TypeOK

\* The persisted rounds of every honest validator stay within u64 and the
\* recorded signatures are about blocks and rounds of the epoch.
THEOREM TypeCorrect == Spec => []TypeOK
<1>1. Init => TypeOK
  BY TypeInit
<1>2. TypeOK /\ [Next]_vars => TypeOK'
  BY TypeStep
<1>3. QED
  BY <1>1, <1>2, PTL DEF Spec

-----------------------------------------------------------------------------
(* The inductive invariant.                                                *)

\* Everything that was proved to have happened stays proved.
LEMMA CertificatesPersist ==
    ASSUME TypeOK, TypeOK', SignaturesGrow
    PROVE  /\ CertifiedBlocks \subseteq CertifiedBlocks'
           /\ VerifiedTC \subseteq VerifiedTC'
           /\ EndedRounds \subseteq EndedRounds'
<1>1. CertifiedBlocks \subseteq CertifiedBlocks'
  BY CertifiedMonotone DEF CertifiedBlocks
<1>2. VerifiedTC \subseteq VerifiedTC'
  BY TimeoutCertifiedMonotone DEF VerifiedTC
<1>3. QED
  BY <1>1, <1>2 DEF EndedRounds

\* The justification of votes that exist already is not disturbed by any
\* step; the same holds for order votes and the rounds reached.
LEMMA JustificationPersists ==
    ASSUME IInv, TypeOK', SignaturesGrow
    PROVE  /\ \A b \in Blocks : votes[b] # {} =>
                /\ b # Genesis
                /\ Certified(Parent[b])'
                /\ BlockRound[Parent[b]] < BlockRound[b]
                /\ \/ BlockRound[b] = BlockRound[Parent[b]] + 1
                   \/ \E tc \in Timeout :
                         /\ TimeoutCertified(tc)'
                         /\ BlockRound[b] = tc.round + 1
                         /\ BlockRound[Parent[b]] >= tc.hqc_round
           /\ \A b \in Blocks : order_votes[b] # {} =>
                b # Genesis /\ Certified(b)'
<1>1. \A b \in Blocks : Certified(b) => Certified(b)'
  BY CertifiedMonotone DEF IInv
<1>2. \A tc \in Timeout : TimeoutCertified(tc) => TimeoutCertified(tc)'
  BY TimeoutCertifiedMonotone DEF IInv
<1>3. QED
  BY <1>1, <1>2, BlockFacts DEF IInv, VotesAreJustified, OrderVotesAreJustified

LEMMA VoteStep ==
    ASSUME IInv, NEW v \in Honest, NEW b \in Blocks,
           ConstructAndSignVote(v, b)
    PROVE  IInv'
<1> DEFINE sd == safety_data[v]
           sd0 == [sd EXCEPT !.last_voted_round = BlockRound[b], !.last_vote = b]
<1>1. TypeOK /\ TypeOK' /\ SignaturesGrow
  BY VoteType DEF IInv
<1>2. sd \in SafetyData /\ sd0 \in SafetyData
  <2>1. sd \in SafetyData
    BY <1>1 DEF TypeOK
  <2>2. BlockRound[b] \in Round
    BY BlockFacts
  <2> HIDE DEF sd
  <2>3. QED
    BY <2>1, <2>2 DEF SafetyData
<1>3. safety_data'[v] = observe_qc(sd0, BlockRound[Parent[b]],
                                   BlockRound[Parent[Parent[b]]])
  BY <1>1 DEF ConstructAndSignVote, TypeOK
<1>4. /\ safety_data'[v].last_voted_round = BlockRound[b]
      /\ safety_data'[v].one_chain_round
            = MaxRound(BlockRound[Parent[b]], sd.one_chain_round)
      /\ safety_data'[v].highest_timeout_round = sd.highest_timeout_round
  <2>1. /\ sd0.last_voted_round = BlockRound[b]
        /\ sd0.one_chain_round = sd.one_chain_round
        /\ sd0.highest_timeout_round = sd.highest_timeout_round
    BY <1>2 DEF SafetyData
  <2>2. BlockRound[Parent[b]] \in Round /\ BlockRound[Parent[Parent[b]]] \in Round
    BY BlockFacts
  <2> HIDE DEF sd0, sd
  <2>3. QED
    BY <1>2, <1>3, <2>1, <2>2, ObserveQCType
<1>5. \A w \in Honest : w # v => safety_data'[w] = safety_data[w]
  BY <1>1 DEF ConstructAndSignVote, TypeOK
<1>6. \A w \in Honest, c \in Blocks :
         w \in votes'[c] => w \in votes[c] \/ (w = v /\ c = b)
  BY <1>1 DEF ConstructAndSignVote, TypeOK
<1>7. UNCHANGED <<timeouts, order_votes>>
  BY DEF ConstructAndSignVote
<1>8. /\ BlockRound[b] > sd.last_voted_round
      /\ b # Genesis
      /\ Certified(Parent[b])
      /\ BlockRound[Parent[b]] < BlockRound[b]
      /\ TCsToVote(b) # {}
  BY DEF ConstructAndSignVote, verify_proposal
<1> PICK tc \in VerifiedTC :
       safe_to_vote(BlockRound[b], BlockRound[Parent[b]], tc)
  BY <1>8 DEF TCsToVote
<1>9. /\ sd.last_voted_round \in Nat /\ sd.one_chain_round \in Nat
      /\ sd.one_chain_round \in Round
  BY <1>2, RoundFacts DEF SafetyData
<1>10. /\ safety_data'[v].one_chain_round \in Nat
       /\ safety_data'[v].one_chain_round >= sd.one_chain_round
       /\ safety_data'[v].one_chain_round >= BlockRound[Parent[b]]
       /\ \/ safety_data'[v].one_chain_round = sd.one_chain_round
          \/ safety_data'[v].one_chain_round = BlockRound[Parent[b]]
  BY <1>4, <1>9, RoundFacts, BlockFacts
<1> HIDE DEF sd0
<1>11. RoundsCoverSignatures'
  <2>1. \A w \in Honest, c \in Blocks :
           w \in votes'[c] => BlockRound[c] <= safety_data'[w].last_voted_round
    BY <1>4, <1>5, <1>6, <1>8, <1>9, BlockFacts DEF IInv, RoundsCoverSignatures
  <2>2. \A w \in Honest, t \in Timeout : w \in timeouts'[t] =>
              /\ t.round <= safety_data'[w].last_voted_round
              /\ t.round <= safety_data'[w].highest_timeout_round
    BY <1>4, <1>5, <1>7, <1>8, <1>9, BlockFacts, TimeoutFacts
    DEF IInv, RoundsCoverSignatures
  <2>3. QED
    BY <2>1, <2>2 DEF RoundsCoverSignatures
<1>12. VotesOncePerRound'
  <2>1. \A c \in Blocks : v \in votes[c] => BlockRound[c] # BlockRound[b]
    BY <1>8, <1>9, BlockFacts DEF IInv, RoundsCoverSignatures
  <2>2. QED
    BY <1>6, <2>1 DEF IInv, VotesOncePerRound
<1>13. OneChainCoversQCs'
  <2>1. \A w \in Honest, c \in Blocks : w \in votes'[c] =>
              BlockRound[Parent[c]] <= safety_data'[w].one_chain_round
    BY <1>5, <1>6, <1>9, <1>10, BlockFacts DEF IInv, OneChainCoversQCs
  <2>2. \A w \in Honest, c \in Blocks : w \in order_votes'[c] =>
              BlockRound[c] <= safety_data'[w].one_chain_round
    BY <1>5, <1>7, <1>9, <1>10, BlockFacts DEF IInv, OneChainCoversQCs
  <2>3. \A w \in Honest : \E c \in CertifiedBlocks' :
              BlockRound[c] = safety_data'[w].one_chain_round
    <3>1. Parent[b] \in CertifiedBlocks
      BY <1>8, BlockFacts DEF CertifiedBlocks
    <3>2. CertifiedBlocks \subseteq CertifiedBlocks'
      BY <1>1, CertificatesPersist
    <3>3. QED
      BY <1>5, <1>10, <3>1, <3>2 DEF IInv, OneChainCoversQCs
  <2>4. QED
    BY <2>1, <2>2, <2>3 DEF OneChainCoversQCs
<1>14. TimeoutCarriesVotedQC'
  <2>1. \A t \in Timeout : v \in timeouts[t] => t.round < BlockRound[b]
    BY <1>8, <1>9, BlockFacts, TimeoutFacts DEF IInv, RoundsCoverSignatures
  <2>2. QED
    BY <1>6, <1>7, <2>1, BlockFacts, TimeoutFacts DEF IInv, TimeoutCarriesVotedQC
<1>15. TimeoutCarriesOrderVotedQC'
  BY <1>7 DEF IInv, TimeoutCarriesOrderVotedQC
<1>16. VotesAreJustified'
  <2>1. Certified(Parent[b])'
    BY <1>1, <1>8, BlockFacts, CertifiedMonotone
  <2>2. \/ BlockRound[b] = BlockRound[Parent[b]] + 1
        \/ \E c \in Timeout : /\ TimeoutCertified(c)'
                              /\ BlockRound[b] = c.round + 1
                              /\ BlockRound[Parent[b]] >= c.hqc_round
    <3>1. CASE is_next_round(BlockRound[b], BlockRound[Parent[b]])
      BY <3>1 DEF is_next_round
    <3>2. CASE /\ is_next_round(BlockRound[b], tc.round)
               /\ BlockRound[Parent[b]] >= tc.hqc_round
      <4>1. CASE tc = NoTC
        BY <1>8, <3>2, <4>1, BlockFacts DEF is_next_round, NoTC
      <4>2. CASE tc \in Timeout /\ TimeoutCertified(tc)
        BY <1>1, <3>2, <4>2, TimeoutCertifiedMonotone DEF is_next_round
      <4>3. QED
        BY <4>1, <4>2 DEF VerifiedTC
    <3>3. QED
      BY <3>1, <3>2 DEF safe_to_vote
  <2>3. \A c \in Blocks : votes'[c] # {} => votes[c] # {} \/ c = b
    BY <1>1, <1>6 DEF TypeOK
  <2>4. QED
    BY <1>1, <1>8, <2>1, <2>2, <2>3, JustificationPersists DEF VotesAreJustified
<1>17. OrderVotesAreJustified'
  BY <1>1, <1>7, JustificationPersists DEF OrderVotesAreJustified
<1>18. RoundsFollowCertificates'
  <2>1. EndedRounds \subseteq EndedRounds'
    BY <1>1, CertificatesPersist
  <2>2. \E r \in EndedRounds : BlockRound[b] <= r + 1
    <3>1. BlockRound[Parent[b]] \in EndedRounds
      BY <1>8, BlockFacts DEF EndedRounds, CertifiedBlocks
    <3>2. tc.round \in EndedRounds
      BY DEF EndedRounds
    <3>3. \/ BlockRound[b] = BlockRound[Parent[b]] + 1
          \/ BlockRound[b] = tc.round + 1
      BY DEF safe_to_vote, is_next_round
    <3>4. QED
      BY <3>1, <3>2, <3>3, BlockFacts
  <2>3. QED
    BY <1>4, <1>5, <2>1, <2>2 DEF IInv, RoundsFollowCertificates
<1>19. QED
  BY <1>1, <1>11, <1>12, <1>13, <1>14, <1>15, <1>16, <1>17, <1>18 DEF IInv

LEMMA TimeoutStep ==
    ASSUME IInv, NEW v \in Honest, NEW round \in Round, NEW qc \in Blocks,
           SignTimeoutWithQC(v, round, qc)
    PROVE  IInv'
<1> DEFINE sd == safety_data[v]
           sd0 == [sd EXCEPT !.last_voted_round = MaxRound(round, @)]
           t0 == [round |-> round, hqc_round |-> BlockRound[qc]]
<1>1. TypeOK /\ TypeOK' /\ SignaturesGrow
  BY TimeoutType DEF IInv
<1>2. /\ sd \in SafetyData
      /\ sd.last_voted_round \in Round /\ sd.highest_timeout_round \in Round
      /\ sd.last_voted_round \in Nat /\ sd.highest_timeout_round \in Nat
      /\ sd.one_chain_round \in Nat
  BY <1>1, RoundFacts DEF TypeOK, SafetyData
<1>3. safety_data'[v] = update_highest_timeout_round(sd0, round)
  BY <1>1 DEF SignTimeoutWithQC, TypeOK
<1>4. /\ safety_data'[v].last_voted_round = MaxRound(round, sd.last_voted_round)
      /\ safety_data'[v].highest_timeout_round
            = MaxRound(round, sd.highest_timeout_round)
      /\ safety_data'[v].one_chain_round = sd.one_chain_round
  <2> HIDE DEF sd
  <2>1. QED
    BY <1>2, <1>3 DEF update_highest_timeout_round, SafetyData
<1>5. \A w \in Honest : w # v => safety_data'[w] = safety_data[w]
  BY <1>1 DEF SignTimeoutWithQC, TypeOK
<1>6. t0 \in Timeout /\ t0.round = round /\ t0.hqc_round = BlockRound[qc]
  BY BlockFacts DEF SignTimeoutWithQC, Timeout
<1>7. \A w \in Honest, t \in Timeout :
         w \in timeouts'[t] => w \in timeouts[t] \/ (w = v /\ t = t0)
  <2>1. timeouts' = [timeouts EXCEPT ![t0] = @ \cup {v}]
    BY DEF SignTimeoutWithQC
  <2> HIDE DEF t0
  <2>2. QED
    BY <1>1, <2>1 DEF TypeOK
<1>8. UNCHANGED <<votes, order_votes>>
  BY DEF SignTimeoutWithQC
<1> PICK tc \in VerifiedTC : safe_to_timeout(round, BlockRound[qc], tc, sd)
  BY DEF SignTimeoutWithQC, TCsToTimeout
<1>9. /\ round >= sd.last_voted_round
      /\ BlockRound[qc] >= sd.one_chain_round
      /\ Certified(qc)
      /\ round = BlockRound[qc] + 1 \/ round = tc.round + 1
  BY DEF SignTimeoutWithQC, safe_to_timeout, is_next_round
<1>10. /\ round \in Nat
       /\ safety_data'[v].last_voted_round = round
       /\ safety_data'[v].highest_timeout_round \in Nat
       /\ safety_data'[v].highest_timeout_round >= round
       /\ safety_data'[v].highest_timeout_round >= sd.highest_timeout_round
  BY <1>2, <1>4, <1>9, RoundFacts
<1> HIDE DEF sd0, t0
<1>11. RoundsCoverSignatures'
  <2>1. \A w \in Honest, c \in Blocks :
           w \in votes'[c] => BlockRound[c] <= safety_data'[w].last_voted_round
    BY <1>2, <1>5, <1>8, <1>9, <1>10, BlockFacts DEF IInv, RoundsCoverSignatures
  <2>2. \A w \in Honest, t \in Timeout : w \in timeouts'[t] =>
              /\ t.round <= safety_data'[w].last_voted_round
              /\ t.round <= safety_data'[w].highest_timeout_round
    BY <1>2, <1>5, <1>6, <1>7, <1>9, <1>10, TimeoutFacts
    DEF IInv, RoundsCoverSignatures
  <2>3. QED
    BY <2>1, <2>2 DEF RoundsCoverSignatures
<1>12. VotesOncePerRound'
  BY <1>8 DEF IInv, VotesOncePerRound
<1>13. OneChainCoversQCs'
  <2>1. CertifiedBlocks \subseteq CertifiedBlocks'
    BY <1>1, CertificatesPersist
  <2>2. \A w \in Honest : safety_data'[w].one_chain_round
                             = safety_data[w].one_chain_round
    BY <1>4, <1>5
  <2>3. QED
    BY <1>8, <2>1, <2>2 DEF IInv, OneChainCoversQCs
<1>14. TimeoutCarriesVotedQC'
  <2>1. \A c \in Blocks : v \in votes[c] => t0.hqc_round >= BlockRound[Parent[c]]
    BY <1>2, <1>6, <1>9, BlockFacts DEF IInv, OneChainCoversQCs
  <2>2. QED
    BY <1>7, <1>8, <2>1 DEF IInv, TimeoutCarriesVotedQC
<1>15. TimeoutCarriesOrderVotedQC'
  <2>1. \A c \in Blocks : v \in order_votes[c] => t0.hqc_round >= BlockRound[c]
    BY <1>2, <1>6, <1>9, BlockFacts DEF IInv, OneChainCoversQCs
  <2>2. QED
    BY <1>7, <1>8, <2>1 DEF IInv, TimeoutCarriesOrderVotedQC
<1>16. VotesAreJustified' /\ OrderVotesAreJustified'
  BY <1>1, <1>8, JustificationPersists DEF VotesAreJustified, OrderVotesAreJustified
<1>17. RoundsFollowCertificates'
  <2>1. EndedRounds \subseteq EndedRounds'
    BY <1>1, CertificatesPersist
  <2>2. \E r \in EndedRounds : round <= r + 1
    <3>1. BlockRound[qc] \in EndedRounds /\ tc.round \in EndedRounds
      BY <1>9 DEF EndedRounds, CertifiedBlocks
    <3>2. QED
      BY <1>9, <1>10, <3>1
  <2>3. QED
    BY <1>5, <1>10, <2>1, <2>2 DEF IInv, RoundsFollowCertificates
<1>18. QED
  BY <1>1, <1>11, <1>12, <1>13, <1>14, <1>15, <1>16, <1>17 DEF IInv

LEMMA OrderVoteStep ==
    ASSUME IInv, NEW v \in Honest, NEW b \in Blocks,
           ConstructAndSignOrderVote(v, b)
    PROVE  IInv'
<1> DEFINE sd == safety_data[v]
           sd1 == observe_qc(sd, BlockRound[b], BlockRound[Parent[b]])
<1>1. TypeOK /\ TypeOK' /\ SignaturesGrow
  BY OrderVoteType DEF IInv
<1>2. /\ sd \in SafetyData /\ sd.one_chain_round \in Round
      /\ sd.one_chain_round \in Nat /\ sd.highest_timeout_round \in Nat
  BY <1>1, RoundFacts DEF TypeOK, SafetyData
<1>3. safety_data'[v] = sd1
  BY <1>1 DEF ConstructAndSignOrderVote, TypeOK
<1>4. /\ sd1.last_voted_round = sd.last_voted_round
      /\ sd1.highest_timeout_round = sd.highest_timeout_round
      /\ sd1.one_chain_round = MaxRound(BlockRound[b], sd.one_chain_round)
  <2>1. BlockRound[b] \in Round /\ BlockRound[Parent[b]] \in Round
    BY BlockFacts
  <2> HIDE DEF sd
  <2>2. QED
    BY <1>2, <2>1, ObserveQCType
<1>5. \A w \in Honest : w # v => safety_data'[w] = safety_data[w]
  BY <1>1 DEF ConstructAndSignOrderVote, TypeOK
<1>6. \A w \in Honest, c \in Blocks :
         w \in order_votes'[c] => w \in order_votes[c] \/ (w = v /\ c = b)
  BY <1>1 DEF ConstructAndSignOrderVote, TypeOK
<1>7. UNCHANGED <<votes, timeouts>>
  BY DEF ConstructAndSignOrderVote
<1>8. Certified(b) /\ BlockRound[b] > sd.highest_timeout_round
  BY <1>4 DEF ConstructAndSignOrderVote, safe_for_order_vote
<1> HIDE DEF sd1
<1>9. /\ safety_data'[v].one_chain_round \in Nat
      /\ safety_data'[v].one_chain_round >= sd.one_chain_round
      /\ safety_data'[v].one_chain_round >= BlockRound[b]
      /\ \/ safety_data'[v].one_chain_round = sd.one_chain_round
         \/ safety_data'[v].one_chain_round = BlockRound[b]
  BY <1>2, <1>3, <1>4, RoundFacts, BlockFacts
<1>10. \A w \in Honest :
          /\ safety_data'[w].last_voted_round = safety_data[w].last_voted_round
          /\ safety_data'[w].highest_timeout_round
                = safety_data[w].highest_timeout_round
  BY <1>3, <1>4, <1>5
<1>11. RoundsCoverSignatures'
  BY <1>7, <1>10 DEF IInv, RoundsCoverSignatures
<1>12. VotesOncePerRound'
  BY <1>7 DEF IInv, VotesOncePerRound
<1>13. OneChainCoversQCs'
  <2>1. \A w \in Honest, c \in Blocks : w \in votes'[c] =>
              BlockRound[Parent[c]] <= safety_data'[w].one_chain_round
    BY <1>2, <1>5, <1>7, <1>9, BlockFacts DEF IInv, OneChainCoversQCs
  <2>2. \A w \in Honest, c \in Blocks : w \in order_votes'[c] =>
              BlockRound[c] <= safety_data'[w].one_chain_round
    BY <1>2, <1>5, <1>6, <1>9, BlockFacts DEF IInv, OneChainCoversQCs
  <2>3. \A w \in Honest : \E c \in CertifiedBlocks' :
              BlockRound[c] = safety_data'[w].one_chain_round
    <3>1. b \in CertifiedBlocks
      BY <1>8 DEF CertifiedBlocks
    <3>2. CertifiedBlocks \subseteq CertifiedBlocks'
      BY <1>1, CertificatesPersist
    <3>3. QED
      BY <1>5, <1>9, <3>1, <3>2 DEF IInv, OneChainCoversQCs
  <2>4. QED
    BY <2>1, <2>2, <2>3 DEF OneChainCoversQCs
<1>14. TimeoutCarriesVotedQC'
  BY <1>7 DEF IInv, TimeoutCarriesVotedQC
<1>15. TimeoutCarriesOrderVotedQC'
  <2>1. \A t \in Timeout : v \in timeouts[t] => t.round < BlockRound[b]
    BY <1>2, <1>8, BlockFacts, TimeoutFacts DEF IInv, RoundsCoverSignatures
  <2>2. QED
    BY <1>6, <1>7, <2>1, BlockFacts, TimeoutFacts
    DEF IInv, TimeoutCarriesOrderVotedQC
<1>16. VotesAreJustified'
  BY <1>1, <1>7, JustificationPersists DEF VotesAreJustified
<1>17. OrderVotesAreJustified'
  <2>1. b # Genesis
    BY <1>2, <1>8, BlockFacts
  <2>2. Certified(b)'
    BY <1>1, <1>8, CertifiedMonotone
  <2>3. \A c \in Blocks : order_votes'[c] # {} => order_votes[c] # {} \/ c = b
    BY <1>1, <1>6 DEF TypeOK
  <2>4. QED
    BY <1>1, <2>1, <2>2, <2>3, JustificationPersists DEF OrderVotesAreJustified
<1>18. RoundsFollowCertificates'
  <2>1. EndedRounds \subseteq EndedRounds'
    BY <1>1, CertificatesPersist
  <2>2. QED
    BY <1>10, <2>1 DEF IInv, RoundsFollowCertificates
<1>19. QED
  BY <1>1, <1>11, <1>12, <1>13, <1>14, <1>15, <1>16, <1>17, <1>18 DEF IInv

LEMMA IInvInit == Init => IInv
<1>1. SUFFICES ASSUME Init PROVE IInv
  OBVIOUS
<1>2. TypeOK
  BY <1>1, TypeInit
<1>3. /\ \A b \in Blocks : votes[b] = {} /\ order_votes[b] = {}
      /\ \A t \in Timeout : timeouts[t] = {}
  BY <1>1 DEF Init
<1>4. \A v \in Honest : /\ safety_data[v].one_chain_round = 0
                        /\ safety_data[v].last_voted_round = 0
  BY <1>1 DEF Init, InitialSafetyData
<1>5. Genesis \in CertifiedBlocks
  BY BlockFacts DEF CertifiedBlocks, Certified
<1>6. OneChainCoversQCs
  BY <1>3, <1>4, <1>5, BlockFacts DEF OneChainCoversQCs
<1>7. RoundsFollowCertificates
  <2>1. 0 \in EndedRounds
    BY <1>5, BlockFacts DEF EndedRounds
  <2>2. QED
    BY <1>4, <2>1 DEF RoundsFollowCertificates
<1>8. QED
  BY <1>2, <1>3, <1>6, <1>7 DEF IInv, RoundsCoverSignatures, VotesOncePerRound,
     TimeoutCarriesVotedQC, TimeoutCarriesOrderVotedQC, VotesAreJustified,
     OrderVotesAreJustified

LEMMA IInvStutter ==
    ASSUME IInv, UNCHANGED vars
    PROVE  IInv'
<1>1. TypeOK /\ TypeOK' /\ SignaturesGrow
  BY TypeStep DEF IInv
<1>2. /\ safety_data' = safety_data /\ votes' = votes
      /\ timeouts' = timeouts /\ order_votes' = order_votes
  BY DEF vars
<1>3. /\ CertifiedBlocks \subseteq CertifiedBlocks'
      /\ EndedRounds \subseteq EndedRounds'
  BY <1>1, CertificatesPersist
<1>4. OneChainCoversQCs' /\ RoundsFollowCertificates'
  BY <1>2, <1>3 DEF IInv, OneChainCoversQCs, RoundsFollowCertificates
<1>5. VotesAreJustified' /\ OrderVotesAreJustified'
  BY <1>1, <1>2, JustificationPersists DEF VotesAreJustified, OrderVotesAreJustified
<1>6. /\ RoundsCoverSignatures' /\ VotesOncePerRound'
      /\ TimeoutCarriesVotedQC' /\ TimeoutCarriesOrderVotedQC'
  BY <1>2 DEF IInv, RoundsCoverSignatures, VotesOncePerRound,
     TimeoutCarriesVotedQC, TimeoutCarriesOrderVotedQC
<1>7. QED
  BY <1>1, <1>4, <1>5, <1>6 DEF IInv

\* The invariant that ties the persisted SafetyData to the signatures a
\* validator has released holds in every reachable state.
THEOREM InductiveInvariant == Spec => []IInv
<1>1. Init => IInv
  BY IInvInit
<1>2. ASSUME IInv, [Next]_vars PROVE IInv'
  <2>1. ASSUME NEW v \in Honest, NEW b \in Blocks,
               ConstructAndSignVote(v, b)
        PROVE  IInv'
    BY <1>2, <2>1, VoteStep
  <2>2. ASSUME NEW v \in Honest, NEW round \in Round,
               NEW qc \in Blocks, SignTimeoutWithQC(v, round, qc)
        PROVE  IInv'
    BY <1>2, <2>2, TimeoutStep
  <2>3. ASSUME NEW v \in Honest, NEW b \in Blocks, ConstructAndSignOrderVote(v, b)
        PROVE  IInv'
    BY <1>2, <2>3, OrderVoteStep
  <2>4. CASE UNCHANGED vars
    BY <1>2, <2>4, IInvStutter
  <2>5. QED
    BY <1>2, <2>1, <2>2, <2>3, <2>4 DEF Next
<1>3. QED
  BY <1>1, <1>2, PTL DEF Spec

\* Safety of AptosBFT: no two validators order conflicting blocks, with any
\* mixture of 2-chain commits and order votes, any stake distribution within
\* the fault bound, any block tree and any number of rounds.
THEOREM AgreementHolds == Spec => []Agreement
BY InductiveInvariant, AgreementLemma, PTL

\* Once a block is ordered, every later QC extends it.
THEOREM OrderedBlocksAreLocked == Spec => []CertifiedExtendsOrdered
BY InductiveInvariant, LockedLemma, PTL

\* One round never has two certified blocks.
THEOREM OneCertifiedBlockPerRound == Spec => []UniqueCertifiedBlock
BY InductiveInvariant, UniqueLemma, PTL

\* In every reachable state every honest validator can be brought to sign a
\* timeout of the next round: the safety rules never lock one out.
THEOREM NoHonestLockout == Spec => []TimeoutAlwaysPossible
BY InductiveInvariant, TimeoutPossibleLemma, PTL

\* Every persisted round of t is at least that of s.
SafetyDataLeq(s, t) ==
    /\ t.last_voted_round >= s.last_voted_round
    /\ t.one_chain_round >= s.one_chain_round
    /\ t.preferred_round >= s.preferred_round
    /\ t.highest_timeout_round >= s.highest_timeout_round

LEMMA SafetyDataFields ==
    \A sd \in SafetyData :
        /\ sd.last_voted_round \in Round /\ sd.one_chain_round \in Round
        /\ sd.preferred_round \in Round /\ sd.highest_timeout_round \in Round
        /\ sd.last_voted_round \in Nat /\ sd.one_chain_round \in Nat
        /\ sd.preferred_round \in Nat /\ sd.highest_timeout_round \in Nat
BY RoundFacts DEF SafetyData

LEMMA SafetyDataLeqReflexive ==
    ASSUME NEW sd \in SafetyData
    PROVE  SafetyDataLeq(sd, sd)
BY SafetyDataFields DEF SafetyDataLeq

LEMMA SafetyDataLeqTransitive ==
    ASSUME NEW s \in SafetyData, NEW t \in SafetyData, NEW u \in SafetyData,
           SafetyDataLeq(s, t), SafetyDataLeq(t, u)
    PROVE  SafetyDataLeq(s, u)
BY SafetyDataFields DEF SafetyDataLeq

LEMMA ObserveQCGrows ==
    ASSUME NEW sd \in SafetyData, NEW r \in Round, NEW s \in Round
    PROVE  SafetyDataLeq(sd, observe_qc(sd, r, s))
<1>1. /\ MaxRound(r, sd.one_chain_round) >= sd.one_chain_round
      /\ MaxRound(s, sd.preferred_round) >= sd.preferred_round
  BY SafetyDataFields, RoundFacts
<1> DEFINE t == observe_qc(sd, r, s)
<1>2. /\ t.one_chain_round = MaxRound(r, sd.one_chain_round)
      /\ t.preferred_round = MaxRound(s, sd.preferred_round)
      /\ t.last_voted_round = sd.last_voted_round
      /\ t.highest_timeout_round = sd.highest_timeout_round
  BY ObserveQCType
<1> HIDE DEF t
<1>3. SafetyDataLeq(sd, t)
  BY <1>1, <1>2, SafetyDataFields DEF SafetyDataLeq
<1>4. QED
  BY <1>3 DEF t

\* No step lowers a persisted round: signing only ever raises
\* last_voted_round, one_chain_round, preferred_round and
\* highest_timeout_round.
THEOREM SafetyDataMonotone == Spec => SafetyDataNeverRegresses
<1> DEFINE Grows(w) == SafetyDataLeq(safety_data[w], safety_data'[w])
<1>1. ASSUME TypeOK, [Next]_vars, NEW w \in Honest PROVE Grows(w)
  <2>1. safety_data[w] \in SafetyData
    BY <1>1 DEF TypeOK
  <2>2. safety_data'[w] = safety_data[w] => Grows(w)
    BY <2>1, SafetyDataLeqReflexive
  <2>3. ASSUME NEW v \in Honest, NEW b \in Blocks,
               ConstructAndSignVote(v, b)
        PROVE  Grows(w)
    <3> DEFINE sd == safety_data[v]
               sd0 == [sd EXCEPT !.last_voted_round = BlockRound[b],
                                 !.last_vote = b]
               sd1 == observe_qc(sd0, BlockRound[Parent[b]],
                                 BlockRound[Parent[Parent[b]]])
    <3>1. v # w => safety_data'[w] = safety_data[w]
      BY <1>1, <2>3 DEF ConstructAndSignVote, TypeOK
    <3>2. safety_data'[v] = sd1
      BY <1>1, <2>3 DEF ConstructAndSignVote, TypeOK
    <3>3. /\ BlockRound[b] \in Round
          /\ BlockRound[Parent[b]] \in Round
          /\ BlockRound[Parent[Parent[b]]] \in Round
      BY BlockFacts
    <3>4. BlockRound[b] > sd.last_voted_round
      BY <2>3 DEF ConstructAndSignVote
    <3>5. sd \in SafetyData
      BY <1>1 DEF TypeOK
    <3>6. /\ sd0 \in SafetyData
          /\ SafetyDataLeq(sd, sd0)
      <4> HIDE DEF sd
      <4>1. sd0 \in SafetyData
        BY <3>3, <3>5 DEF SafetyData
      <4>2. /\ sd0.last_voted_round = BlockRound[b]
            /\ sd0.one_chain_round = sd.one_chain_round
            /\ sd0.preferred_round = sd.preferred_round
            /\ sd0.highest_timeout_round = sd.highest_timeout_round
        BY <3>5 DEF SafetyData
      <4> HIDE DEF sd0
      <4>3. QED
        BY <3>4, <3>5, <4>1, <4>2, SafetyDataFields DEF SafetyDataLeq
    <3>7. sd1 \in SafetyData /\ SafetyDataLeq(sd0, sd1)
      <4> HIDE DEF sd0
      <4>1. QED
        BY <3>3, <3>6, ObserveQCType, ObserveQCGrows
    <3>8. SafetyDataLeq(sd, sd1)
      <4> HIDE DEF sd, sd0, sd1
      <4>1. QED
        BY <3>5, <3>6, <3>7, SafetyDataLeqTransitive
    <3> HIDE DEF sd1
    <3>9. QED
      BY <2>2, <3>1, <3>2, <3>8
  <2>4. ASSUME NEW v \in Honest, NEW round \in Round,
               NEW qc \in Blocks, SignTimeoutWithQC(v, round, qc)
        PROVE  Grows(w)
    <3> DEFINE sd == safety_data[v]
               sd0 == [sd EXCEPT !.last_voted_round = MaxRound(round, @)]
               sd1 == update_highest_timeout_round(sd0, round)
    <3>1. v # w => safety_data'[w] = safety_data[w]
      BY <1>1, <2>4 DEF SignTimeoutWithQC, TypeOK
    <3>2. safety_data'[v] = sd1
      BY <1>1, <2>4 DEF SignTimeoutWithQC, TypeOK
    <3>3. sd \in SafetyData
      BY <1>1 DEF TypeOK
    <3>4. SafetyDataLeq(sd, sd1)
      <4> HIDE DEF sd
      <4>1. /\ sd1.last_voted_round = MaxRound(round, sd.last_voted_round)
            /\ sd1.highest_timeout_round
                  = MaxRound(round, sd.highest_timeout_round)
            /\ sd1.one_chain_round = sd.one_chain_round
            /\ sd1.preferred_round = sd.preferred_round
        BY <3>3 DEF update_highest_timeout_round, SafetyData
      <4> HIDE DEF sd1
      <4>2. QED
        BY <3>3, <4>1, SafetyDataFields, RoundFacts DEF SafetyDataLeq
    <3> HIDE DEF sd1
    <3>5. QED
      BY <2>2, <3>1, <3>2, <3>4
  <2>5. ASSUME NEW v \in Honest, NEW b \in Blocks, ConstructAndSignOrderVote(v, b)
        PROVE  Grows(w)
    <3> DEFINE sd == safety_data[v]
               sd1 == observe_qc(sd, BlockRound[b], BlockRound[Parent[b]])
    <3>1. v # w => safety_data'[w] = safety_data[w]
      BY <1>1, <2>5 DEF ConstructAndSignOrderVote, TypeOK
    <3>2. safety_data'[v] = sd1
      BY <1>1, <2>5 DEF ConstructAndSignOrderVote, TypeOK
    <3>3. sd \in SafetyData
      BY <1>1 DEF TypeOK
    <3>4. BlockRound[b] \in Round /\ BlockRound[Parent[b]] \in Round
      BY BlockFacts
    <3>5. SafetyDataLeq(sd, sd1)
      <4> HIDE DEF sd
      <4>1. QED
        BY <3>3, <3>4, ObserveQCGrows
    <3> HIDE DEF sd1
    <3>6. QED
      BY <2>2, <3>1, <3>2, <3>5
  <2>6. CASE UNCHANGED vars
    BY <2>2, <2>6 DEF vars
  <2>7. QED
    BY <1>1, <2>3, <2>4, <2>5, <2>6 DEF Next
<1>2. TypeOK /\ [Next]_vars => [\A v \in Honest : Grows(v)]_vars
  BY <1>1
<1>3. Spec => [][\A v \in Honest : Grows(v)]_vars
  BY <1>2, TypeCorrect, PTL DEF Spec
<1>4. QED
  BY <1>3 DEF SafetyDataNeverRegresses, SafetyDataLeq

=============================================================================
