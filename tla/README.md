# AptosBFT in TLA+

A verification project for the consensus core and the parallel block executor of
this repository: TLA+ modules translated from the Rust sources, TLC configurations that model-check them on
small instances, and TLAPS proofs that lift the most important results to every
instance.

## 1. Inventory of the system

`aptos-core` is a validator node. A transaction enters through the API and
mempool, is packed into batches by the quorum store, ordered by consensus
(AptosBFT, a 2-chain HotStuff descendant with order votes), executed by
Block-STM and the Move VM, certified by commit votes, stored in AptosDB and
served to full nodes by state sync. The parts, their state, their operations
and what makes them correct:

| part | state it keeps | operations | what makes it correct |
|---|---|---|---|
| voting power (`types/src/validator_verifier.rs`) | powers of an epoch's validators, quorum threshold | sum, check quorum / f+1, verify aggregated signatures | two quorums share an honest validator; f+1 contains one |
| safety rules (`consensus/safety-rules`) | persisted `SafetyData`, waypoint, consensus key; in memory: signer, epoch state, cache | initialize, sign proposal, vote, order vote, timeout, commit vote | a validator never releases two signatures that contradict each other, across crashes, storage errors and epoch changes |
| certificates (`consensus/consensus-types`) | votes, QCs, TCs, order certificates, sync info | verify, aggregate | what a quorum assembled always verifies |
| vote aggregation (`consensus/src/pending_votes.rs`, `pending_order_votes.rs`) | signatures per message and author of a round | insert vote, timeout, order vote; form QC, TC, order certificate; echo a timeout | one vote per author; a certificate as soon as, and only if, a quorum signed |
| round state, the pacemaker (`consensus/src/liveness/round_state.rs`) | current round, highest ordered round, deadline, vote and timeout sent | process certificates, local timeout, insert vote | rounds only grow, timers of old rounds are ignored, back-off follows the ordered round |
| proposer election and generation (`consensus/src/liveness`) | reputation window, proposals seen, last round generated | is valid proposer, generate proposal | one proposal per round, all honest validators agree on the proposer |
| block store and tree (`consensus/src/block_storage`) | blocks, QCs, ordered root, commit root, highest certificates | insert block, insert QC, send for execution, prune, sync | the roots only move along one chain, pruning keeps what is needed |
| round manager (`consensus/src/round_manager.rs`) | the above, composed; event loop | handlers of proposals, votes, order votes, sync info, timeouts | after sync all honest validators keep deciding |
| epoch manager (`consensus/src/epoch_manager.rs`) | current epoch's components | start, shut down, route messages by epoch | no message of another epoch is processed |
| consensus database and recovery (`consensusdb`, `persistent_liveness_storage.rs`, `recovery_manager.rs`) | blocks, QCs, last vote, highest TC on disk | save, prune, find the root, start | whatever point the node stopped at, it starts again with a root and forgets no certificate |
| execution pipeline (`consensus/src/pipeline`) | futures of each ordered block, buffer of ordered blocks, commit votes | execute, pre-commit, sign, aggregate, commit, call back | blocks are committed in order, once |
| state sync as consensus uses it (`state_computer.rs`) | logical time, write mutex | sync to target | the ledger only extends; the caller learns whether the target was reached |
| parallel block executor, Block-STM (`aptos-move/block-executor`, `aptos-move/mvhashmap`) | status, waves and dependencies of each transaction, atomic indices, multi-version data, module cache | execute, validate, abort, suspend, resume, commit, halt, epilogue | the result is that of sequential execution, and every block ends |
| quorum store (`consensus/src/quorum_store`) | batches, proofs, quotas | create, sign, prove, fetch, expire batches | availability of every proven batch until it expires |
| randomness, DAG consensus, consensus observer (`consensus/src/{rand,dag,consensus_observer}`) | shares; nodes and anchors; ordered blocks of full nodes | - | - |
| mempool, network, state sync's own protocols, storage, Move, API, indexers, tools | - | - | - |

Components interact by calls and channels: the round manager is one task that
handles one message at a time and calls safety rules, block store and round
state; network, timers, pipeline and quorum store are other tasks that reach it
through channels. Between two calls anything can happen: a restart loses all
memory but the safety storage and the consensus database; messages of old
rounds arrive late, twice or never.

The hard behaviours are therefore: which signatures may coexist under any
interleaving of messages (safety); what is persisted before what is sent
(crashes); timeouts racing late certificates; votes, timeouts and order votes
of several rounds aggregated at once; the block tree replaced by a state sync
while pipelines of the old tree still run, and two databases written
independently of each other; worker threads over atomics and fine-grained locks
in the block executor; progress after an asynchronous period.

## 2. Plan

The order follows what the system's safety rests on: first which signatures may
coexist, then that one validator's code really keeps to that through crashes,
then how signatures become certificates, then what keeps the rounds going.

| stage | module | what it models | state |
|---|---|---|---|
| 1 | `ValidatorVerifier` | voting power and quorums | done, proved |
| 1 | `TwoChainRules` | the voting rules as operators | done |
| 1 | `TwoChain` | one epoch, a network of validators (uses the two above) | done, checked and proved |
| 1 | `SafetyRules` | one validator's safety rules over its storage, several epochs (uses `TwoChainRules`) | done, checked and proved |
| 1 | `SignatureAggregator`, `PendingVotes` | the collector of votes and timeouts of a round (uses `ValidatorVerifier`) | done, checked and proved |
| 1 | `RoundState` | the pacemaker of a validator with its timer path | done, checked and proved |
| 2 | `HonestSigner` | abstract specification of one validator's signer; `SafetyRules` implements it | done, checked and proved |
| 2 | `PendingOrderVotes` | order votes over several rounds, garbage collection, the 100-round window, certificates formed before their block is there | done, checked and proved |
| 2 | `BlockStore` | block tree, consensus database, pipelines, state sync and recovery of one validator | done, checked and proved |
| 2 | `BlockSTM` | the scheduler and the workers that execute a block | done, checked and proved |
| 3 | the `...Proofs` modules | the safety invariants and action properties of stages 1 and 2, and the refinement, for every value of the constants | done but for the rest listed below |
| 4 | `RoundManager` | composes the collectors, the block tree, the pacemaker and the rules of one validator; messages from peers as inputs | planned |
| 4 | `UnequivocalProposerElection`, `ProposalGenerator` | one proposal per round and proposer | planned |
| 4 | `BufferManager` | ordered, executed, signed, aggregated blocks; commit votes early and late; reset on state sync | planned |
| 4 | `QuorumStore` | batch quotas, proof collection, expiry | planned |
| 4 | `Pacemaker` | several validators with timeouts, TCs and echoes: after a quiet period all honest validators meet in a round | planned |

Abstract specifications: the honest signer, stated and shown to be implemented by
`SafetyRules`; sequential execution of a block, the reference that `BlockSTM` is
compared with (`SequentialState`). Still worth stating: a chain that only grows,
implemented by `TwoChain` (the ordered blocks) and by `BlockStore` (the ordered
root of one validator).

Theorem worth proving next: that the honest validators of `TwoChain`, one by one,
refine `HonestSigner`.

## 3. The modules and the code

### ValidatorVerifier

`types/src/validator_verifier.rs`. `sum_voting_power` is a constant function
from sets of validators to power that is additive and monotone (assumption
`VotingPowerAssumption`), so that nothing depends on how stake is distributed;
the MC modules define it by adding weights. The power of an epoch fits the
code's integers, so `total * 2` does not overflow. `FaultAssumption` bounds the
Byzantine power by `total - quorum`, the most that any design with this
threshold can stand.

### TwoChainRules and TwoChain

`safety_rules_2chain.rs` and the helpers of `safety_rules.rs`. The rules are
pure operators on rounds; `U64Max` is `u64::MAX`, and the checked addition of
`next_round` fails there as in the code.

`TwoChain` is the whole network in one epoch. Its state is what each honest
validator has persisted (`safety_data`) and every signature ever released
(`votes`, `timeouts`, `order_votes`). There are no message variables: a
certificate may be used as soon as the signatures for it exist, by anyone, in
any order, or never, which covers loss, delay, duplication and reordering.
Byzantine validators sign everything, so a certificate needs only the honest
part of a quorum. Actions: `ConstructAndSignVote`, `SignTimeoutWithQC`,
`ConstructAndSignOrderVote`. A block is ordered (`Ordered`) when the QC of a
child in the next round carries it as commit info, or when a quorum order-voted
for it. A restart is a stutter here because the state is what the code persists
before it releases a signature, which is `SafetyRules`' business.

A caller of the rules may pass any timeout certificate that verifies or none
(`TCsToVote`, `TCsToTimeout`).

Two abstractions to know of. A block's QC is represented by the block it
certifies; which quorum signed it does not matter to the rules. A QC for a
forged block of round 0, which `QuorumCert::verify` accepts without signatures,
is left out: such a block cannot be inserted into any block store ("it'll fail
to insert into BlockStore because of the round constraint"), and in local mode
the rules only see blocks from there.

### SafetyRules

`safety_rules.rs`, `safety_rules_2chain.rs`, `persistent_safety_storage.rs`: one
validator. Persisted: `store` (SafetyData) and `waypoint`, by the epoch it
starts. In memory: `cached_safety_data`, `validator_signer`, `epoch_state`.
`votes`, `timeouts`, `order_votes`, `proposals` record what was released. Each
operation is one action because requests come one at a time behind a lock;
`initialize`, which makes several storage calls, has one action per point at
which it can end. A storage call ends with "ok", with an error and no effect
(`set_lost`), with an error although it took effect (`set_applied`), or cannot
be read (`get`). `Restart` may happen between any two steps; stopping inside an
operation is `set_applied` followed by `Restart`, as nothing but the write
survives. Requests that fail a check leave at most a filled cache, which is
`ConsensusState`. `sign_commit_vote` reads and writes none of this state.

`initialize` may be called at any time in `Spec`. The node calls it when an epoch
starts, where an error is only logged, and in `MetricsSafetyRules::retry` when a
request fails with NotInitialized or IncorrectEpoch. `retries` is the state in which
the requests of the latest epoch fail so, `Reinitialize` the retry that succeeds.

`can_read` is worth a remark: with `enable_cached_safety_data = false` the code
asks the storage for a value of another type than the one it stored, and every
read fails. The run keeps the default, a cache.

`HonestSigner` is what all this promises: one copy of the safety data, advanced
in the step that releases a signature, no cache, keys, failures or restarts.
`SafetyRules!ImplementsHonestSigner` maps its `safety_data` to the `store` and
the released signatures to themselves. A write that took effect although the
call failed is a step that advances the data and releases nothing; a restart, a
failed read and a filled cache are stutters. Within one epoch `HonestSigner` is
the honest validator of `TwoChain`, so the two models meet there.

### SignatureAggregator, PendingVotes and PendingOrderVotes

`SignatureAggregator` of `ledger_info.rs`: signatures are "valid" or "invalid" and
only looked at when a quorum is aggregated; authors of invalid ones are verified
one by one from then on (`pessimistic_verify_set`, which is in the verifier and
shared by all collectors of the epoch). Invalid signatures of two or more
colluding authors may cancel out, so that an aggregate of them verifies
(`MayVerify`).

`PendingVotes`: `pending_votes.rs` and the partial signatures of
`timeout_2chain.rs`, the collector of one round. Timeouts are verified before they get here. `insert_vote` is four actions, one
per way through it: refused, certificate already there, no quorum, quorum.
Authors outside the validator set are rejected when a message is verified and
do not appear. The aggregation of timeout reasons is left out.

`PendingOrderVotes`: `pending_order_votes.rs`, `process_order_vote_msg` and
`new_ordered_cert` of `round_manager.rs`. Votes of several rounds are collected by
ledger info. The QC of a vote is verified only if it is the first for its ledger
info, the round must be in the window above the highest ordered round, and the
start of a round (`VotesAfter`) forgets what is ordered. A certificate whose block
is missing, or whose QC cannot be saved, stays with the votes (`KeepBack`), and
later votes for it return early: only a SyncInfo brings it in. The block store is
seen through its blocks, QCs and highest ordered round, which proposals, QCs, TCs
and syncs move meanwhile. The module has no restart: the collector is empty
afterwards, and what the block store recovers is the business of `BlockStore`.

### RoundState

`liveness/round_state.rs`, the handlers of `round_manager.rs` that drive it, the
timer task (`util/time_service.rs`), `EpochManager::process_local_timeout` and
the bounded queue to the round manager (`crates/channel`). The round manager's
handlers are atomic, as it is one task; the timer, the epoch manager and the
round manager interleave, so an event can be under way while its round ends.
The block store is seen through its highest certificates (`sync_info`), which
only grow. Whether timeouts are messages or votes (`enable_round_timeout_msg`)
is chosen at the start and never changes, so that one run covers both. Setting the timer again aborts the task of the previous one;
durations are abstracted to the back-off index they are computed from. The
timer of a round manager that was shut down is not modelled (one epoch).

### BlockStore

`block_tree.rs`, `block_store.rs`, `sync_manager.rs`,
`persistent_liveness_storage.rs`, `recovery_manager.rs`, and of the pipeline
(`pipeline_builder.rs`, `pipelined_block.rs`, `state_computer.rs`,
`buffer_manager.rs`) the parts that touch the tree or a database: one validator,
one epoch. The network's blocks and certificates are constants, assumed to
satisfy what `TwoChainProofs` establishes (`NetworkAssumption`).

- The tree is a record with the code's fields (`id_to_block` with children,
  `qcs`, the three roots, the highest certificates, the pruned blocks still in
  memory). `db` is ConsensusDB, `ledger` and `pre_committed` are AptosDB.
- A handler of the round manager (`ProcessProposal`, `NewQC`, `NewOrderedCert`,
  `NewTC`, `SyncUp`) puts its steps into `todo`. Each step is one lock of the
  tree, one database write or one await, and everything else may happen in
  between. An error drops the rest of the handler, as `?` does. A loop over
  blocks or certificates is a step that puts the next round of it in front of
  what is left (`Fetch` for `fetch_quorum_cert`, `TrySendNext` for
  `try_send_for_execution`).
- A block that was ordered has a pipeline: `PreCommit`, `CommitProof`,
  `CommitLedger`, `PostCommit`. The callback of `PostCommit` moves the commit
  root, prunes the tree and the database: `find_blocks_to_prune` follows the
  children from the window root and stops only where it meets the next root, and
  what it collects is a hash set, so the blocks are queued for removal in any
  order in which parents come before their children. `AbortPipelines` takes the futures of
  the blocks of the tree, as a fast-forward sync does; a callback already
  spawned survives it (`late`, `LatePostCommit`).
- A fast-forward sync fetches a range, saves it, aborts the pipelines, waits for
  state sync (which may refuse an old target or fail) and rebuilds the tree from
  `find_root` over the database, which also chooses the certificate of the root
  (`RootCert`). If there is no root the code panics.
- `Restart` may happen at any point and recovers from the two databases;
  `RestartToRecover` is the start without a root, where the recovery manager's
  `sync_up` (`RecoverySyncUp`, `ExitRecovered`) fetches what is needed and ends
  the process to be started again.
- A handler's write to ConsensusDB (`SaveBlock`, `SaveQC`, `SaveRange`, `AddTC`) may
  fail, which ends the handler; the deletion of pruned blocks may fail, which is
  only logged.
- A failed assertion or `expect` sets `process` to its name. Among them are the two of
  `find_window_root`, at which a commit callback panics if its block is not in the
  tree or is below the commit root (`FindsWindowRoot`).

Abstractions: rebuilding the tree inserts the recovered blocks one by one in the
code and is one step here, since no other task is given the tree in the
meantime except late callbacks, which take the same lock; the check for a
paused pre-commit and the pre-commit are one step; `window_size` is `None` (the
default); the buffer of pending blocks may or may not have a block that is
looked for; the stages before pre-commit (randomness, execution, signing) only
delay a block.

### BlockSTM

`aptos-move/block-executor/src/scheduler.rs` (the first-version scheduler, with
every method), the worker loop and commit hook of `executor.rs`,
`scheduler_wrapper.rs`, `txn_last_input_output.rs`, `captured_reads.rs` and the
versioned data of `aptos-move/mvhashmap`. A worker is a thread with a program
counter; a step is one atomic access or one critical section that takes no other
lock inside. The two locks that are held over other shared accesses are
variables: `vlock` (validation status) and `dlock` (dependencies). One step has
several accesses: `NextTask` loads the done marker, the two indices and
`never_executed` (`scheduler.rs:480-491`) at once. They only choose what to try; the
compare-exchange with the wave, the increment and the status lock that follow are
steps of their own and decide.

- `txn_status`, `validation_status`, `commit_state`, `execution_idx`,
  `validation_idx`, `done_marker`, `has_halted`, `queueing_commits`,
  `commit_queue` are the scheduler's fields; `data` and `modules` the
  multi-version data and the module cache; `last_input_output` and
  `final_results` what the executor records.
- `NextTask`, `ClaimValidation`, `StartValidation`, `ClaimExecution`,
  `TryIncarnate` are `next_task`; `Read`, `WaitForDependency`, `Suspend`, `Awake`
  an execution that meets an estimate; `Write`, `Record`, `FinishExecution` to
  `DecreaseValidationIdx` the end of an execution; `Validate`, `TryAbort`,
  `MarkEstimate`, `FinishAbort` a validation; `LockCommits` to `AddToCommitQueue`
  the coordinated commits; `HaltStart`, `HaltTxn` `halt`; `DrainCommitQueue`
  materialization; `FinalizeBlock` the end, with the block epilogue.
- The block is one of `Blocks`, chosen in `Init`; the VM is the constant
  `Output`, a function of the values read, along a fixed sequence of keys. A key
  that a transaction has not written holds `NoEntry`.

Assumed: sequentially consistent memory (the code updates the indices and
markers with `SeqCst`, loads them with `Acquire`, and uses locks for the rest), no
spurious failure of the weak compare-exchange of `ArmedLock` (the worker would try
again in the next round of its loop), no panic of the VM. The transactions' write sets depend on
what they read, so an incarnation may write keys that the one before did not.

## 4. What the runs check

| run | bounds | distinct states |
|---|---|---|
| `two_chain_chain` | 4 validators, equal stake, 1 Byzantine; blocks of rounds 1 and 2 in a chain, a fork in round 3 | 188,544 |
| `two_chain_fork` | 4 validators, stake 3/1/1 and 2 Byzantine; two competing blocks in each of rounds 1 and 2, one block that is not well formed | 94,446 |
| `safety_rules` | 2 epochs with a key rotation, rounds up to 2, competing proposals, every storage failure, restarts | 107,040 |
| `pending_votes` | 5 validators, stake 3/1/1/1/1, Byzantine power 2 of 7; two ledger infos; order votes of two rounds and for a block that is not certified, a window of 3 rounds | 209,533 |
| `pending_votes_resigned` | 4 validators, timeouts with two QC rounds: violated | - |
| `round_state` | rounds up to 3, a queue of two events, timeouts as messages and on votes | 154,060 |
| `block_store` | order votes; a chain of rounds 1, 2, 3, 5; no pruned block kept in memory; a commit gap of 1 starts a state sync, which may fail; writes may fail; crashes | 350,275 |
| `block_store_qc` | order votes disabled; a proposal on a dead fork and a commit proof on a fork; one pruned block kept; state syncs and writes may fail; crashes | 147,144 |
| `block_store_live` | rounds 1 to 3, order votes, a commit gap of 1; state syncs and writes may fail; no crash, fairness | 73,503 |
| `block_store_callback` | as `block_store`, a block committed before a state sync: violated | - |
| `block_stm` | 2 workers, 3 transactions: conflicting ones, a published module, a block that is cut | 825,067 |
| `block_stm_epilogue` | a cut block whose epilogue writes what the replaced transaction wrote: violated | - |

What they show. `two_chain_*`: no two ordered blocks conflict, every certified
block extends the ordered ones before it, a timeout can always be signed, and the
invariant of the proofs holds in every reachable state.
`safety_rules`: the invariant of the proofs holds, in particular what was
released is covered by what is stored, whatever the storage did; every step is
one of the honest signer, and a validator that lost its signer gets it back, unless
it keeps that of an earlier epoch for ever (see the divergences below).
`pending_votes`: certificates verify, honest quorums always
certify, nobody counts twice, and the echo is sent exactly from f+1; order votes
of an honest quorum order the block, and nobody can make the collector keep votes
for more than one block of a round. The two collectors share only the authors
caught before, so a behaviour follows one of them (`MCSpec`), from any such set.
`round_state`: no interleaving loses the timer of the current round.
`block_store`: pruning, syncs and crashes never make an assertion of the tree
fail, never lose a certificate and never move the ledger off its branch, the root
that recovery needs is always in the database, and a sync that ends without error
has reached the peer. `block_store_qc`: after a sync that reached its
target recovery finds its root.
`block_store_live`: what is ordered is committed, but for what a state sync takes
back in one of two ways (see the divergences below). `block_stm`: what is committed
is what sequential execution gives, no invariant error of the code is reachable,
no suspended transaction is forgotten, and every block ends.

Why the bounds are enough to be interesting. A conflict between ordered blocks
needs a block that is ordered, a timeout certificate that does not know of it
and a later block that leaves it behind: three rounds (`chain`), or two with
order votes (`fork`). The window of order votes is 100 rounds in the code; with 3,
votes of both rounds are collected at once, which is what the properties are
about, while a round above the window does not occur in this instance. A second
vote in a round needs two competing blocks, a failed write and a restart. The echo and quorum thresholds differ from counting
heads only with unequal stake. A lost timer needs an old event in front of a
new one in a queue that is full. A tree can only go wrong with something to
prune, something to keep, a sync that jumps over a committed block, and a gap in
the rounds, which keeps a parent from being ordered by its child's QC. Three
transactions are the least with a read of a value written twice below it and a validation wave
that overtakes a commit; two workers are what the code itself uses for blocks of
up to five transactions, and each of them can be at any point while the other
runs. Each property is shown to be able to fail: a
plausible slip in the code (the operators commented "Mutant") violates it under
the same bounds.

Deadlock is not checked for `TwoChain` (the rounds are bounded, everything
possible may have been signed) and `PendingVotes` (a timeout certificate ends
the round), nor for `block_store_live`, whose specification has no restart, so that a
node that panicked stays stopped. `SafetyRules`, `RoundState` and otherwise
`BlockStore` can always do something (a node that stopped is restarted), and `BlockSTM` stutters once the block is
finished, so that a deadlock of the workers would be reported.

Fairness. `RoundState`: the round manager is started, a timer that is set runs
out, and the epoch manager and the round manager take events from their queues;
each is a task that the runtime schedules and that waits for nothing else.
Nothing is assumed of certificates or messages. `SafetyRules!FairSpec`: weak fairness
of `Reinitialize`, which is enabled only while requests fail with NotInitialized or
IncorrectEpoch. Requests keep coming, as local timeouts recur; each that fails so is
retried after `perform_initialize`, with the proof up to the latest epoch; and a
storage does not fail for ever. Nothing initialises a service whose requests do not
fail. `BlockStore!LiveSpec`: tokio polls every task that is ready, so the round
manager's handler and each pipeline go on; commit proofs come because validators vote
for what is ordered. State syncs and writes may fail every time; nothing is assumed of
proposals and messages, and crashes are excluded (they are in `Spec`).
`BlockSTM!FairSpec`: the operating system runs every worker thread that is not
blocked; a worker in a loop that waits for another one is always preempted for it.

### Findings

- `pending_votes_resigned`: a timeout signed again in the same round with a
  higher QC replaces the QC that the certificate will carry, but not the round
  kept with that author's signature. If nobody else signed the higher round,
  the certificate is handed on and fails `TwoChainTimeoutCertificate::verify` at
  every peer. A validator may sign again after a restart, since `timeout_sent`
  is only in memory.
- `block_store_callback`: a fast-forward sync waits for the futures of the old
  tree that write to the ledger, but not for the commit callback. The callback of
  a block committed just before the sync may run after the tree was rebuilt; it
  then looks up a block the new tree does not have, and `find_window_root` panics
  ("Block not found"). If the new tree holds the block below its commit root, the
  same function panics at "Ordered block window not found". Nothing is pruned in
  either case; only a block that is the root of the new tree is found, and then there
  is nothing to prune.
- `block_stm_epilogue`: when a block is cut, the epilogue is executed at the next
  index as incarnation 1, whatever incarnation had been executed there. If that
  one was 1 or later and wrote a key of the epilogue, the multi-version data
  refuses the write and the parallel execution of the block is thrown away.

Other disagreements between code and comments met while modelling, each of little
or no consequence and without a run of its own:

- `persistent_safety_storage.rs:137`: with the cache disabled the safety data is
  read with a type other than the one it was written with; such a validator never
  signs.
- `initialize` of `safety_rules.rs`: if a failed write was applied, or the author
  entry cannot be read, the signer and verifier of the previous epoch stay in
  place while the store is in the new one, and requests of the new epoch are
  answered with the old key. They fail with none of the errors that `retry` acts on,
  so nobody initialises again before a restart or the next epoch. This is the
  exception `StaleSigner` of `SignerComesBack`; without it TLC finds the violation.
- `sync_manager.rs:385`: the `defer!` that resumes pre-commit is inside the
  `if let` block and runs at the end of it, before the sync starts; the comment at
  lines 144-147 says "it'll resume after state sync is done".
- `state_computer.rs:232`: the logical time is advanced after a sync that failed,
  so a retry of the same target is answered as done (line 198) with the ledger
  where it was. No sync has saved the block there, and if its QC is not in the
  database `storage.start()` finds no root and the process panics ("Failed to
  construct recovery data after fast forward sync"). The recovery manager comes
  there without a failure of state sync, by a SyncInfo whose TC is above the ledger
  and whose commit is below it, received twice. `RecoversAfterSync` is therefore
  about the syncs that reached their target.
- `execution_client.rs:703`: "TODO: handle the state sync error (e.g., re-push the
  ordered blocks to the buffer manager when it's reset but sync fails)". A sync that
  fails after the reset leaves the ordered blocks with aborted pipelines. As its
  retries count as done, a repeated SyncInfo may also abort the pipelines of the tree
  it has just rebuilt before they have committed. Both are `GivenUpBySync`, an
  exception of `OrderedIsCommitted`.
- `block_store.rs:273`: order votes are not stored, so when a sync with a small gap
  rebuilds the tree, a block that only order votes had ordered is no longer ordered
  until the next ordering certificate. This is `OrderForgotten`, the other exception.
- `sync_manager.rs:253`: without order votes the node's own ordered certificate
  is inserted again, not the block that the comment at 249-252 speaks of. So
  without order votes `SyncReachesPeer` does not hold (on the instance of
  `block_store_qc` TLC finds a SyncInfo dealt with and its ordered block not
  ordered), and `SyncCatchesUp` is a theorem about order votes.
- `sync_manager.rs:617`: a crash inside the saving of a range leaves a block
  without its QC (see 371); recovery tolerates it.
- `block_store.rs:531`: a block whose parent was pruned meanwhile stays in the
  tree's map below no root (`block_tree.rs:396-403`) until the next rebuild.
- `scheduler.rs:776`: an execution that is halted after its wake-up was handed
  out keeps the flag of `ExecutionHalted` at true, where line 161 says that it is
  set to false for an executing transaction.

## 5. What is proved

`ValidatorVerifierProofs`: `QuorumIntersection` (two quorums share an honest
validator) and `WeakQuorumHasHonest`, from additivity of power and
`FaultAssumption`.

`TwoChainProofs`, for any validators, stake, block tree, rounds and Byzantine
validators within the bound:

- `TypeCorrect`, `InductiveInvariant` (`IInv`);
- `OneCertifiedBlockPerRound`: two quorums of votes share an honest validator,
  which votes once per round (`VotesOncePerRound`);
- `OrderedBlocksAreLocked`: every block certified in the round of an ordered
  block or later extends it. The argument: a later certified block either
  follows its parent's round directly, or a timeout certificate of the round
  before allowed it. The quorum of that certificate shares an honest validator
  with the quorum that ordered the block; it signed a timeout of a round not
  before the block's, and `TimeoutCarriesVotedQC` and
  `TimeoutCarriesOrderVotedQC` say that it then carried a QC not older than the
  block. So the parent is not before the ordered block either, and the claim
  follows by descending the rounds;
- `AgreementHolds`, from the two above;
- `NoHonestLockout`: `one_chain_round` is always the round of an existing QC
  (`OneChainCoversQCs`) and nobody signs ahead of the certificates
  (`RoundsFollowCertificates`);
- `SafetyDataMonotone`, an action property.

`Agreement` alone is not inductive: it speaks of certificates only, while a step
depends on what each validator has persisted. `IInv` relates the two: the
persisted rounds cover every signature released, and signatures of one
validator relate to each other as the rules intend. The descent over rounds uses
well-founded sets of naturals (a least counterexample), not an induction
theorem with an operator parameter.

`SafetyRulesProofs`, for any proposals, any number of epochs and rounds, and any
of the storage's failures at any call:

- `StorageCorrect`: whatever a write did, the cache is empty or equal to what is
  persisted (`CacheCoherent`). Decisions are made on the cache, so nothing else
  can be shown without it;
- `RefinesHonestSigner`: `Init` maps to `Init`, and under `CacheCoherent` every
  action maps to a step of `HonestSigner` or a stutter. This is the safety part of
  the refinement that the run `safety_rules` checks; `HonestSigner` has no fairness;
- `NeverEquivocates`, `TimeoutsCarryWhatWasVoted`, `PersistedBeforeReleased`: the
  rest of `IInv` speaks of persisted and released data only, so it is enough that
  the steps of `HonestSigner` preserve it. `OneVotePerRound` is inductive
  only with `LastVoteIsLatest`, as the code answers a repeated proposal with the
  last vote it kept, and `TimeoutsCarryQCs` only with `StoreCoversReleased`.

`RoundStateProofs`, for any number of rounds and any queue size of at least one:
`RoundIsDriven`, `NothingLeftOver`, `TimerKeepsRunning`, `BackoffIsIndex`. The timer
is the hard one: `TimerNeverLost` is preserved when the bounded queue drops its
oldest event only because events reach it in the order of their rounds
(`EventsInOrder`), so what is dropped in favour of a newer event is never the
last one of the current round.

`PendingVotesProofs`, for any validators and stake within `FaultAssumption`, any
ledger infos, any window and any order of messages. First `AggregationIsSound`, what
one aggregation does for any mix of valid and invalid signatures, including invalid
ones that cancel out: a certificate has a quorum behind it, no valid signature is
dropped, no valid author is blamed. Both collectors use it, that of votes and
timeouts (`CertificatesVerify`, `InvalidVotesDoNotBlock`, `PowerCountsOnce`,
`EchoIsJustified`, `EchoIsGiven`, `NoTimeoutIsLost`) and that of order votes
(`OrderCertificatesVerify`, `MemoryIsBounded`, `QuorumIsNotLost`). What is strengthened:
`HonestQuorumCertifies` says what is true once a quorum has voted; its invariant
`VotesStillCollected` says where each honest vote is before that, and that the
valid signatures collected without a certificate are no quorum.
`OrderVotesStillCollected` does the same across garbage collection, catch-ups and
certificates that are kept back. `SignaturesAreRecorded` ties the signatures per
ledger info to the one vote kept per author, from which `EachAuthorCountsOnce`
follows. The assumptions on the constants are that power is additive and that of
nobody is 0, that there are validators, and for order votes that the certified
blocks of one round are one (`OneCertifiedBlockPerRound` of `TwoChainProofs`).

`BlockStoreProofs`, for any block tree, messages, interleaving with the pipelines,
state syncs and crashes, and any limits. `NetworkAssumption` is what
`TwoChainProofs` establishes of certificates, with the rounds that `SyncInfo::verify`
checks and, without order votes, that a commit certificate is a QC and the block it
commits the one that a quorum signs as its commit info. All ordered blocks and their
ancestors form one branch (`Chain`), on which the order of the rounds is that of
descent (`ChainIsBranch`). On it rests `IInv`:

- what is ordered, pre-committed, committed or called back is on `Chain` and not
  above the ordered root (`ProofsOnChain`), and the ledger is written in order
  (`WrittenAhead`);
- the pipelines are complete from the ledger to the ordered root (`PipelinesRun`),
  or a state sync has aborted all that could still write (`PipelinesAborted`), and
  state sync is only called in the second case (`HandlerInStep`). Which step of a
  handler may follow which is part of the invariant (`Handler`, `Follows`), since
  everything else runs between two of them;
- the tree has no gaps, its children are right (`TreeLinked`), its roots are in it
  (`RootsInTree`), a block is inserted once (`InsertsNewBlock`), and blocks leave
  memory after their ancestors whatever order the hash set gave them
  (`PrunedInOrder`), so that no gap ever opens.

From it: `LedgerMovesAlongOneBranch` (the ledger's round never falls and it stays
on `Chain`), `RootsStayOnOneBranch`, and `PathsAndChildrenAreFound` (the two
assertions that look for a path and for children never fail, late callbacks or
not).

The next four hold with commit callbacks that outlive the tree of their block, too.
The round of such a callback's block is not above that of any block in the new tree
(a conjunct of `IInv`). So `find_window_root` panics, or the block is the window root
itself (`LateIsWindowRoot`), and the callback prunes nothing.

- `NoAssertionFails`: callbacks of one tree run in order, so what is pruned is
  strictly below the new window root (`PrunedIsBehind`);
- `LedgerBlockIsStored`, `SyncedLedgerIsRecoverable` and `CertificatesSurvive`, from
  `StoredInv`: a step that relies on a write finds it made, or the ledger is past
  what it was made for (`WriteMade`; for a state sync the range that was saved, from
  its saving to the rebuild); the subtree of the window root is in the database (`TreeStored`);
  the highest certificate and the path to it from the ledger can be recovered
  (`HighestStored`); the recovery manager does nothing but synchronise
  (`RecoverySteps`). Pruning deletes no block that extends the one called back,
  and every certified block above that one does extend it, since it is ordered.

`SyncCatchesUp`, with order votes: before the step that
adds the TC of a SyncInfo comes the one that orders its certificate, or that
certificate's block is ordered (`ReachInv`), through every way in which a handler
can be lengthened or cut short.

`BlockSTMSchedulerProofs` and `BlockSTMProofs`, for any number of workers above one,
any number of transactions, any block and any interleaving of the atomic accesses.
Assumed of the constants (`BlockAssumption`, `ReadKeysAssumption`): the block is not
empty, the keys of the modules and of the epilogue are keys, a transaction that reads
a key again is answered from its captured reads, and, by the form of `Output`, a
transaction's output is a function of the values it read. The theorems:

- `CommitsSequentially`: what is committed is what sequential execution gives, in
  the recorded outputs, the multi-version data and the module cache;
- `NeverInvariantError`: no code invariant error, in particular the validation
  before a transaction is materialized never fails;
- `NoneForgotten`: no wakeup of a suspended transaction is lost;
- `FinalizesTheBlock`: a block that is cut, or not, leaves the queue, the results
  and the place of the epilogue as `finalize_parallel_execution` expects them.

They follow from one invariant, `Inv`, in two layers. `SchedulerInv` says who does
what. Each lock is held by the worker that is between its acquisition and its release
(`LocksOK`); halting goes through the transactions once and only in a block that is
cut (`HaltOK`); nobody executes or aborts what is committed (`CommitsOK`); a status
says which worker is busy with the transaction and the worker's step says which
status that is (`StatusOK`, `ExecutionOK`); a wakeup in flight finds its execution
waiting, or halted (`WakeupsOK`); a suspended transaction is on exactly one list,
and a list that is not empty has someone who will take it (`DependenciesOK`); a
validation counts for a commit only if the validation index has passed the
transaction in its wave (`WavesOK`).

`DataInv` says what is read and written. Outside of an execution that writes, the
entries of a transaction are its last recorded output, estimates or final as its
status says (`OutputsOK`, `WritesOK`, `IncarnationsOK`); a version determines the
value that was read under it (`VersionsOK`); and `ValidationsOK`, the heart of the
argument. `Vouches(t, u, k, read)` says: if a validation of `t` in wave `u` counts
for a commit now, and no worker below `t` disturbs it, then the read is what a read
would return now. A worker disturbs the transactions above from the moment at which
it may change what they have read (the first write of an execution that will ask for
a new wave, the first estimate of an abort, the publication of a module) until it has
triggered that wave, after which the old one does not count. So a step that changes
what a read returns makes one of the two premises false, and keeps it so
(`DisturbsStays`, `FetchStays`). The vouching holds for validations in progress and
for the recorded ones, and for one that is overtaken by an abort it is a promise on
the reads of the next incarnation (`Promise`): the code records the wave of such a
validation all the same, and `try_commit` will count it for the new incarnation.
When `try_commit` commits, both premises hold for its transaction, all below it are
committed and settled (`SettledFrame`), and its output is the sequential one
(`CommitState`).

The steps are many, so most proofs do not go through `Next`: a lemma per action gives
its effect on its worker, and `Changes`, `Roles` and `Phases` name the actions that
can change a variable or what a worker is doing. `SequentialState` is a recursive
function. That it satisfies its equation is shown by the least length for which no
such function exists (`SequentialExists`). TLC has checked `Inv` on the instance of
`block_stm` before it was proved.

Four techniques replace the induction theorems that the provers cannot
instantiate: what `Ancestors` (a recursive function) computes is shown by taking a
counterexample of least round, that `HighestOf` picks a maximum by a
counterexample of least cardinality, that the list of pruned blocks covers its set
by counting, and that `SequentialState` exists by a least length without it. The inductive invariants of `TwoChain` and `SafetyRules` are
invariants of their runs; those of the other modules hold by the theorems.

Only model-checked: all liveness (`TimeoutsRecur`, `SignerComesBack`,
`OrderedIsCommitted`, `BlockEnds`), which is outside the prover's reach.
`TimeoutCertsVerify`, `CallbackFindsBlock` and `EpilogueNeverRegresses` are violated and
so no theorems.

## 6. What is not modelled

The cryptography, serialisation, networking and the parts that `PROJECT.json`
lists as not modelled. Most of the repository is such: the Move language and VM,
AptosDB, the API, the indexers, the command-line tools and generated code have
their own correctness arguments, and modelling them would say nothing about how a
validator orders, executes and commits blocks.

Within the modelled files: error values and the order of checks that decides
which error a caller sees, logging and metrics, the aggregation of timeout
reasons, timer durations, and the data a block carries. In the block store: the
execution-pool window, the contents of the buffer of pending blocks, the serving
of blocks to peers, and the stages of a pipeline before pre-commit. In the block
executor: delayed fields, resource groups, pre-writes, reads of the epilogue, the
limit on incarnations, sequential fallback and the second-version scheduler.
