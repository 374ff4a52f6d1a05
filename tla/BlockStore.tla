----------------------------- MODULE BlockStore -----------------------------
(***************************************************************************)
(* One validator's block tree between the certificates that arrive, the    *)
(* execution pipeline that commits what is ordered, the two databases, and *)
(* the state sync that replaces the tree.  The blocks and the certificates *)
(* of the network are constants that obey what module TwoChain proves.     *)
(*                                                                         *)
(* The round manager is one task: it runs a handler as a list of steps     *)
(* (todo), each of them one lock of the tree, one write of the database or *)
(* one await.  Pipeline tasks, a crash and a restart come in between.      *)
(***************************************************************************)
EXTENDS Integers, FiniteSets, Sequences, SequencesExt

CONSTANTS
    Blocks, Genesis,
    Parent, RoundOf,          \* functions of the blocks
    CertifiedBlocks,          \* blocks that have a QC
    OrderCertified,           \* blocks that have a quorum of order votes
    SyncInfos,                \* what peers send, see SyncInfo below
    TimeoutRounds,            \* rounds a quorum gives up
    order_vote_enabled,
    max_pruned_blocks_in_mem,
    max_commit_gap,           \* max(max_commit_gap, 2 * vote_back_pressure_limit)
    MAX_PRECOMMIT_GAP,
    skip_sync_small_gap_rounds,  \* 0 for None
    StateSyncMayFail,
    None

\* The block a QC orders: the parent of the block it certifies, if their
\* rounds are consecutive; none otherwise.
commit_info ==
    [b \in Blocks |->
        IF b = Genesis THEN Genesis
        ELSE IF RoundOf[b] = RoundOf[Parent[b]] + 1 /\ RoundOf[Parent[b]] > 0
             THEN Parent[b] ELSE None]

\* The round of a commit_info (BlockInfo::empty() has round 0).
RoundOfInfo(b) == IF b = None THEN 0 ELSE RoundOf[b]

\* A block and its ancestors.
Ancestors[b \in Blocks] ==
    IF b = Genesis THEN {Genesis} ELSE {b} \cup Ancestors[Parent[b]]

\* A certificate for a block to be ordered or committed: a QC, with the block
\* it certifies, or the votes for the block itself.
Cert == [block : Blocks, certified : Blocks \cup {None}]

SyncInfo == [hqc : CertifiedBlocks \cup {Genesis}, hoc : Cert, hcc : Cert, tc : Nat]

ASSUME BlockStoreAssumption ==
    /\ Genesis \in Blocks /\ None \notin Blocks /\ IsFiniteSet(Blocks)
    /\ RoundOf \in [Blocks -> Nat] /\ RoundOf[Genesis] = 0
    /\ \A b \in Blocks \ {Genesis} : Parent[b] \in Blocks /\ RoundOf[Parent[b]] < RoundOf[b]
    /\ CertifiedBlocks \subseteq Blocks
    /\ \A b \in Blocks \ {Genesis} : Parent[b] \in CertifiedBlocks \cup {Genesis}
    /\ OrderCertified \subseteq CertifiedBlocks
    /\ SyncInfos \subseteq SyncInfo /\ TimeoutRounds \subseteq Nat
    /\ order_vote_enabled \in BOOLEAN /\ StateSyncMayFail \in BOOLEAN
    /\ {max_pruned_blocks_in_mem, max_commit_gap, MAX_PRECOMMIT_GAP,
        skip_sync_small_gap_rounds} \subseteq Nat

\* The blocks the network orders.
Ordered == (OrderCertified \cup {commit_info[b] : b \in CertifiedBlocks}) \ {None}

\* What module TwoChain proves of them: UniqueCertifiedBlock and
\* CertifiedExtendsOrdered; and of a SyncInfo what SyncInfo::verify checks of its
\* rounds and what a quorum signs as the commit info of a QC.
ASSUME NetworkAssumption ==
    /\ \A b, c \in CertifiedBlocks : RoundOf[b] = RoundOf[c] => b = c
    /\ \A b \in Ordered, c \in CertifiedBlocks :
          RoundOf[c] >= RoundOf[b] => b \in Ancestors[c]
    /\ \A si \in SyncInfos :
          /\ RoundOf[si.hqc] >= RoundOf[si.hoc.block]
          /\ RoundOf[si.hoc.block] >= RoundOf[si.hcc.block]
          /\ {si.hoc.block, si.hcc.block} \subseteq Ordered \cup {Genesis}
          /\ ~order_vote_enabled =>
                /\ si.hcc.certified \in CertifiedBlocks \cup {Genesis}
                /\ commit_info[si.hcc.certified] = si.hcc.block

VARIABLES
    tree,          \* the BlockTree
    db,            \* ConsensusDB: blocks, QCs, the highest TC
    ledger,        \* AptosDB: the block of the latest ledger info,
    pre_committed, \*   and the last block written ahead of it
    stage,         \* how far the pipeline of a block is
    aborted,       \* blocks whose pipeline futures were taken
    order_proof,   \* the last block of the batch a block was ordered in
    commit_proof,  \* the block whose commit proof the pipeline was given
    late,          \* commit callbacks of blocks of a tree that was replaced
    pre_commit_status,
    latest_logical_time,  \* ExecutionProxy: the last round state sync was asked for, or -1
    todo,          \* what is left of the round manager's handler
    process        \* running, recovering, stopped, or the assertion that failed

pipeline == <<stage, aborted, order_proof, commit_proof, late>>
storage == <<db, ledger, pre_committed>>
vars == <<tree, storage, pipeline, pre_commit_status, latest_logical_time, todo, process>>

-----------------------------------------------------------------------------
(* The tree.                                                               *)

HighestOf(S) == CHOOSE b \in S : \A c \in S : RoundOf[c] <= RoundOf[b]
LowestOf(S) == CHOOSE b \in S : \A c \in S : RoundOf[b] <= RoundOf[c]

\* BlockTree::new, then every recovered block and QC inserted.
BuildTree(root_cert, blocks, qcs, tc) ==
    LET root == root_cert.block
        in_tree == {root} \cup blocks
        certs == {root} \cup qcs
        best == HighestOf(({root} \cup {commit_info[b] : b \in qcs}) \ {None})
    IN  [id_to_block |-> in_tree,
         children |-> [b \in in_tree |-> {c \in blocks : Parent[c] = b}],
         qcs |-> certs,
         ordered_root |-> root, commit_root |-> root, window_root |-> root,
         highest_certified |-> HighestOf(certs),
         highest_ordered_cert |->
            IF best = root THEN root_cert
            ELSE [block |-> best, certified |-> CHOOSE b \in qcs : commit_info[b] = best],
         highest_commit_cert |-> root,
         highest_tc |-> tc,
         pruned |-> <<>>]

\* BlockTree::insert_block, for a block with its parent in the tree.
insert_block(b) ==
    [tree EXCEPT
        !.id_to_block = @ \cup {b},
        !.children = [c \in DOMAIN @ \cup {b} |->
                        IF c = b THEN {} ELSE IF c = Parent[b] THEN @[c] \cup {b} ELSE @[c]]]

\* BlockTree::insert_quorum_cert, for a QC of a block in the tree.
insert_quorum_cert(b) ==
    [tree EXCEPT
        !.highest_certified = IF RoundOf[b] > RoundOf[@] THEN b ELSE @,
        !.qcs = @ \cup {b},
        !.highest_ordered_cert =
            IF RoundOf[@.block] < RoundOfInfo(commit_info[b])
            THEN [block |-> commit_info[b], certified |-> b] ELSE @]

\* path_from_ordered_root: the blocks above the ordered root up to b.
PathFromOrderedRoot(b) ==
    {c \in Ancestors[b] : RoundOf[c] > RoundOf[tree.ordered_root]}

\* ... which is defined if they are in the tree, on top of the ordered root.
HasPathFromOrderedRoot(b) ==
    /\ PathFromOrderedRoot(b) \subseteq tree.id_to_block
    /\ tree.ordered_root \in Ancestors[b]

\* Mutant: the new root is pruned too.
BlocksBelowAndRoot(b) ==
    {c \in tree.id_to_block : /\ tree.window_root \in Ancestors[c]
                              /\ b \notin Ancestors[c] \/ b = c}

\* Mutant: the way goes on past the new root.
BlocksBelowAndAbove(b) ==
    {c \in tree.id_to_block : tree.window_root \in Ancestors[c] /\ c # b}

\* The blocks that find_blocks_to_prune meets on its way from the window root
\* over the children: it stops at the next root, if that is on the way.
BlocksBelow(b) ==
    {c \in tree.id_to_block : /\ tree.window_root \in Ancestors[c]
                              /\ b \notin Ancestors[c] \ Ancestors[tree.window_root]}

\* find_blocks_to_prune, in any order (it depends on a hash set) in which
\* parents come before their children.
find_blocks_to_prune(b) ==
    LET below == IF b = tree.window_root THEN {} ELSE BlocksBelow(b)
    IN  {ids \in [1 .. Cardinality(below) -> below] :
            \A i, j \in DOMAIN ids : i < j => ids[j] \notin Ancestors[ids[i]]}

\* "Child must exist in the tree"
ChildrenExist(b) ==
    b # tree.window_root =>
        \A c \in BlocksBelow(b) : tree.children[c] \ {b} \subseteq tree.id_to_block

Monus(a, b) == IF a > b THEN a - b ELSE 0

\* process_pruned_blocks: the oldest of the pruned blocks beyond the limit are
\* removed from memory.
NumBlocksToRemove(pruned) == Monus(Len(pruned), max_pruned_blocks_in_mem)

-----------------------------------------------------------------------------
(* Recovery.                                                               *)

\* What ConsensusDB holds, with the virtual genesis block of the epoch.
StoredBlocks == db.blocks \cup (IF ledger = Genesis THEN {Genesis} ELSE {})
StoredQCs == db.qcs \cup (IF ledger = Genesis THEN {Genesis} ELSE {})

\* LedgerRecoveryData::find_root finds a root.
CanFindRoot ==
    /\ ledger \in StoredBlocks
    /\ ledger \in StoredQCs
    /\ order_vote_enabled \/ \E b \in StoredQCs : commit_info[b] = ledger

\* The certificate it finds for it: with order votes the ledger info itself.
RootCert ==
    [block |-> ledger,
     certified |-> IF order_vote_enabled THEN None
                   ELSE CHOOSE b \in StoredQCs : commit_info[b] = ledger]

\* RecoveryData: the stored blocks that hang on the root, and their QCs.
Connected == {b \in db.blocks : ledger \in Ancestors[b] /\ b # ledger
                                  /\ {c \in Ancestors[b] : RoundOf[c] > RoundOf[ledger]}
                                         \subseteq db.blocks}
RecoveredQCs == StoredQCs \cap (Connected \cup {ledger})

\* StorageWriteProxy::start removes the others.
RecoveredDB == [db EXCEPT !.blocks = (Connected \cup {ledger}) \ {Genesis},
                          !.qcs = RecoveredQCs \ {Genesis}]

\* try_send_for_execution: QCs that order a block, the lowest first.
TrySendForExecution(qcs) ==
    IF qcs = {} THEN <<>>
    ELSE LET b == LowestOf(qcs)
         IN  <<<<"try_send", [block |-> commit_info[b], certified |-> b]>>,
               <<"try_sends", qcs \ {b}>>>>

\* ... of the recovered ones those that order a block above the commit root.
TrySends ==
    TrySendForExecution({b \in RecoveredQCs : RoundOfInfo(commit_info[b]) > RoundOf[ledger]})

\* BlockStore::build and the pipelines of the new tree.
Build(tc) ==
    /\ tree' = BuildTree(RootCert, Connected, RecoveredQCs, tc)
    /\ db' = RecoveredDB
    /\ stage' = [b \in Blocks |-> IF b = ledger THEN "finished"
                                  ELSE IF b \in Connected THEN "live" ELSE "none"]
    /\ aborted' = {}
    /\ order_proof' = [b \in Blocks |-> None]
    /\ commit_proof' = [b \in Blocks |-> None]

Init ==
    /\ tree = BuildTree([block |-> Genesis,
                         certified |-> IF order_vote_enabled THEN None ELSE Genesis], {}, {}, 0)
    /\ db = [blocks |-> {}, qcs |-> {}, tc |-> 0]
    /\ ledger = Genesis
    /\ pre_committed = Genesis
    /\ stage = [b \in Blocks |-> IF b = Genesis THEN "finished" ELSE "none"]
    /\ aborted = {}
    /\ order_proof = [b \in Blocks |-> None]
    /\ commit_proof = [b \in Blocks |-> None]
    /\ late = {}
    /\ pre_commit_status = [round |-> 0, paused |-> FALSE]
    /\ latest_logical_time = -1
    /\ todo = <<>>
    /\ process = "running"

-----------------------------------------------------------------------------
(* The round manager's handlers, as lists of steps.                        *)

Running == process = "running"
Idle == Running /\ todo = <<>>
Doing(step) == process \in {"running", "recovering"} /\ todo # <<>> /\ todo[1][1] = step
Arg == todo[1][2]

Skip(n) == todo' = SubSeq(todo, n + 1, Len(todo))
Continue == Skip(1)
ContinueWith(steps) == todo' = steps \o Tail(todo)
Fail == todo' = <<>>

OnlyTodo ==
    UNCHANGED <<tree, storage, pipeline, pre_commit_status, latest_logical_time, process>>

Panic(reason) ==
    /\ process' = reason
    /\ UNCHANGED <<tree, storage, pipeline, pre_commit_status, latest_logical_time, todo>>

\* Mutant: the tree is updated before the database.
InsertSingleQuorumCertTreeFirst(b) ==
    <<<<"get_qc_block", b>>, <<"tree_qc", b>>, <<"save_qc", b>>>>

\* insert_single_quorum_cert: it looks for the block, writes the database and
\* only then the tree.
InsertSingleQuorumCert(b) == <<<<"get_qc_block", b>>, <<"save_qc", b>>, <<"tree_qc", b>>>>

\* BlockStore::insert_block, likewise.
InsertBlock(b) == <<<<"get_block", b>>, <<"save_block", b>>, <<"tree_block", b>>>>

\* insert_quorum_cert
InsertQuorumCert(b) == <<<<"need_fetch", b>>, <<"commit_qc", b>>>>

\* The ancestors of b, and b, that are not in the tree, up to the first that is.
MissingBlocks(b) ==
    {c \in Ancestors[b] : \A d \in Ancestors[b] \cap tree.id_to_block : RoundOf[d] < RoundOf[c]}

\* fetch_quorum_cert, once the blocks are here: qc <- block pairs, oldest first.
FetchQuorumCert(b, missing) ==
    IF missing = {} THEN InsertSingleQuorumCert(b)
    ELSE LET c == LowestOf(missing)
         IN  InsertSingleQuorumCert(Parent[c]) \o InsertBlock(c)
               \o <<<<"fetch", [qc |-> b, missing |-> missing \ {c}]>>>>

\* Mutant: only the QC is dealt with.
AddCertsQCOnly(si) ==
    <<<<"need_sync", si>>>> \o InsertQuorumCert(si.hqc) \o <<<<"add_tc", si>>>>

\* add_certs
AddCerts(si) ==
    <<<<"need_sync", si>>>>
      \o InsertQuorumCert(si.hqc)
      \o <<IF order_vote_enabled THEN <<"order_cert", si.hoc>> ELSE <<"own_order_cert", si>>>>
      \o <<<<"add_tc", si>>>>

\* Mutant: the blocks are saved after the sync.
FastForwardSyncSavesLast(si) ==
    <<<<"resume", si>>, <<"abort_pipeline", si>>, <<"sync", si>>, <<"save_range", si>>,
      <<"rebuild", si>>>>

\* fast_forward_sync and rebuild.  The guard that resumes pre-commit is
\* dropped before the sync starts, with the block `if let` that created it.
FastForwardSync(si) ==
    <<<<"resume", si>>, <<"save_range", si>>, <<"abort_pipeline", si>>, <<"sync", si>>,
      <<"rebuild", si>>>>

\* RoundState's round, once a handler has ended with process_certificates.
CurrentRound ==
    LET r == RoundOf[tree.highest_certified]
    IN  1 + (IF tree.highest_tc > r THEN tree.highest_tc ELSE r)

\* A proposal whose round it is, after its SyncInfo was dealt with, which holds
\* the QC of the parent; vote_block inserts it.
ProcessProposal(b) ==
    /\ Idle
    /\ RoundOf[b] = CurrentRound
    /\ RoundOf[Parent[b]] <= RoundOf[tree.highest_certified]
    /\ b \notin tree.id_to_block
    /\ todo' = InsertBlock(b)
    /\ OnlyTodo

\* new_qc_aggregated
NewQC(b) ==
    /\ Idle
    /\ b \notin tree.qcs
    /\ todo' = InsertQuorumCert(b)
    /\ OnlyTodo

\* new_ordered_cert, where the QC is one that needs no fetch.
NewOrderedCert(b) ==
    /\ Idle
    /\ order_vote_enabled
    /\ RoundOf[b] >= RoundOf[tree.ordered_root]
    /\ b \in tree.id_to_block
    /\ todo' = (IF b \in tree.qcs THEN <<>> ELSE InsertQuorumCert(b))
                 \o <<<<"order_cert", [block |-> b, certified |-> None]>>>>
    /\ OnlyTodo

\* The TC of the local SyncInfo: left out if it is lower than the QC.
LocalTimeoutRound ==
    IF tree.highest_tc > RoundOf[tree.highest_certified] THEN tree.highest_tc ELSE 0

\* sync_up with a SyncInfo that has_newer_certificates.
SyncUp(si) ==
    /\ Idle
    /\ \/ RoundOf[si.hqc] > RoundOf[tree.highest_certified]
       \/ si.tc > LocalTimeoutRound
       \/ RoundOf[si.hoc.block] > RoundOf[tree.highest_ordered_cert.block]
       \/ RoundOf[si.hcc.block] > RoundOf[tree.highest_commit_cert]
    /\ todo' = AddCerts(si)
    /\ OnlyTodo

-----------------------------------------------------------------------------
(* The steps.                                                              *)

\* need_fetch_for_quorum_cert and what insert_quorum_cert does with its
\* answer.  Blocks that are missing are fetched, which may fail.
NeedFetch ==
    /\ Doing("need_fetch")
    /\ \/ RoundOf[Arg] < RoundOf[tree.ordered_root] /\ Continue
       \/ /\ RoundOf[Arg] >= RoundOf[tree.ordered_root]
          /\ \/ Arg \in tree.qcs /\ Skip(2)
             \/ /\ Arg \in tree.id_to_block \ tree.qcs
                /\ ContinueWith(InsertSingleQuorumCert(Arg))
             \/ /\ Arg \notin tree.id_to_block \cup tree.qcs
                /\ \/ /\ Ancestors[Arg] \cap tree.id_to_block # {}
                      /\ ContinueWith(FetchQuorumCert(Arg, MissingBlocks(Arg)))
                   \/ Fail
    /\ OnlyTodo

\* The next pair.
Fetch ==
    /\ Doing("fetch")
    /\ ContinueWith(FetchQuorumCert(Arg.qc, Arg.missing))
    /\ OnlyTodo

GetQCBlock ==
    /\ Doing("get_qc_block")
    /\ IF Arg \in tree.id_to_block THEN Continue ELSE Fail
    /\ OnlyTodo

\* A write of the database that fails ends the handler, here and below.
SaveQC ==
    /\ Doing("save_qc")
    /\ \/ db' = [db EXCEPT !.qcs = @ \cup {Arg}] /\ Continue
       \/ Fail /\ UNCHANGED db
    /\ UNCHANGED <<tree, ledger, pre_committed, pipeline, pre_commit_status,
                   latest_logical_time, process>>

TreeQC ==
    /\ Doing("tree_qc")
    /\ IF Arg \in tree.id_to_block
       THEN tree' = insert_quorum_cert(Arg) /\ Continue
       ELSE Fail /\ UNCHANGED tree
    /\ UNCHANGED <<storage, pipeline, pre_commit_status, latest_logical_time, process>>

\* insert_block up to its write: a block that exists is returned, an old one
\* refused, and the pipeline is built on the futures of the parent.
GetBlock ==
    /\ Doing("get_block")
    /\ \/ Arg \in tree.id_to_block /\ Skip(3)
       \/ /\ Arg \notin tree.id_to_block
          /\ IF /\ RoundOf[tree.ordered_root] < RoundOf[Arg]
                /\ RoundOf[tree.commit_root] <= RoundOf[Arg]
                /\ Parent[Arg] \in tree.id_to_block \ aborted
             THEN Continue
             ELSE Fail
    /\ OnlyTodo

SaveBlock ==
    /\ Doing("save_block")
    /\ \/ db' = [db EXCEPT !.blocks = @ \cup {Arg}] /\ Continue
       \/ Fail /\ UNCHANGED db
    /\ UNCHANGED <<tree, ledger, pre_committed, pipeline, pre_commit_status,
                   latest_logical_time, process>>

TreeBlock ==
    /\ Doing("tree_block")
    /\ IF Parent[Arg] \in tree.id_to_block
       THEN /\ tree' = insert_block(Arg)
            /\ stage' = [stage EXCEPT ![Arg] = "live"]
            /\ Continue
       ELSE Fail /\ UNCHANGED <<tree, stage>>
    /\ UNCHANGED <<storage, aborted, order_proof, commit_proof, late, pre_commit_status,
                   latest_logical_time, process>>

\* The end of insert_quorum_cert: a QC that orders a block sends it on.
CommitQC ==
    /\ Doing("commit_qc")
    /\ IF RoundOf[tree.ordered_root] < RoundOfInfo(commit_info[Arg])
       THEN ContinueWith(<<<<"send", [block |-> commit_info[Arg], certified |-> Arg]>>>>)
       ELSE Continue
    /\ OnlyTodo

\* insert_ordered_cert
OrderCert ==
    /\ Doing("order_cert")
    /\ IF RoundOf[tree.ordered_root] < RoundOf[Arg.block]
       THEN IF Arg.block \in tree.id_to_block
            THEN ContinueWith(<<<<"send", Arg>>>>)
            ELSE Fail
       ELSE Continue
    /\ OnlyTodo

\* add_certs with order votes disabled: insert_quorum_cert of the certificate
\* that is the highest in the tree already.
OwnOrderCert ==
    /\ Doing("own_order_cert")
    /\ ContinueWith(InsertQuorumCert(tree.highest_ordered_cert.certified))
    /\ OnlyTodo

\* send_for_execution: the path from the ordered root, which must not be empty
\* (an assertion), is handed to the pipeline.
SendForExecution(cert) ==
    LET path == PathFromOrderedRoot(cert.block)
    IN  IF HasPathFromOrderedRoot(cert.block) /\ path # {}
        THEN /\ tree' = [tree EXCEPT
                    !.ordered_root = cert.block,
                    !.highest_ordered_cert =
                        IF RoundOf[cert.block] > RoundOf[@.block] THEN cert ELSE @]
             /\ order_proof' = [b \in Blocks |-> IF b \in path THEN cert.block
                                                 ELSE order_proof[b]]
             /\ Continue
             /\ UNCHANGED <<storage, stage, aborted, commit_proof, late, pre_commit_status,
                            latest_logical_time, process>>
        ELSE Panic("path")

\* A cert of an unknown block or of an old round is an error: it ends the
\* handler, except in try_send_for_execution.
Send ==
    /\ Doing("send") \/ Doing("try_send")
    /\ IF /\ Arg.block \in tree.id_to_block
          /\ RoundOf[Arg.block] > RoundOf[tree.ordered_root]
       THEN SendForExecution(Arg)
       ELSE (IF Doing("send") THEN Fail ELSE Continue) /\ OnlyTodo

\* The next certificate of try_send_for_execution.
TrySendNext ==
    /\ Doing("try_sends")
    /\ ContinueWith(TrySendForExecution(Arg))
    /\ OnlyTodo

\* insert_2chain_timeout_certificate: there is no await in it.
insert_2chain_timeout_certificate(round) ==
    /\ IF round > tree.highest_tc
       THEN /\ tree' = [tree EXCEPT !.highest_tc = round]
            /\ db' = [db EXCEPT !.tc = round]
       ELSE UNCHANGED <<tree, db>>
    /\ UNCHANGED <<ledger, pre_committed, pipeline, pre_commit_status, latest_logical_time,
                   process>>

AddTC ==
    /\ Doing("add_tc")
    /\ \/ insert_2chain_timeout_certificate(Arg.tc) /\ Continue
       \/ Arg.tc > tree.highest_tc /\ Fail /\ OnlyTodo

\* new_2chain_tc_aggregated; a write that fails leaves everything as it was.
NewTC ==
    /\ Idle
    /\ CurrentRound \in TimeoutRounds
    /\ insert_2chain_timeout_certificate(CurrentRound)
    /\ UNCHANGED todo

-----------------------------------------------------------------------------
(* State sync.                                                             *)

\* need_sync_for_ledger_info.  A block that is not in the tree may be in the
\* buffer of pending blocks.
NeedSync ==
    /\ Doing("need_sync")
    /\ \E pending \in BOOLEAN :
         LET target == Arg.hcc.block
             ordered_round == RoundOf[tree.ordered_root]
             block_not_exist == /\ ordered_round < RoundOf[target]
                                /\ target \notin tree.id_to_block
                                /\ ~pending
             small_gap == Monus(RoundOf[target], ordered_round) <= skip_sync_small_gap_rounds
             commit_gap == pre_commit_status.round < Monus(RoundOf[target], max_commit_gap)
         IN  IF (block_not_exist /\ ~small_gap) \/ commit_gap
             THEN /\ pre_commit_status' = [pre_commit_status EXCEPT !.paused = TRUE]
                  /\ ContinueWith(FastForwardSync(Arg))
             ELSE /\ pre_commit_status' = [pre_commit_status EXCEPT
                        !.paused = @ \/ RoundOf[tree.commit_root] + MAX_PRECOMMIT_GAP
                                          < pre_commit_status.round]
                  /\ Continue
    /\ UNCHANGED <<tree, storage, pipeline, latest_logical_time, process>>

Resume ==
    /\ Doing("resume")
    /\ pre_commit_status' = [pre_commit_status EXCEPT !.paused = FALSE]
    /\ Continue
    /\ UNCHANGED <<tree, storage, pipeline, latest_logical_time, process>>

\* Mutant: the block whose QC is the commit proof is not fetched when it is on
\* a fork.
SyncRangeWithoutFork(si) ==
    {b \in Ancestors[si.hqc] : RoundOf[b] >= RoundOf[si.hcc.block]}

\* The blocks from the committed one to the certified one and a QC of each;
\* with order votes disabled also the block whose QC is the commit proof.
SyncRange(si) ==
    {b \in Ancestors[si.hqc] : RoundOf[b] >= RoundOf[si.hcc.block]}
      \cup (IF order_vote_enabled THEN {} ELSE {si.hcc.certified})

\* They are retrieved, which may fail, and saved before the sync.
SaveRange ==
    /\ Doing("save_range")
    /\ \/ /\ db' = [db EXCEPT !.blocks = @ \cup SyncRange(Arg), !.qcs = @ \cup SyncRange(Arg)]
          /\ Continue
       \/ Fail /\ UNCHANGED db
    /\ UNCHANGED <<tree, ledger, pre_committed, pipeline, pre_commit_status,
                   latest_logical_time, process>>

\* abort_pipeline_for_state_sync: it takes the futures of every block and waits
\* for the commits that can still finish (but not for their callbacks).
AbortPipelines ==
    /\ Doing("abort_pipeline")
    /\ \A b \in tree.id_to_block :
          stage[b] \in {"live", "pre_committed"} => commit_proof[b] = None
    /\ aborted' = aborted \cup tree.id_to_block
    /\ Continue
    /\ UNCHANGED <<tree, storage, stage, order_proof, commit_proof, late, pre_commit_status,
                   latest_logical_time, process>>

\* Mutant: the driver accepts every target.
SyncToAnyTarget ==
    /\ Doing("sync")
    /\ LET target == Arg.hcc.block
       IN  IF latest_logical_time >= RoundOf[target]
           THEN Continue /\ UNCHANGED <<ledger, pre_committed, latest_logical_time>>
           ELSE /\ latest_logical_time' = RoundOf[target]
                /\ ledger' = target
                /\ pre_committed' = target
                /\ Continue
    /\ UNCHANGED <<tree, db, pipeline, pre_commit_status, process>>

\* ExecutionProxy::sync_to_target, and the state sync driver's answer: it
\* refuses a target below what is committed or pre-committed, or one that is
\* pre-committed and not committed.
SyncToTarget ==
    /\ Doing("sync")
    /\ LET target == Arg.hcc.block
           refused == \/ RoundOf[target] < RoundOf[ledger]
                      \/ RoundOf[target] < RoundOf[pre_committed]
                      \/ target = pre_committed /\ target # ledger
       IN  IF latest_logical_time >= RoundOf[target]
           THEN Continue /\ UNCHANGED <<ledger, pre_committed, latest_logical_time>>
           ELSE /\ latest_logical_time' = RoundOf[target]
                /\ \/ /\ ~refused
                      /\ ledger' = target
                      /\ pre_committed' = IF target = ledger THEN pre_committed ELSE target
                      /\ Continue
                   \/ /\ refused \/ (StateSyncMayFail /\ target # ledger)
                      /\ Fail
                      /\ UNCHANGED <<ledger, pre_committed>>
    /\ UNCHANGED <<tree, db, pipeline, pre_commit_status, process>>

\* storage.start() and rebuild().  Post-commit tasks of the old tree go on.
Rebuild ==
    /\ Doing("rebuild")
    /\ IF CanFindRoot
       THEN /\ Build(tree.highest_tc)
            /\ late' = late \cup {b \in Blocks : stage[b] = "committed" /\ commit_proof[b] = b}
            /\ pre_commit_status' = [pre_commit_status EXCEPT
                    !.round = IF RoundOf[ledger] > @ THEN RoundOf[ledger] ELSE @]
            /\ ContinueWith(TrySends)
            /\ UNCHANGED <<ledger, pre_committed, latest_logical_time, process>>
       ELSE Panic("recovery")

-----------------------------------------------------------------------------
(* The pipeline.                                                           *)

\* Mutant: a paused pre-commit waits until it is resumed.
PreCommitWaitsForResume(b) ==
    /\ Running
    /\ stage[b] = "live" /\ b \notin aborted
    /\ stage[Parent[b]] # "live"
    /\ order_proof[b] # None
    /\ ~pre_commit_status.paused
    /\ stage' = [stage EXCEPT ![b] = "pre_committed"]
    /\ pre_commit_status' = [pre_commit_status EXCEPT
            !.round = IF RoundOf[b] > @ THEN RoundOf[b] ELSE @]
    /\ pre_committed' = b
    /\ UNCHANGED <<tree, db, ledger, aborted, order_proof, commit_proof, late,
                   latest_logical_time, todo, process>>

\* pre_commit: after the parent's, with the order proof, and with the commit
\* proof unless pre-commit is active.
PreCommit(b) ==
    /\ Running
    /\ stage[b] = "live" /\ b \notin aborted
    /\ stage[Parent[b]] # "live"
    /\ order_proof[b] # None
    /\ ~pre_commit_status.paused \/ commit_proof[b] # None
    /\ stage' = [stage EXCEPT ![b] = "pre_committed"]
    /\ pre_commit_status' = [pre_commit_status EXCEPT
            !.round = IF RoundOf[b] > @ THEN RoundOf[b] ELSE @]
    /\ pre_committed' = b
    /\ UNCHANGED <<tree, db, ledger, aborted, order_proof, commit_proof, late,
                   latest_logical_time, todo, process>>

\* BufferManager::advance_head: the batch that b ends, and every one before it,
\* is persisted with the commit proof of b.
CommitProof(b) ==
    /\ Running
    /\ order_proof[b] = b /\ b \notin aborted
    /\ commit_proof[b] = None
    /\ commit_proof' = [c \in Blocks |->
            IF order_proof[c] # None /\ commit_proof[c] = None /\ c \in Ancestors[b]
            THEN b ELSE commit_proof[c]]
    /\ UNCHANGED <<tree, storage, stage, aborted, order_proof, late, pre_commit_status,
                   latest_logical_time, todo, process>>

\* commit_ledger: a block that is committed as a prefix writes nothing.
CommitLedger(b) ==
    /\ Running
    /\ stage[b] = "pre_committed"
    /\ commit_proof[b] # None
    /\ stage[Parent[b]] \notin {"live", "pre_committed"}
    /\ stage' = [stage EXCEPT ![b] = "committed"]
    /\ ledger' = IF commit_proof[b] = b THEN b ELSE ledger
    /\ UNCHANGED <<tree, db, pre_committed, aborted, order_proof, commit_proof, late,
                   pre_commit_status, latest_logical_time, todo, process>>

\* find_window_root returns: it panics if the block is not in memory ("Block not
\* found") or below the commit root ("Ordered block window not found").
FindsWindowRoot(b) ==
    b \in tree.id_to_block /\ RoundOf[b] >= RoundOf[tree.commit_root]

\* BlockTree::commit_callback, with what becomes of the stages of the blocks.
\* Deleting from the database may fail and is only logged.  update_window_root
\* asserts that the new root is still in memory.
CommitCallback(b, stages) ==
    IF ~FindsWindowRoot(b)
    THEN Panic("callback")
    ELSE IF ~ChildrenExist(b)
    THEN Panic("child")
    ELSE \E ids \in find_blocks_to_prune(b) :
         LET pruned == tree.pruned \o ids
             excess == NumBlocksToRemove(pruned)
             removed == ToSet(SubSeq(pruned, 1, excess))
             kept == tree.id_to_block \ removed
             is_newer == RoundOf[b] > RoundOf[tree.highest_commit_cert]
         IN  /\ \/ db' = [db EXCEPT !.blocks = @ \ ToSet(ids), !.qcs = @ \ ToSet(ids)]
                \/ UNCHANGED db
             /\ IF b \in removed
                THEN process' = "root" /\ UNCHANGED <<tree, stage, aborted>>
                ELSE /\ tree' = [tree EXCEPT
                            !.id_to_block = kept,
                            !.children = [c \in kept |-> @[c]],
                            !.qcs = @ \ removed,
                            !.pruned = SubSeq(pruned, excess + 1, Len(pruned)),
                            !.window_root = b,
                            !.highest_commit_cert = IF is_newer THEN b ELSE @,
                            !.commit_root = IF is_newer THEN b ELSE @]
                     /\ stage' = [c \in Blocks |-> IF c \in removed THEN "none" ELSE stages[c]]
                     /\ aborted' = (aborted \cup ToSet(ids)) \ removed
                     /\ UNCHANGED process

\* post_commit_ledger, for a block of the current tree.
PostCommit(b) ==
    /\ Running
    /\ stage[b] = "committed"
    /\ stage[Parent[b]] \in {"none", "finished"}
    /\ LET stages == [stage EXCEPT ![b] = "finished"]
       IN  IF commit_proof[b] = b
           THEN /\ CommitCallback(b, stages)
                /\ UNCHANGED <<ledger, pre_committed, order_proof, commit_proof, late,
                               pre_commit_status, latest_logical_time, todo>>
           ELSE /\ stage' = stages
                /\ UNCHANGED <<tree, storage, aborted, order_proof, commit_proof, late,
                               pre_commit_status, latest_logical_time, todo, process>>

\* The same, for a block of a tree that was replaced.
LatePostCommit ==
    /\ Running
    /\ late # {}
    /\ LET b == CHOOSE c \in late : \A d \in late : RoundOf[c] <= RoundOf[d]
       IN  /\ CommitCallback(b, stage)
           /\ late' = IF process' = "running" THEN late \ {b} ELSE late
    /\ UNCHANGED <<ledger, pre_committed, order_proof, commit_proof, pre_commit_status,
                   latest_logical_time, todo>>

\* The process stops, at any point or because of a panic, and starts again.
\* What was pre-committed and not committed is dropped by the storage.
Restart ==
    /\ CanFindRoot
    /\ Build(db.tc)
    /\ pre_committed' = ledger
    /\ late' = {}
    /\ pre_commit_status' = [round |-> RoundOf[ledger], paused |-> FALSE]
    /\ latest_logical_time' = -1
    /\ todo' = TrySends
    /\ process' = "running"
    /\ UNCHANGED ledger

\* Without a root the RecoveryManager is started instead of the RoundManager.
\* There is no tree: the variable keeps that of the process that stopped.
RestartToRecover ==
    /\ ~CanFindRoot
    /\ pre_committed' = ledger
    /\ stage' = [b \in Blocks |-> "none"]
    /\ aborted' = {}
    /\ order_proof' = [b \in Blocks |-> None]
    /\ commit_proof' = [b \in Blocks |-> None]
    /\ late' = {}
    /\ pre_commit_status' = [round |-> RoundOf[ledger], paused |-> FALSE]
    /\ latest_logical_time' = -1
    /\ todo' = <<>>
    /\ process' = "recovering"
    /\ UNCHANGED <<tree, db, ledger>>

\* RecoveryManager::sync_up, on any message with a SyncInfo.
RecoverySyncUp(si) ==
    /\ process = "recovering" /\ todo = <<>>
    /\ RoundOf[si.hqc] > RoundOf[ledger] \/ si.tc > RoundOf[ledger]
    /\ todo' = <<<<"save_range", si>>, <<"sync", si>>, <<"exit", si>>>>
    /\ OnlyTodo

\* storage.start() at the end of fast_forward_sync; then the process exits.
ExitRecovered ==
    /\ Doing("exit")
    /\ IF CanFindRoot
       THEN /\ db' = RecoveredDB
            /\ process' = "stopped"
            /\ todo' = <<>>
            /\ UNCHANGED <<tree, ledger, pre_committed, pipeline, pre_commit_status,
                           latest_logical_time>>
       ELSE Panic("recovery")

RoundManagerStep ==
    \/ NeedFetch \/ Fetch \/ GetQCBlock \/ SaveQC \/ TreeQC
    \/ GetBlock \/ SaveBlock \/ TreeBlock
    \/ CommitQC \/ OrderCert \/ OwnOrderCert \/ Send \/ TrySendNext \/ AddTC
    \/ NeedSync \/ Resume \/ SaveRange \/ AbortPipelines \/ SyncToTarget \/ Rebuild
    \/ ExitRecovered

PipelineStep(b) == PreCommit(b) \/ CommitProof(b) \/ CommitLedger(b) \/ PostCommit(b)

\* What happens while the process is up.
Work ==
    \/ \E b \in Blocks \ {Genesis} : ProcessProposal(b) \/ PipelineStep(b)
    \/ \E b \in CertifiedBlocks : NewQC(b)
    \/ \E b \in OrderCertified : NewOrderedCert(b)
    \/ \E si \in SyncInfos : SyncUp(si) \/ RecoverySyncUp(si)
    \/ NewTC
    \/ RoundManagerStep
    \/ LatePostCommit

Next == Work \/ Restart \/ RestartToRecover

Spec == Init /\ [][Next]_vars

\* A run without a crash in which tasks that can make a step make one: tokio
\* polls every task that is ready.  Commit proofs come because the validators
\* vote for what is ordered.  Proposals and messages need not come, and state
\* syncs and writes may fail.
LiveSpec ==
    /\ Init /\ [][Work]_vars
    /\ WF_vars(RoundManagerStep)
    /\ \A b \in Blocks \ {Genesis} : WF_vars(PipelineStep(b))

-----------------------------------------------------------------------------
(* Properties.                                                             *)

\* None of the assertions of the tree fails: send_for_execution finds the path
\* from the ordered root ("assert!(!blocks_to_commit.is_empty())"),
\* find_blocks_to_prune finds every child, and the new root is not among the
\* blocks removed.  Commits prune the tree while handlers are suspended.
NoPanic == process \notin {"path", "child", "root"}

\* When a state sync has brought the ledger to the block it was asked for,
\* storage.start() finds a root there: the block, its QC and, without order votes,
\* the QC that commits it were saved before and no commit that came in between
\* has deleted them.  The round manager and the recovery manager would panic
\* otherwise ("Failed to construct recovery data after fast forward sync"), and
\* after a crash at this point the node could not start its round manager.
RecoversAfterSync ==
    (Doing("rebuild") \/ Doing("exit")) /\ ledger = Arg.hcc.block => CanFindRoot

\* The window root, the commit root and the ordered root lie on one branch and
\* in the tree, and every block of the subtree of the window root has its
\* parent there and is its parent's child.
RootsOnOneBranch ==
    /\ tree.window_root \in Ancestors[tree.commit_root]
    /\ tree.commit_root \in Ancestors[tree.ordered_root]
    /\ {tree.window_root, tree.commit_root, tree.ordered_root} \subseteq tree.id_to_block
    /\ \A b \in tree.id_to_block \ {tree.window_root} :
          tree.window_root \in Ancestors[b] =>
              /\ Parent[b] \in tree.id_to_block
              /\ b \in tree.children[Parent[b]]

\* find_root: "We guarantee that the block corresponding to the storage's latest
\* ledger info always exists", although ConsensusDB and the ledger are written
\* and pruned independently of each other and the node may stop at any point.
RootBlockStored == ledger \in StoredBlocks

\* Nothing certified is forgotten, neither by pruning nor by a state sync nor
\* by a crash between two writes: the highest QC and the highest TC, from which
\* the round is computed, never go back.
CertificatesNeverLost ==
    [][/\ RoundOf[tree'.highest_certified] >= RoundOf[tree.highest_certified]
       /\ tree'.highest_tc >= tree.highest_tc]_vars

\* The ledger moves along one branch, through commits, state syncs and
\* restarts, and what is written ahead of it extends it.
LedgerExtends ==
    [][/\ ledger \in Ancestors[ledger']
       /\ ledger' \in Ancestors[pre_committed']]_vars

\* When add_certs has dealt with the QCs of a SyncInfo without an error, the
\* node has ordered what the peer has: a node that is behind catches up.
SyncReachesPeer ==
    Doing("add_tc") => RoundOf[tree.ordered_root] >= RoundOf[Arg.hoc.block]

\* A state sync that aborted the pipeline of b has ended before its target: the
\* ordered blocks are not pushed again ("TODO: handle the state sync error" in
\* ExecutionProxyClient::sync_to_target).  A retry takes the target for reached
\* and may abort the pipelines of the rebuilt tree again.
GivenUpBySync(b) == Idle /\ (b \in aborted \/ RoundOf[ledger] < latest_logical_time)

\* rebuild() has replaced a tree in which b was ordered by order votes, which
\* are not stored, and no stored QC orders b.
OrderForgotten(b) ==
    /\ order_proof[b] = None
    /\ \A c \in tree.qcs : commit_info[c] = None \/ b \notin Ancestors[commit_info[c]]

\* Under LiveSpec, what is ordered is committed, unless a panic stops the node or
\* a state sync takes it back in one of the two ways above: neither a state sync
\* that reaches its target, nor a rebuild of what a QC orders, nor a pre-commit
\* that is paused, nor pruning, nor a failed write leaves an ordered block behind.
OrderedIsCommitted ==
    \A b \in Blocks :
        (order_proof[b] # None) ~>
            \/ b \in Ancestors[ledger]
            \/ GivenUpBySync(b) \/ OrderForgotten(b)
            \/ ~Running

\* wait_until_finishes waits for the "futures involved executor/state sync"; a
\* commit callback finds its block in the tree, not below the commit root.
CallbackFindsBlock == process # "callback"

-----------------------------------------------------------------------------
(* The invariants that BlockStoreProofs shows to be inductive: IInv behind *)
(* LedgerExtends and RootsOnOneBranch, StoredInv behind NoPanic,           *)
(* RootBlockStored, RecoversAfterSync and CertificatesNeverLost, ReachInv  *)
(* behind SyncReachesPeer.                                                 *)

Certified == CertifiedBlocks \cup {Genesis}

\* The one branch on which all ordered blocks lie.
Chain == {b \in Blocks : \E c \in Ordered \cup {Genesis} : b \in Ancestors[c]}

Decided == Ordered \cup {Genesis}

\* A certificate that orders a block, by a QC if order votes are disabled.
OrderingCert ==
    {c \in Cert : c.block \in Decided /\ (order_vote_enabled \/ c.certified \in Certified)}

TypeOK ==
    /\ tree \in [id_to_block : SUBSET Blocks, children : [tree.id_to_block -> SUBSET Blocks],
                 qcs : SUBSET Certified,
                 ordered_root : Chain, commit_root : Blocks, window_root : Blocks,
                 highest_certified : Certified, highest_ordered_cert : OrderingCert,
                 highest_commit_cert : Blocks, highest_tc : Nat, pruned : Seq(Blocks)]
    /\ db \in [blocks : SUBSET Blocks, qcs : SUBSET Certified, tc : Nat]
    /\ ledger \in Decided /\ pre_committed \in Chain
    /\ stage \in [Blocks -> {"none", "live", "pre_committed", "committed", "finished"}]
    /\ aborted \subseteq Blocks
    /\ order_proof \in [Blocks -> Decided \cup {None}]
    /\ commit_proof \in [Blocks -> Decided \cup {None}]
    /\ late \subseteq Blocks
    /\ pre_commit_status \in [round : Nat, paused : BOOLEAN]
    /\ latest_logical_time \in Int

\* The argument of a step of the round manager.
StepOK(step) ==
    /\ step[1] \in {"need_fetch", "commit_qc", "get_qc_block", "save_qc", "tree_qc"} =>
          step[2] \in Certified
    /\ step[1] = "fetch" =>
          step[2].qc \in Certified /\ step[2].missing \subseteq Blocks \ {Genesis}
    /\ step[1] \in {"get_block", "save_block", "tree_block"} => step[2] \in Blocks \ {Genesis}
    /\ step[1] \in {"order_cert", "send", "try_send"} => step[2] \in OrderingCert
    /\ step[1] = "try_sends" => step[2] \subseteq {b \in Certified : commit_info[b] # None}
    /\ step[1] = "own_order_cert" => ~order_vote_enabled
    /\ step[1] \in {"need_sync", "resume", "save_range", "abort_pipeline", "sync", "rebuild",
                    "add_tc", "exit"} => step[2] \in SyncInfos

\* Which step may come after which.
Follows(step, next, proc) ==
    /\ step[1] = "get_block" <=> next[1] = "save_block"
    /\ step[1] = "save_block" <=> next[1] = "tree_block"
    /\ next[1] \in {"save_block", "tree_block"} => step[2] = next[2]
    /\ step[1] = "need_fetch" => next[1] = "commit_qc"
    /\ next[1] = "tree_qc" => step[1] = "save_qc" /\ step[2] = next[2]
    /\ next[1] = "abort_pipeline" => step[1] = "save_range" /\ step[2] = next[2]
    /\ next[1] = "sync" =>
          /\ step[1] = "abort_pipeline" \/ (step[1] = "save_range" /\ proc # "running")
          /\ step[2] = next[2]
    /\ next[1] \in {"rebuild", "exit"} => step[1] = "sync" /\ step[2] = next[2]

MayEnd(step) == step[1] \notin {"get_block", "save_block", "need_fetch"}

Handler(steps, proc) ==
    /\ steps \in Seq(ToSet(steps))
    /\ \A i \in 1 .. Len(steps) : StepOK(steps[i])
    /\ \A i \in 1 .. Len(steps) - 1 : Follows(steps[i], steps[i + 1], proc)
    /\ steps # <<>> => MayEnd(steps[Len(steps)])

\* What is ordered, about to be committed or called back lies on the chain, and
\* not above what is ordered.
ProofsOnChain ==
    /\ \A b \in Blocks :
          /\ order_proof[b] # None =>
                b \in Chain /\ RoundOf[b] <= RoundOf[tree.ordered_root]
          /\ commit_proof[b] # None =>
                /\ order_proof[b] # None
                /\ \A c \in Ancestors[b] : order_proof[c] # None => commit_proof[c] # None
          /\ order_proof[b] # None /\ b \notin tree.id_to_block => commit_proof[b] # None
          /\ stage[b] \in {"pre_committed", "committed", "finished"} =>
                b \in Chain /\ RoundOf[b] <= RoundOf[tree.ordered_root]
          /\ stage[b] = "committed" =>
                /\ commit_proof[b] # None
                /\ commit_proof[b] = b => RoundOf[b] <= RoundOf[ledger]
    /\ \A b \in late :
          /\ b \in Chain
          /\ RoundOf[b] <= RoundOf[ledger] /\ RoundOf[b] <= RoundOf[tree.ordered_root]
          /\ \A c \in tree.id_to_block : RoundOf[b] <= RoundOf[c]

\* The database of the ledger is written in order.
WrittenAhead ==
    /\ RoundOf[ledger] <= RoundOf[pre_committed]
    /\ \A b \in Blocks :
          stage[b] = "pre_committed" => RoundOf[b] <= RoundOf[pre_committed]

Pending(b) == stage[b] \in {"live", "pre_committed"}

\* The pipelines of the tree run: what is not committed is above the ledger,
\* from where it is complete up to the ordered root, and blocks are
\* pre-committed and committed after their ancestors.
PipelinesRun ==
    /\ RoundOf[ledger] <= RoundOf[tree.ordered_root]
    /\ \A b \in Chain :
          /\ Pending(b) => RoundOf[b] > RoundOf[ledger]
          /\ RoundOf[b] > RoundOf[ledger] /\ RoundOf[b] <= RoundOf[tree.ordered_root] =>
                stage[b] # "none"
    /\ \A b \in Blocks : \A c \in Ancestors[b] :
          /\ stage[b] \in {"pre_committed", "committed", "finished"} => stage[c] # "live"
          /\ stage[b] \in {"committed", "finished"} => ~Pending(c)

\* They were aborted for a state sync, and none of them can write any more.
PipelinesAborted ==
    /\ tree.id_to_block \subseteq aborted
    /\ \A b \in Blocks :
          /\ Pending(b) => b \in aborted /\ commit_proof[b] = None
          /\ order_proof[b] # None /\ commit_proof[b] = None => b \in aborted

\* A block is inserted while the pipelines run and above what is ordered, and
\* the state sync is called when they are aborted.
HandlerInStep ==
    todo # <<>> =>
        /\ todo[1][1] \in {"save_block", "tree_block"} =>
              PipelinesRun /\ RoundOf[todo[1][2]] > RoundOf[tree.ordered_root]
        /\ todo[1][1] = "sync" => PipelinesAborted

\* Only a new block is inserted.
InsertsNewBlock ==
    todo # <<>> /\ todo[1][1] \in {"save_block", "tree_block"} =>
        todo[1][2] \notin tree.id_to_block

\* Between two blocks in memory there is no gap, and the children are right.
TreeLinked ==
    /\ \A b \in tree.id_to_block : \A c \in Ancestors[b] :
          Ancestors[c] \cap tree.id_to_block # {} => c \in tree.id_to_block
    /\ tree.children = [b \in tree.id_to_block |->
                          {c \in tree.id_to_block \ {Genesis} : Parent[c] = b}]

RootsInTree ==
    /\ {tree.window_root, tree.commit_root, tree.ordered_root} \subseteq
          tree.id_to_block \cap Chain
    /\ tree.highest_commit_cert = tree.commit_root
    /\ RoundOf[tree.window_root] <= RoundOf[tree.commit_root]
    /\ RoundOf[tree.commit_root] <= RoundOf[tree.ordered_root]

\* A block of the list that has an ancestor in S is in S too, and comes after it.
AncestorsFirst(list, S) ==
    \A i \in 1 .. Len(list) : \A c \in Ancestors[list[i]] \cap S :
        list[i] \in S /\ \E j \in 1 .. i : list[j] = c

\* What is below the window root is pruned, and a block leaves the memory after
\* its ancestors.
PrunedInOrder ==
    /\ (Ancestors[tree.window_root] \cap tree.id_to_block) \ {tree.window_root}
          \subseteq ToSet(tree.pruned)
    /\ AncestorsFirst(tree.pruned, tree.id_to_block)

IInv ==
    /\ TypeOK
    /\ TreeLinked
    /\ RootsInTree
    /\ PrunedInOrder
    /\ InsertsNewBlock
    /\ Handler(todo, process)
    /\ ProofsOnChain
    /\ WrittenAhead
    /\ Running =>
          /\ \A b \in Blocks : b \in tree.id_to_block <=> stage[b] # "none"
          /\ PipelinesRun \/ PipelinesAborted
          /\ HandlerInStep

\* The pruned blocks of the chain are below the window root, and blocks are
\* called back in order.
PrunedIsBehind ==
    /\ \A b \in ToSet(tree.pruned) \cap Chain : RoundOf[b] < RoundOf[tree.window_root]
    /\ stage[tree.window_root] = "finished"
    /\ \A b \in Blocks : \A c \in Ancestors[b] :
          stage[b] = "finished" => stage[c] \in {"none", "finished"}

\* What a state sync with si needs of the database afterwards.
RangeSaved(si) ==
    /\ si.hcc.block \in db.blocks
    /\ si.hcc.block \in db.qcs
    /\ order_vote_enabled \/ si.hcc.certified \in db.qcs

\* A step that relies on a write finds it, unless the ledger is past what it
\* was made for.
WriteMade ==
    todo # <<>> =>
        /\ todo[1][1] = "tree_block" => Arg \in db.blocks
        /\ todo[1][1] = "tree_qc" => Arg \in db.qcs \/ RoundOf[Arg] <= RoundOf[ledger]
        /\ todo[1][1] \in {"abort_pipeline", "sync", "rebuild", "exit"} =>
              RangeSaved(Arg) \/ RoundOf[Arg.hcc.block] < RoundOf[ledger]

\* What the tree holds from the window root on is in the database.
TreeStored ==
    /\ RoundOf[tree.window_root] <= RoundOf[ledger]
    /\ \A b \in tree.id_to_block \ {Genesis} :
          tree.window_root \in Ancestors[b] => b \in db.blocks

\* The highest certificates can be recovered, as far as the ledger is not past
\* them.
HighestStored ==
    /\ db.tc = tree.highest_tc
    /\ RoundOf[tree.highest_certified] > RoundOf[ledger] =>
          /\ tree.highest_certified \in db.qcs
          /\ {b \in Ancestors[tree.highest_certified] : RoundOf[b] > RoundOf[ledger]}
                \subseteq db.blocks

\* The recovery manager does nothing else than to synchronise.
RecoverySteps ==
    process = "recovering" =>
        \A i \in 1 .. Len(todo) : todo[i][1] \in {"save_range", "sync", "exit"}

\* Together the invariant behind NoPanic, RootBlockStored, RecoversAfterSync and
\* CertificatesNeverLost.  A callback of a replaced tree prunes nothing: its
\* block is the window root, or it panics.
StoredInv ==
    /\ RootBlockStored
    /\ HighestStored
    /\ WriteMade
    /\ RecoverySteps
    /\ Running => PrunedIsBehind /\ TreeStored

\* Before the TC of a SyncInfo comes its ordered certificate, if there are order
\* votes: it is next, or it is done.
OrderedFirst(steps) ==
    \A i \in 2 .. Len(steps) :
        steps[i][1] = "add_tc" =>
            steps[i - 1] \in {<<"order_cert", steps[i][2].hoc>>, <<"send", steps[i][2].hoc>>}

\* The invariant behind SyncReachesPeer.
ReachInv ==
    /\ OrderedFirst(todo)
    /\ todo # <<>> /\ todo[1][1] = "add_tc" =>
          RoundOf[tree.ordered_root] >= RoundOf[Arg.hoc.block]

=============================================================================
