------------------------------ MODULE BlockSTM ------------------------------
(***************************************************************************)
(* The parallel executor of a block, first version: Scheduler, the worker  *)
(* loop around it and the multi-version data it schedules.  A worker is a  *)
(* thread; each of its steps is one access to shared memory or one short   *)
(* critical section, so that everything the locks and atomics allow        *)
(* between two of them can happen.  (NextTask makes several loads in one   *)
(* step; the steps after it check what they have to.)                      *)
(*                                                                         *)
(* Two kinds of locks are held across steps and are variables: the write   *)
(* lock on a transaction's validation status (vlock, held by               *)
(* finish_execution and finish_abort) and the lock on its list of          *)
(* dependencies (dlock, held by wait_for_dependency).                      *)
(***************************************************************************)
EXTENDS Integers, FiniteSets, Sequences

CONSTANTS
    num_txns,      \* transactions of the block
    Workers,
    Keys,          \* storage keys, module keys among them
    ModuleKeys,    \* written to the module cache, and only at commit
    Base,          \* the values before the block
    Blocks,        \* the blocks that may be executed, and for each of them:
    ReadKeys(_, _),   \* the sequence of keys a transaction reads,
    Output(_, _, _),  \* what it writes for the values it read: [keys -> values],
    SkipsRest(_),     \* the transactions after which the block is cut,
    EpilogueKeys(_),  \* what the block epilogue writes
    None

Txns == 0 .. num_txns - 1
DataKeys == Keys \ ModuleKeys

ASSUME BlockAssumption ==
    /\ num_txns \in Nat \ {0}
    /\ IsFiniteSet(Workers) /\ Cardinality(Workers) > 1
    /\ ModuleKeys \subseteq Keys
    /\ DOMAIN Base = Keys
    /\ \A b \in Blocks : SkipsRest(b) \subseteq Txns /\ EpilogueKeys(b) \subseteq DataKeys
    /\ None \notin Workers

\* A key that is read again is answered from the captured reads.
ASSUME ReadKeysAssumption ==
    \A b \in Blocks, t \in Txns :
       /\ ReadKeys(b, t) \in Seq(Keys)
       /\ \A i, j \in 1 .. Len(ReadKeys(b, t)) :
             ReadKeys(b, t)[i] = ReadKeys(b, t)[j] => i = j

VARIABLES
    block,              \* the block being executed
    txn_status,         \* ExecutionStatus of a transaction
    validation_status,  \* its three waves
    txn_dependency,     \* the transactions suspended on it
    commit_state,       \* [idx, wave]
    execution_idx,
    validation_idx,     \* [idx, wave]
    done_marker,
    has_halted,
    queueing_commits,   \* ArmedLock: [armed, owner]
    commit_queue,
    vlock, dlock,       \* holders of the two locks of a transaction
    data,               \* MVHashMap: [DataKeys -> [Txns -> entry]]
    modules,            \* the module cache: last published version of a key
    skip_module_reads_validation,
    last_input_output,  \* the recorded [ok, input, output] of a transaction
    final_results,      \* indices whose output was materialized
    block_result,       \* what execute_transactions_parallel came to
    cvar,               \* DependencyStatus each worker waits on
    worker              \* local state of each worker

statuses == <<txn_status, validation_status>>
indices == <<commit_state, execution_idx, validation_idx>>
markers == <<done_marker, has_halted, block_result>>
commits == <<queueing_commits, commit_queue, final_results>>
locks == <<vlock, dlock>>
memory == <<data, modules, skip_module_reads_validation, last_input_output>>
shared == <<statuses, txn_dependency, indices, markers, commits, locks, memory, cvar>>
vars == <<block, shared, worker>>

\* An ExecutionStatus.  cv is the worker to notify when the task type is
\* Wakeup or the transaction is suspended; safe is ExecutionHalted's flag.
Status(name, inc, cv) == [name |-> name, inc |-> inc, cv |-> cv, safe |-> TRUE]
ExecutionHalted(safe) ==
    [name |-> "Halted", inc |-> 0, cv |-> None, safe |-> safe]

\* A SchedulerTask.
NoTask(kind) == [kind |-> kind, txn |-> 0, inc |-> 0, wave |-> 0, cv |-> None]
ExecutionTask(t, status) ==
    [kind |-> IF status.cv = None THEN "Execution" ELSE "Wakeup",
     txn |-> t, inc |-> status.inc, wave |-> 0, cv |-> status.cv]
ValidationTask(t, inc, wave) ==
    [kind |-> "Validation", txn |-> t, inc |-> inc, wave |-> wave, cv |-> None]

EmptyFunction == [k \in {} |-> 0]

\* No entry of a transaction under a key of the multi-version data.
NoEntry == [inc |-> -1, val |-> None, est |-> FALSE]

\* A worker: pc is its next step, task the task in hand, ret where the
\* routine it is in returns to, reads what it captured or validates, todo
\* the items a loop has left, num an index or a wave, flag a local boolean.
NewWorker ==
    [pc |-> "loop", task |-> NoTask("Retry"), ret |-> "loop", reads |-> EmptyFunction,
     todo |-> {}, num |-> [idx |-> 0, wave |-> 0], flag |-> FALSE]

Init ==
    /\ block \in Blocks
    /\ txn_status = [t \in Txns |-> Status("Ready", 0, None)]
    /\ validation_status =
          [t \in Txns |-> [triggered |-> 0, required |-> 0, validated |-> -1]]
    /\ txn_dependency = [t \in Txns |-> {}]
    /\ commit_state = [idx |-> 0, wave |-> 0]
    /\ execution_idx = 0
    /\ validation_idx = [idx |-> 0, wave |-> 0]
    /\ done_marker = FALSE
    /\ has_halted = FALSE
    /\ queueing_commits = [armed |-> TRUE, owner |-> None]
    /\ commit_queue = <<>>
    /\ vlock = [t \in Txns |-> None]
    /\ dlock = [t \in Txns |-> None]
    /\ data = [k \in DataKeys |-> [t \in Txns |-> NoEntry]]
    /\ modules = [k \in ModuleKeys |-> [ver |-> <<>>, val |-> Base[k]]]
    /\ skip_module_reads_validation = TRUE
    /\ last_input_output =
          [t \in Txns |-> [ok |-> FALSE, input |-> EmptyFunction,
                          output |-> EmptyFunction]]
    /\ final_results = {}
    /\ block_result = "running"
    /\ cvar = [w \in Workers |-> "Resolved"]
    /\ worker = [w \in Workers |-> NewWorker]

-----------------------------------------------------------------------------
(* Helpers.                                                                *)

MaxOf(a, b) == IF a > b THEN a ELSE b
MinOf(a, b) == IF a < b THEN a ELSE b

At(w, p) == worker[w].pc = p

\* The worker goes on at p, with nothing else changed.
Goto(w, p) == worker' = [worker EXCEPT ![w].pc = p]

\* The worker returns to its loop with a new task.
Take(w, new_task) ==
    worker' = [worker EXCEPT ![w] = [NewWorker EXCEPT !.task = new_task]]

\* The transaction a step of the worker is about: the one just committed in
\* the commit hook, else that of its task.
Txn(w) == IF worker[w].ret = "hook" THEN commit_state.idx - 1 ELSE worker[w].task.txn

\* MVHashMap::read for transaction t: the entry of the highest transaction
\* below t, or the base value.
Writers(k, t) == {j \in 0 .. t - 1 : data[k][j] # NoEntry}
fetch_data(k, t) ==
    IF Writers(k, t) = {}
    THEN [ver |-> <<>>, val |-> Base[k], est |-> FALSE]
    ELSE LET j == CHOOSE j \in Writers(k, t) : \A i \in Writers(k, t) : i <= j
         IN  [ver |-> <<j, data[k][j].inc>>, val |-> data[k][j].val,
              est |-> data[k][j].est]

\* Whether a captured read still is what a read would return.
validate_read(k, read, t) ==
    IF k \in ModuleKeys
    THEN modules[k].ver = read.ver
    ELSE ~fetch_data(k, t).est /\ fetch_data(k, t).ver = read.ver

\* Mutant: a committed dependency does not count as resolved.
is_executed_only(t, include_committed) == txn_status[t].name = "Executed"

is_executed(t, include_committed) ==
    \/ txn_status[t].name = "Executed"
    \/ include_committed /\ txn_status[t].name = "Committed"

never_executed(t) ==
    txn_status[t].inc = 0 /\ txn_status[t].name \in {"Ready", "Executing", "Suspended"}

-----------------------------------------------------------------------------
(* Committing: one worker at a time, behind queueing_commits.              *)

\* ArmedLock::try_lock.
should_coordinate_commits(w) ==
    queueing_commits.armed /\ queueing_commits.owner = None

LockCommits(w) ==
    /\ At(w, "loop")
    /\ should_coordinate_commits(w)
    /\ queueing_commits' = [armed |-> FALSE, owner |-> w]
    /\ Goto(w, "try_commit")
    /\ UNCHANGED <<statuses, txn_dependency, indices, markers, commit_queue,
                   final_results, locks, memory, cvar>>

SkipCommits(w) ==
    /\ At(w, "loop")
    /\ ~should_coordinate_commits(w)
    /\ Goto(w, "drain")
    /\ UNCHANGED shared

\* Workers whose next step writes the execution status of t.
StatusWriters(t) ==
    {w \in Workers :
        \/ worker[w].pc \in {"abort", "suspend"} /\ worker[w].task.txn = t
        \/ At(w, "next_incarnate") /\ worker[w].num.idx = t
        \/ At(w, "resume") /\ t \in worker[w].todo}

\* Mutant: only the transaction's own waves count, not those triggered below.
next_wave_own(c) == validation_status[c].triggered

\* The wave transaction c must have been validated in: that of every
\* decrease of the validation index at it or below.
next_wave(c) == MaxOf(commit_state.wave, validation_status[c].triggered)

\* Whether an executed transaction can be committed: it was validated in the
\* waves it needs.
may_commit(c, wave) ==
    validation_status[c].validated
        >= MaxOf(wave, validation_status[c].required)

\* try_commit succeeds.
TryCommit(w) ==
    LET c == commit_state.idx
        wave == next_wave(c)
    IN  /\ At(w, "try_commit")
        /\ c < num_txns
        /\ vlock[c] = None
        /\ txn_status[c].name = "Executed"
        /\ may_commit(c, wave)
        /\ commit_state' = [idx |-> c + 1, wave |-> wave]
        /\ txn_status' = [txn_status EXCEPT ![c].name = "Committed"]
        /\ done_marker' = (done_marker \/ c + 1 = num_txns)
        /\ worker' = [worker EXCEPT
              ![w].pc = IF c + 1 = num_txns /\ worker[w].task.kind = "Execution"
                        THEN "error" ELSE "publish",
              ![w].ret = "hook"]
        /\ UNCHANGED <<validation_status, txn_dependency, execution_idx,
                       validation_idx, has_halted, block_result, commits, locks, memory,
                       cvar>>

\* try_commit returns None: nothing is left, or the next transaction is not
\* ready; its wave counts from now on if it is executed.
TryCommitNothing(w) ==
    LET c == commit_state.idx
        wave == next_wave(c)
    IN  /\ At(w, "try_commit")
        /\ IF c = num_txns
           THEN UNCHANGED commit_state
           ELSE /\ vlock[c] = None
                /\ IF txn_status[c].name = "Executed"
                   THEN /\ ~may_commit(c, wave)
                        /\ commit_state' = [commit_state EXCEPT !.wave = wave]
                   ELSE UNCHANGED commit_state
        /\ Goto(w, "unlock")
        /\ UNCHANGED <<statuses, txn_dependency, execution_idx, validation_idx,
                       markers, commits, locks, memory, cvar>>

\* try_commit finds the execution status locked and arms for another try.
TryCommitContended(w) ==
    /\ At(w, "try_commit")
    /\ commit_state.idx < num_txns
    /\ vlock[commit_state.idx] = None
    /\ StatusWriters(commit_state.idx) # {}
    /\ queueing_commits' = [queueing_commits EXCEPT !.armed = TRUE]
    /\ Goto(w, "unlock")
    /\ UNCHANGED <<statuses, txn_dependency, indices, markers, commit_queue,
                   final_results, locks, memory, cvar>>

\* queueing_commits_mark_done.
UnlockCommits(w) ==
    /\ At(w, "unlock")
    /\ queueing_commits' = [queueing_commits EXCEPT !.owner = None]
    /\ Goto(w, "loop")
    /\ UNCHANGED <<statuses, txn_dependency, indices, markers, commit_queue,
                   final_results, locks, memory, cvar>>

\* publish_module_write_set: the module writes of the transaction, ...
PublishModules(w) ==
    LET t == Txn(w)
        output == last_input_output[t].output
        written == DOMAIN output \cap ModuleKeys
    IN  /\ At(w, "publish")
        /\ modules' = [k \in ModuleKeys |->
              IF k \in written THEN [ver |-> <<t>>, val |-> output[k]] ELSE modules[k]]
        /\ Goto(w, IF ~last_input_output[t].ok THEN "error"
                   ELSE IF written = {} THEN "queue" ELSE "require")
        /\ UNCHANGED <<statuses, txn_dependency, indices, markers, commits, locks,
                       data, skip_module_reads_validation, last_input_output, cvar>>

\* ... and from now on module reads are validated, everything above again:
\* record_validation_requirements, before the validation index is decreased.
RecordValidationRequirements(w) ==
    /\ At(w, "require")
    /\ skip_module_reads_validation' = FALSE
    /\ Goto(w, "wake")
    /\ UNCHANGED <<statuses, txn_dependency, indices, markers, commits, locks,
                   data, modules, last_input_output, cvar>>

\* TxnLastInputOutput::commit: queued for materialization; the last commit
\* of the block halts the scheduler.
AddToCommitQueue(w) ==
    LET t == Txn(w)
    IN  /\ At(w, "queue")
        /\ commit_queue' = Append(commit_queue, t)
        /\ worker' = [worker EXCEPT
              ![w].pc = IF Len(commit_queue) = num_txns THEN "error"
                        ELSE IF t + 1 = num_txns \/ t \in SkipsRest(block) THEN "halt"
                        ELSE "try_commit",
              ![w].ret = "loop",
              ![w].todo = Txns]
        /\ UNCHANGED <<statuses, txn_dependency, indices, markers,
                       queueing_commits, final_results, locks, memory, cvar>>

\* halt: whoever sets the done marker halts every transaction.
HaltStart(w) ==
    /\ At(w, "halt")
    /\ done_marker' = TRUE
    /\ Goto(w, IF done_marker THEN "halted" ELSE "halt_txn")
    /\ UNCHANGED <<statuses, txn_dependency, indices, has_halted, block_result,
                   commits, locks, memory, cvar>>

\* halt_transaction_execution, in the order of the transactions.
HaltTxn(w) ==
    LET t == CHOOSE t \in worker[w].todo : \A u \in worker[w].todo : t <= u
        st == txn_status[t]
    IN  /\ At(w, "halt_txn")
        /\ txn_status' = [txn_status EXCEPT ![t] =
              ExecutionHalted(st.cv # None \/ st.name \notin {"Executing", "Aborting"})]
        /\ cvar' = IF st.cv = None THEN cvar ELSE [cvar EXCEPT ![st.cv] = "Halted"]
        /\ worker' = [worker EXCEPT
              ![w].todo = @ \ {t},
              ![w].pc = IF worker[w].todo = {t} THEN "halted" ELSE @]
        /\ UNCHANGED <<validation_status, txn_dependency, indices, markers,
                       commits, locks, memory>>

Halted(w) ==
    /\ At(w, "halted")
    /\ has_halted' = TRUE
    /\ worker' = [worker EXCEPT ![w].pc = "try_commit", ![w].todo = {}]
    /\ UNCHANGED <<statuses, txn_dependency, indices, done_marker, block_result,
                   commits, locks, memory, cvar>>

-----------------------------------------------------------------------------
(* The worker loop.                                                        *)

\* The worker after an execution got this far: it reads on, or goes over to
\* writing its output over the one of the incarnation before.
Executes(w, reads, failed) ==
    LET t == worker[w].task.txn
        me == [worker[w] EXCEPT !.reads = reads, !.flag = failed]
        output == IF failed THEN EmptyFunction
                  ELSE Output(block, t, [k \in DOMAIN reads |-> reads[k].val])
    IN  IF failed \/ Cardinality(DOMAIN reads) = Len(ReadKeys(block, t))
        THEN [me EXCEPT !.pc = "write",
                        !.todo = (DOMAIN output \cup DOMAIN last_input_output[t].output)
                                    \cap DataKeys]
        ELSE [me EXCEPT !.pc = "read"]

\* materialize_txn_commit of the next committed transaction, with a final
\* validation (module reads excepted).
DrainCommitQueue(w) ==
    LET t == Head(commit_queue)
        input == last_input_output[t].input
    IN  /\ At(w, "drain")
        /\ commit_queue # <<>>
        /\ commit_queue' = Tail(commit_queue)
        /\ final_results' = final_results \cup {t}
        /\ Goto(w, IF last_input_output[t].ok
                      /\ \A k \in DOMAIN input \cap DataKeys : validate_read(k, input[k], t)
                   THEN "drain" ELSE "error")
        /\ UNCHANGED <<statuses, txn_dependency, indices, markers,
                       queueing_commits, locks, memory, cvar>>

\* The commit queue is empty: the worker turns to its task.  The flag on
\* module reads is loaded here, before anything is validated.
StartTask(w) ==
    LET tk == worker[w].task
        input == last_input_output[tk.txn]
    IN  /\ At(w, "drain")
        /\ commit_queue = <<>>
        /\ worker' = [worker EXCEPT ![w] =
              CASE tk.kind = "Retry" -> [@ EXCEPT !.pc = "next"]
                [] tk.kind = "Done" -> [@ EXCEPT !.pc = "exit"]
                [] tk.kind = "Wakeup" -> [@ EXCEPT !.pc = "wakeup"]
                [] tk.kind = "Execution" -> Executes(w, EmptyFunction, FALSE)
                [] tk.kind = "Validation" ->
                      [@ EXCEPT !.pc = IF input.ok THEN "validate" ELSE "abort",
                                !.reads = input.input,
                                !.todo = DOMAIN input.input \
                                   (IF skip_module_reads_validation THEN ModuleKeys ELSE {})]]
        /\ UNCHANGED shared

\* A Wakeup task: the suspended worker goes on.
Wakeup(w) ==
    /\ At(w, "wakeup")
    /\ cvar' = [cvar EXCEPT ![worker[w].task.cv] = "Resolved"]
    /\ Goto(w, "next")
    /\ UNCHANGED <<statuses, txn_dependency, indices, markers, commits, locks,
                   memory>>

-----------------------------------------------------------------------------
(* next_task.                                                              *)

\* The marker and the indices are loaded, one after the other in the code, and it
\* is decided what to try.  One step for these loads is enough: what they find
\* is only used by a compare-and-swap, of the validation index with its wave, or
\* by a fetch-and-add, and checked again under the status lock.
NextTask(w) ==
    LET v == validation_idx
        prefer_validate == v.idx < MinOf(execution_idx, num_txns) /\ ~never_executed(v.idx)
    IN  /\ At(w, "next")
        /\ IF done_marker THEN Take(w, NoTask("Done"))
           ELSE IF prefer_validate
                THEN worker' = [worker EXCEPT ![w].pc = "next_validation", ![w].num = v,
                                              ![w].flag = execution_idx < num_txns]
           ELSE IF execution_idx < num_txns THEN Goto(w, "next_execution")
           ELSE Take(w, NoTask("Retry"))
        /\ UNCHANGED shared

\* next_task goes on without a validation task.
NoValidation(w) == IF worker[w].flag THEN "next_execution" ELSE "next"

\* try_validate_next_version claims the index it read, if it still is that.
ClaimValidation(w) ==
    LET v == worker[w].num
    IN  /\ At(w, "next_validation")
        /\ IF validation_idx = v
           THEN /\ validation_idx' = [v EXCEPT !.idx = @ + 1]
                /\ Goto(w, "next_executed")
           ELSE /\ Goto(w, NoValidation(w))
                /\ UNCHANGED validation_idx
        /\ UNCHANGED <<statuses, txn_dependency, commit_state, execution_idx,
                       markers, commits, locks, memory, cvar>>

\* ... and returns a task if the transaction is executed.
StartValidation(w) ==
    LET v == worker[w].num
    IN  /\ At(w, "next_executed")
        /\ IF is_executed(v.idx, FALSE)
           THEN Take(w, ValidationTask(v.idx, txn_status[v.idx].inc, v.wave))
           ELSE Goto(w, NoValidation(w))
        /\ UNCHANGED shared

\* try_execute_next_version claims an index ...
ClaimExecution(w) ==
    /\ At(w, "next_execution")
    /\ execution_idx' = execution_idx + 1
    /\ worker' = [worker EXCEPT
          ![w].pc = IF execution_idx < num_txns THEN "next_incarnate" ELSE "next",
          ![w].num.idx = execution_idx]
    /\ UNCHANGED <<statuses, txn_dependency, commit_state, validation_idx, markers,
                   commits, locks, memory, cvar>>

\* ... and incarnates the transaction if it is ready: try_incarnate, also
\* called when an abort is finished.
TryIncarnate(w) ==
    LET t == worker[w].num.idx
    IN  /\ At(w, "next_incarnate")
        /\ IF txn_status[t].name = "Ready"
           THEN /\ txn_status' = [txn_status EXCEPT ![t].name = "Executing"]
                /\ Take(w, ExecutionTask(t, txn_status[t]))
           ELSE /\ UNCHANGED txn_status
                /\ IF worker[w].ret = "finish_abort" THEN Take(w, NoTask("Retry"))
                   ELSE Goto(w, "next")
        /\ UNCHANGED <<validation_status, txn_dependency, indices, markers,
                       commits, locks, memory, cvar>>

-----------------------------------------------------------------------------
(* execute.                                                                *)

\* The reads of transaction t so far cover a prefix of its sequence.
NextRead(w) ==
    ReadKeys(block, worker[w].task.txn)[Cardinality(DOMAIN worker[w].reads) + 1]

\* A read captures a version and its value; one that meets an estimate
\* waits for its writer.
Read(w) ==
    LET t == worker[w].task.txn
        k == NextRead(w)
        read == IF k \in ModuleKeys
                THEN [ver |-> modules[k].ver, val |-> modules[k].val, est |-> FALSE]
                ELSE fetch_data(k, t)
    IN  /\ At(w, "read")
        /\ worker' = [worker EXCEPT ![w] =
              IF read.est
              THEN [@ EXCEPT !.pc = "wait", !.num.idx = read.ver[1]]
              ELSE Executes(w, [j \in DOMAIN @.reads \cup {k} |->
                                   IF j = k THEN [ver |-> read.ver, val |-> read.val]
                                   ELSE @.reads[j]], FALSE)]
        /\ UNCHANGED shared

\* interrupt_requested: the VM notices that the scheduler was halted and the
\* execution ends as a speculative failure.
Interrupt(w) ==
    /\ At(w, "read")
    /\ has_halted
    /\ worker' = [worker EXCEPT ![w] = Executes(w, @.reads, TRUE)]
    /\ UNCHANGED shared

\* wait_for_dependency: with the list of the dependency locked, the read is
\* tried again if the dependency was executed in the meantime, ...
WaitForDependency(w) ==
    LET dep == worker[w].num.idx
    IN  /\ At(w, "wait")
        /\ dlock[dep] = None
        /\ IF is_executed(dep, TRUE)
           THEN Goto(w, "read") /\ UNCHANGED dlock
           ELSE Goto(w, "suspend") /\ dlock' = [dlock EXCEPT ![dep] = w]
        /\ UNCHANGED <<statuses, txn_dependency, indices, markers, commits, vlock,
                       memory, cvar>>

\* ... or else the transaction is suspended and listed, unless it was halted.
Suspend(w) ==
    LET t == worker[w].task.txn
        dep == worker[w].num.idx
        st == txn_status[t]
    IN  /\ At(w, "suspend")
        /\ dlock' = [dlock EXCEPT ![dep] = None]
        /\ \/ /\ st.name = "Executing"
              /\ txn_status' = [txn_status EXCEPT ![t] = Status("Suspended", st.inc, w)]
              /\ txn_dependency' = [txn_dependency EXCEPT ![dep] = @ \cup {t}]
              /\ cvar' = [cvar EXCEPT ![w] = "Unresolved"]
              /\ Goto(w, "waiting")
           \/ /\ st.name # "Executing"
              /\ worker' = [worker EXCEPT ![w] =
                    IF st.name = "Halted" THEN Executes(w, @.reads, TRUE)
                    ELSE [@ EXCEPT !.pc = "error"]]
              /\ UNCHANGED <<txn_status, txn_dependency, cvar>>
        /\ UNCHANGED <<validation_status, indices, markers, commits, vlock, memory>>

\* The condition variable of the suspended execution changed.
Awake(w) ==
    /\ At(w, "waiting")
    /\ cvar[w] # "Unresolved"
    /\ worker' = [worker EXCEPT ![w] =
          IF cvar[w] = "Halted" THEN Executes(w, @.reads, TRUE)
          ELSE [@ EXCEPT !.pc = "read"]]
    /\ UNCHANGED shared

\* The output of the execution the worker is at.
CurrentOutput(w) ==
    IF worker[w].flag THEN EmptyFunction
    ELSE Output(block, worker[w].task.txn,
                [k \in DOMAIN worker[w].reads |-> worker[w].reads[k].val])

\* A key is written that the previous incarnation had not written.
needs_suffix_validation(t, output) ==
    ~((DOMAIN output \cap DataKeys) \subseteq DOMAIN last_input_output[t].output)

\* VersionedData::write refuses to overwrite the same or a later incarnation.
may_write(k, t, inc) == data[k][t] = NoEntry \/ data[k][t].inc < inc

\* The output is written key by key, then the keys that only the previous
\* incarnation wrote are removed.
Write(w) ==
    LET t == worker[w].task.txn
        output == CurrentOutput(w)
        writes == worker[w].todo \cap DOMAIN output
    IN  /\ At(w, "write")
        /\ \E k \in IF writes # {} THEN writes ELSE worker[w].todo :
              /\ data' = [data EXCEPT ![k][t] =
                    IF k \in writes
                    THEN [inc |-> worker[w].task.inc, val |-> output[k], est |-> FALSE]
                    ELSE NoEntry]
              /\ worker' = [worker EXCEPT
                    ![w].todo = @ \ {k},
                    ![w].pc = IF \/ k \in writes /\ ~may_write(k, t, worker[w].task.inc)
                                 \/ k \notin writes /\ data[k][t] = NoEntry
                              THEN "error" ELSE @]
        /\ UNCHANGED <<statuses, txn_dependency, indices, markers, commits, locks,
                       modules, skip_module_reads_validation, last_input_output, cvar>>

\* TxnLastInputOutput::record.  From here on flag is needs_suffix_validation.
Record(w) ==
    LET t == worker[w].task.txn
        output == CurrentOutput(w)
    IN  /\ At(w, "write")
        /\ worker[w].todo = {}
        /\ last_input_output' = [last_input_output EXCEPT ![t] =
              [ok |-> ~worker[w].flag, input |-> worker[w].reads, output |-> output]]
        /\ worker' = [worker EXCEPT
              ![w].pc = "finish_execution",
              ![w].reads = EmptyFunction,
              ![w].flag = needs_suffix_validation(t, output)]
        /\ UNCHANGED <<statuses, txn_dependency, indices, markers, commits, locks,
                       data, modules, skip_module_reads_validation, cvar>>

-----------------------------------------------------------------------------
(* finish_execution, and the parts it shares with the commit hook.         *)

\* Mutant: the flag is not reset.
SafelyFinishedNot(t) == txn_status

\* set_executed_status and set_aborted_status of a halted transaction.
SafelyFinished(t) == [txn_status EXCEPT ![t].safe = TRUE]

\* finish_execution takes the validation lock and sets the executed status.
FinishExecution(w) ==
    LET t == worker[w].task.txn
        inc == worker[w].task.inc
        st == txn_status[t]
        expected == st.name = "Executing" /\ st.inc = inc
    IN  /\ At(w, "finish_execution")
        /\ vlock[t] = None
        /\ vlock' = [vlock EXCEPT ![t] = w]
        /\ txn_status' =
              IF expected THEN [txn_status EXCEPT ![t] = Status("Executed", inc, None)]
              ELSE IF st.name = "Halted" THEN SafelyFinished(t)
              ELSE txn_status
        /\ worker' = [worker EXCEPT
              ![w].pc = IF expected \/ st.name = "Halted" THEN "wake" ELSE "error",
              ![w].ret = "finish_execution"]
        /\ UNCHANGED <<validation_status, txn_dependency, indices, markers, commits,
                       dlock, memory, cvar>>

\* Where wake_dependencies_after_execution returns to.
AfterWake(w) == IF worker[w].ret = "hook" THEN "decrease" ELSE "finish_load"

\* wake_dependencies_after_execution takes the list of dependencies, ...
TakeDependencies(w) ==
    LET t == Txn(w)
        deps == txn_dependency[t]
    IN  /\ At(w, "wake")
        /\ dlock[t] = None
        /\ txn_dependency' = [txn_dependency EXCEPT ![t] = {}]
        /\ worker' = [worker EXCEPT
              ![w].pc = IF deps = {} THEN AfterWake(w) ELSE "resume",
              ![w].todo = deps,
              ![w].num.idx = IF deps = {} THEN num_txns
                             ELSE CHOOSE d \in deps : \A e \in deps : d <= e]
        /\ UNCHANGED <<statuses, indices, markers, commits, locks, memory, cvar>>

\* ... resumes each of them ...
Resume(w) ==
    /\ At(w, "resume")
    /\ \E d \in worker[w].todo :
          LET st == txn_status[d]
          IN  /\ txn_status' =
                    IF st.name = "Suspended" THEN [txn_status EXCEPT ![d].name = "Ready"]
                    ELSE txn_status
              /\ worker' = [worker EXCEPT
                    ![w].todo = @ \ {d},
                    ![w].pc = IF st.name \notin {"Suspended", "Halted"} THEN "error"
                              ELSE IF worker[w].todo = {d} THEN "fetch_min" ELSE @]
    /\ UNCHANGED <<validation_status, txn_dependency, indices, markers, commits,
                   locks, memory, cvar>>

\* ... and has the execution index reach the lowest of them again.
FetchMin(w) ==
    /\ At(w, "fetch_min")
    /\ execution_idx' = MinOf(execution_idx, worker[w].num.idx)
    /\ Goto(w, AfterWake(w))
    /\ UNCHANGED <<statuses, txn_dependency, commit_state, validation_idx, markers,
                   commits, locks, memory, cvar>>

\* finish_execution loads the validation index.  A transaction the index
\* has passed is validated by this worker, if need be with its suffix.
FinishLoad(w) ==
    LET t == worker[w].task.txn
    IN  /\ At(w, "finish_load")
        /\ IF validation_idx.idx > t
           THEN /\ worker' = [worker EXCEPT
                      ![w].task.wave = validation_idx.wave,
                      ![w].pc = IF worker[w].flag THEN "decrease" ELSE "require_wave"]
                /\ UNCHANGED vlock
           ELSE /\ vlock' = [vlock EXCEPT ![t] = None]
                /\ Take(w, NoTask("Retry"))
        /\ UNCHANGED <<statuses, txn_dependency, indices, markers, commits, dlock,
                       memory, cvar>>

\* The end of finish_execution: the wave this worker validates is required.
RequireWave(w) ==
    LET t == worker[w].task.txn
    IN  /\ At(w, "require_wave")
        /\ validation_status' =
              [validation_status EXCEPT ![t].required = worker[w].task.wave]
        /\ vlock' = [vlock EXCEPT ![t] = None]
        /\ Take(w, ValidationTask(t, worker[w].task.inc, worker[w].task.wave))
        /\ UNCHANGED <<txn_status, txn_dependency, indices, markers, commits,
                       dlock, memory, cvar>>

\* Where decrease_validation_idx returns to.
AfterDecrease(w) ==
    CASE worker[w].ret = "hook" -> "queue"
      [] worker[w].ret = "finish_execution" -> "require_wave"
      [] worker[w].ret = "finish_abort" -> "abort_done"

\* decrease_validation_idx to the transaction after: under that one's
\* validation lock the wave about to start is triggered, ...
TriggerWave(w) ==
    LET target == Txn(w) + 1
        v == validation_idx
    IN  /\ At(w, "decrease")
        /\ IF target < num_txns /\ v.idx > target
           THEN /\ vlock[target] = None
                /\ validation_status' =
                      [validation_status EXCEPT ![target].triggered = MaxOf(@, v.wave + 1)]
                /\ worker' = [worker EXCEPT ![w].pc = "decrease_cas", ![w].num = v]
           ELSE Goto(w, AfterDecrease(w)) /\ UNCHANGED validation_status
        /\ UNCHANGED <<txn_status, txn_dependency, indices, markers, commits, locks,
                       memory, cvar>>

\* ... and the index is exchanged if it still is what was loaded.
DecreaseValidationIdx(w) ==
    LET v == worker[w].num
    IN  /\ At(w, "decrease_cas")
        /\ IF validation_idx = v
           THEN /\ validation_idx' = [idx |-> Txn(w) + 1, wave |-> v.wave + 1]
                /\ worker' = [worker EXCEPT
                      ![w].pc = AfterDecrease(w),
                      ![w].task.wave = IF worker[w].ret = "finish_execution"
                                       THEN v.wave + 1 ELSE @]
           ELSE Goto(w, "decrease") /\ UNCHANGED validation_idx
        /\ UNCHANGED <<statuses, txn_dependency, commit_state, execution_idx, markers,
                       commits, locks, memory, cvar>>

-----------------------------------------------------------------------------
(* validate and update_on_validation.                                      *)

\* The captured reads are validated one by one, those of modules last.
Validate(w) ==
    LET t == worker[w].task.txn
        todo == worker[w].todo
    IN  /\ At(w, "validate")
        /\ \/ /\ todo = {}
              /\ worker' = [worker EXCEPT ![w].pc = "finish_validation", ![w].flag = TRUE]
           \/ \E k \in IF todo \cap DataKeys # {} THEN todo \cap DataKeys ELSE todo :
                 worker' = [worker EXCEPT
                    ![w].todo = @ \ {k},
                    ![w].pc = IF validate_read(k, worker[w].reads[k], t) THEN @ ELSE "abort"]
        /\ UNCHANGED shared

\* Mutant: an incarnation that is being aborted can be aborted again.
may_abort_again(t, inc) == txn_status[t].name \in {"Executed", "Aborting"}

may_abort(t, inc) == txn_status[t] = Status("Executed", inc, None)

\* try_abort: only the first to find the incarnation invalid aborts it.
TryAbort(w) ==
    LET t == worker[w].task.txn
    IN  /\ At(w, "abort")
        /\ IF may_abort(t, worker[w].task.inc)
           THEN /\ txn_status' = [txn_status EXCEPT ![t].name = "Aborting"]
                /\ worker' = [worker EXCEPT
                      ![w].pc = "estimate",
                      ![w].todo = DOMAIN last_input_output[t].output \cap DataKeys]
           ELSE /\ worker' = [worker EXCEPT ![w].pc = "finish_validation", ![w].flag = FALSE]
                /\ UNCHANGED txn_status
        /\ UNCHANGED <<validation_status, txn_dependency, indices, markers, commits,
                       locks, memory, cvar>>

\* update_transaction_on_abort.
MarkEstimate(w) ==
    LET t == worker[w].task.txn
    IN  /\ At(w, "estimate")
        /\ \E k \in worker[w].todo :
              /\ data' = IF data[k][t] = NoEntry THEN data
                         ELSE [data EXCEPT ![k][t].est = TRUE]
              /\ worker' = [worker EXCEPT
                    ![w].todo = @ \ {k},
                    ![w].pc = IF data[k][t] = NoEntry THEN "error" ELSE @]
        /\ UNCHANGED <<statuses, txn_dependency, indices, markers, commits, locks,
                       modules, skip_module_reads_validation, last_input_output, cvar>>

\* finish_abort: the next incarnation is ready, under the validation lock
\* that is held until the transactions above are validated again.
FinishAbort(w) ==
    LET t == worker[w].task.txn
        inc == worker[w].task.inc
        st == txn_status[t]
        expected == st.name = "Aborting" /\ st.inc = inc
    IN  /\ At(w, "estimate")
        /\ worker[w].todo = {}
        /\ vlock[t] = None
        /\ vlock' = [vlock EXCEPT ![t] = w]
        /\ txn_status' =
              IF expected THEN [txn_status EXCEPT ![t] = Status("Ready", inc + 1, None)]
              ELSE IF st.name = "Halted" THEN SafelyFinished(t)
              ELSE txn_status
        /\ worker' = [worker EXCEPT
              ![w].pc = IF expected \/ st.name = "Halted" THEN "decrease" ELSE "error",
              ![w].ret = "finish_abort"]
        /\ UNCHANGED <<validation_status, txn_dependency, indices, markers, commits,
                       dlock, memory, cvar>>

\* The lock is released ...
AbortDone(w) ==
    LET t == worker[w].task.txn
    IN  /\ At(w, "abort_done")
        /\ vlock' = [vlock EXCEPT ![t] = None]
        /\ Goto(w, "abort_load")
        /\ UNCHANGED <<statuses, txn_dependency, indices, markers, commits, dlock,
                       memory, cvar>>

\* ... and if the execution index has passed the transaction, this worker
\* tries to execute it itself.
AbortLoad(w) ==
    LET t == worker[w].task.txn
    IN  /\ At(w, "abort_load")
        /\ IF execution_idx > t
           THEN worker' = [worker EXCEPT ![w].pc = "next_incarnate", ![w].num.idx = t]
           ELSE Take(w, NoTask("Retry"))
        /\ UNCHANGED shared

\* finish_validation records the wave, also for one that lost the abort.
FinishValidation(w) ==
    LET t == worker[w].task.txn
    IN  /\ At(w, "finish_validation")
        /\ vlock[t] = None
        /\ validation_status' =
              [validation_status EXCEPT ![t].validated = MaxOf(@, worker[w].task.wave)]
        /\ IF worker[w].flag THEN Goto(w, "arm") ELSE Take(w, NoTask("Retry"))
        /\ UNCHANGED <<txn_status, txn_dependency, indices, markers, commits, locks,
                       memory, cvar>>

\* Mutant: a validated transaction is not announced.
ArmNot(w) ==
    /\ At(w, "arm")
    /\ Take(w, NoTask("Retry"))
    /\ UNCHANGED shared

\* queueing_commits_arm: there may be something to commit.
Arm(w) ==
    /\ At(w, "arm")
    /\ queueing_commits' = [queueing_commits EXCEPT !.armed = TRUE]
    /\ Take(w, NoTask("Retry"))
    /\ UNCHANGED <<statuses, txn_dependency, indices, markers, commit_queue,
                   final_results, locks, memory, cvar>>
-----------------------------------------------------------------------------
(* The block.                                                              *)

AllExited == \A w \in Workers : At(w, "exit")

\* What finalize_parallel_execution runs into with the epilogue at index e.
finalize_result(e, inc) ==
    IF commit_queue # <<>> THEN "remaining"
    ELSE IF e - 1 \notin final_results \/ e \in final_results THEN "misplaced"
    ELSE IF e = num_txns THEN "ok"
    ELSE IF \/ ~(txn_status[e].name = "Halted" /\ txn_status[e].safe)
            \/ \E k \in DOMAIN last_input_output[e].output \cap DataKeys : data[k][e] = NoEntry
         THEN "unprepared"
    ELSE IF \E k \in EpilogueKeys(block) : ~may_write(k, e, inc) THEN "regressed"
    ELSE "ok"

\* finalize_parallel_execution, by one thread when every worker has exited:
\* the epilogue is executed at the index after the last committed
\* transaction, over whatever the transaction of that index had written.
\* prepare_for_block_epilogue gives it incarnation 1 there.
FinalizeBlock ==
    LET e == commit_state.idx
        inc == IF e = num_txns THEN 0 ELSE 1
        result == finalize_result(e, inc)
    IN  /\ AllExited
        /\ block_result = "running"
        /\ block_result' = result
        /\ IF result = "ok"
           THEN /\ final_results' = final_results \cup {num_txns}
                /\ data' = [k \in DataKeys |->
                      [j \in Txns |->
                         IF j # e THEN data[k][j]
                         ELSE IF k \in EpilogueKeys(block)
                              THEN [inc |-> inc, val |-> Base[k], est |-> FALSE]
                         ELSE NoEntry]]
           ELSE UNCHANGED <<final_results, data>>
        /\ UNCHANGED <<statuses, txn_dependency, indices, done_marker, has_halted,
                       queueing_commits, commit_queue, locks, modules,
                       skip_module_reads_validation, last_input_output, cvar, worker,
                       block>>

Step(w) ==
  /\ UNCHANGED block
  /\ \/ LockCommits(w) \/ SkipCommits(w)
     \/ TryCommit(w) \/ TryCommitNothing(w) \/ TryCommitContended(w)
     \/ UnlockCommits(w)
     \/ PublishModules(w) \/ RecordValidationRequirements(w) \/ AddToCommitQueue(w)
     \/ HaltStart(w) \/ HaltTxn(w) \/ Halted(w)
     \/ DrainCommitQueue(w) \/ StartTask(w) \/ Wakeup(w)
     \/ NextTask(w) \/ ClaimValidation(w) \/ StartValidation(w)
     \/ ClaimExecution(w) \/ TryIncarnate(w)
     \/ Read(w) \/ Interrupt(w)
     \/ WaitForDependency(w) \/ Suspend(w) \/ Awake(w)
     \/ Write(w) \/ Record(w)
     \/ FinishExecution(w) \/ TakeDependencies(w) \/ Resume(w) \/ FetchMin(w)
     \/ FinishLoad(w) \/ RequireWave(w) \/ TriggerWave(w) \/ DecreaseValidationIdx(w)
     \/ Validate(w) \/ TryAbort(w) \/ MarkEstimate(w)
     \/ FinishAbort(w) \/ AbortDone(w) \/ AbortLoad(w)
     \/ FinishValidation(w) \/ Arm(w)

\* The block has been executed, and that is the end of it.
Finished == block_result # "running" /\ UNCHANGED vars

Next == (\E w \in Workers : Step(w)) \/ FinalizeBlock \/ Finished

Spec == Init /\ [][Next]_vars

\* The operating system schedules every thread that can go on.
Fairness == (\A w \in Workers : WF_vars(Step(w))) /\ WF_vars(FinalizeBlock)

FairSpec == Spec /\ Fairness

-----------------------------------------------------------------------------
(* Sequential execution of the block, the reference.                       *)

ReadSet(b, t) == {ReadKeys(b, t)[i] : i \in 1 .. Len(ReadKeys(b, t))}

SequentialState[t \in 0 .. num_txns] ==
    [b \in Blocks |->
        IF t = 0 THEN Base
        ELSE LET before == SequentialState[t - 1][b]
                 output == Output(b, t - 1, [k \in ReadSet(b, t - 1) |-> before[k]])
             IN  [k \in Keys |-> IF k \in DOMAIN output THEN output[k] ELSE before[k]]]

SequentialOutput(t) ==
    Output(block, t, [k \in ReadSet(block, t) |-> SequentialState[t][block][k]])

-----------------------------------------------------------------------------
(* Properties.                                                             *)

\* No interleaving leads to a code invariant error or a panic in the
\* scheduler, the worker loop or the multi-version data: the final
\* validation of a committed transaction, an unexpected status in suspend,
\* resume, set_executed_status or set_aborted_status, a missing entry in
\* remove or mark_estimate, an incarnation that regresses.
NoInvariantError == \A w \in Workers : ~At(w, "error")

\* What is committed is what sequential execution of the block gives: the
\* output of each committed transaction, and the values the multi-version
\* data and the module cache hold for the ones above.
CommittedAsSequential ==
    /\ \A t \in 0 .. commit_state.idx - 1 :
          /\ last_input_output[t].ok
          /\ last_input_output[t].output = SequentialOutput(t)
          /\ \A k \in DataKeys :
                IF k \in DOMAIN SequentialOutput(t)
                THEN /\ data[k][t] # NoEntry /\ ~data[k][t].est
                     /\ data[k][t].val = SequentialOutput(t)[k]
                ELSE data[k][t] = NoEntry
    /\ (\A w \in Workers : ~At(w, "publish")) =>
          \A k \in ModuleKeys : modules[k].val = SequentialState[commit_state.idx][block][k]

\* No suspended transaction is forgotten: it is on the list of one that will
\* yet finish an execution, or on that of a worker about to resume it, or
\* the scheduler is being halted and will reach it.
NoZombieDependency ==
    \A t \in Txns : txn_status[t].name = "Suspended" =>
        \/ \E d \in Txns : t \in txn_dependency[d] /\
              \/ txn_status[d].name \notin {"Executed", "Committed", "Halted"}
              \/ \E w \in Workers : At(w, "wake") /\ Txn(w) = d
        \/ \E w \in Workers : At(w, "resume") /\ t \in worker[w].todo
        \/ \E w \in Workers : At(w, "halt_txn") /\ t \in worker[w].todo

\* A cut block finalizes: nothing is left in the commit queue, the outputs of
\* the committed transactions are there and only those, and the transaction
\* at the epilogue's index has finished whatever it was doing.
BlockFinalizes == block_result \notin {"remaining", "misplaced", "unprepared"}

\* "This invariant ensures we never regress to an older incarnation": the
\* epilogue, executed as incarnation 1, finds no later one in its place.
EpilogueNeverRegresses == block_result # "regressed"

\* Every block comes to an end, whatever the workers wait for.
BlockEnds == <>(block_result # "running")

=============================================================================
