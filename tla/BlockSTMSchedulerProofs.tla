------------------------ MODULE BlockSTMSchedulerProofs ------------------------
(***************************************************************************)
(* Block-STM for every number of transactions and workers, every block     *)
(* whose transactions are deterministic, and every interleaving.           *)
(*                                                                         *)
(* This module states the invariants and shows that those about who does   *)
(* what are preserved by every step that does not end in an error: the     *)
(* locks, which statuses allow an execution, an abort or a commit, on      *)
(* whose list a suspended transaction waits and who will wake it, and the  *)
(* waves that count for a commit.  BlockSTMProofs treats those about the   *)
(* data, shows that no step ends in an error, and concludes.               *)
(*                                                                         *)
(* The proofs are by the actions that matter: for each action a lemma      *)
(* gives its effect on the worker that takes it (StartTaskEffect, ...),    *)
(* Changes names the actions that change each variable, and Roles and      *)
(* Phases those that change what a worker is doing.  All others leave an   *)
(* invariant about that variable or that role alone.                       *)
(***************************************************************************)
EXTENDS BlockSTM, FiniteSetTheorems, WellFoundedInduction, TLAPS

-----------------------------------------------------------------------------
(* Phases of a worker.                                                     *)

CommitPcs == {"try_commit", "publish", "require", "queue", "halt", "halt_txn", "halted",
              "unlock"}
HookPcs == {"publish", "require", "wake", "resume", "fetch_min", "decrease",
            "decrease_cas", "queue"}
ExecutionPcs == {"read", "wait", "suspend", "waiting", "write", "finish_execution"}
FinishPcs == {"wake", "resume", "fetch_min", "finish_load", "decrease", "decrease_cas",
              "require_wave"}
AbortPcs == {"decrease", "decrease_cas", "abort_done", "abort_load", "next_incarnate"}
NextPcs == {"next", "next_validation", "next_executed", "next_execution",
            "next_incarnate"}
ValidationPcs == {"validate", "abort", "estimate", "finish_validation", "arm"}
LoopPcs == {"loop", "try_commit", "halt", "halt_txn", "halted", "unlock", "drain"}

Kind(w) == worker[w].task.kind

\* The worker has not turned to its task yet.
Pending(w) == worker[w].pc \in LoopPcs \/ worker[w].ret = "hook"

\* It coordinates the commits.
Coordinates(w) == worker[w].pc \in CommitPcs \/ worker[w].ret = "hook"

\* It executes the transaction of its task, or is about to, ...
Executing(w) == Kind(w) = "Execution" /\ worker[w].ret # "finish_execution"

\* ... is in finish_execution, with the validation lock, ...
Finishing(w) == worker[w].ret = "finish_execution"

\* ... aborts it and marks its writes as estimates, ...
Aborting(w) == worker[w].pc = "estimate"

\* ... or is in finish_abort, with the validation lock.
Aborted(w) ==
    worker[w].ret = "finish_abort" /\ worker[w].pc \in {"decrease", "decrease_cas", "abort_done"}

\* The transaction of its task is nobody else's.
Busy(w) == Executing(w) \/ Aborting(w)

HasStatus(t, names) == txn_status[t].name \in names
IsHalted(t) == txn_status[t].name = "Halted"
NoneHalted == \A t \in Txns : ~IsHalted(t)
AllHalted == \A t \in Txns : IsHalted(t)

\* The kinds of tasks a worker has at each step.
PhaseOK(w) ==
    LET p == worker[w].pc
        r == worker[w].ret
        k == Kind(w)
    IN  /\ k \in {"Retry", "Done", "Wakeup", "Execution", "Validation"}
        /\ \/ r = "loop" /\ p \in LoopPcs
           \/ r = "loop" /\ p \in ExecutionPcs /\ k = "Execution"
           \/ r = "loop" /\ p \in ValidationPcs /\ k = "Validation"
           \/ r = "loop" /\ p \in NextPcs /\ k \in {"Retry", "Wakeup"}
           \/ r = "loop" /\ p = "wakeup" /\ k = "Wakeup"
           \/ r = "loop" /\ p = "exit" /\ k = "Done"
           \/ r = "hook" /\ p \in HookPcs
           \/ r = "finish_execution" /\ p \in FinishPcs /\ k = "Execution"
           \/ r = "finish_abort" /\ p \in AbortPcs /\ k = "Validation"

WorkerFields == {"pc", "task", "ret", "reads", "todo", "num", "flag"}

Tasks ==
    [kind : {"Retry", "Done", "Wakeup", "Execution", "Validation"},
     txn : Txns, inc : Nat, wave : Nat, cv : Workers \cup {None}]

FieldsOK(w) ==
    /\ DOMAIN worker[w] = WorkerFields
    /\ worker[w].task \in Tasks
    /\ worker[w].num \in [idx : Nat, wave : Nat]
    /\ worker[w].flag \in BOOLEAN
    /\ worker[w].pc \in {"next_executed", "next_incarnate", "next_validation", "wait", "suspend"}
          => worker[w].num.idx \in Txns

WorkerOK(w) ==
    /\ FieldsOK(w)
    /\ PhaseOK(w)
    /\ worker[w].ret = "hook" \/ worker[w].pc = "halt" => commit_state.idx > 0

StatusNames == {"Ready", "Executing", "Suspended", "Executed", "Aborting", "Committed",
                "Halted"}

Statuses ==
    [name : StatusNames, inc : Nat, cv : Workers \cup {None}, safe : BOOLEAN]

\* The types of the scheduler's variables and the phases of the workers.
TypeOK ==
    /\ block \in Blocks
    /\ txn_status \in [Txns -> Statuses]
    /\ validation_status \in
          [Txns -> [triggered : Nat, required : Nat, validated : Nat \cup {-1}]]
    /\ txn_dependency \in [Txns -> SUBSET Txns]
    /\ commit_state \in [idx : 0 .. num_txns, wave : Nat]
    /\ execution_idx \in Nat
    /\ validation_idx \in [idx : Nat, wave : Nat]
    /\ done_marker \in BOOLEAN
    /\ has_halted \in BOOLEAN
    /\ queueing_commits \in [armed : BOOLEAN, owner : Workers \cup {None}]
    /\ vlock \in [Txns -> Workers \cup {None}]
    /\ dlock \in [Txns -> Workers \cup {None}]
    /\ DOMAIN modules = ModuleKeys
    /\ skip_module_reads_validation \in BOOLEAN
    /\ DOMAIN last_input_output = Txns
    /\ cvar \in [Workers -> {"Resolved", "Unresolved", "Halted"}]
    /\ DOMAIN worker = Workers
    /\ \A w \in Workers : WorkerOK(w)

\* The three kinds of locks.
LocksOK ==
    \A w \in Workers :
       /\ queueing_commits.owner = w <=> Coordinates(w)
       /\ \A t \in Txns :
             /\ vlock[t] = w <=> (Finishing(w) \/ Aborted(w)) /\ worker[w].task.txn = t
             /\ dlock[t] = w <=> At(w, "suspend") /\ worker[w].num.idx = t

\* The scheduler was halted before the last commit.
Cut == done_marker /\ commit_state.idx < num_txns

\* A cut block halts all transactions, one worker going through them; nothing
\* is halted before, and the workers that leave have seen the done marker.
HaltOK ==
    /\ ~Cut => NoneHalted
    /\ Cut => AllHalted \/ \E w \in Workers : At(w, "halt_txn")
    /\ commit_state.idx = num_txns => done_marker
    /\ done_marker => commit_state.idx > 0
    /\ has_halted => done_marker /\ \A w \in Workers : ~At(w, "halt_txn")
    /\ \A w \in Workers :
          /\ At(w, "halt_txn") =>
                /\ Cut
                /\ (worker[w].todo \subseteq Txns /\ worker[w].todo # {})
                /\ \A t \in Txns : IsHalted(t) <=> t \notin worker[w].todo
          /\ At(w, "halted") => done_marker
          /\ worker[w].ret = "hook" \/ At(w, "halt") => ~Cut
          /\ At(w, "halt") => worker[w].todo = Txns
          /\ Kind(w) = "Done" => done_marker

\* Exactly the transactions below the commit index are committed, and nobody
\* executes or aborts one of them.
CommitsOK ==
    /\ \A t \in Txns :
          IF t < commit_state.idx THEN HasStatus(t, {"Committed", "Halted"})
          ELSE ~HasStatus(t, {"Committed"})
    /\ \A w \in Workers :
          Busy(w) \/ Finishing(w) \/ Aborted(w) => commit_state.idx <= worker[w].task.txn

\* The transactions that have been added to the commit queue so far.
Queued ==
    IF \E w \in Workers : worker[w].ret = "hook"
    THEN commit_state.idx - 1 ELSE commit_state.idx

\* The queue holds those of them that have no final result yet, in order.
QueueOK ==
    /\ commit_queue \in Seq(Nat)
    /\ Len(commit_queue) <= Queued
    /\ \A i \in 1 .. Len(commit_queue) :
          commit_queue[i] = Queued - Len(commit_queue) + i - 1
    /\ block_result = "running" => final_results = 0 .. Queued - Len(commit_queue) - 1
    /\ AllExited => commit_queue = <<>>

\* What a status says of the workers, ...
StatusOf(t) ==
    LET st == txn_status[t]
    IN  /\ st.cv # None => Executing(st.cv) /\ worker[st.cv].task.txn = t
        /\ st.name \in {"Executing", "Aborting"} \/ ~st.safe =>
              \E w \in Workers : Busy(w) /\ worker[w].task.txn = t
        /\ st.name = "Suspended" => st.cv # None
        /\ st.name \in {"Executed", "Aborting", "Committed", "Halted"} => st.cv = None
        /\ st.name \in {"Executed", "Aborting", "Committed"} => last_input_output[t].ok

OneBusy ==
    \A v, w \in Workers :
       Busy(v) /\ Busy(w) /\ worker[v].task.txn = worker[w].task.txn => v = w

StatusOK == (\A t \in Txns : StatusOf(t)) /\ OneBusy

\* ... and a worker's execution or abort of the status.
ExecutionOf(w) ==
    LET st == txn_status[worker[w].task.txn]
        inc == worker[w].task.inc
    IN  /\ Executing(w) =>
              \/ st.name = "Halted"
              \/ st.name = "Executing" /\ st.inc = inc /\ st.cv \in {None, w}
              \/ At(w, "waiting") /\ st.name \in {"Suspended", "Ready"}
                    /\ st.inc = inc /\ st.cv = w
        /\ At(w, "waiting") => st.name = "Halted" \/ st.cv = w
        /\ At(w, "waiting") /\ cvar[w] = "Resolved" => st.name \in {"Executing", "Halted"}
        /\ At(w, "waiting") /\ cvar[w] = "Halted" => st.name = "Halted"
        /\ At(w, "write") /\ worker[w].flag => st.name = "Halted"
        /\ At(w, "finish_execution") /\ ~last_input_output[worker[w].task.txn].ok =>
              st.name = "Halted"
        /\ Aborting(w) => st.name = "Halted" \/ (st.name = "Aborting" /\ st.inc = inc)
        /\ Finishing(w) =>
              \/ st.name = "Halted"
              \/ st.name \in {"Executed", "Aborting"} /\ st.inc = inc

ExecutionOK == \A w \in Workers : ExecutionOf(w)

\* A worker on its way out: it takes on nothing any more.
Retired(w) ==
    /\ done_marker
    /\ Kind(w) \in {"Retry", "Done", "Validation"}
    /\ Pending(w) \/ worker[w].pc \in {"next", "exit", "validate", "abort",
                                      "finish_validation", "arm"}
    /\ Kind(w) = "Validation" => IsHalted(worker[w].task.txn)

\* A wakeup on its way.
Wakes(w) == Kind(w) = "Wakeup" /\ (Pending(w) \/ At(w, "wakeup"))

\* It will find its execution waiting, ...
Woken(c, t) ==
    /\ txn_status[t].name = "Executing" /\ txn_status[t].cv = c
    /\ At(c, "waiting") /\ worker[c].task.txn = t
    /\ cvar[c] = "Unresolved"

\* ... or halted.
Ended(c, t) ==
    /\ IsHalted(t)
    /\ done_marker
    /\ \/ (Executing(c) \/ Finishing(c)) /\ worker[c].task.txn = t
       \/ Retired(c)

WakeupOf(v) ==
    LET c == worker[v].task.cv
        t == worker[v].task.txn
    IN  Wakes(v) => c \in Workers /\ (Woken(c, t) \/ Ended(c, t))

WakeupsOK ==
    /\ \A v \in Workers : WakeupOf(v)
    /\ \A v, w \in Workers :
          Wakes(v) /\ Wakes(w) /\ worker[v].task.cv = worker[w].task.cv =>
             v = w \/ IsHalted(worker[v].task.txn)

\* t is on a list of dependencies, or on that of a worker that resumes.
ResumedBy(w, t) == At(w, "resume") /\ t \in worker[w].todo

\* Someone is about to take the list of d.
WillWake(d) == \E w \in Workers : At(w, "wake") /\ Txn(w) = d

HasWaker(d) == ~HasStatus(d, {"Executed", "Committed"}) \/ WillWake(d)

DependentOf(t) ==
    /\ \A d \in Txns : t \in txn_dependency[d] => HasStatus(t, {"Suspended", "Halted"})
    /\ \A w \in Workers : ResumedBy(w, t) => HasStatus(t, {"Suspended", "Halted"})
    /\ \A d, e \in Txns : t \in txn_dependency[d] /\ t \in txn_dependency[e] => d = e
    /\ \A d \in Txns, w \in Workers : ~(t \in txn_dependency[d] /\ ResumedBy(w, t))
    /\ \A v, w \in Workers : ResumedBy(v, t) /\ ResumedBy(w, t) => v = w
    /\ HasStatus(t, {"Suspended"}) =>
          \/ \E d \in Txns : t \in txn_dependency[d]
          \/ \E w \in Workers : ResumedBy(w, t)

DependenciesOK ==
    /\ \A t \in Txns : DependentOf(t)
    /\ \A d \in Txns : txn_dependency[d] # {} => HasWaker(d)
    /\ \A w \in Workers :
          /\ At(w, "suspend") => HasWaker(worker[w].num.idx)
          /\ At(w, "resume") => (worker[w].todo \subseteq Txns /\ worker[w].todo # {})

-----------------------------------------------------------------------------
(* The multi-version data.                                                 *)

Written(k, t) == data[k][t] # NoEntry

DataOf(f) == DOMAIN f \cap DataKeys

IsEntry(e) ==
    /\ DOMAIN e = {"inc", "val", "est"}
    /\ e.est \in BOOLEAN
    /\ e # NoEntry => e.inc \in Nat

EntriesOK ==
    /\ DOMAIN data = DataKeys
    /\ \A k \in DataKeys :
          /\ DOMAIN data[k] = Txns
          /\ \A t \in Txns : IsEntry(data[k][t])

\* Outside of an execution that writes, a transaction's entries are its output.
OutputOf(t) ==
    (\A w \in Workers : At(w, "write") => worker[w].task.txn # t) =>
       \A k \in DataKeys : Written(k, t) <=> k \in DOMAIN last_input_output[t].output

OutputsOK == \A t \in Txns : OutputOf(t)

\* An execution that writes.
WritesOf(w) ==
    LET t == worker[w].task.txn
        output == CurrentOutput(w)
        before == last_input_output[t].output
    IN  At(w, "write") =>
           /\ worker[w].todo \subseteq DataOf(output) \cup DataOf(before)
           /\ \A k \in DataKeys :
                 IF k \in worker[w].todo
                 THEN /\ Written(k, t) <=> k \in DOMAIN before
                      /\ Written(k, t) => data[k][t].inc < worker[w].task.inc /\ data[k][t].est
                 ELSE /\ Written(k, t) <=> k \in DOMAIN output
                      /\ Written(k, t) =>
                            data[k][t] = [inc |-> worker[w].task.inc, val |-> output[k],
                                          est |-> FALSE]

WritesOK == \A w \in Workers : WritesOf(w)

\* The entries of transaction t are estimates of earlier incarnations.
AllEstimates(t, inc) ==
    \A k \in DataKeys : Written(k, t) => data[k][t].inc < inc /\ data[k][t].est

\* They are the output recorded last, by that incarnation.
AllFinal(t, inc) ==
    \A k \in DataKeys : Written(k, t) =>
       data[k][t] = [inc |-> inc, val |-> last_input_output[t].output[k], est |-> FALSE]

\* They are those of that incarnation, some of them estimates already.
PartlyEstimates(t, inc, todo) ==
    /\ todo \subseteq DataOf(last_input_output[t].output)
    /\ \A k \in DataKeys : Written(k, t) =>
          data[k][t].inc = inc /\ (k \notin todo => data[k][t].est)

IncarnationOf(t) ==
    /\ HasStatus(t, {"Ready"}) => AllEstimates(t, txn_status[t].inc)
    /\ HasStatus(t, {"Executed", "Committed"}) => AllFinal(t, txn_status[t].inc)

IncarnationBy(w) ==
    LET t == worker[w].task.txn
        inc == worker[w].task.inc
    IN  /\ Executing(w) /\ worker[w].pc \notin {"write", "finish_execution"} =>
              AllEstimates(t, inc)
        /\ At(w, "finish_execution") => AllFinal(t, inc)
        /\ Aborting(w) => PartlyEstimates(t, inc, worker[w].todo)

IncarnationsOK ==
    /\ \A t \in Txns : IncarnationOf(t)
    /\ \A w \in Workers : IncarnationBy(w)

-----------------------------------------------------------------------------
(* Waves.                                                                  *)

\* A validation of t in wave u counts for a commit, as it is now.
Enough(t, u) ==
    /\ u >= commit_state.wave
    /\ \A j \in commit_state.idx .. t : u >= validation_status[j].triggered

\* No validation of t in wave u will count unless the index has passed t.
Covered(t, u) ==
    /\ u <= validation_idx.wave
    /\ validation_idx.idx > t \/ ~Enough(t, u)

\* The worker validates transaction t in wave u, or will.
Validates(w) ==
    /\ Kind(w) = "Validation"
    /\ Pending(w) \/ worker[w].pc \in {"validate", "abort", "finish_validation"}

HasWave(w) ==
    \/ Validates(w)
    \/ Finishing(w) /\ worker[w].pc \in {"decrease", "decrease_cas", "require_wave"}

WavesOK ==
    /\ \A t \in Txns : Covered(t, validation_status[t].validated)
    /\ \A w \in Workers :
          /\ HasWave(w) => Covered(worker[w].task.txn, worker[w].task.wave)
          /\ At(w, "next_executed") => Covered(worker[w].num.idx, worker[w].num.wave)
          /\ At(w, "decrease_cas") =>
                /\ commit_state.idx <= Txn(w) + 1 /\ Txn(w) + 1 < num_txns
                /\ validation_status[Txn(w) + 1].triggered > worker[w].num.wave
          /\ At(w, "next_validation") => worker[w].num.wave <= validation_idx.wave

-----------------------------------------------------------------------------
(* Reads.                                                                  *)

\* The worker has invalidated, or may yet invalidate, reads of the
\* transactions above, and has not started a new wave for them yet.
Disturbs(w) ==
    \/ Aborting(w)
    \/ worker[w].ret = "finish_abort" /\ At(w, "decrease")
    \/ At(w, "write") /\ needs_suffix_validation(worker[w].task.txn, CurrentOutput(w))
    \/ At(w, "finish_execution") /\ worker[w].flag
    \/ Finishing(w) /\ worker[w].flag
          /\ worker[w].pc \in {"wake", "resume", "fetch_min", "finish_load", "decrease"}
    \/ worker[w].ret = "hook"
          /\ worker[w].pc \in {"require", "wake", "resume", "fetch_min", "decrease"}

Undisturbed(t) == \A w \in Workers : Disturbs(w) => Txn(w) >= t

\* If validations of t in wave u count and no one below disturbs it, the read
\* is what a read would return now.
Vouches(t, u, k, read) ==
    Enough(t, u) /\ Undisturbed(t) => validate_read(k, read, t)

\* The reads of an execution that is not recorded yet.
Reads(w) == Executing(w) /\ ~At(w, "finish_execution")

\* The recorded reads are those of the last execution.
Recorded(t) ==
    \/ HasStatus(t, {"Executed"})
    \/ \E w \in Workers : At(w, "finish_execution") /\ worker[w].task.txn = t

\* The reads of the current execution of t are as good as wave u.
Promise(t, u) ==
    /\ \A w \in Workers : Reads(w) /\ worker[w].task.txn = t =>
          \A k \in DOMAIN worker[w].reads : Vouches(t, u, k, worker[w].reads[k])
    /\ Recorded(t) =>
          \A k \in DOMAIN last_input_output[t].input :
             Vouches(t, u, k, last_input_output[t].input[k])

\* The validation in hand is of the incarnation that is executed now.
Current(w) == txn_status[worker[w].task.txn] = Status("Executed", worker[w].task.inc, None)

\* It cannot be any more.
Superseded(w) ==
    LET st == txn_status[worker[w].task.txn]
    IN  \/ st.inc > worker[w].task.inc
        \/ st.inc = worker[w].task.inc /\ st.name \in {"Aborting", "Committed"}

ValidationBy(w) ==
    \A t \in {worker[w].task.txn}, u \in {worker[w].task.wave} :
        /\ Current(w) \/ Superseded(w)
        /\ ~Current(w) => Promise(t, u)
        /\ At(w, "finish_validation") /\ ~worker[w].flag => Superseded(w)
        /\ Current(w) /\ At(w, "validate") =>
              /\ worker[w].reads = last_input_output[t].input
              /\ \A k \in DOMAIN worker[w].reads \ worker[w].todo :
                    Vouches(t, u, k, worker[w].reads[k])
        /\ Current(w) /\ At(w, "finish_validation") =>
              \A k \in DOMAIN last_input_output[t].input :
                 Vouches(t, u, k, last_input_output[t].input[k])

ValidationsOK ==
    NoneHalted =>
       /\ \A t \in Txns : \A u \in {validation_status[t].validated} : Promise(t, u)
       /\ \A w \in Workers : Validates(w) => ValidationBy(w)

\* The first n keys a transaction reads.
FirstReads(b, t, n) == {ReadKeys(b, t)[i] : i \in 1 .. n}

ReadsBy(w) ==
    LET t == worker[w].task.txn
        n == Cardinality(DOMAIN worker[w].reads)
    IN  Reads(w) =>
           /\ n \in 0 .. Len(ReadKeys(block, t))
           /\ DOMAIN worker[w].reads = FirstReads(block, t, n)
           /\ Pending(w) => worker[w].reads = EmptyFunction
           /\ worker[w].pc \in {"read", "wait", "suspend", "waiting"} =>
                 n < Len(ReadKeys(block, t))
           /\ At(w, "write") /\ ~worker[w].flag => n = Len(ReadKeys(block, t))

InputOf(t) ==
    LET io == last_input_output[t]
    IN  io.ok =>
           /\ DOMAIN io.input = ReadSet(block, t)
           /\ io.output = Output(block, t, [k \in DOMAIN io.input |-> io.input[k].val])

ReadsOK ==
    /\ \A w \in Workers : ReadsBy(w)
    /\ \A t \in Txns : InputOf(t)

\* The index of a committed transaction that has published its modules.
Published(j) ==
    /\ j \in Txns
    /\ j < commit_state.idx
    /\ \A w \in Workers : At(w, "publish") => j + 1 < commit_state.idx

\* The version a read captured determines its value.
ReadOK(k, read) ==
    \/ read.ver = <<>> /\ read.val = Base[k]
    \/ /\ k \in ModuleKeys
       /\ \E j \in Txns : read.ver = <<j>> /\ Published(j)
       /\ modules[k].ver # <<>>
       /\ modules[k].ver = read.ver => modules[k].val = read.val
    \/ /\ k \in DataKeys
       /\ \E j \in Txns, inc \in Nat :
             /\ read.ver = <<j, inc>>
             /\ \/ Written(k, j) /\ data[k][j].inc = inc /\ data[k][j].val = read.val
                \/ /\ inc < txn_status[j].inc
                   /\ Written(k, j) => inc < data[k][j].inc

VersionsOK ==
    /\ NoneHalted =>
         /\ \A w \in Workers : Reads(w) =>
               \A k \in DOMAIN worker[w].reads : ReadOK(k, worker[w].reads[k])
         /\ \A t \in Txns : \A k \in DOMAIN last_input_output[t].input :
               ReadOK(k, last_input_output[t].input[k])
    /\ \A k \in ModuleKeys :
          \/ modules[k] = [ver |-> <<>>, val |-> Base[k]]
          \/ \E j \in Txns : modules[k].ver = <<j>> /\ Published(j)
    /\ skip_module_reads_validation =>
          \/ \A k \in ModuleKeys : modules[k].ver = <<>>
          \/ \E w \in Workers : At(w, "require")

-----------------------------------------------------------------------------
(* What is committed.                                                      *)

ModulesPublished ==
    IF \E w \in Workers : At(w, "publish") THEN commit_state.idx - 1 ELSE commit_state.idx

CommittedOf(t) ==
    /\ last_input_output[t].ok
    /\ last_input_output[t].output = SequentialOutput(t)
    /\ \A k \in DataOf(last_input_output[t].input) :
          validate_read(k, last_input_output[t].input[k], t)
    /\ \A k \in DataKeys :
          IF k \in DOMAIN SequentialOutput(t)
          THEN Written(k, t) /\ ~data[k][t].est /\ data[k][t].val = SequentialOutput(t)[k]
          ELSE ~Written(k, t)

\* What transaction t would read is what the transactions below leave.
StateAt(t) ==
    \A k \in DataKeys :
       ~fetch_data(k, t).est /\ fetch_data(k, t).val = SequentialState[t][block][k]

CommittedOK ==
    /\ \A t \in 0 .. commit_state.idx - 1 : CommittedOf(t)
    /\ \A t \in 0 .. commit_state.idx : StateAt(t)
    /\ \A k \in ModuleKeys : modules[k].val = SequentialState[ModulesPublished][block][k]

\* When the block is finalized there is no worker left.
FinalOK == block_result # "running" => AllExited

-----------------------------------------------------------------------------
(* Basic facts.                                                            *)

\* What the assumptions say of the constants.
LEMMA Constants ==
    /\ num_txns \in Nat /\ num_txns > 0
    /\ ModuleKeys \subseteq Keys
    /\ None \notin Workers
    /\ DOMAIN Base = Keys
BY BlockAssumption

\* The transactions are the naturals below num_txns.
LEMMA TxnFacts ==
    \A t : t \in Txns <=> t \in Nat /\ t < num_txns
BY Constants DEF Txns

\* Every set of naturals has a least element.
LEMMA LeastOf ==
    ASSUME NEW S \in SUBSET Nat, S # {}
    PROVE  \E d \in S : \A e \in S : d <= e
<1>1. \E d \in S : \A e \in S : ~ (<<e, d>> \in OpToRel(<, Nat))
  BY NatLessThanWellFounded, WFMin, Zenon, Zenon, Zenon
<1>2. PICK d \in S : \A e \in S : ~ (e < d)
  BY <1>1 DEF OpToRel
<1> QED
  BY <1>2

\* A set of naturals below t has a greatest.
LEMMA GreatestOf ==
    ASSUME NEW t \in Nat, NEW S \in SUBSET (0 .. t - 1), S # {}
    PROVE  \E d \in S : \A e \in S : e <= d
<1> DEFINE R == {t - d : d \in S}
<1>1. R \in SUBSET Nat /\ R # {}
  <2>1. \A d \in S : d \in 0 .. t - 1
    OBVIOUS
  <2>2. \A d \in S : t - d \in Nat
    BY <2>1
  <2> QED
    BY <2>2
<1>2. PICK r \in R : \A q \in R : r <= q
  BY <1>1, LeastOf
<1>3. PICK d \in S : r = t - d
  BY <1>2
<1>4. \A e \in S : t - d <= t - e
  BY <1>2, <1>3
<1> QED
  BY <1>4

\* What MVHashMap::read finds.
LEMMA WritersFacts ==
    ASSUME NEW k, NEW t \in Nat
    PROVE  IF Writers(k, t) = {}
           THEN fetch_data(k, t) = [ver |-> <<>>, val |-> Base[k], est |-> FALSE]
           ELSE \E j \in Writers(k, t) :
                   /\ \A i \in Writers(k, t) : i <= j
                   /\ fetch_data(k, t) =
                         [ver |-> <<j, data[k][j].inc>>, val |-> data[k][j].val,
                          est |-> data[k][j].est]
<1>1. CASE Writers(k, t) = {}
  BY <1>1 DEF fetch_data
<1>2. CASE Writers(k, t) # {}
  <2> DEFINE j == CHOOSE j \in Writers(k, t) : \A i \in Writers(k, t) : i <= j
  <2>1. Writers(k, t) \in SUBSET (0 .. t - 1)
    BY DEF Writers
  <2>2. \E d \in Writers(k, t) : \A i \in Writers(k, t) : i <= d
    BY <1>2, <2>1, GreatestOf
  <2>3. j \in Writers(k, t) /\ \A i \in Writers(k, t) : i <= j
    BY <2>2
  <2> QED
    BY <1>2, <2>3 DEF fetch_data
<1> QED
  BY <1>1, <1>2

-----------------------------------------------------------------------------
(* What each step does to its worker.                                      *)

Others(w) == \A x \in Workers \ {w} : worker'[x] = worker[x]

\* The worker after a step, field by field.
Becomes(w, pc, task, ret, reads, todo, num, flag) ==
    /\ DOMAIN worker' = Workers
    /\ Others(w)
    /\ DOMAIN worker'[w] = WorkerFields
    /\ worker'[w].pc = pc
    /\ worker'[w].task = task
    /\ worker'[w].ret = ret
    /\ worker'[w].reads = reads
    /\ worker'[w].todo = todo
    /\ worker'[w].num = num
    /\ worker'[w].flag = flag

\* Only the step it is at changes.
Moves(w, pc) ==
    LET me == worker[w]
    IN  Becomes(w, pc, me.task, me.ret, me.reads, me.todo, me.num, me.flag)

\* It returns to the loop with a task.
Restarts(w, task) ==
    Becomes(w, "loop", task, "loop", EmptyFunction, {}, [idx |-> 0, wave |-> 0], FALSE)

\* It goes on with an execution, at its next read or at its first write.
Goes(w, reads, failed) ==
    LET me == worker[w]
        t == me.task.txn
        output == IF failed THEN EmptyFunction
                  ELSE Output(block, t, [k \in DOMAIN reads |-> reads[k].val])
    IN  IF failed \/ Cardinality(DOMAIN reads) = Len(ReadKeys(block, t))
        THEN Becomes(w, "write", me.task, me.ret, reads,
                     (DOMAIN output \cup DOMAIN last_input_output[t].output) \cap DataKeys,
                     me.num, failed)
        ELSE Becomes(w, "read", me.task, me.ret, reads, me.todo, me.num, failed)

ReadOf(k, t) ==
    IF k \in ModuleKeys
    THEN [ver |-> modules[k].ver, val |-> modules[k].val, est |-> FALSE]
    ELSE fetch_data(k, t)

Captures(w, k, read) ==
    [j \in DOMAIN worker[w].reads \cup {k} |->
        IF j = k THEN [ver |-> read.ver, val |-> read.val] ELSE worker[w].reads[j]]

\* Take, Goto and Executes, field by field.
LEMMA TakeStep ==
    ASSUME TypeOK, NEW w \in Workers, NEW tk, Take(w, tk)
    PROVE  Restarts(w, tk)
BY DEF TypeOK, Take, Restarts, Becomes, Others, NewWorker, WorkerFields

LEMMA GotoStep ==
    ASSUME TypeOK, NEW w \in Workers, NEW p, Goto(w, p)
    PROVE  Moves(w, p)
BY DEF TypeOK, WorkerOK, FieldsOK, Tasks, Goto, Moves, Becomes, Others, WorkerFields

LEMMA PcStep ==
    ASSUME TypeOK, NEW w \in Workers, NEW p,
           worker' = [worker EXCEPT ![w] = [worker[w] EXCEPT !.pc = p]]
    PROVE  Moves(w, p)
BY DEF TypeOK, WorkerOK, FieldsOK, Tasks, Moves, Becomes, Others, WorkerFields

\* A step is about a transaction of the block, also in the commit hook.
LEMMA TxnType ==
    ASSUME TypeOK, NEW w \in Workers
    PROVE  Txn(w) \in Txns
<1>1. CASE worker[w].ret = "hook"
  <2>1. commit_state.idx \in 0 .. num_txns /\ commit_state.idx > 0
    BY <1>1 DEF TypeOK, WorkerOK, FieldsOK, Tasks
  <2> QED
    BY <1>1, <2>1, Constants DEF Txn, Txns
<1>2. CASE worker[w].ret # "hook"
  BY <1>2 DEF Txn, TypeOK, WorkerOK, FieldsOK, Tasks
<1> QED
  BY <1>1, <1>2

LEMMA ExecutesStep ==
    ASSUME TypeOK, NEW w \in Workers, NEW reads, NEW failed,
           worker' = [worker EXCEPT ![w] = Executes(w, reads, failed)]
    PROVE  Goes(w, reads, failed)
BY DEF TypeOK, WorkerOK, FieldsOK, Tasks, Goes, Executes, Becomes, Others, WorkerFields

LEMMA LockCommitsEffect ==
    ASSUME TypeOK, NEW w \in Workers, LockCommits(w)
    PROVE  /\ At(w, "loop")
           /\ Moves(w, "try_commit")
BY GotoStep DEF LockCommits, At

LEMMA SkipCommitsEffect ==
    ASSUME TypeOK, NEW w \in Workers, SkipCommits(w)
    PROVE  /\ At(w, "loop")
           /\ Moves(w, "drain")
BY GotoStep DEF SkipCommits, At

LEMMA TryCommitEffect ==
    ASSUME TypeOK, NEW w \in Workers, TryCommit(w)
    PROVE  LET me == worker[w]
           IN  /\ At(w, "try_commit")
               /\ Becomes(w, IF commit_state.idx + 1 = num_txns /\ Kind(w) = "Execution"
                            THEN "error" ELSE "publish",
                         me.task, "hook", me.reads, me.todo, me.num, me.flag)
BY DEF TryCommit, At, next_wave, MaxOf, Becomes, Others, TypeOK, WorkerOK, FieldsOK, WorkerFields,
     Tasks, Kind

LEMMA TryCommitNothingEffect ==
    ASSUME TypeOK, NEW w \in Workers, TryCommitNothing(w)
    PROVE  /\ At(w, "try_commit")
           /\ Moves(w, "unlock")
BY GotoStep DEF TryCommitNothing, At, next_wave, MaxOf

LEMMA TryCommitContendedEffect ==
    ASSUME TypeOK, NEW w \in Workers, TryCommitContended(w)
    PROVE  /\ At(w, "try_commit")
           /\ Moves(w, "unlock")
BY GotoStep DEF TryCommitContended, At

LEMMA UnlockCommitsEffect ==
    ASSUME TypeOK, NEW w \in Workers, UnlockCommits(w)
    PROVE  /\ At(w, "unlock")
           /\ Moves(w, "loop")
BY GotoStep DEF UnlockCommits, At

LEMMA PublishModulesEffect ==
    ASSUME TypeOK, NEW w \in Workers, PublishModules(w)
    PROVE  /\ At(w, "publish")
           /\ Moves(w, IF ~last_input_output[Txn(w)].ok THEN "error"
                       ELSE IF DOMAIN last_input_output[Txn(w)].output \cap ModuleKeys = {}
                            THEN "queue" ELSE "require")
BY GotoStep DEF PublishModules, At, Becomes, Others, TypeOK, WorkerOK, FieldsOK, WorkerFields, Tasks

LEMMA RecordValidationRequirementsEffect ==
    ASSUME TypeOK, NEW w \in Workers, RecordValidationRequirements(w)
    PROVE  /\ At(w, "require")
           /\ Moves(w, "wake")
BY GotoStep DEF RecordValidationRequirements, At

LEMMA AddToCommitQueueEffect ==
    ASSUME TypeOK, NEW w \in Workers, AddToCommitQueue(w)
    PROVE  LET me == worker[w]
           IN  /\ At(w, "queue")
               /\ Becomes(w, IF Len(commit_queue) = num_txns THEN "error"
                             ELSE IF Txn(w) + 1 = num_txns \/ Txn(w) \in SkipsRest(block)
                                  THEN "halt" ELSE "try_commit",
                          me.task, "loop", me.reads, Txns, me.num, me.flag)
BY DEF AddToCommitQueue, At, Becomes, Others, TypeOK, WorkerOK, FieldsOK, WorkerFields, Tasks

LEMMA HaltStartEffect ==
    ASSUME TypeOK, NEW w \in Workers, HaltStart(w)
    PROVE  /\ At(w, "halt")
           /\ Moves(w, IF done_marker THEN "halted" ELSE "halt_txn")
BY GotoStep DEF HaltStart, At

LEMMA HaltTxnEffect ==
    ASSUME TypeOK, NEW w \in Workers, HaltTxn(w)
    PROVE  LET me == worker[w]
           IN  /\ At(w, "halt_txn")
               /\ LET t == CHOOSE t \in me.todo : \A u \in me.todo : t <= u
                  IN  Becomes(w, IF me.todo = {t} THEN "halted" ELSE "halt_txn",
                              me.task, me.ret, me.reads, me.todo \ {t}, me.num, me.flag)
BY DEF HaltTxn, At, Becomes, Others, TypeOK, WorkerOK, FieldsOK, WorkerFields, Tasks

LEMMA HaltedEffect ==
    ASSUME TypeOK, NEW w \in Workers, Halted(w)
    PROVE  LET me == worker[w]
           IN  /\ At(w, "halted")
               /\ Becomes(w, "try_commit", me.task, me.ret, me.reads, {}, me.num, me.flag)
BY DEF Halted, At, Becomes, Others, TypeOK, WorkerOK, FieldsOK, WorkerFields, Tasks

LEMMA DrainCommitQueueEffect ==
    ASSUME TypeOK, NEW w \in Workers, DrainCommitQueue(w)
    PROVE  /\ At(w, "drain")
           /\ \E p \in {"drain", "error"} : Moves(w, p)
BY GotoStep DEF DrainCommitQueue, At

LEMMA StartTaskEffect ==
    ASSUME TypeOK, NEW w \in Workers, StartTask(w)
    PROVE  LET me == worker[w]
           IN  /\ At(w, "drain")
               /\ CASE Kind(w) = "Retry" -> Moves(w, "next")
                    [] Kind(w) = "Done" -> Moves(w, "exit")
                    [] Kind(w) = "Wakeup" -> Moves(w, "wakeup")
                    [] Kind(w) = "Execution" -> Goes(w, EmptyFunction, FALSE)
                    [] Kind(w) = "Validation" ->
                          LET io == last_input_output[me.task.txn]
                          IN  Becomes(w, IF io.ok THEN "validate" ELSE "abort",
                                      me.task, me.ret, io.input,
                                      DOMAIN io.input \
                                         (IF skip_module_reads_validation THEN ModuleKeys ELSE {}),
                                      me.num, me.flag)
<1> DEFINE tk == worker[w].task
           io == last_input_output[tk.txn]
<1>1. At(w, "drain")
  BY DEF StartTask
<1>2. CASE Kind(w) = "Execution"
  <2>1. worker' = [worker EXCEPT ![w] = Executes(w, EmptyFunction, FALSE)]
    BY <1>2 DEF StartTask, Kind
  <2> QED
    BY <1>1, <1>2, <2>1, ExecutesStep
<1>3. CASE Kind(w) = "Validation"
  <2>1. worker' = [worker EXCEPT ![w] =
              [worker[w] EXCEPT !.pc = IF io.ok THEN "validate" ELSE "abort",
                        !.reads = io.input,
                        !.todo = DOMAIN io.input \
                             (IF skip_module_reads_validation THEN ModuleKeys ELSE {})]]
    BY <1>3 DEF StartTask, Kind
  <2> QED
    BY <1>1, <1>3, <2>1 DEF Becomes, Others, TypeOK, WorkerOK, FieldsOK, WorkerFields, Tasks
<1>4. CASE Kind(w) = "Retry"
  <2>1. worker' = [worker EXCEPT ![w] = [worker[w] EXCEPT !.pc = "next"]]
    BY <1>4 DEF StartTask, Kind
  <2> QED
    BY <1>1, <1>4, <2>1, PcStep
<1>5. CASE Kind(w) = "Done"
  <2>1. worker' = [worker EXCEPT ![w] = [worker[w] EXCEPT !.pc = "exit"]]
    BY <1>5 DEF StartTask, Kind
  <2> QED
    BY <1>1, <1>5, <2>1, PcStep
<1>6. CASE Kind(w) = "Wakeup"
  <2>1. worker' = [worker EXCEPT ![w] = [worker[w] EXCEPT !.pc = "wakeup"]]
    BY <1>6 DEF StartTask, Kind
  <2> QED
    BY <1>1, <1>6, <2>1, PcStep
<1> QED
  BY <1>2, <1>3, <1>4, <1>5, <1>6 DEF TypeOK, WorkerOK, FieldsOK, Tasks, Kind

LEMMA WakeupEffect ==
    ASSUME TypeOK, NEW w \in Workers, Wakeup(w)
    PROVE  /\ At(w, "wakeup")
           /\ Moves(w, "next")
BY GotoStep DEF Wakeup, At

LEMMA NextTaskEffect ==
    ASSUME TypeOK, NEW w \in Workers, NextTask(w)
    PROVE  LET me == worker[w]
           IN  /\ At(w, "next")
               /\ \/ done_marker /\ Restarts(w, NoTask("Done"))
                  \/ /\ ~done_marker
                     /\ validation_idx.idx < num_txns
                     /\ \E f \in BOOLEAN :
                           Becomes(w, "next_validation", me.task, me.ret, me.reads, me.todo,
                                   validation_idx, f)
                  \/ ~done_marker /\ Moves(w, "next_execution")
                  \/ ~done_marker /\ Restarts(w, NoTask("Retry"))
<1> DEFINE v == validation_idx
<1>1. CASE done_marker
  BY <1>1, TakeStep DEF NextTask
<1>2. CASE ~done_marker
  <2> DEFINE prefer == v.idx < MinOf(execution_idx, num_txns) /\ ~never_executed(v.idx)
  <2>1. CASE prefer
    <3>1. worker' = [worker EXCEPT ![w].pc = "next_validation", ![w].num = v,
                                   ![w].flag = execution_idx < num_txns]
      BY <1>2, <2>1, Zenon DEF NextTask
    <3>2. v.idx < num_txns
      BY <2>1, Constants DEF MinOf, TypeOK
    <3>3. PICK f : f = (execution_idx < num_txns)
      BY Zenon
    <3>4. f \in BOOLEAN
      BY <3>3, SMT
    <3>5. Becomes(w, "next_validation", worker[w].task, worker[w].ret, worker[w].reads,
                  worker[w].todo, validation_idx, f)
      BY <3>1, <3>3 DEF Becomes, Others, TypeOK, WorkerOK, FieldsOK, WorkerFields, Tasks
    <3> QED
      BY <1>2, <3>2, <3>4, <3>5, Zenon DEF NextTask
  <2>2. CASE ~prefer
    <3>1. Goto(w, "next_execution") \/ Take(w, NoTask("Retry"))
      BY <1>2, <2>2, Zenon DEF NextTask
    <3>2. Moves(w, "next_execution") \/ Restarts(w, NoTask("Retry"))
      BY <3>1, GotoStep, TakeStep
    <3> QED
      BY <1>2, <3>2, Zenon DEF NextTask
  <2> QED
    BY <2>1, <2>2
<1> QED
  BY <1>1, <1>2

LEMMA ClaimValidationEffect ==
    ASSUME TypeOK, NEW w \in Workers, ClaimValidation(w)
    PROVE  LET me == worker[w]
           IN  /\ At(w, "next_validation")
               /\ Moves(w, IF validation_idx = me.num THEN "next_executed" ELSE NoValidation(w))
BY GotoStep DEF ClaimValidation, At

LEMMA StartValidationEffect ==
    ASSUME TypeOK, NEW w \in Workers, StartValidation(w)
    PROVE  LET me == worker[w]
           IN  /\ At(w, "next_executed")
               /\ IF is_executed(me.num.idx, FALSE)
                  THEN Restarts(w, ValidationTask(me.num.idx, txn_status[me.num.idx].inc,
                           me.num.wave))
                  ELSE Moves(w, NoValidation(w))
BY TakeStep, GotoStep DEF StartValidation, At

LEMMA ClaimExecutionEffect ==
    ASSUME TypeOK, NEW w \in Workers, ClaimExecution(w)
    PROVE  LET me == worker[w]
           IN  /\ At(w, "next_execution")
               /\ Becomes(w, IF execution_idx < num_txns THEN "next_incarnate" ELSE "next",
                          me.task, me.ret, me.reads, me.todo,
                              [idx |-> execution_idx, wave |-> me.num.wave],
                          me.flag)
BY DEF ClaimExecution, At, Becomes, Others, TypeOK, WorkerOK, FieldsOK, WorkerFields, Tasks

LEMMA TryIncarnateEffect ==
    ASSUME TypeOK, NEW w \in Workers, TryIncarnate(w)
    PROVE  LET me == worker[w]
           IN  /\ At(w, "next_incarnate")
               /\ IF txn_status[me.num.idx].name = "Ready"
                  THEN Restarts(w, ExecutionTask(me.num.idx, txn_status[me.num.idx]))
                  ELSE IF me.ret = "finish_abort" THEN Restarts(w, NoTask("Retry"))
                  ELSE Moves(w, "next")
BY TakeStep, GotoStep DEF TryIncarnate, At

LEMMA ReadEffect ==
    ASSUME TypeOK, NEW w \in Workers, Read(w)
    PROVE  LET me == worker[w]
           IN  /\ At(w, "read")
               /\ \/ \E j \in 0 .. me.task.txn - 1 :
                        Becomes(w, "wait", me.task, me.ret, me.reads, me.todo,
                                [idx |-> j, wave |-> me.num.wave], me.flag)
                  \/ LET read == ReadOf(NextRead(w), me.task.txn)
                     IN  ~read.est /\ Goes(w, Captures(w, NextRead(w), read), FALSE)
<1> DEFINE t == worker[w].task.txn
           k == NextRead(w)
           read == ReadOf(k, t)
<1>1. worker' = [worker EXCEPT ![w] =
              IF read.est
              THEN [worker[w] EXCEPT !.pc = "wait", !.num.idx = read.ver[1]]
              ELSE Executes(w, Captures(w, k, read), FALSE)]
  BY DEF Read, ReadOf, Captures
<1>2. At(w, "read")
  BY DEF Read
<1>3. CASE read.est
  <2>1. k \notin ModuleKeys /\ read = fetch_data(k, t)
    BY <1>3 DEF ReadOf
  <2>2. t \in Nat
    BY TxnFacts DEF TypeOK, WorkerOK, FieldsOK, Tasks
  <2>3. PICK j \in Writers(k, t) : fetch_data(k, t) =
           [ver |-> <<j, data[k][j].inc>>, val |-> data[k][j].val, est |-> data[k][j].est]
    BY <1>3, <2>1, <2>2, WritersFacts
  <2>4. j \in 0 .. t - 1 /\ read.ver[1] = j
    BY <2>1, <2>3 DEF Writers
  <2>5. worker' = [worker EXCEPT ![w] = [worker[w] EXCEPT !.pc = "wait", !.num.idx = j]]
    BY <1>1, <1>3, <2>4
  <2>6. Becomes(w, "wait", worker[w].task, worker[w].ret, worker[w].reads, worker[w].todo,
                [idx |-> j, wave |-> worker[w].num.wave], worker[w].flag)
    BY <2>5 DEF Becomes, Others, TypeOK, WorkerOK, FieldsOK, WorkerFields, Tasks
  <2> QED
    BY <1>2, <2>4, <2>6
<1>4. CASE ~read.est
  <2>1. worker' = [worker EXCEPT ![w] = Executes(w, Captures(w, k, read), FALSE)]
    BY <1>1, <1>4
  <2>2. Goes(w, Captures(w, k, read), FALSE)
    BY <2>1, ExecutesStep
  <2> QED
    BY <1>2, <1>4, <2>2
<1> QED
  BY <1>3, <1>4

LEMMA InterruptEffect ==
    ASSUME TypeOK, NEW w \in Workers, Interrupt(w)
    PROVE  LET me == worker[w]
           IN  /\ At(w, "read")
               /\ Goes(w, me.reads, TRUE)
BY ExecutesStep DEF Interrupt, At

LEMMA WaitForDependencyEffect ==
    ASSUME TypeOK, NEW w \in Workers, WaitForDependency(w)
    PROVE  LET me == worker[w]
           IN  /\ At(w, "wait")
               /\ Moves(w, IF is_executed(me.num.idx, TRUE) THEN "read" ELSE "suspend")
BY GotoStep DEF WaitForDependency, At

LEMMA SuspendEffect ==
    ASSUME TypeOK, NEW w \in Workers, Suspend(w)
    PROVE  LET me == worker[w]
           IN  /\ At(w, "suspend")
               /\ \/ txn_status[me.task.txn].name = "Executing" /\ Moves(w, "waiting")
                  \/ txn_status[me.task.txn].name = "Halted" /\ Goes(w, me.reads, TRUE)
                  \/ txn_status[me.task.txn].name \notin {"Executing", "Halted"} /\
                         Moves(w, "error")
<1> DEFINE st == txn_status[worker[w].task.txn]
<1>1. At(w, "suspend")
  BY DEF Suspend
<1>2. CASE st.name = "Executing"
  BY <1>1, <1>2, GotoStep DEF Suspend
<1>3. CASE st.name = "Halted"
  <2>1. worker' = [worker EXCEPT ![w] = Executes(w, worker[w].reads, TRUE)]
    BY <1>3 DEF Suspend
  <2> QED
    BY <1>1, <1>3, <2>1, ExecutesStep
<1>4. CASE st.name \notin {"Executing", "Halted"}
  <2>1. worker' = [worker EXCEPT ![w] = [worker[w] EXCEPT !.pc = "error"]]
    BY <1>4 DEF Suspend
  <2> QED
    BY <1>1, <1>4, <2>1, PcStep
<1> QED
  BY <1>2, <1>3, <1>4

LEMMA AwakeEffect ==
    ASSUME TypeOK, NEW w \in Workers, Awake(w)
    PROVE  LET me == worker[w]
           IN  /\ At(w, "waiting")
               /\ IF cvar[w] = "Halted" THEN Goes(w, me.reads, TRUE) ELSE Moves(w, "read")
<1>1. At(w, "waiting")
  BY DEF Awake
<1>2. CASE cvar[w] = "Halted"
  <2>1. worker' = [worker EXCEPT ![w] = Executes(w, worker[w].reads, TRUE)]
    BY <1>2 DEF Awake
  <2> QED
    BY <1>1, <1>2, <2>1, ExecutesStep
<1>3. CASE cvar[w] # "Halted"
  <2>1. worker' = [worker EXCEPT ![w] = [worker[w] EXCEPT !.pc = "read"]]
    BY <1>3 DEF Awake
  <2> QED
    BY <1>1, <1>3, <2>1, PcStep
<1> QED
  BY <1>2, <1>3

LEMMA WriteEffect ==
    ASSUME TypeOK, NEW w \in Workers, Write(w)
    PROVE  LET me == worker[w]
           IN  /\ At(w, "write")
               /\ \E k \in me.todo, p \in {"write", "error"} :
                     Becomes(w, p, me.task, me.ret, me.reads, me.todo \ {k}, me.num, me.flag)
<1>1. At(w, "write")
  BY DEF Write
<1>2. PICK k \in worker[w].todo, q \in {"write", "error"} :
        worker' = [worker EXCEPT ![w].todo = @ \ {k}, ![w].pc = q]
  BY <1>1 DEF Write, At
<1>3. Becomes(w, q, worker[w].task, worker[w].ret, worker[w].reads, worker[w].todo \ {k},
              worker[w].num, worker[w].flag)
  BY <1>2 DEF Becomes, Others, TypeOK, WorkerOK, FieldsOK, WorkerFields, Tasks
<1> QED
  BY <1>1, <1>3

LEMMA RecordEffect ==
    ASSUME TypeOK, NEW w \in Workers, Record(w)
    PROVE  LET me == worker[w]
           IN  /\ At(w, "write")
               /\ Becomes(w, "finish_execution", me.task, me.ret, EmptyFunction, me.todo, me.num,
                         needs_suffix_validation(me.task.txn, CurrentOutput(w)))
BY DEF Record, At, Becomes, Others, TypeOK, WorkerOK, FieldsOK, WorkerFields, Tasks

LEMMA FinishExecutionEffect ==
    ASSUME TypeOK, NEW w \in Workers, FinishExecution(w)
    PROVE  LET me == worker[w]
           IN  /\ At(w, "finish_execution")
               /\ \E p \in {"wake", "error"} :
                     Becomes(w, p, me.task, "finish_execution", me.reads, me.todo, me.num, me.flag)
<1>1. At(w, "finish_execution")
  BY DEF FinishExecution
<1>2. PICK q \in {"wake", "error"} :
        worker' = [worker EXCEPT ![w].pc = q, ![w].ret = "finish_execution"]
  BY DEF FinishExecution
<1>3. Becomes(w, q, worker[w].task, "finish_execution", worker[w].reads, worker[w].todo,
              worker[w].num, worker[w].flag)
  BY <1>2 DEF Becomes, Others, TypeOK, WorkerOK, FieldsOK, WorkerFields, Tasks
<1> QED
  BY <1>1, <1>3

LEMMA TakeDependenciesEffect ==
    ASSUME TypeOK, NEW w \in Workers, TakeDependencies(w)
    PROVE  LET me == worker[w]
           IN  /\ At(w, "wake")
               /\ LET deps == txn_dependency[Txn(w)]
                  IN  \E i \in Nat :
                        /\ deps = {} => i = num_txns
                        /\ Becomes(w, IF deps = {} THEN AfterWake(w) ELSE "resume",
                                   me.task, me.ret, me.reads, deps,
                                       [idx |-> i, wave |-> me.num.wave],
                                   me.flag)
<1> DEFINE deps == txn_dependency[Txn(w)]
           i == IF deps = {} THEN num_txns
                ELSE CHOOSE d \in deps : \A e \in deps : d <= e
           p == IF deps = {} THEN AfterWake(w) ELSE "resume"
<1>1. Txn(w) \in Txns
  BY TxnType
<1>2. deps \in SUBSET Nat
  BY <1>1, TxnFacts DEF TypeOK
<1>3. deps # {} => \E d \in deps : \A e \in deps : d <= e
  BY <1>2, LeastOf
<1>4. i \in Nat
  BY <1>2, <1>3, Constants
<1>5. worker' = [worker EXCEPT ![w].pc = p, ![w].todo = deps, ![w].num.idx = i]
  BY DEF TakeDependencies
<1>6. At(w, "wake")
  BY DEF TakeDependencies
<1>7. deps = {} => i = num_txns
  OBVIOUS
<1> HIDE DEF i, p
<1>8. Becomes(w, p, worker[w].task, worker[w].ret, worker[w].reads, deps,
              [idx |-> i, wave |-> worker[w].num.wave], worker[w].flag)
  BY <1>5 DEF Becomes, Others, TypeOK, WorkerOK, FieldsOK, WorkerFields, Tasks
<1> QED
  BY <1>4, <1>6, <1>7, <1>8 DEF p

LEMMA ResumeEffect ==
    ASSUME TypeOK, NEW w \in Workers, Resume(w)
    PROVE  LET me == worker[w]
           IN  /\ At(w, "resume")
               /\ \E d \in me.todo :
                     Becomes(w, IF txn_status[d].name \notin {"Suspended", "Halted"} THEN "error"
                                ELSE IF me.todo = {d} THEN "fetch_min" ELSE "resume",
                             me.task, me.ret, me.reads, me.todo \ {d}, me.num, me.flag)
<1>1. At(w, "resume")
  BY DEF Resume
<1>2. PICK d \in worker[w].todo :
        worker' = [worker EXCEPT ![w].todo = @ \ {d},
                     ![w].pc = IF txn_status[d].name \notin {"Suspended", "Halted"} THEN "error"
                               ELSE IF worker[w].todo = {d} THEN "fetch_min" ELSE "resume"]
  BY <1>1 DEF Resume, At
<1> DEFINE q == IF txn_status[d].name \notin {"Suspended", "Halted"} THEN "error"
                ELSE IF worker[w].todo = {d} THEN "fetch_min" ELSE "resume"
<1>3. worker' = [worker EXCEPT ![w].todo = @ \ {d}, ![w].pc = q]
  BY <1>2
<1> HIDE DEF q
<1>4. Becomes(w, q, worker[w].task, worker[w].ret, worker[w].reads, worker[w].todo \ {d},
              worker[w].num, worker[w].flag)
  BY <1>3 DEF Becomes, Others, TypeOK, WorkerOK, FieldsOK, WorkerFields, Tasks
<1> QED
  BY <1>1, <1>4 DEF q

LEMMA FetchMinEffect ==
    ASSUME TypeOK, NEW w \in Workers, FetchMin(w)
    PROVE  /\ At(w, "fetch_min")
           /\ Moves(w, AfterWake(w))
BY GotoStep DEF FetchMin, At, MinOf

LEMMA FinishLoadEffect ==
    ASSUME TypeOK, NEW w \in Workers, FinishLoad(w)
    PROVE  LET me == worker[w]
           IN  /\ At(w, "finish_load")
               /\ IF validation_idx.idx > me.task.txn
                  THEN Becomes(w, IF me.flag THEN "decrease" ELSE "require_wave",
                               [me.task EXCEPT !.wave = validation_idx.wave], me.ret, me.reads,
                                   me.todo,
                               me.num, me.flag)
                  ELSE Restarts(w, NoTask("Retry"))
<1>1. CASE validation_idx.idx > worker[w].task.txn
  <2>1. worker' = [worker EXCEPT ![w].task.wave = validation_idx.wave,
                      ![w].pc = IF worker[w].flag THEN "decrease" ELSE "require_wave"]
    BY <1>1 DEF FinishLoad
  <2> QED
    BY <1>1, <2>1 DEF FinishLoad, Becomes, Others, TypeOK, WorkerOK, FieldsOK, WorkerFields, Tasks
<1>2. CASE ~(validation_idx.idx > worker[w].task.txn)
  BY <1>2, TakeStep DEF FinishLoad
<1> QED
  BY <1>1, <1>2

LEMMA RequireWaveEffect ==
    ASSUME TypeOK, NEW w \in Workers, RequireWave(w)
    PROVE  LET me == worker[w]
           IN  /\ At(w, "require_wave")
               /\ Restarts(w, ValidationTask(me.task.txn, me.task.inc, me.task.wave))
BY TakeStep DEF RequireWave, At

LEMMA TriggerWaveEffect ==
    ASSUME TypeOK, NEW w \in Workers, TriggerWave(w)
    PROVE  LET me == worker[w]
           IN  /\ At(w, "decrease")
               /\ IF Txn(w) + 1 < num_txns /\ validation_idx.idx > Txn(w) + 1
                  THEN Becomes(w, "decrease_cas", me.task, me.ret, me.reads, me.todo,
                           validation_idx,
                               me.flag)
                  ELSE Moves(w, AfterDecrease(w))
BY GotoStep DEF TriggerWave, At, MaxOf, Becomes, Others, TypeOK, WorkerOK, FieldsOK, WorkerFields,
     Tasks

LEMMA DecreaseValidationIdxEffect ==
    ASSUME TypeOK, NEW w \in Workers, DecreaseValidationIdx(w)
    PROVE  LET me == worker[w]
           IN  /\ At(w, "decrease_cas")
               /\ IF validation_idx = me.num
                  THEN Becomes(w, AfterDecrease(w),
                               IF me.ret = "finish_execution"
                               THEN [me.task EXCEPT !.wave = me.num.wave + 1] ELSE me.task,
                               me.ret, me.reads, me.todo, me.num, me.flag)
                  ELSE Moves(w, "decrease")
BY GotoStep DEF DecreaseValidationIdx, At, Becomes, Others, TypeOK, WorkerOK, FieldsOK,
     WorkerFields, Tasks

LEMMA ValidateEffect ==
    ASSUME TypeOK, NEW w \in Workers, Validate(w)
    PROVE  LET me == worker[w]
           IN  /\ At(w, "validate")
               /\ \/ /\ me.todo = {}
                     /\ Becomes(w, "finish_validation", me.task, me.ret, me.reads, me.todo, me.num,
                            TRUE)
                  \/ \E k \in me.todo :
                        Becomes(w, IF validate_read(k, me.reads[k], me.task.txn) THEN "validate"
                                   ELSE "abort",
                                me.task, me.ret, me.reads, me.todo \ {k}, me.num, me.flag)
<1>1. At(w, "validate")
  BY DEF Validate
<1>2. CASE worker' = [worker EXCEPT ![w].pc = "finish_validation", ![w].flag = TRUE]
           /\ worker[w].todo = {}
  BY <1>1, <1>2 DEF Becomes, Others, TypeOK, WorkerOK, FieldsOK, WorkerFields, Tasks
<1>3. ASSUME NEW k \in worker[w].todo,
             worker' = [worker EXCEPT
                    ![w].todo = @ \ {k},
                    ![w].pc = IF validate_read(k, worker[w].reads[k], worker[w].task.txn)
                              THEN "validate" ELSE "abort"]
      PROVE  Becomes(w, IF validate_read(k, worker[w].reads[k], worker[w].task.txn)
                        THEN "validate" ELSE "abort", worker[w].task, worker[w].ret,
                     worker[w].reads, worker[w].todo \ {k}, worker[w].num, worker[w].flag)
  <2> DEFINE q == IF validate_read(k, worker[w].reads[k], worker[w].task.txn)
                  THEN "validate" ELSE "abort"
  <2>1. worker' = [worker EXCEPT ![w].todo = @ \ {k}, ![w].pc = q]
    BY <1>3
  <2> HIDE DEF q
  <2>2. Becomes(w, q, worker[w].task, worker[w].ret,
                     worker[w].reads, worker[w].todo \ {k}, worker[w].num, worker[w].flag)
    BY <2>1 DEF Becomes, Others, TypeOK, WorkerOK, FieldsOK, WorkerFields, Tasks
  <2> QED
    BY <2>2 DEF q
<1>4. CASE \E k \in worker[w].todo :
             worker' = [worker EXCEPT
                    ![w].todo = @ \ {k},
                    ![w].pc = IF validate_read(k, worker[w].reads[k], worker[w].task.txn)
                              THEN "validate" ELSE "abort"]
  BY <1>1, <1>3, <1>4
<1> QED
  BY <1>1, <1>2, <1>4 DEF Validate, At

LEMMA TryAbortEffect ==
    ASSUME TypeOK, NEW w \in Workers, TryAbort(w)
    PROVE  LET me == worker[w]
           IN  /\ At(w, "abort")
               /\ IF may_abort(me.task.txn, me.task.inc)
                  THEN Becomes(w, "estimate", me.task, me.ret, me.reads,
                               DOMAIN last_input_output[me.task.txn].output \cap DataKeys, me.num,
                                   me.flag)
                  ELSE Becomes(w, "finish_validation", me.task, me.ret, me.reads, me.todo, me.num,
                           FALSE)
BY DEF TryAbort, At, Becomes, Others, TypeOK, WorkerOK, FieldsOK, WorkerFields, Tasks

LEMMA MarkEstimateEffect ==
    ASSUME TypeOK, NEW w \in Workers, MarkEstimate(w)
    PROVE  LET me == worker[w]
           IN  /\ At(w, "estimate")
               /\ \E k \in me.todo, p \in {"estimate", "error"} :
                     Becomes(w, p, me.task, me.ret, me.reads, me.todo \ {k}, me.num, me.flag)
<1>1. At(w, "estimate")
  BY DEF MarkEstimate
<1>2. PICK k \in worker[w].todo, q \in {"estimate", "error"} :
        worker' = [worker EXCEPT ![w].todo = @ \ {k}, ![w].pc = q]
  BY <1>1 DEF MarkEstimate, At
<1>3. Becomes(w, q, worker[w].task, worker[w].ret, worker[w].reads, worker[w].todo \ {k},
              worker[w].num, worker[w].flag)
  BY <1>2 DEF Becomes, Others, TypeOK, WorkerOK, FieldsOK, WorkerFields, Tasks
<1> QED
  BY <1>1, <1>3

LEMMA FinishAbortEffect ==
    ASSUME TypeOK, NEW w \in Workers, FinishAbort(w)
    PROVE  LET me == worker[w]
           IN  /\ At(w, "estimate")
               /\ \E p \in {"decrease", "error"} :
                     Becomes(w, p, me.task, "finish_abort", me.reads, me.todo, me.num, me.flag)
<1>1. At(w, "estimate")
  BY DEF FinishAbort
<1>2. PICK q \in {"decrease", "error"} :
        worker' = [worker EXCEPT ![w].pc = q, ![w].ret = "finish_abort"]
  BY DEF FinishAbort
<1>3. Becomes(w, q, worker[w].task, "finish_abort", worker[w].reads, worker[w].todo,
              worker[w].num, worker[w].flag)
  BY <1>2 DEF Becomes, Others, TypeOK, WorkerOK, FieldsOK, WorkerFields, Tasks
<1> QED
  BY <1>1, <1>3

LEMMA AbortDoneEffect ==
    ASSUME TypeOK, NEW w \in Workers, AbortDone(w)
    PROVE  /\ At(w, "abort_done")
           /\ Moves(w, "abort_load")
BY GotoStep DEF AbortDone, At

LEMMA AbortLoadEffect ==
    ASSUME TypeOK, NEW w \in Workers, AbortLoad(w)
    PROVE  LET me == worker[w]
           IN  /\ At(w, "abort_load")
               /\ IF execution_idx > me.task.txn
                  THEN Becomes(w, "next_incarnate", me.task, me.ret, me.reads, me.todo,
                               [idx |-> me.task.txn, wave |-> me.num.wave], me.flag)
                  ELSE Restarts(w, NoTask("Retry"))
BY TakeStep DEF AbortLoad, At, Becomes, Others, TypeOK, WorkerOK, FieldsOK, WorkerFields, Tasks

LEMMA FinishValidationEffect ==
    ASSUME TypeOK, NEW w \in Workers, FinishValidation(w)
    PROVE  LET me == worker[w]
           IN  /\ At(w, "finish_validation")
               /\ IF me.flag THEN Moves(w, "arm") ELSE Restarts(w, NoTask("Retry"))
BY TakeStep, GotoStep DEF FinishValidation, At, MaxOf

LEMMA ArmEffect ==
    ASSUME TypeOK, NEW w \in Workers, Arm(w)
    PROVE  /\ At(w, "arm")
           /\ Restarts(w, NoTask("Retry"))
BY TakeStep DEF Arm, At

-----------------------------------------------------------------------------
(* Which steps change a variable.                                          *)

\* Which actions change each variable.
LEMMA Changes ==
    ASSUME NEW w \in Workers, Step(w)
    PROVE  /\ txn_status' = txn_status \/ TryCommit(w) \/ HaltTxn(w) \/ TryIncarnate(w) \/
                  Suspend(w) \/ FinishExecution(w) \/ Resume(w) \/ TryAbort(w) \/
                  FinishAbort(w)
           /\ validation_status' = validation_status \/ RequireWave(w) \/ TriggerWave(w) \/
                  FinishValidation(w)
           /\ txn_dependency' = txn_dependency \/ Suspend(w) \/ TakeDependencies(w)
           /\ commit_state' = commit_state \/ TryCommit(w) \/ TryCommitNothing(w)
           /\ execution_idx' = execution_idx \/ ClaimExecution(w) \/ FetchMin(w)
           /\ validation_idx' = validation_idx \/ ClaimValidation(w) \/ DecreaseValidationIdx(w)
           /\ done_marker' = done_marker \/ TryCommit(w) \/ HaltStart(w)
           /\ has_halted' = has_halted \/ Halted(w)
           /\ block_result' = block_result
           /\ queueing_commits' = queueing_commits \/ LockCommits(w) \/ TryCommitContended(w) \/
                  UnlockCommits(w) \/ Arm(w)
           /\ commit_queue' = commit_queue \/ AddToCommitQueue(w) \/ DrainCommitQueue(w)
           /\ final_results' = final_results \/ DrainCommitQueue(w)
           /\ vlock' = vlock \/ FinishExecution(w) \/ FinishLoad(w) \/ RequireWave(w) \/
                  FinishAbort(w) \/ AbortDone(w)
           /\ dlock' = dlock \/ WaitForDependency(w) \/ Suspend(w)
           /\ data' = data \/ Write(w) \/ MarkEstimate(w)
           /\ modules' = modules \/ PublishModules(w)
           /\ skip_module_reads_validation' = skip_module_reads_validation \/
                  RecordValidationRequirements(w)
           /\ last_input_output' = last_input_output \/ Record(w)
           /\ cvar' = cvar \/ HaltTxn(w) \/ Wakeup(w) \/ Suspend(w)
           /\ block' = block
<1>1. CASE LockCommits(w)
  BY <1>1, Zenon DEF LockCommits, Step, shared, statuses, indices, markers, commits, locks, memory
<1>2. CASE SkipCommits(w)
  BY <1>2, Zenon DEF SkipCommits, Step, shared, statuses, indices, markers, commits, locks, memory
<1>3. CASE TryCommit(w)
  BY <1>3, Zenon DEF TryCommit, Step, shared, statuses, indices, markers, commits, locks, memory
<1>4. CASE TryCommitNothing(w)
  BY <1>4, Zenon DEF TryCommitNothing, Step, shared, statuses, indices, markers, commits, locks,
       memory
<1>5. CASE TryCommitContended(w)
  BY <1>5, Zenon DEF TryCommitContended, Step, shared, statuses, indices, markers, commits, locks,
       memory
<1>6. CASE UnlockCommits(w)
  BY <1>6, Zenon DEF UnlockCommits, Step, shared, statuses, indices, markers, commits, locks, memory
<1>7. CASE PublishModules(w)
  BY <1>7, Zenon DEF PublishModules, Step, shared, statuses, indices, markers, commits, locks,
       memory
<1>8. CASE RecordValidationRequirements(w)
  BY <1>8, Zenon DEF RecordValidationRequirements, Step, shared, statuses, indices, markers,
       commits, locks, memory
<1>9. CASE AddToCommitQueue(w)
  BY <1>9, Zenon DEF AddToCommitQueue, Step, shared, statuses, indices, markers, commits, locks,
       memory
<1>10. CASE HaltStart(w)
  BY <1>10, Zenon DEF HaltStart, Step, shared, statuses, indices, markers, commits, locks, memory
<1>11. CASE HaltTxn(w)
  BY <1>11, Zenon DEF HaltTxn, Step, shared, statuses, indices, markers, commits, locks, memory
<1>12. CASE Halted(w)
  BY <1>12, Zenon DEF Halted, Step, shared, statuses, indices, markers, commits, locks, memory
<1>13. CASE DrainCommitQueue(w)
  BY <1>13, Zenon DEF DrainCommitQueue, Step, shared, statuses, indices, markers, commits, locks,
       memory
<1>14. CASE StartTask(w)
  BY <1>14, Zenon DEF StartTask, Step, shared, statuses, indices, markers, commits, locks, memory
<1>15. CASE Wakeup(w)
  BY <1>15, Zenon DEF Wakeup, Step, shared, statuses, indices, markers, commits, locks, memory
<1>16. CASE NextTask(w)
  BY <1>16, Zenon DEF NextTask, Step, shared, statuses, indices, markers, commits, locks, memory
<1>17. CASE ClaimValidation(w)
  BY <1>17, Zenon DEF ClaimValidation, Step, shared, statuses, indices, markers, commits, locks,
       memory
<1>18. CASE StartValidation(w)
  BY <1>18, Zenon DEF StartValidation, Step, shared, statuses, indices, markers, commits, locks,
       memory
<1>19. CASE ClaimExecution(w)
  BY <1>19, Zenon DEF ClaimExecution, Step, shared, statuses, indices, markers, commits, locks,
       memory
<1>20. CASE TryIncarnate(w)
  BY <1>20, Zenon DEF TryIncarnate, Step, shared, statuses, indices, markers, commits, locks, memory
<1>21. CASE Read(w)
  BY <1>21, Zenon DEF Read, Step, shared, statuses, indices, markers, commits, locks, memory
<1>22. CASE Interrupt(w)
  BY <1>22, Zenon DEF Interrupt, Step, shared, statuses, indices, markers, commits, locks, memory
<1>23. CASE WaitForDependency(w)
  BY <1>23, Zenon DEF WaitForDependency, Step, shared, statuses, indices, markers, commits, locks,
       memory
<1>24. CASE Suspend(w)
  BY <1>24, Zenon DEF Suspend, Step, shared, statuses, indices, markers, commits, locks, memory
<1>25. CASE Awake(w)
  BY <1>25, Zenon DEF Awake, Step, shared, statuses, indices, markers, commits, locks, memory
<1>26. CASE Write(w)
  BY <1>26, Zenon DEF Write, Step, shared, statuses, indices, markers, commits, locks, memory
<1>27. CASE Record(w)
  BY <1>27, Zenon DEF Record, Step, shared, statuses, indices, markers, commits, locks, memory
<1>28. CASE FinishExecution(w)
  BY <1>28, Zenon DEF FinishExecution, Step, shared, statuses, indices, markers, commits, locks,
       memory
<1>29. CASE TakeDependencies(w)
  BY <1>29, Zenon DEF TakeDependencies, Step, shared, statuses, indices, markers, commits, locks,
       memory
<1>30. CASE Resume(w)
  BY <1>30, Zenon DEF Resume, Step, shared, statuses, indices, markers, commits, locks, memory
<1>31. CASE FetchMin(w)
  BY <1>31, Zenon DEF FetchMin, Step, shared, statuses, indices, markers, commits, locks, memory
<1>32. CASE FinishLoad(w)
  BY <1>32, Zenon DEF FinishLoad, Step, shared, statuses, indices, markers, commits, locks, memory
<1>33. CASE RequireWave(w)
  BY <1>33, Zenon DEF RequireWave, Step, shared, statuses, indices, markers, commits, locks, memory
<1>34. CASE TriggerWave(w)
  BY <1>34, Zenon DEF TriggerWave, Step, shared, statuses, indices, markers, commits, locks, memory
<1>35. CASE DecreaseValidationIdx(w)
  BY <1>35, Zenon DEF DecreaseValidationIdx, Step, shared, statuses, indices, markers, commits,
       locks, memory
<1>36. CASE Validate(w)
  BY <1>36, Zenon DEF Validate, Step, shared, statuses, indices, markers, commits, locks, memory
<1>37. CASE TryAbort(w)
  BY <1>37, Zenon DEF TryAbort, Step, shared, statuses, indices, markers, commits, locks, memory
<1>38. CASE MarkEstimate(w)
  BY <1>38, Zenon DEF MarkEstimate, Step, shared, statuses, indices, markers, commits, locks, memory
<1>39. CASE FinishAbort(w)
  BY <1>39, Zenon DEF FinishAbort, Step, shared, statuses, indices, markers, commits, locks, memory
<1>40. CASE AbortDone(w)
  BY <1>40, Zenon DEF AbortDone, Step, shared, statuses, indices, markers, commits, locks, memory
<1>41. CASE AbortLoad(w)
  BY <1>41, Zenon DEF AbortLoad, Step, shared, statuses, indices, markers, commits, locks, memory
<1>42. CASE FinishValidation(w)
  BY <1>42, Zenon DEF FinishValidation, Step, shared, statuses, indices, markers, commits, locks,
       memory
<1>43. CASE Arm(w)
  BY <1>43, Zenon DEF Arm, Step, shared, statuses, indices, markers, commits, locks, memory
<1> QED
  BY <1>1, <1>2, <1>3, <1>4, <1>5, <1>6, <1>7, <1>8, <1>9, <1>10, <1>11, <1>12, <1>13, <1>14, <1>15,
       <1>16, <1>17, <1>18, <1>19, <1>20, <1>21, <1>22, <1>23, <1>24, <1>25, <1>26, <1>27, <1>28,
       <1>29, <1>30, <1>31, <1>32, <1>33, <1>34, <1>35, <1>36, <1>37, <1>38, <1>39, <1>40, <1>41,
       <1>42, <1>43, ZenonT(40) DEF Step

-----------------------------------------------------------------------------
(* Types.                                                                  *)

\* The commit index never decreases.
LEMMA CommitGrows ==
    ASSUME TypeOK, NEW w \in Workers, Step(w)
    PROVE  commit_state' \in [idx : 0 .. num_txns, wave : Nat]
           /\ commit_state'.idx >= commit_state.idx
<1>1. \A t \in Txns : next_wave(t) \in Nat
  BY DEF next_wave, MaxOf, TypeOK
<1>2. CASE TryCommit(w)
  BY <1>1, <1>2, Constants, TxnFacts DEF TryCommit, TypeOK
<1>3. CASE TryCommitNothing(w)
  <2>1. commit_state.idx \in 0 .. num_txns
    BY DEF TypeOK
  <2>2. CASE commit_state' = commit_state
    BY <2>1, <2>2 DEF TypeOK
  <2>3. CASE /\ commit_state.idx # num_txns
             /\ commit_state' = [commit_state EXCEPT !.wave = next_wave(commit_state.idx)]
    <3>1. next_wave(commit_state.idx) \in Nat
      BY <1>1, <2>1, <2>3, Constants, TxnFacts
    <3> QED
      BY <2>1, <2>3, <3>1 DEF TypeOK
  <2> QED
    BY <1>3, <2>2, <2>3 DEF TryCommitNothing
<1>4. CASE commit_state' = commit_state
  BY <1>4, Constants DEF TypeOK
<1> QED
  BY <1>2, <1>3, <1>4, Changes

\* The fields of each kind of task.
LEMMA NoTaskFacts ==
    \A k \in {"Retry", "Done"} : NoTask(k) \in Tasks /\ NoTask(k).kind = k
BY Constants, TxnFacts DEF NoTask, Tasks

LEMMA ValidationTaskFacts ==
    \A t \in Txns, i, u \in Nat :
       LET tk == ValidationTask(t, i, u)
       IN  tk \in Tasks /\ tk.kind = "Validation" /\ tk.txn = t /\ tk.inc = i /\ tk.wave = u
BY DEF ValidationTask, Tasks

LEMMA ExecutionTaskFacts ==
    \A t \in Txns : \A st \in Statuses :
       LET tk == ExecutionTask(t, st)
       IN  /\ tk \in Tasks /\ tk.txn = t /\ tk.inc = st.inc /\ tk.cv = st.cv
           /\ tk.kind = IF st.cv = None THEN "Execution" ELSE "Wakeup"
BY DEF ExecutionTask, Tasks, Statuses

\* A task and what becomes of it when its wave is set.
LEMMA TaskFields ==
    \A tk \in Tasks :
       /\ tk.txn \in Txns /\ tk.inc \in Nat /\ tk.wave \in Nat
       /\ tk.cv \in Workers \cup {None}
       /\ tk.kind \in {"Retry", "Done", "Wakeup", "Execution", "Validation"}
       /\ \A u \in Nat : LET new == [tk EXCEPT !.wave = u]
                         IN  /\ new \in Tasks /\ new.kind = tk.kind /\ new.txn = tk.txn
                             /\ new.inc = tk.inc /\ new.cv = tk.cv /\ new.wave = u
BY DEF Tasks

\* A worker back at the loop.
LEMMA RestartsOK ==
    ASSUME NEW w \in Workers, NEW tk \in Tasks, Restarts(w, tk)
    PROVE  FieldsOK(w)' /\ PhaseOK(w)'
<1>1. PhaseOK(w)'
  BY TaskFields DEF Restarts, Becomes, PhaseOK, Kind, LoopPcs
<1>2. /\ worker'[w].num = [idx |-> 0, wave |-> 0] /\ worker'[w].flag = FALSE
      /\ worker'[w].task = tk /\ DOMAIN worker'[w] = WorkerFields /\ worker'[w].pc = "loop"
  BY DEF Restarts, Becomes
<1>3. worker'[w].num \in [idx : Nat, wave : Nat]
  BY <1>2
<1>4. worker'[w].flag \in BOOLEAN
  BY <1>2
<1> QED
  BY <1>1, <1>2, <1>3, <1>4 DEF FieldsOK

\* A worker with new fields.
LEMMA BecomesOK ==
    ASSUME NEW w \in Workers, NEW p, NEW tk \in Tasks, NEW r, NEW rd, NEW td,
           NEW n \in [idx : Nat, wave : Nat], NEW f \in BOOLEAN,
           Becomes(w, p, tk, r, rd, td, n, f),
           p \in {"next_executed", "next_incarnate", "next_validation", "wait", "suspend"} =>
              n.idx \in Txns
    PROVE  FieldsOK(w)'
<1>1. /\ worker'[w].num = n /\ worker'[w].flag = f /\ worker'[w].pc = p
      /\ worker'[w].task = tk /\ DOMAIN worker'[w] = WorkerFields
  BY DEF Becomes
<1>2. worker'[w].flag \in BOOLEAN
  BY <1>1, Zenon
<1> QED
  BY <1>1, <1>2 DEF FieldsOK

\* An execution that goes on.
LEMMA GoesOK ==
    ASSUME TypeOK, NEW w \in Workers, NEW reads, NEW failed \in BOOLEAN, Goes(w, reads, failed),
           worker[w].ret = "loop", Kind(w) = "Execution"
    PROVE  /\ DOMAIN worker' = Workers
           /\ Others(w)
           /\ FieldsOK(w)'
           /\ PhaseOK(w)'
<1>1. worker[w].task \in Tasks /\ worker[w].num \in [idx : Nat, wave : Nat]
  BY DEF TypeOK, WorkerOK, FieldsOK
<1>2. PICK p, td :
         /\ p \in {"read", "write"}
         /\ Becomes(w, p, worker[w].task, worker[w].ret, reads, td, worker[w].num, failed)
  BY DEF Goes
<1>3. DOMAIN worker' = Workers /\ Others(w)
  BY <1>2 DEF Becomes
<1>4. FieldsOK(w)'
  BY <1>1, <1>2, BecomesOK
<1>5. PhaseOK(w)'
  BY <1>2 DEF Becomes, PhaseOK, Kind, ExecutionPcs
<1> QED
  BY <1>3, <1>4, <1>5

\* A step leaves its worker well formed and the others alone.
LEMMA WorkerStep ==
    ASSUME TypeOK, NEW w \in Workers, Step(w), ~At(w, "error")'
    PROVE  /\ DOMAIN worker' = Workers
           /\ Others(w)
           /\ FieldsOK(w)'
           /\ PhaseOK(w)'
<1> DEFINE me == worker[w]
<1>a. PhaseOK(w) /\ FieldsOK(w) /\ me.task \in Tasks /\ me.num \in [idx : Nat, wave : Nat]
  BY DEF TypeOK, WorkerOK, FieldsOK
<1>b. /\ validation_idx \in [idx : Nat, wave : Nat] /\ execution_idx \in Nat
      /\ txn_status \in [Txns -> Statuses]
  BY DEF TypeOK
<1> HIDE DEF me
<1>1. CASE LockCommits(w)
  <2>1. DOMAIN worker' = Workers /\ Others(w)
    BY <1>1, LockCommitsEffect DEF Becomes, Moves
  <2>2. PhaseOK(w)'
    BY <1>1, <1>a, <1>b, LockCommitsEffect, TaskFields
         DEF Becomes, Moves, PhaseOK, Kind, At, LoopPcs, HookPcs, ExecutionPcs, FinishPcs, AbortPcs,
         NextPcs, ValidationPcs
  <2>3. FieldsOK(w)'
    BY <1>1, <1>a, <1>b, LockCommitsEffect, Constants, TxnFacts, TaskFields
         DEF FieldsOK, At, Kind, Becomes, Moves
  <2> QED
    BY <2>1, <2>2, <2>3
<1>2. CASE SkipCommits(w)
  <2>1. DOMAIN worker' = Workers /\ Others(w)
    BY <1>2, SkipCommitsEffect DEF Becomes, Moves
  <2>2. PhaseOK(w)'
    BY <1>2, <1>a, <1>b, SkipCommitsEffect, TaskFields
         DEF Becomes, Moves, PhaseOK, Kind, At, LoopPcs, HookPcs, ExecutionPcs, FinishPcs, AbortPcs,
         NextPcs, ValidationPcs
  <2>3. FieldsOK(w)'
    BY <1>2, <1>a, <1>b, SkipCommitsEffect, Constants, TxnFacts, TaskFields
         DEF FieldsOK, At, Kind, Becomes, Moves
  <2> QED
    BY <2>1, <2>2, <2>3
<1>3. CASE TryCommit(w)
  <2>1. DOMAIN worker' = Workers /\ Others(w)
    BY <1>3, TryCommitEffect DEF Becomes
  <2>2. PhaseOK(w)'
    BY <1>3, <1>a, <1>b, TryCommitEffect, TaskFields
         DEF Becomes, PhaseOK, Kind, At, LoopPcs, HookPcs, ExecutionPcs, FinishPcs, AbortPcs,
         NextPcs, ValidationPcs
  <2>3. FieldsOK(w)'
    BY <1>3, <1>a, <1>b, TryCommitEffect, Constants, TxnFacts, TaskFields
         DEF FieldsOK, At, Kind, Becomes
  <2> QED
    BY <2>1, <2>2, <2>3
<1>4. CASE TryCommitNothing(w)
  <2>1. DOMAIN worker' = Workers /\ Others(w)
    BY <1>4, TryCommitNothingEffect DEF Becomes, Moves
  <2>2. PhaseOK(w)'
    BY <1>4, <1>a, <1>b, TryCommitNothingEffect, TaskFields
         DEF Becomes, Moves, PhaseOK, Kind, At, LoopPcs, HookPcs, ExecutionPcs, FinishPcs, AbortPcs,
         NextPcs, ValidationPcs
  <2>3. FieldsOK(w)'
    BY <1>4, <1>a, <1>b, TryCommitNothingEffect, Constants, TxnFacts, TaskFields
         DEF FieldsOK, At, Kind, Becomes, Moves
  <2> QED
    BY <2>1, <2>2, <2>3
<1>5. CASE TryCommitContended(w)
  <2>1. DOMAIN worker' = Workers /\ Others(w)
    BY <1>5, TryCommitContendedEffect DEF Becomes, Moves
  <2>2. PhaseOK(w)'
    BY <1>5, <1>a, <1>b, TryCommitContendedEffect, TaskFields
         DEF Becomes, Moves, PhaseOK, Kind, At, LoopPcs, HookPcs, ExecutionPcs, FinishPcs, AbortPcs,
         NextPcs, ValidationPcs
  <2>3. FieldsOK(w)'
    BY <1>5, <1>a, <1>b, TryCommitContendedEffect, Constants, TxnFacts, TaskFields
         DEF FieldsOK, At, Kind, Becomes, Moves
  <2> QED
    BY <2>1, <2>2, <2>3
<1>6. CASE UnlockCommits(w)
  <2>1. DOMAIN worker' = Workers /\ Others(w)
    BY <1>6, UnlockCommitsEffect DEF Becomes, Moves
  <2>2. PhaseOK(w)'
    BY <1>6, <1>a, <1>b, UnlockCommitsEffect, TaskFields
         DEF Becomes, Moves, PhaseOK, Kind, At, LoopPcs, HookPcs, ExecutionPcs, FinishPcs, AbortPcs,
         NextPcs, ValidationPcs
  <2>3. FieldsOK(w)'
    BY <1>6, <1>a, <1>b, UnlockCommitsEffect, Constants, TxnFacts, TaskFields
         DEF FieldsOK, At, Kind, Becomes, Moves
  <2> QED
    BY <2>1, <2>2, <2>3
<1>7. CASE PublishModules(w)
  <2>1. DOMAIN worker' = Workers /\ Others(w)
    BY <1>7, PublishModulesEffect DEF Becomes, Moves
  <2>2. PhaseOK(w)'
    BY <1>7, <1>a, <1>b, PublishModulesEffect, TaskFields
         DEF Becomes, Moves, PhaseOK, Kind, At, LoopPcs, HookPcs, ExecutionPcs, FinishPcs, AbortPcs,
         NextPcs, ValidationPcs
  <2>3. FieldsOK(w)'
    BY <1>7, <1>a, <1>b, PublishModulesEffect, Constants, TxnFacts, TaskFields
         DEF FieldsOK, At, Kind, Becomes, Moves
  <2> QED
    BY <2>1, <2>2, <2>3
<1>8. CASE RecordValidationRequirements(w)
  <2>1. DOMAIN worker' = Workers /\ Others(w)
    BY <1>8, RecordValidationRequirementsEffect DEF Becomes, Moves
  <2>2. PhaseOK(w)'
    BY <1>8, <1>a, <1>b, RecordValidationRequirementsEffect, TaskFields
         DEF Becomes, Moves, PhaseOK, Kind, At, LoopPcs, HookPcs, ExecutionPcs, FinishPcs, AbortPcs,
         NextPcs, ValidationPcs
  <2>3. FieldsOK(w)'
    BY <1>8, <1>a, <1>b, RecordValidationRequirementsEffect, Constants, TxnFacts, TaskFields
         DEF FieldsOK, At, Kind, Becomes, Moves
  <2> QED
    BY <2>1, <2>2, <2>3
<1>9. CASE AddToCommitQueue(w)
  <2>1. DOMAIN worker' = Workers /\ Others(w)
    BY <1>9, AddToCommitQueueEffect DEF Becomes
  <2>2. PhaseOK(w)'
    BY <1>9, <1>a, <1>b, AddToCommitQueueEffect, TaskFields
         DEF Becomes, PhaseOK, Kind, At, LoopPcs, HookPcs, ExecutionPcs, FinishPcs, AbortPcs,
         NextPcs, ValidationPcs
  <2>3. FieldsOK(w)'
    BY <1>9, <1>a, <1>b, AddToCommitQueueEffect, Constants, TxnFacts, TaskFields
         DEF FieldsOK, At, Kind, Becomes
  <2> QED
    BY <2>1, <2>2, <2>3
<1>10. CASE HaltStart(w)
  <2>1. DOMAIN worker' = Workers /\ Others(w)
    BY <1>10, HaltStartEffect DEF Becomes, Moves
  <2>2. PhaseOK(w)'
    BY <1>10, <1>a, <1>b, HaltStartEffect, TaskFields
         DEF Becomes, Moves, PhaseOK, Kind, At, LoopPcs, HookPcs, ExecutionPcs, FinishPcs, AbortPcs,
         NextPcs, ValidationPcs
  <2>3. FieldsOK(w)'
    BY <1>10, <1>a, <1>b, HaltStartEffect, Constants, TxnFacts, TaskFields
         DEF FieldsOK, At, Kind, Becomes, Moves
  <2> QED
    BY <2>1, <2>2, <2>3
<1>11. CASE HaltTxn(w)
  <2>1. DOMAIN worker' = Workers /\ Others(w)
    BY <1>11, HaltTxnEffect DEF Becomes
  <2>2. PhaseOK(w)'
    BY <1>11, <1>a, <1>b, HaltTxnEffect, TaskFields
         DEF Becomes, PhaseOK, Kind, At, LoopPcs, HookPcs, ExecutionPcs, FinishPcs, AbortPcs,
         NextPcs, ValidationPcs
  <2>3. FieldsOK(w)'
    BY <1>11, <1>a, <1>b, HaltTxnEffect, Constants, TxnFacts, TaskFields
         DEF FieldsOK, At, Kind, Becomes
  <2> QED
    BY <2>1, <2>2, <2>3
<1>12. CASE Halted(w)
  <2>1. DOMAIN worker' = Workers /\ Others(w)
    BY <1>12, HaltedEffect DEF Becomes
  <2>2. PhaseOK(w)'
    BY <1>12, <1>a, <1>b, HaltedEffect, TaskFields
         DEF Becomes, PhaseOK, Kind, At, LoopPcs, HookPcs, ExecutionPcs, FinishPcs, AbortPcs,
         NextPcs, ValidationPcs
  <2>3. FieldsOK(w)'
    BY <1>12, <1>a, <1>b, HaltedEffect, Constants, TxnFacts, TaskFields
         DEF FieldsOK, At, Kind, Becomes
  <2> QED
    BY <2>1, <2>2, <2>3
<1>13. CASE DrainCommitQueue(w)
  <2>1. DOMAIN worker' = Workers /\ Others(w)
    BY <1>13, DrainCommitQueueEffect DEF Becomes, Moves
  <2>2. PhaseOK(w)'
    BY <1>13, <1>a, <1>b, DrainCommitQueueEffect, TaskFields
         DEF Becomes, Moves, PhaseOK, Kind, At, LoopPcs, HookPcs, ExecutionPcs, FinishPcs, AbortPcs,
         NextPcs, ValidationPcs
  <2>3. FieldsOK(w)'
    BY <1>13, <1>a, <1>b, DrainCommitQueueEffect, Constants, TxnFacts, TaskFields
         DEF FieldsOK, At, Kind, Becomes, Moves
  <2> QED
    BY <2>1, <2>2, <2>3
<1>14. CASE StartTask(w)
  <2>1. CASE Kind(w) = "Execution"
    <3>1. Goes(w, EmptyFunction, FALSE) /\ worker[w].ret = "loop"
      BY <1>14, <1>a, <2>1, StartTaskEffect DEF PhaseOK, At, HookPcs, FinishPcs, AbortPcs
    <3> QED
      BY <2>1, <3>1, GoesOK
  <2>2. CASE Kind(w) = "Validation"
    <3>0. PICK p \in {"validate", "abort"} : \E rd,
              td : Becomes(w, p, worker[w].task, worker[w].ret, rd, td, worker[w].num,
              worker[w].flag)
      BY <1>14, <2>2, StartTaskEffect
    <3>1. PICK rd, td : Becomes(w, p, worker[w].task, worker[w].ret, rd, td, worker[w].num,
              worker[w].flag)
      BY <3>0
    <3>2. FieldsOK(w)'
      BY <1>a, <3>1, BecomesOK DEF FieldsOK, me
    <3>3. PhaseOK(w)'
      BY <1>14, <1>a, <2>2, <3>1, StartTaskEffect DEF Becomes, PhaseOK, Kind, At, LoopPcs, HookPcs,
           ExecutionPcs, FinishPcs, AbortPcs, NextPcs, ValidationPcs
    <3> QED
      BY <3>1, <3>2, <3>3 DEF Becomes
  <2>3. CASE Kind(w) \in {"Retry", "Done", "Wakeup"}
    <3>1. PICK p \in {"next", "exit", "wakeup"} :
            /\ Moves(w, p)
            /\ p = "next" => Kind(w) = "Retry"
            /\ p = "exit" => Kind(w) = "Done"
            /\ p = "wakeup" => Kind(w) = "Wakeup"
      BY <1>14, <2>3, StartTaskEffect
    <3>2. FieldsOK(w)'
      BY <1>a, <3>1, BecomesOK DEF FieldsOK, Moves, me
    <3>3. PhaseOK(w)'
      BY <1>14, <1>a, <2>3, <3>1, StartTaskEffect DEF Becomes, Moves, PhaseOK, Kind, At, LoopPcs,
           HookPcs, ExecutionPcs, FinishPcs, AbortPcs, NextPcs, ValidationPcs
    <3> QED
      BY <3>1, <3>2, <3>3 DEF Becomes, Moves
  <2> QED
    BY <1>a, <2>1, <2>2, <2>3, TaskFields DEF Kind, me
<1>15. CASE Wakeup(w)
  <2>1. DOMAIN worker' = Workers /\ Others(w)
    BY <1>15, WakeupEffect DEF Becomes, Moves
  <2>2. PhaseOK(w)'
    BY <1>15, <1>a, <1>b, WakeupEffect, TaskFields
         DEF Becomes, Moves, PhaseOK, Kind, At, LoopPcs, HookPcs, ExecutionPcs, FinishPcs, AbortPcs,
         NextPcs, ValidationPcs
  <2>3. FieldsOK(w)'
    BY <1>15, <1>a, <1>b, WakeupEffect, Constants, TxnFacts, TaskFields
         DEF FieldsOK, At, Kind, Becomes, Moves
  <2> QED
    BY <2>1, <2>2, <2>3
<1>16. CASE NextTask(w)
  <2>1. DOMAIN worker' = Workers /\ Others(w)
    BY <1>16, NextTaskEffect DEF Becomes, Moves, Restarts
  <2>2. PhaseOK(w)'
    BY <1>16, <1>a, <1>b, NextTaskEffect, RestartsOK, NoTaskFacts, ValidationTaskFacts,
         ExecutionTaskFacts, TaskFields DEF Becomes, Moves, PhaseOK, Kind, At, LoopPcs, HookPcs,
         ExecutionPcs, FinishPcs, AbortPcs, NextPcs, ValidationPcs
  <2>3. FieldsOK(w)'
    <3>1. \A k \in {"Retry", "Done"} : Restarts(w, NoTask(k)) => FieldsOK(w)'
      BY RestartsOK, NoTaskFacts
    <3>2. Moves(w, "next_execution") => FieldsOK(w)'
      BY <1>a, BecomesOK DEF FieldsOK, Moves, me
    <3>3. ASSUME validation_idx.idx < num_txns, NEW f \in BOOLEAN,
                 Becomes(w, "next_validation", worker[w].task, worker[w].ret, worker[w].reads,
                         worker[w].todo, validation_idx, f)
          PROVE  FieldsOK(w)'
      <4>1. validation_idx.idx \in Txns
        BY <1>b, <3>3, TxnFacts
      <4> QED
        BY <1>a, <1>b, <3>3, <4>1, BecomesOK DEF me
    <3> QED
      BY <1>16, <3>1, <3>2, <3>3, NextTaskEffect
  <2> QED
    BY <2>1, <2>2, <2>3
<1>17. CASE ClaimValidation(w)
  <2>1. DOMAIN worker' = Workers /\ Others(w)
    BY <1>17, ClaimValidationEffect DEF Becomes, Moves
  <2>2. PhaseOK(w)'
    BY <1>17, <1>a, <1>b, ClaimValidationEffect, TaskFields
         DEF Becomes, Moves, PhaseOK, Kind, At, LoopPcs, HookPcs, ExecutionPcs, FinishPcs, AbortPcs,
         NextPcs, ValidationPcs, NoValidation
  <2>3. FieldsOK(w)'
    BY <1>17, <1>a, <1>b, ClaimValidationEffect, Constants, TxnFacts, TaskFields
         DEF FieldsOK, At, Kind, Becomes, Moves, NoValidation
  <2> QED
    BY <2>1, <2>2, <2>3
<1>18. CASE StartValidation(w)
  <2>1. CASE is_executed(worker[w].num.idx, FALSE)
    <3> DEFINE n == worker[w].num
               tk == ValidationTask(n.idx, txn_status[n.idx].inc, n.wave)
    <3>1. n.idx \in Txns /\ n.wave \in Nat
      BY <1>18, <1>a, StartValidationEffect DEF FieldsOK, At, me
    <3>2. tk \in Tasks
      BY <1>b, <3>1, ValidationTaskFacts DEF Statuses
    <3>3. Restarts(w, tk)
      BY <1>18, <2>1, StartValidationEffect
    <3> QED
      BY <3>2, <3>3, RestartsOK DEF Restarts, Becomes
  <2>2. CASE ~is_executed(worker[w].num.idx, FALSE)
    <3>1. PICK p \in {"next_execution", "next"} : Moves(w, p)
      BY <1>18, <2>2, StartValidationEffect DEF NoValidation
    <3>2. FieldsOK(w)'
      BY <1>a, <3>1, BecomesOK DEF FieldsOK, Moves, me
    <3>3. PhaseOK(w)'
      BY <1>18, <1>a, <3>1, StartValidationEffect DEF Becomes, Moves, PhaseOK, Kind, At, LoopPcs,
           HookPcs, ExecutionPcs, FinishPcs, AbortPcs, NextPcs, ValidationPcs
    <3> QED
      BY <3>1, <3>2, <3>3 DEF Becomes, Moves
  <2> QED
    BY <2>1, <2>2
<1>19. CASE ClaimExecution(w)
  <2>1. DOMAIN worker' = Workers /\ Others(w)
    BY <1>19, ClaimExecutionEffect DEF Becomes
  <2>2. PhaseOK(w)'
    BY <1>19, <1>a, <1>b, ClaimExecutionEffect, TaskFields
         DEF Becomes, PhaseOK, Kind, At, LoopPcs, HookPcs, ExecutionPcs, FinishPcs, AbortPcs,
         NextPcs, ValidationPcs
  <2>3. FieldsOK(w)'
    <3>1. [idx |-> execution_idx, wave |-> worker[w].num.wave] \in [idx : Nat, wave : Nat]
      BY <1>a, <1>b DEF me
    <3>2. execution_idx < num_txns => execution_idx \in Txns
      BY <1>b, TxnFacts
    <3>3. worker[w].flag \in BOOLEAN /\ worker[w].task \in Tasks
      BY <1>a DEF FieldsOK, me
    <3>4. PICK n : n = [idx |-> execution_idx, wave |-> worker[w].num.wave]
      OBVIOUS
    <3>5. PICK p \in {"next", "next_incarnate"} :
             /\ p = "next_incarnate" => execution_idx < num_txns
             /\ Becomes(w, p, worker[w].task, worker[w].ret, worker[w].reads,
                        worker[w].todo, n, worker[w].flag)
      <4>1. CASE execution_idx < num_txns
        BY <1>19, <3>4, <4>1, ClaimExecutionEffect
      <4>2. CASE ~(execution_idx < num_txns)
        BY <1>19, <3>4, <4>2, ClaimExecutionEffect
      <4> QED
        BY <4>1, <4>2
    <3>6. n \in [idx : Nat, wave : Nat] /\ n.idx = execution_idx
      BY <3>1, <3>4
    <3> QED
      BY <3>2, <3>3, <3>5, <3>6, BecomesOK
  <2> QED
    BY <2>1, <2>2, <2>3
<1>20. CASE TryIncarnate(w)
  <2> DEFINE t == worker[w].num.idx
  <2>1. t \in Txns
    BY <1>20, <1>a, TryIncarnateEffect DEF FieldsOK, At, me
  <2>2. CASE txn_status[t].name = "Ready"
    <3>1. ExecutionTask(t, txn_status[t]) \in Tasks
      BY <1>b, <2>1, ExecutionTaskFacts
    <3>2. Restarts(w, ExecutionTask(t, txn_status[t]))
      BY <1>20, <2>2, TryIncarnateEffect
    <3> QED
      BY <3>1, <3>2, RestartsOK DEF Restarts, Becomes
  <2>3. CASE txn_status[t].name # "Ready" /\ worker[w].ret = "finish_abort"
    <3>1. Restarts(w, NoTask("Retry"))
      BY <1>20, <2>3, TryIncarnateEffect
    <3> QED
      BY <3>1, RestartsOK, NoTaskFacts DEF Restarts, Becomes
  <2>4. CASE txn_status[t].name # "Ready" /\ worker[w].ret # "finish_abort"
    <3>1. Moves(w, "next")
      BY <1>20, <2>4, TryIncarnateEffect
    <3>2. FieldsOK(w)'
      BY <1>a, <3>1, BecomesOK DEF FieldsOK, Moves, me
    <3>3. PhaseOK(w)'
      BY <1>20, <1>a, <2>4, <3>1, TryIncarnateEffect
           DEF Becomes, Moves, PhaseOK, Kind, At, LoopPcs, HookPcs, ExecutionPcs, FinishPcs,
           AbortPcs, NextPcs, ValidationPcs
    <3> QED
      BY <3>1, <3>2, <3>3 DEF Becomes, Moves
  <2> QED
    BY <2>2, <2>3, <2>4
<1>21. CASE Read(w)
  <2>1. DOMAIN worker' = Workers /\ Others(w)
    BY <1>21, ReadEffect DEF Becomes, Goes
  <2>2. PhaseOK(w)'
    BY <1>21, <1>a, <1>b, ReadEffect, TaskFields DEF Becomes, Goes, PhaseOK, Kind, At, LoopPcs,
         HookPcs, ExecutionPcs, FinishPcs, AbortPcs, NextPcs, ValidationPcs
  <2>3. FieldsOK(w)'
    <3>1. worker[w].ret = "loop" /\ Kind(w) = "Execution"
      BY <1>21, <1>a, ReadEffect DEF PhaseOK, Kind, At, LoopPcs, HookPcs, ExecutionPcs, FinishPcs,
           AbortPcs, NextPcs, ValidationPcs
    <3>2. ASSUME NEW j \in 0 .. worker[w].task.txn - 1,
                 Becomes(w, "wait", worker[w].task, worker[w].ret, worker[w].reads,
                         worker[w].todo, [idx |-> j, wave |-> worker[w].num.wave], worker[w].flag)
          PROVE  FieldsOK(w)'
      <4>0. worker[w].task.txn \in Nat /\ worker[w].task.txn < num_txns
        BY <1>a, TaskFields, TxnFacts DEF me
      <4>1. j \in Txns /\ j \in Nat
        BY <4>0, <3>2, TxnFacts, Constants
      <4>2. [idx |-> j, wave |-> worker[w].num.wave] \in [idx : Nat, wave : Nat]
        BY <1>a, <4>1 DEF me
      <4>3. worker[w].flag \in BOOLEAN /\ worker[w].task \in Tasks
        BY <1>a DEF FieldsOK, me
      <4> QED
        BY <3>2, <4>1, <4>2, <4>3, BecomesOK
    <3> QED
      BY <1>21, <3>1, <3>2, ReadEffect, GoesOK
  <2> QED
    BY <2>1, <2>2, <2>3
<1>22. CASE Interrupt(w)
  <2>1. DOMAIN worker' = Workers /\ Others(w)
    BY <1>22, InterruptEffect DEF Becomes, Goes
  <2>2. PhaseOK(w)'
    BY <1>22, <1>a, <1>b, InterruptEffect, TaskFields
         DEF Becomes, Goes, PhaseOK, Kind, At, LoopPcs, HookPcs, ExecutionPcs, FinishPcs, AbortPcs,
         NextPcs, ValidationPcs
  <2>3. FieldsOK(w)'
    BY <1>22, <1>a, <1>b, InterruptEffect, Constants, TxnFacts, TaskFields
         DEF FieldsOK, At, Kind, Becomes, Goes
  <2> QED
    BY <2>1, <2>2, <2>3
<1>23. CASE WaitForDependency(w)
  <2>1. DOMAIN worker' = Workers /\ Others(w)
    BY <1>23, WaitForDependencyEffect DEF Becomes, Moves
  <2>2. PhaseOK(w)'
    BY <1>23, <1>a, <1>b, WaitForDependencyEffect, TaskFields
         DEF Becomes, Moves, PhaseOK, Kind, At, LoopPcs, HookPcs, ExecutionPcs, FinishPcs, AbortPcs,
         NextPcs, ValidationPcs
  <2>3. FieldsOK(w)'
    BY <1>23, <1>a, <1>b, WaitForDependencyEffect, Constants, TxnFacts, TaskFields
         DEF FieldsOK, At, Kind, Becomes, Moves
  <2> QED
    BY <2>1, <2>2, <2>3
<1>24. CASE Suspend(w)
  <2>1. DOMAIN worker' = Workers /\ Others(w)
    BY <1>24, SuspendEffect DEF Becomes, Moves, Goes
  <2>2. PhaseOK(w)'
    BY <1>24, <1>a, <1>b, SuspendEffect, TaskFields
         DEF Becomes, Moves, Goes, PhaseOK, Kind, At, LoopPcs, HookPcs, ExecutionPcs, FinishPcs,
         AbortPcs, NextPcs, ValidationPcs
  <2>3. FieldsOK(w)'
    BY <1>24, <1>a, <1>b, SuspendEffect, Constants, TxnFacts, TaskFields
         DEF FieldsOK, At, Kind, Becomes, Moves, Goes
  <2> QED
    BY <2>1, <2>2, <2>3
<1>25. CASE Awake(w)
  <2>1. DOMAIN worker' = Workers /\ Others(w)
    BY <1>25, AwakeEffect DEF Becomes, Moves, Goes
  <2>2. PhaseOK(w)'
    BY <1>25, <1>a, <1>b, AwakeEffect, TaskFields DEF Becomes, Moves, Goes, PhaseOK, Kind, At,
         LoopPcs, HookPcs, ExecutionPcs, FinishPcs, AbortPcs, NextPcs, ValidationPcs
  <2>3. FieldsOK(w)'
    BY <1>25, <1>a, <1>b, AwakeEffect, Constants, TxnFacts, TaskFields, ZenonT(40)
         DEF FieldsOK, At, Kind, Becomes, Moves, Goes
  <2> QED
    BY <2>1, <2>2, <2>3
<1>26. CASE Write(w)
  <2>1. DOMAIN worker' = Workers /\ Others(w)
    BY <1>26, WriteEffect DEF Becomes
  <2>2. PhaseOK(w)'
    BY <1>26, <1>a, <1>b, WriteEffect, TaskFields DEF Becomes, PhaseOK, Kind, At, LoopPcs, HookPcs,
         ExecutionPcs, FinishPcs, AbortPcs, NextPcs, ValidationPcs
  <2>3. FieldsOK(w)'
    BY <1>26, <1>a, <1>b, WriteEffect, Constants, TxnFacts, TaskFields
         DEF FieldsOK, At, Kind, Becomes
  <2> QED
    BY <2>1, <2>2, <2>3
<1>27. CASE Record(w)
  <2>1. DOMAIN worker' = Workers /\ Others(w)
    BY <1>27, RecordEffect DEF Becomes
  <2>2. PhaseOK(w)'
    BY <1>27, <1>a, <1>b, RecordEffect, TaskFields
         DEF Becomes, PhaseOK, Kind, At, LoopPcs, HookPcs, ExecutionPcs, FinishPcs, AbortPcs,
         NextPcs, ValidationPcs
  <2>3. FieldsOK(w)'
    <3>1. needs_suffix_validation(worker[w].task.txn, CurrentOutput(w)) \in BOOLEAN
      BY Zenon DEF needs_suffix_validation
    <3> QED
      BY <1>27, <1>a, <3>1, RecordEffect, BecomesOK DEF me
  <2> QED
    BY <2>1, <2>2, <2>3
<1>28. CASE FinishExecution(w)
  <2>1. DOMAIN worker' = Workers /\ Others(w)
    BY <1>28, FinishExecutionEffect DEF Becomes
  <2>2. PhaseOK(w)'
    BY <1>28, <1>a, <1>b, FinishExecutionEffect, TaskFields
         DEF Becomes, PhaseOK, Kind, At, LoopPcs, HookPcs, ExecutionPcs, FinishPcs, AbortPcs,
         NextPcs, ValidationPcs
  <2>3. FieldsOK(w)'
    BY <1>28, <1>a, <1>b, FinishExecutionEffect, Constants, TxnFacts, TaskFields
         DEF FieldsOK, At, Kind, Becomes
  <2> QED
    BY <2>1, <2>2, <2>3
<1>29. CASE TakeDependencies(w)
  <2>1. DOMAIN worker' = Workers /\ Others(w)
    BY <1>29, TakeDependenciesEffect DEF Becomes
  <2>2. PhaseOK(w)'
    BY <1>29, <1>a, <1>b, TakeDependenciesEffect, TaskFields
         DEF Becomes, PhaseOK, Kind, At, LoopPcs, HookPcs, ExecutionPcs, FinishPcs, AbortPcs,
         NextPcs, ValidationPcs, AfterWake
  <2>3. FieldsOK(w)'
    <3>1. PICK p \in {"decrease", "finish_load", "resume"}, i \in Nat :
             Becomes(w, p, worker[w].task, worker[w].ret, worker[w].reads,
                     txn_dependency[Txn(w)], [idx |-> i, wave |-> worker[w].num.wave],
                     worker[w].flag)
      BY <1>29, TakeDependenciesEffect DEF AfterWake
    <3>2. [idx |-> i, wave |-> worker[w].num.wave] \in [idx : Nat, wave : Nat]
      BY <1>a DEF me
    <3>3. worker[w].flag \in BOOLEAN /\ worker[w].task \in Tasks
      BY <1>a DEF FieldsOK, me
    <3> QED
      BY <3>1, <3>2, <3>3, BecomesOK
  <2> QED
    BY <2>1, <2>2, <2>3
<1>30. CASE Resume(w)
  <2>1. DOMAIN worker' = Workers /\ Others(w)
    BY <1>30, ResumeEffect DEF Becomes
  <2>2. PhaseOK(w)'
    BY <1>30, <1>a, <1>b, ResumeEffect, TaskFields
         DEF Becomes, PhaseOK, Kind, At, LoopPcs, HookPcs, ExecutionPcs, FinishPcs, AbortPcs,
         NextPcs, ValidationPcs
  <2>3. FieldsOK(w)'
    BY <1>30, <1>a, <1>b, ResumeEffect, Constants, TxnFacts, TaskFields
         DEF FieldsOK, At, Kind, Becomes
  <2> QED
    BY <2>1, <2>2, <2>3
<1>31. CASE FetchMin(w)
  <2>1. DOMAIN worker' = Workers /\ Others(w)
    BY <1>31, FetchMinEffect DEF Becomes, Moves
  <2>2. PhaseOK(w)'
    BY <1>31, <1>a, <1>b, FetchMinEffect, TaskFields
         DEF Becomes, Moves, PhaseOK, Kind, At, LoopPcs, HookPcs, ExecutionPcs, FinishPcs, AbortPcs,
         NextPcs, ValidationPcs, AfterWake
  <2>3. FieldsOK(w)'
    BY <1>31, <1>a, <1>b, FetchMinEffect, Constants, TxnFacts, TaskFields
         DEF FieldsOK, At, Kind, Becomes, Moves, AfterWake
  <2> QED
    BY <2>1, <2>2, <2>3
<1>32. CASE FinishLoad(w)
  <2>1. CASE validation_idx.idx > worker[w].task.txn
    <3> DEFINE new == [worker[w].task EXCEPT !.wave = validation_idx.wave]
    <3>1. PICK p \in {"decrease", "require_wave"} :
             Becomes(w, p, new, worker[w].ret, worker[w].reads, worker[w].todo,
                     worker[w].num, worker[w].flag)
      BY <1>32, <2>1, FinishLoadEffect
    <3>2. new \in Tasks /\ new.kind = worker[w].task.kind
      BY <1>a, <1>b, TaskFields DEF me
    <3>3. FieldsOK(w)'
      BY <1>a, <3>1, <3>2, BecomesOK DEF FieldsOK, me
    <3>4. PhaseOK(w)'
      BY <1>32, <1>a, <3>1, <3>2, FinishLoadEffect
           DEF Becomes, PhaseOK, Kind, At, LoopPcs, HookPcs, ExecutionPcs, FinishPcs, AbortPcs,
           NextPcs, ValidationPcs
    <3> QED
      BY <3>1, <3>3, <3>4 DEF Becomes
  <2>2. CASE ~(validation_idx.idx > worker[w].task.txn)
    <3>1. Restarts(w, NoTask("Retry"))
      BY <1>32, <2>2, FinishLoadEffect
    <3> QED
      BY <3>1, RestartsOK, NoTaskFacts DEF Restarts, Becomes
  <2> QED
    BY <2>1, <2>2
<1>33. CASE RequireWave(w)
  <2>1. ValidationTask(worker[w].task.txn, worker[w].task.inc, worker[w].task.wave) \in Tasks
    BY <1>a, TaskFields, ValidationTaskFacts DEF me
  <2> QED
    BY <1>33, <2>1, RequireWaveEffect, RestartsOK DEF Restarts, Becomes
<1>34. CASE TriggerWave(w)
  <2>1. DOMAIN worker' = Workers /\ Others(w)
    BY <1>34, TriggerWaveEffect DEF Becomes, Moves
  <2>2. PhaseOK(w)'
    BY <1>34, <1>a, <1>b, TriggerWaveEffect, TaskFields
         DEF Becomes, Moves, PhaseOK, Kind, At, LoopPcs, HookPcs, ExecutionPcs, FinishPcs, AbortPcs,
         NextPcs, ValidationPcs, AfterDecrease
  <2>3. FieldsOK(w)'
    <3>1. PICK p \in {"decrease_cas", "queue", "require_wave", "abort_done"},
               n \in {worker[w].num, validation_idx} :
             Becomes(w, p, worker[w].task, worker[w].ret, worker[w].reads, worker[w].todo,
                     n, worker[w].flag)
      BY <1>34, <1>a, TriggerWaveEffect DEF Moves, AfterDecrease, PhaseOK, Kind, At, LoopPcs,
           HookPcs, ExecutionPcs, FinishPcs, AbortPcs, NextPcs, ValidationPcs
    <3> QED
      BY <1>a, <1>b, <3>1, BecomesOK DEF FieldsOK, me
  <2> QED
    BY <2>1, <2>2, <2>3
<1>35. CASE DecreaseValidationIdx(w)
  <2>1. PICK p \in {"decrease", "queue", "require_wave", "abort_done"}, new \in Tasks :
           /\ Becomes(w, p, new, worker[w].ret, worker[w].reads, worker[w].todo,
                      worker[w].num, worker[w].flag)
           /\ new.kind = worker[w].task.kind
           /\ p = "decrease" \/ p = AfterDecrease(w)
    <3> DEFINE new == [worker[w].task EXCEPT !.wave = worker[w].num.wave + 1]
    <3>1. new \in Tasks /\ new.kind = worker[w].task.kind
      BY <1>a, TaskFields DEF me
    <3>2. AfterDecrease(w) \in {"queue", "require_wave", "abort_done"}
      BY <1>35, <1>a, DecreaseValidationIdxEffect DEF AfterDecrease, PhaseOK, Kind, At, LoopPcs,
           HookPcs, ExecutionPcs, FinishPcs, AbortPcs, NextPcs, ValidationPcs
    <3> HIDE DEF new
    <3> QED
      BY <1>35, <1>a, <3>1, <3>2, DecreaseValidationIdxEffect DEF Moves, me, new
  <2>2. FieldsOK(w)'
    BY <1>a, <2>1, BecomesOK DEF FieldsOK, me
  <2>3. PhaseOK(w)'
    BY <1>35, <1>a, <2>1, DecreaseValidationIdxEffect
         DEF Becomes, AfterDecrease, PhaseOK, Kind, At, LoopPcs, HookPcs, ExecutionPcs, FinishPcs,
         AbortPcs, NextPcs, ValidationPcs
  <2> QED
    BY <2>1, <2>2, <2>3 DEF Becomes
<1>36. CASE Validate(w)
  <2>1. DOMAIN worker' = Workers /\ Others(w)
    BY <1>36, ValidateEffect DEF Becomes
  <2>2. PhaseOK(w)'
    BY <1>36, <1>a, <1>b, ValidateEffect, TaskFields
         DEF Becomes, PhaseOK, Kind, At, LoopPcs, HookPcs, ExecutionPcs, FinishPcs, AbortPcs,
         NextPcs, ValidationPcs
  <2>3. FieldsOK(w)'
    BY <1>36, <1>a, <1>b, ValidateEffect, Constants, TxnFacts, TaskFields, ZenonT(40)
         DEF FieldsOK, At, Kind, Becomes
  <2> QED
    BY <2>1, <2>2, <2>3
<1>37. CASE TryAbort(w)
  <2>1. DOMAIN worker' = Workers /\ Others(w)
    BY <1>37, TryAbortEffect DEF Becomes
  <2>2. PhaseOK(w)'
    BY <1>37, <1>a, <1>b, TryAbortEffect, TaskFields
         DEF Becomes, PhaseOK, Kind, At, LoopPcs, HookPcs, ExecutionPcs, FinishPcs, AbortPcs,
         NextPcs, ValidationPcs
  <2>3. FieldsOK(w)'
    BY <1>37, <1>a, <1>b, TryAbortEffect, Constants, TxnFacts, TaskFields, ZenonT(40)
         DEF FieldsOK, At, Kind, Becomes
  <2> QED
    BY <2>1, <2>2, <2>3
<1>38. CASE MarkEstimate(w)
  <2>1. DOMAIN worker' = Workers /\ Others(w)
    BY <1>38, MarkEstimateEffect DEF Becomes
  <2>2. PhaseOK(w)'
    BY <1>38, <1>a, <1>b, MarkEstimateEffect, TaskFields
         DEF Becomes, PhaseOK, Kind, At, LoopPcs, HookPcs, ExecutionPcs, FinishPcs, AbortPcs,
         NextPcs, ValidationPcs
  <2>3. FieldsOK(w)'
    BY <1>38, <1>a, <1>b, MarkEstimateEffect, Constants, TxnFacts, TaskFields
         DEF FieldsOK, At, Kind, Becomes
  <2> QED
    BY <2>1, <2>2, <2>3
<1>39. CASE FinishAbort(w)
  <2>1. DOMAIN worker' = Workers /\ Others(w)
    BY <1>39, FinishAbortEffect DEF Becomes
  <2>2. PhaseOK(w)'
    BY <1>39, <1>a, <1>b, FinishAbortEffect, TaskFields
         DEF Becomes, PhaseOK, Kind, At, LoopPcs, HookPcs, ExecutionPcs, FinishPcs, AbortPcs,
         NextPcs, ValidationPcs
  <2>3. FieldsOK(w)'
    BY <1>39, <1>a, <1>b, FinishAbortEffect, Constants, TxnFacts, TaskFields
         DEF FieldsOK, At, Kind, Becomes
  <2> QED
    BY <2>1, <2>2, <2>3
<1>40. CASE AbortDone(w)
  <2>1. DOMAIN worker' = Workers /\ Others(w)
    BY <1>40, AbortDoneEffect DEF Becomes, Moves
  <2>2. PhaseOK(w)'
    BY <1>40, <1>a, <1>b, AbortDoneEffect, TaskFields
         DEF Becomes, Moves, PhaseOK, Kind, At, LoopPcs, HookPcs, ExecutionPcs, FinishPcs, AbortPcs,
         NextPcs, ValidationPcs
  <2>3. FieldsOK(w)'
    BY <1>40, <1>a, <1>b, AbortDoneEffect, Constants, TxnFacts, TaskFields
         DEF FieldsOK, At, Kind, Becomes, Moves
  <2> QED
    BY <2>1, <2>2, <2>3
<1>41. CASE AbortLoad(w)
  <2>1. DOMAIN worker' = Workers /\ Others(w)
    BY <1>41, AbortLoadEffect DEF Becomes, Restarts
  <2>2. PhaseOK(w)'
    BY <1>41, <1>a, <1>b, AbortLoadEffect, RestartsOK, NoTaskFacts, ValidationTaskFacts,
         ExecutionTaskFacts, TaskFields DEF Becomes, PhaseOK, Kind, At, LoopPcs, HookPcs,
         ExecutionPcs, FinishPcs, AbortPcs, NextPcs, ValidationPcs
  <2>3. FieldsOK(w)'
    <3>1. worker[w].task.txn \in Txns /\ worker[w].task.txn \in Nat
      BY <1>a, TaskFields, TxnFacts DEF me
    <3>2. [idx |-> worker[w].task.txn, wave |-> worker[w].num.wave] \in [idx : Nat, wave : Nat]
      BY <1>a, <3>1 DEF me
    <3>3. worker[w].flag \in BOOLEAN /\ worker[w].task \in Tasks
      BY <1>a DEF FieldsOK, me
    <3>4. PICK n : n = [idx |-> worker[w].task.txn, wave |-> worker[w].num.wave]
      OBVIOUS
    <3>5. n \in [idx : Nat, wave : Nat] /\ n.idx \in Txns
      BY <3>1, <3>2, <3>4
    <3>6. \/ Becomes(w, "next_incarnate", worker[w].task, worker[w].ret, worker[w].reads,
                     worker[w].todo, n, worker[w].flag)
          \/ Restarts(w, NoTask("Retry"))
      BY <1>41, <3>4, AbortLoadEffect
    <3> QED
      BY <3>3, <3>5, <3>6, RestartsOK, NoTaskFacts, BecomesOK
  <2> QED
    BY <2>1, <2>2, <2>3
<1>42. CASE FinishValidation(w)
  <2>1. DOMAIN worker' = Workers /\ Others(w)
    BY <1>42, FinishValidationEffect DEF Becomes, Moves, Restarts
  <2>2. PhaseOK(w)'
    BY <1>42, <1>a, <1>b, FinishValidationEffect, RestartsOK, NoTaskFacts, ValidationTaskFacts,
         ExecutionTaskFacts, TaskFields DEF Becomes, Moves, PhaseOK, Kind, At, LoopPcs, HookPcs,
         ExecutionPcs, FinishPcs, AbortPcs, NextPcs, ValidationPcs
  <2>3. FieldsOK(w)'
    BY <1>42, <1>a, <1>b, FinishValidationEffect, RestartsOK, NoTaskFacts, ValidationTaskFacts,
         ExecutionTaskFacts, Constants, TxnFacts, TaskFields
         DEF FieldsOK, At, Kind, Becomes, Moves
  <2> QED
    BY <2>1, <2>2, <2>3
<1>43. CASE Arm(w)
  BY <1>43, <1>a, ArmEffect, RestartsOK, NoTaskFacts, ValidationTaskFacts, TaskFields
       DEF Restarts, Becomes
<1> QED
  BY <1>1, <1>2, <1>3, <1>4, <1>5, <1>6, <1>7, <1>8, <1>9, <1>10, <1>11, <1>12, <1>13, <1>14, <1>15,
       <1>16, <1>17, <1>18, <1>19, <1>20, <1>21, <1>22, <1>23, <1>24, <1>25, <1>26, <1>27, <1>28,
       <1>29, <1>30, <1>31, <1>32, <1>33, <1>34, <1>35, <1>36, <1>37, <1>38, <1>39, <1>40, <1>41,
       <1>42, <1>43 DEF Step

-----------------------------------------------------------------------------
(* Which steps change what a worker is doing.                              *)

\* A worker with a new task is at the top of its loop.
LEMMA BackToLoop ==
    ASSUME NEW w, NEW tk, Restarts(w, tk)
    PROVE  worker'[w].pc = "loop" /\ worker'[w].ret = "loop" /\ worker'[w].task = tk
BY DEF Restarts, Becomes

\* The kinds of the tasks next_task returns.
LEMMA TaskKinds ==
    /\ \A t, i, u : ValidationTask(t, i, u).kind = "Validation"
    /\ \A t, st : ExecutionTask(t, st).kind \in {"Execution", "Wakeup"}
BY DEF ValidationTask, ExecutionTask

\* Three effects again, without the records.
LEMMA StartValidationFacts ==
    ASSUME TypeOK, NEW w \in Workers, StartValidation(w)
    PROVE  /\ At(w, "next_executed")
           /\ \/ /\ worker'[w].pc = "loop" /\ worker'[w].ret = "loop"
                 /\ worker'[w].task.kind = "Validation"
              \/ Moves(w, "next_execution") \/ Moves(w, "next")
<1>1. CASE is_executed(worker[w].num.idx, FALSE)
  <2>1. PICK tk : tk.kind = "Validation" /\ Restarts(w, tk)
    BY <1>1, StartValidationEffect, TaskKinds
  <2> QED
    BY <2>1, StartValidationEffect, BackToLoop
<1>2. CASE ~is_executed(worker[w].num.idx, FALSE)
  BY <1>2, StartValidationEffect DEF NoValidation
<1> QED
  BY <1>1, <1>2

LEMMA FinishLoadFacts ==
    ASSUME TypeOK, NEW w \in Workers, FinishLoad(w)
    PROVE  /\ At(w, "finish_load")
           /\ IF validation_idx.idx > worker[w].task.txn
              THEN \E tk \in Tasks :
                      /\ tk.kind = worker[w].task.kind /\ tk.txn = worker[w].task.txn
                      /\ tk.inc = worker[w].task.inc /\ tk.wave = validation_idx.wave
                      /\ Becomes(w, IF worker[w].flag THEN "decrease" ELSE "require_wave",
                                 tk, worker[w].ret, worker[w].reads, worker[w].todo,
                                 worker[w].num, worker[w].flag)
              ELSE Restarts(w, NoTask("Retry"))
<1>1. CASE validation_idx.idx > worker[w].task.txn
  <2>1. PICK tk : tk = [worker[w].task EXCEPT !.wave = validation_idx.wave]
    OBVIOUS
  <2>2. /\ tk \in Tasks /\ tk.kind = worker[w].task.kind /\ tk.txn = worker[w].task.txn
        /\ tk.inc = worker[w].task.inc /\ tk.wave = validation_idx.wave
    BY <2>1, ZenonT(40) DEF TypeOK, WorkerOK, FieldsOK, Tasks
  <2> QED
    BY <1>1, <2>1, <2>2, FinishLoadEffect
<1>2. CASE ~(validation_idx.idx > worker[w].task.txn)
  BY <1>2, FinishLoadEffect
<1> QED
  BY <1>1, <1>2

LEMMA DecreaseFacts ==
    ASSUME TypeOK, NEW w \in Workers, DecreaseValidationIdx(w)
    PROVE  /\ At(w, "decrease_cas")
           /\ IF validation_idx = worker[w].num
              THEN \E tk \in Tasks :
                      /\ tk.kind = worker[w].task.kind /\ tk.txn = worker[w].task.txn
                      /\ tk.inc = worker[w].task.inc
                      /\ worker[w].ret = "finish_execution" => tk.wave = worker[w].num.wave + 1
                      /\ worker[w].ret # "finish_execution" => tk = worker[w].task
                      /\ Becomes(w, AfterDecrease(w), tk, worker[w].ret, worker[w].reads,
                                 worker[w].todo, worker[w].num, worker[w].flag)
              ELSE Moves(w, "decrease")
<1>1. CASE validation_idx = worker[w].num /\ worker[w].ret = "finish_execution"
  <2>1. PICK tk : tk = [worker[w].task EXCEPT !.wave = worker[w].num.wave + 1]
    OBVIOUS
  <2>2. /\ tk \in Tasks /\ tk.kind = worker[w].task.kind /\ tk.txn = worker[w].task.txn
        /\ tk.inc = worker[w].task.inc /\ tk.wave = worker[w].num.wave + 1
    <3>1. worker[w].task \in Tasks /\ worker[w].num.wave + 1 \in Nat
      BY DEF TypeOK, WorkerOK, FieldsOK
    <3> QED
      BY <2>1, <3>1 DEF Tasks
  <2> QED
    BY <1>1, <2>1, <2>2, DecreaseValidationIdxEffect
<1>2. CASE validation_idx = worker[w].num /\ worker[w].ret # "finish_execution"
  BY <1>2, DecreaseValidationIdxEffect DEF TypeOK, WorkerOK, FieldsOK
<1>3. CASE validation_idx # worker[w].num
  BY <1>3, DecreaseValidationIdxEffect
<1> QED
  BY <1>1, <1>2, <1>3

\* The actions at which a worker enters and leaves each of its roles.
LEMMA Roles ==
    ASSUME TypeOK, NEW w \in Workers, Step(w), ~At(w, "error")'
    PROVE  /\ \/ ((Executing(w)' <=> Executing(w)) /\
                     (Executing(w) => worker'[w].task = worker[w].task))
              \/ TryIncarnate(w) \/ FinishExecution(w)
           /\ \/ ((Aborting(w)' <=> Aborting(w)) /\
                     (Aborting(w) => worker'[w].task = worker[w].task /\
                     worker'[w].ret = worker[w].ret))
              \/ TryAbort(w) \/ FinishAbort(w)
           /\ \/ ((Finishing(w)' <=> Finishing(w)) /\
                     (Finishing(w) => worker'[w].task.txn = worker[w].task.txn /\
                     worker'[w].task.inc = worker[w].task.inc /\
                     worker'[w].flag = worker[w].flag))
              \/ FinishExecution(w) \/ FinishLoad(w) \/ RequireWave(w)
           /\ \/ ((Aborted(w)' <=> Aborted(w)) /\ (Aborted(w) => worker'[w].task = worker[w].task))
              \/ FinishAbort(w) \/ AbortDone(w)
           /\ \/ (Coordinates(w)' <=> Coordinates(w))
              \/ LockCommits(w) \/ UnlockCommits(w)
           /\ \/ ((worker'[w].ret = "hook") <=> (worker[w].ret = "hook"))
              \/ TryCommit(w) \/ AddToCommitQueue(w)
           /\ \/ ((At(w, "halt")' <=> At(w, "halt")) /\
                     (At(w, "halt") => worker'[w].todo = worker[w].todo))
              \/ AddToCommitQueue(w) \/ HaltStart(w)
           /\ \/ ((At(w, "halt_txn")' <=> At(w, "halt_txn")) /\
                     (At(w, "halt_txn") => worker'[w].todo = worker[w].todo))
              \/ HaltStart(w) \/ HaltTxn(w)
           /\ \/ (At(w, "halted")' <=> At(w, "halted"))
              \/ HaltStart(w) \/ HaltTxn(w) \/ Halted(w)
           /\ \/ ((Kind(w) = "Done")' <=> (Kind(w) = "Done"))
              \/ NextTask(w)
           /\ \/ (At(w, "publish")' <=> At(w, "publish"))
              \/ TryCommit(w) \/ PublishModules(w)
           /\ \/ (At(w, "require")' <=> At(w, "require"))
              \/ PublishModules(w) \/ RecordValidationRequirements(w)
           /\ \/ (At(w, "exit")' <=> At(w, "exit"))
              \/ StartTask(w)
<1>a. PhaseOK(w)
  BY DEF TypeOK, WorkerOK
<1> USE DEF PhaseOK, Kind, At, LoopPcs, HookPcs, ExecutionPcs, FinishPcs, AbortPcs, NextPcs,
            ValidationPcs, Executing, Aborting, Finishing, Aborted, Coordinates, CommitPcs
<1>1. CASE LockCommits(w)
  BY <1>1, <1>a, LockCommitsEffect DEF Becomes, Moves, Goes, AfterWake, AfterDecrease, NoValidation
<1>2. CASE SkipCommits(w)
  BY <1>2, <1>a, SkipCommitsEffect DEF Becomes, Moves, Goes, AfterWake, AfterDecrease, NoValidation
<1>3. CASE TryCommit(w)
  BY <1>3, <1>a, TryCommitEffect DEF Becomes, Moves, Goes, AfterWake, AfterDecrease, NoValidation
<1>4. CASE TryCommitNothing(w)
  BY <1>4, <1>a, TryCommitNothingEffect DEF Becomes, Moves, Goes, AfterWake, AfterDecrease,
       NoValidation
<1>5. CASE TryCommitContended(w)
  BY <1>5, <1>a, TryCommitContendedEffect DEF Becomes, Moves, Goes, AfterWake, AfterDecrease,
       NoValidation
<1>6. CASE UnlockCommits(w)
  BY <1>6, <1>a, UnlockCommitsEffect DEF Becomes, Moves, Goes, AfterWake, AfterDecrease,
       NoValidation
<1>7. CASE PublishModules(w)
  BY <1>7, <1>a, PublishModulesEffect DEF Becomes, Moves, Goes, AfterWake, AfterDecrease,
       NoValidation
<1>8. CASE RecordValidationRequirements(w)
  BY <1>8, <1>a, RecordValidationRequirementsEffect
       DEF Becomes, Moves, Goes, AfterWake, AfterDecrease, NoValidation
<1>9. CASE AddToCommitQueue(w)
  BY <1>9, <1>a, AddToCommitQueueEffect DEF Becomes, Moves, Goes, AfterWake, AfterDecrease,
       NoValidation
<1>10. CASE HaltStart(w)
  BY <1>10, <1>a, HaltStartEffect DEF Becomes, Moves, Goes, AfterWake, AfterDecrease, NoValidation
<1>11. CASE HaltTxn(w)
  BY <1>11, <1>a, HaltTxnEffect DEF Becomes, Moves, Goes, AfterWake, AfterDecrease, NoValidation
<1>12. CASE Halted(w)
  BY <1>12, <1>a, HaltedEffect DEF Becomes, Moves, Goes, AfterWake, AfterDecrease, NoValidation
<1>13. CASE DrainCommitQueue(w)
  BY <1>13, <1>a, DrainCommitQueueEffect DEF Becomes, Moves, Goes, AfterWake, AfterDecrease,
       NoValidation
<1>14. CASE StartTask(w)
  BY <1>14, <1>a, StartTaskEffect DEF Becomes, Moves, Goes, AfterWake, AfterDecrease, NoValidation
<1>15. CASE Wakeup(w)
  BY <1>15, <1>a, WakeupEffect DEF Becomes, Moves, Goes, AfterWake, AfterDecrease, NoValidation
<1>16. CASE NextTask(w)
  BY <1>16, <1>a, NextTaskEffect, BackToLoop, NoTaskFacts, TaskKinds
       DEF Becomes, Moves, NoValidation, AfterDecrease
<1>17. CASE ClaimValidation(w)
  BY <1>17, <1>a, ClaimValidationEffect DEF Becomes, Moves, Goes, AfterWake, AfterDecrease,
       NoValidation
<1>18. CASE StartValidation(w)
  BY <1>18, <1>a, StartValidationFacts, BackToLoop, NoTaskFacts DEF Becomes, Moves, AfterDecrease
<1>19. CASE ClaimExecution(w)
  BY <1>19, <1>a, ClaimExecutionEffect DEF Becomes, Moves, Goes, AfterWake, AfterDecrease,
       NoValidation
<1>20. CASE TryIncarnate(w)
  BY <1>20, <1>a, TryIncarnateEffect, BackToLoop, NoTaskFacts, TaskKinds
       DEF Becomes, Moves, NoValidation, AfterDecrease
<1>21. CASE Read(w)
  BY <1>21, <1>a, ReadEffect DEF Becomes, Moves, Goes, AfterWake, AfterDecrease, NoValidation
<1>22. CASE Interrupt(w)
  BY <1>22, <1>a, InterruptEffect DEF Becomes, Moves, Goes, AfterWake, AfterDecrease, NoValidation
<1>23. CASE WaitForDependency(w)
  BY <1>23, <1>a, WaitForDependencyEffect DEF Becomes, Moves, Goes, AfterWake, AfterDecrease,
       NoValidation
<1>24. CASE Suspend(w)
  BY <1>24, <1>a, SuspendEffect DEF Becomes, Moves, Goes, AfterWake, AfterDecrease, NoValidation
<1>25. CASE Awake(w)
  BY <1>25, <1>a, AwakeEffect DEF Becomes, Moves, Goes, AfterWake, AfterDecrease, NoValidation
<1>26. CASE Write(w)
  BY <1>26, <1>a, WriteEffect DEF Becomes, Moves, Goes, AfterWake, AfterDecrease, NoValidation
<1>27. CASE Record(w)
  BY <1>27, <1>a, RecordEffect DEF Becomes, Moves, Goes, AfterWake, AfterDecrease, NoValidation
<1>28. CASE FinishExecution(w)
  BY <1>28, <1>a, FinishExecutionEffect DEF Becomes, Moves, Goes, AfterWake, AfterDecrease,
       NoValidation
<1>29. CASE TakeDependencies(w)
  BY <1>29, <1>a, TakeDependenciesEffect DEF Becomes, Moves, Goes, AfterWake, AfterDecrease,
       NoValidation
<1>30. CASE Resume(w)
  BY <1>30, <1>a, ResumeEffect DEF Becomes, Moves, Goes, AfterWake, AfterDecrease, NoValidation
<1>31. CASE FetchMin(w)
  BY <1>31, <1>a, FetchMinEffect DEF Becomes, Moves, Goes, AfterWake, AfterDecrease, NoValidation
<1>32. CASE FinishLoad(w)
  BY <1>32, <1>a, FinishLoadFacts, BackToLoop, NoTaskFacts DEF Becomes, Moves, AfterDecrease
<1>33. CASE RequireWave(w)
  BY <1>33, <1>a, RequireWaveEffect, BackToLoop, NoTaskFacts, TaskKinds
       DEF Becomes, Moves, NoValidation, AfterDecrease
<1>34. CASE TriggerWave(w)
  BY <1>34, <1>a, TriggerWaveEffect DEF Becomes, Moves, Goes, AfterWake, AfterDecrease, NoValidation
<1>35. CASE DecreaseValidationIdx(w)
  BY <1>35, <1>a, DecreaseFacts, BackToLoop, NoTaskFacts DEF Becomes, Moves, AfterDecrease
<1>36. CASE Validate(w)
  BY <1>36, <1>a, ValidateEffect DEF Becomes, Moves, Goes, AfterWake, AfterDecrease, NoValidation
<1>37. CASE TryAbort(w)
  BY <1>37, <1>a, TryAbortEffect DEF Becomes, Moves, Goes, AfterWake, AfterDecrease, NoValidation
<1>38. CASE MarkEstimate(w)
  BY <1>38, <1>a, MarkEstimateEffect DEF Becomes, Moves, Goes, AfterWake, AfterDecrease,
       NoValidation
<1>39. CASE FinishAbort(w)
  BY <1>39, <1>a, FinishAbortEffect DEF Becomes, Moves, Goes, AfterWake, AfterDecrease, NoValidation
<1>40. CASE AbortDone(w)
  BY <1>40, <1>a, AbortDoneEffect DEF Becomes, Moves, Goes, AfterWake, AfterDecrease, NoValidation
<1>41. CASE AbortLoad(w)
  BY <1>41, <1>a, AbortLoadEffect, BackToLoop, NoTaskFacts, TaskKinds
       DEF Becomes, Moves, NoValidation, AfterDecrease
<1>42. CASE FinishValidation(w)
  BY <1>42, <1>a, FinishValidationEffect, BackToLoop, NoTaskFacts, TaskKinds
       DEF Becomes, Moves, NoValidation, AfterDecrease
<1>43. CASE Arm(w)
  BY <1>43, <1>a, ArmEffect, BackToLoop, NoTaskFacts, TaskKinds
       DEF Becomes, Moves, NoValidation, AfterDecrease
<1> QED
  BY <1>1, <1>2, <1>3, <1>4, <1>5, <1>6, <1>7, <1>8, <1>9, <1>10, <1>11, <1>12, <1>13, <1>14, <1>15,
       <1>16, <1>17, <1>18, <1>19, <1>20, <1>21, <1>22, <1>23, <1>24, <1>25, <1>26, <1>27, <1>28,
       <1>29, <1>30, <1>31, <1>32, <1>33, <1>34, <1>35, <1>36, <1>37, <1>38, <1>39, <1>40, <1>41,
       <1>42, <1>43, ZenonT(40) DEF Step

\* The same for the steps that the invariants single out.
LEMMA Phases ==
    ASSUME TypeOK, NEW w \in Workers, Step(w), ~At(w, "error")'
    PROVE  /\ \/ ((At(w, "suspend")' <=> At(w, "suspend")) /\
                     (At(w, "suspend") => worker'[w].num = worker[w].num /\
                     worker'[w].reads = worker[w].reads))
              \/ WaitForDependency(w) \/ Suspend(w)
           /\ \/ (At(w, "waiting")' <=> At(w, "waiting"))
              \/ Suspend(w) \/ Awake(w)
           /\ \/ (At(w, "wake")' <=> At(w, "wake"))
              \/ FinishExecution(w) \/ RecordValidationRequirements(w) \/ TakeDependencies(w)
           /\ \/ ((At(w, "resume")' <=> At(w, "resume")) /\
                     (At(w, "resume") => worker'[w].todo = worker[w].todo))
              \/ TakeDependencies(w) \/ Resume(w)
           /\ \/ ((Wakes(w)' <=> Wakes(w)) /\ (Wakes(w) => worker'[w].task = worker[w].task))
              \/ TryIncarnate(w) \/ Wakeup(w)
           /\ \/ ((At(w, "write")' <=> At(w, "write")) /\
                     (At(w, "write") => worker'[w].task = worker[w].task /\
                     worker'[w].todo = worker[w].todo /\ worker'[w].reads = worker[w].reads /\
                     worker'[w].flag = worker[w].flag))
              \/ StartTask(w) \/ Read(w) \/ Interrupt(w) \/ Suspend(w) \/ Awake(w) \/ Write(w) \/
                     Record(w)
           /\ \/ ((At(w, "finish_execution")' <=> At(w, "finish_execution")) /\
                     (At(w, "finish_execution") => worker'[w].task = worker[w].task /\
                     worker'[w].flag = worker[w].flag))
              \/ Record(w) \/ FinishExecution(w)
           /\ \/ ((Reads(w)' <=> Reads(w)) /\ (Reads(w) => worker'[w].task = worker[w].task /\
                     worker'[w].reads = worker[w].reads))
              \/ TryIncarnate(w) \/ StartTask(w) \/ Read(w) \/ Record(w)
           /\ \/ ((At(w, "next_executed")' <=> At(w, "next_executed")) /\
                     (At(w, "next_executed") => worker'[w].num = worker[w].num))
              \/ ClaimValidation(w) \/ StartValidation(w)
           /\ \/ ((At(w, "next_validation")' <=> At(w, "next_validation")) /\
                     (At(w, "next_validation") => worker'[w].num = worker[w].num))
              \/ NextTask(w) \/ ClaimValidation(w)
           /\ \/ ((At(w, "decrease_cas")' <=> At(w, "decrease_cas")) /\
                     (At(w, "decrease_cas") => worker'[w].num = worker[w].num /\
                     worker'[w].ret = worker[w].ret))
              \/ TriggerWave(w) \/ DecreaseValidationIdx(w)
           /\ \/ ((Validates(w)' <=> Validates(w)) /\
                     (Validates(w) => worker'[w].task = worker[w].task))
              \/ StartValidation(w) \/ RequireWave(w) \/ TryAbort(w) \/ FinishValidation(w)
           /\ \/ ((HasWave(w)' <=> HasWave(w)) /\ (HasWave(w) => worker'[w].task = worker[w].task))
              \/ StartValidation(w) \/ RequireWave(w) \/ TryAbort(w) \/ FinishValidation(w) \/
                     FinishLoad(w) \/ DecreaseValidationIdx(w)
           /\ \/ ((At(w, "validate")' <=> At(w, "validate")) /\
                     (At(w, "validate") => worker'[w].reads = worker[w].reads /\
                     worker'[w].todo = worker[w].todo))
              \/ StartTask(w) \/ Validate(w)
           /\ \/ ((At(w, "finish_validation")' <=> At(w, "finish_validation")) /\
                     (At(w, "finish_validation") => worker'[w].flag = worker[w].flag))
              \/ Validate(w) \/ TryAbort(w) \/ FinishValidation(w)
           /\ \/ ((Aborting(w)' <=> Aborting(w)) /\
                     (Aborting(w) => worker'[w].todo = worker[w].todo))
              \/ TryAbort(w) \/ MarkEstimate(w) \/ FinishAbort(w)
<1>a. PhaseOK(w)
  BY DEF TypeOK, WorkerOK
<1> USE DEF PhaseOK, Kind, At, LoopPcs, HookPcs, ExecutionPcs, FinishPcs, AbortPcs, NextPcs,
            ValidationPcs, Executing, Finishing, Pending, Wakes, Reads, Validates, HasWave, Aborting
<1>1. CASE LockCommits(w)
  BY <1>1, <1>a, LockCommitsEffect DEF Becomes, Moves, Goes, AfterWake, AfterDecrease, NoValidation
<1>2. CASE SkipCommits(w)
  BY <1>2, <1>a, SkipCommitsEffect DEF Becomes, Moves, Goes, AfterWake, AfterDecrease, NoValidation
<1>3. CASE TryCommit(w)
  BY <1>3, <1>a, TryCommitEffect DEF Becomes, Moves, Goes, AfterWake, AfterDecrease, NoValidation
<1>4. CASE TryCommitNothing(w)
  BY <1>4, <1>a, TryCommitNothingEffect DEF Becomes, Moves, Goes, AfterWake, AfterDecrease,
       NoValidation
<1>5. CASE TryCommitContended(w)
  BY <1>5, <1>a, TryCommitContendedEffect DEF Becomes, Moves, Goes, AfterWake, AfterDecrease,
       NoValidation
<1>6. CASE UnlockCommits(w)
  BY <1>6, <1>a, UnlockCommitsEffect DEF Becomes, Moves, Goes, AfterWake, AfterDecrease,
       NoValidation
<1>7. CASE PublishModules(w)
  BY <1>7, <1>a, PublishModulesEffect DEF Becomes, Moves, Goes, AfterWake, AfterDecrease,
       NoValidation
<1>8. CASE RecordValidationRequirements(w)
  BY <1>8, <1>a, RecordValidationRequirementsEffect
       DEF Becomes, Moves, Goes, AfterWake, AfterDecrease, NoValidation
<1>9. CASE AddToCommitQueue(w)
  BY <1>9, <1>a, AddToCommitQueueEffect DEF Becomes, Moves, Goes, AfterWake, AfterDecrease,
       NoValidation
<1>10. CASE HaltStart(w)
  BY <1>10, <1>a, HaltStartEffect DEF Becomes, Moves, Goes, AfterWake, AfterDecrease, NoValidation
<1>11. CASE HaltTxn(w)
  BY <1>11, <1>a, HaltTxnEffect DEF Becomes, Moves, Goes, AfterWake, AfterDecrease, NoValidation
<1>12. CASE Halted(w)
  BY <1>12, <1>a, HaltedEffect DEF Becomes, Moves, Goes, AfterWake, AfterDecrease, NoValidation
<1>13. CASE DrainCommitQueue(w)
  BY <1>13, <1>a, DrainCommitQueueEffect, SMTT(30) DEF Becomes, Moves, Goes, AfterWake, AfterDecrease,
       NoValidation
<1>14. CASE StartTask(w)
  BY <1>14, <1>a, StartTaskEffect, ZenonT(40) DEF Becomes, Moves, Goes, AfterWake, AfterDecrease, NoValidation
<1>15. CASE Wakeup(w)
  BY <1>15, <1>a, WakeupEffect DEF Becomes, Moves, Goes, AfterWake, AfterDecrease, NoValidation
<1>16. CASE NextTask(w)
  BY <1>16, <1>a, NextTaskEffect, BackToLoop, NoTaskFacts, TaskKinds
       DEF Becomes, Moves, NoValidation, AfterDecrease
<1>17. CASE ClaimValidation(w)
  BY <1>17, <1>a, ClaimValidationEffect DEF Becomes, Moves, Goes, AfterWake, AfterDecrease,
       NoValidation
<1>18. CASE StartValidation(w)
  BY <1>18, <1>a, StartValidationFacts, BackToLoop, NoTaskFacts DEF Becomes, Moves, AfterDecrease
<1>19. CASE ClaimExecution(w)
  BY <1>19, <1>a, ClaimExecutionEffect DEF Becomes, Moves, Goes, AfterWake, AfterDecrease,
       NoValidation
<1>20. CASE TryIncarnate(w)
  BY <1>20, <1>a, TryIncarnateEffect, BackToLoop, NoTaskFacts, TaskKinds
       DEF Becomes, Moves, NoValidation, AfterDecrease
<1>21. CASE Read(w)
  BY <1>21, <1>a, ReadEffect DEF Becomes, Moves, Goes, AfterWake, AfterDecrease, NoValidation
<1>22. CASE Interrupt(w)
  BY <1>22, <1>a, InterruptEffect DEF Becomes, Moves, Goes, AfterWake, AfterDecrease, NoValidation
<1>23. CASE WaitForDependency(w)
  BY <1>23, <1>a, WaitForDependencyEffect DEF Becomes, Moves, Goes, AfterWake, AfterDecrease,
       NoValidation
<1>24. CASE Suspend(w)
  BY <1>24, <1>a, SuspendEffect DEF Becomes, Moves, Goes, AfterWake, AfterDecrease, NoValidation
<1>25. CASE Awake(w)
  BY <1>25, <1>a, AwakeEffect DEF Becomes, Moves, Goes, AfterWake, AfterDecrease, NoValidation
<1>26. CASE Write(w)
  BY <1>26, <1>a, WriteEffect DEF Becomes, Moves, Goes, AfterWake, AfterDecrease, NoValidation
<1>27. CASE Record(w)
  BY <1>27, <1>a, RecordEffect DEF Becomes, Moves, Goes, AfterWake, AfterDecrease, NoValidation
<1>28. CASE FinishExecution(w)
  BY <1>28, <1>a, FinishExecutionEffect DEF Becomes, Moves, Goes, AfterWake, AfterDecrease,
       NoValidation
<1>29. CASE TakeDependencies(w)
  BY <1>29, <1>a, TakeDependenciesEffect DEF Becomes, Moves, Goes, AfterWake, AfterDecrease,
       NoValidation
<1>30. CASE Resume(w)
  BY <1>30, <1>a, ResumeEffect DEF Becomes, Moves, Goes, AfterWake, AfterDecrease, NoValidation
<1>31. CASE FetchMin(w)
  BY <1>31, <1>a, FetchMinEffect DEF Becomes, Moves, Goes, AfterWake, AfterDecrease, NoValidation
<1>32. CASE FinishLoad(w)
  BY <1>32, <1>a, FinishLoadFacts, BackToLoop, NoTaskFacts DEF Becomes, Moves, AfterDecrease
<1>33. CASE RequireWave(w)
  BY <1>33, <1>a, RequireWaveEffect, BackToLoop, NoTaskFacts, TaskKinds
       DEF Becomes, Moves, NoValidation, AfterDecrease
<1>34. CASE TriggerWave(w)
  BY <1>34, <1>a, TriggerWaveEffect DEF Becomes, Moves, Goes, AfterWake, AfterDecrease, NoValidation
<1>35. CASE DecreaseValidationIdx(w)
  BY <1>35, <1>a, DecreaseFacts, BackToLoop, NoTaskFacts DEF Becomes, Moves, AfterDecrease
<1>36. CASE Validate(w)
  BY <1>36, <1>a, ValidateEffect DEF Becomes, Moves, Goes, AfterWake, AfterDecrease, NoValidation
<1>37. CASE TryAbort(w)
  BY <1>37, <1>a, TryAbortEffect DEF Becomes, Moves, Goes, AfterWake, AfterDecrease, NoValidation
<1>38. CASE MarkEstimate(w)
  BY <1>38, <1>a, MarkEstimateEffect DEF Becomes, Moves, Goes, AfterWake, AfterDecrease,
       NoValidation
<1>39. CASE FinishAbort(w)
  BY <1>39, <1>a, FinishAbortEffect DEF Becomes, Moves, Goes, AfterWake, AfterDecrease, NoValidation
<1>40. CASE AbortDone(w)
  BY <1>40, <1>a, AbortDoneEffect DEF Becomes, Moves, Goes, AfterWake, AfterDecrease, NoValidation
<1>41. CASE AbortLoad(w)
  BY <1>41, <1>a, AbortLoadEffect, BackToLoop, NoTaskFacts, TaskKinds
       DEF Becomes, Moves, NoValidation, AfterDecrease
<1>42. CASE FinishValidation(w)
  BY <1>42, <1>a, FinishValidationEffect, BackToLoop, NoTaskFacts, TaskKinds
       DEF Becomes, Moves, NoValidation, AfterDecrease
<1>43. CASE Arm(w)
  BY <1>43, <1>a, ArmEffect, BackToLoop, NoTaskFacts, TaskKinds
       DEF Becomes, Moves, NoValidation, AfterDecrease
<1> QED
  BY <1>1, <1>2, <1>3, <1>4, <1>5, <1>6, <1>7, <1>8, <1>9, <1>10, <1>11, <1>12, <1>13, <1>14, <1>15,
       <1>16, <1>17, <1>18, <1>19, <1>20, <1>21, <1>22, <1>23, <1>24, <1>25, <1>26, <1>27, <1>28,
       <1>29, <1>30, <1>31, <1>32, <1>33, <1>34, <1>35, <1>36, <1>37, <1>38, <1>39, <1>40, <1>41,
       <1>42, <1>43, ZenonT(40) DEF Step

\* Both for any worker: only the one that moves changes its role.
LEMMA RolesOf ==
    ASSUME TypeOK, NEW w \in Workers, Step(w), ~At(w, "error")', NEW x \in Workers
    PROVE  /\ \/ ((Executing(x)' <=> Executing(x)) /\
                     (Executing(x) => worker'[x].task = worker[x].task))
              \/ x = w /\ (TryIncarnate(w) \/ FinishExecution(w))
           /\ \/ ((Aborting(x)' <=> Aborting(x)) /\
                     (Aborting(x) => worker'[x].task = worker[x].task /\
                     worker'[x].ret = worker[x].ret))
              \/ x = w /\ (TryAbort(w) \/ FinishAbort(w))
           /\ \/ ((Finishing(x)' <=> Finishing(x)) /\
                     (Finishing(x) => worker'[x].task.txn = worker[x].task.txn /\
                     worker'[x].task.inc = worker[x].task.inc /\
                     worker'[x].flag = worker[x].flag))
              \/ x = w /\ (FinishExecution(w) \/ FinishLoad(w) \/ RequireWave(w))
           /\ \/ ((Aborted(x)' <=> Aborted(x)) /\ (Aborted(x) => worker'[x].task = worker[x].task))
              \/ x = w /\ (FinishAbort(w) \/ AbortDone(w))
           /\ \/ (Coordinates(x)' <=> Coordinates(x))
              \/ x = w /\ (LockCommits(w) \/ UnlockCommits(w))
           /\ \/ ((worker'[x].ret = "hook") <=> (worker[x].ret = "hook"))
              \/ x = w /\ (TryCommit(w) \/ AddToCommitQueue(w))
           /\ \/ ((At(x, "halt")' <=> At(x, "halt")) /\
                     (At(x, "halt") => worker'[x].todo = worker[x].todo))
              \/ x = w /\ (AddToCommitQueue(w) \/ HaltStart(w))
           /\ \/ ((At(x, "halt_txn")' <=> At(x, "halt_txn")) /\
                     (At(x, "halt_txn") => worker'[x].todo = worker[x].todo))
              \/ x = w /\ (HaltStart(w) \/ HaltTxn(w))
           /\ \/ (At(x, "halted")' <=> At(x, "halted"))
              \/ x = w /\ (HaltStart(w) \/ HaltTxn(w) \/ Halted(w))
           /\ \/ ((Kind(x) = "Done")' <=> (Kind(x) = "Done"))
              \/ x = w /\ (NextTask(w))
           /\ \/ (At(x, "publish")' <=> At(x, "publish"))
              \/ x = w /\ (TryCommit(w) \/ PublishModules(w))
           /\ \/ (At(x, "require")' <=> At(x, "require"))
              \/ x = w /\ (PublishModules(w) \/ RecordValidationRequirements(w))
           /\ \/ (At(x, "exit")' <=> At(x, "exit"))
              \/ x = w /\ (StartTask(w))
<1>1. CASE x = w
  BY <1>1, Roles
<1>2. CASE x # w
  <2>1. worker'[x] = worker[x]
    BY <1>2, WorkerStep DEF Others
  <2> QED
    BY <2>1 DEF At, Kind, Executing, Aborting, Finishing, Aborted, Coordinates, CommitPcs
<1> QED
  BY <1>1, <1>2

LEMMA PhasesOf ==
    ASSUME TypeOK, NEW w \in Workers, Step(w), ~At(w, "error")', NEW x \in Workers
    PROVE  /\ \/ ((At(x, "suspend")' <=> At(x, "suspend")) /\
                     (At(x, "suspend") => worker'[x].num = worker[x].num /\
                     worker'[x].reads = worker[x].reads))
              \/ x = w /\ (WaitForDependency(w) \/ Suspend(w))
           /\ \/ (At(x, "waiting")' <=> At(x, "waiting"))
              \/ x = w /\ (Suspend(w) \/ Awake(w))
           /\ \/ (At(x, "wake")' <=> At(x, "wake"))
              \/ x = w /\ (FinishExecution(w) \/ RecordValidationRequirements(w) \/
                     TakeDependencies(w))
           /\ \/ ((At(x, "resume")' <=> At(x, "resume")) /\
                     (At(x, "resume") => worker'[x].todo = worker[x].todo))
              \/ x = w /\ (TakeDependencies(w) \/ Resume(w))
           /\ \/ ((Wakes(x)' <=> Wakes(x)) /\ (Wakes(x) => worker'[x].task = worker[x].task))
              \/ x = w /\ (TryIncarnate(w) \/ Wakeup(w))
           /\ \/ ((At(x, "write")' <=> At(x, "write")) /\
                     (At(x, "write") => worker'[x].task = worker[x].task /\
                     worker'[x].todo = worker[x].todo /\ worker'[x].reads = worker[x].reads /\
                     worker'[x].flag = worker[x].flag))
              \/ x = w /\ (StartTask(w) \/ Read(w) \/ Interrupt(w) \/ Suspend(w) \/ Awake(w) \/
                     Write(w) \/ Record(w))
           /\ \/ ((At(x, "finish_execution")' <=> At(x, "finish_execution")) /\
                     (At(x, "finish_execution") => worker'[x].task = worker[x].task /\
                     worker'[x].flag = worker[x].flag))
              \/ x = w /\ (Record(w) \/ FinishExecution(w))
           /\ \/ ((Reads(x)' <=> Reads(x)) /\ (Reads(x) => worker'[x].task = worker[x].task /\
                     worker'[x].reads = worker[x].reads))
              \/ x = w /\ (TryIncarnate(w) \/ StartTask(w) \/ Read(w) \/ Record(w))
           /\ \/ ((At(x, "next_executed")' <=> At(x, "next_executed")) /\
                     (At(x, "next_executed") => worker'[x].num = worker[x].num))
              \/ x = w /\ (ClaimValidation(w) \/ StartValidation(w))
           /\ \/ ((At(x, "next_validation")' <=> At(x, "next_validation")) /\
                     (At(x, "next_validation") => worker'[x].num = worker[x].num))
              \/ x = w /\ (NextTask(w) \/ ClaimValidation(w))
           /\ \/ ((At(x, "decrease_cas")' <=> At(x, "decrease_cas")) /\
                     (At(x, "decrease_cas") => worker'[x].num = worker[x].num /\
                     worker'[x].ret = worker[x].ret))
              \/ x = w /\ (TriggerWave(w) \/ DecreaseValidationIdx(w))
           /\ \/ ((Validates(x)' <=> Validates(x)) /\
                     (Validates(x) => worker'[x].task = worker[x].task))
              \/ x = w /\ (StartValidation(w) \/ RequireWave(w) \/ TryAbort(w) \/
                     FinishValidation(w))
           /\ \/ ((HasWave(x)' <=> HasWave(x)) /\ (HasWave(x) => worker'[x].task = worker[x].task))
              \/ x = w /\ (StartValidation(w) \/ RequireWave(w) \/ TryAbort(w) \/
                     FinishValidation(w) \/ FinishLoad(w) \/ DecreaseValidationIdx(w))
           /\ \/ ((At(x, "validate")' <=> At(x, "validate")) /\
                     (At(x, "validate") => worker'[x].reads = worker[x].reads /\
                     worker'[x].todo = worker[x].todo))
              \/ x = w /\ (StartTask(w) \/ Validate(w))
           /\ \/ ((At(x, "finish_validation")' <=> At(x, "finish_validation")) /\
                     (At(x, "finish_validation") => worker'[x].flag = worker[x].flag))
              \/ x = w /\ (Validate(w) \/ TryAbort(w) \/ FinishValidation(w))
           /\ \/ ((Aborting(x)' <=> Aborting(x)) /\
                     (Aborting(x) => worker'[x].todo = worker[x].todo))
              \/ x = w /\ (TryAbort(w) \/ MarkEstimate(w) \/ FinishAbort(w))
<1>1. CASE x = w
  BY <1>1, Phases
<1>2. CASE x # w
  <2>1. worker'[x] = worker[x]
    BY <1>2, WorkerStep DEF Others
  <2> QED
    BY <2>1 DEF At, Kind, Executing, Finishing, Pending, Wakes, Reads, Validates, HasWave, Aborting
<1> QED
  BY <1>1, <1>2

\* The types, variable by variable.
LEMMA StatusType ==
    ASSUME TypeOK, NEW w \in Workers, Step(w)
    PROVE  txn_status' \in [Txns -> Statuses]
<1> DEFINE t == worker[w].task.txn
           i == worker[w].task.inc
           n == worker[w].num.idx
<1>a. txn_status \in [Txns -> Statuses]
  BY DEF TypeOK
<1>b. \A u \in Txns : \A name \in StatusNames :
         [txn_status EXCEPT ![u].name = name] \in [Txns -> Statuses]
  BY <1>a DEF Statuses
<1>g. \A u \in Txns : [txn_status EXCEPT ![u].safe = TRUE] \in [Txns -> Statuses]
  BY <1>a DEF Statuses
<1>c. \A u \in Txns : \A st \in Statuses : [txn_status EXCEPT ![u] = st] \in [Txns -> Statuses]
  BY <1>a
<1>d. \A name \in StatusNames : \A j \in Nat : \A c \in Workers \cup {None} :
         Status(name, j, c) \in Statuses
  BY DEF Status, Statuses
<1>e. \A b \in BOOLEAN : ExecutionHalted(b) \in Statuses
  BY DEF ExecutionHalted, Statuses, StatusNames
<1>f. t \in Txns /\ i \in Nat
  BY TaskFields DEF TypeOK, WorkerOK, FieldsOK
<1> HIDE DEF t, i, n
<1>1. CASE TryCommit(w)
  <2>1. commit_state.idx \in Txns
    BY <1>1, Constants, TxnFacts DEF TryCommit, TypeOK
  <2> QED
    BY <1>1, <1>b, <2>1 DEF TryCommit, StatusNames
<1>2. CASE HaltTxn(w)
  <2>1. PICK u, b : txn_status' = [txn_status EXCEPT ![u] = ExecutionHalted(b)] /\ b \in BOOLEAN
    <3> DEFINE v == CHOOSE v \in worker[w].todo : \A x \in worker[w].todo : v <= x
               b == txn_status[v].cv # None \/ txn_status[v].name \notin {"Executing", "Aborting"}
    <3>1. txn_status' = [txn_status EXCEPT ![v] = ExecutionHalted(b)]
      BY <1>2 DEF HaltTxn
    <3>2. b \in BOOLEAN
      OBVIOUS
    <3> QED
      BY <3>1, <3>2
  <2>2. ExecutionHalted(b) \in Statuses
    BY <1>e, <2>1
  <2>3. CASE u \in Txns
    BY <1>c, <2>1, <2>2, <2>3
  <2>4. CASE u \notin Txns
    BY <1>a, <2>1, <2>4
  <2> QED
    BY <2>3, <2>4
<1>3. CASE TryIncarnate(w)
  <2>1. n \in Txns
    BY <1>3 DEF TryIncarnate, TypeOK, WorkerOK, FieldsOK, At, n
  <2> QED
    <3>1. \/ txn_status' = txn_status
          \/ txn_status' = [txn_status EXCEPT ![n].name = "Executing"]
      BY <1>3, Zenon DEF TryIncarnate, n
    <3> QED
      BY <3>1, <1>a, <1>b, <2>1 DEF StatusNames
<1>4. CASE Suspend(w)
  <2>1. CASE txn_status' = txn_status
    BY <1>a, <2>1
  <2>2. CASE txn_status' = [txn_status EXCEPT ![t] = Status("Suspended", txn_status[t].inc, w)]
    <3>1. txn_status[t].inc \in Nat
      BY <1>a, <1>f DEF Statuses
    <3>2. Status("Suspended", txn_status[t].inc, w) \in Statuses
      BY <1>d, <3>1 DEF StatusNames
    <3> QED
      BY <1>c, <1>f, <2>2, <3>2
  <2> QED
    BY <1>4, <2>1, <2>2 DEF Suspend, t
<1>5. CASE FinishExecution(w)
  <2>1. Status("Executed", i, None) \in Statuses
    BY <1>d, <1>f DEF StatusNames
  <2>2. \/ txn_status' = txn_status
        \/ txn_status' = [txn_status EXCEPT ![t].safe = TRUE]
        \/ txn_status' = [txn_status EXCEPT ![t] = Status("Executed", i, None)]
    BY <1>5, Zenon DEF FinishExecution, SafelyFinished, t, i
  <2> QED
    BY <1>a, <1>c, <1>f, <1>g, <2>1, <2>2
<1>6. CASE Resume(w)
  <2>1. PICK d : txn_status' = txn_status
                 \/ txn_status' = [txn_status EXCEPT ![d].name = "Ready"]
    BY <1>6 DEF Resume
  <2>2. CASE d \in Txns
    BY <1>a, <1>b, <2>1, <2>2, ZenonT(40) DEF StatusNames
  <2>3. CASE d \notin Txns
    BY <1>a, <2>1, <2>3
  <2> QED
    BY <2>2, <2>3
<1>7. CASE TryAbort(w)
  BY <1>7, <1>a, <1>b, <1>f DEF TryAbort, StatusNames, t
<1>8. CASE FinishAbort(w)
  <2>1. Status("Ready", i + 1, None) \in Statuses
    BY <1>d, <1>f DEF StatusNames
  <2>2. \/ txn_status' = txn_status
        \/ txn_status' = [txn_status EXCEPT ![t].safe = TRUE]
        \/ txn_status' = [txn_status EXCEPT ![t] = Status("Ready", i + 1, None)]
    BY <1>8, Zenon DEF FinishAbort, SafelyFinished, t, i
  <2> QED
    BY <1>a, <1>c, <1>f, <1>g, <2>1, <2>2
<1> QED
  BY <1>a, <1>1, <1>2, <1>3, <1>4, <1>5, <1>6, <1>7, <1>8, Changes

LEMMA ValidationType ==
    ASSUME TypeOK, NEW w \in Workers, Step(w)
    PROVE  /\ validation_status' \in
                [Txns -> [triggered : Nat, required : Nat, validated : Nat \cup {-1}]]
           /\ validation_idx' \in [idx : Nat, wave : Nat]
<1>a. /\ validation_status \in
            [Txns -> [triggered : Nat, required : Nat, validated : Nat \cup {-1}]]
      /\ validation_idx \in [idx : Nat, wave : Nat]
  BY DEF TypeOK
<1>b. worker[w].task \in Tasks /\ worker[w].num \in [idx : Nat, wave : Nat] /\ Txn(w) \in Nat
  BY TxnType, TxnFacts DEF TypeOK, WorkerOK, FieldsOK
<1>1. validation_idx' \in [idx : Nat, wave : Nat]
  <2>1. CASE ClaimValidation(w)
    BY <2>1, <1>a, <1>b DEF ClaimValidation
  <2>2. CASE DecreaseValidationIdx(w)
    BY <2>2, <1>a, <1>b DEF DecreaseValidationIdx
  <2> QED
    BY <1>a, <2>1, <2>2, Changes
<1>2. CASE RequireWave(w)
  BY <1>1, <1>2, <1>a, <1>b, TaskFields DEF RequireWave
<1>3. CASE TriggerWave(w)
  <2>1. CASE validation_status' = validation_status
    BY <1>1, <1>a, <2>1
  <2>2. CASE validation_status' = [validation_status EXCEPT
               ![Txn(w) + 1].triggered = MaxOf(@, validation_idx.wave + 1)]
    <3>1. \A n \in Nat : MaxOf(n, validation_idx.wave + 1) \in Nat
      BY <1>a DEF MaxOf
    <3>2. [validation_status EXCEPT ![Txn(w) + 1].triggered = MaxOf(@, validation_idx.wave + 1)]
             \in [Txns -> [triggered : Nat, required : Nat, validated : Nat \cup {-1}]]
      BY <1>a, <3>1
    <3> QED
      BY <1>1, <2>2, <3>2
  <2>3. \/ validation_status' = validation_status
        \/ validation_status' = [validation_status EXCEPT
               ![Txn(w) + 1].triggered = MaxOf(@, validation_idx.wave + 1)]
    BY <1>3, Zenon DEF TriggerWave
  <2> QED
    BY <2>1, <2>2, <2>3
<1>4. CASE FinishValidation(w)
  BY <1>1, <1>4, <1>a, <1>b, TaskFields DEF FinishValidation, MaxOf
<1> QED
  BY <1>a, <1>1, <1>2, <1>3, <1>4, Changes

LEMMA LockTypes ==
    ASSUME TypeOK, NEW w \in Workers, Step(w)
    PROVE  /\ queueing_commits' \in [armed : BOOLEAN, owner : Workers \cup {None}]
           /\ vlock' \in [Txns -> Workers \cup {None}]
           /\ dlock' \in [Txns -> Workers \cup {None}]
           /\ cvar' \in [Workers -> {"Resolved", "Unresolved", "Halted"}]
<1>a. /\ queueing_commits \in [armed : BOOLEAN, owner : Workers \cup {None}]
      /\ vlock \in [Txns -> Workers \cup {None}]
      /\ dlock \in [Txns -> Workers \cup {None}]
      /\ cvar \in [Workers -> {"Resolved", "Unresolved", "Halted"}]
  BY DEF TypeOK
<1>1. queueing_commits' \in [armed : BOOLEAN, owner : Workers \cup {None}]
  <2>1. CASE LockCommits(w)
    BY <2>1, <1>a DEF LockCommits
  <2>2. CASE TryCommitContended(w) \/ Arm(w)
    BY <2>2, <1>a DEF TryCommitContended, Arm
  <2>3. CASE UnlockCommits(w)
    BY <2>3, <1>a DEF UnlockCommits
  <2> QED
    BY <1>a, <2>1, <2>2, <2>3, Changes
<1>2. \A t : \A x \in Workers \cup {None} :
         /\ [vlock EXCEPT ![t] = x] \in [Txns -> Workers \cup {None}]
         /\ [dlock EXCEPT ![t] = x] \in [Txns -> Workers \cup {None}]
  BY <1>a
<1>3. vlock' = vlock \/ \E t : \E x \in {w, None} : vlock' = [vlock EXCEPT ![t] = x]
  BY Changes, Zenon DEF FinishExecution, FinishLoad, RequireWave, FinishAbort, AbortDone
<1>4. dlock' = dlock \/ \E t : \E x \in {w, None} : dlock' = [dlock EXCEPT ![t] = x]
  BY Changes, Zenon DEF WaitForDependency, Suspend
<1>5. cvar' = cvar \/ \E c : \E x \in {"Resolved", "Unresolved", "Halted"} :
                        cvar' = [cvar EXCEPT ![c] = x]
  BY Changes, Zenon DEF HaltTxn, Wakeup, Suspend
<1>6. cvar' \in [Workers -> {"Resolved", "Unresolved", "Halted"}]
  BY <1>a, <1>5
<1>7. vlock' \in [Txns -> Workers \cup {None}] /\ dlock' \in [Txns -> Workers \cup {None}]
  BY <1>a, <1>2, <1>3, <1>4
<1> QED
  BY <1>1, <1>6, <1>7

LEMMA IndexTypes ==
    ASSUME TypeOK, NEW w \in Workers, Step(w)
    PROVE  /\ block' \in Blocks
           /\ txn_dependency' \in [Txns -> SUBSET Txns]
           /\ execution_idx' \in Nat
           /\ done_marker' \in BOOLEAN
           /\ has_halted' \in BOOLEAN
           /\ DOMAIN modules' = ModuleKeys
           /\ skip_module_reads_validation' \in BOOLEAN
           /\ DOMAIN last_input_output' = Txns
<1>1. block' \in Blocks
  BY Changes DEF TypeOK
<1>2. txn_dependency' \in [Txns -> SUBSET Txns]
  <2>a. txn_dependency \in [Txns -> SUBSET Txns]
    BY DEF TypeOK
  <2>b. worker[w].task.txn \in Txns
    BY TaskFields DEF TypeOK, WorkerOK, FieldsOK
  <2>1. CASE Suspend(w)
    <3>1. \/ txn_dependency' = txn_dependency
          \/ txn_dependency' = [txn_dependency EXCEPT ![worker[w].num.idx] =
                                   @ \cup {worker[w].task.txn}]
      BY <2>1, Zenon DEF Suspend
    <3> QED
      BY <3>1, <2>a, <2>b
  <2>2. CASE TakeDependencies(w)
    BY <2>2, <2>a DEF TakeDependencies
  <2> QED
    BY <2>a, <2>1, <2>2, Changes
<1>3. execution_idx' \in Nat
  <2>a. execution_idx \in Nat /\ worker[w].num.idx \in Nat
    BY DEF TypeOK, WorkerOK, FieldsOK
  <2>1. CASE ClaimExecution(w)
    BY <2>1, <2>a DEF ClaimExecution
  <2>2. CASE FetchMin(w)
    BY <2>2, <2>a DEF FetchMin, MinOf
  <2> QED
    BY <2>a, <2>1, <2>2, Changes
<1>4. done_marker' \in BOOLEAN /\ has_halted' \in BOOLEAN
  <2>1. CASE TryCommit(w)
    <3>1. done_marker' \in BOOLEAN
      BY <2>1 DEF TryCommit
    <3>2. has_halted' = has_halted
      BY <2>1 DEF TryCommit
    <3> QED
      BY <3>1, <3>2, Zenon DEF TypeOK
  <2>2. CASE HaltStart(w)
    <3>1. done_marker' \in BOOLEAN /\ has_halted' = has_halted
      BY <2>2 DEF HaltStart
    <3> QED
      BY <3>1, Zenon DEF TypeOK
  <2>3. CASE Halted(w)
    <3>1. has_halted' \in BOOLEAN /\ done_marker' = done_marker
      BY <2>3 DEF Halted
    <3> QED
      BY <3>1, Zenon DEF TypeOK
  <2> QED
    BY <2>1, <2>2, <2>3, Changes, Zenon DEF TypeOK
<1>5. DOMAIN modules' = ModuleKeys /\ DOMAIN last_input_output' = Txns
  BY Changes DEF PublishModules, Record, TypeOK
<1>6. skip_module_reads_validation' \in BOOLEAN
  <2>1. CASE RecordValidationRequirements(w)
    BY <2>1 DEF RecordValidationRequirements
  <2> QED
    BY <2>1, Changes, Zenon DEF TypeOK
<1> QED
  BY <1>1, <1>2, <1>3, <1>4, <1>5, <1>6

\* TypeOK is preserved by every step that does not fail.
LEMMA TypeStep ==
    ASSUME TypeOK, NEW w \in Workers, Step(w), ~At(w, "error")'
    PROVE  TypeOK'
<1>1. commit_state' \in [idx : 0 .. num_txns, wave : Nat] /\ commit_state'.idx >= commit_state.idx
  BY CommitGrows
<1>2. commit_state.idx \in Nat /\ commit_state'.idx \in Nat
  BY <1>1, Constants DEF TypeOK
<1>3. ASSUME NEW x \in Workers
      PROVE  WorkerOK(x)'
  <2>1. CASE x # w
    <3>1. worker'[x] = worker[x]
      BY <2>1, WorkerStep DEF Others
    <3>2. FieldsOK(x)' /\ PhaseOK(x)'
      BY <3>1 DEF FieldsOK, PhaseOK, Kind, TypeOK, WorkerOK
    <3>3. worker'[x].ret = "hook" \/ worker'[x].pc = "halt" => commit_state'.idx > 0
      BY <1>1, <1>2, <3>1 DEF TypeOK, WorkerOK
    <3> QED
      BY <3>2, <3>3 DEF WorkerOK
  <2>2. CASE x = w
    <3>1. FieldsOK(w)' /\ PhaseOK(w)'
      BY WorkerStep
    <3>2. worker'[w].ret = "hook" \/ worker'[w].pc = "halt" => commit_state'.idx > 0
      <4>a. worker[w].ret = "hook" \/ worker[w].pc = "halt" => commit_state'.idx > 0
        BY <1>1, <1>2 DEF TypeOK, WorkerOK
      <4>1. CASE TryCommit(w)
        BY <1>2, <4>1 DEF TryCommit
      <4>2. CASE AddToCommitQueue(w)
        BY <4>2, <4>a, AddToCommitQueueEffect DEF At, TypeOK, WorkerOK, PhaseOK, LoopPcs,
           ExecutionPcs, ValidationPcs, NextPcs, FinishPcs, AbortPcs
      <4>3. CASE HaltStart(w)
        BY <4>3, <4>a, HaltStartEffect DEF Moves, Becomes, At
      <4> QED
        BY <4>a, <4>1, <4>2, <4>3, Roles DEF At
    <3> QED
      BY <2>2, <3>1, <3>2 DEF WorkerOK
  <2> QED
    BY <2>1, <2>2
<1> QED
  BY <1>1, <1>3, StatusType, ValidationType, LockTypes, IndexTypes, WorkerStep DEF TypeOK

-----------------------------------------------------------------------------
(* Locks.                                                                  *)

\* What each phase says of the others, for any worker.
LEMMA PhaseFacts ==
    ASSUME TypeOK, NEW x \in Workers
    PROVE  /\ worker[x].task \in Tasks
           /\ worker[x].task.txn \in Txns
           /\ worker[x].task.inc \in Nat
           /\ worker[x].num \in [idx : Nat, wave : Nat]
           /\ worker[x].flag \in BOOLEAN
           /\ PhaseOK(x)
BY TaskFields DEF TypeOK, WorkerOK, FieldsOK

\* LocksOK is preserved: each lock is held by the worker that is where it is
\* held.
LEMMA LocksStep ==
    ASSUME TypeOK, LocksOK, NEW w \in Workers, Step(w), ~At(w, "error")'
    PROVE  LocksOK'
<1> SUFFICES ASSUME NEW x \in Workers, NEW t \in Txns
             PROVE  /\ queueing_commits'.owner = x <=> Coordinates(x)'
                    /\ vlock'[t] = x <=> ((Finishing(x) \/ Aborted(x)) /\ worker[x].task.txn = t)'
                    /\ dlock'[t] = x <=> (At(x, "suspend") /\ worker[x].num.idx = t)'
  BY Constants, TxnFacts DEF LocksOK
<1>a. None \notin Workers
  BY Constants
<1>b. \A y \in Workers :
         /\ queueing_commits.owner = y <=> Coordinates(y)
         /\ \A u \in Txns :
              /\ vlock[u] = y <=> (Finishing(y) \/ Aborted(y)) /\ worker[y].task.txn = u
              /\ dlock[u] = y <=> At(y, "suspend") /\ worker[y].num.idx = u
  BY DEF LocksOK
<1>c. /\ queueing_commits \in [armed : BOOLEAN, owner : Workers \cup {None}]
      /\ vlock \in [Txns -> Workers \cup {None}]
      /\ dlock \in [Txns -> Workers \cup {None}]
  BY DEF TypeOK
<1>d. PhaseOK(w) /\ worker[w].task.txn \in Txns
  BY PhaseFacts
<1>1. queueing_commits'.owner = x <=> Coordinates(x)'
  <2>1. CASE LockCommits(w)
    <3>1. Coordinates(w)'
      BY <2>1, LockCommitsEffect DEF Moves, Becomes, Coordinates, CommitPcs
    <3>2. queueing_commits'.owner = w /\ queueing_commits.owner = None
      BY <2>1 DEF LockCommits, should_coordinate_commits
    <3>3. x # w => (Coordinates(x)' <=> Coordinates(x))
      BY WorkerStep DEF Others, Coordinates
    <3> QED
      BY <1>a, <1>b, <3>1, <3>2, <3>3
  <2>2. CASE UnlockCommits(w)
    <3>1. ~Coordinates(w)' /\ Coordinates(w)
      BY <1>d, <2>2, UnlockCommitsEffect DEF Moves, Becomes, Coordinates, CommitPcs, PhaseOK, At,
         HookPcs
    <3>2. queueing_commits'.owner = None
      BY <1>c, <2>2 DEF UnlockCommits
    <3>3. x # w => (Coordinates(x)' <=> Coordinates(x))
      BY WorkerStep DEF Others, Coordinates
    <3> QED
      BY <1>a, <1>b, <3>1, <3>2, <3>3
  <2>3. CASE ~LockCommits(w) /\ ~UnlockCommits(w)
    <3>1. queueing_commits'.owner = queueing_commits.owner
      BY <1>c, <2>3, Changes DEF TryCommitContended, Arm
    <3>2. Coordinates(x)' <=> Coordinates(x)
      BY <2>3, RolesOf
    <3> QED
      BY <1>b, <3>1, <3>2
  <2> QED
    BY <2>1, <2>2, <2>3
<1>2. vlock'[t] = x <=> ((Finishing(x) \/ Aborted(x)) /\ worker[x].task.txn = t)'
  <2> DEFINE u == worker[w].task.txn
             Holds(y) == Finishing(y) \/ Aborted(y)
  <2>a. x # w => (Holds(x)' <=> Holds(x)) /\ worker'[x] = worker[x]
    BY WorkerStep DEF Others, Finishing, Aborted
  <2>1. CASE FinishExecution(w) \/ FinishAbort(w)
    <3>1. Holds(w)' /\ worker'[w].task = worker[w].task
      BY <2>1, FinishExecutionEffect, FinishAbortEffect, SMTT(30) DEF Becomes, Finishing, Aborted, At
    <3>2. vlock' = [vlock EXCEPT ![u] = w] /\ vlock[u] = None
      BY <2>1 DEF FinishExecution, FinishAbort
    <3>3. ~Holds(w)
      BY <1>d, <2>1, FinishExecutionEffect, FinishAbortEffect DEF PhaseOK, Finishing, Aborted, At,
         FinishPcs, AbortPcs
    <3> QED
      BY <1>a, <1>b, <1>c, <1>d, <2>a, <3>1, <3>2, <3>3
  <2>2. CASE FinishLoad(w) /\ ~(validation_idx.idx > u)
    <3>1. ~Holds(w)'
      BY <2>2, FinishLoadFacts, BackToLoop DEF Finishing, Aborted
    <3>2. vlock' = [vlock EXCEPT ![u] = None]
      BY <2>2 DEF FinishLoad
    <3>3. Holds(w)
      BY <1>d, <2>2, FinishLoadFacts DEF PhaseOK, Finishing, Aborted, At,
         HookPcs, LoopPcs, ExecutionPcs, ValidationPcs, NextPcs, AbortPcs
    <3> QED
      BY <1>a, <1>b, <1>c, <1>d, <2>a, <3>1, <3>2, <3>3
  <2>3. CASE FinishLoad(w) /\ validation_idx.idx > u
    <3>1. (Holds(w)' <=> Holds(w)) /\ worker'[w].task.txn = worker[w].task.txn
      BY <1>d, <2>3, FinishLoadFacts DEF Becomes, Finishing, Aborted, At, PhaseOK, AbortPcs
    <3>2. vlock' = vlock
      BY <2>3 DEF FinishLoad
    <3> QED
      BY <1>b, <2>a, <3>1, <3>2
  <2>4. CASE RequireWave(w) \/ AbortDone(w)
    <3>1. ~Holds(w)'
      BY <2>4, RequireWaveEffect, AbortDoneEffect, BackToLoop
           DEF Moves, Becomes, Finishing, Aborted,
         At, PhaseOK, FinishPcs, TypeOK, WorkerOK
    <3>2. vlock' = [vlock EXCEPT ![u] = None]
      BY <2>4 DEF RequireWave, AbortDone
    <3>3. Holds(w)
      BY <1>d, <2>4, RequireWaveEffect, AbortDoneEffect DEF PhaseOK, Finishing, Aborted, At,
         HookPcs, LoopPcs, ExecutionPcs, ValidationPcs, NextPcs, AbortPcs
    <3> QED
      BY <1>a, <1>b, <1>c, <1>d, <2>a, <3>1, <3>2, <3>3
  <2>5. CASE /\ ~FinishExecution(w) /\ ~FinishAbort(w) /\ ~FinishLoad(w)
             /\ ~RequireWave(w) /\ ~AbortDone(w)
    <3>1. vlock' = vlock
      BY <2>5, Changes
    <3>2. (Finishing(x)' <=> Finishing(x)) /\ (Finishing(x) =>
              worker'[x].task.txn = worker[x].task.txn)
      BY <2>5, RolesOf
    <3>3. (Aborted(x)' <=> Aborted(x)) /\ (Aborted(x) => worker'[x].task.txn = worker[x].task.txn)
      BY <2>5, RolesOf
    <3> QED
      BY <1>b, <3>1, <3>2, <3>3
  <2> QED
    BY <2>1, <2>2, <2>3, <2>4, <2>5
<1>3. dlock'[t] = x <=> (At(x, "suspend") /\ worker[x].num.idx = t)'
  <2> DEFINE n == worker[w].num.idx
  <2>a. x # w => worker'[x] = worker[x]
    BY WorkerStep DEF Others
  <2>1. CASE WaitForDependency(w)
    <3>1. CASE is_executed(n, TRUE)
      <4>1. ~At(w, "suspend")' /\ ~At(w, "suspend")
        BY <2>1, <3>1, WaitForDependencyEffect DEF Moves, Becomes, At
      <4>2. dlock' = dlock
        BY <2>1, <3>1 DEF WaitForDependency
      <4> QED
        BY <1>b, <2>a, <4>1, <4>2 DEF At
    <3>2. CASE ~is_executed(n, TRUE)
      <4>1. At(w, "suspend")' /\ worker'[w].num = worker[w].num /\ ~At(w, "suspend")
        BY <2>1, <3>2, WaitForDependencyEffect DEF Moves, Becomes, At
      <4>2. dlock' = [dlock EXCEPT ![n] = w] /\ dlock[n] = None
        BY <2>1, <3>2 DEF WaitForDependency
      <4> QED
        BY <1>a, <1>b, <1>c, <2>a, <4>1, <4>2 DEF At
    <3> QED
      BY <3>1, <3>2
  <2>2. CASE Suspend(w)
    <3>1. At(w, "suspend") /\ ~At(w, "suspend")'
      BY <2>2, SuspendEffect DEF Moves, Becomes, Goes, At
    <3>2. dlock' = [dlock EXCEPT ![n] = None]
      BY <2>2 DEF Suspend
    <3> QED
      BY <1>a, <1>b, <1>c, <2>a, <3>1, <3>2 DEF At
  <2>3. CASE ~WaitForDependency(w) /\ ~Suspend(w)
    BY <1>b, <2>3, Changes, PhasesOf
  <2> QED
    BY <2>1, <2>2, <2>3
<1> QED
  BY <1>1, <1>2, <1>3

-----------------------------------------------------------------------------
(* What each step does to the execution statuses.                          *)

SetsStatus(t, name, inc, cv, safe) ==
    /\ t \in Txns
    /\ txn_status'[t].name = name
    /\ txn_status'[t].inc = inc
    /\ txn_status'[t].cv = cv
    /\ txn_status'[t].safe = safe
    /\ \A u \in Txns : u # t => txn_status'[u] = txn_status[u]

\* What each of the eight actions that write a status does to it.
LEMMA TryCommitStatus ==
    ASSUME TypeOK, NEW w \in Workers, TryCommit(w)
    PROVE  LET c == commit_state.idx
               st == txn_status[c]
           IN  /\ c \in Txns /\ c \in Nat /\ c < num_txns
               /\ st.name = "Executed"
               /\ vlock[c] = None
               /\ may_commit(c, next_wave(c))
               /\ SetsStatus(c, "Committed", st.inc, st.cv, st.safe)
               /\ commit_state'.idx = c + 1 /\ commit_state'.wave = next_wave(c)
               /\ done_marker' <=> (done_marker \/ c + 1 = num_txns)
<1>1. commit_state.idx \in Txns /\ commit_state.idx \in Nat /\ commit_state.idx < num_txns
  BY Constants, TxnFacts DEF TryCommit, TypeOK
<1>2. txn_status' = [txn_status EXCEPT ![commit_state.idx].name = "Committed"]
  BY DEF TryCommit
<1>3. SetsStatus(commit_state.idx, "Committed", txn_status[commit_state.idx].inc,
           txn_status[commit_state.idx].cv, txn_status[commit_state.idx].safe)
  BY <1>1, <1>2 DEF SetsStatus, TypeOK, Statuses
<1> QED
  BY <1>1, <1>3 DEF TryCommit

LEMMA HaltTxnStatus ==
    ASSUME TypeOK, NEW w \in Workers, HaltTxn(w), (worker[w].todo \subseteq Txns /\
               worker[w].todo # {})
    PROVE  \E t \in worker[w].todo :
              LET st == txn_status[t]
              IN  /\ SetsStatus(t, "Halted", 0, None,
                                st.cv # None \/ st.name \notin {"Executing", "Aborting"})
                  /\ IF st.cv = None THEN cvar' = cvar
                     ELSE cvar' = [cvar EXCEPT ![st.cv] = "Halted"]
                  /\ Becomes(w, IF worker[w].todo = {t} THEN "halted" ELSE "halt_txn",
                             worker[w].task, worker[w].ret, worker[w].reads, worker[w].todo \ {t},
                             worker[w].num, worker[w].flag)
<1> DEFINE t == CHOOSE t \in worker[w].todo : \A u \in worker[w].todo : t <= u
           st == txn_status[t]
           safe == st.cv # None \/ st.name \notin {"Executing", "Aborting"}
<1>0. \A d \in worker[w].todo : d \in Txns
  OBVIOUS
<1>1. worker[w].todo \in SUBSET Nat
  BY <1>0, TxnFacts
<1>9. worker[w].todo # {}
  OBVIOUS
<1>2. \E d \in worker[w].todo : \A e \in worker[w].todo : d <= e
  BY <1>1, <1>9, LeastOf
<1>3. t \in worker[w].todo /\ t \in Txns
  BY <1>2
<1>4. txn_status' = [txn_status EXCEPT ![t] = ExecutionHalted(safe)]
  BY DEF HaltTxn
<1>5. IF st.cv = None THEN cvar' = cvar ELSE cvar' = [cvar EXCEPT ![st.cv] = "Halted"]
  BY DEF HaltTxn
<1>6. Becomes(w, IF worker[w].todo = {t} THEN "halted" ELSE "halt_txn",
              worker[w].task, worker[w].ret, worker[w].reads, worker[w].todo \ {t},
              worker[w].num, worker[w].flag)
  BY HaltTxnEffect
<1> HIDE DEF t, safe
<1>7. SetsStatus(t, "Halted", 0, None, safe)
  BY <1>3, <1>4 DEF SetsStatus, TypeOK, ExecutionHalted
<1> QED
  BY <1>3, <1>5, <1>6, <1>7 DEF safe

LEMMA TryIncarnateStatus ==
    ASSUME TypeOK, NEW w \in Workers, TryIncarnate(w)
    PROVE  LET n == worker[w].num.idx
               st == txn_status[n]
           IN  /\ n \in Txns
               /\ IF st.name = "Ready"
                  THEN /\ SetsStatus(n, "Executing", st.inc, st.cv, st.safe)
                       /\ \E tk \in Tasks :
                             /\ tk.kind = IF st.cv = None THEN "Execution" ELSE "Wakeup"
                             /\ tk.txn = n /\ tk.inc = st.inc /\ tk.cv = st.cv
                             /\ Restarts(w, tk)
                  ELSE /\ txn_status' = txn_status
                       /\ Restarts(w, NoTask("Retry")) \/ Moves(w, "next")
<1> DEFINE n == worker[w].num.idx
<1>1. n \in Txns
  BY SMTT(30) DEF TryIncarnate, TypeOK, WorkerOK, FieldsOK, At
<1>2. CASE txn_status[n].name = "Ready"
  <2>1. txn_status' = [txn_status EXCEPT ![n].name = "Executing"]
    BY <1>2 DEF TryIncarnate
  <2>2. SetsStatus(n, "Executing", txn_status[n].inc, txn_status[n].cv, txn_status[n].safe)
    BY <1>1, <2>1 DEF SetsStatus, TypeOK, Statuses
  <2>3. PICK tk : tk = ExecutionTask(n, txn_status[n])
    OBVIOUS
  <2>4. txn_status[n] \in Statuses
    BY <1>1 DEF TypeOK
  <2>5. /\ tk \in Tasks /\ tk.txn = n /\ tk.inc = txn_status[n].inc /\ tk.cv = txn_status[n].cv
        /\ tk.kind = IF txn_status[n].cv = None THEN "Execution" ELSE "Wakeup"
    BY <1>1, <2>3, <2>4, ExecutionTaskFacts, Zenon
  <2>6. Restarts(w, tk)
    BY <1>2, <2>3, TryIncarnateEffect
  <2> QED
    BY <1>1, <1>2, <2>2, <2>5, <2>6
<1>3. CASE txn_status[n].name # "Ready"
  BY <1>1, <1>3, TryIncarnateEffect DEF TryIncarnate
<1> QED
  BY <1>2, <1>3

LEMMA SuspendStatus ==
    ASSUME TypeOK, NEW w \in Workers, Suspend(w), ~At(w, "error")'
    PROVE  LET t == worker[w].task.txn
               st == txn_status[t]
               dep == worker[w].num.idx
           IN  /\ dep \in Txns
               /\ dlock' = [dlock EXCEPT ![dep] = None]
               /\ \/ /\ st.name = "Executing"
                     /\ SetsStatus(t, "Suspended", st.inc, w, TRUE)
                     /\ txn_dependency' = [txn_dependency EXCEPT ![dep] = @ \cup {t}]
                     /\ cvar' = [cvar EXCEPT ![w] = "Unresolved"]
                     /\ Moves(w, "waiting")
                  \/ /\ st.name = "Halted"
                     /\ txn_status' = txn_status
                     /\ txn_dependency' = txn_dependency
                     /\ cvar' = cvar
                     /\ Goes(w, worker[w].reads, TRUE)
<1> DEFINE t == worker[w].task.txn
           st == txn_status[t]
           dep == worker[w].num.idx
<1>1. t \in Txns /\ dep \in Txns
  BY PhaseFacts DEF Suspend, TypeOK, WorkerOK, FieldsOK, At
<1>2. dlock' = [dlock EXCEPT ![dep] = None]
  BY DEF Suspend
<1>3. CASE st.name = "Executing"
  <2>1. txn_status' = [txn_status EXCEPT ![t] = Status("Suspended", st.inc, w)]
    BY <1>3 DEF Suspend
  <2>2. SetsStatus(t, "Suspended", st.inc, w, TRUE)
    BY <1>1, <2>1 DEF SetsStatus, TypeOK, Status
  <2>3. /\ txn_dependency' = [txn_dependency EXCEPT ![dep] = @ \cup {t}]
        /\ cvar' = [cvar EXCEPT ![w] = "Unresolved"]
    BY <1>3 DEF Suspend
  <2>4. Moves(w, "waiting")
    BY <1>3, SuspendEffect
  <2> QED
    BY <1>1, <1>2, <1>3, <2>2, <2>3, <2>4
<1>4. CASE st.name = "Halted"
  BY <1>1, <1>2, <1>4, SuspendEffect DEF Suspend
<1>5. st.name \in {"Executing", "Halted"}
  BY SuspendEffect DEF Moves, Becomes, At
<1> QED
  BY <1>3, <1>4, <1>5

LEMMA FinishExecutionStatus ==
    ASSUME TypeOK, NEW w \in Workers, FinishExecution(w), ~At(w, "error")'
    PROVE  LET t == worker[w].task.txn
               st == txn_status[t]
           IN  /\ Becomes(w, "wake", worker[w].task, "finish_execution", worker[w].reads,
                          worker[w].todo, worker[w].num, worker[w].flag)
               /\ \/ /\ st.name = "Executing" /\ st.inc = worker[w].task.inc
                     /\ SetsStatus(t, "Executed", st.inc, None, TRUE)
                  \/ /\ st.name = "Halted"
                     /\ SetsStatus(t, "Halted", st.inc, st.cv, TRUE)
<1> DEFINE t == worker[w].task.txn
           st == txn_status[t]
<1>1. t \in Txns
  BY PhaseFacts
<1>2. Becomes(w, "wake", worker[w].task, "finish_execution", worker[w].reads,
              worker[w].todo, worker[w].num, worker[w].flag)
  BY FinishExecutionEffect DEF Becomes, At
<1>3. CASE st.name = "Executing" /\ st.inc = worker[w].task.inc
  <2>1. txn_status' = [txn_status EXCEPT ![t] = Status("Executed", st.inc, None)]
    BY <1>3 DEF FinishExecution
  <2>2. SetsStatus(t, "Executed", st.inc, None, TRUE)
    BY <1>1, <2>1 DEF SetsStatus, TypeOK, Status
  <2> QED
    BY <1>2, <1>3, <2>2
<1>4. CASE st.name = "Halted"
  <2>1. txn_status' = [txn_status EXCEPT ![t].safe = TRUE]
    BY <1>4 DEF FinishExecution, SafelyFinished
  <2>2. SetsStatus(t, "Halted", st.inc, st.cv, TRUE)
    BY <1>1, <1>4, <2>1, SMTT(30) DEF SetsStatus, TypeOK, Statuses
  <2> QED
    BY <1>2, <1>4, <2>2
<1>5. (st.name = "Executing" /\ st.inc = worker[w].task.inc) \/ st.name = "Halted"
  BY <1>2 DEF FinishExecution, Becomes, At, TypeOK, WorkerOK, FieldsOK, WorkerFields
<1> QED
  BY <1>3, <1>4, <1>5

LEMMA ResumeStatus ==
    ASSUME TypeOK, NEW w \in Workers, Resume(w), ~At(w, "error")',
           worker[w].todo \in SUBSET Txns
    PROVE  \E d \in worker[w].todo :
              LET st == txn_status[d]
              IN  /\ \/ st.name = "Suspended" /\ SetsStatus(d, "Ready", st.inc, st.cv, st.safe)
                     \/ st.name = "Halted" /\ txn_status' = txn_status
                  /\ Becomes(w, IF worker[w].todo = {d} THEN "fetch_min" ELSE "resume",
                             worker[w].task, worker[w].ret, worker[w].reads,
                             worker[w].todo \ {d}, worker[w].num, worker[w].flag)
<1>1. PICK d \in worker[w].todo :
         LET st == txn_status[d]
          IN  /\ txn_status' =
                    IF st.name = "Suspended" THEN [txn_status EXCEPT ![d].name = "Ready"]
                    ELSE txn_status
              /\ worker' = [worker EXCEPT
                    ![w].todo = @ \ {d},
                    ![w].pc = IF st.name \notin {"Suspended", "Halted"} THEN "error"
                              ELSE IF worker[w].todo = {d} THEN "fetch_min" ELSE @]
  BY Zenon DEF Resume
<1>2. d \in Txns
  BY <1>1
<1>3. At(w, "resume")
  BY DEF Resume
<1>4. DOMAIN worker = Workers /\ DOMAIN worker[w] = WorkerFields
  BY DEF TypeOK, WorkerOK, FieldsOK
<1>5. txn_status[d].name \in {"Suspended", "Halted"}
  BY <1>1, <1>4 DEF At, WorkerFields
<1> DEFINE q == IF worker[w].todo = {d} THEN "fetch_min" ELSE "resume"
<1>6. worker' = [worker EXCEPT ![w].todo = @ \ {d}, ![w].pc = q]
  BY <1>1, <1>3, <1>5 DEF At
<1> HIDE DEF q
<1>7. Becomes(w, q, worker[w].task, worker[w].ret, worker[w].reads,
              worker[w].todo \ {d}, worker[w].num, worker[w].flag)
  BY <1>4, <1>6 DEF Becomes, Others, WorkerFields
<1>8. txn_status[d].name = "Suspended" =>
         SetsStatus(d, "Ready", txn_status[d].inc, txn_status[d].cv, txn_status[d].safe)
  BY <1>1, <1>2 DEF SetsStatus, TypeOK, Statuses
<1>9. txn_status[d].name = "Halted" => txn_status' = txn_status
  BY <1>1
<1> QED
  BY <1>1, <1>5, <1>7, <1>8, <1>9 DEF q

LEMMA TryAbortStatus ==
    ASSUME TypeOK, NEW w \in Workers, TryAbort(w)
    PROVE  LET t == worker[w].task.txn
               st == txn_status[t]
           IN  IF may_abort(t, worker[w].task.inc)
               THEN /\ st.name = "Executed" /\ st.inc = worker[w].task.inc
                    /\ st.cv = None /\ st.safe = TRUE
                    /\ SetsStatus(t, "Aborting", st.inc, None, TRUE)
               ELSE txn_status' = txn_status
<1> DEFINE t == worker[w].task.txn
           st == txn_status[t]
<1>1. t \in Txns
  BY PhaseFacts
<1>2. CASE may_abort(t, worker[w].task.inc)
  <2>1. txn_status' = [txn_status EXCEPT ![t].name = "Aborting"]
    BY <1>2 DEF TryAbort
  <2>2. st.name = "Executed" /\ st.inc = worker[w].task.inc /\ st.cv = None /\ st.safe = TRUE
    BY <1>2 DEF may_abort, Status
  <2>3. SetsStatus(t, "Aborting", st.inc, None, TRUE)
    BY <1>1, <2>1, <2>2 DEF SetsStatus, TypeOK, Statuses
  <2> QED
    BY <1>2, <2>2, <2>3
<1>3. CASE ~may_abort(t, worker[w].task.inc)
  BY <1>3 DEF TryAbort
<1> QED
  BY <1>2, <1>3

LEMMA FinishAbortStatus ==
    ASSUME TypeOK, NEW w \in Workers, FinishAbort(w), ~At(w, "error")'
    PROVE  LET t == worker[w].task.txn
               st == txn_status[t]
           IN  /\ worker[w].todo = {}
               /\ Becomes(w, "decrease", worker[w].task, "finish_abort", worker[w].reads,
                          worker[w].todo, worker[w].num, worker[w].flag)
               /\ \/ /\ st.name = "Aborting" /\ st.inc = worker[w].task.inc
                     /\ SetsStatus(t, "Ready", st.inc + 1, None, TRUE)
                  \/ /\ st.name = "Halted"
                     /\ SetsStatus(t, "Halted", st.inc, st.cv, TRUE)
<1> DEFINE t == worker[w].task.txn
           st == txn_status[t]
<1>1. t \in Txns /\ worker[w].todo = {}
  BY PhaseFacts DEF FinishAbort
<1>2. Becomes(w, "decrease", worker[w].task, "finish_abort", worker[w].reads,
              worker[w].todo, worker[w].num, worker[w].flag)
  BY FinishAbortEffect DEF Becomes, At
<1>3. CASE st.name = "Aborting" /\ st.inc = worker[w].task.inc
  <2>1. txn_status' = [txn_status EXCEPT ![t] = Status("Ready", st.inc + 1, None)]
    BY <1>3 DEF FinishAbort
  <2>2. SetsStatus(t, "Ready", st.inc + 1, None, TRUE)
    BY <1>1, <2>1 DEF SetsStatus, TypeOK, Status
  <2> QED
    BY <1>1, <1>2, <1>3, <2>2
<1>4. CASE st.name = "Halted"
  <2>1. txn_status' = [txn_status EXCEPT ![t].safe = TRUE]
    BY <1>4 DEF FinishAbort, SafelyFinished
  <2>2. SetsStatus(t, "Halted", st.inc, st.cv, TRUE)
    BY <1>1, <1>4, <2>1 DEF SetsStatus, TypeOK, Statuses
  <2> QED
    BY <1>1, <1>2, <1>4, <2>2
<1>5. (st.name = "Aborting" /\ st.inc = worker[w].task.inc) \/ st.name = "Halted"
  BY <1>2, Zenon DEF FinishAbort, Becomes, At, TypeOK, WorkerOK, FieldsOK, WorkerFields
<1> QED
  BY <1>3, <1>4, <1>5

-----------------------------------------------------------------------------
(* Halting.                                                                *)

\* One worker at a time coordinates the commits.
LEMMA UniqueCoordinator ==
    ASSUME LocksOK, NEW x \in Workers, NEW y \in Workers, Coordinates(x), Coordinates(y)
    PROVE  x = y
BY DEF LocksOK

\* Only halt_transaction_execution halts a transaction.
LEMMA HaltedFrame ==
    ASSUME TypeOK, NEW w \in Workers, Step(w), ~At(w, "error")', ~HaltTxn(w),
           At(w, "resume") => worker[w].todo \in SUBSET Txns
    PROVE  \A t \in Txns : IsHalted(t)' <=> IsHalted(t)
<1>1. CASE TryCommit(w)
  BY <1>1, TryCommitStatus DEF IsHalted, SetsStatus
<1>2. CASE TryIncarnate(w)
  BY <1>2, TryIncarnateStatus DEF IsHalted, SetsStatus
<1>3. CASE Suspend(w)
  BY <1>3, SuspendStatus DEF IsHalted, SetsStatus
<1>4. CASE FinishExecution(w)
  BY <1>4, FinishExecutionStatus DEF IsHalted, SetsStatus
<1>5. CASE Resume(w)
  <2>1. At(w, "resume")
    BY <1>5 DEF Resume
  <2> QED
    BY <1>5, <2>1, ResumeStatus DEF IsHalted, SetsStatus
<1>6. CASE TryAbort(w)
  BY <1>6, TryAbortStatus DEF IsHalted, SetsStatus
<1>7. CASE FinishAbort(w)
  BY <1>7, FinishAbortStatus DEF IsHalted, SetsStatus
<1> QED
  BY <1>1, <1>2, <1>3, <1>4, <1>5, <1>6, <1>7, Changes DEF IsHalted

\* try_commit succeeds only while the scheduler is not being halted.
LEMMA CommitBeforeCut ==
    ASSUME TypeOK, LocksOK, HaltOK, NEW w \in Workers, TryCommit(w)
    PROVE  ~Cut /\ ~done_marker /\ NoneHalted
<1>1. Coordinates(w) /\ At(w, "try_commit")
  BY DEF TryCommit, Coordinates, CommitPcs, At
<1>2. ~AllHalted
  BY TryCommitStatus DEF AllHalted, IsHalted
<1>3. \A x \in Workers : ~At(x, "halt_txn")
  BY <1>1, UniqueCoordinator DEF Coordinates, CommitPcs, At
<1>4. ~Cut
  BY <1>2, <1>3 DEF HaltOK
<1> QED
  BY <1>4, TryCommitStatus DEF HaltOK, Cut

\* HaltOK is preserved: statuses are halted in the order of the transactions,
\* by one worker.
LEMMA HaltStep ==
    ASSUME TypeOK, LocksOK, HaltOK, NEW w \in Workers, Step(w), ~At(w, "error")',
           At(w, "resume") => worker[w].todo \in SUBSET Txns
    PROVE  HaltOK'
<1>a. commit_state.idx \in 0 .. num_txns /\ commit_state.idx \in Nat /\ num_txns \in Nat
  BY Constants DEF TypeOK
<1>b. \A x \in Workers : x # w => worker'[x] = worker[x]
  BY WorkerStep DEF Others
<1>h. \A x \in Workers : Coordinates(x) /\ Coordinates(w) => x = w
  BY UniqueCoordinator
<1>p. PhaseOK(w)
  BY PhaseFacts
<1>1. CASE TryCommit(w)
  <2>1. ~Cut /\ ~done_marker /\ NoneHalted
    BY <1>1, CommitBeforeCut
  <2>2. \A x \in Workers : ~At(x, "halt_txn") /\ ~At(x, "halt") /\ ~At(x, "halted")
    BY <1>1, <1>h DEF TryCommit, Coordinates, CommitPcs, At
  <2>3. /\ commit_state'.idx = commit_state.idx + 1 /\ commit_state.idx < num_txns
        /\ (done_marker' <=> commit_state.idx + 1 = num_txns)
    BY <1>1, <2>1, TryCommitStatus
  <2>4. ~Cut'
    BY <1>a, <2>3 DEF Cut
  <2>5. NoneHalted'
    BY <1>1, <2>1, TryCommitStatus DEF SetsStatus, NoneHalted, IsHalted
  <2>6. has_halted' = has_halted /\ ~has_halted
    BY <1>1, <2>1 DEF TryCommit, HaltOK
  <2>7. \A x \in Workers : ~At(x, "halt_txn")' /\ ~At(x, "halt")' /\ ~At(x, "halted")'
    BY <1>b, <1>1, <2>2, TryCommitEffect DEF Becomes, At
  <2>8. \A x \in Workers : Kind(x)' = Kind(x)
    BY <1>b, <1>1, TryCommitEffect DEF Becomes, Kind
  <2>9. \A x \in Workers : Kind(x) # "Done"
    BY <2>1 DEF HaltOK
  <2>10. commit_state'.idx > 0 /\ (commit_state'.idx = num_txns => done_marker')
    BY <1>a, <2>3
  <2> QED
    BY <2>4, <2>5, <2>6, <2>7, <2>8, <2>9, <2>10 DEF HaltOK
<1>2. CASE HaltTxn(w)
  <2>1. At(w, "halt_txn")
    BY <1>2 DEF HaltTxn
  <2>2. Cut /\ (worker[w].todo \subseteq Txns /\ worker[w].todo # {})
        /\ \A u \in Txns : IsHalted(u) <=> u \notin worker[w].todo
    BY <2>1 DEF HaltOK
  <2>3. PICK t \in worker[w].todo :
              /\ SetsStatus(t, "Halted", 0, None,
                   txn_status[t].cv # None \/ txn_status[t].name \notin {"Executing", "Aborting"})
              /\ Becomes(w, IF worker[w].todo = {t} THEN "halted" ELSE "halt_txn",
                             worker[w].task, worker[w].ret, worker[w].reads, worker[w].todo \ {t},
                             worker[w].num, worker[w].flag)
    BY <1>2, <2>2, HaltTxnStatus
  <2>4. \A u \in Txns : IsHalted(u)' <=> u \notin worker[w].todo \ {t}
    BY <2>2, <2>3 DEF SetsStatus, IsHalted
  <2>5. done_marker' = done_marker /\ commit_state' = commit_state /\ has_halted' = has_halted
        /\ done_marker
    BY <1>2, <2>2 DEF HaltTxn, Cut, indices, markers
  <2>6. Cut'
    BY <2>2, <2>5 DEF Cut
  <2>7. worker'[w].pc = IF worker[w].todo = {t} THEN "halted" ELSE "halt_txn"
    BY <2>3 DEF Becomes
  <2>8. worker'[w].todo = worker[w].todo \ {t} /\ Kind(w)' = Kind(w) /\
            worker'[w].ret = worker[w].ret
    BY <2>3 DEF Becomes, Kind
  <2>9. \A x \in Workers : x # w => ~Coordinates(x)
    BY <1>h, <2>1 DEF Coordinates, CommitPcs, At
  <2>10. \A x \in Workers : x # w => /\ ~At(x, "halt_txn")' /\ ~At(x, "halted")' /\ ~At(x, "halt")'
                                     /\ worker'[x].ret # "hook" /\ Kind(x)' = Kind(x)
    BY <1>b, <2>9 DEF Coordinates, CommitPcs, At, Kind
  <2>11. worker[w].ret # "hook"
    BY <1>p, <2>1 DEF PhaseOK, At, HookPcs
  <2>12. CASE worker[w].todo = {t}
    <3>1. AllHalted'
      BY <2>4, <2>12 DEF AllHalted
    <3>2. worker'[w].pc = "halted"
      BY <2>7, <2>12
    <3>3. ~has_halted
      BY <2>1 DEF HaltOK
    <3> QED
      BY <1>a, <2>5, <2>6, <2>8, <2>10, <2>11, <3>1, <3>2, <3>3 DEF HaltOK, At
  <2>13. CASE worker[w].todo # {t}
    <3>1. worker'[w].pc = "halt_txn"
      BY <2>7, <2>13
    <3>2. (worker'[w].todo \subseteq Txns /\ worker'[w].todo # {})
      BY <2>2, <2>8, <2>13
    <3>3. ~has_halted
      BY <2>1 DEF HaltOK
    <3>4. \A u \in Txns : IsHalted(u)' <=> u \notin worker'[w].todo
      BY <2>4, <2>8
    <3>5. At(w, "halt_txn")' /\ ~At(w, "halt")' /\ ~At(w, "halted")'
      BY <3>1 DEF At
    <3> QED
      BY <1>a, <2>5, <2>6, <2>8, <2>10, <2>11, <3>2, <3>3, <3>4, <3>5 DEF HaltOK
  <2> QED
    BY <2>12, <2>13
<1>n. ~HaltTxn(w) => \A t \in Txns : IsHalted(t)' <=> IsHalted(t)
  BY HaltedFrame
<1>m. ~HaltTxn(w) => (NoneHalted' <=> NoneHalted) /\ (AllHalted' <=> AllHalted)
  BY <1>n DEF NoneHalted, AllHalted
<1>i. ~TryCommit(w) => commit_state'.idx = commit_state.idx
  BY Changes DEF TryCommitNothing, TypeOK
<1>3. CASE HaltStart(w)
  <2>0. ~HaltTxn(w) /\ ~TryCommit(w)
    BY <1>3 DEF HaltStart, HaltTxn, TryCommit, At
  <2>1. At(w, "halt") /\ Moves(w, IF done_marker THEN "halted" ELSE "halt_txn")
    BY <1>3, HaltStartEffect
  <2>2. ~Cut /\ worker[w].todo = Txns /\ commit_state.idx > 0
    BY <2>1 DEF HaltOK, At, TypeOK, WorkerOK
  <2>3. done_marker' /\ has_halted' = has_halted /\ NoneHalted
    BY <1>3, <2>2 DEF HaltStart, HaltOK
  <2>4. \A x \in Workers : x # w => ~Coordinates(x)
    BY <1>h, <2>1 DEF Coordinates, CommitPcs, At
  <2>5. \A x \in Workers : x # w => /\ ~At(x, "halt_txn")' /\ ~At(x, "halted")' /\ ~At(x, "halt")'
                                     /\ worker'[x].ret # "hook" /\ Kind(x)' = Kind(x)
    BY <1>b, <2>4 DEF Coordinates, CommitPcs, At, Kind
  <2>6. worker[w].ret # "hook" /\ worker'[w].ret = worker[w].ret /\ worker'[w].todo = worker[w].todo
        /\ Kind(w)' = Kind(w)
    BY <1>p, <2>1 DEF PhaseOK, At, HookPcs, Moves, Becomes, Kind
  <2>7. CASE done_marker
    <3>1. worker'[w].pc = "halted"
      BY <2>1, <2>7 DEF Moves, Becomes
    <3>2. ~Cut'
      BY <2>2, <2>7, <1>i, <2>0, <1>a DEF Cut
    <3>3. has_halted => \A x \in Workers : ~At(x, "halt_txn")'
      BY <2>5, <3>1 DEF At
    <3> QED
      BY <1>a, <1>m, <1>i, <2>0, <2>2, <2>3, <2>5, <2>6, <3>1, <3>2, <3>3 DEF HaltOK, At
  <2>8. CASE ~done_marker
    <3>1. worker'[w].pc = "halt_txn"
      BY <2>1, <2>8 DEF Moves, Becomes
    <3>2. Cut'
      BY <2>3, <2>8, <1>i, <2>0, <1>a DEF Cut, HaltOK
    <3>3. ~has_halted
      BY <2>8 DEF HaltOK
    <3>4. (worker'[w].todo \subseteq Txns /\ worker'[w].todo # {})
      BY <2>2, <2>6, Constants, TxnFacts
    <3>5. \A u \in Txns : IsHalted(u)' <=> u \notin worker'[w].todo
      BY <1>n, <2>0, <2>2, <2>3, <2>6 DEF NoneHalted
    <3>6. At(w, "halt_txn")' /\ ~At(w, "halt")' /\ ~At(w, "halted")'
      BY <3>1 DEF At
    <3> QED
      BY <1>a, <1>i, <2>0, <2>2, <2>3, <2>5, <2>6, <3>2, <3>3, <3>4, <3>5, <3>6 DEF HaltOK
  <2> QED
    BY <2>7, <2>8
<1>c. ~TryCommit(w) /\ ~HaltStart(w) => (done_marker' <=> done_marker) /\ (Cut' <=> Cut)
  BY <1>i, Changes DEF Cut
<1>k. \A x \in Workers : Kind(x)' = "Done" => Kind(x) = "Done" \/ done_marker
  <2> TAKE x \in Workers
  <2>1. CASE NextTask(w) /\ x = w
    <3>1. ~done_marker => Kind(w)' # "Done" \/ Kind(w) = "Done"
      BY <2>1, NextTaskEffect, BackToLoop, NoTaskFacts DEF Moves, Becomes, Kind
    <3> QED
      BY <2>1, <3>1
  <2> QED
    BY <2>1, RolesOf
<1>4. CASE AddToCommitQueue(w)
  <2>0. ~HaltTxn(w) /\ ~TryCommit(w) /\ ~HaltStart(w) /\ ~Halted(w)
    BY <1>4 DEF AddToCommitQueue, HaltStart, HaltTxn, TryCommit, Halted, At
  <2>1. At(w, "queue") /\ worker[w].ret = "hook"
    BY <1>4, <1>p, AddToCommitQueueEffect DEF PhaseOK, At, LoopPcs, ExecutionPcs, ValidationPcs,
       NextPcs, FinishPcs, AbortPcs
  <2>2. ~Cut
    BY <2>1 DEF HaltOK
  <2>3. worker'[w].pc \in {"halt", "try_commit"} /\ worker'[w].todo = Txns
    BY <1>4, AddToCommitQueueEffect DEF Becomes, At
  <2>4. \A x \in Workers : x # w => ~Coordinates(x)
    BY <1>h, <2>1 DEF Coordinates, CommitPcs, At
  <2>5. \A x \in Workers : x # w => ~At(x, "halt_txn")' /\ ~At(x, "halted")' /\ ~At(x, "halt")'
    BY <1>b, <2>4 DEF Coordinates, CommitPcs, At
  <2>6. \A x \in Workers : ~At(x, "halt_txn")' /\ ~At(x, "halted")'
                           /\ (At(x, "halt")' => worker'[x].todo = Txns)
    BY <2>3, <2>5 DEF At
  <2>7. has_halted' = has_halted
    BY <2>0, Changes
  <2> QED
    BY <1>a, <1>c, <1>i, <1>k, <1>m, <2>0, <2>2, <2>6, <2>7 DEF HaltOK
<1>5. CASE Halted(w)
  <2>0. ~HaltTxn(w) /\ ~TryCommit(w) /\ ~HaltStart(w) /\ ~AddToCommitQueue(w)
    BY <1>5 DEF AddToCommitQueue, HaltStart, HaltTxn, TryCommit, Halted, At
  <2>1. At(w, "halted") /\ worker'[w].pc = "try_commit"
    BY <1>5, HaltedEffect DEF Becomes
  <2>2. done_marker
    BY <2>1 DEF HaltOK
  <2>3. \A x \in Workers : ~At(x, "halt_txn") /\ ~At(x, "halt_txn")'
    BY <1>b, <1>h, <2>1 DEF Coordinates, CommitPcs, At
  <2>4. \A x \in Workers : (At(x, "halt")' <=> At(x, "halt")) /\ (At(x, "halt") => x # w)
    BY <1>b, <2>1 DEF At
  <2>5. \A x \in Workers : worker'[x].ret = "hook" <=> worker[x].ret = "hook"
    BY <2>0, RolesOf
  <2> QED
    BY <1>a, <1>b, <1>c, <1>i, <1>k, <1>m, <2>0, <2>2, <2>3, <2>4, <2>5 DEF HaltOK
<1>6. CASE ~TryCommit(w) /\ ~HaltTxn(w) /\ ~HaltStart(w) /\ ~AddToCommitQueue(w) /\ ~Halted(w)
  <2>1. \A x \in Workers :
           /\ At(x, "halt")' <=> At(x, "halt")
           /\ At(x, "halt_txn")' <=> At(x, "halt_txn")
           /\ At(x, "halt_txn") => worker'[x].todo = worker[x].todo
           /\ At(x, "halted")' <=> At(x, "halted")
           /\ worker'[x].ret = "hook" <=> worker[x].ret = "hook"
    BY <1>6, RolesOf
  <2>2. \A x \in Workers : At(x, "halt") => worker'[x].todo = worker[x].todo
    BY <1>6, RolesOf
  <2>3. has_halted' = has_halted
    BY <1>6, Changes
  <2> QED
    BY <1>a, <1>c, <1>i, <1>k, <1>m, <1>n, <1>6, <2>1, <2>2, <2>3 DEF HaltOK
<1> QED
  BY <1>1, <1>2, <1>3, <1>4, <1>5, <1>6

-----------------------------------------------------------------------------
(* Commits and statuses.                                                   *)

\* What is known of a worker's role where it is.
LEMMA PhaseRoles ==
    ASSUME TypeOK, NEW x \in Workers
    PROVE  /\ worker[x].pc \in ExecutionPcs =>
                 Executing(x) /\ worker[x].ret = "loop" /\ Kind(x) = "Execution" /\ ~Finishing(x)
           /\ Aborting(x) => worker[x].ret = "loop" /\ Kind(x) = "Validation" /\ ~Executing(x)
           /\ worker[x].pc \in NextPcs => ~Busy(x) /\ ~Finishing(x) /\ ~Aborted(x)
           /\ worker[x].pc \in ValidationPcs =>
                 /\ worker[x].ret = "loop" /\ Kind(x) = "Validation"
                 /\ ~Executing(x) /\ ~Finishing(x) /\ ~Aborted(x)
           /\ Finishing(x) => worker[x].pc \in FinishPcs /\ ~Executing(x) /\ ~Aborting(x) /\
                  ~Aborted(x)
           /\ Aborted(x) => ~Executing(x) /\ ~Aborting(x) /\ Kind(x) = "Validation"
           /\ Wakes(x) => ~Busy(x)
           /\ At(x, "finish_load") \/ At(x, "require_wave") => Finishing(x)
           /\ At(x, "abort_done") => Aborted(x)
BY PhaseFacts DEF PhaseOK, At, Kind, LoopPcs, ExecutionPcs, ValidationPcs, NextPcs, HookPcs,
   FinishPcs, AbortPcs, Executing, Aborting, Finishing, Aborted, Busy, Wakes, Pending

\* The holder of a validation lock is in finish_execution or finish_abort.
LEMMA VlockFree ==
    ASSUME TypeOK, LocksOK, NEW t \in Txns, vlock[t] = None
    PROVE  \A x \in Workers : worker[x].task.txn = t => ~Finishing(x) /\ ~Aborted(x)
BY Constants DEF LocksOK

\* CommitsOK is preserved: nobody executes or aborts what is committed.
LEMMA CommitsStep ==
    ASSUME TypeOK, LocksOK, HaltOK, CommitsOK, StatusOK, ExecutionOK, DependenciesOK,
           NEW w \in Workers, Step(w), ~At(w, "error")'
    PROVE  CommitsOK'
<1>a. commit_state.idx \in 0 .. num_txns /\ commit_state.idx \in Nat /\ num_txns \in Nat
  BY Constants DEF TypeOK
<1>b. \A x \in Workers : x # w => worker'[x] = worker[x]
  BY WorkerStep DEF Others
<1>c. ~TryCommit(w) => commit_state'.idx = commit_state.idx
  BY Changes DEF TryCommitNothing, TypeOK
<1>d. \A t \in Txns : t \in Nat
  BY TxnFacts
<1> DEFINE Part1 == \A t \in Txns :
                       IF t < commit_state.idx THEN HasStatus(t, {"Committed", "Halted"})
                       ELSE ~HasStatus(t, {"Committed"})
           Holds(x) == Busy(x) \/ Finishing(x) \/ Aborted(x)
           Part2 == \A x \in Workers : Holds(x) => commit_state.idx <= worker[x].task.txn
<1>e. Part1 /\ Part2
  BY DEF CommitsOK
<1>f. \A x \in Workers : worker[x].task.txn \in Nat
  BY <1>d, PhaseFacts
<1>1. Part1'
  <2>1. CASE TryCommit(w)
    BY <1>a, <1>d, <1>e, <2>1, TryCommitStatus DEF SetsStatus, HasStatus
  <2>2. CASE HaltTxn(w)
    <3>1. worker[w].todo \subseteq Txns /\ worker[w].todo # {}
      BY <2>2 DEF HaltTxn, HaltOK
    <3>2. ~TryCommit(w)
      BY <2>2 DEF HaltTxn, TryCommit, At
    <3> QED
      BY <1>c, <1>e, <2>2, <3>1, <3>2, HaltTxnStatus DEF SetsStatus, HasStatus
  <2>3. CASE TryIncarnate(w)
    <3>2. ~TryCommit(w)
      BY <2>3 DEF TryIncarnate, TryCommit, At
    <3> QED
      BY <1>c, <1>e, <2>3, <3>2, TryIncarnateStatus DEF SetsStatus, HasStatus
  <2>4. CASE Suspend(w)
    <3>2. ~TryCommit(w)
      BY <2>4 DEF Suspend, TryCommit, At
    <3>3. \/ txn_status' = txn_status
          \/ /\ txn_status[worker[w].task.txn].name = "Executing"
             /\ SetsStatus(worker[w].task.txn, "Suspended", txn_status[worker[w].task.txn].inc, w,
                    TRUE)
      BY <2>4, SuspendStatus
    <3> QED
      BY <1>c, <1>e, <3>2, <3>3 DEF SetsStatus, HasStatus
  <2>5. CASE FinishExecution(w)
    <3>2. ~TryCommit(w)
      BY <2>5 DEF FinishExecution, TryCommit, At
    <3> QED
      BY <1>c, <1>e, <2>5, <3>2, FinishExecutionStatus DEF SetsStatus, HasStatus
  <2>6. CASE Resume(w)
    <3>1. worker[w].todo \subseteq Txns
      BY <2>6 DEF Resume, DependenciesOK
    <3>2. ~TryCommit(w)
      BY <2>6 DEF Resume, TryCommit, At
    <3> QED
      BY <1>c, <1>e, <2>6, <3>1, <3>2, ResumeStatus DEF SetsStatus, HasStatus
  <2>7. CASE TryAbort(w)
    <3>2. ~TryCommit(w)
      BY <2>7 DEF TryAbort, TryCommit, At
    <3> QED
      BY <1>c, <1>e, <2>7, <3>2, TryAbortStatus DEF SetsStatus, HasStatus
  <2>8. CASE FinishAbort(w)
    <3>2. ~TryCommit(w)
      BY <2>8 DEF FinishAbort, TryCommit, At
    <3> QED
      BY <1>c, <1>e, <2>8, <3>2, FinishAbortStatus DEF SetsStatus, HasStatus
  <2> QED
    BY <1>c, <1>e, <2>1, <2>2, <2>3, <2>4, <2>5, <2>6, <2>7, <2>8, Changes DEF HasStatus
<1>2. Part2'
  <2> SUFFICES ASSUME NEW x \in Workers, Holds(x)'
               PROVE  commit_state'.idx <= worker'[x].task.txn
    OBVIOUS
  <2>1. CASE TryCommit(w)
    <3> DEFINE c == commit_state.idx
    <3>1. Holds(x) /\ worker'[x].task = worker[x].task
      BY <1>b, <2>1, TryCommitEffect DEF Becomes, Busy, Executing, Aborting, Finishing, Aborted,
           Kind, At
    <3>2. /\ c \in Txns /\ txn_status[c].name = "Executed" /\ vlock[c] = None
          /\ commit_state'.idx = c + 1
      BY <2>1, TryCommitStatus
    <3>3. worker[x].task.txn = c => ~Finishing(x) /\ ~Aborted(x)
      BY <3>2, VlockFree
    <3>4. worker[x].task.txn = c => ~Executing(x) /\ ~Aborting(x)
      BY <3>2 DEF ExecutionOK, ExecutionOf
    <3>5. worker[x].task.txn # c
      BY <3>1, <3>3, <3>4 DEF Busy
    <3> QED
      BY <1>a, <1>e, <1>f, <3>1, <3>2, <3>5
  <2>2. CASE TryIncarnate(w) /\ x = w
    <3>1. ~TryCommit(w) /\ ~Holds(w)
      BY <2>2, PhaseRoles DEF TryIncarnate, TryCommit, At, NextPcs
    <3>2. CASE txn_status[worker[w].num.idx].name = "Ready"
      <4>1. worker'[w].task.txn = worker[w].num.idx /\ worker[w].num.idx \in Txns
        BY <2>2, <3>2, TryIncarnateStatus, BackToLoop
      <4>2. ~(worker[w].num.idx < commit_state.idx)
        BY <1>e, <3>2, <4>1 DEF HasStatus
      <4> QED
        BY <1>a, <1>c, <1>d, <2>2, <3>1, <4>1, <4>2
    <3>3. CASE txn_status[worker[w].num.idx].name # "Ready"
      <4>1. ~Holds(w)'
        BY <2>2, <3>1, <3>3, TryIncarnateStatus, BackToLoop, NoTaskFacts DEF Moves, Becomes, Busy,
           Executing, Aborting, Finishing, Aborted, Kind, At
      <4> QED
        BY <2>2, <4>1
    <3> QED
      BY <3>2, <3>3
  <2>3. CASE FinishExecution(w) /\ x = w
    <3>1. Holds(w) /\ worker'[w].task = worker[w].task /\ ~TryCommit(w)
      BY <2>3, PhaseRoles, FinishExecutionStatus, Zenon DEF FinishExecution, TryCommit, At, ExecutionPcs,
           Busy,
         Becomes
    <3> QED
      BY <1>c, <1>e, <2>3, <3>1
  <2>4. CASE TryAbort(w) /\ x = w
    <3>1. ~Holds(w) /\ ~TryCommit(w)
      BY <2>4, PhaseRoles DEF TryAbort, TryCommit, At, ValidationPcs, Busy, Aborting
    <3>2. worker'[w].task = worker[w].task /\ worker'[w].ret = worker[w].ret
      BY <2>4, TryAbortEffect DEF Becomes
    <3>3. CASE may_abort(worker[w].task.txn, worker[w].task.inc)
      <4>1. txn_status[worker[w].task.txn].name = "Executed" /\ worker[w].task.txn \in Txns
        BY <2>4, <3>3, TryAbortStatus, PhaseFacts
      <4>2. ~(worker[w].task.txn < commit_state.idx)
        BY <1>e, <4>1 DEF HasStatus
      <4> QED
        BY <1>a, <1>c, <1>f, <2>4, <3>1, <3>2, <4>2
    <3>4. CASE ~may_abort(worker[w].task.txn, worker[w].task.inc)
      <4>1. worker'[w].pc = "finish_validation"
        BY <2>4, <3>4, TryAbortEffect DEF Becomes
      <4>2. ~Holds(w)'
        BY <3>1, <3>2, <4>1 DEF Busy, Executing, Aborting, Finishing, Aborted, Kind
      <4> QED
        BY <2>4, <4>2
    <3> QED
      BY <3>3, <3>4
  <2>5. CASE FinishAbort(w) /\ x = w
    <3>1. Holds(w) /\ worker'[w].task = worker[w].task /\ ~TryCommit(w)
      BY <2>5, FinishAbortStatus, Zenon DEF FinishAbort, TryCommit, At, Busy, Becomes, Aborting
    <3> QED
      BY <1>c, <1>e, <2>5, <3>1
  <2>6. CASE (FinishLoad(w) \/ RequireWave(w) \/ AbortDone(w)) /\ x = w
    <3>1. Holds(w) /\ ~TryCommit(w)
      BY <2>6, PhaseRoles DEF FinishLoad, RequireWave, AbortDone, TryCommit, At
    <3>2. CASE FinishLoad(w)
      <4>1. worker'[w].task.txn = worker[w].task.txn \/ ~Holds(w)'
        BY <3>2, FinishLoadFacts, BackToLoop, NoTaskFacts DEF Becomes, Busy, Executing, Aborting,
           Finishing, Aborted, Kind
      <4> QED
        BY <1>c, <1>e, <2>6, <3>1, <4>1
    <3>3. CASE RequireWave(w)
      <4>1. ~Holds(w)'
        BY <3>3, RequireWaveEffect, BackToLoop, TaskKinds DEF Busy, Executing, Aborting,
           Finishing, Aborted, Kind
      <4> QED
        BY <2>6, <4>1
    <3>4. CASE AbortDone(w)
      <4>1. worker'[w].task = worker[w].task
        BY <3>4, AbortDoneEffect DEF Moves, Becomes
      <4> QED
        BY <1>c, <1>e, <2>6, <3>1, <4>1
    <3> QED
      BY <2>6, <3>2, <3>3, <3>4
  <2>7. CASE /\ ~TryCommit(w)
             /\ x = w => /\ ~TryIncarnate(w) /\ ~FinishExecution(w) /\ ~TryAbort(w)
                         /\ ~FinishAbort(w) /\ ~FinishLoad(w) /\ ~RequireWave(w) /\ ~AbortDone(w)
    <3>1. Holds(x) /\ worker'[x].task.txn = worker[x].task.txn
      BY <2>7, RolesOf DEF Busy
    <3> QED
      BY <1>c, <1>e, <2>7, <3>1
  <2> QED
    BY <2>1, <2>2, <2>3, <2>4, <2>5, <2>6, <2>7
<1> QED
  BY <1>1, <1>2 DEF CommitsOK

\* Another worker keeps its role.
LEMMA OtherRoles ==
    ASSUME TypeOK, NEW w \in Workers, Step(w), ~At(w, "error")', NEW x \in Workers, x # w
    PROVE  /\ worker'[x] = worker[x]
           /\ Executing(x)' <=> Executing(x)
           /\ Aborting(x)' <=> Aborting(x)
           /\ Busy(x)' <=> Busy(x)
           /\ Finishing(x)' <=> Finishing(x)
           /\ Aborted(x)' <=> Aborted(x)
<1>1. worker'[x] = worker[x]
  BY WorkerStep DEF Others
<1> QED
  BY <1>1 DEF Executing, Aborting, Busy, Finishing, Aborted, Kind

\* The other statuses keep what holds of them when a step leaves them alone
\* and the roles of the workers at them.
LEMMA StatusFrame ==
    ASSUME TypeOK, NEW w \in Workers, Step(w), ~At(w, "error")', NEW t \in Txns, StatusOf(t),
           txn_status'[t] = txn_status[t],
           last_input_output'[t] = last_input_output[t],
           worker[w].task.txn = t =>
              /\ Busy(w) => Busy(w)'
              /\ Executing(w) => Executing(w)'
              /\ Busy(w) => worker'[w].task.txn = t
    PROVE  StatusOf(t)'
<1>1. \A x \in Workers : x # w => /\ worker'[x] = worker[x]
                                  /\ Executing(x)' <=> Executing(x)
                                  /\ Busy(x)' <=> Busy(x)
  BY OtherRoles
<1>2. txn_status[t].cv \in Workers \cup {None}
  BY DEF TypeOK, Statuses
<1>3. \A x \in Workers : Executing(x) => Busy(x)
  BY DEF Busy
<1>4. txn_status[t].cv # None =>
         Executing(txn_status[t].cv)' /\ worker'[txn_status[t].cv].task.txn = t
  BY <1>1, <1>2, <1>3 DEF StatusOf
<1>5. (\E x \in Workers : Busy(x) /\ worker[x].task.txn = t) =>
         \E x \in Workers : Busy(x)' /\ worker'[x].task.txn = t
  BY <1>1
<1> QED
  BY <1>4, <1>5 DEF StatusOf

\* StatusOf for a status just set.
LEMMA NewStatus ==
    ASSUME NEW t \in Txns, NEW name, NEW inc, NEW cv, NEW safe, SetsStatus(t, name, inc, cv, safe),
           cv # None => Executing(cv)' /\ worker'[cv].task.txn = t,
           name \in {"Executing", "Aborting"} \/ ~safe =>
              \E x \in Workers : Busy(x)' /\ worker'[x].task.txn = t,
           name = "Suspended" => cv # None,
           name \in {"Executed", "Aborting", "Committed", "Halted"} => cv = None,
           name \in {"Executed", "Aborting", "Committed"} => last_input_output'[t].ok
    PROVE  StatusOf(t)'
BY DEF SetsStatus, StatusOf

\* A transaction that is ready or executed is nobody's.
LEMMA NotBusy ==
    ASSUME TypeOK, ExecutionOK, NEW t \in Txns,
           \/ txn_status[t].name = "Executed"
           \/ txn_status[t].name = "Ready" /\ txn_status[t].cv = None
    PROVE  \A x \in Workers : Busy(x) => worker[x].task.txn # t
BY Constants DEF ExecutionOK, ExecutionOf, Busy

\* StatusOK is preserved.
LEMMA StatusStep ==
    ASSUME TypeOK, LocksOK, HaltOK, CommitsOK, StatusOK, ExecutionOK, DependenciesOK,
           NEW w \in Workers, Step(w), ~At(w, "error")'
    PROVE  StatusOK'
<1>a. (\A t \in Txns : StatusOf(t)) /\ OneBusy
  BY DEF StatusOK
<1>b. \A x \in Workers : x # w => /\ worker'[x] = worker[x]
                                  /\ Executing(x)' <=> Executing(x)
                                  /\ Busy(x)' <=> Busy(x)
  BY OtherRoles
<1>c. \A x \in Workers : worker[x].task.txn \in Txns
  BY PhaseFacts
<1>d. \A t \in Txns : txn_status[t] \in Statuses
  BY DEF TypeOK
<1>e. ~Record(w) => last_input_output' = last_input_output
  BY Changes
<1>m. PICK me \in Txns : me = worker[w].task.txn
  BY <1>c
<1>1. CASE TryIncarnate(w)
  <2>n. PICK n \in Txns : n = worker[w].num.idx
    BY <1>1, TryIncarnateStatus
  <2>1. ~Busy(w) /\ ~Record(w)
    BY <1>1, PhaseRoles DEF TryIncarnate, Record, At, NextPcs
  <2>2. \A t \in Txns : txn_status'[t] = txn_status[t] => StatusOf(t)'
    BY <1>a, <1>e, <2>1, StatusFrame DEF Busy
  <2>3. CASE txn_status[n].name = "Ready"
    <3>1. /\ n \in Txns
          /\ SetsStatus(n, "Executing", txn_status[n].inc, txn_status[n].cv, txn_status[n].safe)
      BY <1>1, <2>n, <2>3, TryIncarnateStatus
    <3>2. CASE txn_status[n].cv = None
      <4>1. Executing(w)' /\ worker'[w].task.txn = n /\ Busy(w)'
        BY <1>1, <2>n, <2>3, <3>2, TryIncarnateStatus, BackToLoop DEF Executing, Kind, Busy
      <4>2. \A x \in Workers : Busy(x) => worker[x].task.txn # n
        BY <2>3, <3>1, <3>2, NotBusy
      <4>3. OneBusy'
        BY <1>a, <1>b, <2>1, <4>1, <4>2 DEF OneBusy
      <4>4. StatusOf(n)'
        BY <3>1, <3>2, <4>1, NewStatus
      <4> QED
        BY <2>2, <3>1, <4>3, <4>4 DEF StatusOK, SetsStatus
    <3>3. CASE txn_status[n].cv # None
      <4>1. Kind(w)' = "Wakeup" /\ worker'[w].pc = "loop"
        BY <1>1, <2>n, <2>3, <3>3, TryIncarnateStatus, BackToLoop DEF Kind
      <4>2. ~Busy(w)'
        BY <4>1 DEF Executing, Busy, Aborting
      <4>3. OneBusy'
        BY <1>a, <1>b, <4>2 DEF OneBusy
      <4>4. PICK c \in Workers : c = txn_status[n].cv /\ Executing(c) /\ worker[c].task.txn = n
        BY <1>a, <1>d, <3>1, <3>3 DEF StatusOf, Statuses
      <4>5. Executing(c)' /\ worker'[c].task.txn = n /\ Busy(c)'
        BY <1>b, <2>1, <4>4 DEF Busy
      <4>6. StatusOf(n)'
        BY <3>1, <4>4, <4>5, NewStatus
      <4> QED
        BY <2>2, <3>1, <4>3, <4>6 DEF StatusOK, SetsStatus
    <3> QED
      BY <3>2, <3>3
  <2>4. CASE txn_status[n].name # "Ready"
    <3>1. txn_status' = txn_status
      BY <1>1, <2>n, <2>4, TryIncarnateStatus
    <3>2. ~Busy(w)'
      BY <1>1, <2>n, <2>1, <2>4, TryIncarnateStatus, BackToLoop, NoTaskFacts
           DEF Moves, Becomes, Busy,
         Executing, Aborting, Kind
    <3>3. OneBusy'
      BY <1>a, <1>b, <3>2 DEF OneBusy
    <3> QED
      BY <2>2, <3>1, <3>3 DEF StatusOK
  <2> QED
    BY <2>3, <2>4
<1>2. CASE FinishExecution(w)
  <2>1. Executing(w) /\ ~Record(w) /\ Busy(w) /\ ~Aborting(w)
    BY <1>2, PhaseRoles DEF FinishExecution, Record, At, ExecutionPcs, Busy, Aborting
  <2>2. ~Busy(w)' /\ ~Executing(w)'
    BY <1>2, FinishExecutionStatus DEF Becomes, Busy, Executing, Aborting, Kind
  <2>3. \A t \in Txns : t # me /\ txn_status'[t] = txn_status[t] => StatusOf(t)'
    BY <1>a, <1>e, <1>m, <2>1, StatusFrame
  <2>4. OneBusy'
    BY <1>a, <1>b, <2>2 DEF OneBusy
  <2>5. StatusOf(me)'
    <3>1. CASE txn_status[me].name = "Executing" /\
                   SetsStatus(me, "Executed", txn_status[me].inc, None, TRUE)
      <4>1. last_input_output[me].ok
        BY <1>2, <1>m, <3>1 DEF FinishExecution, ExecutionOK, ExecutionOf
      <4> QED
        BY <1>e, <2>1, <3>1, <4>1, NewStatus
    <3>2. CASE txn_status[me].name = "Halted" /\ SetsStatus(me, "Halted", txn_status[me].inc,
                   txn_status[me].cv, TRUE)
      <4>1. txn_status[me].cv = None
        BY <1>a, <3>2 DEF StatusOf
      <4> QED
        BY <3>2, <4>1, NewStatus
    <3> QED
      BY <1>2, <1>m, <3>1, <3>2, FinishExecutionStatus
  <2>6. \A t \in Txns : t # me => txn_status'[t] = txn_status[t]
    BY <1>2, <1>m, FinishExecutionStatus DEF SetsStatus
  <2> QED
    BY <2>3, <2>4, <2>5, <2>6 DEF StatusOK
<1>3. CASE TryAbort(w)
  <2>1. ~Busy(w) /\ ~Record(w)
    BY <1>3, PhaseRoles DEF TryAbort, Record, At, ValidationPcs, Busy, Aborting
  <2>2. \A t \in Txns : txn_status'[t] = txn_status[t] => StatusOf(t)'
    BY <1>a, <1>e, <2>1, StatusFrame DEF Busy
  <2>3. worker'[w].task = worker[w].task /\ worker'[w].ret = worker[w].ret
    BY <1>3, TryAbortEffect DEF Becomes
  <2>4. CASE may_abort(me, worker[w].task.inc)
    <3>1. /\ me \in Txns /\ txn_status[me].name = "Executed"
          /\ SetsStatus(me, "Aborting", txn_status[me].inc, None, TRUE)
      BY <1>3, <1>c, <1>m, <2>4, TryAbortStatus
    <3>2. Busy(w)'
      BY <1>3, <1>m, <2>4, TryAbortEffect DEF Becomes, Busy, Aborting
    <3>3. \A x \in Workers : Busy(x) => worker[x].task.txn # me
      BY <3>1, NotBusy
    <3>4. OneBusy'
      BY <1>a, <1>b, <1>m, <2>3, <3>2, <3>3 DEF OneBusy
    <3>5. last_input_output'[me].ok
      BY <1>a, <1>e, <2>1, <3>1 DEF StatusOf
    <3>6. StatusOf(me)'
      BY <1>m, <2>3, <3>1, <3>2, <3>5, NewStatus
    <3> QED
      BY <2>2, <3>1, <3>4, <3>6 DEF StatusOK, SetsStatus
  <2>5. CASE ~may_abort(me, worker[w].task.inc)
    <3>1. txn_status' = txn_status
      BY <1>3, <1>m, <2>5, TryAbortStatus
    <3>2. worker'[w].pc = "finish_validation"
      BY <1>3, <1>m, <2>5, TryAbortEffect DEF Becomes
    <3>3. ~Busy(w)'
      BY <2>1, <2>3, <3>2 DEF Busy, Executing, Aborting, Kind
    <3>4. OneBusy'
      BY <1>a, <1>b, <3>3 DEF OneBusy
    <3> QED
      BY <2>2, <3>1, <3>4 DEF StatusOK
  <2> QED
    BY <2>4, <2>5
<1>4. CASE FinishAbort(w)
  <2>1. Busy(w) /\ ~Record(w) /\ ~Executing(w) /\ Kind(w) = "Validation"
    BY <1>4, PhaseRoles DEF FinishAbort, Record, At, Busy, Aborting
  <2>2. ~Busy(w)' /\ ~Executing(w)'
    BY <1>4, <2>1, FinishAbortStatus DEF Becomes, Busy, Executing, Aborting, Kind
  <2>3. \A t \in Txns : t # me /\ txn_status'[t] = txn_status[t] => StatusOf(t)'
    BY <1>a, <1>e, <1>m, <2>1, StatusFrame
  <2>4. OneBusy'
    BY <1>a, <1>b, <2>2 DEF OneBusy
  <2>5. StatusOf(me)'
    <3>1. CASE SetsStatus(me, "Ready", txn_status[me].inc + 1, None, TRUE)
      BY <3>1, NewStatus
    <3>2. CASE txn_status[me].name = "Halted" /\ SetsStatus(me, "Halted", txn_status[me].inc,
                   txn_status[me].cv, TRUE)
      <4>1. txn_status[me].cv = None
        BY <1>a, <3>2 DEF StatusOf
      <4> QED
        BY <3>2, <4>1, NewStatus
    <3> QED
      BY <1>4, <1>m, <3>1, <3>2, FinishAbortStatus
  <2>6. \A t \in Txns : t # me => txn_status'[t] = txn_status[t]
    BY <1>4, <1>m, FinishAbortStatus DEF SetsStatus
  <2> QED
    BY <2>3, <2>4, <2>5, <2>6 DEF StatusOK
<1>5. ASSUME ~TryIncarnate(w), ~FinishExecution(w), ~TryAbort(w), ~FinishAbort(w)
      PROVE  StatusOK'
  <2>1. \A x \in Workers : /\ Executing(x)' <=> Executing(x)
                           /\ Busy(x)' <=> Busy(x)
                           /\ Busy(x) => worker'[x].task.txn = worker[x].task.txn
    BY <1>5, RolesOf DEF Busy
  <2>2. OneBusy'
    BY <1>a, <2>1 DEF OneBusy
  <2>3. \A t \in Txns : txn_status'[t] = txn_status[t] /\
            last_input_output'[t] = last_input_output[t]
           => StatusOf(t)'
    BY <1>a, <2>1, StatusFrame
  <2>s. \A t \in Txns : StatusOf(t)
    BY <1>a
  <2>p. \A t \in Txns : /\ \A c \in Workers : Executing(c) /\ worker[c].task.txn = t =>
                              Executing(c)' /\ worker'[c].task.txn = t
                        /\ (\E x \in Workers : Busy(x) /\ worker[x].task.txn = t) =>
                              (\E x \in Workers : Busy(x)' /\ worker'[x].task.txn = t)
    BY <2>1 DEF Busy
  <2>4. CASE TryCommit(w)
    <3>1. ~Record(w)
      BY <2>4 DEF TryCommit, Record, At
    <3>2. PICK c \in Txns : /\ txn_status[c].name = "Executed"
             /\ SetsStatus(c, "Committed", txn_status[c].inc, txn_status[c].cv, txn_status[c].safe)
      BY <2>4, TryCommitStatus
    <3>4. txn_status[c].cv = None /\ last_input_output'[c].ok
      BY <1>e, <2>s, <3>1, <3>2 DEF StatusOf
    <3>5. ~txn_status[c].safe => \E x \in Workers : Busy(x)' /\ worker'[x].task.txn = c
      BY <2>s, <2>p DEF StatusOf
    <3>3. StatusOf(c)'
      BY <3>2, <3>4, <3>5, NewStatus
    <3> QED
      BY <1>e, <2>2, <2>3, <3>1, <3>2, <3>3 DEF StatusOK, SetsStatus
  <2>5. CASE HaltTxn(w)
    <3>1. ~Record(w)
      BY <2>5 DEF HaltTxn, Record, At
    <3>2. worker[w].todo \subseteq Txns /\ worker[w].todo # {}
      BY <2>5 DEF HaltTxn, HaltOK
    <3>3. PICK t \in worker[w].todo :
             SetsStatus(t, "Halted", 0, None,
                        txn_status[t].cv # None \/
                            txn_status[t].name \notin {"Executing", "Aborting"})
      BY <2>5, <3>2, HaltTxnStatus
    <3>4. t \in Txns
      BY <3>2, <3>3
    <3>5. StatusOf(t)'
      <4>1. txn_status'[t].name = "Halted" /\ txn_status'[t].cv = None
        BY <3>3 DEF SetsStatus
      <4>2. ~txn_status'[t].safe => txn_status[t].name \in {"Executing", "Aborting"}
        BY <3>3 DEF SetsStatus
      <4>3. ~txn_status'[t].safe => \E x \in Workers : Busy(x)' /\ worker'[x].task.txn = t
        BY <2>s, <2>p, <3>4, <4>2 DEF StatusOf
      <4> QED
        BY <4>1, <4>3 DEF StatusOf
    <3> QED
      BY <1>e, <2>2, <2>3, <3>1, <3>3, <3>5 DEF StatusOK, SetsStatus
  <2>6. CASE Suspend(w)
    <3>1. ~Record(w) /\ Executing(w) /\ Busy(w)
      BY <2>6, PhaseRoles DEF Suspend, Record, At, ExecutionPcs, Busy
    <3>2. CASE txn_status' = txn_status
      BY <1>e, <2>2, <2>3, <3>1, <3>2 DEF StatusOK
    <3>3. CASE SetsStatus(me, "Suspended", txn_status[me].inc, w, TRUE)
      <4>1. StatusOf(me)'
        BY <1>m, <2>1, <3>1, <3>3, Constants, NewStatus
      <4> QED
        BY <1>e, <2>2, <2>3, <3>1, <3>3, <4>1 DEF StatusOK, SetsStatus
    <3> QED
      BY <1>m, <2>6, <3>2, <3>3, SuspendStatus
  <2>7. CASE Resume(w)
    <3>1. ~Record(w)
      BY <2>7 DEF Resume, Record, At
    <3>2. worker[w].todo \subseteq Txns
      BY <2>7 DEF Resume, DependenciesOK
    <3>3. PICK d \in worker[w].todo :
             \/ txn_status[d].name = "Suspended"
                /\ SetsStatus(d, "Ready", txn_status[d].inc, txn_status[d].cv, txn_status[d].safe)
             \/ txn_status' = txn_status
      BY <2>7, <3>2, ResumeStatus
    <3>4. CASE txn_status' = txn_status
      BY <1>e, <2>2, <2>3, <3>1, <3>4 DEF StatusOK
    <3>5. CASE SetsStatus(d, "Ready", txn_status[d].inc, txn_status[d].cv, txn_status[d].safe)
      <4>1. d \in Txns
        BY <3>2, <3>3
      <4>2. txn_status[d].cv \in Workers \cup {None}
        BY <1>d, <4>1 DEF Statuses
      <4>3. StatusOf(d)'
        BY <2>s, <2>p, <3>5, <4>1, <4>2 DEF StatusOf, SetsStatus
      <4> QED
        BY <1>e, <2>2, <2>3, <3>1, <3>5, <4>3 DEF StatusOK, SetsStatus
    <3> QED
      BY <3>3, <3>4, <3>5
  <2>8. CASE Record(w)
    <3>1. txn_status' = txn_status
      BY <2>8, Zenon DEF Record, statuses
    <3>2. \A t \in Txns : t # me => last_input_output'[t] = last_input_output[t]
      BY <1>m, <2>8 DEF Record, TypeOK
    <3>3. Executing(w) /\ At(w, "write")
      BY <2>8, PhaseRoles DEF Record, At, ExecutionPcs
    <3>4. txn_status[me].name \notin {"Executed", "Aborting", "Committed"}
      BY <1>m, <3>3 DEF ExecutionOK, ExecutionOf, At
    <3>5. txn_status[me].cv \in Workers \cup {None}
      BY <1>c, <1>d DEF Statuses
    <3>6. StatusOf(me)'
      BY <2>s, <2>p, <3>1, <3>4, <3>5 DEF StatusOf
    <3> QED
      BY <2>2, <2>3, <3>1, <3>2, <3>6 DEF StatusOK
  <2>9. CASE /\ ~TryCommit(w) /\ ~HaltTxn(w) /\ ~Suspend(w) /\ ~Resume(w) /\ ~Record(w)
    BY <1>5, <1>e, <2>2, <2>3, <2>9, Changes DEF StatusOK
  <2> QED
    BY <2>4, <2>5, <2>6, <2>7, <2>8, <2>9
<1> QED
  BY <1>1, <1>2, <1>3, <1>4, <1>5

-----------------------------------------------------------------------------
(* Executions.                                                             *)

Quiet(x) == ~Executing(x) /\ ~Aborting(x) /\ ~Finishing(x)

\* A worker whose role a step leaves alone.
KeepsRole(x) ==
    /\ Executing(x)' <=> Executing(x)
    /\ Aborting(x)' <=> Aborting(x)
    /\ Finishing(x)' <=> Finishing(x)
    /\ ~Quiet(x) => /\ worker'[x].task.txn = worker[x].task.txn
                    /\ worker'[x].task.inc = worker[x].task.inc
    /\ At(x, "waiting")' <=> At(x, "waiting")
    /\ At(x, "write")' <=> At(x, "write")
    /\ At(x, "write") => worker'[x].flag = worker[x].flag
    /\ At(x, "finish_execution")' <=> At(x, "finish_execution")

\* Where an execution can be.
LEMMA WhileExecuting ==
    ASSUME TypeOK, NEW x \in Workers
    PROVE  At(x, "waiting") \/ At(x, "write") \/ At(x, "finish_execution") => Executing(x)
BY PhaseRoles DEF At, ExecutionPcs

\* ExecutionOf has nothing to say of a worker that neither executes nor
\* aborts, ...
LEMMA QuietOK ==
    ASSUME TypeOK', NEW x \in Workers, Quiet(x)'
    PROVE  ExecutionOf(x)'
<1>1. (At(x, "waiting") \/ At(x, "write") \/ At(x, "finish_execution") => Executing(x))'
  BY WhileExecuting, PTL
<1> QED
  BY <1>1 DEF ExecutionOf, Quiet

\* ... nor of one whose transaction is halted.
LEMMA HaltedOK ==
    ASSUME NEW x \in Workers, txn_status'[worker'[x].task.txn].name = "Halted"
    PROVE  ExecutionOf(x)'
BY DEF ExecutionOf

\* The status a worker is about stays as it is, or is changed by the worker.
LEMMA KeepsExecution ==
    ASSUME TypeOK, TypeOK', LocksOK, HaltOK, CommitsOK, StatusOK, ExecutionOK, WakeupsOK,
           DependenciesOK,
           NEW w \in Workers, Step(w), ~At(w, "error")', NEW x \in Workers, KeepsRole(x),
           x = w => ~Suspend(w) /\ ~Record(w)
    PROVE  ExecutionOf(x)'
<1>a. PICK t \in Txns : t = worker[x].task.txn
  BY PhaseFacts
<1>b. ExecutionOf(x) /\ StatusOf(t) /\ OneBusy
  BY DEF ExecutionOK, StatusOK
<1>c. At(x, "waiting") \/ At(x, "write") \/ At(x, "finish_execution") => Executing(x)
  BY WhileExecuting
<1>q. CASE Quiet(x)
  <2>1. Quiet(x)'
    BY <1>q DEF Quiet, KeepsRole
  <2> QED
    BY <2>1, QuietOK
<1>r. ASSUME ~Quiet(x)
      PROVE  ExecutionOf(x)'
  <2>a. worker'[x].task.txn = t /\ worker'[x].task.inc = worker[x].task.inc
    BY <1>a, <1>r DEF KeepsRole
  <2>b. At(w, "resume") => worker[w].todo \in SUBSET Txns
    BY DEF DependenciesOK
  <2>1. CASE txn_status'[t].name = "Halted"
    BY <2>1, <2>a, HaltedOK
  <2>2. CASE txn_status'[t].name # "Halted"
    <3>1. txn_status[t].name # "Halted"
      <4>1. ~HaltTxn(w) => txn_status[t].name # "Halted"
        BY <2>b, <2>2, HaltedFrame DEF IsHalted
      <4>2. HaltTxn(w) => txn_status[t].name # "Halted"
        BY <2>2, HaltTxnStatus, ZenonT(40) DEF HaltOK, HaltTxn, SetsStatus
      <4> QED
        BY <4>1, <4>2
    \* nothing is changed
    <3>2. ASSUME txn_status'[t] = txn_status[t], cvar'[x] = cvar[x],
                 last_input_output'[t].ok = last_input_output[t].ok \/ ~At(x, "finish_execution")
          PROVE  ExecutionOf(x)'
      BY <1>a, <1>b, <2>a, <3>2 DEF ExecutionOf, KeepsRole
    <3>3. ~Record(w) => last_input_output'[t].ok = last_input_output[t].ok
      BY Changes
    <3>4. ~HaltTxn(w) /\ ~Wakeup(w) /\ ~Suspend(w) => cvar'[x] = cvar[x]
      BY Changes
    <3>5. CASE TryCommit(w) /\ t = commit_state.idx
      <4>1. txn_status[t].name = "Executed" /\ vlock[t] = None
        BY <3>5, TryCommitStatus
      <4>2. Quiet(x)
        BY <1>a, <1>b, <4>1, VlockFree DEF ExecutionOf, Quiet
      <4> QED
        BY <1>r, <4>2
    <3>6. CASE TryCommit(w) /\ t # commit_state.idx
      <4>1. txn_status'[t] = txn_status[t] /\ ~Record(w) /\ ~HaltTxn(w) /\ ~Wakeup(w) /\ ~Suspend(w)
        BY <3>6, TryCommitStatus DEF SetsStatus, TryCommit, Record, HaltTxn, Wakeup, Suspend, At
      <4> QED
        BY <3>2, <3>3, <3>4, <4>1
    <3>7. CASE HaltTxn(w)
      <4>0. worker[w].todo \subseteq Txns /\ worker[w].todo # {} /\ ~Record(w)
        BY <3>7 DEF HaltTxn, HaltOK, Record, At
      <4>1. PICK u \in Txns :
               /\ SetsStatus(u, "Halted", 0, None,
                    txn_status[u].cv # None \/ txn_status[u].name \notin {"Executing", "Aborting"})
               /\ IF txn_status[u].cv = None THEN cvar' = cvar
                  ELSE cvar' = [cvar EXCEPT ![txn_status[u].cv] = "Halted"]
        BY <3>7, <4>0, HaltTxnStatus
      <4>2. u # t
        BY <2>2, <4>1 DEF SetsStatus
      <4>3. txn_status'[t] = txn_status[t]
        BY <4>1, <4>2 DEF SetsStatus
      <4>4. StatusOf(u)
        BY DEF StatusOK
      <4>5. txn_status[u].cv # x
        BY <1>a, <4>2, <4>4, Constants DEF StatusOf
      <4>6. cvar'[x] = cvar[x]
        BY <4>1, <4>5 DEF TypeOK
      <4> QED
        BY <3>2, <3>3, <4>0, <4>3, <4>6
    <3>8. CASE TryIncarnate(w)
      <4>0. ~Record(w) /\ ~HaltTxn(w) /\ ~Wakeup(w) /\ ~Suspend(w)
        BY <3>8 DEF TryIncarnate, Record, HaltTxn, Wakeup, Suspend, At
      <4>1. CASE txn_status'[t] = txn_status[t]
        BY <3>2, <3>3, <3>4, <4>0, <4>1
      <4>2. CASE /\ txn_status[t].name = "Ready"
                 /\ SetsStatus(t, "Executing", txn_status[t].inc, txn_status[t].cv,
                        txn_status[t].safe)
        <5>1. /\ txn_status'[t].name = "Executing" /\ txn_status'[t].inc = txn_status[t].inc
              /\ txn_status'[t].cv = txn_status[t].cv
          BY <4>2 DEF SetsStatus
        <5>2. Executing(x) /\ At(x, "waiting") /\ txn_status[t].inc = worker[x].task.inc
              /\ txn_status[t].cv = x /\ cvar[x] # "Halted" /\ ~Aborting(x) /\ ~Finishing(x)
          BY <1>a, <1>b, <1>r, <4>2 DEF ExecutionOf, Quiet
        <5> QED
          BY <2>a, <3>4, <4>0, <5>1, <5>2 DEF ExecutionOf, KeepsRole, At
      <4> QED
        BY <3>8, <4>1, <4>2, TryIncarnateStatus DEF SetsStatus
    <3>9. CASE Suspend(w)
      <4>1. x # w /\ Busy(w)
        BY <3>9, PhaseRoles DEF Suspend, At, ExecutionPcs, Busy
      <4>2. CASE txn_status'[t] = txn_status[t] /\ cvar'[x] = cvar[x]
        <5>1. ~Record(w)
          BY <3>9 DEF Suspend, Record, At
        <5> QED
          BY <3>2, <3>3, <4>2, <5>1
      <4>3. CASE worker[w].task.txn = t /\ txn_status[t].name = "Executing"
        <5>1. ~Busy(x)
          BY <1>a, <1>b, <4>1, <4>3 DEF OneBusy
        <5>2. Quiet(x)
          BY <1>a, <1>b, <3>1, <4>3, <5>1 DEF ExecutionOf, Quiet, Busy
        <5> QED
          BY <1>r, <5>2
      <4>4. \/ txn_status'[t] = txn_status[t] /\ cvar'[x] = cvar[x]
            \/ worker[w].task.txn = t /\ txn_status[t].name = "Executing"
        <5>1. CASE txn_status' = txn_status /\ cvar' = cvar
          BY <5>1
        <5>2. CASE /\ txn_status[worker[w].task.txn].name = "Executing"
                   /\ SetsStatus(worker[w].task.txn, "Suspended",
                                 txn_status[worker[w].task.txn].inc, w, TRUE)
                   /\ cvar' = [cvar EXCEPT ![w] = "Unresolved"]
          BY <4>1, <5>2 DEF SetsStatus, TypeOK
        <5> QED
          BY <3>9, <5>1, <5>2, SuspendStatus
      <4> QED
        BY <4>2, <4>3, <4>4
    <3>10. CASE FinishExecution(w) \/ FinishAbort(w)
      <4>0. ~Record(w) /\ ~HaltTxn(w) /\ ~Wakeup(w) /\ ~Suspend(w)
        BY <3>10, ZenonT(40) DEF FinishExecution, FinishAbort, Record, HaltTxn, Wakeup, Suspend, At
      <4>1. Busy(w) /\ ~Finishing(w)
        BY <3>10, PhaseRoles DEF FinishExecution, FinishAbort, At, ExecutionPcs, Busy, Aborting
      <4>2. CASE worker[w].task.txn # t
        <5>1. txn_status'[t] = txn_status[t]
          BY <3>10, <4>2, FinishExecutionStatus, FinishAbortStatus DEF SetsStatus
        <5> QED
          BY <3>2, <3>3, <3>4, <4>0, <5>1
      <4>3. CASE worker[w].task.txn = t
        <5>1. vlock[t] = None
          BY <3>10, <4>3 DEF FinishExecution, FinishAbort
        <5>2. ~Finishing(x)
          BY <1>a, <5>1, VlockFree
        <5>3. Busy(x) => x = w
          BY <1>a, <1>b, <4>1, <4>3 DEF OneBusy
        <5>4. x = w => ~KeepsRole(x)
          BY <3>10, <4>1, PhaseRoles, FinishExecutionStatus, FinishAbortStatus, ZenonT(40)
               DEF KeepsRole, Becomes,
             Executing, Aborting, FinishExecution, FinishAbort, At, ExecutionPcs, Kind
        <5> QED
          BY <1>r, <5>2, <5>3, <5>4 DEF Quiet, Busy
      <4> QED
        BY <4>2, <4>3
    <3>11. CASE Resume(w)
      <4>0. ~Record(w) /\ ~HaltTxn(w) /\ ~Wakeup(w) /\ ~Suspend(w)
        BY <3>11 DEF Resume, Record, HaltTxn, Wakeup, Suspend, At
      <4>1. CASE txn_status'[t] = txn_status[t]
        BY <3>2, <3>3, <3>4, <4>0, <4>1
      <4>2. CASE /\ txn_status[t].name = "Suspended"
                 /\ SetsStatus(t, "Ready", txn_status[t].inc, txn_status[t].cv, txn_status[t].safe)
        <5>1. /\ txn_status'[t].name = "Ready" /\ txn_status'[t].inc = txn_status[t].inc
              /\ txn_status'[t].cv = txn_status[t].cv
          BY <4>2 DEF SetsStatus
        <5>2. Executing(x) /\ At(x, "waiting") /\ txn_status[t].inc = worker[x].task.inc
              /\ txn_status[t].cv = x /\ cvar[x] # "Halted" /\ cvar[x] # "Resolved"
              /\ ~Aborting(x) /\ ~Finishing(x)
          BY <1>a, <1>b, <1>r, <4>2 DEF ExecutionOf, Quiet
        <5> QED
          BY <2>a, <3>4, <4>0, <5>1, <5>2 DEF ExecutionOf, KeepsRole, At
      <4>3. At(w, "resume")
        BY <3>11 DEF Resume
      <4> QED
        BY <2>b, <3>11, <4>1, <4>2, <4>3, ResumeStatus DEF SetsStatus
    <3>12. CASE TryAbort(w)
      <4>0. ~Record(w) /\ ~HaltTxn(w) /\ ~Wakeup(w) /\ ~Suspend(w)
        BY <3>12 DEF TryAbort, Record, HaltTxn, Wakeup, Suspend, At
      <4>1. CASE txn_status'[t] = txn_status[t]
        BY <3>2, <3>3, <3>4, <4>0, <4>1
      <4>2. CASE /\ txn_status[t].name = "Executed"
                 /\ SetsStatus(t, "Aborting", txn_status[t].inc, None, TRUE)
        <5>1. txn_status'[t].name = "Aborting" /\ txn_status'[t].inc = txn_status[t].inc
          BY <4>2 DEF SetsStatus
        <5>2. Finishing(x) /\ ~Executing(x) /\ ~Aborting(x) /\
                  txn_status[t].inc = worker[x].task.inc
          BY <1>a, <1>b, <1>r, <4>2 DEF ExecutionOf, Quiet
        <5> QED
          BY <1>c, <2>a, <5>1, <5>2 DEF ExecutionOf, KeepsRole
      <4> QED
        BY <3>12, <4>1, <4>2, TryAbortStatus DEF SetsStatus
    <3>13. CASE Wakeup(w)
      <4>0. ~Record(w) /\ txn_status' = txn_status
        BY <3>13 DEF Wakeup, Record, At, statuses
      <4>1. CASE cvar'[x] = cvar[x]
        BY <3>2, <3>3, <4>0, <4>1
      <4>2. CASE cvar'[x] # cvar[x]
        <5>1. worker[w].task.cv = x /\ cvar'[x] = "Resolved"
          BY <3>13, <4>2 DEF Wakeup, TypeOK
        <5>2. Wakes(w)
          BY <3>13, PhaseFacts DEF Wakeup, Wakes, PhaseOK, At, LoopPcs, ExecutionPcs, ValidationPcs,
             NextPcs, HookPcs, FinishPcs, AbortPcs
        <5>3. At(x, "waiting") => txn_status[t].name = "Executing"
          BY <1>a, <1>c, <3>1, <5>1, <5>2 DEF WakeupsOK, WakeupOf, Woken, Ended, IsHalted, Retired,
               Executing, Finishing
        <5> QED
          BY <1>a, <1>b, <1>c, <2>a, <3>3, <4>0, <5>1, <5>3 DEF ExecutionOf, KeepsRole
      <4> QED
        BY <4>1, <4>2
    <3>14. CASE Record(w)
      <4>0. ~HaltTxn(w) /\ ~Wakeup(w) /\ ~Suspend(w) /\ txn_status' = txn_status
        BY <3>14 DEF Record, HaltTxn, Wakeup, Suspend, At, statuses
      <4>1. Busy(w) /\ x # w
        BY <3>14, PhaseRoles DEF Record, At, ExecutionPcs, Busy
      <4>2. CASE worker[w].task.txn = t
        <5>1. ~At(x, "finish_execution")
          BY <1>a, <1>b, <1>c, <4>1, <4>2 DEF OneBusy, Busy
        <5> QED
          BY <3>2, <3>4, <4>0, <5>1
      <4>3. CASE worker[w].task.txn # t
        <5>1. last_input_output'[t] = last_input_output[t]
          BY <3>14, <4>3 DEF Record, TypeOK
        <5> QED
          BY <3>2, <3>4, <4>0, <5>1
      <4> QED
        BY <4>2, <4>3
    <3>15. CASE /\ ~TryCommit(w) /\ ~HaltTxn(w) /\ ~TryIncarnate(w) /\ ~Suspend(w)
                /\ ~FinishExecution(w) /\ ~FinishAbort(w) /\ ~Resume(w) /\ ~TryAbort(w)
                /\ ~Wakeup(w) /\ ~Record(w)
      <4>1. txn_status' = txn_status
        BY <3>15, Changes
      <4> QED
        BY <3>2, <3>3, <3>4, <3>15, <4>1
    <3> QED
      BY <3>5, <3>6, <3>7, <3>8, <3>9, <3>10, <3>11, <3>12, <3>13, <3>14, <3>15
  <2> QED
    BY <2>1, <2>2
<1> QED
  BY <1>q, <1>r

\* A step of an execution that changes nothing its invariant is about but
\* where the worker is.
LEMMA ExecutionGoesOn ==
    ASSUME TypeOK, ExecutionOK, NEW w \in Workers, Executing(w), ~At(w, "waiting"),
           txn_status' = txn_status,
           worker'[w].task = worker[w].task, worker'[w].ret = worker[w].ret,
           worker[w].ret = "loop",
           worker'[w].pc \in {"read", "wait", "suspend", "write"},
           worker'[w].pc = "write" => (worker'[w].flag =>
              txn_status[worker[w].task.txn].name = "Halted")
    PROVE  ExecutionOf(w)'
<1>1. ExecutionOf(w)
  BY DEF ExecutionOK
<1> QED
  BY <1>1 DEF ExecutionOf, Executing, Aborting, Finishing, Kind, At

\* An execution that goes on.
LEMMA GoesFields ==
    ASSUME NEW w \in Workers, NEW reads, NEW failed, Goes(w, reads, failed)
    PROVE  /\ worker'[w].pc \in {"read", "write"}
           /\ worker'[w].pc = "read" => ~failed
           /\ worker'[w].task = worker[w].task /\ worker'[w].ret = worker[w].ret
           /\ worker'[w].reads = reads /\ worker'[w].num = worker[w].num
           /\ worker'[w].flag = failed
BY DEF Goes, Becomes

\* ExecutionOK is preserved: an execution has the status it was started with.
LEMMA ExecutionStep ==
    ASSUME TypeOK, TypeOK', LocksOK, HaltOK, CommitsOK, StatusOK, ExecutionOK, WakeupsOK,
           DependenciesOK,
           NEW w \in Workers, Step(w), ~At(w, "error")'
    PROVE  ExecutionOK'
<1> SUFFICES ASSUME NEW x \in Workers
             PROVE  ExecutionOf(x)'
  BY DEF ExecutionOK
<1>a. PICK t \in Txns : t = worker[w].task.txn
  BY PhaseFacts
<1>b. ExecutionOf(w)
  BY DEF ExecutionOK
<1>1. CASE x # w
  <2>1. KeepsRole(x)
    BY <1>1, OtherRoles DEF KeepsRole, At
  <2> QED
    BY <1>1, <2>1, KeepsExecution
<1>2. CASE x = w /\ KeepsRole(w) /\ ~Suspend(w) /\ ~Record(w)
  BY <1>2, KeepsExecution
<1>3. CASE TryIncarnate(w)
  <2>0. ~Executing(w) /\ ~Aborting(w) /\ ~Finishing(w)
    BY <1>3, PhaseRoles DEF TryIncarnate, At, NextPcs, Busy
  <2>1. PICK n \in Txns : n = worker[w].num.idx
    BY <1>3, TryIncarnateStatus
  <2>2. CASE txn_status[n].name = "Ready"
    <3>1. PICK tk \in Tasks : /\ tk.kind = IF txn_status[n].cv = None THEN "Execution" ELSE "Wakeup"
                              /\ tk.txn = n /\ tk.inc = txn_status[n].inc
                              /\ Restarts(w, tk)
      BY <1>3, <2>1, <2>2, TryIncarnateStatus
    <3>2. SetsStatus(n, "Executing", txn_status[n].inc, txn_status[n].cv, txn_status[n].safe)
      BY <1>3, <2>1, <2>2, TryIncarnateStatus
    <3>3. worker'[w].pc = "loop" /\ worker'[w].ret = "loop" /\ worker'[w].task = tk
      BY <3>1, BackToLoop
    <3> QED
      BY <1>1, <3>1, <3>2, <3>3 DEF SetsStatus, ExecutionOf, At, Executing, Aborting, Finishing,
           Kind
  <2>3. CASE txn_status[n].name # "Ready"
    <3>1. Restarts(w, NoTask("Retry")) \/ Moves(w, "next")
      BY <1>3, <2>1, <2>3, TryIncarnateStatus
    <3>2. CASE Restarts(w, NoTask("Retry"))
      <4>1. Quiet(w)'
        BY <3>2, BackToLoop, NoTaskFacts DEF Quiet, Executing, Aborting, Finishing, Kind, At
      <4> QED
        BY <1>1, <4>1, QuietOK
    <3>3. CASE Moves(w, "next")
      <4>1. Quiet(w)'
        BY <2>0, <3>3 DEF Moves, Becomes, Quiet, Executing, Aborting, Finishing, Kind, At
      <4> QED
        BY <1>1, <4>1, QuietOK
    <3> QED
      BY <3>1, <3>2, <3>3
  <2> QED
    BY <2>2, <2>3
<1>4. CASE StartTask(w)
  <2>0. At(w, "drain") /\ txn_status' = txn_status
    BY <1>4 DEF StartTask, shared, statuses
  <2>1. CASE Kind(w) = "Execution" /\ worker[w].ret = "loop"
    <3>1. Goes(w, EmptyFunction, FALSE)
      BY <1>4, <2>1, StartTaskEffect
    <3>2. Executing(w)
      BY <2>1 DEF Executing
    <3> QED
      BY <1>1, <2>0, <2>1, <3>1, <3>2, GoesFields, ExecutionGoesOn DEF At
  <2>2. CASE Kind(w) # "Execution"
    <3>1. ~Executing(w) /\ ~Aborting(w) /\ ~Finishing(w)
      BY <2>0, <2>2, PhaseRoles DEF Executing, Aborting, At, FinishPcs
    <3>2. Quiet(w)'
      BY <1>4, <2>2, <3>1, Roles, Zenon DEF Quiet, StartTask, TryIncarnate, FinishExecution, TryAbort,
         FinishAbort, FinishLoad, RequireWave, At
    <3> QED
      BY <1>1, <3>2, QuietOK
  <2> QED
    BY <2>0, <2>1, <2>2, PhaseFacts DEF PhaseOK, At, HookPcs, FinishPcs, AbortPcs, NextPcs,
         ExecutionPcs, ValidationPcs, LoopPcs
<1>5. CASE Read(w)
  <2>0. At(w, "read") /\ txn_status' = txn_status
    BY <1>5 DEF Read, shared, statuses
  <2>1. Executing(w) /\ worker[w].ret = "loop"
    BY <2>0, PhaseRoles DEF At, ExecutionPcs
  <2>2. /\ worker'[w].task = worker[w].task /\ worker'[w].ret = worker[w].ret
        /\ \/ worker'[w].pc = "wait"
           \/ worker'[w].pc \in {"read", "write"} /\ worker'[w].flag = FALSE
    BY <1>5, ReadEffect, GoesFields DEF Becomes
  <2> QED
    BY <1>1, <2>0, <2>1, <2>2, ExecutionGoesOn DEF At
<1>6. CASE Interrupt(w)
  <2>0. At(w, "read") /\ txn_status' = txn_status /\ has_halted
    BY <1>6 DEF Interrupt, shared, statuses
  <2>1. Executing(w) /\ worker[w].ret = "loop"
    BY <2>0, PhaseRoles DEF At, ExecutionPcs
  <2>2. commit_state.idx <= t
    BY <1>a, <2>1 DEF CommitsOK, Busy
  <2>3. Cut
    BY <2>0, <2>2, TxnFacts, Constants DEF Cut, HaltOK, TypeOK
  <2>4. txn_status[t].name = "Halted"
    BY <2>0, <2>3 DEF HaltOK, AllHalted, IsHalted
  <2>5. worker'[w].task = worker[w].task
    BY <1>6, InterruptEffect, GoesFields
  <2> QED
    BY <1>1, <1>a, <2>0, <2>4, <2>5, HaltedOK
<1>7. CASE WaitForDependency(w)
  <2>0. At(w, "wait") /\ txn_status' = txn_status
    BY <1>7 DEF WaitForDependency, statuses
  <2>1. Executing(w) /\ worker[w].ret = "loop"
    BY <2>0, PhaseRoles DEF At, ExecutionPcs
  <2>2. /\ worker'[w].task = worker[w].task /\ worker'[w].ret = worker[w].ret
        /\ worker'[w].pc \in {"read", "suspend"}
    BY <1>7, WaitForDependencyEffect DEF Moves, Becomes
  <2> QED
    BY <1>1, <2>0, <2>1, <2>2, ExecutionGoesOn DEF At
<1>8. CASE Suspend(w)
  <2>0. At(w, "suspend")
    BY <1>8 DEF Suspend
  <2>1. Executing(w) /\ worker[w].ret = "loop"
    BY <2>0, PhaseRoles DEF At, ExecutionPcs
  <2>2. CASE txn_status[t].name = "Halted"
    <3>1. txn_status' = txn_status /\ Goes(w, worker[w].reads, TRUE)
      BY <1>8, <1>a, <2>2, SuspendStatus
    <3> QED
      BY <1>1, <1>a, <2>2, <3>1, GoesFields, HaltedOK
  <2>3. CASE /\ txn_status[t].name = "Executing"
             /\ SetsStatus(t, "Suspended", txn_status[t].inc, w, TRUE)
             /\ cvar' = [cvar EXCEPT ![w] = "Unresolved"]
             /\ Moves(w, "waiting")
    <3>1. cvar'[w] = "Unresolved"
      BY <2>3 DEF TypeOK
    <3>2. txn_status[t].inc = worker[w].task.inc
      BY <1>a, <1>b, <2>0, <2>1, <2>3 DEF ExecutionOf
    <3>3. /\ txn_status'[t].name = "Suspended" /\ txn_status'[t].cv = w
          /\ txn_status'[t].inc = worker[w].task.inc
      BY <2>3, <3>2 DEF SetsStatus
    <3>4. /\ worker'[w].pc = "waiting" /\ worker'[w].task = worker[w].task
          /\ worker'[w].ret = "loop"
      BY <2>1, <2>3 DEF Moves, Becomes
    <3> QED
      BY <1>1, <1>a, <3>1, <3>3, <3>4 DEF ExecutionOf, At, Executing, Aborting, Finishing, Kind
  <2> QED
    BY <1>8, <1>a, <2>2, <2>3, SuspendStatus
<1>9. CASE Awake(w)
  <2>0. At(w, "waiting") /\ txn_status' = txn_status /\ cvar[w] # "Unresolved"
    BY <1>9 DEF Awake, shared, statuses
  <2>1. Executing(w) /\ worker[w].ret = "loop"
    BY <2>0, PhaseRoles DEF At, ExecutionPcs
  <2>2. CASE cvar[w] = "Halted"
    <3>1. txn_status[t].name = "Halted"
      BY <1>a, <1>b, <2>0, <2>2 DEF ExecutionOf
    <3>2. worker'[w].task = worker[w].task
      BY <1>9, <2>2, AwakeEffect, GoesFields
    <3> QED
      BY <1>1, <1>a, <2>0, <3>1, <3>2, HaltedOK
  <2>3. CASE cvar[w] # "Halted"
    <3>1. cvar[w] = "Resolved"
      BY <2>0, <2>3 DEF TypeOK
    <3>2. txn_status[t].name \in {"Executing", "Halted"}
      BY <1>a, <1>b, <2>0, <3>1 DEF ExecutionOf
    <3>3. /\ worker'[w].task = worker[w].task /\ worker'[w].ret = worker[w].ret
          /\ worker'[w].pc = "read"
      BY <1>9, <2>3, AwakeEffect DEF Moves, Becomes
    <3> QED
      BY <1>1, <1>a, <1>b, <2>0, <2>1, <3>2, <3>3 DEF ExecutionOf, At, Executing, Aborting,
         Finishing, Kind
  <2> QED
    BY <2>2, <2>3
<1>10. CASE Write(w)
  <2>0. At(w, "write") /\ txn_status' = txn_status
    BY <1>10 DEF Write, statuses
  <2>1. Executing(w) /\ worker[w].ret = "loop"
    BY <2>0, PhaseRoles DEF At, ExecutionPcs
  <2>2. /\ worker'[w].task = worker[w].task /\ worker'[w].ret = worker[w].ret
        /\ worker'[w].pc = "write" /\ worker'[w].flag = worker[w].flag
    BY <1>10, WriteEffect DEF Becomes, At
  <2>3. worker[w].flag => txn_status[worker[w].task.txn].name = "Halted"
    BY <1>b, <2>0 DEF ExecutionOf
  <2> QED
    BY <1>1, <2>0, <2>1, <2>2, <2>3, ExecutionGoesOn DEF At
<1>11. CASE Record(w)
  <2>0. At(w, "write") /\ txn_status' = txn_status
    BY <1>11 DEF Record, statuses
  <2>1. Executing(w) /\ worker[w].ret = "loop"
    BY <2>0, PhaseRoles DEF At, ExecutionPcs
  <2>2. /\ worker'[w].task = worker[w].task /\ worker'[w].ret = worker[w].ret
        /\ worker'[w].pc = "finish_execution"
    BY <1>11, RecordEffect DEF Becomes
  <2>3. worker[w].flag => txn_status[t].name = "Halted"
    BY <1>a, <1>b, <2>0 DEF ExecutionOf
  <2>4. last_input_output'[t].ok = ~worker[w].flag
    BY <1>11, <1>a, Zenon DEF Record, TypeOK
  <2>5. ~last_input_output'[t].ok => txn_status[t].name = "Halted"
    BY <2>3, <2>4, PhaseFacts, Zenon
  <2> QED
    BY <1>1, <1>a, <1>b, <2>0, <2>1, <2>2, <2>5 DEF ExecutionOf, At, Executing, Aborting,
       Finishing, Kind
<1>12. CASE FinishExecution(w)
  <2>1. /\ worker'[w].task = worker[w].task /\ worker'[w].ret = "finish_execution"
        /\ worker'[w].pc = "wake"
    BY <1>12, FinishExecutionStatus DEF Becomes
  <2>2. \/ txn_status'[t].name = "Executed" /\ txn_status'[t].inc = worker[w].task.inc
        \/ txn_status'[t].name = "Halted"
    BY <1>12, <1>a, FinishExecutionStatus DEF SetsStatus
  <2> QED
    BY <1>1, <1>a, <2>1, <2>2 DEF ExecutionOf, At, Executing, Aborting, Finishing, Kind
<1>13. CASE FinishLoad(w)
  <2>0. Finishing(w) /\ ~Executing(w) /\ ~Aborting(w) /\ At(w, "finish_load")
    BY <1>13, PhaseRoles DEF FinishLoad
  <2>1. CASE validation_idx.idx > worker[w].task.txn
    <3>1. /\ worker'[w].task.txn = worker[w].task.txn /\ worker'[w].task.inc = worker[w].task.inc
          /\ worker'[w].ret = worker[w].ret /\ worker'[w].pc \in {"decrease", "require_wave"}
      BY <1>13, <2>1, FinishLoadFacts DEF Becomes
    <3>2. KeepsRole(w)
      BY <2>0, <3>1 DEF KeepsRole, Executing, Aborting, Finishing, At
    <3>3. ~Suspend(w) /\ ~Record(w)
      BY <2>0 DEF Suspend, Record, At
    <3> QED
      BY <1>1, <1>2, <3>2, <3>3
  <2>2. CASE ~(validation_idx.idx > worker[w].task.txn)
    <3>1. Quiet(w)'
      BY <1>13, <2>2, FinishLoadFacts, BackToLoop, NoTaskFacts DEF Quiet, Executing, Aborting,
         Finishing, Kind, At
    <3> QED
      BY <1>1, <3>1, QuietOK
  <2> QED
    BY <2>1, <2>2
<1>14. CASE RequireWave(w)
  <2>1. Quiet(w)'
    BY <1>14, RequireWaveEffect, BackToLoop, TaskKinds DEF Quiet, Executing, Aborting,
       Finishing, Kind, At
  <2> QED
    BY <1>1, <2>1, QuietOK
<1>15. CASE TryAbort(w)
  <2>0. At(w, "abort") /\ Kind(w) = "Validation" /\ worker[w].ret = "loop"
    BY <1>15, PhaseRoles DEF TryAbort, At, ValidationPcs
  <2>1. /\ worker'[w].task = worker[w].task /\ worker'[w].ret = worker[w].ret
        /\ IF may_abort(t, worker[w].task.inc) THEN worker'[w].pc = "estimate"
           ELSE worker'[w].pc = "finish_validation"
    BY <1>15, <1>a, TryAbortEffect DEF Becomes
  <2>2. may_abort(t, worker[w].task.inc) =>
           txn_status'[t].name = "Aborting" /\ txn_status'[t].inc = worker[w].task.inc
    BY <1>15, <1>a, TryAbortStatus DEF SetsStatus
  <2> QED
    BY <1>1, <1>a, <2>0, <2>1, <2>2 DEF ExecutionOf, At, Executing, Aborting, Finishing, Kind
<1>16. CASE FinishAbort(w)
  <2>0. Kind(w) = "Validation"
    BY <1>16, PhaseRoles DEF FinishAbort, At, Aborting
  <2>1. Quiet(w)'
    BY <1>16, <2>0, FinishAbortStatus DEF Becomes, Quiet, Executing, Aborting,
       Finishing, Kind, At
  <2> QED
    BY <1>1, <2>1, QuietOK
<1>17. ASSUME ~TryIncarnate(w), ~StartTask(w), ~Read(w), ~Interrupt(w), ~WaitForDependency(w),
              ~Suspend(w), ~Awake(w), ~Write(w), ~Record(w), ~FinishExecution(w), ~FinishLoad(w),
              ~RequireWave(w), ~TryAbort(w), ~FinishAbort(w)
       PROVE  KeepsRole(w)
  BY <1>17, Roles, Phases DEF KeepsRole, Quiet
<1> QED
  BY <1>1, <1>2, <1>3, <1>4, <1>5, <1>6, <1>7, <1>8, <1>9, <1>10, <1>11, <1>12, <1>13, <1>14,
     <1>15, <1>16, <1>17

-----------------------------------------------------------------------------
(* Wakeups.                                                                *)

\* Halting is final.
LEMMA HaltedStays ==
    ASSUME TypeOK, HaltOK, DependenciesOK, NEW w \in Workers, Step(w), ~At(w, "error")'
    PROVE  /\ \A t \in Txns : IsHalted(t) => IsHalted(t)'
           /\ done_marker => done_marker'
<1>1. ASSUME NEW t \in Txns, IsHalted(t)
      PROVE  IsHalted(t)'
  <2>1. CASE HaltTxn(w)
    <3>1. worker[w].todo \subseteq Txns /\ worker[w].todo # {}
      BY <2>1 DEF HaltTxn, HaltOK
    <3> QED
      BY <1>1, <2>1, <3>1, HaltTxnStatus DEF SetsStatus, IsHalted
  <2>2. CASE ~HaltTxn(w)
    BY <1>1, <2>2, HaltedFrame DEF DependenciesOK
  <2> QED
    BY <2>1, <2>2
<1>2. done_marker => done_marker'
  BY Changes, TryCommitStatus DEF HaltStart
<1> QED
  BY <1>1, <1>2

\* A worker on its way out goes on.
LEMMA RetiredStays ==
    ASSUME TypeOK, HaltOK, DependenciesOK, NEW w \in Workers, Step(w), ~At(w, "error")',
           NEW c \in Workers, Retired(c)
    PROVE  Retired(c)'
<1>a. /\ \A t \in Txns : IsHalted(t) => IsHalted(t)'
      /\ done_marker'
  BY HaltedStays DEF Retired
<1>1. CASE c # w
  <2>1. worker'[c] = worker[c] /\ worker[c].task.txn \in Txns
    BY <1>1, OtherRoles, PhaseFacts
  <2> QED
    BY <1>a, <2>1 DEF Retired, Kind, Pending, IsHalted
<1>2. ASSUME c = w, Restarts(w, NoTask("Retry")) \/ Restarts(w, NoTask("Done"))
      PROVE  Retired(c)'
  BY <1>2, <1>a, BackToLoop, NoTaskFacts DEF Retired, Kind, Pending, LoopPcs
<1>3. ASSUME c = w, worker'[w].task = worker[w].task,
             \/ worker'[w].pc \in LoopPcs \/ worker'[w].ret = "hook"
             \/ worker'[w].pc \in {"next", "exit", "validate", "abort", "finish_validation", "arm"}
      PROVE  Retired(c)'
  <2>1. worker[c].task.txn \in Txns
    BY PhaseFacts
  <2> QED
    BY <1>3, <1>a, <2>1 DEF Retired, Kind, Pending, IsHalted
<1>4. CASE c = w
  <2>a. /\ worker[w].ret \in {"loop", "hook"}
        /\ worker[w].ret = "hook" => worker[w].pc \in HookPcs
        /\ worker[w].ret = "loop" => worker[w].pc \in LoopPcs \cup
              {"next", "exit", "validate", "abort", "finish_validation", "arm"}
        /\ Kind(w) \in {"Retry", "Done", "Validation"}
    BY <1>4, PhaseFacts DEF Retired, Pending, PhaseOK, LoopPcs, ExecutionPcs, ValidationPcs,
       NextPcs, HookPcs, FinishPcs, AbortPcs
  <2> USE DEF LoopPcs, HookPcs, At
  <2>1. CASE LockCommits(w) \/ SkipCommits(w) \/ TryCommitNothing(w) \/ TryCommitContended(w)
             \/ UnlockCommits(w) \/ HaltStart(w) \/ DrainCommitQueue(w)
    BY <1>3, <1>4, <2>1, LockCommitsEffect, SkipCommitsEffect, TryCommitNothingEffect,
       TryCommitContendedEffect, UnlockCommitsEffect, HaltStartEffect, DrainCommitQueueEffect
       DEF Moves, Becomes
  <2>2. CASE TryCommit(w) \/ AddToCommitQueue(w) \/ Halted(w)
    BY <1>3, <1>4, <2>2, TryCommitEffect, AddToCommitQueueEffect, HaltedEffect DEF Becomes
  <2>3. CASE HaltTxn(w)
    <3>1. worker[w].todo \subseteq Txns /\ worker[w].todo # {}
      BY <2>3 DEF HaltTxn, HaltOK
    <3>2. worker'[w].task = worker[w].task /\ worker'[w].pc \in {"halted", "halt_txn"}
      BY <2>3, <3>1, HaltTxnStatus DEF Becomes
    <3> QED
      BY <1>3, <1>4, <3>2
  <2>4. CASE PublishModules(w) \/ RecordValidationRequirements(w) \/ FetchMin(w)
    BY <1>3, <1>4, <2>a, <2>4, PublishModulesEffect, RecordValidationRequirementsEffect,
       FetchMinEffect DEF Moves, Becomes
  <2>5. CASE StartTask(w)
    BY <1>3, <1>4, <2>a, <2>5, StartTaskEffect DEF Moves, Becomes
  <2>6. CASE NextTask(w)
    BY <1>2, <1>4, <2>6, NextTaskEffect DEF Retired
  <2>7. CASE TakeDependencies(w)
    BY <1>3, <1>4, <2>a, <2>7, TakeDependenciesEffect DEF Becomes
  <2>8. CASE Resume(w)
    BY <1>3, <1>4, <2>a, <2>8, ResumeEffect DEF Becomes
  <2>9. CASE TriggerWave(w)
    BY <1>3, <1>4, <2>a, <2>9, TriggerWaveEffect DEF Moves, Becomes
  <2>10. CASE DecreaseValidationIdx(w)
    BY <1>3, <1>4, <2>a, <2>10, DecreaseFacts DEF Moves, Becomes
  <2>11. CASE Validate(w)
    BY <1>3, <1>4, <2>a, <2>11, ValidateEffect DEF Becomes
  <2>12. CASE TryAbort(w)
    <3>1. ~may_abort(worker[w].task.txn, worker[w].task.inc)
      <4>1. Kind(w) = "Validation"
        BY <2>12, PhaseRoles DEF TryAbort, ValidationPcs
      <4>2. IsHalted(worker[w].task.txn)
        BY <1>4, <4>1 DEF Retired
      <4> QED
        BY <4>2 DEF IsHalted, may_abort, Status
    <3> QED
      BY <1>3, <1>4, <2>12, <3>1, TryAbortEffect DEF Becomes
  <2>13. CASE FinishValidation(w)
    BY <1>2, <1>3, <1>4, <2>13, FinishValidationEffect DEF Moves, Becomes
  <2>14. CASE Arm(w)
    BY <1>2, <1>4, <2>14, ArmEffect
  <2>15. CASE Wakeup(w) \/ ClaimValidation(w) \/ StartValidation(w) \/ ClaimExecution(w)
              \/ TryIncarnate(w) \/ Read(w) \/ Interrupt(w) \/ WaitForDependency(w) \/ Suspend(w)
              \/ Awake(w) \/ Write(w) \/ Record(w) \/ FinishExecution(w) \/ FinishLoad(w)
              \/ RequireWave(w) \/ MarkEstimate(w) \/ FinishAbort(w) \/ AbortDone(w) \/ AbortLoad(w)
    <3>1. worker[w].pc \in {"wakeup", "next_validation", "next_executed", "next_execution",
             "next_incarnate", "read", "wait", "suspend", "waiting", "write", "finish_execution",
             "finish_load", "require_wave", "estimate", "abort_done", "abort_load"}
      BY <2>15, Zenon DEF Wakeup, ClaimValidation, StartValidation, ClaimExecution, TryIncarnate, Read,
         Interrupt, WaitForDependency, Suspend, Awake, Write, Record, FinishExecution, FinishLoad,
         RequireWave, MarkEstimate, FinishAbort, AbortDone, AbortLoad
    <3> QED
      BY <2>a, <3>1
  <2> QED
    BY <2>1, <2>2, <2>3, <2>4, <2>5, <2>6, <2>7, <2>8, <2>9, <2>10, <2>11, <2>12, <2>13, <2>14,
       <2>15 DEF Step
<1> QED
  BY <1>1, <1>4

\* So is the end of an execution whose transaction is halted.
LEMMA EndedStays ==
    ASSUME TypeOK, HaltOK, DependenciesOK, NEW w \in Workers, Step(w), ~At(w, "error")',
           NEW c \in Workers, NEW t \in Txns, Ended(c, t)
    PROVE  Ended(c, t)'
<1>a. IsHalted(t)' /\ done_marker'
  BY HaltedStays DEF Ended
<1>1. CASE Retired(c)
  BY <1>1, <1>a, RetiredStays DEF Ended
<1>2. CASE Executing(c) /\ worker[c].task.txn = t
  <2>1. CASE ~(c = w /\ FinishExecution(w))
    <3>1. ~(c = w /\ TryIncarnate(w))
      BY <1>2, PhaseRoles DEF TryIncarnate, At, NextPcs, Busy
    <3>2. Executing(c)' /\ worker'[c].task.txn = t
      BY <1>2, <2>1, <3>1, RolesOf
    <3> QED
      BY <1>a, <3>2 DEF Ended
  <2>2. CASE c = w /\ FinishExecution(w)
    <3>1. worker'[c].task.txn = t /\ worker'[c].ret = "finish_execution"
      BY <1>2, <2>2, FinishExecutionStatus DEF Becomes
    <3> QED
      BY <1>a, <3>1 DEF Ended, Finishing
  <2> QED
    BY <2>1, <2>2
<1>3. CASE Finishing(c) /\ worker[c].task.txn = t
  <2>1. CASE c = w /\ RequireWave(w)
    <3>1. /\ worker'[w].task.txn = t /\ worker'[w].task.kind = "Validation"
          /\ worker'[w].pc = "loop"
      <4>1. PICK tk : tk = ValidationTask(worker[w].task.txn, worker[w].task.inc,
                                          worker[w].task.wave)
        OBVIOUS
      <4>2. tk.txn = t /\ tk.kind = "Validation"
        BY <1>3, <2>1, <4>1 DEF ValidationTask
      <4>3. Restarts(w, tk)
        BY <2>1, <4>1, RequireWaveEffect
      <4> QED
        BY <4>2, <4>3, BackToLoop
    <3>2. Retired(c)'
      BY <1>a, <2>1, <3>1 DEF Retired, Kind, Pending, LoopPcs
    <3> QED
      BY <1>a, <3>2 DEF Ended
  <2>2. CASE c = w /\ FinishLoad(w)
    <3>1. CASE validation_idx.idx > worker[w].task.txn
      <4>1. worker'[c].task.txn = t /\ worker'[c].ret = worker[c].ret
        BY <1>3, <2>2, <3>1, FinishLoadFacts DEF Becomes
      <4> QED
        BY <1>3, <1>a, <4>1 DEF Ended, Finishing
    <3>2. CASE ~(validation_idx.idx > worker[w].task.txn)
      <4>1. Retired(c)'
        BY <1>a, <2>2, <3>2, FinishLoadFacts, BackToLoop, NoTaskFacts DEF Retired, Kind, Pending,
           LoopPcs
      <4> QED
        BY <1>a, <4>1 DEF Ended
    <3> QED
      BY <3>1, <3>2
  <2>3. CASE ~(c = w /\ (RequireWave(w) \/ FinishLoad(w)))
    <3>1. ~(c = w /\ FinishExecution(w))
      BY <1>3, PhaseRoles DEF FinishExecution, At, ExecutionPcs
    <3>2. Finishing(c)' /\ worker'[c].task.txn = t
      BY <1>3, <2>3, <3>1, RolesOf
    <3> QED
      BY <1>a, <3>2 DEF Ended
  <2> QED
    BY <2>1, <2>2, <2>3
<1> QED
  BY <1>1, <1>2, <1>3 DEF Ended

\* A suspended execution stays there until it is woken.
LEMMA WokenStep ==
    ASSUME TypeOK, HaltOK, DependenciesOK, StatusOK, ExecutionOK, WakeupsOK,
           NEW w \in Workers, Step(w), ~At(w, "error")',
           NEW c \in Workers, NEW t \in Txns, Woken(c, t),
           ~(Wakeup(w) /\ worker[w].task.cv = c)
    PROVE  Woken(c, t)' \/ Ended(c, t)'
<1>a. StatusOf(t) /\ OneBusy /\ Executing(c) /\ worker[c].task.txn = t
  BY WhileExecuting DEF StatusOK, Woken
<1>b. c # w
  <2>1. ~Awake(c)
    BY DEF Awake, Woken
  <2>2. CASE c = w
    <3>1. FALSE
      BY <1>a, <2>1, <2>2, Zenon DEF Woken, At, Step, LockCommits, SkipCommits, TryCommit,
           TryCommitNothing,
         TryCommitContended, UnlockCommits, PublishModules, RecordValidationRequirements,
         AddToCommitQueue, HaltStart, HaltTxn, Halted, DrainCommitQueue, StartTask, Wakeup,
             NextTask,
         ClaimValidation, StartValidation, ClaimExecution, TryIncarnate, Read, Interrupt,
         WaitForDependency, Suspend, Write, Record, FinishExecution, TakeDependencies,
         Resume, FetchMin, FinishLoad, RequireWave, TriggerWave, DecreaseValidationIdx, Validate,
         TryAbort, MarkEstimate, FinishAbort, AbortDone, AbortLoad, FinishValidation, Arm
    <3> QED
      BY <3>1
  <2> QED
    BY <2>2
<1>c. worker'[c] = worker[c] /\ Executing(c)'
  BY <1>a, <1>b, OtherRoles
<1>d. Busy(w) => worker[w].task.txn # t
  BY <1>a, <1>b DEF OneBusy, Busy
<1>1. CASE HaltTxn(w)
  <2>1. worker[w].todo \subseteq Txns /\ worker[w].todo # {} /\ Cut
    BY <1>1 DEF HaltTxn, HaltOK
  <2>2. PICK u \in Txns :
           /\ SetsStatus(u, "Halted", 0, None,
                txn_status[u].cv # None \/ txn_status[u].name \notin {"Executing", "Aborting"})
           /\ IF txn_status[u].cv = None THEN cvar' = cvar
              ELSE cvar' = [cvar EXCEPT ![txn_status[u].cv] = "Halted"]
    BY <1>1, <2>1, HaltTxnStatus
  <2>3. CASE u = t
    <3>1. IsHalted(t)' /\ done_marker'
      BY <2>1, <2>2, <2>3, HaltedStays DEF SetsStatus, IsHalted, Cut
    <3> QED
      BY <1>a, <1>c, <3>1 DEF Ended
  <2>4. CASE u # t
    <3>1. txn_status[u].cv # c
      BY <1>a, <2>4, Constants DEF StatusOK, StatusOf
    <3>2. cvar'[c] = cvar[c] /\ txn_status'[t] = txn_status[t]
      BY <2>2, <2>4, <3>1 DEF SetsStatus, TypeOK
    <3> QED
      BY <1>c, <3>2 DEF Woken, At
  <2> QED
    BY <2>3, <2>4
<1>2. CASE ~HaltTxn(w)
  <2>1. cvar'[c] = cvar[c]
    <3>1. CASE cvar' = cvar
      BY <3>1
    <3>2. CASE Wakeup(w)
      BY <3>2 DEF Wakeup, TypeOK
    <3>3. CASE Suspend(w)
      <4>1. cvar' = cvar \/ cvar' = [cvar EXCEPT ![w] = "Unresolved"]
        BY <3>3 DEF Suspend
      <4> QED
        BY <1>b, <4>1 DEF TypeOK
    <3> QED
      BY <1>2, <3>1, <3>2, <3>3, Changes
  <2>2. txn_status'[t] = txn_status[t]
    <3>1. CASE txn_status' = txn_status
      BY <3>1
    <3>2. CASE TryCommit(w)
      BY <3>2, TryCommitStatus DEF SetsStatus, Woken
    <3>3. CASE TryIncarnate(w)
      BY <3>3, TryIncarnateStatus DEF SetsStatus, Woken
    <3>4. CASE Suspend(w)
      <4>1. worker[w].task.txn # t
        BY <1>d, <3>4, PhaseRoles DEF Suspend, At, ExecutionPcs, Busy
      <4> QED
        BY <3>4, <4>1 DEF Suspend, TypeOK
    <3>5. CASE FinishExecution(w)
      <4>1. worker[w].task.txn # t
        BY <1>d, <3>5, PhaseRoles DEF FinishExecution, At, ExecutionPcs, Busy
      <4> QED
        BY <3>5, <4>1, FinishExecutionStatus DEF SetsStatus
    <3>6. CASE Resume(w)
      <4>1. worker[w].todo \in SUBSET Txns
        BY <3>6 DEF Resume, DependenciesOK
      <4> QED
        BY <3>6, <4>1, ResumeStatus DEF SetsStatus, Woken
    <3>7. CASE TryAbort(w)
      BY <3>7, TryAbortStatus DEF SetsStatus, Woken
    <3>8. CASE FinishAbort(w)
      BY <3>8, FinishAbortStatus DEF SetsStatus, Woken
    <3> QED
      BY <1>2, <3>1, <3>2, <3>3, <3>4, <3>5, <3>6, <3>7, <3>8, Changes
  <2> QED
    BY <1>c, <2>1, <2>2 DEF Woken, At
<1> QED
  BY <1>1, <1>2

\* WakeupsOK is preserved: every wakeup finds the execution it is for.
LEMMA WakeupsStep ==
    ASSUME TypeOK, HaltOK, DependenciesOK, StatusOK, ExecutionOK, WakeupsOK,
           NEW w \in Workers, Step(w), ~At(w, "error")'
    PROVE  WakeupsOK'
\* a wakeup that was there
<1>1. ASSUME NEW v \in Workers, Wakes(v), Wakes(v)',
             worker'[v].task = worker[v].task
      PROVE  WakeupOf(v)'
  <2>1. PICK c \in Workers : c = worker[v].task.cv
    BY <1>1 DEF WakeupsOK, WakeupOf
  <2>2. PICK t \in Txns : t = worker[v].task.txn
    BY PhaseFacts
  <2>3. Woken(c, t) \/ Ended(c, t)
    BY <1>1, <2>1, <2>2 DEF WakeupsOK, WakeupOf
  <2>4. Woken(c, t)' \/ Ended(c, t)'
    <3>1. CASE Ended(c, t)
      BY <3>1, EndedStays
    <3>2. CASE Woken(c, t)
      <4>1. ~(Wakeup(w) /\ worker[w].task.cv = c)
        <5> SUFFICES ASSUME Wakeup(w), worker[w].task.cv = c PROVE FALSE
          OBVIOUS
        <5>1. Wakes(w)
          BY PhaseFacts DEF Wakeup, Wakes, PhaseOK, At, LoopPcs, ExecutionPcs, ValidationPcs,
             NextPcs, HookPcs, FinishPcs, AbortPcs
        <5>2. v = w
          BY <1>1, <2>1, <2>2, <3>2, <5>1 DEF WakeupsOK, Woken, IsHalted
        <5>3. worker'[w].pc = "next" /\ worker'[w].ret = "loop"
          BY PhaseFacts, WakeupEffect DEF Moves, Becomes, PhaseOK, At, LoopPcs, ExecutionPcs,
             ValidationPcs, NextPcs, HookPcs, FinishPcs, AbortPcs
        <5> QED
          BY <1>1, <5>2, <5>3 DEF Wakes, Pending, LoopPcs, At
      <4> QED
        BY <3>2, <4>1, WokenStep
    <3> QED
      BY <2>3, <3>1, <3>2
  <2>5. worker'[v].task.cv = c /\ worker'[v].task.txn = t
    BY <1>1, <2>1, <2>2
  <2> QED
    BY <2>4, <2>5 DEF WakeupOf, Woken, Ended, Retired, Executing, Finishing, Pending, Kind, At,
         IsHalted
<1>2. \A t \in Txns : IsHalted(t) => IsHalted(t)'
  BY HaltedStays
<1>3. CASE ~TryIncarnate(w)
  <2>1. ASSUME NEW v \in Workers, Wakes(v)'
        PROVE  Wakes(v) /\ worker'[v].task = worker[v].task
    <3>1. CASE v = w /\ Wakeup(w)
      <4>3. worker'[w].pc = "next" /\ worker'[w].ret = "loop"
        BY <3>1, PhaseFacts, WakeupEffect DEF Moves, Becomes, PhaseOK, At, LoopPcs, ExecutionPcs,
           ValidationPcs, NextPcs, HookPcs, FinishPcs, AbortPcs
      <4> QED
        BY <2>1, <3>1, <4>3 DEF Wakes, Pending, LoopPcs, At
    <3>2. CASE ~(v = w /\ Wakeup(w))
      BY <1>3, <2>1, <3>2, PhasesOf
    <3> QED
      BY <3>1, <3>2
  <2>2. ASSUME NEW v \in Workers
        PROVE  WakeupOf(v)'
    BY <1>1, <2>1 DEF WakeupOf
  <2>3. ASSUME NEW v \in Workers, NEW x \in Workers, Wakes(v)', Wakes(x)',
               worker'[v].task.cv = worker'[x].task.cv
        PROVE  v = x \/ IsHalted(worker[v].task.txn)'
    <3>1. v = x \/ IsHalted(worker[v].task.txn)
      BY <2>1, <2>3 DEF WakeupsOK
    <3>2. PICK t \in Txns : t = worker[v].task.txn
      BY PhaseFacts
    <3>3. v = x \/ IsHalted(t)'
      BY <1>2, <3>1, <3>2
    <3> QED
      BY <2>1, <2>3, <3>2, <3>3 DEF IsHalted
  <2> QED
    BY <2>2, <2>3 DEF WakeupsOK
<1>4. CASE TryIncarnate(w)
  <2>0. ~Wakes(w) \/ Wakes(w)
    OBVIOUS
  <2>a. At(w, "next_incarnate")
    BY <1>4 DEF TryIncarnate
  <2>1. \A v \in Workers : v # w => worker'[v] = worker[v] /\ (Wakes(v)' <=> Wakes(v))
    BY OtherRoles DEF Wakes, Kind, Pending, At
  <2>2. PICK n \in Txns : n = worker[w].num.idx
    BY <1>4, TryIncarnateStatus
  <2>3. ~Wakes(w)
    BY <2>a, PhaseFacts DEF Wakes, Pending, PhaseOK, At, LoopPcs, ExecutionPcs, ValidationPcs,
       NextPcs, HookPcs, FinishPcs, AbortPcs
  <2>4. \A v \in Workers : v # w => WakeupOf(v)'
    BY <1>1, <2>1 DEF WakeupOf
  <2>5. CASE ~Wakes(w)'
    <3>1. ASSUME NEW v \in Workers, NEW x \in Workers, Wakes(v)', Wakes(x)',
                 worker'[v].task.cv = worker'[x].task.cv
          PROVE  v = x \/ IsHalted(worker[v].task.txn)'
      <4>0. v # w /\ x # w
        BY <2>5, <3>1
      <4>1. v = x \/ IsHalted(worker[v].task.txn)
        BY <2>1, <3>1, <4>0 DEF WakeupsOK
      <4>2. PICK t \in Txns : t = worker[v].task.txn
        BY PhaseFacts
      <4>3. v = x \/ IsHalted(t)'
        BY <1>2, <4>1, <4>2
      <4> QED
        BY <2>1, <4>0, <4>2, <4>3 DEF IsHalted
    <3>2. WakeupOf(w)'
      BY <2>5 DEF WakeupOf
    <3> QED
      BY <2>4, <3>1, <3>2 DEF WakeupsOK
  <2>6. CASE Wakes(w)'
    <3>1. txn_status[n].name = "Ready" /\ txn_status[n].cv # None
      <4>1. CASE txn_status[n].name # "Ready"
        <5>1. Restarts(w, NoTask("Retry")) \/ Moves(w, "next")
          BY <1>4, <2>2, <4>1, TryIncarnateStatus
        <5>2. CASE Restarts(w, NoTask("Retry"))
          BY <2>6, <5>2, BackToLoop, NoTaskFacts DEF Wakes, Kind
        <5>3. CASE Moves(w, "next")
          <6>1. worker'[w].pc = "next" /\ worker'[w].ret = worker[w].ret
            BY <5>3 DEF Moves, Becomes
          <6>2. worker[w].ret # "hook"
            BY <2>a, PhaseFacts DEF PhaseOK, At, HookPcs
          <6> QED
            BY <2>6, <6>1, <6>2 DEF Wakes, Pending, LoopPcs, At
        <5> QED
          BY <5>1, <5>2, <5>3
      <4>2. CASE txn_status[n].name = "Ready" /\ txn_status[n].cv = None
        <5>1. PICK tk \in Tasks : tk.kind = "Execution" /\ Restarts(w, tk)
          BY <1>4, <2>2, <4>2, TryIncarnateStatus
        <5> QED
          BY <2>6, <5>1, BackToLoop DEF Wakes, Kind
      <4> QED
        BY <4>1, <4>2
    <3>2. PICK c \in Workers : c = txn_status[n].cv
      BY <3>1 DEF TypeOK, Statuses
    <3>3. worker'[w].task.txn = n /\ worker'[w].task.cv = c
      BY <1>4, <2>2, <3>1, <3>2, TryIncarnateStatus, BackToLoop
    <3>4. Executing(c) /\ worker[c].task.txn = n
      BY <3>1, <3>2 DEF StatusOK, StatusOf
    <3>5. At(c, "waiting") /\ cvar[c] = "Unresolved"
      BY <3>1, <3>4 DEF ExecutionOK, ExecutionOf, TypeOK
    <3>6. c # w
      BY <2>a, <3>5, SMTT(30) DEF At
    <3>7. SetsStatus(n, "Executing", txn_status[n].inc, c, txn_status[n].safe) /\ cvar' = cvar
      BY <1>4, <2>2, <3>1, <3>2, TryIncarnateStatus DEF TryIncarnate
    <3>8. WakeupOf(w)'
      BY <2>1, <3>2, <3>3, <3>4, <3>5, <3>6, <3>7 DEF WakeupOf, Woken, At, SetsStatus
    <3>9. ASSUME NEW v \in Workers, v # w, Wakes(v)
          PROVE  worker[v].task.cv # c
      <4> SUFFICES ASSUME worker[v].task.cv = c PROVE FALSE
        OBVIOUS
      <4>1. Woken(c, worker[v].task.txn) \/ Ended(c, worker[v].task.txn)
        BY <3>9 DEF WakeupsOK, WakeupOf
      <4>2. ~Retired(c) /\ ~Finishing(c)
        BY <3>4 DEF Retired, Executing, Finishing
      <4> QED
        BY <3>1, <3>4, <4>1, <4>2 DEF Woken, Ended, IsHalted
    <3>10. ASSUME NEW v \in Workers, NEW x \in Workers, Wakes(v)', Wakes(x)',
                  worker'[v].task.cv = worker'[x].task.cv
           PROVE  v = x \/ IsHalted(worker[v].task.txn)'
      <4>1. CASE v = w \/ x = w
        BY <2>1, <3>3, <3>9, <3>10, <4>1
      <4>2. CASE v # w /\ x # w
        <5>1. v = x \/ IsHalted(worker[v].task.txn)
          BY <2>1, <3>10, <4>2 DEF WakeupsOK
        <5>2. PICK t \in Txns : t = worker[v].task.txn
          BY PhaseFacts
        <5>3. v = x \/ IsHalted(t)'
          BY <1>2, <5>1, <5>2
        <5> QED
          BY <2>1, <4>2, <5>2, <5>3 DEF IsHalted
      <4> QED
        BY <4>1, <4>2
    <3> QED
      BY <2>4, <3>8, <3>10 DEF WakeupsOK
  <2> QED
    BY <2>5, <2>6
<1> QED
  BY <1>3, <1>4

-----------------------------------------------------------------------------
(* Dependencies.                                                           *)

\* The transaction another worker is about stays the same.
LEMMA OtherTxn ==
    ASSUME TypeOK, LocksOK, NEW w \in Workers, Step(w), ~At(w, "error")', NEW x \in Workers, x # w
    PROVE  Txn(x)' = Txn(x)
<1>1. worker'[x] = worker[x]
  BY OtherRoles
<1>2. CASE worker[x].ret # "hook"
  BY <1>1, <1>2 DEF Txn
<1>3. CASE worker[x].ret = "hook"
  <2>1. ~TryCommit(w)
    BY <1>3, UniqueCoordinator DEF TryCommit, Coordinates, At, CommitPcs
  <2>2. commit_state'.idx = commit_state.idx
    BY <2>1, Changes DEF TryCommitNothing, TypeOK
  <2> QED
    BY <1>1, <1>3, <2>2 DEF Txn
<1> QED
  BY <1>2, <1>3

\* Whoever is about to take a list takes it.
LEMMA WillWakeStays ==
    ASSUME TypeOK, LocksOK, NEW w \in Workers, Step(w), ~At(w, "error")', NEW d \in Txns,
           WillWake(d), ~(TakeDependencies(w) /\ Txn(w) = d)
    PROVE  WillWake(d)'
<1>1. PICK x \in Workers : At(x, "wake") /\ Txn(x) = d
  BY DEF WillWake
<1>2. CASE x # w
  <2>1. At(x, "wake")' /\ Txn(x)' = d
    BY <1>1, <1>2, OtherTxn, OtherRoles DEF At
  <2> QED
    BY <2>1 DEF WillWake
<1>3. CASE x = w
  <2>1. ~TakeDependencies(w)
    BY <1>1, <1>3
  <2> QED
    BY <1>1, <1>3, <2>1, Zenon DEF At, Step, LockCommits, SkipCommits, TryCommit, TryCommitNothing,
         TryCommitContended, UnlockCommits, PublishModules, RecordValidationRequirements,
         AddToCommitQueue, HaltStart, HaltTxn, Halted, DrainCommitQueue, StartTask, Wakeup,
             NextTask,
         ClaimValidation, StartValidation, ClaimExecution, TryIncarnate, Read, Interrupt,
         WaitForDependency, Suspend, Awake, Write, Record, FinishExecution,
         Resume, FetchMin, FinishLoad, RequireWave, TriggerWave, DecreaseValidationIdx, Validate,
         TryAbort, MarkEstimate, FinishAbort, AbortDone, AbortLoad, FinishValidation, Arm
<1> QED
  BY <1>2, <1>3

\* How the name of a status changes.
LEMMA StatusNameStep ==
    ASSUME TypeOK, HaltOK, DependenciesOK, NEW w \in Workers, Step(w), ~At(w, "error")',
           NEW t \in Txns
    PROVE  LET old == txn_status[t].name
               new == txn_status'[t].name
           IN  \/ txn_status'[t] = txn_status[t]
               \/ TryCommit(w) /\ t = commit_state.idx /\ old = "Executed" /\ new = "Committed"
               \/ HaltTxn(w) /\ new = "Halted"
               \/ TryIncarnate(w) /\ t = worker[w].num.idx /\ old = "Ready" /\ new = "Executing"
               \/ Suspend(w) /\ worker[w].task.txn = t /\ old = "Executing" /\ new = "Suspended"
               \/ FinishExecution(w) /\ worker[w].task.txn = t /\ old = "Executing"
                     /\ new = "Executed"
               \/ (FinishExecution(w) \/ FinishAbort(w)) /\ worker[w].task.txn = t /\ old = "Halted"
                     /\ new = "Halted"
               \/ Resume(w) /\ t \in worker[w].todo /\ old = "Suspended" /\ new = "Ready"
               \/ TryAbort(w) /\ worker[w].task.txn = t /\ old = "Executed" /\ new = "Aborting"
               \/ FinishAbort(w) /\ worker[w].task.txn = t /\ old = "Aborting" /\ new = "Ready"
<1>1. CASE txn_status' = txn_status
  BY <1>1
<1>2. CASE TryCommit(w)
  BY <1>2, TryCommitStatus DEF SetsStatus
<1>3. CASE HaltTxn(w)
  <2>1. worker[w].todo \subseteq Txns /\ worker[w].todo # {}
    BY <1>3 DEF HaltTxn, HaltOK
  <2> QED
    BY <1>3, <2>1, HaltTxnStatus DEF SetsStatus
<1>4. CASE TryIncarnate(w)
  BY <1>4, TryIncarnateStatus DEF SetsStatus
<1>5. CASE Suspend(w)
  <2>1. CASE txn_status[worker[w].task.txn].name = "Executing"
    BY <1>5, <2>1, SuspendStatus, ZenonT(40) DEF SetsStatus
  <2>2. CASE txn_status[worker[w].task.txn].name # "Executing"
    <3>1. txn_status' = txn_status
      BY <1>5, <2>2 DEF Suspend
    <3> QED
      BY <3>1
  <2> QED
    BY <2>1, <2>2
<1>6. CASE FinishExecution(w)
  BY <1>6, FinishExecutionStatus DEF SetsStatus
<1>7. CASE Resume(w)
  <2>1. worker[w].todo \in SUBSET Txns
    BY <1>7 DEF Resume, DependenciesOK
  <2> QED
    BY <1>7, <2>1, ResumeStatus DEF SetsStatus
<1>8. CASE TryAbort(w)
  BY <1>8, TryAbortStatus DEF SetsStatus
<1>9. CASE FinishAbort(w)
  BY <1>9, FinishAbortStatus DEF SetsStatus
<1> QED
  BY <1>1, <1>2, <1>3, <1>4, <1>5, <1>6, <1>7, <1>8, <1>9, Changes

\* A list that is not taken keeps someone who will take it.
LEMMA HasWakerStays ==
    ASSUME TypeOK, LocksOK, HaltOK, DependenciesOK, NEW w \in Workers, Step(w), ~At(w, "error")',
           NEW d \in Txns, HasWaker(d), ~(TakeDependencies(w) /\ Txn(w) = d)
    PROVE  HasWaker(d)'
<1>1. CASE WillWake(d)
  BY <1>1, WillWakeStays DEF HasWaker
<1>2. CASE ~WillWake(d) /\ ~HasStatus(d, {"Executed", "Committed"})
  <2>1. CASE FinishExecution(w) /\ worker[w].task.txn = d
    <3>1. worker'[w].pc = "wake" /\ worker'[w].ret = "finish_execution" /\ worker'[w].task.txn = d
      BY <2>1, FinishExecutionStatus DEF Becomes
    <3>2. WillWake(d)'
      BY <3>1 DEF WillWake, At, Txn
    <3> QED
      BY <3>2 DEF HasWaker
  <2>2. CASE ~(FinishExecution(w) /\ worker[w].task.txn = d)
    <3>1. txn_status[d].name \notin {"Executed", "Committed"}
      BY <1>2 DEF HasStatus
    <3>2. txn_status'[d].name \notin {"Executed", "Committed"}
      BY <2>2, <3>1, StatusNameStep
    <3> QED
      BY <3>2 DEF HasWaker, HasStatus
  <2> QED
    BY <2>1, <2>2
<1> QED
  BY <1>1, <1>2 DEF HasWaker

\* The lists t is on stay the same.
LEMMA DependentFrame ==
    ASSUME NEW t \in Txns, DependentOf(t),
           \A d \in Txns : t \in txn_dependency'[d] <=> t \in txn_dependency[d],
           \A x \in Workers : ResumedBy(x, t)' <=> ResumedBy(x, t),
           \/ txn_status'[t].name = txn_status[t].name
           \/ txn_status'[t].name = "Halted"
           \/ /\ txn_status[t].name \notin {"Suspended", "Halted"}
              /\ txn_status'[t].name # "Suspended"
    PROVE  DependentOf(t)'
<1>1. CASE txn_status'[t].name = txn_status[t].name
  BY <1>1 DEF DependentOf, HasStatus
<1>2. CASE txn_status'[t].name = "Halted"
  BY <1>2 DEF DependentOf, HasStatus
<1>3. CASE /\ txn_status[t].name \notin {"Suspended", "Halted"}
           /\ txn_status'[t].name # "Suspended"
  BY <1>3 DEF DependentOf, HasStatus
<1> QED
  BY <1>1, <1>2, <1>3

\* A suspended transaction stays on exactly one list.
LEMMA DependentStep ==
    ASSUME TypeOK, LocksOK, HaltOK, DependenciesOK, NEW w \in Workers, Step(w), ~At(w, "error")',
           NEW t \in Txns
    PROVE  DependentOf(t)'
<1>a. DependentOf(t)
  BY DEF DependenciesOK
<1>b. \A x \in Workers : x # w => (ResumedBy(x, t)' <=> ResumedBy(x, t))
  BY OtherRoles DEF ResumedBy, At
<1>1. CASE Suspend(w) /\ txn_status[worker[w].task.txn].name = "Executing" /\ t = worker[w].task.txn
  <2>1. PICK dep \in Txns : dep = worker[w].num.idx
    BY <1>1, SuspendStatus
  <2>2. /\ txn_status'[t].name = "Suspended"
        /\ txn_dependency' = [txn_dependency EXCEPT ![dep] = @ \cup {t}]
        /\ worker'[w].pc = "waiting"
    BY <1>1, <2>1, SuspendStatus DEF SetsStatus, Moves, Becomes
  <2>3. /\ \A d \in Txns : t \notin txn_dependency[d]
        /\ \A x \in Workers : ~ResumedBy(x, t)
    BY <1>1, <1>a DEF DependentOf, HasStatus
  <2>4. \A d \in Txns : t \in txn_dependency'[d] <=> d = dep
    BY <2>2, <2>3 DEF TypeOK
  <2>5. \A x \in Workers : ~ResumedBy(x, t)'
    BY <1>b, <2>2, <2>3 DEF ResumedBy, At
  <2> QED
    BY <2>1, <2>2, <2>4, <2>5 DEF DependentOf, HasStatus
<1>2. CASE TakeDependencies(w)
  <2>1. PICK d0 \in Txns : d0 = Txn(w)
    BY TxnType
  <2>2. /\ txn_dependency' = [txn_dependency EXCEPT ![d0] = {}]
        /\ txn_status' = txn_status
        /\ At(w, "wake")
    BY <1>2, <2>1 DEF TakeDependencies, statuses
  <2>3. ResumedBy(w, t)' <=> t \in txn_dependency[d0]
    BY <1>2, <2>1, TakeDependenciesEffect DEF ResumedBy, Becomes, At, AfterWake
  <2>4. \A d \in Txns : t \in txn_dependency'[d] <=> t \in txn_dependency[d] /\ d # d0
    BY <2>2 DEF TypeOK
  <2>5. ~ResumedBy(w, t)
    BY <2>2 DEF ResumedBy, At
  <2>6. HasStatus(t, {"Suspended", "Halted"})' <=> HasStatus(t, {"Suspended", "Halted"})
    BY <2>2 DEF HasStatus
  <2>7. HasStatus(t, {"Suspended"})' <=> HasStatus(t, {"Suspended"})
    BY <2>2 DEF HasStatus
  <2> QED
    BY <1>a, <1>b, <2>3, <2>4, <2>5, <2>6, <2>7 DEF DependentOf
<1>3. CASE Resume(w)
  <2>0. At(w, "resume") /\ worker[w].todo \in SUBSET Txns /\ txn_dependency' = txn_dependency
    BY <1>3 DEF Resume, DependenciesOK
  <2>1. PICK d \in worker[w].todo :
              LET st == txn_status[d]
              IN  /\ \/ st.name = "Suspended" /\ SetsStatus(d, "Ready", st.inc, st.cv, st.safe)
                     \/ st.name = "Halted" /\ txn_status' = txn_status
                  /\ Becomes(w, IF worker[w].todo = {d} THEN "fetch_min" ELSE "resume",
                             worker[w].task, worker[w].ret, worker[w].reads,
                             worker[w].todo \ {d}, worker[w].num, worker[w].flag)
    BY <1>3, <2>0, ResumeStatus
  <2>2. CASE t = d
    <3>1. ResumedBy(w, t)
      BY <2>0, <2>1, <2>2 DEF ResumedBy
    <3>2. ~ResumedBy(w, t)'
      BY <2>1, <2>2 DEF ResumedBy, Becomes
    <3>3. txn_status'[t].name # "Suspended"
      BY <2>1, <2>2 DEF SetsStatus
    <3> QED
      BY <1>a, <1>b, <2>0, <3>1, <3>2, <3>3 DEF DependentOf, HasStatus
  <2>3. CASE t # d
    <3>1. ResumedBy(w, t)' <=> ResumedBy(w, t)
      BY <2>0, <2>1, <2>3 DEF ResumedBy, Becomes, At
    <3>2. txn_status'[t] = txn_status[t]
      BY <2>1, <2>3 DEF SetsStatus
    <3> QED
      BY <1>a, <1>b, <2>0, <3>1, <3>2, DependentFrame
  <2> QED
    BY <2>2, <2>3
<1>4. CASE /\ ~(Suspend(w) /\ txn_status[worker[w].task.txn].name = "Executing" /\
                  t = worker[w].task.txn)
           /\ ~TakeDependencies(w) /\ ~Resume(w)
  <2>1. \A d \in Txns : t \in txn_dependency'[d] <=> t \in txn_dependency[d]
    <3>1. CASE Suspend(w)
      <4>1. CASE txn_status[worker[w].task.txn].name = "Executing"
        <5>1. worker[w].task.txn # t
          BY <1>4, <3>1, <4>1
        <5>2. PICK dep \in Txns : dep = worker[w].num.idx
          BY <3>1, SuspendStatus
        <5>3. txn_dependency' = [txn_dependency EXCEPT ![dep] = @ \cup {worker[w].task.txn}]
          BY <3>1, <4>1, <5>2 DEF Suspend
        <5> QED
          BY <5>1, <5>3 DEF TypeOK
      <4>2. CASE txn_status[worker[w].task.txn].name # "Executing"
        <5>1. txn_dependency' = txn_dependency
          BY <3>1, <4>2 DEF Suspend
        <5> QED
          BY <5>1
      <4> QED
        BY <4>1, <4>2
    <3>2. CASE ~Suspend(w)
      BY <1>4, <3>2, Changes
    <3> QED
      BY <3>1, <3>2
  <2>2. ResumedBy(w, t)' <=> ResumedBy(w, t)
    BY <1>4, Phases DEF ResumedBy
  <2>3. \/ txn_status'[t].name = txn_status[t].name
        \/ txn_status'[t].name = "Halted"
        \/ /\ txn_status[t].name \notin {"Suspended", "Halted"}
           /\ txn_status'[t].name # "Suspended"
    BY <1>4, StatusNameStep
  <2> QED
    BY <1>a, <1>b, <2>1, <2>2, <2>3, DependentFrame
<1> QED
  BY <1>1, <1>2, <1>3, <1>4

\* DependenciesOK is preserved.
LEMMA DependenciesStep ==
    ASSUME TypeOK, LocksOK, HaltOK, DependenciesOK, NEW w \in Workers, Step(w), ~At(w, "error")'
    PROVE  DependenciesOK'
<1>1. \A t \in Txns : DependentOf(t)'
  BY DependentStep
<1>2. ASSUME NEW d \in Txns, txn_dependency'[d] # {}
      PROVE  HasWaker(d)'
  <2>1. ~(TakeDependencies(w) /\ Txn(w) = d)
    BY <1>2 DEF TakeDependencies, TypeOK
  <2>2. CASE txn_dependency[d] # {}
    BY <2>1, <2>2, HasWakerStays DEF DependenciesOK
  <2>3. CASE txn_dependency[d] = {}
    <3>1. Suspend(w) /\ d = worker[w].num.idx
      <4>1. CASE Suspend(w)
        BY <1>2, <2>3, <4>1 DEF Suspend, TypeOK
      <4>2. CASE TakeDependencies(w)
        BY <1>2, <2>3, <4>2 DEF TakeDependencies, TypeOK
      <4> QED
        BY <1>2, <2>3, <4>1, <4>2, Changes
    <3>2. HasWaker(d)
      BY <3>1 DEF DependenciesOK, Suspend
    <3> QED
      BY <2>1, <3>2, HasWakerStays
  <2> QED
    BY <2>2, <2>3
<1>3. ASSUME NEW x \in Workers, At(x, "suspend")'
      PROVE  HasWaker(worker[x].num.idx)'
  <2>1. CASE At(x, "suspend") /\ worker'[x].num = worker[x].num
    <3>1. PICK d \in Txns : d = worker[x].num.idx
      BY <2>1 DEF At, TypeOK, WorkerOK, FieldsOK
    <3>2. dlock[d] # None
      BY <2>1, <3>1, Constants DEF LocksOK
    <3>3. ~(TakeDependencies(w) /\ Txn(w) = d)
      BY <3>2 DEF TakeDependencies
    <3>4. HasWaker(d)
      BY <2>1, <3>1 DEF DependenciesOK
    <3>5. HasWaker(d)'
      BY <3>3, <3>4, HasWakerStays
    <3> QED
      BY <2>1, <3>1, <3>5 DEF HasWaker, HasStatus, WillWake
  <2>2. CASE x = w /\ WaitForDependency(w)
    <3>1. PICK d \in Txns : d = worker[x].num.idx
      BY <2>2 DEF WaitForDependency, At, TypeOK, WorkerOK, FieldsOK
    <3>2. ~is_executed(d, TRUE) /\ worker'[x].num = worker[x].num
      BY <1>3, <2>2, <3>1, WaitForDependencyEffect DEF Moves, Becomes, At
    <3>3. txn_status'[d].name \notin {"Executed", "Committed"}
      BY <2>2, <3>2 DEF WaitForDependency, statuses, is_executed
    <3> QED
      BY <3>1, <3>2, <3>3 DEF HasWaker, HasStatus
  <2>3. CASE x = w /\ Suspend(w)
    BY <1>3, <2>3, SuspendEffect DEF Moves, Becomes, Goes, At
  <2> QED
    BY <1>3, <2>1, <2>2, <2>3, PhasesOf
<1>4. ASSUME NEW x \in Workers, At(x, "resume")'
      PROVE  (worker[x].todo \subseteq Txns /\ worker[x].todo # {})'
  <2>1. CASE At(x, "resume") /\ worker'[x].todo = worker[x].todo
    BY <2>1 DEF DependenciesOK
  <2>2. CASE x = w /\ TakeDependencies(w)
    <3>1. Txn(w) \in Txns
      BY TxnType
    <3> QED
      BY <1>4, <2>2, <3>1, TakeDependenciesEffect, ZenonT(40) DEF Becomes, At, AfterWake, TypeOK
  <2>3. CASE x = w /\ Resume(w)
    <3>0. worker[w].todo \in SUBSET Txns
      BY <2>3 DEF Resume, DependenciesOK
    <3>1. PICK d \in worker[w].todo :
             /\ worker'[w].pc = IF worker[w].todo = {d} THEN "fetch_min" ELSE "resume"
             /\ worker'[w].todo = worker[w].todo \ {d}
      BY <2>3, <3>0, ResumeStatus DEF Becomes
    <3>2. worker[w].todo # {d}
      BY <1>4, <2>3, <3>1 DEF At
    <3> QED
      BY <2>3, <3>0, <3>1, <3>2
  <2> QED
    BY <1>4, <2>1, <2>2, <2>3, PhasesOf
<1> QED
  BY <1>1, <1>2, <1>3, <1>4 DEF DependenciesOK

-----------------------------------------------------------------------------
(* The commit queue.                                                       *)

\* The queue holds the last committed transactions, in order.
LEMMA AppendNext ==
    ASSUME NEW q \in Seq(Nat), NEW n \in Nat, Len(q) <= n,
           \A i \in 1 .. Len(q) : q[i] = n - Len(q) + i - 1
    PROVE  /\ Append(q, n) \in Seq(Nat)
           /\ Len(Append(q, n)) = Len(q) + 1
           /\ \A i \in 1 .. Len(q) + 1 : Append(q, n)[i] = n + 1 - (Len(q) + 1) + i - 1
OBVIOUS

\* The queue without its head.
LEMMA TailNext ==
    ASSUME NEW q \in Seq(Nat), NEW n \in Nat, Len(q) <= n, q # <<>>,
           \A i \in 1 .. Len(q) : q[i] = n - Len(q) + i - 1
    PROVE  /\ Tail(q) \in Seq(Nat)
           /\ Len(q) > 0 /\ Len(q) \in Nat
           /\ Len(Tail(q)) = Len(q) - 1
           /\ Head(q) = n - Len(q)
           /\ \A i \in 1 .. Len(q) - 1 : Tail(q)[i] = n - (Len(q) - 1) + i - 1
<1>1. Len(q) > 0 /\ Len(q) \in Nat
  OBVIOUS
<1>2. Head(q) = q[1]
  OBVIOUS
<1>3. Head(q) = n - Len(q)
  BY <1>1, <1>2
<1>4. \A i \in 1 .. Len(q) - 1 : Tail(q)[i] = q[i + 1]
  OBVIOUS
<1>5. \A i \in 1 .. Len(q) - 1 : q[i + 1] = n - Len(q) + (i + 1) - 1
  BY <1>1
<1>6. \A i \in 1 .. Len(q) - 1 : Tail(q)[i] = n - (Len(q) - 1) + i - 1
  BY <1>1, <1>4, <1>5
<1> QED
  BY <1>1, <1>3, <1>6

\* How many transactions have been queued.
LEMMA QueuedType ==
    ASSUME TypeOK
    PROVE  Queued \in Nat
BY Constants DEF Queued, TypeOK, WorkerOK

\* Only a commit and the end of its hook change what is to be queued.
LEMMA QueuedStep ==
    ASSUME TypeOK, LocksOK, NEW w \in Workers, Step(w), ~At(w, "error")'
    PROVE  IF AddToCommitQueue(w) THEN Txn(w) = Queued /\ Queued' = Queued + 1
           ELSE Queued' = Queued
<1>a. commit_state.idx \in Nat
  BY Constants DEF TypeOK
<1>b. ~TryCommit(w) => commit_state'.idx = commit_state.idx
  BY Changes DEF TryCommitNothing, TypeOK
<1>1. CASE TryCommit(w)
  <2>1. \A x \in Workers : worker[x].ret # "hook"
    <3>1. At(w, "try_commit") /\ Coordinates(w)
      BY <1>1 DEF TryCommit, Coordinates, At, CommitPcs
    <3>2. worker[w].ret # "hook"
      BY <3>1, PhaseFacts DEF PhaseOK, At, HookPcs
    <3> QED
      BY <3>1, <3>2, UniqueCoordinator DEF Coordinates
  <2>2. worker'[w].ret = "hook"
    BY <1>1, TryCommitEffect DEF Becomes
  <2>3. commit_state'.idx = commit_state.idx + 1 /\ ~AddToCommitQueue(w)
    BY <1>1, TryCommitStatus DEF TryCommit, AddToCommitQueue, At
  <2> QED
    BY <1>a, <2>1, <2>2, <2>3 DEF Queued
<1>2. CASE AddToCommitQueue(w)
  <2>0. worker[w].ret = "hook"
    BY <1>2, PhaseFacts DEF AddToCommitQueue, PhaseOK, At, LoopPcs, ExecutionPcs, ValidationPcs,
       NextPcs, FinishPcs, AbortPcs
  <2>1. \A x \in Workers : x # w => worker[x].ret # "hook"
    BY <2>0, UniqueCoordinator DEF Coordinates
  <2>2. \A x \in Workers : worker'[x].ret # "hook"
    BY <1>2, <2>1, AddToCommitQueueEffect, OtherRoles DEF Becomes
  <2>3. ~TryCommit(w)
    BY <1>2 DEF TryCommit, AddToCommitQueue, At
  <2> QED
    BY <1>2, <1>a, <1>b, <2>0, <2>2, <2>3 DEF Queued, Txn
<1>3. CASE ~TryCommit(w) /\ ~AddToCommitQueue(w)
  <2>1. \A x \in Workers : worker'[x].ret = "hook" <=> worker[x].ret = "hook"
    BY <1>3, RolesOf
  <2> QED
    BY <1>3, <1>b, <2>1 DEF Queued
<1> QED
  BY <1>1, <1>2, <1>3 DEF TryCommit, AddToCommitQueue, At

\* QueueOK is preserved: the queue is the gap between the results and the
\* commits.
LEMMA QueueStep ==
    ASSUME TypeOK, LocksOK, QueueOK, NEW w \in Workers, Step(w), ~At(w, "error")'
    PROVE  QueueOK'
<1>a. /\ Queued \in Nat /\ commit_queue \in Seq(Nat) /\ Len(commit_queue) <= Queued
      /\ \A i \in 1 .. Len(commit_queue) : commit_queue[i] = Queued - Len(commit_queue) + i - 1
      /\ Len(commit_queue) \in Nat
  BY QueuedType DEF QueueOK
<1>b. block_result' = block_result
  BY Changes
<1>c. AllExited' => StartTask(w)
  <2>1. AllExited' /\ ~StartTask(w) => At(w, "exit")
    BY Roles DEF AllExited
  <2> QED
    BY <2>1, Zenon DEF At, Step, LockCommits, SkipCommits, TryCommit, TryCommitNothing,
         TryCommitContended, UnlockCommits, PublishModules, RecordValidationRequirements,
         AddToCommitQueue, HaltStart, HaltTxn, Halted, DrainCommitQueue, Wakeup, NextTask,
         ClaimValidation, StartValidation, ClaimExecution, TryIncarnate, Read, Interrupt,
         WaitForDependency, Suspend, Awake, Write, Record, FinishExecution, TakeDependencies,
         Resume, FetchMin, FinishLoad, RequireWave, TriggerWave, DecreaseValidationIdx, Validate,
         TryAbort, MarkEstimate, FinishAbort, AbortDone, AbortLoad, FinishValidation, Arm
<1>1. CASE AddToCommitQueue(w)
  <2>1. commit_queue' = Append(commit_queue, Queued) /\ Queued' = Queued + 1
        /\ final_results' = final_results /\ ~StartTask(w)
    BY <1>1, QueuedStep DEF AddToCommitQueue, StartTask, At
  <2>2. PICK q : q = Append(commit_queue, Queued)
    OBVIOUS
  <2>3. /\ q \in Seq(Nat)
        /\ Len(q) = Len(commit_queue) + 1
        /\ \A i \in 1 .. Len(commit_queue) + 1 :
              q[i] = Queued + 1 - (Len(commit_queue) + 1) + i - 1
    BY <1>a, <2>2, AppendNext
  <2>4. Queued' - Len(q) = Queued - Len(commit_queue) /\ Len(q) <= Queued'
    BY <1>a, <2>1, <2>3
  <2>5. commit_queue' = q
    BY <2>1, <2>2
  <2>6. \A i \in 1 .. Len(q) : q[i] = Queued' - Len(q) + i - 1
    BY <1>a, <2>1, <2>3
  <2> QED
    BY <1>b, <1>c, <2>1, <2>3, <2>4, <2>5, <2>6 DEF QueueOK
<1>2. CASE DrainCommitQueue(w)
  <2>0. commit_queue # <<>> /\ commit_queue' = Tail(commit_queue)
        /\ final_results' = final_results \cup {Head(commit_queue)}
        /\ ~StartTask(w) /\ ~AddToCommitQueue(w)
    BY <1>2 DEF DrainCommitQueue, StartTask, AddToCommitQueue, At
  <2>1. Queued' = Queued
    BY <2>0, QueuedStep
  <2>2. PICK q : q = Tail(commit_queue)
    OBVIOUS
  <2>3. /\ q \in Seq(Nat)
        /\ Len(commit_queue) > 0
        /\ Len(q) = Len(commit_queue) - 1
        /\ Head(commit_queue) = Queued - Len(commit_queue)
        /\ \A i \in 1 .. Len(commit_queue) - 1 :
              q[i] = Queued - (Len(commit_queue) - 1) + i - 1
    BY <1>a, <2>0, <2>2, TailNext
  <2>4. Len(q) <= Queued' /\ \A i \in 1 .. Len(q) : q[i] = Queued' - Len(q) + i - 1
    BY <1>a, <2>1, <2>3
  <2>5. commit_queue' = q
    BY <2>0, <2>2
  <2>6. block_result = "running" => final_results' = 0 .. Queued' - Len(q) - 1
    <3>0. \A a, b \in Nat : b <= a => a - b \in Nat
      OBVIOUS
    <3>1. PICK n \in Nat : n = Queued - Len(commit_queue)
      BY <1>a, <3>0
    <3>2. Queued' - Len(q) - 1 = n
      <4>1. \A a, b \in Nat : a - (b - 1) - 1 = a - b
        OBVIOUS
      <4>2. Queued - (Len(commit_queue) - 1) - 1 = Queued - Len(commit_queue)
        BY <1>a, <4>1, Zenon
      <4> QED
        BY <2>1, <2>3, <3>1, <4>2, Zenon
    <3>3. block_result = "running" => final_results = 0 .. n - 1
      BY <3>1 DEF QueueOK
    <3>4. (0 .. n - 1) \cup {n} = 0 .. n
      BY <3>1
    <3> QED
      BY <2>0, <2>3, <3>1, <3>2, <3>3, <3>4
  <2> QED
    BY <1>b, <1>c, <2>0, <2>3, <2>4, <2>5, <2>6 DEF QueueOK
<1>3. CASE ~AddToCommitQueue(w) /\ ~DrainCommitQueue(w)
  <2>1. commit_queue' = commit_queue /\ final_results' = final_results /\ Queued' = Queued
    BY <1>3, Changes, QueuedStep
  <2>2. AllExited' => commit_queue = <<>>
    BY <1>c DEF StartTask
  <2> QED
    BY <1>b, <2>1, <2>2 DEF QueueOK
<1> QED
  BY <1>1, <1>2, <1>3

-----------------------------------------------------------------------------
(* Waves.                                                                  *)

\* Indices and waves are numbers.
LEMMA WaveTypes ==
    ASSUME TypeOK
    PROVE  /\ \A t \in Txns : /\ validation_status[t].triggered \in Nat
                              /\ validation_status[t].validated \in Int
           /\ commit_state.idx \in Nat /\ commit_state.wave \in Nat
           /\ commit_state.idx <= num_txns
           /\ validation_idx.idx \in Nat /\ validation_idx.wave \in Nat
           /\ \A x \in Workers : worker[x].num.idx \in Nat /\ worker[x].num.wave \in Nat
                                 /\ worker[x].task.wave \in Nat
<1>1. \A x \in Workers : worker[x].num.idx \in Nat /\ worker[x].num.wave \in Nat
                                 /\ worker[x].task.wave \in Nat
  BY PhaseFacts, TaskFields
<1>2. \A t \in Txns : validation_status[t].triggered \in Nat /\
          validation_status[t].validated \in Int
  BY DEF TypeOK
<1> QED
  BY <1>1, <1>2, Constants DEF TypeOK

\* The waves triggered at a transaction only grow.
LEMMA TriggeredGrows ==
    ASSUME TypeOK, NEW w \in Workers, Step(w), NEW j \in Txns
    PROVE  /\ validation_status'[j].triggered >= validation_status[j].triggered
           /\ validation_status'[j].triggered \in Nat
<1>a. validation_status[j].triggered \in Nat /\ validation_idx.wave \in Nat
  BY WaveTypes
<1>1. CASE RequireWave(w)
  <2>1. validation_status'[j].triggered = validation_status[j].triggered
    BY <1>1 DEF RequireWave, TypeOK
  <2> QED
    BY <1>a, <2>1
<1>2. CASE FinishValidation(w)
  <2>1. validation_status'[j].triggered = validation_status[j].triggered
    BY <1>2 DEF FinishValidation, TypeOK
  <2> QED
    BY <1>a, <2>1
<1>3. CASE TriggerWave(w)
  <2>1. \/ validation_status' = validation_status
        \/ validation_status' = [validation_status EXCEPT ![Txn(w) + 1].triggered =
                                    MaxOf(@, validation_idx.wave + 1)]
    BY <1>3 DEF TriggerWave
  <2>2. \/ validation_status'[j].triggered = validation_status[j].triggered
        \/ validation_status'[j].triggered =
              MaxOf(validation_status[j].triggered, validation_idx.wave + 1)
    BY <2>1 DEF TypeOK
  <2> QED
    BY <1>a, <2>2 DEF MaxOf
<1>4. CASE ~RequireWave(w) /\ ~FinishValidation(w) /\ ~TriggerWave(w)
  BY <1>4, <1>a, Changes
<1> QED
  BY <1>1, <1>2, <1>3, <1>4

\* What the next commit needs only grows.
LEMMA CommitWave ==
    ASSUME TypeOK, NEW w \in Workers, Step(w)
    PROVE  /\ commit_state'.wave >= commit_state.wave
           /\ commit_state'.wave \in Nat /\ commit_state'.idx \in Nat
           /\ \/ commit_state'.idx = commit_state.idx
              \/ /\ commit_state'.idx = commit_state.idx + 1
                 /\ commit_state.idx \in Txns
                 /\ commit_state'.wave >= validation_status[commit_state.idx].triggered
                 /\ validation_status' = validation_status
<1>a. /\ commit_state.idx \in Nat /\ commit_state.wave \in Nat
      /\ commit_state.idx <= num_txns
  BY WaveTypes
<1>1. CASE TryCommit(w)
  <2>1. PICK c \in Txns : c = commit_state.idx
    BY <1>1, TryCommitStatus
  <2>2. commit_state'.idx = c + 1 /\ commit_state'.wave = next_wave(c)
    BY <1>1, <2>1, TryCommitStatus
  <2>3. validation_status[c].triggered \in Nat
    BY WaveTypes
  <2>4. validation_status' = validation_status
    BY <1>1 DEF TryCommit
  <2> QED
    BY <1>a, <2>1, <2>2, <2>3, <2>4 DEF next_wave, MaxOf
<1>2. CASE TryCommitNothing(w)
  <2>1. \/ commit_state' = commit_state
        \/ /\ commit_state.idx # num_txns
           /\ commit_state' = [commit_state EXCEPT !.wave = next_wave(commit_state.idx)]
    BY <1>2 DEF TryCommitNothing
  <2>2. CASE commit_state' = commit_state
    BY <1>a, <2>2
  <2>3. CASE /\ commit_state.idx # num_txns
             /\ commit_state' = [commit_state EXCEPT !.wave = next_wave(commit_state.idx)]
    <3>1. PICK c \in Txns : c = commit_state.idx
      BY <1>a, <2>3, TxnFacts, Constants
    <3>2. commit_state'.idx = c /\ commit_state'.wave = next_wave(c)
      BY <2>3, <3>1 DEF TypeOK
    <3>3. validation_status[c].triggered \in Nat
      BY WaveTypes
    <3> QED
      BY <1>a, <3>1, <3>2, <3>3 DEF next_wave, MaxOf
  <2> QED
    BY <2>1, <2>2, <2>3
<1>3. CASE ~TryCommit(w) /\ ~TryCommitNothing(w)
  BY <1>3, <1>a, Changes
<1> QED
  BY <1>1, <1>2, <1>3

\* A wave that is enough for a commit was so before.
LEMMA EnoughBefore ==
    ASSUME TypeOK, NEW w \in Workers, Step(w), NEW t \in Txns, NEW u \in Int, Enough(t, u)'
    PROVE  Enough(t, u)
<1>a. /\ commit_state.idx \in Nat /\ commit_state.wave \in Nat
  BY WaveTypes
<1>b. t \in Nat /\ t < num_txns
  BY TxnFacts
<1>1. u >= commit_state.wave
  BY <1>a, CommitWave DEF Enough
<1>2. ASSUME NEW j \in commit_state.idx .. t PROVE u >= validation_status[j].triggered
  <2>0. j \in Nat /\ j < num_txns
    BY <1>2, <1>a, <1>b, Constants
  <2>1. j \in Txns /\ j \in Nat
    BY <2>0, TxnFacts
  <2>2. /\ validation_status[j].triggered \in Nat
        /\ validation_status'[j].triggered \in Nat
        /\ validation_status'[j].triggered >= validation_status[j].triggered
    BY <2>1, WaveTypes, TriggeredGrows
  <2>3. CASE j \in commit_state'.idx .. t
    <3>1. u >= validation_status'[j].triggered
      BY <2>3 DEF Enough
    <3> QED
      BY <2>2, <3>1
  <2>4. CASE j \notin commit_state'.idx .. t
    <3>1. j = commit_state.idx
      BY <1>2, <1>a, <1>b, <2>1, <2>4, CommitWave
    <3>2. commit_state'.wave >= validation_status[j].triggered /\ commit_state'.wave \in Nat
      BY <1>2, <1>a, <1>b, <2>1, <2>4, <3>1, CommitWave
    <3>3. u >= commit_state'.wave
      BY DEF Enough
    <3> QED
      BY <2>2, <3>2, <3>3
  <2> QED
    BY <2>3, <2>4
<1> QED
  BY <1>1, <1>2 DEF Enough

\* What is known of a decrease of the validation index.
LEMMA DecreaseIndex ==
    ASSUME TypeOK, CommitsOK, WavesOK, NEW w \in Workers, DecreaseValidationIdx(w),
           validation_idx = worker[w].num
    PROVE  /\ Txn(w) + 1 \in Txns
           /\ commit_state.idx <= Txn(w) + 1
           /\ validation_status[Txn(w) + 1].triggered > validation_idx.wave
           /\ validation_idx'.idx = Txn(w) + 1 /\ validation_idx'.wave = validation_idx.wave + 1
<1>1. At(w, "decrease_cas")
  BY DEF DecreaseValidationIdx
<1>2. Txn(w) \in Nat /\ Txn(w) + 1 < num_txns
  BY <1>1, TxnType, TxnFacts DEF WavesOK
<1>3. Txn(w) + 1 \in Txns
  BY <1>2, TxnFacts
<1>4. validation_idx'.idx = Txn(w) + 1 /\ validation_idx'.wave = validation_idx.wave + 1
  BY DEF DecreaseValidationIdx
<1> QED
  BY <1>1, <1>3, <1>4 DEF WavesOK

\* The wave of the validation index never decreases, and only a new wave
\* moves the index back.
LEMMA ValidationWave ==
    ASSUME TypeOK, CommitsOK, WavesOK, NEW w \in Workers, Step(w)
    PROVE  /\ validation_idx'.wave \in Nat /\ validation_idx'.idx \in Nat
           /\ validation_idx'.wave >= validation_idx.wave
           /\ \/ validation_idx'.idx >= validation_idx.idx
              \/ DecreaseValidationIdx(w) /\ validation_idx = worker[w].num
<1>a. validation_idx.idx \in Nat /\ validation_idx.wave \in Nat
  BY WaveTypes
<1>1. CASE ClaimValidation(w)
  <2>1. \/ validation_idx' = validation_idx
        \/ validation_idx' = [validation_idx EXCEPT !.idx = @ + 1]
    BY <1>1 DEF ClaimValidation
  <2>2. validation_idx'.wave = validation_idx.wave
        /\ validation_idx'.idx \in {validation_idx.idx, validation_idx.idx + 1}
    BY <2>1 DEF TypeOK
  <2> QED
    BY <1>a, <2>2
<1>2. CASE DecreaseValidationIdx(w)
  <2>1. CASE validation_idx = worker[w].num
    BY <1>2, <1>a, <2>1, DecreaseIndex, TxnFacts
  <2>2. CASE validation_idx # worker[w].num
    BY <1>2, <1>a, <2>2 DEF DecreaseValidationIdx
  <2> QED
    BY <2>1, <2>2
<1>3. CASE ~ClaimValidation(w) /\ ~DecreaseValidationIdx(w)
  BY <1>3, <1>a, Changes
<1> QED
  BY <1>1, <1>2, <1>3

\* No wave goes out of sight.
LEMMA CoveredStays ==
    ASSUME TypeOK, CommitsOK, WavesOK, NEW w \in Workers, Step(w), NEW t \in Txns, NEW u \in Int,
           Covered(t, u)
    PROVE  Covered(t, u)'
<1>a. /\ validation_idx.idx \in Nat /\ validation_idx.wave \in Nat
      /\ validation_idx'.wave \in Nat /\ validation_idx'.idx \in Nat
      /\ validation_idx'.wave >= validation_idx.wave /\ commit_state.idx \in Nat
  BY WaveTypes, ValidationWave
<1>b. u <= validation_idx.wave
  BY DEF Covered
<1>1. u <= validation_idx'.wave
  BY <1>a, <1>b
<1>2. CASE ~Enough(t, u)
  BY <1>1, <1>2, EnoughBefore DEF Covered
<1>3. CASE Enough(t, u)
  <2>1. validation_idx.idx > t
    BY <1>3 DEF Covered
  <2>2. CASE validation_idx'.idx >= validation_idx.idx
    <3>1. validation_idx'.idx > t
      BY <1>a, <2>1, <2>2, TxnFacts
    <3> QED
      BY <1>1, <3>1 DEF Covered
  <2>3. CASE DecreaseValidationIdx(w) /\ validation_idx = worker[w].num
    <3>1. PICK target \in Txns : target = Txn(w) + 1
      BY <2>3, DecreaseIndex
    <3>2. /\ commit_state.idx <= target /\ validation_status[target].triggered > validation_idx.wave
          /\ validation_idx'.idx = target
      BY <2>3, <3>1, DecreaseIndex
    <3>3. CASE t < target
      BY <1>1, <3>2, <3>3, TxnFacts DEF Covered
    <3>4. CASE ~(t < target)
      <4>1. target \in commit_state.idx .. t
        BY <1>a, <3>2, <3>4, TxnFacts
      <4>2. ~Enough(t, u)
        BY <1>a, <1>b, <3>2, <4>1, WaveTypes DEF Enough
      <4> QED
        BY <1>3, <4>2
    <3> QED
      BY <3>3, <3>4
  <2> QED
    BY <2>2, <2>3, ValidationWave
<1> QED
  BY <1>2, <1>3

\* A validation of a transaction the index has passed.
LEMMA CoveredNow ==
    ASSUME TypeOK, NEW t \in Txns, validation_idx.idx > t
    PROVE  Covered(t, validation_idx.wave)
BY WaveTypes DEF Covered

\* Only finish_validation records a validated wave.
LEMMA ValidatedWave ==
    ASSUME TypeOK, NEW w \in Workers, Step(w), NEW t \in Txns
    PROVE  \/ validation_status'[t].validated = validation_status[t].validated
           \/ /\ FinishValidation(w) /\ worker[w].task.txn = t
              /\ validation_status'[t].validated =
                    MaxOf(validation_status[t].validated, worker[w].task.wave)
<1>1. CASE RequireWave(w)
  BY <1>1 DEF RequireWave, TypeOK
<1>2. CASE FinishValidation(w)
  BY <1>2 DEF FinishValidation, TypeOK
<1>3. CASE TriggerWave(w)
  <2>1. \/ validation_status' = validation_status
        \/ validation_status' = [validation_status EXCEPT ![Txn(w) + 1].triggered =
                                    MaxOf(@, validation_idx.wave + 1)]
    BY <1>3 DEF TriggerWave
  <2> QED
    BY <2>1 DEF TypeOK
<1>4. CASE ~RequireWave(w) /\ ~FinishValidation(w) /\ ~TriggerWave(w)
  BY <1>4, Changes
<1> QED
  BY <1>1, <1>2, <1>3, <1>4

\* Where a worker has a wave.
LEMMA HasWaveFacts ==
    ASSUME TypeOK, NEW x \in Workers
    PROVE  /\ worker[x].pc \in {"abort", "finish_validation", "require_wave"} => HasWave(x)
           /\ At(x, "decrease_cas") =>
                 \/ worker[x].ret = "hook"
                 \/ worker[x].ret = "finish_execution" /\ Finishing(x) /\ HasWave(x)
                 \/ worker[x].ret = "finish_abort" /\ Aborted(x)
           /\ At(x, "decrease") =>
                 \/ worker[x].ret = "hook"
                 \/ worker[x].ret = "finish_execution" /\ Finishing(x)
                 \/ worker[x].ret = "finish_abort" /\ Aborted(x)
           /\ worker[x].pc \in NextPcs \cup {"arm", "estimate"} => ~HasWave(x)
           /\ HasWave(x) => Kind(x) = "Validation" \/ worker[x].ret = "finish_execution"
BY PhaseFacts DEF PhaseOK, LoopPcs, HookPcs, ExecutionPcs, FinishPcs, AbortPcs, NextPcs,
   ValidationPcs, HasWave, Validates, Pending, Finishing, Aborted, At, Kind

LEMMA HasWaveNext ==
    ASSUME TypeOK', NEW x \in Workers
    PROVE  /\ (worker[x].pc \in NextPcs \cup {"arm", "estimate"} => ~HasWave(x))'
           /\ (HasWave(x) => Kind(x) = "Validation" \/ worker[x].ret = "finish_execution")'
BY HasWaveFacts, PTL

\* A validation or finish_execution that is about to start or goes on.
LEMMA HasWaveStep ==
    ASSUME TypeOK, TypeOK', CommitsOK, WavesOK, NEW w \in Workers, Step(w), ~At(w, "error")',
           HasWave(w)', NEW t \in Txns, t = worker'[w].task.txn, NEW u \in Nat,
           u = worker'[w].task.wave
    PROVE  Covered(t, u)'
<1>a. \A i \in Txns, v \in Int : Covered(i, v) => Covered(i, v)'
  BY CoveredStays
<1>b. HasWave(w) => Covered(worker[w].task.txn, worker[w].task.wave)
  BY DEF WavesOK
<1>c. worker[w].task.txn \in Txns /\ worker[w].task.wave \in Int
      /\ validation_idx.wave \in Int
  BY PhaseFacts, WaveTypes
<1>d. /\ worker'[w].pc \notin NextPcs \cup {"arm", "estimate"}
      /\ Kind(w)' = "Validation" \/ worker'[w].ret = "finish_execution"
  BY HasWaveNext
<1>1. CASE HasWave(w) /\ worker'[w].task.txn = worker[w].task.txn
           /\ worker'[w].task.wave = worker[w].task.wave
  <2>1. Covered(t, u)
    BY <1>1, <1>b
  <2> QED
    BY <1>a, <2>1
<1>2. CASE StartValidation(w)
  <2>1. CASE is_executed(worker[w].num.idx, FALSE)
    <3>1. At(w, "next_executed") /\ worker[w].num.idx \in Txns /\ worker[w].num.wave \in Nat
      BY <1>2, StartValidationEffect, WaveTypes DEF TypeOK, WorkerOK, FieldsOK, At
    <3>2. txn_status[worker[w].num.idx].inc \in Nat
      BY <3>1 DEF TypeOK, Statuses
    <3>3. PICK tk : tk = ValidationTask(worker[w].num.idx, txn_status[worker[w].num.idx].inc,
                                        worker[w].num.wave)
      OBVIOUS
    <3>4. tk.txn = worker[w].num.idx /\ tk.wave = worker[w].num.wave
      BY <3>1, <3>2, <3>3, ValidationTaskFacts
    <3>5. worker'[w].task = tk
      BY <1>2, <2>1, <3>3, StartValidationEffect, BackToLoop
    <3>6. Covered(t, u)
      BY <3>1, <3>4, <3>5 DEF WavesOK
    <3> QED
      BY <1>a, <3>6
  <2>2. CASE ~is_executed(worker[w].num.idx, FALSE)
    <3>1. worker'[w].pc \in {"next_execution", "next"}
      BY <1>2, <2>2, StartValidationEffect DEF Moves, Becomes, NoValidation
    <3> QED
      BY <1>d, <3>1 DEF NextPcs
  <2> QED
    BY <2>1, <2>2
<1>3. CASE RequireWave(w)
  <2>1. HasWave(w)
    BY <1>3, HasWaveFacts DEF RequireWave, At
  <2>2. PICK tk : tk = ValidationTask(worker[w].task.txn, worker[w].task.inc, worker[w].task.wave)
    OBVIOUS
  <2>3. tk.txn = worker[w].task.txn /\ tk.wave = worker[w].task.wave
    BY <2>2, PhaseFacts, WaveTypes, ValidationTaskFacts
  <2>4. worker'[w].task = tk
    BY <1>3, <2>2, RequireWaveEffect, BackToLoop
  <2> QED
    BY <1>1, <2>1, <2>3, <2>4
<1>4. CASE TryAbort(w)
  <2>1. HasWave(w)
    BY <1>4, HasWaveFacts DEF TryAbort, At
  <2>2. worker'[w].task = worker[w].task
    BY <1>4, TryAbortEffect DEF Becomes
  <2> QED
    BY <1>1, <2>1, <2>2
<1>5. CASE FinishValidation(w)
  <2>1. worker'[w].pc = "arm" \/ Restarts(w, NoTask("Retry"))
    BY <1>5, FinishValidationEffect DEF Moves, Becomes
  <2>2. CASE worker'[w].pc = "arm"
    BY <1>d, <2>2
  <2>3. CASE Restarts(w, NoTask("Retry"))
    <3>1. worker'[w].ret = "loop" /\ worker'[w].task.kind = "Retry"
      BY <2>3, BackToLoop, NoTaskFacts
    <3> QED
      BY <1>d, <3>1 DEF Kind
  <2> QED
    BY <2>1, <2>2, <2>3
<1>6. CASE FinishLoad(w)
  <2>1. CASE validation_idx.idx > worker[w].task.txn
    <3>1. worker'[w].task.txn = worker[w].task.txn /\ worker'[w].task.wave = validation_idx.wave
      BY <1>6, <2>1, FinishLoadFacts DEF Becomes
    <3>2. Covered(t, u)
      BY <2>1, <3>1, CoveredNow
    <3> QED
      BY <1>a, <3>2
  <2>2. CASE ~(validation_idx.idx > worker[w].task.txn)
    <3>1. Restarts(w, NoTask("Retry"))
      BY <1>6, <2>2, FinishLoadFacts
    <3>2. worker'[w].ret = "loop" /\ worker'[w].task.kind = "Retry"
      BY <3>1, BackToLoop, NoTaskFacts
    <3> QED
      BY <1>d, <3>2 DEF Kind
  <2> QED
    BY <2>1, <2>2
<1>7. CASE DecreaseValidationIdx(w)
  <2>1. CASE validation_idx = worker[w].num /\ worker[w].ret = "finish_execution"
    <3>1. worker'[w].task.txn = worker[w].task.txn
          /\ worker'[w].task.wave = worker[w].num.wave + 1
      BY <1>7, <2>1, DecreaseFacts DEF Becomes
    <3>2. Txn(w) = t
      BY <2>1, <3>1 DEF Txn
    <3>3. validation_idx'.idx = t + 1 /\ validation_idx'.wave = u
      BY <1>7, <2>1, <3>1, <3>2, DecreaseIndex
    <3>4. t + 1 > t /\ u <= u
      BY TxnFacts
    <3> QED
      BY <3>3, <3>4 DEF Covered
  <2>2. CASE validation_idx = worker[w].num /\ worker[w].ret # "finish_execution"
    <3>1. worker'[w].task = worker[w].task /\ worker'[w].ret = worker[w].ret
      BY <1>7, <2>2, DecreaseFacts DEF Becomes
    <3>2. worker[w].ret = "hook" \/ worker[w].ret = "finish_abort"
      BY <1>7, <2>2, HasWaveFacts DEF DecreaseValidationIdx
    <3>3. CASE worker[w].ret = "hook"
      <4>1. HasWave(w)
        BY <1>d, <3>1, <3>3 DEF HasWave, Validates, Pending, Kind
      <4> QED
        BY <1>1, <3>1, <4>1
    <3>4. CASE worker[w].ret = "finish_abort"
      <4>1. worker'[w].pc = "abort_done"
        BY <1>7, <2>2, <3>4, DecreaseFacts DEF Becomes, AfterDecrease
      <4> QED
        BY <3>1, <3>4, <4>1 DEF HasWave, Validates, Pending, Finishing, LoopPcs
    <3> QED
      BY <3>2, <3>3, <3>4
  <2>3. CASE validation_idx # worker[w].num
    <3>1. /\ worker'[w].task = worker[w].task /\ worker'[w].ret = worker[w].ret
          /\ worker'[w].pc = "decrease" /\ At(w, "decrease_cas")
      BY <1>7, <2>3, DecreaseFacts DEF Moves, Becomes
    <3>2. HasWave(w)
      BY <3>1 DEF HasWave, Validates, Pending, Kind, Finishing, LoopPcs, At
    <3> QED
      BY <1>1, <3>1, <3>2
  <2> QED
    BY <2>1, <2>2, <2>3
<1>8. CASE ~StartValidation(w) /\ ~RequireWave(w) /\ ~TryAbort(w) /\ ~FinishValidation(w)
           /\ ~FinishLoad(w) /\ ~DecreaseValidationIdx(w)
  BY <1>1, <1>8, Phases
<1> QED
  BY <1>2, <1>3, <1>4, <1>5, <1>6, <1>7, <1>8

\* A decrease is never to an index below the commits.
LEMMA DecreaseBound ==
    ASSUME TypeOK, CommitsOK, NEW x \in Workers, At(x, "decrease_cas") \/ At(x, "decrease")
    PROVE  commit_state.idx <= Txn(x) + 1
<1>1. commit_state.idx \in Nat /\ worker[x].task.txn \in Nat
  BY WaveTypes, PhaseFacts, TxnFacts
<1>2. CASE worker[x].ret = "hook"
  BY <1>1, <1>2 DEF Txn
<1>3. CASE worker[x].ret # "hook"
  <2>1. Finishing(x) \/ Aborted(x)
    BY <1>3, HasWaveFacts
  <2>2. commit_state.idx <= worker[x].task.txn
    BY <2>1 DEF CommitsOK
  <2> QED
    BY <1>1, <1>3, <2>2 DEF Txn
<1> QED
  BY <1>2, <1>3

\* A triggered wave is above that of the index.
LEMMA TriggerFacts ==
    ASSUME TypeOK, NEW w \in Workers, TriggerWave(w), Txn(w) + 1 < num_txns,
           validation_idx.idx > Txn(w) + 1
    PROVE  /\ Txn(w) + 1 \in Txns
           /\ validation_status'[Txn(w) + 1].triggered > validation_idx.wave
           /\ worker'[w].num = validation_idx /\ worker'[w].pc = "decrease_cas"
           /\ worker'[w].task = worker[w].task /\ worker'[w].ret = worker[w].ret
           /\ commit_state' = commit_state
<1>1. PICK target \in Txns : target = Txn(w) + 1
  BY TxnType, TxnFacts
<1>2. validation_status' = [validation_status EXCEPT ![target].triggered =
                               MaxOf(@, validation_idx.wave + 1)]
  BY <1>1 DEF TriggerWave
<1>3. validation_status'[target].triggered =
         MaxOf(validation_status[target].triggered, validation_idx.wave + 1)
  BY <1>2 DEF TypeOK
<1>4. validation_status'[target].triggered > validation_idx.wave
  BY <1>3, WaveTypes DEF MaxOf
<1> QED
  BY <1>1, <1>4, TriggerWaveEffect DEF Becomes, TriggerWave, indices

\* WavesOK is preserved: a wave that counts for a commit has passed the
\* transaction.
LEMMA WavesStep ==
    ASSUME TypeOK, TypeOK', LocksOK, CommitsOK, CommitsOK', WavesOK, NEW w \in Workers, Step(w),
           ~At(w, "error")'
    PROVE  WavesOK'
<1>a. \A i \in Txns, v \in Int : Covered(i, v) => Covered(i, v)'
  BY CoveredStays
<1>1. ASSUME NEW t \in Txns, NEW u, u = validation_status'[t].validated
      PROVE  Covered(t, u)'
  <2>1. Covered(t, validation_status[t].validated) /\ validation_status[t].validated \in Int
    BY WaveTypes DEF WavesOK
  <2>2. CASE u = validation_status[t].validated
    BY <1>a, <2>1, <2>2
  <2>3. CASE /\ FinishValidation(w) /\ worker[w].task.txn = t
             /\ u = MaxOf(validation_status[t].validated, worker[w].task.wave)
    <3>1. Covered(t, worker[w].task.wave) /\ worker[w].task.wave \in Int
      BY <2>3, HasWaveFacts, WaveTypes DEF WavesOK, FinishValidation, At
    <3>2. Covered(t, u) /\ u \in Int
      BY <2>1, <2>3, <3>1 DEF MaxOf
    <3> QED
      BY <1>a, <3>2
  <2> QED
    BY <1>1, <2>2, <2>3, ValidatedWave
<1>2. ASSUME NEW x \in Workers, HasWave(x)', NEW t, t = worker'[x].task.txn, NEW u,
             u = worker'[x].task.wave
      PROVE  Covered(t, u)'
  <2>1. CASE x = w
    <3>1. (worker[w].task.txn \in Txns /\ worker[w].task.wave \in Nat)'
      <4>1. (worker[w].task \in Tasks)'
        BY DEF TypeOK, WorkerOK, FieldsOK
      <4> QED
        BY <4>1, TaskFields
    <3> QED
      BY <1>2, <2>1, <3>1, HasWaveStep
  <2>2. CASE x # w
    <3>1. worker'[x] = worker[x]
      BY <2>2, OtherRoles
    <3>2. HasWave(x)
      BY <1>2, <3>1 DEF HasWave, Validates, Pending, Kind, Finishing
    <3>3. Covered(t, u)
      BY <1>2, <3>1, <3>2 DEF WavesOK
    <3>4. t \in Txns /\ u \in Int
      BY <1>2, <3>1, PhaseFacts, WaveTypes
    <3> QED
      BY <1>a, <3>3, <3>4
  <2> QED
    BY <2>1, <2>2
<1>3. ASSUME NEW x \in Workers, At(x, "next_executed")', NEW t, t = worker'[x].num.idx, NEW u,
             u = worker'[x].num.wave
      PROVE  Covered(t, u)'
  <2>1. CASE At(x, "next_executed") /\ worker'[x].num = worker[x].num
    <3>1. Covered(t, u)
      BY <1>3, <2>1 DEF WavesOK
    <3>2. t \in Txns /\ u \in Int
      BY <1>3, <2>1, WaveTypes DEF TypeOK, WorkerOK, FieldsOK, At
    <3> QED
      BY <1>a, <3>1, <3>2
  <2>2. CASE x = w /\ ClaimValidation(w)
    <3>1. Moves(w, IF validation_idx = worker[w].num THEN "next_executed" ELSE NoValidation(w))
      BY <2>2, ClaimValidationEffect
    <3>2. validation_idx = worker[w].num /\ worker'[w].num = worker[w].num
      BY <1>3, <2>2, <3>1 DEF Moves, Becomes, NoValidation, At
    <3>3. validation_idx' = [validation_idx EXCEPT !.idx = @ + 1]
      BY <2>2, <3>2 DEF ClaimValidation
    <3>4. validation_idx'.idx = t + 1 /\ validation_idx'.wave = u
      BY <1>3, <2>2, <3>2, <3>3 DEF TypeOK
    <3>5. t \in Nat /\ u \in Nat
      BY <1>3, <2>2, <3>2, WaveTypes
    <3> QED
      BY <3>4, <3>5 DEF Covered
  <2>3. CASE x = w /\ StartValidation(w)
    BY <1>3, <2>3, StartValidationFacts DEF Moves, Becomes, At
  <2> QED
    BY <1>3, <2>1, <2>2, <2>3, PhasesOf
<1>4. ASSUME NEW x \in Workers, At(x, "decrease_cas")'
      PROVE  /\ (commit_state.idx <= Txn(x) + 1)' /\ (Txn(x) + 1 < num_txns)'
             /\ (validation_status[Txn(x) + 1].triggered > worker[x].num.wave)'
  <2>1. (commit_state.idx <= Txn(x) + 1)'
    <3>1. (At(x, "decrease_cas") => commit_state.idx <= Txn(x) + 1)'
      BY DecreaseBound, PTL
    <3> QED
      BY <1>4, <3>1
  <2>2. CASE x # w
    <3>1. Txn(x)' = Txn(x) /\ worker'[x] = worker[x]
      BY <2>2, OtherTxn, OtherRoles
    <3>2. At(x, "decrease_cas")
      BY <1>4, <3>1 DEF At
    <3>3. PICK target \in Txns : target = Txn(x) + 1
      <4>1. Txn(x) \in Nat /\ Txn(x) + 1 < num_txns
        BY <3>2, TxnType, TxnFacts DEF WavesOK
      <4> QED
        BY <4>1, TxnFacts
    <3>4. validation_status[target].triggered > worker[x].num.wave
      BY <3>2, <3>3 DEF WavesOK
    <3>5. validation_status'[target].triggered > worker'[x].num.wave
      BY <3>1, <3>4, TriggeredGrows, WaveTypes
    <3> QED
      BY <2>1, <3>1, <3>3, <3>5, TxnFacts
  <2>3. CASE x = w /\ TriggerWave(w)
    <3>1. Txn(w) + 1 < num_txns /\ validation_idx.idx > Txn(w) + 1
      BY <1>4, <2>3, TriggerWaveEffect, HasWaveFacts DEF Moves, Becomes, At, AfterDecrease
    <3>2. /\ validation_status'[Txn(w) + 1].triggered > validation_idx.wave
          /\ worker'[w].num = validation_idx
          /\ worker'[w].task = worker[w].task /\ worker'[w].ret = worker[w].ret
          /\ commit_state' = commit_state
      BY <2>3, <3>1, TriggerFacts
    <3>3. Txn(w)' = Txn(w)
      BY <3>2 DEF Txn
    <3> QED
      BY <2>1, <2>3, <3>1, <3>2, <3>3
  <2>4. CASE x = w /\ ~TriggerWave(w)
    <3>1. CASE DecreaseValidationIdx(w)
      <4>1. At(w, "decrease_cas")
        BY <3>1 DEF DecreaseValidationIdx
      <4>2. worker[w].ret \in {"hook", "finish_execution", "finish_abort"}
        BY <4>1, HasWaveFacts
      <4>3. worker'[w].pc # "decrease_cas"
        BY <3>1, <4>2, DecreaseFacts DEF Becomes, Moves, AfterDecrease
      <4> QED
        BY <1>4, <2>4, <4>3 DEF At
    <3>2. CASE ~DecreaseValidationIdx(w)
      <4>1. At(w, "decrease_cas")
        BY <1>4, <2>4, <3>2, Phases
      <4> QED
        BY <3>2, <4>1, <2>4 DEF At, Step, LockCommits, SkipCommits, TryCommit, TryCommitNothing,
         TryCommitContended, UnlockCommits, PublishModules, RecordValidationRequirements,
         AddToCommitQueue, HaltStart, HaltTxn, Halted, DrainCommitQueue, StartTask, Wakeup,
             NextTask,
         ClaimValidation, StartValidation, ClaimExecution, TryIncarnate, Read, Interrupt,
         WaitForDependency, Suspend, Awake, Write, Record, FinishExecution, TakeDependencies,
         Resume, FetchMin, FinishLoad, RequireWave, Validate,
         TryAbort, MarkEstimate, FinishAbort, AbortDone, AbortLoad, FinishValidation, Arm
    <3> QED
      BY <3>1, <3>2
  <2> QED
    BY <2>2, <2>3, <2>4
<1>5. ASSUME NEW x \in Workers, At(x, "next_validation")'
      PROVE  worker'[x].num.wave <= validation_idx'.wave
  <2>1. CASE At(x, "next_validation") /\ worker'[x].num = worker[x].num
    <3>1. worker[x].num.wave <= validation_idx.wave
      BY <2>1 DEF WavesOK
    <3> QED
      BY <2>1, <3>1, ValidationWave, WaveTypes
  <2>2. CASE x = w /\ NextTask(w)
    <3>1. worker'[w].num = validation_idx
      BY <1>5, <2>2, NextTaskEffect, BackToLoop DEF Moves, Becomes, At
    <3>2. validation_idx' = validation_idx
      BY <2>2 DEF NextTask, shared, indices
    <3> QED
      BY <2>2, <3>1, <3>2, WaveTypes
  <2>3. CASE x = w /\ ClaimValidation(w)
    BY <1>5, <2>3, ClaimValidationEffect DEF Moves, Becomes, NoValidation, At
  <2> QED
    BY <1>5, <2>1, <2>2, <2>3, PhasesOf
<1> QED
  BY <1>1, <1>2, <1>3, <1>4, <1>5 DEF WavesOK
=============================================================================
