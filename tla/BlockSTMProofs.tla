---------------------------- MODULE BlockSTMProofs ----------------------------
(***************************************************************************)
(* Block-STM commits what sequential execution gives, for every number of  *)
(* transactions and workers, every block whose transactions are            *)
(* deterministic, and every interleaving.                                  *)
(*                                                                         *)
(* The invariants here are about what the workers read and write: which    *)
(* incarnation wrote each entry, which entries are estimates, and what a   *)
(* validated wave vouches for.  The argument: a worker Disturbs the        *)
(* transactions above its own from the moment it may change what they have *)
(* read until it has triggered a new wave for them.  A validation whose    *)
(* wave still counts was therefore disturbed by nobody, so that its reads  *)
(* return now what they returned then (FetchStays, VouchesStays).  When    *)
(* try_commit finds the wave validated, every transaction below is         *)
(* committed, the reads below are settled, and the output is the           *)
(* sequential one.                                                         *)
(*                                                                         *)
(* SequentialState is a recursive function; that it satisfies its equation *)
(* is shown by the least length for which no such function exists          *)
(* (SequentialExists).                                                     *)
(***************************************************************************)
EXTENDS BlockSTMSchedulerProofs

-----------------------------------------------------------------------------
(* The multi-version data.                                                 *)

\* The entries of a transaction stay as they are.
SameData(t) == \A k \in DataKeys : data'[k][t] = data[k][t]

\* The fields of an entry.
LEMMA EntryFacts ==
    \A i, v, b :
       LET e == [inc |-> i, val |-> v, est |-> b]
       IN  /\ e.inc = i /\ e.val = v /\ e.est = b
           /\ DOMAIN e = {"inc", "val", "est"}
OBVIOUS

\* A write changes the entry of one key, of the transaction that writes.
LEMMA WriteData ==
    ASSUME TypeOK, EntriesOK, WritesOK, NEW w \in Workers, Write(w), ~At(w, "error")'
    PROVE  \E k \in worker[w].todo \cap DataKeys :
              /\ IF k \in DOMAIN CurrentOutput(w)
                 THEN /\ may_write(k, worker[w].task.txn, worker[w].task.inc)
                      /\ data'[k][worker[w].task.txn] =
                            [inc |-> worker[w].task.inc, val |-> CurrentOutput(w)[k], est |-> FALSE]
                 ELSE /\ Written(k, worker[w].task.txn)
                      /\ data'[k][worker[w].task.txn] = NoEntry
              /\ \A j \in DataKeys, u \in Txns :
                    j # k \/ u # worker[w].task.txn => data'[j][u] = data[j][u]
              /\ DOMAIN data' = DataKeys
              /\ \A j \in DataKeys : DOMAIN data'[j] = Txns
              /\ Becomes(w, "write", worker[w].task, worker[w].ret, worker[w].reads,
                         worker[w].todo \ {k}, worker[w].num, worker[w].flag)
<1>a. PICK t \in Txns : t = worker[w].task.txn
  BY PhaseFacts
<1>b. PICK output : output = CurrentOutput(w)
  OBVIOUS
<1>c. PICK writes : writes = worker[w].todo \cap DOMAIN output
  OBVIOUS
<1>d. At(w, "write") /\ worker[w].todo \subseteq DataKeys
  BY DEF Write, WritesOK, WritesOf, DataOf
<1>1. PICK k \in IF writes # {} THEN writes ELSE worker[w].todo :
              /\ data' = [data EXCEPT ![k][t] =
                    IF k \in writes
                    THEN [inc |-> worker[w].task.inc, val |-> output[k], est |-> FALSE]
                    ELSE NoEntry]
              /\ worker' = [worker EXCEPT
                    ![w].todo = @ \ {k},
                    ![w].pc = IF \/ k \in writes /\ ~may_write(k, t, worker[w].task.inc)
                                 \/ k \notin writes /\ data[k][t] = NoEntry
                              THEN "error" ELSE @]
  BY <1>a, <1>b, <1>c, Zenon DEF Write
<1>2. k \in worker[w].todo /\ k \in DataKeys /\ (k \in writes <=> k \in DOMAIN output)
  BY <1>1, <1>c, <1>d
<1>3. PICK e : e = IF k \in writes
                   THEN [inc |-> worker[w].task.inc, val |-> output[k], est |-> FALSE]
                   ELSE NoEntry
  OBVIOUS
<1>4. data' = [data EXCEPT ![k][t] = e]
  BY <1>1, <1>3
<1>5. /\ data'[k][t] = e
      /\ \A j \in DataKeys, u \in Txns : j # k \/ u # t => data'[j][u] = data[j][u]
      /\ DOMAIN data' = DataKeys
      /\ \A j \in DataKeys : DOMAIN data'[j] = Txns
  BY <1>2, <1>4 DEF EntriesOK
<1>6. PICK p : p = IF \/ k \in writes /\ ~may_write(k, t, worker[w].task.inc)
                      \/ k \notin writes /\ data[k][t] = NoEntry
                   THEN "error" ELSE "write"
  OBVIOUS
<1>7. worker' = [worker EXCEPT ![w].todo = @ \ {k}, ![w].pc = p]
  BY <1>1, <1>6, <1>d DEF At
<1>8. Becomes(w, p, worker[w].task, worker[w].ret, worker[w].reads,
              worker[w].todo \ {k}, worker[w].num, worker[w].flag)
  BY <1>7 DEF Becomes, Others, TypeOK, WorkerOK, FieldsOK, WorkerFields, Tasks
<1>9. p # "error"
  BY <1>8 DEF Becomes, At
<1>10. p = "write" /\ (k \in writes => may_write(k, t, worker[w].task.inc))
       /\ (k \notin writes => Written(k, t))
  BY <1>6, <1>9, SMTT(30) DEF Written
<1> QED
  BY <1>2, <1>3, <1>5, <1>8, <1>10, <1>a, <1>b

MarkedFrom(new, old) ==
    /\ DOMAIN new = {"inc", "val", "est"}
    /\ new.inc = old.inc /\ new.val = old.val /\ new.est = TRUE

\* So does a mark.
LEMMA MarkEstimateData ==
    ASSUME TypeOK, EntriesOK, NEW w \in Workers, MarkEstimate(w), ~At(w, "error")',
           worker[w].todo \subseteq DataKeys
    PROVE  \E k \in worker[w].todo :
              /\ k \in DataKeys
              /\ Written(k, worker[w].task.txn)
              /\ MarkedFrom(data'[k][worker[w].task.txn], data[k][worker[w].task.txn])
              /\ \A j \in DataKeys, u \in Txns :
                    j # k \/ u # worker[w].task.txn => data'[j][u] = data[j][u]
              /\ DOMAIN data' = DataKeys
              /\ \A j \in DataKeys : DOMAIN data'[j] = Txns
              /\ Becomes(w, "estimate", worker[w].task, worker[w].ret, worker[w].reads,
                         worker[w].todo \ {k}, worker[w].num, worker[w].flag)
<1>a. PICK t \in Txns : t = worker[w].task.txn
  BY PhaseFacts
<1>1. PICK k \in worker[w].todo :
              /\ data' = IF data[k][t] = NoEntry THEN data
                         ELSE [data EXCEPT ![k][t].est = TRUE]
              /\ worker' = [worker EXCEPT
                    ![w].todo = @ \ {k},
                    ![w].pc = IF data[k][t] = NoEntry THEN "error" ELSE @]
  BY <1>a, Zenon DEF MarkEstimate
<1>2. PICK p : p = IF data[k][t] = NoEntry THEN "error" ELSE "estimate"
  OBVIOUS
<1>3. worker' = [worker EXCEPT ![w].todo = @ \ {k}, ![w].pc = p]
  BY <1>1, <1>2 DEF MarkEstimate, At
<1>4. Becomes(w, p, worker[w].task, worker[w].ret, worker[w].reads,
              worker[w].todo \ {k}, worker[w].num, worker[w].flag)
  BY <1>3 DEF Becomes, Others, TypeOK, WorkerOK, FieldsOK, WorkerFields, Tasks
<1>5. p = "estimate" /\ data[k][t] # NoEntry
  BY <1>2, <1>4 DEF Becomes, At
<1>6. data' = [data EXCEPT ![k][t].est = TRUE] /\ k \in DataKeys
  BY <1>1, <1>5
<1>7. /\ data'[k][t] = [data[k][t] EXCEPT !.est = TRUE]
      /\ \A j \in DataKeys, u \in Txns : j # k \/ u # t => data'[j][u] = data[j][u]
      /\ DOMAIN data' = DataKeys
      /\ \A j \in DataKeys : DOMAIN data'[j] = Txns
  BY <1>6 DEF EntriesOK
<1>8. DOMAIN data[k][t] = {"inc", "val", "est"}
  BY <1>6 DEF EntriesOK, IsEntry
<1>9. MarkedFrom(data'[k][t], data[k][t])
  BY <1>7, <1>8 DEF MarkedFrom
<1> QED
  <2>1. Becomes(w, "estimate", worker[w].task, worker[w].ret, worker[w].reads,
              worker[w].todo \ {k}, worker[w].num, worker[w].flag)
    BY <1>4, <1>5
  <2> QED
    BY <1>5, <1>6, <1>7, <1>9, <1>a, <2>1, SMTT(30) DEF Written

\* Whose entries a step changes.
LEMMA DataFrame ==
    ASSUME TypeOK, EntriesOK, WritesOK, IncarnationsOK, NEW w \in Workers, Step(w),
           ~At(w, "error")', NEW t \in Txns
    PROVE  SameData(t) \/ ((Write(w) \/ MarkEstimate(w)) /\ worker[w].task.txn = t)
<1>1. CASE Write(w)
  BY <1>1, WriteData DEF SameData
<1>2. CASE MarkEstimate(w)
  <2>1. worker[w].todo \subseteq DataKeys
    BY <1>2 DEF MarkEstimate, At, IncarnationsOK, IncarnationBy, Aborting, PartlyEstimates, DataOf
  <2> QED
    BY <1>2, <2>1, MarkEstimateData DEF SameData
<1>3. CASE ~Write(w) /\ ~MarkEstimate(w)
  BY <1>3, Changes DEF SameData
<1> QED
  BY <1>1, <1>2, <1>3

\* EntriesOK is preserved.
LEMMA EntriesStep ==
    ASSUME TypeOK, EntriesOK, WritesOK, IncarnationsOK, NEW w \in Workers, Step(w),
           ~At(w, "error")'
    PROVE  EntriesOK'
<1>a. worker[w].task.txn \in Txns /\ worker[w].task.inc \in Nat
  BY PhaseFacts
<1>1. CASE Write(w)
  <2>1. PICK k \in worker[w].todo \cap DataKeys :
              /\ \/ \E v : data'[k][worker[w].task.txn] =
                        [inc |-> worker[w].task.inc, val |-> v, est |-> FALSE]
                 \/ data'[k][worker[w].task.txn] = NoEntry
              /\ \A j \in DataKeys, u \in Txns :
                    j # k \/ u # worker[w].task.txn => data'[j][u] = data[j][u]
              /\ DOMAIN data' = DataKeys
              /\ \A j \in DataKeys : DOMAIN data'[j] = Txns
    BY <1>1, WriteData
  <2>2. PICK e : e = data'[k][worker[w].task.txn]
    OBVIOUS
  <2>3. IsEntry(e)
    <3>1. CASE e = NoEntry
      <4>1. NoEntry.est \in BOOLEAN /\ DOMAIN NoEntry = {"inc", "val", "est"}
        BY EntryFacts DEF NoEntry
      <4> QED
        BY <3>1, <4>1 DEF IsEntry
    <3>2. CASE e # NoEntry
      <4>1. PICK v : e = [inc |-> worker[w].task.inc, val |-> v, est |-> FALSE]
        BY <2>1, <2>2, <3>2
      <4>2. e.inc = worker[w].task.inc /\ e.est = FALSE /\ DOMAIN e = {"inc", "val", "est"}
        BY <4>1, EntryFacts, Zenon
      <4> QED
        BY <1>a, <4>1, <4>2 DEF IsEntry
    <3> QED
      BY <3>1, <3>2
  <2> QED
    BY <1>a, <2>1, <2>2, <2>3 DEF EntriesOK
<1>2. CASE MarkEstimate(w)
  <2>1. worker[w].todo \subseteq DataKeys
    BY <1>2 DEF MarkEstimate, At, IncarnationsOK, IncarnationBy, Aborting, PartlyEstimates, DataOf
  <2>2. PICK k \in worker[w].todo :
              /\ k \in DataKeys
              /\ Written(k, worker[w].task.txn)
              /\ MarkedFrom(data'[k][worker[w].task.txn], data[k][worker[w].task.txn])
              /\ \A j \in DataKeys, u \in Txns :
                    j # k \/ u # worker[w].task.txn => data'[j][u] = data[j][u]
              /\ DOMAIN data' = DataKeys
              /\ \A j \in DataKeys : DOMAIN data'[j] = Txns
    BY <1>2, <2>1, MarkEstimateData
  <2>3. PICK e : e = data'[k][worker[w].task.txn]
    OBVIOUS
  <2>4. data[k][worker[w].task.txn].inc \in Nat
    BY <1>a, <2>2 DEF EntriesOK, IsEntry, Written
  <2>5. IsEntry(e)
    BY <2>2, <2>3, <2>4 DEF IsEntry, MarkedFrom
  <2> QED
    BY <1>a, <2>2, <2>3, <2>5 DEF EntriesOK
<1>3. CASE ~Write(w) /\ ~MarkEstimate(w)
  BY <1>3, Changes DEF EntriesOK, Written
<1> QED
  BY <1>1, <1>2, <1>3

\* The worker that changes the entries of a transaction is the one busy with it.
LEMMA DataOwner ==
    ASSUME TypeOK, StatusOK, NEW w \in Workers, Write(w) \/ MarkEstimate(w) \/ Record(w),
           NEW x \in Workers, x # w, Busy(x)
    PROVE  worker[x].task.txn # worker[w].task.txn
<1>1. Busy(w)
  BY PhaseRoles, Zenon DEF Write, MarkEstimate, Record, At, ExecutionPcs, Busy, Aborting
<1> QED
  BY <1>1 DEF StatusOK, OneBusy

\* Only Record changes what is recorded, ...
LEMMA RecordedFrame ==
    ASSUME TypeOK, NEW w \in Workers, Step(w), NEW t \in Txns
    PROVE  last_input_output'[t] = last_input_output[t] \/ (Record(w) /\ worker[w].task.txn = t)
<1>1. CASE Record(w)
  BY <1>1 DEF Record, TypeOK
<1>2. CASE ~Record(w)
  BY <1>2, Changes
<1> QED
  BY <1>1, <1>2

\* ... and it records the reads and the output.
LEMMA RecordFields ==
    ASSUME TypeOK, NEW w \in Workers, Record(w)
    PROVE  LET t == worker[w].task.txn
           IN  /\ worker[w].todo = {}
               /\ last_input_output'[t] = [ok |-> ~worker[w].flag, input |-> worker[w].reads,
                                           output |-> CurrentOutput(w)]
               /\ last_input_output'[t].output = CurrentOutput(w)
               /\ last_input_output'[t].input = worker[w].reads
<1>1. PICK t \in Txns : t = worker[w].task.txn
  BY PhaseFacts
<1>2. /\ worker[w].todo = {}
      /\ last_input_output'[t] = [ok |-> ~worker[w].flag, input |-> worker[w].reads,
                                  output |-> CurrentOutput(w)]
  BY <1>1 DEF Record, TypeOK
<1> QED
  BY <1>1, <1>2

\* OutputsOK is preserved.
LEMMA OutputsStep ==
    ASSUME TypeOK, StatusOK, EntriesOK, OutputsOK, WritesOK, IncarnationsOK,
           NEW w \in Workers, Step(w), ~At(w, "error")'
    PROVE  OutputsOK'
<1> SUFFICES ASSUME NEW t \in Txns, \A x \in Workers : At(x, "write")' => worker'[x].task.txn # t
             PROVE  \A k \in DataKeys : Written(k, t)' <=> k \in DOMAIN last_input_output'[t].output
  BY DEF OutputsOK, OutputOf
<1>1. CASE Record(w) /\ worker[w].task.txn = t
  <2>1. WritesOf(w) /\ At(w, "write")
    BY <1>1 DEF WritesOK, Record
  <2>2. worker[w].todo = {} /\ last_input_output'[t].output = CurrentOutput(w)
    BY <1>1, RecordFields
  <2>3. data' = data
    BY <1>1 DEF Record
  <2> QED
    BY <1>1, <2>1, <2>2, <2>3 DEF WritesOf, Written
<1>2. CASE ~(Record(w) /\ worker[w].task.txn = t)
  <2>1. ASSUME NEW x \in Workers, At(x, "write") PROVE worker[x].task.txn # t
    <3>1. CASE x # w \/ (~Write(w) /\ ~Record(w))
      <4>1. At(x, "write")' /\ worker'[x].task = worker[x].task
        BY <2>1, <3>1, PhasesOf, ZenonT(40) DEF StartTask, Read, Interrupt, Suspend, Awake, At
      <4> QED
        BY <4>1
    <3>2. CASE x = w /\ Write(w)
      <4>1. At(x, "write")' /\ worker'[x].task = worker[x].task
        BY <3>2, WriteEffect DEF Becomes, At
      <4> QED
        BY <4>1
    <3>3. CASE x = w /\ Record(w)
      BY <1>2, <3>3
    <3> QED
      BY <3>1, <3>2, <3>3
  <2>2. \A k \in DataKeys : Written(k, t) <=> k \in DOMAIN last_input_output[t].output
    BY <2>1 DEF OutputsOK, OutputOf
  <2>3. last_input_output'[t] = last_input_output[t]
    BY <1>2, RecordedFrame
  <2>4. CASE SameData(t)
    BY <2>2, <2>3, <2>4 DEF SameData, Written
  <2>5. CASE Write(w) /\ worker[w].task.txn = t
    BY <2>1, <2>5 DEF Write
  <2>6. CASE MarkEstimate(w) /\ worker[w].task.txn = t
    <3>1. worker[w].todo \subseteq DataKeys
      BY <2>6 DEF MarkEstimate, At, IncarnationsOK, IncarnationBy, Aborting, PartlyEstimates, DataOf
    <3>2. PICK k \in worker[w].todo :
              /\ k \in DataKeys
              /\ Written(k, t)
              /\ MarkedFrom(data'[k][t], data[k][t])
              /\ \A j \in DataKeys, u \in Txns :
                    j # k \/ u # t => data'[j][u] = data[j][u]
      BY <2>6, <3>1, MarkEstimateData
    <3>3. data'[k][t] # NoEntry
      BY <3>2, EntryFacts DEF NoEntry, MarkedFrom
    <3> QED
      BY <2>2, <2>3, <3>2, <3>3 DEF Written
  <2> QED
    BY <2>4, <2>5, <2>6, DataFrame
<1> QED
  BY <1>1, <1>2

\* While a worker executes a transaction and does not write yet, no one does.
LEMMA NobodyWrites ==
    ASSUME TypeOK, StatusOK, OutputsOK, NEW w \in Workers, Busy(w), ~At(w, "write"), NEW t \in Txns,
           t = worker[w].task.txn
    PROVE  \A k \in DataKeys : Written(k, t) <=> k \in DOMAIN last_input_output[t].output
<1>1. ASSUME NEW y \in Workers, At(y, "write") PROVE worker[y].task.txn # t
  <2>1. Busy(y) /\ y # w
    BY <1>1, WhileExecuting DEF Busy
  <2> QED
    BY <2>1 DEF StatusOK, OneBusy
<1> QED
  BY <1>1 DEF OutputsOK, OutputOf

\* The state in which an execution begins to write.
LEMMA GoesWrites ==
    ASSUME TypeOK, StatusOK, OutputsOK, IncarnationsOK, NEW w \in Workers, Executing(w),
           worker[w].pc \notin {"write", "finish_execution"}, NEW reads, NEW failed \in BOOLEAN,
           Goes(w, reads, failed), data' = data, last_input_output' = last_input_output,
           block' = block
    PROVE  WritesOf(w)'
<1>a. PICK t \in Txns : t = worker[w].task.txn
  BY PhaseFacts
<1>b. PICK inc \in Nat : inc = worker[w].task.inc
  BY PhaseFacts
<1>c. PICK before : before = last_input_output[t].output
  OBVIOUS
<1>d. PICK output : output = IF failed THEN EmptyFunction
                  ELSE Output(block, t, [k \in DOMAIN reads |-> reads[k].val])
  OBVIOUS
<1>1. \A k \in DataKeys : Written(k, t) <=> k \in DOMAIN before
  BY <1>a, <1>c, NobodyWrites DEF Busy, At
<1>2. AllEstimates(t, inc)
  BY <1>a, <1>b DEF IncarnationsOK, IncarnationBy
<1>3. CASE worker'[w].pc = "write"
  <2>1. Becomes(w, "write", worker[w].task, worker[w].ret, reads,
                (DOMAIN output \cup DOMAIN before) \cap DataKeys, worker[w].num, failed)
    BY <1>3, <1>a, <1>c, <1>d DEF Goes, Becomes
  <2>2. /\ worker'[w].todo = (DOMAIN output \cup DOMAIN before) \cap DataKeys
        /\ worker'[w].task.txn = t /\ worker'[w].task.inc = inc
        /\ worker'[w].reads = reads /\ worker'[w].flag = failed
    BY <2>1, <1>a, <1>b DEF Becomes
  <2>3. CurrentOutput(w)' = output
    BY <1>d, <2>2 DEF CurrentOutput
  <2>4. last_input_output'[t].output = before
    BY <1>c
  <2>5. \A k \in DataKeys : Written(k, t)' <=> Written(k, t)
    BY DEF Written
  <2>6. \A k \in DataKeys : Written(k, t) => data'[k][t].inc < inc /\ data'[k][t].est
    BY <1>2 DEF AllEstimates
  <2>7. \A k \in DataKeys : k \notin worker'[w].todo =>
           ~Written(k, t) /\ k \notin DOMAIN output
    BY <1>1, <2>2
  <2>8. worker'[w].todo \subseteq DataOf(output) \cup DataOf(before)
    BY <2>2 DEF DataOf
  <2> QED
    BY <1>1, <2>2, <2>3, <2>4, <2>5, <2>6, <2>7, <2>8 DEF WritesOf, Written
<1>4. CASE worker'[w].pc # "write"
  BY <1>4 DEF WritesOf, At
<1> QED
  BY <1>3, <1>4

\* WritesOK is preserved: an execution finds the estimates of the one before.
LEMMA WritesStep ==
    ASSUME TypeOK, StatusOK, EntriesOK, OutputsOK, WritesOK, IncarnationsOK,
           NEW w \in Workers, Step(w), ~At(w, "error")'
    PROVE  WritesOK'
<1> SUFFICES ASSUME NEW x \in Workers PROVE WritesOf(x)'
  BY DEF WritesOK
<1>a. PICK t \in Txns : t = worker[x].task.txn
  BY PhaseFacts
<1>b. WritesOf(x) /\ block' = block
  BY Changes DEF WritesOK
<1>1. CASE x # w
  <2>1. worker'[x] = worker[x]
    BY <1>1, OtherRoles
  <2>2. CASE ~At(x, "write")
    BY <2>1, <2>2, SMTT(30) DEF WritesOf, At
  <2>3. CASE At(x, "write")
    <3>1. Busy(x)
      BY <2>3, WhileExecuting DEF Busy
    <3>2. SameData(t) /\ last_input_output'[t] = last_input_output[t]
      BY <1>1, <1>a, <3>1, DataFrame, DataOwner, RecordedFrame
    <3>3. CurrentOutput(x)' = CurrentOutput(x)
      BY <1>b, <2>1 DEF CurrentOutput
    <3>4. \A k \in DataKeys : data'[k][t] = data[k][t] /\ (Written(k, t)' <=> Written(k, t))
      BY <3>2 DEF SameData, Written
    <3> QED
      BY <1>a, <1>b, <2>1, <2>3, <3>2, <3>3, <3>4 DEF WritesOf, At, Written
  <2> QED
    BY <2>2, <2>3
<1>2. CASE x = w /\ Write(w)
  <2>1. PICK output : output = CurrentOutput(w)
    OBVIOUS
  <2>2. PICK inc \in Nat : inc = worker[w].task.inc
    BY PhaseFacts
  <2>3. PICK k \in worker[w].todo \cap DataKeys :
              /\ IF k \in DOMAIN output
                 THEN data'[k][t] = [inc |-> inc, val |-> output[k], est |-> FALSE]
                 ELSE data'[k][t] = NoEntry
              /\ \A j \in DataKeys, u \in Txns : j # k \/ u # t => data'[j][u] = data[j][u]
              /\ Becomes(w, "write", worker[w].task, worker[w].ret, worker[w].reads,
                         worker[w].todo \ {k}, worker[w].num, worker[w].flag)
    <3>1. PICK k \in worker[w].todo \cap DataKeys :
              /\ IF k \in DOMAIN CurrentOutput(w)
                 THEN data'[k][worker[w].task.txn] =
                         [inc |-> worker[w].task.inc, val |-> CurrentOutput(w)[k], est |-> FALSE]
                 ELSE data'[k][worker[w].task.txn] = NoEntry
              /\ \A j \in DataKeys, u \in Txns :
                    j # k \/ u # worker[w].task.txn => data'[j][u] = data[j][u]
              /\ Becomes(w, "write", worker[w].task, worker[w].ret, worker[w].reads,
                         worker[w].todo \ {k}, worker[w].num, worker[w].flag)
      BY <1>2, WriteData
    <3> QED
      BY <1>2, <1>a, <2>1, <2>2, <3>1
  <2>4. /\ worker'[w].task = worker[w].task /\ worker'[w].todo = worker[w].todo \ {k}
        /\ worker'[w].reads = worker[w].reads /\ worker'[w].flag = worker[w].flag
    BY <2>3 DEF Becomes
  <2>5. CurrentOutput(w)' = output
    BY <1>b, <2>1, <2>4 DEF CurrentOutput
  <2>6. last_input_output' = last_input_output /\ At(w, "write")
    BY <1>2 DEF Write
  <2>7. Written(k, t)' <=> k \in DOMAIN output
    BY <2>2, <2>3, EntryFacts DEF Written, NoEntry
  <2>8. Written(k, t)' => data'[k][t] = [inc |-> inc, val |-> output[k], est |-> FALSE]
    BY <2>3, <2>7
  <2>9. \A j \in DataKeys : j # k => data'[j][t] = data[j][t] /\ (Written(j, t)' <=> Written(j, t))
    BY <2>3 DEF Written
  <2>10. /\ worker[w].todo \subseteq DataOf(output) \cup DataOf(last_input_output[t].output)
         /\ \A j \in DataKeys :
              IF j \in worker[w].todo
              THEN /\ Written(j, t) <=> j \in DOMAIN last_input_output[t].output
                   /\ Written(j, t) => data[j][t].inc < inc /\ data[j][t].est
              ELSE /\ Written(j, t) <=> j \in DOMAIN output
                   /\ Written(j, t) =>
                         data[j][t] = [inc |-> inc, val |-> output[j], est |-> FALSE]
    BY <1>2, <1>a, <1>b, <2>1, <2>2, <2>6 DEF WritesOf
  <2>11. /\ worker'[w].todo \subseteq DataOf(output) \cup DataOf(last_input_output[t].output)
         /\ \A j \in DataKeys :
              IF j \in worker'[w].todo
              THEN /\ Written(j, t)' <=> j \in DOMAIN last_input_output[t].output
                   /\ Written(j, t)' => data'[j][t].inc < inc /\ data'[j][t].est
              ELSE /\ Written(j, t)' <=> j \in DOMAIN output
                   /\ Written(j, t)' =>
                         data'[j][t] = [inc |-> inc, val |-> output[j], est |-> FALSE]
    <3>1. worker'[w].todo \subseteq DataOf(output) \cup DataOf(last_input_output[t].output)
      BY <2>4, <2>10
    <3>2. ASSUME NEW j \in DataKeys, j # k
          PROVE
              IF j \in worker'[w].todo
              THEN /\ Written(j, t)' <=> j \in DOMAIN last_input_output[t].output
                   /\ Written(j, t)' => data'[j][t].inc < inc /\ data'[j][t].est
              ELSE /\ Written(j, t)' <=> j \in DOMAIN output
                   /\ Written(j, t)' =>
                         data'[j][t] = [inc |-> inc, val |-> output[j], est |-> FALSE]
      <4>1. j \in worker'[w].todo <=> j \in worker[w].todo
        BY <2>4, <3>2
      <4>2. data'[j][t] = data[j][t] /\ (Written(j, t)' <=> Written(j, t))
        BY <2>9, <3>2
      <4> QED
        BY <2>10, <4>1, <4>2
    <3>3. k \notin worker'[w].todo
      BY <2>4
    <3> QED
      BY <2>7, <2>8, <3>1, <3>2, <3>3
  <2> QED
    BY <1>2, <1>a, <2>2, <2>4, <2>5, <2>6, <2>11 DEF WritesOf, Written
<1>3. ASSUME x = w, StartTask(w) \/ Read(w) \/ Interrupt(w) \/ Suspend(w) \/ Awake(w)
      PROVE  WritesOf(x)'
  <2>1. CASE ~At(w, "write")'
    BY <1>3, <2>1 DEF WritesOf
  <2>2. CASE At(w, "write")'
    <3>1. Executing(w) /\ \E reads : \E failed \in BOOLEAN : Goes(w, reads, failed)
      <4>1. CASE StartTask(w)
        <5>1. CASE Kind(w) = "Execution"
          <6>1. worker[w].ret # "finish_execution"
            BY <4>1, PhaseFacts DEF StartTask, At, PhaseOK, FinishPcs
          <6> QED
            BY <4>1, <5>1, <6>1, StartTaskEffect DEF Executing
        <5>2. CASE Kind(w) # "Execution"
          <6>1. worker'[w].pc # "write"
            BY <4>1, <5>2, StartTaskEffect, PhaseFacts DEF PhaseOK, Moves, Becomes
          <6> QED
            BY <2>2, <6>1 DEF At
        <5> QED
          BY <5>1, <5>2
      <4>2. CASE Read(w)
        <5>1. Executing(w)
          BY <4>2, PhaseRoles DEF Read, At, ExecutionPcs
        <5>2. Goes(w, Captures(w, NextRead(w), ReadOf(NextRead(w), worker[w].task.txn)), FALSE)
          BY <2>2, <4>2, ReadEffect DEF Becomes, At
        <5> QED
          BY <5>1, <5>2
      <4>3. CASE Interrupt(w)
        <5>1. Executing(w)
          BY <4>3, PhaseRoles DEF Interrupt, At, ExecutionPcs
        <5> QED
          BY <4>3, <5>1, InterruptEffect
      <4>4. CASE Suspend(w)
        <5>1. Executing(w)
          BY <4>4, PhaseRoles DEF Suspend, At, ExecutionPcs
        <5>2. Goes(w, worker[w].reads, TRUE)
          BY <2>2, <4>4, SuspendEffect DEF Moves, Becomes, At
        <5> QED
          BY <5>1, <5>2
      <4>5. CASE Awake(w)
        <5>1. Executing(w)
          BY <4>5, PhaseRoles DEF Awake, At, ExecutionPcs
        <5>2. Goes(w, worker[w].reads, TRUE)
          BY <2>2, <4>5, AwakeEffect DEF Moves, Becomes, At
        <5> QED
          BY <5>1, <5>2
      <4> QED
        BY <1>3, <4>1, <4>2, <4>3, <4>4, <4>5
    <3>2. worker[w].pc \notin {"write", "finish_execution"}
      BY <1>3 DEF StartTask, Read, Interrupt, Suspend, Awake, At
    <3>3. data' = data /\ last_input_output' = last_input_output
      BY <1>3 DEF StartTask, Read, Interrupt, Suspend, Awake, shared, memory
    <3> QED
      BY <1>3, <1>b, <3>1, <3>2, <3>3, GoesWrites
  <2> QED
    BY <2>1, <2>2
<1>4. CASE x = w /\ Record(w)
  BY <1>4, RecordEffect DEF Becomes, WritesOf, At
<1>5. CASE x = w /\ ~Write(w) /\ ~Record(w) /\ ~StartTask(w) /\ ~Read(w) /\ ~Interrupt(w)
           /\ ~Suspend(w) /\ ~Awake(w)
  <2>1. At(w, "write")' <=> At(w, "write")
    BY <1>5, Phases
  <2>2. ~At(w, "write")
    BY <1>5, Zenon DEF At, Step, LockCommits, SkipCommits, TryCommit, TryCommitNothing,
         TryCommitContended, UnlockCommits, PublishModules, RecordValidationRequirements,
         AddToCommitQueue, HaltStart, HaltTxn, Halted, DrainCommitQueue, Wakeup, NextTask,
         ClaimValidation, StartValidation, ClaimExecution, TryIncarnate,
         WaitForDependency, FinishExecution, TakeDependencies,
         Resume, FetchMin, FinishLoad, RequireWave, TriggerWave, DecreaseValidationIdx, Validate,
         TryAbort, MarkEstimate, FinishAbort, AbortDone, AbortLoad, FinishValidation, Arm
  <2> QED
    BY <1>5, <2>1, <2>2 DEF WritesOf
<1> QED
  BY <1>1, <1>2, <1>3, <1>4, <1>5

\* What is said of entries that do not change stays so.
LEMMA SameEntries ==
    ASSUME NEW t \in Txns, SameData(t), NEW inc
    PROVE  /\ AllEstimates(t, inc) => AllEstimates(t, inc)'
           /\ last_input_output'[t] = last_input_output[t] =>
                 /\ AllFinal(t, inc) => AllFinal(t, inc)'
                 /\ \A todo : PartlyEstimates(t, inc, todo) => PartlyEstimates(t, inc, todo)'
<1>1. \A k \in DataKeys : data'[k][t] = data[k][t] /\ (Written(k, t)' <=> Written(k, t))
  BY DEF SameData, Written
<1>2. AllEstimates(t, inc) => AllEstimates(t, inc)'
  BY <1>1 DEF AllEstimates
<1>3. last_input_output'[t] = last_input_output[t] => (AllFinal(t, inc) => AllFinal(t, inc)')
  BY <1>1 DEF AllFinal
<1>4. last_input_output'[t] = last_input_output[t] =>
         \A todo : PartlyEstimates(t, inc, todo) => PartlyEstimates(t, inc, todo)'
  BY <1>1 DEF PartlyEstimates
<1> QED
  BY <1>2, <1>3, <1>4

\* What becomes of the entries when an execution is recorded, ...
LEMMA RecordEntries ==
    ASSUME TypeOK, WritesOK, NEW w \in Workers, Record(w), NEW t \in Txns,
           t = worker[w].task.txn, NEW inc, inc = worker[w].task.inc
    PROVE  AllFinal(t, inc)'
<1>1. WritesOf(w) /\ At(w, "write")
  BY DEF WritesOK, Record
<1>2. PICK output : output = CurrentOutput(w)
  OBVIOUS
<1>3. worker[w].todo = {} /\ last_input_output'[t].output = output /\ data' = data
  BY <1>2, RecordFields DEF Record
<1>4. \A k \in DataKeys : Written(k, t) =>
         data[k][t] = [inc |-> inc, val |-> output[k], est |-> FALSE]
  BY <1>1, <1>2, <1>3 DEF WritesOf
<1> QED
  BY <1>3, <1>4 DEF AllFinal, Written

\* ... when an abort starts, ...
LEMMA TryAbortEntries ==
    ASSUME TypeOK, StatusOK, ExecutionOK, OutputsOK, IncarnationsOK, NEW w \in Workers,
           TryAbort(w), Step(w), ~At(w, "error")', NEW t \in Txns, t = worker[w].task.txn,
           NEW inc, inc = worker[w].task.inc,
           may_abort(t, inc)
    PROVE  PartlyEstimates(t, inc, worker[w].todo)'
<1>1. txn_status[t].name = "Executed" /\ txn_status[t].inc = inc
  BY TryAbortStatus
<1>2. AllFinal(t, inc)
  BY <1>1 DEF IncarnationsOK, IncarnationOf, HasStatus
<1>3. data' = data /\ last_input_output' = last_input_output
  BY DEF TryAbort, memory
<1>4. worker'[w].todo = DOMAIN last_input_output[t].output \cap DataKeys
  BY TryAbortEffect DEF Becomes
<1>5. \A x \in Workers : At(x, "write") => worker[x].task.txn # t
  BY <1>1, NotBusy, WhileExecuting DEF Busy
<1>6. \A k \in DataKeys : Written(k, t) <=> k \in DOMAIN last_input_output[t].output
  BY <1>5 DEF OutputsOK, OutputOf
<1>7. \A k \in DataKeys : Written(k, t) => data[k][t].inc = inc /\ k \in worker'[w].todo
  <2>1. ASSUME NEW k \in DataKeys, Written(k, t)
        PROVE  data[k][t].inc = inc /\ k \in worker'[w].todo
    <3>1. PICK v : data[k][t] = [inc |-> inc, val |-> v, est |-> FALSE]
      BY <1>2, <2>1 DEF AllFinal
    <3>2. data[k][t].inc = inc
      BY <3>1
    <3> QED
      BY <1>4, <1>6, <2>1, <3>2
  <2> QED
    BY <2>1
<1> QED
  BY <1>3, <1>4, <1>7 DEF PartlyEstimates, DataOf, Written

\* ... goes on ...
LEMMA MarkEntries ==
    ASSUME TypeOK, EntriesOK, IncarnationsOK, NEW w \in Workers,
           MarkEstimate(w), ~At(w, "error")', NEW t \in Txns, t = worker[w].task.txn,
           NEW inc, inc = worker[w].task.inc
    PROVE  PartlyEstimates(t, inc, worker[w].todo)'
<1>1. At(w, "estimate")
  BY DEF MarkEstimate
<1>2. PartlyEstimates(t, inc, worker[w].todo)
  BY <1>1 DEF IncarnationsOK, IncarnationBy, Aborting, At
<1>3. worker[w].todo \subseteq DataKeys
  BY <1>2 DEF PartlyEstimates, DataOf
<1>4. PICK k \in worker[w].todo :
              /\ k \in DataKeys
              /\ Written(k, t)
              /\ MarkedFrom(data'[k][t], data[k][t])
              /\ \A j \in DataKeys, u \in Txns : j # k \/ u # t => data'[j][u] = data[j][u]
              /\ Becomes(w, "estimate", worker[w].task, worker[w].ret, worker[w].reads,
                         worker[w].todo \ {k}, worker[w].num, worker[w].flag)
  BY <1>3, MarkEstimateData, ZenonT(40)
<1>5. worker'[w].todo = worker[w].todo \ {k}
  BY <1>4 DEF Becomes
<1>6. last_input_output' = last_input_output
  BY DEF MarkEstimate
<1>7. data'[k][t].inc = inc /\ data'[k][t].est
  BY <1>2, <1>4 DEF MarkedFrom, PartlyEstimates
<1>8. ASSUME NEW j \in DataKeys, j # k, Written(j, t)'
      PROVE  data'[j][t].inc = inc /\ (j \notin worker'[w].todo => data'[j][t].est)
  <2>1. data'[j][t] = data[j][t]
    BY <1>4, <1>8
  <2>2. Written(j, t)
    BY <1>8, <2>1 DEF Written
  <2> QED
    BY <1>2, <1>5, <1>8, <2>1, <2>2 DEF PartlyEstimates
<1>9. worker'[w].todo \subseteq DataOf(last_input_output[t].output)
  BY <1>2, <1>5 DEF PartlyEstimates
<1> QED
  BY <1>6, <1>7, <1>8, <1>9 DEF PartlyEstimates, Written

\* What a status says of the entries.
LEMMA IncarnationOfStep ==
    ASSUME TypeOK, HaltOK, DependenciesOK, StatusOK, ExecutionOK, EntriesOK, OutputsOK, WritesOK,
           IncarnationsOK, NEW w \in Workers, Step(w), ~At(w, "error")', NEW t \in Txns
    PROVE  IncarnationOf(t)'
<1>a. IncarnationOf(t)
  BY DEF IncarnationsOK
<1>1. CASE (Write(w) \/ MarkEstimate(w) \/ Record(w)) /\ worker[w].task.txn = t
  <2>1. txn_status' = txn_status
    BY <1>1 DEF Write, MarkEstimate, Record, statuses
  <2>2. (At(w, "write") /\ Executing(w)) \/ Aborting(w)
    BY <1>1, WhileExecuting DEF Write, MarkEstimate, Record, Aborting, At
  <2>3. txn_status[t].name \in {"Halted", "Executing", "Aborting"}
    BY <1>1, <2>2 DEF ExecutionOK, ExecutionOf, At
  <2> QED
    BY <2>1, <2>3 DEF IncarnationOf, HasStatus
<1>2. CASE ~((Write(w) \/ MarkEstimate(w) \/ Record(w)) /\ worker[w].task.txn = t)
  <2>1. SameData(t) /\ last_input_output'[t] = last_input_output[t]
    BY <1>2, DataFrame, RecordedFrame
  <2>2. ASSUME NEW inc PROVE /\ AllEstimates(t, inc) => AllEstimates(t, inc)'
                             /\ AllFinal(t, inc) => AllFinal(t, inc)'
    BY <2>1, SameEntries
  <2>3. PICK inc : inc = txn_status'[t].inc
    OBVIOUS
  <2>4. CASE txn_status'[t] = txn_status[t]
    BY <1>a, <2>2, <2>3, <2>4 DEF IncarnationOf, HasStatus
  <2>5. CASE TryCommit(w) /\ t = commit_state.idx /\ txn_status[t].name = "Executed"
             /\ txn_status'[t].name = "Committed"
    <3>1. txn_status[t].inc = inc
      BY <2>3, <2>5, TryCommitStatus DEF SetsStatus
    <3> QED
      BY <1>a, <2>2, <2>3, <2>5, <3>1 DEF IncarnationOf, HasStatus
  <2>6. CASE txn_status'[t].name \in {"Halted", "Executing", "Suspended", "Aborting"}
    BY <2>6 DEF IncarnationOf, HasStatus
  <2>7. CASE FinishExecution(w) /\ worker[w].task.txn = t /\ txn_status[t].name = "Executing"
             /\ txn_status'[t].name = "Executed"
    <3>1. inc = worker[w].task.inc
      BY <2>3, <2>7, FinishExecutionStatus DEF SetsStatus
    <3>2. AllFinal(t, inc)
      BY <2>7, <3>1 DEF FinishExecution, IncarnationsOK, IncarnationBy
    <3> QED
      BY <2>2, <2>3, <2>7, <3>2 DEF IncarnationOf, HasStatus
  <2>8. CASE Resume(w) /\ t \in worker[w].todo /\ txn_status[t].name = "Suspended"
             /\ txn_status'[t].name = "Ready"
    <3>0. worker[w].todo \subseteq Txns
      BY <2>8 DEF DependenciesOK, Resume
    <3>1. txn_status[t].inc = inc
      BY <2>3, <2>8, <3>0, ResumeStatus DEF SetsStatus
    <3>2. PICK c \in Workers : Executing(c) /\ worker[c].task.txn = t
      <4>1. txn_status[t].cv \in Workers \cup {None}
        BY DEF TypeOK, Statuses
      <4> QED
        BY <2>8, <4>1 DEF StatusOK, StatusOf
    <3>3. At(c, "waiting") /\ worker[c].task.inc = inc
      BY <2>8, <3>1, <3>2 DEF ExecutionOK, ExecutionOf
    <3>4. AllEstimates(t, inc)
      BY <3>2, <3>3 DEF IncarnationsOK, IncarnationBy, At
    <3> QED
      BY <2>2, <2>3, <2>8, <3>4 DEF IncarnationOf, HasStatus
  <2>9. CASE FinishAbort(w) /\ worker[w].task.txn = t /\ txn_status[t].name = "Aborting"
             /\ txn_status'[t].name = "Ready"
    <3>1. PICK i \in Nat : i = worker[w].task.inc
      BY PhaseFacts
    <3>2. inc = i + 1 /\ worker[w].todo = {}
      BY <2>3, <2>9, <3>1, FinishAbortStatus DEF SetsStatus
    <3>3. PartlyEstimates(t, i, {})
      BY <2>9, <3>1, <3>2 DEF FinishAbort, IncarnationsOK, IncarnationBy, Aborting, At
    <3>4. AllEstimates(t, inc)
      BY <3>1, <3>2, <3>3 DEF AllEstimates, PartlyEstimates
    <3> QED
      BY <2>2, <2>3, <2>9, <3>4 DEF IncarnationOf, HasStatus
  <2> QED
    BY <2>4, <2>5, <2>6, <2>7, <2>8, <2>9, StatusNameStep
<1> QED
  BY <1>1, <1>2

\* IncarnationsOK is preserved.
LEMMA IncarnationsStep ==
    ASSUME TypeOK, HaltOK, DependenciesOK, StatusOK, ExecutionOK, EntriesOK, OutputsOK, WritesOK,
           IncarnationsOK, NEW w \in Workers, Step(w), ~At(w, "error")'
    PROVE  IncarnationsOK'
<1>1. \A t \in Txns : IncarnationOf(t)'
  BY IncarnationOfStep
<1>2. ASSUME NEW x \in Workers PROVE IncarnationBy(x)'
  <2>a. PICK t \in Txns : t = worker[x].task.txn
    BY PhaseFacts
  <2>b. PICK inc \in Nat : inc = worker[x].task.inc
    BY PhaseFacts
  <2>c. IncarnationBy(x)
    BY DEF IncarnationsOK
  <2>1. CASE x # w
    <3>1. /\ worker'[x] = worker[x]
          /\ Executing(x)' <=> Executing(x)
          /\ Aborting(x)' <=> Aborting(x)
      BY <2>1, OtherRoles
    <3>2. CASE ~Busy(x)
      BY <3>1, <3>2, WhileExecuting DEF Busy, IncarnationBy, At
    <3>3. CASE Busy(x)
      <4>1. SameData(t) /\ last_input_output'[t] = last_input_output[t]
        BY <2>1, <2>a, <3>3, DataFrame, DataOwner, RecordedFrame
      <4>2. PICK todo : todo = worker[x].todo
        OBVIOUS
      <4>3. /\ AllEstimates(t, inc) => AllEstimates(t, inc)'
            /\ AllFinal(t, inc) => AllFinal(t, inc)'
            /\ PartlyEstimates(t, inc, todo) => PartlyEstimates(t, inc, todo)'
        BY <4>1, SameEntries
      <4> QED
        BY <2>a, <2>b, <2>c, <3>1, <4>2, <4>3 DEF IncarnationBy, At
    <3> QED
      BY <3>2, <3>3
  <2>2. CASE x = w /\ Write(w)
    <3>1. At(w, "write")' /\ ~Aborting(w)'
      BY <2>2, WriteEffect DEF Becomes, At, Aborting
    <3> QED
      BY <2>2, <3>1 DEF IncarnationBy, At
  <2>3. CASE x = w /\ Record(w)
    <3>1. /\ worker'[w].pc = "finish_execution"
          /\ worker'[w].task = worker[w].task
      BY <2>3, RecordEffect DEF Becomes
    <3>2. AllFinal(t, inc)'
      BY <2>3, <2>a, <2>b, RecordEntries
    <3> QED
      BY <2>3, <2>a, <2>b, <3>1, <3>2 DEF IncarnationBy, At, Aborting
  <2>4. CASE x = w /\ MarkEstimate(w)
    <3>1. PartlyEstimates(t, inc, worker[w].todo)'
      BY <2>4, <2>a, <2>b, MarkEntries
    <3>2. /\ worker'[w].pc = "estimate"
          /\ worker'[w].task = worker[w].task /\ worker'[w].ret = worker[w].ret
      BY <2>4, MarkEstimateEffect DEF Becomes, At
    <3>3. ~Executing(w)'
      BY <2>4, <3>2, PhaseRoles DEF MarkEstimate, At, Aborting, Executing, Kind
    <3> QED
      BY <2>4, <2>a, <2>b, <3>1, <3>2, <3>3 DEF IncarnationBy, At
  <2>5. CASE x = w /\ TryIncarnate(w)
    <3>1. CASE txn_status[worker[w].num.idx].name = "Ready"
      <4>1. PICK n \in Txns : n = worker[w].num.idx
        BY <2>5, TryIncarnateStatus
      <4>2. PICK tk \in Tasks : tk.txn = n /\ tk.inc = txn_status[n].inc /\ Restarts(w, tk)
        BY <2>5, <3>1, <4>1, TryIncarnateStatus
      <4>3. PICK i : i = txn_status[n].inc
        OBVIOUS
      <4>4. AllEstimates(n, i)
        BY <3>1, <4>1, <4>3 DEF IncarnationsOK, IncarnationOf, HasStatus
      <4>5. SameData(n)
        BY <2>5 DEF SameData, TryIncarnate, memory
      <4>6. AllEstimates(n, i)'
        BY <4>4, <4>5, SameEntries
      <4>7. worker'[w].task.txn = n /\ worker'[w].task.inc = i /\ worker'[w].pc = "loop"
        BY <4>2, <4>3 DEF Restarts, Becomes
      <4> QED
        BY <2>5, <4>6, <4>7 DEF IncarnationBy, At, Aborting
    <3>2. CASE txn_status[worker[w].num.idx].name # "Ready"
      <4>1. Restarts(w, NoTask("Retry")) \/ Moves(w, "next")
        BY <2>5, <3>2, TryIncarnateStatus
      <4>2. worker'[w].pc \in {"loop", "next"} /\ Kind(w)' # "Execution"
        <5>1. CASE Restarts(w, NoTask("Retry"))
          BY <5>1, NoTaskFacts DEF Restarts, Becomes, Kind
        <5>2. CASE Moves(w, "next")
          <6>1. Kind(w) # "Execution"
            BY <2>5, PhaseFacts DEF TryIncarnate, At, PhaseOK, LoopPcs, ExecutionPcs, ValidationPcs,
               NextPcs, HookPcs, FinishPcs, AbortPcs
          <6> QED
            BY <5>2, <6>1 DEF Moves, Becomes, Kind
        <5> QED
          BY <4>1, <5>1, <5>2
      <4> QED
        BY <2>5, <4>2 DEF IncarnationBy, At, Aborting, Executing
    <3> QED
      BY <3>1, <3>2
  <2>6. CASE x = w /\ FinishExecution(w)
    <3>1. worker'[w].pc = "wake" /\ worker'[w].ret = "finish_execution"
      BY <2>6, FinishExecutionEffect DEF Becomes, At
    <3> QED
      BY <2>6, <3>1 DEF IncarnationBy, At, Aborting, Executing
  <2>7. CASE x = w /\ TryAbort(w)
    <3>1. Kind(w) # "Execution" /\ worker'[w].task = worker[w].task
      BY <2>7, PhaseRoles, TryAbortEffect DEF TryAbort, At, ValidationPcs, Becomes
    <3>2. ~Executing(w)'
      BY <3>1 DEF Executing, Kind
    <3>3. CASE may_abort(t, inc)
      <4>1. PartlyEstimates(t, inc, worker[w].todo)'
        BY <2>7, <2>a, <2>b, <3>3, TryAbortEntries
      <4>2. worker'[w].pc = "estimate"
        BY <2>7, <2>a, <2>b, <3>3, TryAbortEffect DEF Becomes
      <4> QED
        BY <2>7, <2>a, <2>b, <3>1, <3>2, <4>1, <4>2 DEF IncarnationBy, At
    <3>4. CASE ~may_abort(t, inc)
      <4>1. worker'[w].pc = "finish_validation"
        BY <2>7, <2>a, <2>b, <3>4, TryAbortEffect DEF Becomes
      <4> QED
        BY <2>7, <3>2, <4>1 DEF IncarnationBy, At, Aborting
    <3> QED
      BY <3>3, <3>4
  <2>8. CASE x = w /\ FinishAbort(w)
    <3>1. worker'[w].pc = "decrease" /\ worker'[w].task = worker[w].task
      BY <2>8, FinishAbortEffect DEF Becomes, At
    <3>2. Kind(w) # "Execution"
      BY <2>8, PhaseRoles DEF FinishAbort, At, ValidationPcs
    <3> QED
      BY <2>8, <3>1, <3>2 DEF IncarnationBy, At, Aborting, Executing, Kind
  <2>9. CASE x = w /\ ~Write(w) /\ ~Record(w) /\ ~MarkEstimate(w) /\ ~TryIncarnate(w)
             /\ ~FinishExecution(w) /\ ~TryAbort(w) /\ ~FinishAbort(w)
    <3>1. /\ Executing(w)' <=> Executing(w)
          /\ Executing(w) => worker'[w].task = worker[w].task
          /\ Aborting(w)' <=> Aborting(w)
          /\ Aborting(w) => worker'[w].task = worker[w].task /\ worker'[w].todo = worker[w].todo
      BY <2>9, RolesOf, PhasesOf
    <3>2. /\ At(w, "finish_execution")' <=> At(w, "finish_execution")
          /\ At(w, "write") => At(w, "write")'
      <4>1. At(w, "write") => ~StartTask(w) /\ ~Read(w) /\ ~Interrupt(w) /\ ~Suspend(w) /\ ~Awake(w)
        BY DEF StartTask, Read, Interrupt, Suspend, Awake, At
      <4> QED
        BY <2>9, <4>1, PhasesOf
    <3>3. SameData(t) /\ last_input_output'[t] = last_input_output[t]
      BY <2>9, <2>a, DataFrame, RecordedFrame
    <3>4. PICK todo : todo = worker[x].todo
      OBVIOUS
    <3>5. /\ AllEstimates(t, inc) => AllEstimates(t, inc)'
          /\ AllFinal(t, inc) => AllFinal(t, inc)'
          /\ PartlyEstimates(t, inc, todo) => PartlyEstimates(t, inc, todo)'
      BY <3>3, SameEntries
    <3>6. At(w, "finish_execution") => Executing(w)
      BY WhileExecuting
    <3>7. CASE Executing(w)
      <4>1. ~Aborting(w)
        BY <3>7, PhaseRoles
      <4> QED
        BY <2>9, <2>a, <2>b, <2>c, <3>1, <3>2, <3>5, <3>7, <4>1 DEF IncarnationBy, At
    <3>8. CASE Aborting(w)
      <4>1. ~Executing(w)
        BY <3>8, PhaseRoles
      <4> QED
        BY <2>9, <2>a, <2>b, <2>c, <3>1, <3>2, <3>4, <3>5, <3>6, <3>8, <4>1 DEF IncarnationBy, At
    <3>9. CASE ~Executing(w) /\ ~Aborting(w)
      BY <2>9, <3>1, <3>2, <3>6, <3>9 DEF IncarnationBy
    <3> QED
      BY <3>7, <3>8, <3>9
  <2> QED
    BY <2>1, <2>2, <2>3, <2>4, <2>5, <2>6, <2>7, <2>8, <2>9
<1> QED
  BY <1>1, <1>2 DEF IncarnationsOK

-----------------------------------------------------------------------------
(* Errors.                                                                 *)

\* Only these steps can run into an error.
LEMMA ErrorSteps ==
    ASSUME TypeOK, NEW w \in Workers, Step(w), At(w, "error")'
    PROVE  \/ TryCommit(w) \/ PublishModules(w) \/ AddToCommitQueue(w) \/ DrainCommitQueue(w)
           \/ Suspend(w) \/ Write(w) \/ FinishExecution(w) \/ Resume(w) \/ MarkEstimate(w)
           \/ FinishAbort(w)
<1>a. PhaseOK(w)
  BY DEF TypeOK, WorkerOK
<1> USE DEF PhaseOK, Kind, At, LoopPcs, HookPcs, ExecutionPcs, FinishPcs, AbortPcs, NextPcs,
            ValidationPcs
<1>1. LockCommits(w) => worker'[w].pc # "error"
  BY <1>a, LockCommitsEffect DEF Becomes, Moves, Goes, AfterWake, AfterDecrease, NoValidation
<1>2. SkipCommits(w) => worker'[w].pc # "error"
  BY <1>a, SkipCommitsEffect DEF Becomes, Moves, Goes, AfterWake, AfterDecrease, NoValidation
<1>3. TryCommitNothing(w) => worker'[w].pc # "error"
  BY <1>a, TryCommitNothingEffect DEF Becomes, Moves, Goes, AfterWake, AfterDecrease, NoValidation
<1>4. TryCommitContended(w) => worker'[w].pc # "error"
  BY <1>a, TryCommitContendedEffect DEF Becomes, Moves, Goes, AfterWake, AfterDecrease, NoValidation
<1>5. UnlockCommits(w) => worker'[w].pc # "error"
  BY <1>a, UnlockCommitsEffect DEF Becomes, Moves, Goes, AfterWake, AfterDecrease, NoValidation
<1>6. RecordValidationRequirements(w) => worker'[w].pc # "error"
  BY <1>a, RecordValidationRequirementsEffect DEF Becomes, Moves, Goes, AfterWake, AfterDecrease,
       NoValidation
<1>7. HaltStart(w) => worker'[w].pc # "error"
  BY <1>a, HaltStartEffect DEF Becomes, Moves, Goes, AfterWake, AfterDecrease, NoValidation
<1>8. HaltTxn(w) => worker'[w].pc # "error"
  BY <1>a, HaltTxnEffect DEF Becomes, Moves, Goes, AfterWake, AfterDecrease, NoValidation
<1>9. Halted(w) => worker'[w].pc # "error"
  BY <1>a, HaltedEffect DEF Becomes, Moves, Goes, AfterWake, AfterDecrease, NoValidation
<1>10. StartTask(w) => worker'[w].pc # "error"
  BY <1>a, StartTaskEffect DEF Becomes, Moves, Goes, AfterWake, AfterDecrease, NoValidation
<1>11. Wakeup(w) => worker'[w].pc # "error"
  BY <1>a, WakeupEffect DEF Becomes, Moves, Goes, AfterWake, AfterDecrease, NoValidation
<1>12. NextTask(w) => worker'[w].pc # "error"
  BY <1>a, NextTaskEffect, BackToLoop DEF Becomes, Moves, NoValidation, AfterDecrease
<1>13. ClaimValidation(w) => worker'[w].pc # "error"
  BY <1>a, ClaimValidationEffect DEF Becomes, Moves, Goes, AfterWake, AfterDecrease, NoValidation
<1>14. StartValidation(w) => worker'[w].pc # "error"
  BY <1>a, StartValidationFacts, BackToLoop DEF Becomes, Moves, NoValidation, AfterDecrease
<1>15. ClaimExecution(w) => worker'[w].pc # "error"
  BY <1>a, ClaimExecutionEffect DEF Becomes, Moves, Goes, AfterWake, AfterDecrease, NoValidation
<1>16. TryIncarnate(w) => worker'[w].pc # "error"
  BY <1>a, TryIncarnateEffect, BackToLoop DEF Becomes, Moves, NoValidation, AfterDecrease
<1>17. Read(w) => worker'[w].pc # "error"
  BY <1>a, ReadEffect DEF Becomes, Moves, Goes, AfterWake, AfterDecrease, NoValidation
<1>18. Interrupt(w) => worker'[w].pc # "error"
  BY <1>a, InterruptEffect DEF Becomes, Moves, Goes, AfterWake, AfterDecrease, NoValidation
<1>19. WaitForDependency(w) => worker'[w].pc # "error"
  BY <1>a, WaitForDependencyEffect DEF Becomes, Moves, Goes, AfterWake, AfterDecrease, NoValidation
<1>20. Awake(w) => worker'[w].pc # "error"
  BY <1>a, AwakeEffect DEF Becomes, Moves, Goes, AfterWake, AfterDecrease, NoValidation
<1>21. Record(w) => worker'[w].pc # "error"
  BY <1>a, RecordEffect DEF Becomes, Moves, Goes, AfterWake, AfterDecrease, NoValidation
<1>22. TakeDependencies(w) => worker'[w].pc # "error"
  BY <1>a, TakeDependenciesEffect DEF Becomes, Moves, Goes, AfterWake, AfterDecrease, NoValidation
<1>23. FetchMin(w) => worker'[w].pc # "error"
  BY <1>a, FetchMinEffect DEF Becomes, Moves, Goes, AfterWake, AfterDecrease, NoValidation
<1>24. FinishLoad(w) => worker'[w].pc # "error"
  BY <1>a, FinishLoadFacts, BackToLoop DEF Becomes, Moves, NoValidation, AfterDecrease
<1>25. RequireWave(w) => worker'[w].pc # "error"
  BY <1>a, RequireWaveEffect, BackToLoop DEF Becomes, Moves, NoValidation, AfterDecrease
<1>26. TriggerWave(w) => worker'[w].pc # "error"
  BY <1>a, TriggerWaveEffect DEF Becomes, Moves, Goes, AfterWake, AfterDecrease, NoValidation
<1>27. DecreaseValidationIdx(w) => worker'[w].pc # "error"
  BY <1>a, DecreaseFacts, BackToLoop DEF Becomes, Moves, NoValidation, AfterDecrease
<1>28. Validate(w) => worker'[w].pc # "error"
  BY <1>a, ValidateEffect DEF Becomes, Moves, Goes, AfterWake, AfterDecrease, NoValidation
<1>29. TryAbort(w) => worker'[w].pc # "error"
  BY <1>a, TryAbortEffect DEF Becomes, Moves, Goes, AfterWake, AfterDecrease, NoValidation
<1>30. AbortDone(w) => worker'[w].pc # "error"
  BY <1>a, AbortDoneEffect DEF Becomes, Moves, Goes, AfterWake, AfterDecrease, NoValidation
<1>31. AbortLoad(w) => worker'[w].pc # "error"
  BY <1>a, AbortLoadEffect, BackToLoop DEF Becomes, Moves, NoValidation, AfterDecrease
<1>32. FinishValidation(w) => worker'[w].pc # "error"
  BY <1>a, FinishValidationEffect, BackToLoop DEF Becomes, Moves, NoValidation, AfterDecrease
<1>33. Arm(w) => worker'[w].pc # "error"
  BY <1>a, ArmEffect, BackToLoop DEF Becomes, Moves, NoValidation, AfterDecrease
<1> QED
  BY <1>1, <1>2, <1>3, <1>4, <1>5, <1>6, <1>7, <1>8, <1>9, <1>10, <1>11, <1>12, <1>13, <1>14, <1>15,
       <1>16, <1>17, <1>18, <1>19, <1>20, <1>21, <1>22, <1>23, <1>24, <1>25, <1>26, <1>27, <1>28,
       <1>29, <1>30, <1>31, <1>32, <1>33 DEF Step

\* None of the ten steps that can fail does.
LEMMA TryCommitNoError ==
    ASSUME TypeOK, CommitsOK, ExecutionOK, NEW w \in Workers, TryCommit(w)
    PROVE  ~At(w, "error")'
<1> SUFFICES ASSUME commit_state.idx + 1 = num_txns, Kind(w) = "Execution" PROVE FALSE
  BY TryCommitEffect DEF Becomes, At
<1>1. Executing(w)
  BY PhaseFacts DEF TryCommit, At, PhaseOK, Executing, FinishPcs
<1>2. commit_state.idx <= worker[w].task.txn
  BY <1>1 DEF CommitsOK, Busy
<1>3. worker[w].task.txn = commit_state.idx
  <2>1. commit_state.idx \in Nat /\ worker[w].task.txn \in Nat /\ worker[w].task.txn < num_txns
    BY PhaseFacts, TxnFacts, Constants DEF TypeOK
  <2> QED
    BY <1>2, <2>1, Constants
<1>4. txn_status[worker[w].task.txn].name = "Executed"
  BY <1>3 DEF TryCommit
<1> QED
  BY <1>1, <1>4 DEF ExecutionOK, ExecutionOf, TryCommit, At

LEMMA PublishNoError ==
    ASSUME TypeOK, HaltOK, CommitsOK, StatusOK, NEW w \in Workers, PublishModules(w)
    PROVE  ~At(w, "error")'
<1>1. PICK t \in Txns : t = Txn(w)
  BY TxnType
<1>2. worker[w].ret = "hook"
  BY PhaseFacts DEF PublishModules, At, PhaseOK, LoopPcs, ExecutionPcs, ValidationPcs, NextPcs,
     HookPcs, FinishPcs, AbortPcs
<1>3. t = commit_state.idx - 1
  BY <1>1, <1>2 DEF Txn
<1>4. t < commit_state.idx
  BY <1>3 DEF TypeOK
<1>5. ~IsHalted(t)
  BY <1>2 DEF HaltOK, NoneHalted
<1>6. txn_status[t].name = "Committed"
  BY <1>4, <1>5 DEF CommitsOK, HasStatus, IsHalted
<1>7. last_input_output[t].ok
  BY <1>6 DEF StatusOK, StatusOf
<1> QED
  BY <1>1, <1>7, PublishModulesEffect DEF Moves, Becomes, At

LEMMA QueueNoError ==
    ASSUME TypeOK, QueueOK, NEW w \in Workers, AddToCommitQueue(w)
    PROVE  ~At(w, "error")'
<1>2. worker[w].ret = "hook"
  BY PhaseFacts DEF AddToCommitQueue, At, PhaseOK, LoopPcs, ExecutionPcs, ValidationPcs, NextPcs,
     HookPcs, FinishPcs, AbortPcs
<1>3. Queued = commit_state.idx - 1
  BY <1>2 DEF Queued
<1>4. Len(commit_queue) # num_txns
  <2>1. Len(commit_queue) <= commit_state.idx - 1 /\ Len(commit_queue) \in Nat
    BY <1>3 DEF QueueOK
  <2>2. commit_state.idx \in Nat /\ commit_state.idx <= num_txns
    BY Constants DEF TypeOK
  <2> QED
    BY <2>1, <2>2, Constants
<1> QED
  BY <1>4, AddToCommitQueueEffect DEF Becomes, At

LEMMA SuspendNoError ==
    ASSUME TypeOK, ExecutionOK, NEW w \in Workers, Suspend(w)
    PROVE  ~At(w, "error")'
<1>1. Executing(w) /\ ~At(w, "waiting")
  BY PhaseRoles DEF Suspend, At, ExecutionPcs
<1>2. txn_status[worker[w].task.txn].name \in {"Executing", "Halted"}
  BY <1>1 DEF ExecutionOK, ExecutionOf
<1>3. Moves(w, "waiting") \/ Goes(w, worker[w].reads, TRUE)
  BY <1>2, SuspendEffect
<1> QED
  BY <1>3, GoesFields DEF Moves, Becomes, At

LEMMA WriteNoError ==
    ASSUME TypeOK, WritesOK, NEW w \in Workers, Write(w)
    PROVE  ~At(w, "error")'
<1>a. PICK t \in Txns : t = worker[w].task.txn
  BY PhaseFacts
<1>b. PICK output : output = CurrentOutput(w)
  OBVIOUS
<1>c. PICK writes : writes = worker[w].todo \cap DOMAIN output
  OBVIOUS
<1>d. PICK inc \in Nat : inc = worker[w].task.inc
  BY PhaseFacts
<1>1. PICK k \in IF writes # {} THEN writes ELSE worker[w].todo :
              worker' = [worker EXCEPT
                    ![w].todo = @ \ {k},
                    ![w].pc = IF \/ k \in writes /\ ~may_write(k, t, inc)
                                 \/ k \notin writes /\ data[k][t] = NoEntry
                              THEN "error" ELSE @]
  BY <1>a, <1>b, <1>c, <1>d, Zenon DEF Write
<1>2. At(w, "write") /\ k \in worker[w].todo
  BY <1>1, <1>c DEF Write
<1>3. /\ worker[w].todo \subseteq DataOf(output) \cup DataOf(last_input_output[t].output)
      /\ \A j \in DataKeys : j \in worker[w].todo =>
            /\ Written(j, t) <=> j \in DOMAIN last_input_output[t].output
            /\ Written(j, t) => data[j][t].inc < inc
  BY <1>2, <1>a, <1>b, <1>d DEF WritesOK, WritesOf
<1>4. k \in DataKeys /\ (k \in DOMAIN output \/ k \in DOMAIN last_input_output[t].output)
  BY <1>2, <1>3 DEF DataOf
<1>5. may_write(k, t, inc)
  BY <1>2, <1>3, <1>4 DEF may_write, Written
<1>6. k \notin writes => data[k][t] # NoEntry
  BY <1>2, <1>3, <1>4, <1>c DEF Written
<1>7. worker' = [worker EXCEPT ![w].todo = @ \ {k}, ![w].pc = "write"]
  BY <1>1, <1>2, <1>5, <1>6 DEF At
<1> QED
  BY <1>7 DEF At, TypeOK, WorkerOK, FieldsOK, WorkerFields

LEMMA FinishExecutionNoError ==
    ASSUME TypeOK, ExecutionOK, NEW w \in Workers, FinishExecution(w)
    PROVE  ~At(w, "error")'
<1>1. Executing(w) /\ ~At(w, "waiting")
  BY PhaseRoles DEF FinishExecution, At, ExecutionPcs
<1>2. LET st == txn_status[worker[w].task.txn]
      IN  (st.name = "Executing" /\ st.inc = worker[w].task.inc) \/ st.name = "Halted"
  BY <1>1 DEF ExecutionOK, ExecutionOf
<1>3. worker' = [worker EXCEPT ![w].pc = "wake", ![w].ret = "finish_execution"]
  BY <1>2 DEF FinishExecution
<1> QED
  BY <1>3 DEF At, TypeOK, WorkerOK, FieldsOK, WorkerFields

LEMMA ResumeNoError ==
    ASSUME TypeOK, DependenciesOK, NEW w \in Workers, Resume(w)
    PROVE  ~At(w, "error")'
<1>1. worker[w].todo \subseteq Txns /\ At(w, "resume")
  BY DEF Resume, DependenciesOK
<1>2. PICK d \in worker[w].todo :
         Becomes(w, IF txn_status[d].name \notin {"Suspended", "Halted"} THEN "error"
                    ELSE IF worker[w].todo = {d} THEN "fetch_min" ELSE "resume",
                 worker[w].task, worker[w].ret, worker[w].reads, worker[w].todo \ {d},
                 worker[w].num, worker[w].flag)
  BY ResumeEffect
<1>3. txn_status[d].name \in {"Suspended", "Halted"}
  BY <1>1, <1>2 DEF DependenciesOK, DependentOf, ResumedBy, HasStatus
<1> QED
  BY <1>2, <1>3 DEF Becomes, At

LEMMA MarkNoError ==
    ASSUME TypeOK, StatusOK, OutputsOK, IncarnationsOK, NEW w \in Workers, MarkEstimate(w)
    PROVE  ~At(w, "error")'
<1>a. PICK t \in Txns : t = worker[w].task.txn
  BY PhaseFacts
<1>1. PICK k \in worker[w].todo :
              worker' = [worker EXCEPT
                    ![w].todo = @ \ {k},
                    ![w].pc = IF data[k][t] = NoEntry THEN "error" ELSE @]
  BY <1>a, Zenon DEF MarkEstimate
<1>2. At(w, "estimate") /\ Aborting(w)
  BY DEF MarkEstimate, Aborting, At
<1>3. k \in DataKeys /\ k \in DOMAIN last_input_output[t].output
  BY <1>1, <1>2, <1>a DEF IncarnationsOK, IncarnationBy, PartlyEstimates, DataOf
<1>4. Written(k, t)
  BY <1>2, <1>3, <1>a, NobodyWrites DEF Busy, At
<1>5. worker' = [worker EXCEPT ![w].todo = @ \ {k}, ![w].pc = "estimate"]
  BY <1>1, <1>2, <1>4 DEF Written, At
<1> QED
  BY <1>5 DEF At, TypeOK, WorkerOK, FieldsOK, WorkerFields

LEMMA FinishAbortNoError ==
    ASSUME TypeOK, ExecutionOK, NEW w \in Workers, FinishAbort(w)
    PROVE  ~At(w, "error")'
<1>1. Aborting(w)
  BY DEF FinishAbort, At, Aborting
<1>2. LET st == txn_status[worker[w].task.txn]
      IN  (st.name = "Aborting" /\ st.inc = worker[w].task.inc) \/ st.name = "Halted"
  BY <1>1 DEF ExecutionOK, ExecutionOf
<1>3. worker' = [worker EXCEPT ![w].pc = "decrease", ![w].ret = "finish_abort"]
  BY <1>2 DEF FinishAbort
<1> QED
  BY <1>3 DEF At, TypeOK, WorkerOK, FieldsOK, WorkerFields

LEMMA DrainNoError ==
    ASSUME TypeOK, QueueOK, CommittedOK, NEW w \in Workers, DrainCommitQueue(w)
    PROVE  ~At(w, "error")'
<1>1. commit_queue \in Seq(Nat) /\ commit_queue # <<>>
  BY DEF QueueOK, DrainCommitQueue
<1>2. PICK t : t = Head(commit_queue)
  OBVIOUS
<1>3. t = commit_queue[1] /\ Len(commit_queue) \in Nat /\ Len(commit_queue) >= 1
  BY <1>1, <1>2
<1>4. Queued \in Int /\ Queued <= commit_state.idx
  BY DEF Queued, TypeOK
<1>5. t \in 0 .. commit_state.idx - 1
  <2>1. t = Queued - Len(commit_queue)
    BY <1>3, <1>4 DEF QueueOK
  <2>2. Len(commit_queue) <= Queued /\ commit_state.idx \in Nat
    BY DEF QueueOK, TypeOK
  <2> QED
    BY <1>3, <1>4, <2>1, <2>2
<1>6. PICK io : io = last_input_output[t]
  OBVIOUS
<1>7. io.ok /\ \A k \in DOMAIN io.input \cap DataKeys : validate_read(k, io.input[k], t)
  BY <1>5, <1>6 DEF CommittedOK, CommittedOf, DataOf
<1>8. Goto(w, "drain")
  BY <1>2, <1>6, <1>7, Zenon DEF DrainCommitQueue
<1>9. Moves(w, "drain")
  BY <1>8, GotoStep
<1> QED
  BY <1>9 DEF Moves, Becomes, At

\* No step runs into an error.
LEMMA NoError ==
    ASSUME TypeOK, HaltOK, CommitsOK, QueueOK, StatusOK, ExecutionOK, DependenciesOK, OutputsOK,
           WritesOK, IncarnationsOK, CommittedOK, NEW w \in Workers, Step(w)
    PROVE  ~At(w, "error")'
BY ErrorSteps, TryCommitNoError, PublishNoError, QueueNoError, DrainNoError, SuspendNoError,
   WriteNoError, FinishExecutionNoError, ResumeNoError, MarkNoError, FinishAbortNoError

-----------------------------------------------------------------------------
(* Reading, and disturbing what others have read.                          *)

Reading(w) == worker[w].pc \in {"read", "wait", "suspend", "waiting"}

\* Disturbs, but for an execution that writes.
Unsettles(w) ==
    \/ Aborting(w)
    \/ worker[w].ret = "finish_abort" /\ At(w, "decrease")
    \/ At(w, "finish_execution") /\ worker[w].flag
    \/ Finishing(w) /\ worker[w].flag
          /\ worker[w].pc \in {"wake", "resume", "fetch_min", "finish_load", "decrease"}
    \/ worker[w].ret = "hook"
          /\ worker[w].pc \in {"require", "wake", "resume", "fetch_min", "decrease"}

\* The actions at which an execution reads on, begins to write and unsettles
\* the ones above.
LEMMA ReadPhases ==
    ASSUME TypeOK, NEW w \in Workers, Step(w), ~At(w, "error")'
    PROVE  /\ \/ (Reads(w) => (Pending(w)' => Pending(w)) /\ (Reading(w)' => Reading(w)))
              \/ TryIncarnate(w) \/ StartTask(w) \/ Read(w) \/ Interrupt(w) \/ Suspend(w) \/
                     Awake(w) \/ Record(w)
           /\ \/ ((At(w, "write")' <=> At(w, "write")) /\
                     (At(w, "write") => worker'[w].task = worker[w].task /\
                     worker'[w].reads = worker[w].reads /\
                     worker'[w].flag = worker[w].flag))
              \/ StartTask(w) \/ Read(w) \/ Interrupt(w) \/ Suspend(w) \/ Awake(w) \/ Record(w)
           /\ \/ (Unsettles(w) => Unsettles(w)' /\ worker'[w].task.txn = worker[w].task.txn
                               /\ (worker'[w].ret = "hook" <=> worker[w].ret = "hook"))
              \/ TriggerWave(w) \/ FinishLoad(w)
<1>a. PhaseOK(w)
  BY DEF TypeOK, WorkerOK
<1> USE DEF PhaseOK, Kind, At, LoopPcs, HookPcs, ExecutionPcs, FinishPcs, AbortPcs, NextPcs,
            ValidationPcs, Executing, Finishing, Pending, Reads, Aborting, Reading, Unsettles
<1>1. CASE LockCommits(w)
  BY <1>1, <1>a, LockCommitsEffect DEF Becomes, Moves, Goes, AfterWake, AfterDecrease, NoValidation
<1>2. CASE SkipCommits(w)
  BY <1>2, <1>a, SkipCommitsEffect DEF Becomes, Moves, Goes, AfterWake, AfterDecrease, NoValidation
<1>3. CASE TryCommit(w)
  BY <1>3, <1>a, TryCommitEffect DEF Becomes, Moves, Goes, AfterWake, AfterDecrease, NoValidation
<1>4. CASE TryCommitNothing(w)
  BY <1>4, <1>a, TryCommitNothingEffect DEF Becomes, Moves, Goes, AfterWake, AfterDecrease,
       NoValidation
<1>5. CASE TryCommitContended(w)
  BY <1>5, <1>a, TryCommitContendedEffect DEF Becomes, Moves, Goes, AfterWake, AfterDecrease,
       NoValidation
<1>6. CASE UnlockCommits(w)
  BY <1>6, <1>a, UnlockCommitsEffect DEF Becomes, Moves, Goes, AfterWake, AfterDecrease,
       NoValidation
<1>7. CASE PublishModules(w)
  BY <1>7, <1>a, PublishModulesEffect DEF Becomes, Moves, Goes, AfterWake, AfterDecrease,
       NoValidation
<1>8. CASE RecordValidationRequirements(w)
  BY <1>8, <1>a, RecordValidationRequirementsEffect
       DEF Becomes, Moves, Goes, AfterWake, AfterDecrease, NoValidation
<1>9. CASE AddToCommitQueue(w)
  BY <1>9, <1>a, AddToCommitQueueEffect DEF Becomes, Moves, Goes, AfterWake, AfterDecrease,
       NoValidation
<1>10. CASE HaltStart(w)
  BY <1>10, <1>a, HaltStartEffect DEF Becomes, Moves, Goes, AfterWake, AfterDecrease, NoValidation
<1>11. CASE HaltTxn(w)
  BY <1>11, <1>a, HaltTxnEffect DEF Becomes, Moves, Goes, AfterWake, AfterDecrease, NoValidation
<1>12. CASE Halted(w)
  BY <1>12, <1>a, HaltedEffect DEF Becomes, Moves, Goes, AfterWake, AfterDecrease, NoValidation
<1>13. CASE DrainCommitQueue(w)
  BY <1>13, <1>a, DrainCommitQueueEffect DEF Becomes, Moves, Goes, AfterWake, AfterDecrease,
       NoValidation
<1>14. CASE StartTask(w)
  BY <1>14, <1>a, StartTaskEffect DEF Becomes, Moves, Goes, AfterWake, AfterDecrease, NoValidation
<1>15. CASE Wakeup(w)
  BY <1>15, <1>a, WakeupEffect DEF Becomes, Moves, Goes, AfterWake, AfterDecrease, NoValidation
<1>16. CASE NextTask(w)
  BY <1>16, <1>a, NextTaskEffect, BackToLoop, NoTaskFacts, TaskKinds
       DEF Becomes, Moves, NoValidation, AfterDecrease
<1>17. CASE ClaimValidation(w)
  BY <1>17, <1>a, ClaimValidationEffect DEF Becomes, Moves, Goes, AfterWake, AfterDecrease,
       NoValidation
<1>18. CASE StartValidation(w)
  BY <1>18, <1>a, StartValidationFacts, BackToLoop, NoTaskFacts DEF Becomes, Moves, AfterDecrease
<1>19. CASE ClaimExecution(w)
  BY <1>19, <1>a, ClaimExecutionEffect DEF Becomes, Moves, Goes, AfterWake, AfterDecrease,
       NoValidation
<1>20. CASE TryIncarnate(w)
  BY <1>20, <1>a, TryIncarnateEffect, BackToLoop, NoTaskFacts, TaskKinds
       DEF Becomes, Moves, NoValidation, AfterDecrease
<1>21. CASE Read(w)
  BY <1>21, <1>a, ReadEffect DEF Becomes, Moves, Goes, AfterWake, AfterDecrease, NoValidation
<1>22. CASE Interrupt(w)
  BY <1>22, <1>a, InterruptEffect DEF Becomes, Moves, Goes, AfterWake, AfterDecrease, NoValidation
<1>23. CASE WaitForDependency(w)
  BY <1>23, <1>a, WaitForDependencyEffect DEF Becomes, Moves, Goes, AfterWake, AfterDecrease,
       NoValidation
<1>24. CASE Suspend(w)
  BY <1>24, <1>a, SuspendEffect DEF Becomes, Moves, Goes, AfterWake, AfterDecrease, NoValidation
<1>25. CASE Awake(w)
  BY <1>25, <1>a, AwakeEffect DEF Becomes, Moves, Goes, AfterWake, AfterDecrease, NoValidation
<1>26. CASE Write(w)
  BY <1>26, <1>a, WriteEffect DEF Becomes, Moves, Goes, AfterWake, AfterDecrease, NoValidation
<1>27. CASE Record(w)
  BY <1>27, <1>a, RecordEffect DEF Becomes, Moves, Goes, AfterWake, AfterDecrease, NoValidation
<1>28. CASE FinishExecution(w)
  BY <1>28, <1>a, FinishExecutionEffect DEF Becomes, Moves, Goes, AfterWake, AfterDecrease,
       NoValidation
<1>29. CASE TakeDependencies(w)
  BY <1>29, <1>a, TakeDependenciesEffect DEF Becomes, Moves, Goes, AfterWake, AfterDecrease,
       NoValidation
<1>30. CASE Resume(w)
  BY <1>30, <1>a, ResumeEffect DEF Becomes, Moves, Goes, AfterWake, AfterDecrease, NoValidation
<1>31. CASE FetchMin(w)
  BY <1>31, <1>a, FetchMinEffect DEF Becomes, Moves, Goes, AfterWake, AfterDecrease, NoValidation
<1>32. CASE FinishLoad(w)
  BY <1>32, <1>a, FinishLoadFacts, BackToLoop, NoTaskFacts DEF Becomes, Moves, AfterDecrease
<1>33. CASE RequireWave(w)
  BY <1>33, <1>a, RequireWaveEffect, BackToLoop, NoTaskFacts, TaskKinds
       DEF Becomes, Moves, NoValidation, AfterDecrease
<1>34. CASE TriggerWave(w)
  BY <1>34, <1>a, TriggerWaveEffect DEF Becomes, Moves, Goes, AfterWake, AfterDecrease, NoValidation
<1>35. CASE DecreaseValidationIdx(w)
  BY <1>35, <1>a, DecreaseFacts, BackToLoop, NoTaskFacts DEF Becomes, Moves, AfterDecrease
<1>36. CASE Validate(w)
  BY <1>36, <1>a, ValidateEffect DEF Becomes, Moves, Goes, AfterWake, AfterDecrease, NoValidation
<1>37. CASE TryAbort(w)
  BY <1>37, <1>a, TryAbortEffect DEF Becomes, Moves, Goes, AfterWake, AfterDecrease, NoValidation
<1>38. CASE MarkEstimate(w)
  BY <1>38, <1>a, MarkEstimateEffect DEF Becomes, Moves, Goes, AfterWake, AfterDecrease,
       NoValidation
<1>39. CASE FinishAbort(w)
  BY <1>39, <1>a, FinishAbortEffect DEF Becomes, Moves, Goes, AfterWake, AfterDecrease, NoValidation
<1>40. CASE AbortDone(w)
  BY <1>40, <1>a, AbortDoneEffect DEF Becomes, Moves, Goes, AfterWake, AfterDecrease, NoValidation
<1>41. CASE AbortLoad(w)
  BY <1>41, <1>a, AbortLoadEffect, BackToLoop, NoTaskFacts, TaskKinds
       DEF Becomes, Moves, NoValidation, AfterDecrease
<1>42. CASE FinishValidation(w)
  BY <1>42, <1>a, FinishValidationEffect, BackToLoop, NoTaskFacts, TaskKinds
       DEF Becomes, Moves, NoValidation, AfterDecrease
<1>43. CASE Arm(w)
  BY <1>43, <1>a, ArmEffect, BackToLoop, NoTaskFacts, TaskKinds
       DEF Becomes, Moves, NoValidation, AfterDecrease
<1> QED
  BY <1>1, <1>2, <1>3, <1>4, <1>5, <1>6, <1>7, <1>8, <1>9, <1>10, <1>11, <1>12, <1>13, <1>14, <1>15,
       <1>16, <1>17, <1>18, <1>19, <1>20, <1>21, <1>22, <1>23, <1>24, <1>25, <1>26, <1>27, <1>28,
       <1>29, <1>30, <1>31, <1>32, <1>33, <1>34, <1>35, <1>36, <1>37, <1>38, <1>39, <1>40, <1>41,
       <1>42, <1>43, ZenonT(40) DEF Step

-----------------------------------------------------------------------------
(* Reads.                                                                  *)

\* The keys a transaction reads are distinct.
LEMMA ReadKeyFacts ==
    ASSUME NEW b \in Blocks, NEW t \in Txns
    PROVE  /\ ReadKeys(b, t) \in Seq(Keys)
           /\ Len(ReadKeys(b, t)) \in Nat
           /\ \A i \in 1 .. Len(ReadKeys(b, t)) : ReadKeys(b, t)[i] \in Keys
           /\ \A i, j \in 1 .. Len(ReadKeys(b, t)) :
                 ReadKeys(b, t)[i] = ReadKeys(b, t)[j] => i = j
BY ReadKeysAssumption

\* So its first n keys are n keys.
LEMMA FirstReadsFacts ==
    ASSUME NEW b \in Blocks, NEW t \in Txns, NEW n \in 0 .. Len(ReadKeys(b, t))
    PROVE  /\ Cardinality(FirstReads(b, t, n)) = n
           /\ FirstReads(b, t, n) \subseteq Keys
           /\ FirstReads(b, t, 0) = {}
           /\ n < Len(ReadKeys(b, t)) =>
                 FirstReads(b, t, n + 1) = FirstReads(b, t, n) \cup {ReadKeys(b, t)[n + 1]}
           /\ n = Len(ReadKeys(b, t)) => FirstReads(b, t, n) = ReadSet(b, t)
<1> DEFINE keys == ReadKeys(b, t)
           F == FirstReads(b, t, n)
           f == [i \in 1 .. n |-> keys[i]]
<1>1. /\ keys \in Seq(Keys) /\ Len(keys) \in Nat
      /\ \A i \in 1 .. Len(keys) : keys[i] \in Keys
      /\ \A i, j \in 1 .. Len(keys) : keys[i] = keys[j] => i = j
  BY ReadKeyFacts
<1> HIDE DEF keys
<1>2. n \in Nat /\ n <= Len(keys)
  BY <1>1 DEF keys
<1>3. F = {keys[i] : i \in 1 .. n}
  BY DEF FirstReads, keys
<1>4. f \in Surjection(1 .. n, F)
  <2>1. f \in [1 .. n -> F]
    BY <1>3
  <2>2. \A k \in F : \E i \in 1 .. n : f[i] = k
    BY <1>3
  <2> QED
    BY <2>1, <2>2 DEF Surjection
<1>5. f \in Injection(1 .. n, F)
  <2>1. ASSUME NEW i \in 1 .. n, NEW j \in 1 .. n, f[i] = f[j] PROVE i = j
    <3>1. i \in 1 .. Len(keys) /\ j \in 1 .. Len(keys) /\ keys[i] = keys[j]
      BY <1>1, <1>2, <2>1
    <3> QED
      BY <1>1, <3>1
  <2>2. f \in [1 .. n -> F]
    BY <1>3
  <2>3. \A i, j \in 1 .. n : f[i] = f[j] => i = j
    BY <2>1
  <2> HIDE DEF f, F
  <2>4. IsInjective(f)
    BY <2>2, <2>3 DEF IsInjective
  <2> QED
    BY <2>2, <2>4 DEF Injection
<1>6. IsFiniteSet(1 .. n) /\ Cardinality(1 .. n) = n
  BY <1>2, FS_Interval
<1>7. Cardinality(F) = n
  <2> HIDE DEF F, f
  <2> QED
    BY <1>4, <1>5, <1>6, FS_Surjection
<1>8. F \subseteq Keys
  BY <1>1, <1>2, <1>3
<1>9. FirstReads(b, t, 0) = {}
  BY DEF FirstReads
<1>10. n < Len(keys) => FirstReads(b, t, n + 1) = F \cup {keys[n + 1]}
  <2>1. \A i : i \in 1 .. n + 1 <=> (i \in 1 .. n \/ i = n + 1)
    BY <1>2
  <2>2. FirstReads(b, t, n + 1) = {keys[i] : i \in 1 .. n + 1}
    BY DEF FirstReads, keys
  <2> HIDE DEF F
  <2> QED
    BY <1>3, <2>1, <2>2
<1>11. n = Len(keys) => F = ReadSet(b, t)
  BY DEF FirstReads, ReadSet, keys
<1> QED
  BY <1>7, <1>8, <1>9, <1>10, <1>11 DEF keys

\* The first none of them.
LEMMA EmptyReads ==
    ASSUME NEW b \in Blocks, NEW t \in Txns
    PROVE  /\ DOMAIN EmptyFunction = FirstReads(b, t, 0)
           /\ Cardinality(DOMAIN EmptyFunction) = 0
           /\ 0 \in 0 .. Len(ReadKeys(b, t))
<1>1. 0 \in 0 .. Len(ReadKeys(b, t))
  BY ReadKeyFacts
<1>2. FirstReads(b, t, 0) = {} /\ DOMAIN EmptyFunction = {}
  BY <1>1, FirstReadsFacts DEF EmptyFunction
<1> QED
  BY <1>1, <1>2, FS_EmptySet

\* The next key is new.
LEMMA NextReadFacts ==
    ASSUME TypeOK, NEW w \in Workers, ReadsBy(w), Reads(w), At(w, "read"),
           NEW t \in Txns, t = worker[w].task.txn, NEW n, n = Cardinality(DOMAIN worker[w].reads)
    PROVE  /\ n \in Nat /\ n + 1 \in 0 .. Len(ReadKeys(block, t))
           /\ NextRead(w) = ReadKeys(block, t)[n + 1]
           /\ NextRead(w) \in Keys
           /\ DOMAIN worker[w].reads \cup {NextRead(w)} = FirstReads(block, t, n + 1)
           /\ DOMAIN worker[w].reads \subseteq Keys
<1>1. /\ n \in 0 .. Len(ReadKeys(block, t)) /\ n < Len(ReadKeys(block, t))
      /\ DOMAIN worker[w].reads = FirstReads(block, t, n)
  BY DEF ReadsBy, At
<1>2. block \in Blocks
  BY DEF TypeOK
<1>3. Len(ReadKeys(block, t)) \in Nat
  BY <1>2, ReadKeyFacts
<1>4. NextRead(w) = ReadKeys(block, t)[n + 1]
  BY DEF NextRead
<1>5. n \in Nat /\ n + 1 \in 0 .. Len(ReadKeys(block, t)) /\ n + 1 \in 1 .. Len(ReadKeys(block, t))
  BY <1>1, <1>3
<1>6. NextRead(w) \in Keys
  BY <1>2, <1>4, <1>5, ReadKeyFacts
<1>7. /\ FirstReads(block, t, n + 1) = FirstReads(block, t, n) \cup {ReadKeys(block, t)[n + 1]}
      /\ FirstReads(block, t, n) \subseteq Keys
  BY <1>1, <1>2, FirstReadsFacts
<1> QED
  BY <1>1, <1>4, <1>5, <1>6, <1>7

\* An execution has read keys only.
LEMMA ReadsKeys ==
    ASSUME TypeOK, ReadsOK, NEW x \in Workers, Reads(x)
    PROVE  DOMAIN worker[x].reads \subseteq Keys
<1>1. PICK t \in Txns : t = worker[x].task.txn
  BY PhaseFacts
<1>2. PICK n : n = Cardinality(DOMAIN worker[x].reads)
  OBVIOUS
<1>3. n \in 0 .. Len(ReadKeys(block, t)) /\ DOMAIN worker[x].reads = FirstReads(block, t, n)
  BY <1>1, <1>2 DEF ReadsOK, ReadsBy
<1> QED
  BY <1>3, FirstReadsFacts DEF TypeOK

\* An execution that goes on has read a prefix of its keys.
LEMMA GoesReads ==
    ASSUME TypeOK, NEW w \in Workers, Executing(w), worker[w].ret = "loop", NEW reads,
           NEW failed \in BOOLEAN, Goes(w, reads, failed), block' = block, NEW t \in Txns,
           t = worker[w].task.txn, NEW n \in 0 .. Len(ReadKeys(block, t)),
           n = Cardinality(DOMAIN reads), DOMAIN reads = FirstReads(block, t, n)
    PROVE  ReadsBy(w)'
<1>1. /\ worker'[w].task = worker[w].task /\ worker'[w].ret = "loop"
      /\ worker'[w].reads = reads /\ worker'[w].flag = failed
      /\ worker'[w].pc \in {"read", "write"}
      /\ worker'[w].pc = "read" => n # Len(ReadKeys(block, t))
      /\ worker'[w].pc = "write" => failed \/ n = Len(ReadKeys(block, t))
  BY DEF Goes, Becomes
<1>2. ~Pending(w)'
  BY <1>1 DEF Pending, LoopPcs
<1>3. Len(ReadKeys(block, t)) \in Nat
  BY ReadKeyFacts DEF TypeOK
<1>4. n < Len(ReadKeys(block, t)) \/ n = Len(ReadKeys(block, t))
  BY <1>3
<1>5. /\ n \in 0 .. Len(ReadKeys(block, t))
      /\ DOMAIN worker'[w].reads = FirstReads(block, t, n)
      /\ Cardinality(DOMAIN worker'[w].reads) = n /\ worker'[w].task.txn = t
  BY <1>1
<1>6. worker'[w].pc = "read" => n < Len(ReadKeys(block, t))
  BY <1>1, <1>4
<1> QED
  BY <1>1, <1>2, <1>5, <1>6 DEF ReadsBy, At

\* The keys an execution has read are the first ones of its sequence.
LEMMA ReadsByStep ==
    ASSUME TypeOK, ReadsOK, NEW w \in Workers, Step(w), ~At(w, "error")', NEW x \in Workers
    PROVE  ReadsBy(x)'
<1>a. block' = block /\ block \in Blocks
  BY Changes DEF TypeOK
<1>b. ReadsBy(x)
  BY DEF ReadsOK
<1>c. PICK t \in Txns : t = worker[x].task.txn
  BY PhaseFacts
<1>d. PICK n : n = Cardinality(DOMAIN worker[x].reads)
  OBVIOUS
<1>1. CASE x # w
  <2>1. worker'[x] = worker[x]
    BY <1>1, OtherRoles
  <2> QED
    BY <1>a, <1>b, <2>1 DEF ReadsBy, Reads, Executing, Kind, Pending, At
<1>2. CASE x = w /\ TryIncarnate(w)
  <2>1. CASE worker'[w].reads = EmptyFunction /\ worker'[w].pc = "loop" /\
                 worker'[w].task.txn \in Txns
    <3>1. PICK v \in Txns : v = worker'[w].task.txn
      BY <2>1
    <3> QED
      BY <1>2, <1>a, <2>1, <3>1, EmptyReads DEF ReadsBy, At
  <2>2. CASE Moves(w, "next")
    <3>1. ~Executing(w)
      BY <1>2, PhaseRoles DEF TryIncarnate, At, NextPcs, Busy
    <3>2. ~Executing(w)'
      BY <2>2, <3>1 DEF Moves, Becomes, Executing, Kind
    <3> QED
      BY <1>2, <3>2 DEF ReadsBy, Reads
  <2>3. (\E tk \in Tasks : Restarts(w, tk)) \/ Moves(w, "next")
    BY <1>2, TryIncarnateStatus, NoTaskFacts
  <2>4. ASSUME NEW tk \in Tasks, Restarts(w, tk)
        PROVE  worker'[w].reads = EmptyFunction /\ worker'[w].pc = "loop"
               /\ worker'[w].task.txn \in Txns
    BY <2>4, TaskFields DEF Restarts, Becomes
  <2> QED
    BY <2>1, <2>2, <2>3, <2>4
<1>3. CASE x = w /\ StartTask(w)
  <2>1. CASE Kind(w) = "Execution"
    <3>1. Goes(w, EmptyFunction, FALSE) /\ worker[w].ret = "loop"
      BY <1>3, <2>1, StartTaskEffect, PhaseFacts DEF PhaseOK, At, HookPcs, FinishPcs, AbortPcs
    <3>2. Executing(w)
      BY <2>1, <3>1 DEF Executing
    <3> QED
      BY <1>3, <1>a, <1>c, <3>1, <3>2, EmptyReads, GoesReads
  <2>2. CASE Kind(w) # "Execution"
    <3>1. worker'[w].task = worker[w].task
      BY <1>3, <2>2, StartTaskEffect, PhaseFacts DEF PhaseOK, Moves, Becomes
    <3> QED
      BY <1>3, <2>2, <3>1 DEF ReadsBy, Reads, Executing, Kind
  <2> QED
    BY <2>1, <2>2
<1>4. CASE x = w /\ Read(w)
  <2>1. Executing(w) /\ worker[w].ret = "loop" /\ At(w, "read")
    BY <1>4, PhaseRoles DEF Read, At, ExecutionPcs
  <2>2. Reads(w)
    BY <2>1 DEF Reads, At
  <2>3. CASE Goes(w, Captures(w, NextRead(w), ReadOf(NextRead(w), worker[w].task.txn)), FALSE)
    <3>1. PICK reads : reads = Captures(w, NextRead(w), ReadOf(NextRead(w), worker[w].task.txn))
      OBVIOUS
    <3>2. DOMAIN reads = DOMAIN worker[w].reads \cup {NextRead(w)}
      BY <3>1 DEF Captures
    <3>3. DOMAIN reads = FirstReads(block, t, n + 1) /\ n + 1 \in 0 .. Len(ReadKeys(block, t))
      BY <1>4, <1>b, <1>c, <1>d, <2>1, <2>2, <3>2, NextReadFacts
    <3>4. Cardinality(DOMAIN reads) = n + 1
      BY <1>a, <3>3, FirstReadsFacts
    <3> QED
      BY <1>4, <1>a, <1>c, <2>1, <2>3, <3>1, <3>3, <3>4, GoesReads
  <2>4. CASE worker'[w].pc = "wait" /\ worker'[w].task = worker[w].task
             /\ worker'[w].ret = worker[w].ret /\ worker'[w].reads = worker[w].reads
    BY <1>4, <1>a, <1>b, <2>1, <2>2, <2>4 DEF ReadsBy, At, Pending, LoopPcs
  <2> QED
    BY <1>4, <2>3, <2>4, ReadEffect DEF Becomes
<1>5. CASE x = w /\ (Interrupt(w) \/ Suspend(w) \/ Awake(w))
  <2>1. Executing(w) /\ worker[w].ret = "loop" /\ worker[w].pc \in {"read", "suspend", "waiting"}
    BY <1>5, PhaseRoles DEF Interrupt, Suspend, Awake, At, ExecutionPcs
  <2>2. /\ Reads(w) /\ n \in 0 .. Len(ReadKeys(block, t)) /\ n < Len(ReadKeys(block, t))
        /\ DOMAIN worker[w].reads = FirstReads(block, t, n)
    BY <1>5, <1>b, <1>c, <1>d, <2>1 DEF Reads, ReadsBy, At
  <2>3. CASE Goes(w, worker[w].reads, TRUE)
    BY <1>5, <1>a, <1>c, <1>d, <2>1, <2>2, <2>3, GoesReads
  <2>4. CASE Moves(w, "waiting") \/ Moves(w, "read")
    <3>1. /\ worker'[w].pc \in {"waiting", "read"} /\ worker'[w].task = worker[w].task
          /\ worker'[w].ret = worker[w].ret /\ worker'[w].reads = worker[w].reads
      BY <2>4 DEF Moves, Becomes
    <3> QED
      BY <1>5, <1>a, <1>c, <1>d, <2>1, <2>2, <3>1 DEF ReadsBy, At, Pending, LoopPcs
  <2>5. Moves(w, "waiting") \/ Moves(w, "read") \/ Goes(w, worker[w].reads, TRUE)
    <3>1. CASE Interrupt(w)
      BY <3>1, InterruptEffect
    <3>2. CASE Suspend(w)
      BY <3>2, SuspendEffect DEF Moves, Becomes, At
    <3>3. CASE Awake(w)
      BY <3>3, AwakeEffect
    <3> QED
      BY <1>5, <3>1, <3>2, <3>3
  <2> QED
    BY <2>3, <2>4, <2>5
<1>6. CASE x = w /\ Record(w)
  <2>1. At(w, "finish_execution")'
    BY <1>6, RecordEffect DEF Becomes, At
  <2> QED
    BY <1>6, <2>1 DEF ReadsBy, Reads
<1>7. CASE x = w /\ ~TryIncarnate(w) /\ ~StartTask(w) /\ ~Read(w) /\ ~Interrupt(w) /\ ~Suspend(w)
           /\ ~Awake(w) /\ ~Record(w)
  <2>1. /\ Reads(w)' <=> Reads(w)
        /\ Reads(w) => worker'[w].task = worker[w].task /\ worker'[w].reads = worker[w].reads
    BY <1>7, Phases
  <2>2. CASE ~Reads(w)
    BY <1>7, <2>1, <2>2 DEF ReadsBy
  <2>3. CASE Reads(w)
    <3>1. (Pending(w)' => Pending(w)) /\ (Reading(w)' => Reading(w))
      BY <1>7, <2>3, ReadPhases
    <3>2. At(w, "write")' => At(w, "write") /\ worker'[w].flag = worker[w].flag
      BY <1>7, ReadPhases
    <3>3. worker'[w].task = worker[w].task /\ worker'[w].reads = worker[w].reads
      BY <2>1, <2>3
    <3>4. worker'[w].pc \in {"read", "wait", "suspend", "waiting"} =>
             worker[w].pc \in {"read", "wait", "suspend", "waiting"}
      BY <3>1 DEF Reading
    <3>5. At(w, "write")' /\ ~worker'[w].flag => At(w, "write") /\ ~worker[w].flag
      BY <3>2, Zenon
    <3> QED
      BY <1>7, <1>a, <1>b, <2>1, <2>3, <3>1, <3>3, <3>4, <3>5 DEF ReadsBy
  <2> QED
    BY <2>2, <2>3
<1> QED
  BY <1>1, <1>2, <1>3, <1>4, <1>5, <1>6, <1>7

\* The recorded output is that of the recorded reads.
LEMMA InputStep ==
    ASSUME TypeOK, ReadsOK, NEW w \in Workers, Step(w), NEW t \in Txns
    PROVE  InputOf(t)'
<1>a. block' = block /\ block \in Blocks
  BY Changes DEF TypeOK
<1>1. CASE last_input_output'[t] = last_input_output[t]
  BY <1>a, <1>1 DEF ReadsOK, InputOf
<1>2. CASE Record(w) /\ worker[w].task.txn = t
  <2>1. PICK io : io = last_input_output'[t]
    OBVIOUS
  <2>2. io = [ok |-> ~worker[w].flag, input |-> worker[w].reads, output |-> CurrentOutput(w)]
    BY <1>2, <2>1, RecordFields
  <2>3. /\ io.ok = ~worker[w].flag /\ io.input = worker[w].reads
        /\ io.output = CurrentOutput(w)
    BY <2>2, Zenon
  <2>4. CASE worker[w].flag
    <3>1. ~io.ok
      BY <2>3, <2>4, Zenon
    <3> QED
      BY <2>1, <3>1 DEF InputOf
  <2>5. CASE ~worker[w].flag
    <3>1. At(w, "write") /\ Executing(w)
      BY <1>2, PhaseRoles DEF Record, At, ExecutionPcs
    <3>2. Reads(w)
      BY <3>1 DEF Reads, At
    <3>3. PICK n : n = Cardinality(DOMAIN worker[w].reads)
      OBVIOUS
    <3>4. /\ n \in 0 .. Len(ReadKeys(block, t)) /\ n = Len(ReadKeys(block, t))
          /\ DOMAIN worker[w].reads = FirstReads(block, t, n)
      BY <1>2, <2>5, <3>1, <3>2, <3>3 DEF ReadsOK, ReadsBy
    <3>5. DOMAIN io.input = ReadSet(block, t)
      BY <1>a, <2>3, <3>4, FirstReadsFacts
    <3>6. io.output = Output(block, t, [k \in DOMAIN io.input |-> io.input[k].val])
      BY <1>2, <2>3, <2>5 DEF CurrentOutput
    <3> QED
      BY <1>a, <2>1, <3>5, <3>6 DEF InputOf
  <2> QED
    BY <2>4, <2>5
<1> QED
  BY <1>1, <1>2, RecordedFrame

\* ReadsOK is preserved.
LEMMA ReadsStep ==
    ASSUME TypeOK, ReadsOK, NEW w \in Workers, Step(w), ~At(w, "error")'
    PROVE  ReadsOK'
BY ReadsByStep, InputStep DEF ReadsOK

-----------------------------------------------------------------------------
(* Who disturbs what the transactions above have read, and until when.     *)

\* Disturbs without and with the case of an execution that writes.
LEMMA DisturbsParts ==
    ASSUME NEW x \in Workers
    PROVE  Disturbs(x) <=>
              \/ Unsettles(x)
              \/ At(x, "write") /\ needs_suffix_validation(worker[x].task.txn, CurrentOutput(x))
BY DEF Disturbs, Unsettles

LEMMA DisturbsPartsNext ==
    ASSUME NEW x \in Workers
    PROVE  /\ Unsettles(x)' => Disturbs(x)'
           /\ (At(x, "write") /\ needs_suffix_validation(worker[x].task.txn, CurrentOutput(x)))'
                 => Disturbs(x)'
BY DEF Disturbs, Unsettles

\* The needs of an execution that writes do not change before it records.
LEMMA NeedsStay ==
    ASSUME TypeOK, NEW w \in Workers, Step(w), NEW x \in Workers, NEW t \in Txns,
           t = worker[x].task.txn, worker'[x].task = worker[x].task,
           worker'[x].reads = worker[x].reads, worker'[x].flag = worker[x].flag,
           last_input_output'[t] = last_input_output[t],
           needs_suffix_validation(worker[x].task.txn, CurrentOutput(x))
    PROVE  needs_suffix_validation(worker[x].task.txn, CurrentOutput(x))'
<1>1. block' = block
  BY Changes
<1>2. CurrentOutput(x)' = CurrentOutput(x)
  BY <1>1 DEF CurrentOutput
<1> QED
  BY <1>2 DEF needs_suffix_validation

\* Whoever disturbs the transactions above does so until a new wave is
\* triggered.
LEMMA DisturbsStays ==
    ASSUME TypeOK, LocksOK, StatusOK, NEW w \in Workers, Step(w), ~At(w, "error")',
           NEW x \in Workers, Disturbs(x)
    PROVE  \/ Disturbs(x)' /\ Txn(x)' = Txn(x)
           \/ x = w /\ TriggerWave(w)
           \/ x = w /\ FinishLoad(w) /\ ~(validation_idx.idx > Txn(w))
<1>1. CASE x # w
  <2>1. worker'[x] = worker[x] /\ Txn(x)' = Txn(x)
    BY <1>1, OtherRoles, OtherTxn
  <2>2. CASE Unsettles(x)
    <3>1. Unsettles(x)'
      BY <2>1, <2>2 DEF Unsettles, Aborting, Finishing, At
    <3> QED
      BY <2>1, <3>1, DisturbsPartsNext
  <2>3. CASE At(x, "write") /\ needs_suffix_validation(worker[x].task.txn, CurrentOutput(x))
    <3>1. PICK t \in Txns : t = worker[x].task.txn
      BY PhaseFacts
    <3>2. Busy(x)
      BY <2>3, PhaseRoles DEF Busy, At, ExecutionPcs
    <3>3. ~(Record(w) /\ worker[w].task.txn = t)
      BY <1>1, <3>1, <3>2, DataOwner
    <3>4. last_input_output'[t] = last_input_output[t]
      BY <3>3, RecordedFrame
    <3>5. needs_suffix_validation(worker[x].task.txn, CurrentOutput(x))'
      BY <2>1, <2>3, <3>1, <3>4, NeedsStay
    <3>6. At(x, "write")'
      BY <2>1, <2>3 DEF At
    <3> QED
      BY <2>1, <3>5, <3>6, DisturbsPartsNext
  <2> QED
    BY <2>2, <2>3, DisturbsParts
<1>2. CASE x = w /\ Unsettles(w)
  <2>1. ~TryCommit(w) /\ ~TryCommitNothing(w)
    BY <1>2, PhaseFacts DEF TryCommit, TryCommitNothing, At, Unsettles, Aborting, Finishing,
       PhaseOK, LoopPcs, HookPcs, FinishPcs, AbortPcs
  <2>2. commit_state' = commit_state
    BY <2>1, Changes
  <2>3. CASE Unsettles(w)' /\ worker'[w].task.txn = worker[w].task.txn
               /\ (worker'[w].ret = "hook" <=> worker[w].ret = "hook")
    <3>1. Txn(w)' = Txn(w)
      BY <2>2, <2>3 DEF Txn
    <3> QED
      BY <1>2, <2>3, <3>1, DisturbsPartsNext
  <2>4. CASE FinishLoad(w)
    <3>1. worker[w].ret = "finish_execution" /\ At(w, "finish_load")
      BY <2>4, PhaseRoles DEF FinishLoad, Finishing
    <3>2. Txn(w) = worker[w].task.txn
      BY <3>1 DEF Txn
    <3>3. CASE validation_idx.idx > worker[w].task.txn
      <4>1. worker[w].flag
        BY <1>2, <3>1, Zenon DEF Unsettles, Aborting, Finishing, At
      <4>2. PICK tk \in Tasks : tk.txn = worker[w].task.txn /\
               Becomes(w, IF worker[w].flag THEN "decrease" ELSE "require_wave",
                       tk, worker[w].ret, worker[w].reads, worker[w].todo,
                       worker[w].num, worker[w].flag)
        BY <2>4, <3>3, FinishLoadFacts
      <4>3. /\ worker'[w].pc = "decrease" /\ worker'[w].ret = "finish_execution"
            /\ worker'[w].flag /\ worker'[w].task.txn = worker[w].task.txn
        BY <3>1, <4>1, <4>2 DEF Becomes
      <4>4. Unsettles(w)' /\ Txn(w)' = Txn(w)
        BY <3>2, <4>3 DEF Unsettles, Finishing, Txn
      <4> QED
        BY <1>2, <4>4, DisturbsPartsNext
    <3>4. CASE ~(validation_idx.idx > worker[w].task.txn)
      BY <1>2, <2>4, <3>2, <3>4
    <3> QED
      BY <3>3, <3>4
  <2> QED
    BY <1>2, <2>3, <2>4, ReadPhases
<1>3. CASE x = w /\ At(w, "write")
           /\ needs_suffix_validation(worker[w].task.txn, CurrentOutput(w))
  <2>1. PICK t \in Txns : t = worker[w].task.txn
    BY PhaseFacts
  <2>2. worker[w].ret = "loop"
    BY <1>3, PhaseRoles DEF At, ExecutionPcs
  <2>3. CASE Record(w)
    <3>1. /\ worker'[w].pc = "finish_execution" /\ worker'[w].task = worker[w].task
          /\ worker'[w].ret = worker[w].ret
          /\ worker'[w].flag = needs_suffix_validation(worker[w].task.txn, CurrentOutput(w))
      BY <2>3, RecordEffect, Zenon DEF Becomes
    <3>2. worker'[w].flag
      BY <1>3, <3>1, Zenon
    <3>3. Unsettles(w)'
      BY <3>1, <3>2, Zenon DEF Unsettles, At
    <3>4. Txn(w)' = Txn(w)
      BY <2>2, <3>1 DEF Txn
    <3> QED
      BY <1>3, <3>3, <3>4, DisturbsPartsNext
  <2>4. CASE ~Record(w)
    <3>1. ~StartTask(w) /\ ~Read(w) /\ ~Interrupt(w) /\ ~Suspend(w) /\ ~Awake(w)
      BY <1>3 DEF At, StartTask, Read, Interrupt, Suspend, Awake
    <3>2. /\ At(w, "write")' /\ worker'[w].task = worker[w].task
          /\ worker'[w].reads = worker[w].reads /\ worker'[w].flag = worker[w].flag
      BY <1>3, <2>4, <3>1, ReadPhases
    <3>3. last_input_output' = last_input_output
      BY <2>4, Changes
    <3>4. needs_suffix_validation(worker[w].task.txn, CurrentOutput(w))'
      BY <1>3, <2>1, <3>2, <3>3, NeedsStay
    <3>5. ~TryCommit(w) /\ ~AddToCommitQueue(w)
      BY <1>3 DEF At, TryCommit, AddToCommitQueue
    <3>6. worker'[w].ret # "hook"
      BY <2>2, <3>5, Roles
    <3>7. Txn(w)' = Txn(w)
      BY <2>2, <3>2, <3>6 DEF Txn
    <3> QED
      BY <1>3, <3>2, <3>4, <3>7, DisturbsPartsNext
  <2> QED
    BY <2>3, <2>4
<1> QED
  BY <1>1, <1>2, <1>3, DisturbsParts

\* A disturbance ends with a wave for the transactions above.
LEMMA WaveEnds ==
    ASSUME TypeOK, CommitsOK, NEW w \in Workers, Step(w),
           TriggerWave(w) \/ (FinishLoad(w) /\ ~(validation_idx.idx > Txn(w))),
           NEW t \in Txns, NEW u \in Int, Txn(w) < t, Covered(t, u)
    PROVE  ~Enough(t, u)'
<1>a. /\ validation_idx.idx \in Nat /\ validation_idx.wave \in Nat /\ t \in Nat
      /\ commit_state.idx \in Nat /\ t < num_txns /\ num_txns \in Nat
  BY WaveTypes, TxnFacts, Constants
<1>b. PICK n \in Nat : n = Txn(w)
  BY TxnType, TxnFacts
<1>c. u <= validation_idx.wave /\ (validation_idx.idx > t \/ ~Enough(t, u))
  BY DEF Covered
<1>1. CASE ~Enough(t, u)
  BY <1>1, EnoughBefore
<1>2. CASE Enough(t, u)
  <2>1. validation_idx.idx > t /\ n < t
    BY <1>2, <1>b, <1>c
  <2>2. n + 1 < num_txns /\ validation_idx.idx > n + 1 /\ validation_idx.idx > n
    BY <1>a, <1>b, <2>1
  <2>3. TriggerWave(w)
    BY <1>b, <2>2
  <2>4. /\ n + 1 \in Txns
        /\ validation_status'[n + 1].triggered > validation_idx.wave
        /\ commit_state' = commit_state
    BY <1>b, <2>2, <2>3, TriggerFacts
  <2>5. commit_state.idx <= n + 1
    BY <1>b, <2>3, DecreaseBound DEF TriggerWave
  <2>6. n + 1 \in commit_state'.idx .. t
    BY <1>a, <1>b, <2>1, <2>4, <2>5
  <2>7. validation_status'[n + 1].triggered \in Nat
    BY <2>4, TriggeredGrows
  <2>8. ~(u >= validation_status'[n + 1].triggered)
    BY <1>a, <1>c, <2>4, <2>7
  <2> QED
    BY <2>6, <2>8 DEF Enough
<1> QED
  BY <1>1, <1>2

\* A wave that counts after a step counted before, with nobody disturbing it.
LEMMA UndisturbedBefore ==
    ASSUME TypeOK, LocksOK, CommitsOK, StatusOK, NEW w \in Workers, Step(w), ~At(w, "error")',
           NEW t \in Txns, NEW u \in Int, Covered(t, u), Enough(t, u)', Undisturbed(t)'
    PROVE  Enough(t, u) /\ Undisturbed(t)
<1>1. Enough(t, u)
  BY EnoughBefore
<1>2. ASSUME NEW x \in Workers, Disturbs(x), ~(Txn(x) >= t)
      PROVE  FALSE
  <2>1. Txn(x) < t
    BY <1>2, TxnType, TxnFacts
  <2>2. ~(Disturbs(x)' /\ Txn(x)' = Txn(x))
    BY <1>2 DEF Undisturbed
  <2>3. x = w /\ (TriggerWave(w) \/ (FinishLoad(w) /\ ~(validation_idx.idx > Txn(w))))
    BY <1>2, <2>2, DisturbsStays
  <2> QED
    BY <2>1, <2>3, WaveEnds
<1> QED
  BY <1>1, <1>2 DEF Undisturbed

-----------------------------------------------------------------------------
(* What a read of the multi-version data returns.                          *)

\* fetch_data, for any state d of the data.
FetchIn(d, k, t) ==
    LET W == {j \in 0 .. t - 1 : d[k][j] # NoEntry}
    IN  IF W = {}
        THEN [ver |-> <<>>, val |-> Base[k], est |-> FALSE]
        ELSE LET j == CHOOSE j \in W : \A i \in W : i <= j
             IN  [ver |-> <<j, d[k][j].inc>>, val |-> d[k][j].val, est |-> d[k][j].est]

\* fetch_data as a function of the data.
LEMMA FetchNow ==
    \A k, t : fetch_data(k, t) = FetchIn(data, k, t)
BY Zenon DEF fetch_data, FetchIn, Writers

LEMMA FetchNext ==
    \A k, t : fetch_data(k, t)' = FetchIn(data', k, t)
BY Zenon DEF fetch_data, FetchIn, Writers

EntryRead(d, k, j) ==
    [ver |-> <<j, d[k][j].inc>>, val |-> d[k][j].val, est |-> d[k][j].est]

\* It returns the entry of the highest writer below, ...
LEMMA FetchTop ==
    ASSUME NEW d, NEW k, NEW t \in Nat, NEW j \in 0 .. t - 1, d[k][j] # NoEntry,
           \A i \in 0 .. t - 1 : d[k][i] # NoEntry => i <= j
    PROVE  FetchIn(d, k, t) = EntryRead(d, k, j)
<1> DEFINE W == {i \in 0 .. t - 1 : d[k][i] # NoEntry}
           m == CHOOSE i \in W : \A n \in W : n <= i
<1>1. j \in W /\ \A n \in W : n <= j
  OBVIOUS
<1>2. m \in W /\ \A n \in W : n <= m
  BY <1>1
<1>3. m = j
  <2>1. m <= j /\ j <= m
    BY <1>1, <1>2
  <2>2. m \in 0 .. t - 1
    BY <1>2
  <2> HIDE DEF m, W
  <2> QED
    BY <2>1, <2>2
<1>4. W # {}
  BY <1>1
<1>5. FetchIn(d, k, t) = EntryRead(d, k, m)
  BY <1>4, Zenon DEF FetchIn, EntryRead
<1> QED
  BY <1>3, <1>5

\* ... or the base value, ...
LEMMA FetchBase ==
    ASSUME NEW d, NEW k, NEW t \in Nat, \A j \in 0 .. t - 1 : d[k][j] = NoEntry
    PROVE  FetchIn(d, k, t) = [ver |-> <<>>, val |-> Base[k], est |-> FALSE]
BY DEF FetchIn

\* ... and there are no other cases.
LEMMA FetchCases ==
    ASSUME NEW d, NEW k, NEW t \in Nat
    PROVE  \/ \A j \in 0 .. t - 1 : d[k][j] = NoEntry
           \/ \E j \in 0 .. t - 1 :
                 /\ d[k][j] # NoEntry
                 /\ \A i \in 0 .. t - 1 : d[k][i] # NoEntry => i <= j
<1> DEFINE W == {i \in 0 .. t - 1 : d[k][i] # NoEntry}
<1>1. W \in SUBSET (0 .. t - 1)
  OBVIOUS
<1>2. W # {} => \E j \in W : \A i \in W : i <= j
  BY <1>1, GreatestOf
<1> QED
  BY <1>2

\* It depends on the entries below only.
LEMMA FetchSame ==
    ASSUME NEW d, NEW e, NEW k, NEW t \in Nat, \A j \in 0 .. t - 1 : e[k][j] = d[k][j]
    PROVE  FetchIn(e, k, t) = FetchIn(d, k, t)
<1>1. CASE \A j \in 0 .. t - 1 : d[k][j] = NoEntry
  BY <1>1, FetchBase
<1>2. ASSUME NEW j \in 0 .. t - 1, d[k][j] # NoEntry,
             \A i \in 0 .. t - 1 : d[k][i] # NoEntry => i <= j
      PROVE  FetchIn(e, k, t) = FetchIn(d, k, t)
  <2>1. FetchIn(d, k, t) = EntryRead(d, k, j)
    BY <1>2, FetchTop
  <2>2. FetchIn(e, k, t) = EntryRead(e, k, j)
    BY <1>2, FetchTop
  <2> QED
    BY <2>1, <2>2 DEF EntryRead
<1>3. \/ \A j \in 0 .. t - 1 : d[k][j] = NoEntry
      \/ \E j \in 0 .. t - 1 :
            /\ d[k][j] # NoEntry
            /\ \A i \in 0 .. t - 1 : d[k][i] # NoEntry => i <= j
  BY FetchCases
<1> QED
  BY <1>1, <1>2, <1>3

\* The fields of what is read.
LEMMA EntryReadFacts ==
    \A d, k, j : LET r == EntryRead(d, k, j)
                 IN  r.ver = <<j, d[k][j].inc>> /\ r.val = d[k][j].val /\ r.est = d[k][j].est
BY Zenon DEF EntryRead

\* An estimate that a read does not meet has an entry above it.
LEMMA FetchAbove ==
    ASSUME NEW d, NEW e, NEW k, NEW t \in Nat, NEW i \in 0 .. t - 1,
           \A j \in 0 .. t - 1 : j # i => e[k][j] = d[k][j],
           d[k][i] # NoEntry, d[k][i].est, ~FetchIn(d, k, t).est
    PROVE  FetchIn(e, k, t) = FetchIn(d, k, t)
<1>1. PICK j \in 0 .. t - 1 :
         d[k][j] # NoEntry /\ \A n \in 0 .. t - 1 : d[k][n] # NoEntry => n <= j
  BY FetchCases
<1>2. FetchIn(d, k, t) = EntryRead(d, k, j)
  BY <1>1, FetchTop
<1>3. j # i
  <2>1. EntryRead(d, k, j).est = d[k][j].est
    BY EntryReadFacts, Zenon
  <2>2. ~d[k][j].est
    BY <1>2, <2>1, Zenon
  <2> QED
    BY <2>2, Zenon
<1>4. i <= j
  BY <1>1
<1>5. e[k][j] = d[k][j]
  BY <1>1, <1>3
<1>6. \A n \in 0 .. t - 1 : e[k][n] # NoEntry => n <= j
  BY <1>1, <1>4
<1>7. FetchIn(e, k, t) = EntryRead(e, k, j)
  BY <1>1, <1>5, <1>6, FetchTop
<1> QED
  BY <1>2, <1>5, <1>7 DEF EntryRead

\* One transaction further.
LEMMA FetchFurther ==
    ASSUME NEW d, NEW k, NEW t \in Nat
    PROVE  FetchIn(d, k, t + 1) =
              IF d[k][t] # NoEntry THEN EntryRead(d, k, t) ELSE FetchIn(d, k, t)
<1>a. \A j : j \in 0 .. (t + 1) - 1 <=> (j \in 0 .. t - 1 \/ j = t)
  OBVIOUS
<1>1. CASE d[k][t] # NoEntry
  BY <1>1, <1>a, FetchTop
<1>2. CASE d[k][t] = NoEntry
  <2>1. CASE \A j \in 0 .. t - 1 : d[k][j] = NoEntry
    <3>1. \A j \in 0 .. (t + 1) - 1 : d[k][j] = NoEntry
      BY <1>2, <1>a, <2>1
    <3>2. t + 1 \in Nat
      OBVIOUS
    <3> QED
      BY <1>2, <2>1, <3>1, <3>2, FetchBase
  <2>2. ASSUME NEW j \in 0 .. t - 1, d[k][j] # NoEntry,
               \A i \in 0 .. t - 1 : d[k][i] # NoEntry => i <= j
        PROVE  FetchIn(d, k, t + 1) = FetchIn(d, k, t)
    <3>1. FetchIn(d, k, t) = EntryRead(d, k, j)
      BY <2>2, FetchTop
    <3>2. j \in 0 .. (t + 1) - 1
      BY <1>a
    <3>3. \A i \in 0 .. (t + 1) - 1 : d[k][i] # NoEntry => i <= j
      BY <1>2, <1>a, <2>2
    <3>4. FetchIn(d, k, t + 1) = EntryRead(d, k, j)
      BY <2>2, <3>2, <3>3, FetchTop
    <3> QED
      BY <3>1, <3>4
  <2>3. \/ \A j \in 0 .. t - 1 : d[k][j] = NoEntry
        \/ \E j \in 0 .. t - 1 :
              /\ d[k][j] # NoEntry
              /\ \A i \in 0 .. t - 1 : d[k][i] # NoEntry => i <= j
    BY FetchCases
  <2> QED
    BY <1>2, <2>1, <2>2, <2>3
<1> QED
  BY <1>1, <1>2

-----------------------------------------------------------------------------
(* A valid read stays valid while nobody below disturbs it.                *)

\* As long as nobody below disturbs it, a read returns the same.
LEMMA FetchStays ==
    ASSUME TypeOK, EntriesOK, WritesOK, IncarnationsOK, NEW w \in Workers, Step(w),
           ~At(w, "error")', NEW t \in Txns, NEW k \in DataKeys, Undisturbed(t),
           ~fetch_data(k, t).est
    PROVE  fetch_data(k, t)' = fetch_data(k, t)
<1>a. t \in Nat /\ \A j \in 0 .. t - 1 : j \in Txns /\ j < t
  BY TxnFacts, Constants
<1>b. PICK me \in Txns : me = worker[w].task.txn
  BY PhaseFacts
<1>1. CASE \A j \in 0 .. t - 1 : data'[k][j] = data[k][j]
  BY <1>1, <1>a, FetchSame, FetchNow, FetchNext
<1>2. CASE ~\A j \in 0 .. t - 1 : data'[k][j] = data[k][j]
  <2>1. PICK j \in 0 .. t - 1 : data'[k][j] # data[k][j]
    BY <1>2
  <2>2. (Write(w) \/ MarkEstimate(w)) /\ me = j
    BY <1>a, <1>b, <2>1, DataFrame, SMTT(30) DEF SameData
  <2>3. worker[w].ret = "loop"
    BY <2>2, PhaseRoles DEF Write, MarkEstimate, At, ExecutionPcs, Aborting
  <2>4. Txn(w) = j /\ j < t
    BY <1>a, <1>b, <2>2, <2>3 DEF Txn
  <2>5. ~Disturbs(w)
    BY <1>a, <2>4 DEF Undisturbed
  <2>6. ~MarkEstimate(w)
    BY <2>5, DisturbsParts DEF MarkEstimate, At, Unsettles, Aborting
  <2>7. Write(w) /\ At(w, "write")
    BY <2>2, <2>6 DEF Write
  <2>8. ~needs_suffix_validation(me, CurrentOutput(w))
    BY <1>b, <2>5, <2>7, DisturbsParts
  <2>9. PICK kk \in worker[w].todo \cap DataKeys :
           \A i \in DataKeys, u \in Txns : i # kk \/ u # me => data'[i][u] = data[i][u]
    <3>1. PICK kk \in worker[w].todo \cap DataKeys :
             \A i \in DataKeys, u \in Txns :
                i # kk \/ u # worker[w].task.txn => data'[i][u] = data[i][u]
      BY <2>7, WriteData
    <3> QED
      BY <1>b, <3>1
  <2>10. kk = k
    BY <1>a, <2>1, <2>9
  <2>11. k \in DOMAIN last_input_output[me].output
    <3>1. worker[w].todo \subseteq DataOf(CurrentOutput(w)) \cup DataOf(last_input_output[me].output)
      BY <1>b, <2>7 DEF WritesOK, WritesOf
    <3> QED
      BY <2>8, <2>9, <2>10, <3>1 DEF DataOf, needs_suffix_validation
  <2>12. k \in worker[w].todo
    BY <2>9, <2>10
  <2>13. Written(k, me) /\ data[k][me].est
    BY <1>b, <2>7, <2>11, <2>12 DEF WritesOK, WritesOf
  <2>14. \A i \in 0 .. t - 1 : i # me => data'[k][i] = data[k][i]
    BY <1>a, <2>9
  <2>15. data[k][me] # NoEntry /\ me \in 0 .. t - 1
    BY <2>2, <2>13 DEF Written
  <2>16. ~FetchIn(data, k, t).est
    BY FetchNow, Zenon
  <2>17. FetchIn(data', k, t) = FetchIn(data, k, t)
    BY <1>a, <2>13, <2>14, <2>15, <2>16, FetchAbove
  <2> QED
    BY <2>17, FetchNow, FetchNext
<1> QED
  BY <1>1, <1>2

\* The same for modules, ...
LEMMA ModuleStays ==
    ASSUME TypeOK, NEW w \in Workers, Step(w), ~At(w, "error")', NEW t \in Txns,
           commit_state.idx <= t, Undisturbed(t)', NEW k \in ModuleKeys
    PROVE  modules'[k] = modules[k]
<1>1. CASE modules' = modules
  BY <1>1
<1>2. CASE PublishModules(w)
  <2>1. CASE DOMAIN last_input_output[Txn(w)].output \cap ModuleKeys = {}
    BY <1>2, <2>1 DEF PublishModules
  <2>2. CASE DOMAIN last_input_output[Txn(w)].output \cap ModuleKeys # {}
    <3>1. worker'[w].pc = "require" /\ worker'[w].ret = worker[w].ret
      BY <1>2, <2>2, PublishModulesEffect DEF Moves, Becomes, At
    <3>2. worker[w].ret = "hook"
      BY <1>2, PhaseFacts DEF PublishModules, At, PhaseOK, LoopPcs, ExecutionPcs, NextPcs,
         ValidationPcs, FinishPcs, AbortPcs
    <3>3. Disturbs(w)'
      BY <3>1, <3>2, DisturbsPartsNext DEF Unsettles
    <3>4. commit_state' = commit_state
      BY <1>2 DEF PublishModules, indices
    <3>5. Txn(w)' = commit_state.idx - 1
      BY <3>1, <3>2, <3>4 DEF Txn
    <3>6. commit_state.idx - 1 >= t
      BY <3>3, <3>5 DEF Undisturbed
    <3> QED
      BY <3>6, WaveTypes, TxnFacts
  <2> QED
    BY <2>1, <2>2
<1> QED
  BY <1>1, <1>2, Changes

\* ... for the validation of a read, ...
LEMMA ValidateStays ==
    ASSUME TypeOK, EntriesOK, WritesOK, IncarnationsOK, NEW w \in Workers, Step(w),
           ~At(w, "error")', NEW t \in Txns, NEW k \in Keys, NEW read, Undisturbed(t),
           Undisturbed(t)', commit_state.idx <= t, validate_read(k, read, t)
    PROVE  validate_read(k, read, t)'
<1>1. CASE k \in ModuleKeys
  BY <1>1, ModuleStays DEF validate_read
<1>2. CASE k \notin ModuleKeys
  <2>1. k \in DataKeys
    BY <1>2 DEF DataKeys
  <2>2. ~fetch_data(k, t).est /\ fetch_data(k, t).ver = read.ver
    BY <1>2 DEF validate_read
  <2>3. fetch_data(k, t)' = fetch_data(k, t)
    BY <2>1, <2>2, FetchStays
  <2> QED
    BY <1>2, <2>2, <2>3, Zenon DEF validate_read
<1> QED
  BY <1>1, <1>2

\* ... and for what a wave vouches for.
LEMMA VouchesStays ==
    ASSUME TypeOK, LocksOK, CommitsOK, StatusOK, EntriesOK, WritesOK, IncarnationsOK,
           NEW w \in Workers, Step(w), ~At(w, "error")', NEW t \in Txns, NEW u \in Int,
           NEW k \in Keys, NEW read, Covered(t, u), commit_state.idx <= t,
           Vouches(t, u, k, read)
    PROVE  Vouches(t, u, k, read)'
<1> SUFFICES ASSUME Enough(t, u)', Undisturbed(t)'
             PROVE  validate_read(k, read, t)'
  BY Zenon DEF Vouches
<1>1. Enough(t, u) /\ Undisturbed(t)
  BY UndisturbedBefore
<1>2. validate_read(k, read, t)
  BY <1>1, Zenon DEF Vouches
<1> QED
  BY <1>1, <1>2, ValidateStays

-----------------------------------------------------------------------------
(* The reads of an execution stay as good as the wave they are promised.   *)

\* A transaction reads keys.
LEMMA ReadSetKeys ==
    ASSUME NEW b \in Blocks, NEW t \in Txns
    PROVE  ReadSet(b, t) \subseteq Keys
BY ReadKeyFacts DEF ReadSet

\* As long as nothing is halted, the executions that are recorded did not
\* fail.
LEMMA RecordedOK ==
    ASSUME TypeOK, StatusOK, ExecutionOK, NoneHalted, NEW t \in Txns, Recorded(t)
    PROVE  last_input_output[t].ok
<1>1. CASE HasStatus(t, {"Executed"})
  BY <1>1 DEF StatusOK, StatusOf, HasStatus
<1>2. ASSUME NEW x \in Workers, At(x, "finish_execution"), worker[x].task.txn = t
      PROVE  last_input_output[t].ok
  BY <1>2 DEF ExecutionOK, ExecutionOf, NoneHalted, IsHalted
<1> QED
  BY <1>1, <1>2 DEF Recorded

\* Their reads are keys.
LEMMA InputKeys ==
    ASSUME TypeOK, StatusOK, ExecutionOK, ReadsOK, NoneHalted, NEW t \in Txns, Recorded(t)
    PROVE  DOMAIN last_input_output[t].input \subseteq Keys
<1>1. DOMAIN last_input_output[t].input = ReadSet(block, t)
  BY RecordedOK DEF ReadsOK, InputOf
<1> QED
  BY <1>1, ReadSetKeys DEF TypeOK

\* Nothing was halted before a state in which nothing is.
LEMMA NoneHaltedBefore ==
    ASSUME TypeOK, HaltOK, DependenciesOK, NEW w \in Workers, Step(w), ~At(w, "error")',
           NoneHalted'
    PROVE  NoneHalted
BY HaltedStays DEF NoneHalted

\* Recorded reads are those of before, or those of the execution that ends.
LEMMA RecordedStep ==
    ASSUME TypeOK, HaltOK, DependenciesOK, NEW w \in Workers, Step(w), ~At(w, "error")',
           NEW t \in Txns, Recorded(t)'
    PROVE  \/ Recorded(t) /\ last_input_output'[t] = last_input_output[t]
           \/ Record(w) /\ worker[w].task.txn = t /\ Reads(w)
                /\ last_input_output'[t].input = worker[w].reads
<1>1. CASE Record(w) /\ worker[w].task.txn = t
  <2>1. At(w, "write") /\ Executing(w)
    BY <1>1, PhaseRoles DEF Record, At, ExecutionPcs
  <2>2. Reads(w)
    BY <2>1 DEF Reads, At
  <2> QED
    BY <1>1, <2>2, RecordFields
<1>2. CASE ~(Record(w) /\ worker[w].task.txn = t)
  <2>1. last_input_output'[t] = last_input_output[t]
    BY <1>2, RecordedFrame
  <2>2. CASE HasStatus(t, {"Executed"})'
    <3>1. \/ txn_status'[t] = txn_status[t]
          \/ FinishExecution(w) /\ worker[w].task.txn = t
      BY <2>2, StatusNameStep DEF HasStatus
    <3>2. CASE txn_status'[t] = txn_status[t]
      BY <2>1, <2>2, <3>2 DEF HasStatus, Recorded
    <3>3. CASE FinishExecution(w) /\ worker[w].task.txn = t
      BY <2>1, <3>3 DEF FinishExecution, Recorded
    <3> QED
      BY <3>1, <3>2, <3>3
  <2>3. ASSUME NEW x \in Workers, At(x, "finish_execution")', worker'[x].task.txn = t
        PROVE  Recorded(t)
    <3>1. ~(x = w /\ FinishExecution(w))
      BY <2>3, FinishExecutionEffect DEF Becomes, At
    <3>2. x = w => ~Record(w)
      BY <1>2, <2>3, RecordEffect DEF Becomes
    <3>3. At(x, "finish_execution") /\ worker'[x].task = worker[x].task
      BY <2>3, <3>1, <3>2, PhasesOf
    <3> QED
      BY <2>3, <3>3 DEF Recorded
  <2> QED
    BY <2>1, <2>2, <2>3 DEF Recorded
<1> QED
  BY <1>1, <1>2

\* A new read is valid as it is made.
LEMMA ReadIsValid ==
    ASSUME TypeOK, NEW w \in Workers, Step(w), Read(w), NEW t \in Txns, t = worker[w].task.txn,
           NEW k, k = NextRead(w), ~ReadOf(k, t).est, NEW reads,
           reads = Captures(w, k, ReadOf(k, t))
    PROVE  /\ DOMAIN reads = DOMAIN worker[w].reads \cup {k}
           /\ \A j \in DOMAIN worker[w].reads : j # k => reads[j] = worker[w].reads[j]
           /\ validate_read(k, reads[k], t)'
           /\ reads[k].ver = ReadOf(k, t).ver /\ reads[k].val = ReadOf(k, t).val
<1>1. /\ DOMAIN reads = DOMAIN worker[w].reads \cup {k}
      /\ \A j \in DOMAIN worker[w].reads : j # k => reads[j] = worker[w].reads[j]
      /\ reads[k] = [ver |-> ReadOf(k, t).ver, val |-> ReadOf(k, t).val]
  BY DEF Captures
<1>2. reads[k].ver = ReadOf(k, t).ver /\ reads[k].val = ReadOf(k, t).val
  BY <1>1
<1>3. data' = data /\ modules' = modules
  BY DEF Read, shared, memory
<1>4. CASE k \in ModuleKeys
  <2>1. ReadOf(k, t).ver = modules[k].ver
    BY <1>4 DEF ReadOf
  <2> QED
    BY <1>1, <1>2, <1>3, <1>4, <2>1 DEF validate_read
<1>5. CASE k \notin ModuleKeys
  <2>1. ReadOf(k, t) = fetch_data(k, t)
    BY <1>5 DEF ReadOf
  <2>2. fetch_data(k, t)' = fetch_data(k, t)
    BY <1>3, FetchNow, FetchNext
  <2>3. ~fetch_data(k, t).est /\ fetch_data(k, t).ver = reads[k].ver
    BY <1>2, <2>1, Zenon
  <2>4. validate_read(k, reads[k], t)'
    BY <1>5, <2>2, <2>3, Zenon DEF validate_read
  <2> QED
    BY <1>1, <1>2, <2>4
<1> QED
  BY <1>4, <1>5

\* The reads of an execution are those of before, and at most one more.
LEMMA ReadsAre ==
    ASSUME TypeOK, ReadsOK, NEW w \in Workers, Step(w), ~At(w, "error")', NEW x \in Workers,
           Reads(x)', NEW t \in Txns, t = worker'[x].task.txn, NEW k, k \in DOMAIN worker'[x].reads
    PROVE  \/ /\ Reads(x) /\ worker[x].task.txn = t /\ k \in DOMAIN worker[x].reads
              /\ worker'[x].reads[k] = worker[x].reads[k]
              /\ k \in Keys
           \/ /\ Read(w) /\ x = w /\ worker[x].task.txn = t
              /\ k = NextRead(w) /\ k \in Keys
              /\ \E read : read = worker'[x].reads[k] /\ validate_read(k, read, t)'
              /\ ~ReadOf(k, t).est
              /\ worker'[x].reads[k].ver = ReadOf(k, t).ver
              /\ worker'[x].reads[k].val = ReadOf(k, t).val
<1>1. CASE Reads(x) /\ worker'[x].task = worker[x].task /\ worker'[x].reads = worker[x].reads
  BY <1>1, ReadsKeys
<1>2. CASE x = w /\ TryIncarnate(w)
  <2>1. (\E tk \in Tasks : Restarts(w, tk)) \/ Moves(w, "next")
    BY <1>2, TryIncarnateStatus, NoTaskFacts
  <2>2. ASSUME NEW tk \in Tasks, Restarts(w, tk)
        PROVE  FALSE
    <3>1. worker'[w].reads = EmptyFunction
      BY <2>2 DEF Restarts, Becomes
    <3> QED
      BY <1>2, <3>1 DEF EmptyFunction
  <2>3. CASE Moves(w, "next")
    <3>1. ~Executing(w)
      BY <1>2, PhaseRoles DEF TryIncarnate, At, NextPcs, Busy
    <3>2. ~Executing(w)'
      BY <2>3, <3>1 DEF Moves, Becomes, Executing, Kind
    <3> QED
      BY <1>2, <3>2 DEF Reads
  <2> QED
    BY <2>1, <2>2, <2>3
<1>3. CASE x = w /\ StartTask(w)
  <2>1. CASE Kind(w) = "Execution"
    <3>1. Goes(w, EmptyFunction, FALSE)
      BY <1>3, <2>1, StartTaskEffect
    <3>2. worker'[w].reads = EmptyFunction
      BY <3>1, GoesFields
    <3> QED
      BY <1>3, <3>2 DEF EmptyFunction
  <2>2. CASE Kind(w) # "Execution"
    <3>1. worker'[w].task = worker[w].task
      BY <1>3, <2>2, StartTaskEffect, PhaseFacts DEF PhaseOK, Moves, Becomes
    <3> QED
      BY <1>3, <2>2, <3>1 DEF Reads, Executing, Kind
  <2> QED
    BY <2>1, <2>2
<1>4. CASE x = w /\ Read(w)
  <2>1. Executing(w) /\ At(w, "read")
    BY <1>4, PhaseRoles DEF Read, At, ExecutionPcs
  <2>2. Reads(w)
    BY <2>1 DEF Reads, At
  <2>3. CASE worker'[w].task = worker[w].task /\ worker'[w].reads = worker[w].reads
    BY <1>1, <1>4, <2>2, <2>3
  <2>4. CASE /\ ~ReadOf(NextRead(w), worker[w].task.txn).est
             /\ Goes(w, Captures(w, NextRead(w), ReadOf(NextRead(w), worker[w].task.txn)), FALSE)
    <3>1. PICK reads : reads = Captures(w, NextRead(w), ReadOf(NextRead(w), worker[w].task.txn))
      OBVIOUS
    <3>2. worker'[w].reads = reads /\ worker'[w].task = worker[w].task
      BY <2>4, <3>1, GoesFields
    <3>3. worker[w].task.txn = t
      BY <1>4, <3>2
    <3>4. PICK kk : kk = NextRead(w)
      OBVIOUS
    <3>5. /\ DOMAIN reads = DOMAIN worker[w].reads \cup {kk}
          /\ \A j \in DOMAIN worker[w].reads : j # kk => reads[j] = worker[w].reads[j]
          /\ validate_read(kk, reads[kk], t)'
          /\ reads[kk].ver = ReadOf(kk, t).ver /\ reads[kk].val = ReadOf(kk, t).val
      BY <1>4, <2>4, <3>1, <3>3, <3>4, ReadIsValid
    <3>6. kk \in Keys
      <4>1. PICK n : n = Cardinality(DOMAIN worker[w].reads)
        OBVIOUS
      <4> QED
        BY <1>4, <2>1, <2>2, <3>3, <3>4, <4>1, NextReadFacts DEF ReadsOK
    <3>7. CASE k = kk
      <4>1. PICK read : read = reads[k]
        OBVIOUS
      <4>2. validate_read(k, read, t)'
        BY <3>5, <3>7, <4>1
      <4>3. read = worker'[x].reads[k]
        BY <1>4, <3>2, <4>1
      <4> QED
        BY <1>4, <2>4, <3>2, <3>3, <3>4, <3>5, <3>6, <3>7, <4>2, <4>3
    <3>8. CASE k # kk
      <4>1. k \in DOMAIN worker[w].reads /\ reads[k] = worker[w].reads[k]
        BY <1>4, <3>2, <3>5, <3>8
      <4>2. k \in Keys
        BY <2>2, <4>1, ReadsKeys
      <4> QED
        BY <1>4, <2>2, <3>2, <3>3, <4>1, <4>2
    <3> QED
      BY <3>7, <3>8
  <2> QED
    BY <1>4, <2>3, <2>4, ReadEffect DEF Becomes
<1>5. CASE x = w /\ Record(w)
  <2>1. At(w, "finish_execution")'
    BY <1>5, RecordEffect DEF Becomes, At
  <2> QED
    BY <1>5, <2>1 DEF Reads
<1> QED
  BY <1>1, <1>2, <1>3, <1>4, <1>5, PhasesOf

\* What a wave promises of the reads of a transaction.
LEMMA PromiseStays ==
    ASSUME TypeOK, LocksOK, HaltOK, CommitsOK, CommitsOK', StatusOK, ExecutionOK, DependenciesOK,
           EntriesOK, WritesOK, IncarnationsOK, ReadsOK, NoneHalted, NEW w \in Workers, Step(w),
           ~At(w, "error")', NEW t \in Txns, NEW u \in Int, Covered(t, u), Promise(t, u)
    PROVE  Promise(t, u)'
<1>a. commit_state'.idx <= t => commit_state.idx <= t
  BY CommitGrows, WaveTypes, TxnFacts
<1>1. ASSUME NEW x \in Workers, Reads(x)', worker'[x].task.txn = t,
             NEW k \in DOMAIN worker'[x].reads
      PROVE  Vouches(t, u, k, worker[x].reads[k])'
  <2>1. Busy(x)'
    BY <1>1 DEF Reads, Busy
  <2>2. commit_state.idx <= t
    BY <1>1, <1>a, <2>1 DEF CommitsOK
  <2>3. PICK read : read = worker'[x].reads[k]
    OBVIOUS
  <2>4. CASE /\ Reads(x) /\ worker[x].task.txn = t /\ k \in DOMAIN worker[x].reads
             /\ worker'[x].reads[k] = worker[x].reads[k] /\ k \in Keys
    <3>1. Vouches(t, u, k, read)
      BY <2>3, <2>4 DEF Promise
    <3>2. Vouches(t, u, k, read)'
      BY <2>2, <2>4, <3>1, VouchesStays
    <3> QED
      BY <2>3, <3>2 DEF Vouches
  <2>5. CASE validate_read(k, read, t)'
    <3>1. Vouches(t, u, k, read)'
      BY <2>5, Zenon DEF Vouches
    <3> QED
      BY <2>3, <3>1 DEF Vouches
  <2>6. \/ /\ Reads(x) /\ worker[x].task.txn = t /\ k \in DOMAIN worker[x].reads
           /\ worker'[x].reads[k] = worker[x].reads[k] /\ k \in Keys
        \/ \E r : r = worker'[x].reads[k] /\ validate_read(k, r, t)'
    BY <1>1, ReadsAre
  <2> QED
    BY <2>3, <2>4, <2>5, <2>6
<1>2. ASSUME Recorded(t)', NEW k \in DOMAIN last_input_output'[t].input
      PROVE  Vouches(t, u, k, last_input_output[t].input[k])'
  <2>1. commit_state'.idx <= t
    <3>1. CASE HasStatus(t, {"Executed"})'
      <4>1. ~(t < commit_state'.idx)
        BY <3>1 DEF CommitsOK, HasStatus
      <4> QED
        BY <4>1, CommitGrows, TxnFacts
    <3>2. ASSUME NEW x \in Workers, At(x, "finish_execution")', worker'[x].task.txn = t
          PROVE  commit_state'.idx <= t
      <4>1. Executing(x)
        <5>1. ~(x = w /\ FinishExecution(w))
          BY <3>2, FinishExecutionEffect DEF Becomes, At
        <5>2. At(x, "finish_execution") \/ (x = w /\ Record(w))
          BY <3>2, <5>1, PhasesOf
        <5> QED
          BY <5>2, PhaseRoles DEF At, ExecutionPcs, Record
      <4>2. ~(x = w /\ FinishExecution(w)) /\ ~(x = w /\ TryIncarnate(w))
        BY <3>2, <4>1, FinishExecutionEffect, PhaseRoles
             DEF Becomes, At, TryIncarnate, NextPcs, Busy
      <4>3. Executing(x)'
        BY <4>1, <4>2, RolesOf
      <4> QED
        BY <3>2, <4>3 DEF CommitsOK, Busy
    <3> QED
      BY <1>2, <3>1, <3>2 DEF Recorded
  <2>2. commit_state.idx <= t
    BY <1>a, <2>1
  <2>3. PICK read : read = last_input_output'[t].input[k]
    OBVIOUS
  <2>4. k \in Keys /\ Vouches(t, u, k, read)
    <3>1. CASE Recorded(t) /\ last_input_output'[t] = last_input_output[t]
      BY <1>2, <2>3, <3>1, InputKeys DEF Promise
    <3>2. CASE Record(w) /\ worker[w].task.txn = t /\ Reads(w)
                /\ last_input_output'[t].input = worker[w].reads
      BY <1>2, <2>3, <3>2, ReadsKeys DEF Promise
    <3> QED
      BY <1>2, <3>1, <3>2, RecordedStep
  <2>5. Vouches(t, u, k, read)'
    BY <2>2, <2>4, VouchesStays
  <2> QED
    BY <2>3, <2>5 DEF Vouches
<1> QED
  BY <1>1, <1>2 DEF Promise

-----------------------------------------------------------------------------
(* Validations.                                                            *)

\* How the incarnation of a transaction moves.
LEMMA IncStep ==
    ASSUME TypeOK, HaltOK, DependenciesOK, NEW w \in Workers, Step(w), ~At(w, "error")',
           NEW t \in Txns
    PROVE  LET old == txn_status[t]
               new == txn_status'[t]
           IN  \/ new = old
               \/ new.name = "Halted"
               \/ FinishAbort(w) /\ worker[w].task.txn = t /\ new.inc = old.inc + 1
                    /\ old.name = "Aborting"
               \/ /\ new.inc = old.inc /\ old.name \notin {"Aborting", "Committed"}
                  /\ old.name = "Executed" => new.name \in {"Aborting", "Committed"}
<1>1. CASE txn_status' = txn_status
  BY <1>1
<1>2. CASE TryCommit(w)
  BY <1>2, TryCommitStatus DEF SetsStatus
<1>3. CASE HaltTxn(w)
  <2>1. worker[w].todo \subseteq Txns /\ worker[w].todo # {}
    BY <1>3 DEF HaltTxn, HaltOK
  <2> QED
    BY <1>3, <2>1, HaltTxnStatus DEF SetsStatus
<1>4. CASE TryIncarnate(w)
  BY <1>4, TryIncarnateStatus DEF SetsStatus
<1>5. CASE Suspend(w)
  <2>1. CASE txn_status[worker[w].task.txn].name = "Executing"
    BY <1>5, <2>1, SuspendStatus DEF SetsStatus
  <2>2. CASE txn_status[worker[w].task.txn].name # "Executing"
    <3>1. txn_status' = txn_status
      BY <1>5, <2>2 DEF Suspend
    <3> QED
      BY <3>1
  <2> QED
    BY <2>1, <2>2
<1>6. CASE FinishExecution(w)
  BY <1>6, FinishExecutionStatus DEF SetsStatus
<1>7. CASE Resume(w)
  <2>1. worker[w].todo \in SUBSET Txns
    BY <1>7 DEF Resume, DependenciesOK
  <2> QED
    BY <1>7, <2>1, ResumeStatus DEF SetsStatus
<1>8. CASE TryAbort(w)
  BY <1>8, TryAbortStatus DEF SetsStatus
<1>9. CASE FinishAbort(w)
  BY <1>9, FinishAbortStatus DEF SetsStatus
<1> QED
  BY <1>1, <1>2, <1>3, <1>4, <1>5, <1>6, <1>7, <1>8, <1>9, Changes

\* The types of a status.
LEMMA StatusFields ==
    ASSUME TypeOK, NEW t \in Txns
    PROVE  /\ txn_status[t] \in Statuses
           /\ txn_status[t].inc \in Nat
           /\ txn_status[t].safe \in BOOLEAN
BY DEF TypeOK, Statuses

\* An executed transaction has exactly the status that may_abort looks for.
LEMMA ExecutedStatus ==
    ASSUME TypeOK, StatusOK, ExecutionOK, NEW t \in Txns, txn_status[t].name = "Executed",
           NEW inc, txn_status[t].inc = inc
    PROVE  txn_status[t] = Status("Executed", inc, None)
<1>1. txn_status[t].cv = None
  BY DEF StatusOK, StatusOf
<1>2. txn_status[t].safe
  <2>1. ~\E x \in Workers : Busy(x) /\ worker[x].task.txn = t
    BY NotBusy
  <2> QED
    BY <2>1 DEF StatusOK, StatusOf
<1>3. txn_status[t].safe = TRUE
  BY <1>2, StatusFields
<1>4. txn_status[t] \in [name : StatusNames, inc : Nat, cv : Workers \cup {None}, safe : BOOLEAN]
  BY StatusFields DEF Statuses
<1> QED
  BY <1>1, <1>3, <1>4 DEF Status

\* The fields of a status.
LEMMA StatusFacts ==
    \A name, inc, cv : LET st == Status(name, inc, cv)
                       IN  st.name = name /\ st.inc = inc /\ st.cv = cv /\ st.safe = TRUE
BY DEF Status

\* The two ways a validation in hand can stand stay what they are.
LEMMA SupersededStays ==
    ASSUME TypeOK, HaltOK, DependenciesOK, NEW w \in Workers, Step(w), ~At(w, "error")',
           NoneHalted', NEW x \in Workers, worker'[x].task = worker[x].task
    PROVE  /\ Superseded(x) => Superseded(x)'
           /\ Current(x) => (Current(x)' \/ txn_status'[worker[x].task.txn].name \in {"Aborting",
                  "Committed"})
           /\ Current(x) => Current(x)' \/ Superseded(x)'
<1>1. PICK t \in Txns : t = worker[x].task.txn
  BY PhaseFacts
<1>2. PICK inc \in Nat : inc = worker[x].task.inc
  BY PhaseFacts
<1>3. worker'[x].task.txn = t /\ worker'[x].task.inc = inc
  BY <1>1, <1>2
<1>4. txn_status[t].inc \in Nat
  BY StatusFields
<1>5. txn_status'[t].name # "Halted"
  BY DEF NoneHalted, IsHalted
<1>6. \/ txn_status'[t] = txn_status[t]
      \/ txn_status'[t].inc = txn_status[t].inc + 1 /\ txn_status[t].name = "Aborting"
      \/ /\ txn_status'[t].inc = txn_status[t].inc
         /\ txn_status[t].name \notin {"Aborting", "Committed"}
         /\ txn_status[t].name = "Executed" => txn_status'[t].name \in {"Aborting", "Committed"}
  BY <1>5, IncStep
<1>7. Superseded(x) <=> \/ txn_status[t].inc > inc
                        \/ txn_status[t].inc = inc /\
                               txn_status[t].name \in {"Aborting", "Committed"}
  BY <1>1, <1>2 DEF Superseded
<1>8. Superseded(x)' <=> \/ txn_status'[t].inc > inc
                         \/ txn_status'[t].inc = inc /\
                                txn_status'[t].name \in {"Aborting", "Committed"}
  BY <1>3 DEF Superseded
<1>9. Superseded(x) => Superseded(x)'
  <2>1. CASE txn_status'[t] = txn_status[t]
    BY <1>7, <1>8, <2>1
  <2>2. CASE txn_status'[t].inc = txn_status[t].inc + 1 /\ txn_status[t].name = "Aborting"
    BY <1>4, <1>7, <1>8, <2>2
  <2>3. CASE txn_status'[t].inc = txn_status[t].inc
             /\ txn_status[t].name \notin {"Aborting", "Committed"}
    BY <1>7, <1>8, <2>3
  <2> QED
    BY <1>6, <2>1, <2>2, <2>3
<1>10. Current(x) <=> txn_status[t] = Status("Executed", inc, None)
  BY <1>1, <1>2 DEF Current
<1>11. Current(x)' <=> txn_status'[t] = Status("Executed", inc, None)
  BY <1>3 DEF Current
<1>12. Current(x) => txn_status[t].name = "Executed" /\ txn_status[t].inc = inc
  BY <1>10, StatusFacts
<1>13. Current(x) => \/ Current(x)'
                     \/ txn_status'[t].inc = inc /\
                            txn_status'[t].name \in {"Aborting", "Committed"}
  BY <1>6, <1>10, <1>11, <1>12
<1> QED
  BY <1>1, <1>8, <1>9, <1>13

\* A validation in hand is either current or superseded.
LEMMA NotBoth ==
    ASSUME TypeOK, NEW x \in Workers
    PROVE  /\ ~(Current(x) /\ Superseded(x))
           /\ Current(x) => /\ txn_status[worker[x].task.txn].name = "Executed"
                            /\ txn_status[worker[x].task.txn].inc = worker[x].task.inc
<1>1. Current(x) => /\ txn_status[worker[x].task.txn].name = "Executed"
                    /\ txn_status[worker[x].task.txn].inc = worker[x].task.inc
  BY StatusFacts DEF Current
<1>2. worker[x].task.inc \in Nat
  BY PhaseFacts
<1> QED
  BY <1>1, <1>2 DEF Superseded

LEMMA NotBothNext ==
    ASSUME TypeOK', NEW x \in Workers
    PROVE  ~(Current(x)' /\ Superseded(x)')
<1>1. Current(x)' => /\ txn_status'[worker'[x].task.txn].name = "Executed"
                     /\ txn_status'[worker'[x].task.txn].inc = worker'[x].task.inc
  BY StatusFacts DEF Current
<1>2. worker'[x].task.inc \in Nat
  BY DEF TypeOK, WorkerOK, FieldsOK, Tasks
<1> QED
  BY <1>1, <1>2 DEF Superseded

\* An aborted or committed transaction has no reads to promise.
LEMMA NoPromise ==
    ASSUME TypeOK', ExecutionOK', NEW t \in Txns,
           txn_status'[t].name \in {"Aborting", "Committed"}, NEW u
    PROVE  Promise(t, u)'
<1>1. ASSUME NEW x \in Workers, Executing(x)', worker'[x].task.txn = t
      PROVE  FALSE
  BY <1>1 DEF ExecutionOK, ExecutionOf
<1>2. ASSUME NEW x \in Workers, At(x, "finish_execution")', worker'[x].task.txn = t
      PROVE  FALSE
  <2>1. Executing(x)'
    BY <1>2 DEF TypeOK, WorkerOK, PhaseOK, At, Executing, LoopPcs, ExecutionPcs, ValidationPcs,
       NextPcs, HookPcs, FinishPcs, AbortPcs
  <2> QED
    BY <1>1, <1>2, <2>1
<1>3. ~Recorded(t)'
  BY <1>2 DEF Recorded, HasStatus
<1>4. ASSUME NEW x \in Workers, Reads(x)' PROVE worker'[x].task.txn # t
  BY <1>1, <1>4 DEF Reads
<1> QED
  BY <1>3, <1>4 DEF Promise

\* Without the module reads, as long as no module was published.
LEMMA SkippedReads ==
    ASSUME TypeOK, HaltOK, VersionsOK, NoneHalted, NEW w \in Workers, StartTask(w), Step(w),
           ~At(w, "error")', LocksOK, skip_module_reads_validation, NEW t \in Txns,
           commit_state.idx <= t, NEW k \in ModuleKeys, k \in DOMAIN last_input_output[t].input,
           NEW read, read = last_input_output[t].input[k], Undisturbed(t)'
    PROVE  validate_read(k, read, t)'
<1>1. commit_state' = commit_state /\ modules' = modules
  BY DEF StartTask, shared, indices, memory
<1>2. ASSUME NEW x \in Workers, At(x, "require") PROVE FALSE
  <2>1. x # w
    BY <1>2 DEF StartTask, At
  <2>2. worker'[x] = worker[x]
    BY <2>1, OtherRoles
  <2>3. worker[x].ret = "hook"
    BY <1>2, PhaseFacts DEF At, PhaseOK, LoopPcs, ExecutionPcs, NextPcs, ValidationPcs,
       FinishPcs, AbortPcs
  <2>4. Disturbs(x)'
    BY <1>2, <2>2, <2>3, DisturbsPartsNext DEF Unsettles, At
  <2>5. Txn(x)' = commit_state.idx - 1
    BY <1>1, <2>2, <2>3 DEF Txn
  <2>6. commit_state.idx - 1 >= t
    BY <2>4, <2>5 DEF Undisturbed
  <2> QED
    BY <2>6, WaveTypes, TxnFacts
<1>3. modules[k].ver = <<>>
  BY <1>2 DEF VersionsOK
<1>4. ReadOK(k, read)
  BY DEF VersionsOK
<1>5. read.ver = <<>>
  BY <1>3, <1>4 DEF ReadOK, DataKeys
<1> QED
  BY <1>1, <1>3, <1>5 DEF validate_read

\* What an executed transaction's validation can rely on.
LEMMA ExecutedFacts ==
    ASSUME TypeOK, CommitsOK, StatusOK, ExecutionOK, ReadsOK, NoneHalted,
           NEW w \in Workers, Step(w), NEW t \in Txns, txn_status[t].name = "Executed"
    PROVE  /\ commit_state.idx <= t
           /\ last_input_output'[t] = last_input_output[t]
           /\ Recorded(t)
           /\ DOMAIN last_input_output[t].input \subseteq Keys
           /\ \A x \in Workers : Reads(x) => worker[x].task.txn # t
<1>1. commit_state.idx <= t
  <2>1. ~(t < commit_state.idx)
    BY DEF CommitsOK, HasStatus
  <2> QED
    BY <2>1, WaveTypes, TxnFacts
<1>2. \A x \in Workers : Busy(x) => worker[x].task.txn # t
  BY NotBusy
<1>3. last_input_output'[t] = last_input_output[t]
  <2>1. Record(w) => Busy(w)
    BY PhaseRoles DEF Record, At, ExecutionPcs, Busy
  <2> QED
    BY <1>2, <2>1, RecordedFrame
<1>4. Recorded(t)
  BY DEF Recorded, HasStatus
<1>5. DOMAIN last_input_output[t].input \subseteq Keys
  BY <1>4, InputKeys
<1>6. \A x \in Workers : Reads(x) => worker[x].task.txn # t
  BY <1>2 DEF Reads, Busy
<1> QED
  BY <1>1, <1>3, <1>4, <1>5, <1>6

\* A validation that goes on.
LEMMA ValidationGoesOn ==
    ASSUME TypeOK, TypeOK', LocksOK, HaltOK, CommitsOK, CommitsOK', StatusOK, ExecutionOK,
           ExecutionOK', DependenciesOK, EntriesOK, WritesOK, IncarnationsOK, WavesOK, ReadsOK,
           VersionsOK, NoneHalted, NoneHalted', NEW w \in Workers, Step(w), ~At(w, "error")',
           NEW x \in Workers, worker'[x].task = worker[x].task, Validates(x), ValidationBy(x),
           x = w => ~FinishValidation(w)
    PROVE  ValidationBy(x)'
<1>a. PICK t \in Txns : t = worker[x].task.txn
  BY PhaseFacts
<1>b. PICK u \in Nat : u = worker[x].task.wave
  BY WaveTypes
<1>c. u \in Int
  OBVIOUS
<1>d. worker'[x].task.txn = t /\ worker'[x].task.wave = u
  BY <1>a, <1>b
<1>e. Covered(t, u)
  BY <1>a, <1>b DEF WavesOK, HasWave
<1>f. /\ Current(x) \/ Superseded(x)
      /\ ~Current(x) => Promise(t, u)
      /\ At(x, "finish_validation") /\ ~worker[x].flag => Superseded(x)
      /\ Current(x) /\ At(x, "validate") =>
            /\ worker[x].reads = last_input_output[t].input
            /\ \A k \in DOMAIN worker[x].reads \ worker[x].todo :
                  Vouches(t, u, k, worker[x].reads[k])
      /\ Current(x) /\ At(x, "finish_validation") =>
            \A k \in DOMAIN last_input_output[t].input :
               Vouches(t, u, k, last_input_output[t].input[k])
  BY <1>a, <1>b DEF ValidationBy
<1>g. /\ Superseded(x) => Superseded(x)'
      /\ Current(x) => (Current(x)' \/ txn_status'[t].name \in {"Aborting", "Committed"})
      /\ Current(x) => Current(x)' \/ Superseded(x)'
  BY <1>a, SupersededStays
<1>1. Current(x)' \/ Superseded(x)'
  BY <1>f, <1>g
<1>2. ASSUME ~Current(x)' PROVE Promise(t, u)'
  <2>1. CASE Current(x)
    BY <1>2, <1>g, <2>1, NoPromise
  <2>2. CASE ~Current(x)
    BY <1>c, <1>e, <1>f, <2>2, PromiseStays
  <2> QED
    BY <2>1, <2>2
<1>3. ASSUME At(x, "finish_validation")', ~worker'[x].flag PROVE Superseded(x)'
  <2>1. CASE At(x, "finish_validation") /\ worker'[x].flag = worker[x].flag
    BY <1>3, <1>f, <1>g, <2>1, Zenon
  <2>2. CASE x = w /\ Validate(w)
    <3>1. worker'[w].pc = "finish_validation" => worker'[w].flag = TRUE
      BY <2>2, ValidateEffect DEF Becomes, At
    <3> QED
      BY <1>3, <2>2, <3>1 DEF At
  <2>3. CASE x = w /\ TryAbort(w)
    <3>1. ~may_abort(t, worker[w].task.inc)
      BY <1>3, <1>a, <2>3, TryAbortEffect DEF Becomes, At
    <3>2. ~Current(x)
      BY <1>a, <2>3, <3>1 DEF may_abort, Current
    <3> QED
      BY <1>f, <1>g, <3>2
  <2> QED
    BY <1>3, <2>1, <2>2, <2>3, PhasesOf
<1>4. ASSUME Current(x)'
      PROVE  /\ Current(x)
             /\ commit_state.idx <= t
             /\ last_input_output'[t] = last_input_output[t]
             /\ DOMAIN last_input_output[t].input \subseteq Keys
  <2>1. Current(x)
    BY <1>4, <1>f, <1>g, NotBothNext
  <2>2. txn_status[t].name = "Executed"
    BY <1>a, <2>1, NotBoth
  <2> QED
    BY <2>1, <2>2, ExecutedFacts
<1>5. ASSUME Current(x)', NEW k \in DOMAIN last_input_output[t].input, NEW read,
             Vouches(t, u, k, read)
      PROVE  Vouches(t, u, k, read)'
  BY <1>4, <1>5, <1>c, <1>e, VouchesStays
<1>6. ASSUME Current(x)', At(x, "validate")'
      PROVE  /\ worker'[x].reads = last_input_output'[t].input
             /\ \A k \in DOMAIN worker'[x].reads \ worker'[x].todo :
                   Vouches(t, u, k, worker[x].reads[k])'
  <2>1. CASE At(x, "validate") /\ worker'[x].reads = worker[x].reads
    <3>1. worker[x].reads = last_input_output[t].input
      BY <1>4, <1>6, <1>f, <2>1
    <3>2. worker'[x].reads = last_input_output'[t].input
      BY <1>4, <1>6, <2>1, <3>1
    <3>3. ASSUME NEW k \in DOMAIN worker'[x].reads \ worker'[x].todo
          PROVE  Vouches(t, u, k, worker[x].reads[k])'
      <4>1. PICK read : read = worker[x].reads[k]
        OBVIOUS
      <4>2. CASE k \notin worker[x].todo
        <5>1. Vouches(t, u, k, read)
          BY <1>4, <1>6, <1>f, <2>1, <3>3, <4>1, <4>2
        <5>2. Vouches(t, u, k, read)'
          BY <1>5, <1>6, <2>1, <3>1, <3>3, <5>1
        <5> QED
          BY <2>1, <4>1, <5>2 DEF Vouches
      <4>3. CASE k \in worker[x].todo
        <5>1. x = w /\ Validate(w)
          <6>1. worker'[x].todo # worker[x].todo
            BY <3>3, <4>3
          <6>2. ~(x = w /\ StartTask(w))
            BY <2>1 DEF StartTask, At
          <6> QED
            BY <2>1, <6>1, <6>2, PhasesOf
        <5>2. validate_read(k, read, t)
          BY <1>6, <1>a, <3>3, <4>1, <4>3, <5>1, ValidateEffect DEF Becomes, At
        <5>3. data' = data /\ modules' = modules
          BY <5>1 DEF Validate, shared, memory
        <5>4. validate_read(k, read, t)'
          <6>1. fetch_data(k, t)' = fetch_data(k, t)
            BY <5>3, FetchNow, FetchNext
          <6> QED
            BY <5>2, <5>3, <6>1, Zenon DEF validate_read
        <5>5. Vouches(t, u, k, read)'
          BY <5>4, Zenon DEF Vouches
        <5> QED
          BY <2>1, <4>1, <5>5 DEF Vouches
      <4> QED
        BY <4>2, <4>3
    <3> QED
      BY <3>2, <3>3
  <2>2. CASE x = w /\ StartTask(w)
    <3>1. Kind(w) = "Validation"
      BY <2>2 DEF Validates
    <3>2. /\ worker'[w].reads = last_input_output[t].input
          /\ worker'[w].todo = DOMAIN last_input_output[t].input \
                 (IF skip_module_reads_validation THEN ModuleKeys ELSE {})
      BY <1>a, <2>2, <3>1, StartTaskEffect DEF Becomes
    <3>3. worker'[x].reads = last_input_output'[t].input
      BY <1>4, <1>6, <2>2, <3>2
    <3>4. ASSUME NEW k \in DOMAIN worker'[x].reads \ worker'[x].todo
          PROVE  Vouches(t, u, k, worker[x].reads[k])'
      <4>1. /\ skip_module_reads_validation /\ k \in ModuleKeys
            /\ k \in DOMAIN last_input_output[t].input
        BY <2>2, <3>2, <3>4
      <4>2. PICK read : read = last_input_output[t].input[k]
        OBVIOUS
      <4>3. Undisturbed(t)' => validate_read(k, read, t)'
        BY <1>4, <1>6, <2>2, <4>1, <4>2, SkippedReads
      <4>4. Vouches(t, u, k, read)'
        BY <4>3, Zenon DEF Vouches
      <4>5. worker'[x].reads[k] = read
        BY <2>2, <3>2, <4>2
      <4> QED
        BY <4>4, <4>5 DEF Vouches
    <3> QED
      BY <3>3, <3>4
  <2>3. CASE x = w /\ Validate(w)
    <3>1. At(w, "validate") /\ worker'[w].reads = worker[w].reads
      BY <2>3, ValidateEffect DEF Becomes
    <3> QED
      BY <2>1, <2>3, <3>1
  <2> QED
    BY <1>6, <2>1, <2>2, <2>3, PhasesOf
<1>7. ASSUME Current(x)', At(x, "finish_validation")'
      PROVE  \A k \in DOMAIN last_input_output'[t].input :
                Vouches(t, u, k, last_input_output[t].input[k])'
  <2>1. \A k \in DOMAIN last_input_output[t].input :
           Vouches(t, u, k, last_input_output[t].input[k])
    <3>1. CASE At(x, "finish_validation")
      BY <1>4, <1>7, <1>f, <3>1
    <3>2. CASE x = w /\ Validate(w)
      <4>1. worker[w].todo = {} /\ At(w, "validate")
        BY <1>7, <3>2, ValidateEffect DEF Becomes, At
      <4> QED
        BY <1>4, <1>7, <1>f, <3>2, <4>1
    <3>3. CASE x = w /\ TryAbort(w)
      <4>1. ~may_abort(t, worker[w].task.inc)
        BY <1>7, <1>a, <3>3, TryAbortEffect DEF Becomes, At
      <4> QED
        BY <1>4, <1>7, <1>a, <3>3, <4>1 DEF may_abort, Current
    <3> QED
      BY <1>7, <3>1, <3>2, <3>3, PhasesOf
  <2>2. ASSUME NEW k \in DOMAIN last_input_output'[t].input
        PROVE  Vouches(t, u, k, last_input_output[t].input[k])'
    <3>1. PICK read : read = last_input_output[t].input[k]
      OBVIOUS
    <3>2. Vouches(t, u, k, read)
      BY <1>4, <1>7, <2>1, <2>2, <3>1
    <3>3. Vouches(t, u, k, read)'
      BY <1>4, <1>5, <1>7, <2>2, <3>2
    <3>4. last_input_output'[t].input[k] = read
      BY <1>4, <1>7, <3>1
    <3> QED
      BY <3>3, <3>4 DEF Vouches
  <2> QED
    BY <2>2
<1> QED
  BY <1>1, <1>2, <1>3, <1>6, <1>7, <1>d DEF ValidationBy

\* A new validation.
LEMMA ValidationStarts ==
    ASSUME TypeOK, StatusOK, ExecutionOK, ExecutionOK', TypeOK', NoneHalted, NoneHalted',
           NEW w \in Workers, Step(w),
           ~At(w, "error")', Validates(w)', StartValidation(w) \/ RequireWave(w)
    PROVE  ValidationBy(w)'
<1>1. txn_status' = txn_status
  BY DEF StartValidation, RequireWave, shared, statuses
<1>2. \E t \in Txns, i, u \in Nat :
         /\ Restarts(w, ValidationTask(t, i, u)) /\ txn_status[t].inc = i
         /\ txn_status[t].name \in {"Executed", "Aborting"}
  <2>1. CASE StartValidation(w)
    <3>1. worker[w].num.idx \in Txns /\ worker[w].num.wave \in Nat
      BY <2>1 DEF StartValidation, At, TypeOK, WorkerOK, FieldsOK
    <3>2. CASE is_executed(worker[w].num.idx, FALSE)
      BY <2>1, <3>1, <3>2, StartValidationEffect, StatusFields DEF is_executed
    <3>3. CASE ~is_executed(worker[w].num.idx, FALSE)
      <4>1. Moves(w, "next_execution") \/ Moves(w, "next")
        BY <2>1, <3>3, StartValidationEffect DEF NoValidation
      <4>2. worker[w].ret = "loop"
        BY <2>1, PhaseFacts DEF StartValidation, At, PhaseOK, HookPcs, FinishPcs, AbortPcs
      <4>3. ~Validates(w)'
        BY <4>1, <4>2 DEF Moves, Becomes, Validates, Pending, LoopPcs
      <4> QED
        BY <4>3
    <3> QED
      BY <3>2, <3>3
  <2>2. CASE RequireWave(w)
    <3>1. Finishing(w)
      BY <2>2, PhaseRoles DEF RequireWave
    <3>2. worker[w].task.txn \in Txns /\ worker[w].task.inc \in Nat /\ worker[w].task.wave \in Nat
      BY PhaseFacts, WaveTypes
    <3>3. /\ txn_status[worker[w].task.txn].name \in {"Executed", "Aborting"}
          /\ txn_status[worker[w].task.txn].inc = worker[w].task.inc
      BY <3>1, <3>2 DEF ExecutionOK, ExecutionOf, NoneHalted, IsHalted
    <3> QED
      BY <2>2, <3>2, <3>3, RequireWaveEffect
  <2> QED
    BY <2>1, <2>2
<1>3. PICK t \in Txns, i, u \in Nat :
         /\ Restarts(w, ValidationTask(t, i, u)) /\ txn_status[t].inc = i
         /\ txn_status[t].name \in {"Executed", "Aborting"}
  BY <1>2
<1>4. PICK tk : tk = ValidationTask(t, i, u)
  OBVIOUS
<1>5. tk.txn = t /\ tk.inc = i /\ tk.wave = u
  BY <1>3, <1>4, ValidationTaskFacts
<1>6. worker'[w].task = tk /\ worker'[w].pc = "loop"
  BY <1>3, <1>4, BackToLoop
<1>7. ~At(w, "validate")' /\ ~At(w, "finish_validation")'
  BY <1>6 DEF At
<1>8. CASE txn_status[t].name = "Executed"
  <2>1. txn_status[t] = Status("Executed", i, None)
    BY <1>3, <1>8, ExecutedStatus
  <2>2. Current(w)'
    BY <1>1, <1>5, <1>6, <2>1 DEF Current
  <2> QED
    BY <1>7, <2>2 DEF ValidationBy
<1>9. CASE txn_status[t].name = "Aborting"
  <2>1. Superseded(w)'
    BY <1>1, <1>3, <1>5, <1>6, <1>9 DEF Superseded
  <2>2. Promise(t, u)'
    BY <1>1, <1>9, NoPromise
  <2>3. ~Current(w)'
    BY <2>1, NotBothNext
  <2>4. worker'[w].task.txn = t /\ worker'[w].task.wave = u
    BY <1>5, <1>6
  <2> QED
    BY <1>7, <2>1, <2>2, <2>3, <2>4 DEF ValidationBy
<1> QED
  BY <1>3, <1>8, <1>9

\* ValidationsOK is preserved: a validated wave vouches for the reads of the
\* incarnation.
LEMMA ValidationsStep ==
    ASSUME TypeOK, TypeOK', LocksOK, HaltOK, CommitsOK, CommitsOK', StatusOK, ExecutionOK,
           ExecutionOK', DependenciesOK, EntriesOK, WritesOK, IncarnationsOK, WavesOK, ReadsOK,
           VersionsOK, ValidationsOK, NEW w \in Workers, Step(w), ~At(w, "error")'
    PROVE  ValidationsOK'
<1> SUFFICES ASSUME NoneHalted'
             PROVE  /\ \A t \in Txns : \A u \in {validation_status'[t].validated} : Promise(t, u)'
                    /\ \A x \in Workers : Validates(x)' => ValidationBy(x)'
  BY DEF ValidationsOK
<1>a. NoneHalted
  BY NoneHaltedBefore
<1>b. /\ \A t \in Txns : \A u \in {validation_status[t].validated} : Promise(t, u)
      /\ \A x \in Workers : Validates(x) => ValidationBy(x)
  BY <1>a DEF ValidationsOK
<1>1. ASSUME NEW t \in Txns, NEW u, u = validation_status'[t].validated
      PROVE  Promise(t, u)'
  <2>1. CASE u = validation_status[t].validated
    <3>1. Promise(t, u) /\ u \in Int /\ Covered(t, u)
      BY <1>b, <2>1, WaveTypes DEF WavesOK
    <3> QED
      BY <1>a, <3>1, PromiseStays
  <2>2. CASE FinishValidation(w) /\ worker[w].task.txn = t /\ u = worker[w].task.wave
    <3>1. At(w, "finish_validation") /\ Kind(w) = "Validation"
      BY <2>2, PhaseRoles DEF FinishValidation, At, ValidationPcs
    <3>2. Validates(w)
      BY <3>1 DEF Validates, At
    <3>3. ValidationBy(w) /\ Covered(t, u) /\ u \in Int
      BY <1>b, <2>2, <3>2, WaveTypes DEF WavesOK, HasWave
    <3>4. CASE ~Current(w)
      <4>1. Promise(t, u)
        BY <2>2, <3>3, <3>4 DEF ValidationBy
      <4> QED
        BY <1>a, <3>3, <4>1, PromiseStays
    <3>5. CASE Current(w)
      <4>1. txn_status[t].name = "Executed"
        BY <2>2, <3>5, NotBoth
      <4>2. \A x \in Workers : Reads(x) => worker[x].task.txn # t
        BY <1>a, <4>1, ExecutedFacts
      <4>3. \A k \in DOMAIN last_input_output[t].input :
               Vouches(t, u, k, last_input_output[t].input[k])
        BY <2>2, <3>1, <3>3, <3>5 DEF ValidationBy
      <4>4. Promise(t, u)
        BY <4>2, <4>3 DEF Promise
      <4> QED
        BY <1>a, <3>3, <4>4, PromiseStays
    <3> QED
      BY <3>4, <3>5
  <2> QED
    BY <1>1, <2>1, <2>2, ValidatedWave DEF MaxOf
<1>2. ASSUME NEW x \in Workers, Validates(x)' PROVE ValidationBy(x)'
  <2>1. CASE x = w /\ (StartValidation(w) \/ RequireWave(w))
    BY <1>2, <1>a, <2>1, ValidationStarts
  <2>2. CASE Validates(x) /\ worker'[x].task = worker[x].task /\ (x = w => ~FinishValidation(w))
    BY <1>a, <1>b, <2>2, ValidationGoesOn
  <2>3. CASE x = w /\ FinishValidation(w)
    <3>1. Moves(w, "arm") \/ Restarts(w, NoTask("Retry"))
      BY <2>3, FinishValidationEffect
    <3>2. CASE Moves(w, "arm")
      <4>1. worker'[w].pc = "arm" /\ worker'[w].ret = worker[w].ret /\ worker[w].ret = "loop"
        BY <2>3, <3>2, PhaseRoles DEF Moves, Becomes, FinishValidation, At, ValidationPcs
      <4> QED
        BY <1>2, <2>3, <4>1 DEF Validates, Pending, LoopPcs
    <3>3. CASE Restarts(w, NoTask("Retry"))
      <4>1. worker'[w].task.kind = "Retry"
        BY <3>3, BackToLoop, NoTaskFacts
      <4> QED
        BY <1>2, <2>3, <4>1 DEF Validates, Kind
    <3> QED
      BY <3>1, <3>2, <3>3
  <2>4. CASE x = w /\ TryAbort(w)
    <3>1. At(w, "abort") /\ Kind(w) = "Validation"
      BY <2>4, PhaseRoles DEF TryAbort, At, ValidationPcs
    <3>2. Validates(w)
      BY <3>1 DEF Validates, At
    <3>3. worker'[w].task = worker[w].task /\ ~FinishValidation(w)
      BY <2>4, TryAbortEffect DEF Becomes, FinishValidation, At
    <3> QED
      BY <2>2, <2>4, <3>2, <3>3
  <2> QED
    BY <1>2, <2>1, <2>2, <2>3, <2>4, PhasesOf
<1> QED
  BY <1>1, <1>2

\* The worker that publishes is in the commit hook of the last commit.
LEMMA PublishFacts ==
    ASSUME TypeOK, NEW w \in Workers, PublishModules(w)
    PROVE  /\ worker[w].ret = "hook" /\ Coordinates(w) /\ At(w, "publish")
           /\ Txn(w) \in Txns /\ Txn(w) = commit_state.idx - 1
           /\ commit_state' = commit_state
<1>1. worker[w].ret = "hook"
  BY PhaseFacts DEF PublishModules, At, PhaseOK, LoopPcs, ExecutionPcs, NextPcs,
     ValidationPcs, FinishPcs, AbortPcs
<1> QED
  BY <1>1, TxnType DEF PublishModules, Coordinates, Txn, indices

\* What is published stays published.
LEMMA PublishedStays ==
    ASSUME TypeOK, NEW w \in Workers, Step(w), ~At(w, "error")', NEW j, Published(j)
    PROVE  Published(j)'
<1>1. j \in Txns /\ j < commit_state.idx
  BY DEF Published
<1>2. j \in Nat /\ commit_state.idx \in Nat /\ commit_state'.idx \in Nat
      /\ commit_state'.idx >= commit_state.idx
  BY <1>1, TxnFacts, WaveTypes, CommitWave, CommitGrows
<1>3. ASSUME NEW x \in Workers, At(x, "publish")' PROVE j + 1 < commit_state'.idx
  <2>1. CASE At(x, "publish")
    <3>1. j + 1 < commit_state.idx
      BY <2>1 DEF Published
    <3> QED
      BY <1>2, <3>1
  <2>2. CASE ~At(x, "publish")
    <3>1. x = w /\ (TryCommit(w) \/ PublishModules(w))
      BY <1>3, <2>2, RolesOf
    <3>2. TryCommit(w)
      BY <2>2, <3>1 DEF PublishModules
    <3>3. commit_state'.idx = commit_state.idx + 1
      BY <3>2, TryCommitStatus
    <3> QED
      BY <1>1, <1>2, <3>3
  <2> QED
    BY <2>1, <2>2
<1> QED
  BY <1>1, <1>2, <1>3 DEF Published

\* What a module cache entry becomes.
LEMMA ModuleFrame ==
    ASSUME TypeOK, NEW w \in Workers, Step(w), NEW k \in ModuleKeys
    PROVE  \/ modules'[k] = modules[k]
           \/ /\ PublishModules(w)
              /\ k \in DOMAIN last_input_output[Txn(w)].output
              /\ modules'[k] = [ver |-> <<Txn(w)>>, val |-> last_input_output[Txn(w)].output[k]]
<1>1. CASE modules' = modules
  BY <1>1
<1>2. CASE PublishModules(w)
  BY <1>2 DEF PublishModules
<1> QED
  BY <1>1, <1>2, Changes

\* A transaction publishes once.
LEMMA NewlyPublished ==
    ASSUME TypeOK, LocksOK, NEW w \in Workers, Step(w), ~At(w, "error")', PublishModules(w),
           NEW t \in Txns, t = Txn(w)
    PROVE  /\ Published(t)'
           /\ ~Published(t)
<1>1. t = commit_state.idx - 1 /\ At(w, "publish") /\ commit_state' = commit_state /\ Coordinates(w)
  BY PublishFacts
<1>2. t \in Nat /\ commit_state.idx \in Nat
  BY TxnFacts, WaveTypes
<1>3. ASSUME NEW x \in Workers, At(x, "publish")' PROVE FALSE
  <2>1. x # w
    BY <1>3, PublishModulesEffect DEF Moves, Becomes, At
  <2>2. At(x, "publish")
    BY <1>3, <2>1, OtherRoles DEF At
  <2>3. Coordinates(x)
    BY <2>2 DEF Coordinates, At, CommitPcs
  <2> QED
    BY <1>1, <2>1, <2>3, UniqueCoordinator
<1> QED
  BY <1>1, <1>2, <1>3 DEF Published

\* The version of a captured module read.
LEMMA ModuleReadStays ==
    ASSUME TypeOK, LocksOK, NEW w \in Workers, Step(w), ~At(w, "error")',
           NEW k \in ModuleKeys, NEW read, NEW j \in Txns, read.ver = <<j>>, Published(j),
           modules[k].ver # <<>>, modules[k].ver = read.ver => modules[k].val = read.val
    PROVE  /\ Published(j)'
           /\ modules'[k].ver # <<>>
           /\ modules'[k].ver = read.ver => modules'[k].val = read.val
<1>1. Published(j)'
  BY PublishedStays
<1>2. CASE modules'[k] = modules[k]
  BY <1>1, <1>2
<1>3. CASE /\ PublishModules(w)
           /\ modules'[k] = [ver |-> <<Txn(w)>>, val |-> last_input_output[Txn(w)].output[k]]
  <2>1. PICK t \in Txns : t = Txn(w)
    BY TxnType
  <2>2. ~Published(t)
    BY <1>3, <2>1, NewlyPublished
  <2>3. t # j
    BY <2>2
  <2>4. modules'[k].ver = <<t>>
    BY <1>3, <2>1
  <2>5. <<t>> # <<j>> /\ <<t>> # <<>>
    BY <2>3
  <2> QED
    BY <1>1, <2>4, <2>5
<1> QED
  BY <1>2, <1>3, ModuleFrame

\* The version of a captured read of the multi-version data.
LEMMA DataReadStays ==
    ASSUME TypeOK, HaltOK, StatusOK, ExecutionOK, DependenciesOK, EntriesOK, WritesOK,
           IncarnationsOK,
           NEW w \in Workers, Step(w), ~At(w, "error")', NoneHalted, NoneHalted',
           NEW k \in DataKeys, NEW j \in Txns, NEW inc \in Nat, NEW val,
           \/ Written(k, j) /\ data[k][j].inc = inc /\ data[k][j].val = val
           \/ /\ inc < txn_status[j].inc
              /\ Written(k, j) => inc < data[k][j].inc
    PROVE  \/ Written(k, j)' /\ data'[k][j].inc = inc /\ data'[k][j].val = val
           \/ /\ inc < txn_status'[j].inc
              /\ Written(k, j)' => inc < data'[k][j].inc
<1>1. txn_status[j].inc \in Nat /\ txn_status'[j].inc \in Nat
      /\ txn_status'[j].inc >= txn_status[j].inc
  <2>1. txn_status[j].inc \in Nat
    BY StatusFields
  <2>2. txn_status'[j].name # "Halted"
    BY DEF NoneHalted, IsHalted
  <2>3. txn_status'[j].inc = txn_status[j].inc \/ txn_status'[j].inc = txn_status[j].inc + 1
    BY <2>2, IncStep
  <2> QED
    BY <2>1, <2>3
<1>2. CASE data'[k][j] = data[k][j]
  BY <1>1, <1>2 DEF Written
<1>3. CASE Write(w) /\ data'[k][j] # data[k][j]
  <2>1. PICK t \in Txns : t = worker[w].task.txn
    BY PhaseFacts
  <2>2. PICK i \in Nat : i = worker[w].task.inc
    BY PhaseFacts
  <2>a. PICK h \in worker[w].todo \cap DataKeys :
              /\ IF h \in DOMAIN CurrentOutput(w)
                 THEN /\ may_write(h, worker[w].task.txn, worker[w].task.inc)
                      /\ data'[h][worker[w].task.txn] =
                            [inc |-> worker[w].task.inc, val |-> CurrentOutput(w)[h], est |-> FALSE]
                 ELSE /\ Written(h, worker[w].task.txn)
                      /\ data'[h][worker[w].task.txn] = NoEntry
              /\ \A g \in DataKeys, u \in Txns :
                    g # h \/ u # worker[w].task.txn => data'[g][u] = data[g][u]
    BY <1>3, WriteData
  <2>3. /\ data'[h][t] = NoEntry \/ data'[h][t].inc = i
        /\ \A g \in DataKeys, u \in Txns : g # h \/ u # t => data'[g][u] = data[g][u]
    BY <2>a, <2>1, <2>2
  <2>4. h = k /\ t = j
    BY <1>3, <2>3
  <2>5. Written(k, j) => data[k][j].inc < i
    <3>1. At(w, "write") /\ h \in worker[w].todo
      BY <1>3 DEF Write
    <3>2. Written(h, worker[w].task.txn) => data[h][worker[w].task.txn].inc < worker[w].task.inc
      BY <3>1 DEF WritesOK, WritesOf
    <3> QED
      BY <3>2, <2>1, <2>2, <2>4
  <2>6. txn_status[j].inc = i
    <3>1. Executing(w) /\ ~At(w, "waiting")
      BY <1>3, PhaseRoles DEF Write, At, ExecutionPcs
    <3>2. txn_status[j].name # "Halted"
      BY DEF NoneHalted, IsHalted
    <3>3. txn_status[worker[w].task.txn].name # "Halted"
      BY <2>1, <2>4, <3>2
    <3>4. txn_status[worker[w].task.txn].inc = worker[w].task.inc
      BY <3>1, <3>3 DEF ExecutionOK, ExecutionOf
    <3> QED
      BY <2>1, <2>2, <2>4, <3>4
  <2>7. inc < i
    BY <2>5, <2>6
  <2>8. Written(k, j)' => data'[k][j].inc = i
    BY <2>3, <2>4 DEF Written
  <2> QED
    BY <1>1, <2>6, <2>7, <2>8
<1>4. CASE MarkEstimate(w) /\ data'[k][j] # data[k][j]
  <2>1. worker[w].todo \subseteq DataKeys
    BY <1>4 DEF MarkEstimate, At, IncarnationsOK, IncarnationBy, Aborting, PartlyEstimates, DataOf
  <2>2. PICK t \in Txns : t = worker[w].task.txn
    BY PhaseFacts
  <2>3. PICK h \in worker[w].todo :
              /\ h \in DataKeys
              /\ Written(h, t)
              /\ MarkedFrom(data'[h][t], data[h][t])
              /\ \A g \in DataKeys, u \in Txns : g # h \/ u # t => data'[g][u] = data[g][u]
    BY <1>4, <2>1, <2>2, MarkEstimateData
  <2>4. h = k /\ t = j
    BY <1>4, <2>3
  <2>5. MarkedFrom(data'[k][j], data[k][j]) /\ Written(k, j)
    BY <2>3, <2>4
  <2>6. data'[k][j].inc = data[k][j].inc /\ data'[k][j].val = data[k][j].val
    BY <2>5 DEF MarkedFrom
  <2>7. data'[k][j].est = TRUE
    BY <2>5 DEF MarkedFrom
  <2>8. NoEntry.est = FALSE
    BY DEF NoEntry
  <2>9. data'[k][j] # NoEntry
    BY <2>7, <2>8, Zenon
  <2> QED
    BY <1>1, <2>5, <2>6, <2>9, SMTT(30) DEF Written
<1>5. CASE data' = data
  BY <1>2, <1>5
<1> QED
  BY <1>2, <1>3, <1>4, <1>5, Changes

\* A version keeps determining the value of a captured read.
LEMMA ReadOKStays ==
    ASSUME TypeOK, LocksOK, HaltOK, StatusOK, ExecutionOK, DependenciesOK, EntriesOK, WritesOK,
           IncarnationsOK, NEW w \in Workers, Step(w), ~At(w, "error")', NoneHalted, NoneHalted',
           NEW k, NEW read, ReadOK(k, read)
    PROVE  ReadOK(k, read)'
<1>1. CASE read.ver = <<>> /\ read.val = Base[k]
  BY <1>1 DEF ReadOK
<1>2. CASE /\ k \in ModuleKeys
           /\ \E j \in Txns : read.ver = <<j>> /\ Published(j)
           /\ modules[k].ver # <<>>
           /\ modules[k].ver = read.ver => modules[k].val = read.val
  <2>1. PICK j \in Txns : read.ver = <<j>> /\ Published(j)
    BY <1>2
  <2>2. /\ Published(j)'
        /\ modules'[k].ver # <<>>
        /\ modules'[k].ver = read.ver => modules'[k].val = read.val
    BY <1>2, <2>1, ModuleReadStays
  <2> QED
    BY <1>2, <2>1, <2>2 DEF ReadOK
<1>3. CASE /\ k \in DataKeys
           /\ \E j \in Txns, inc \in Nat :
                 /\ read.ver = <<j, inc>>
                 /\ \/ Written(k, j) /\ data[k][j].inc = inc /\ data[k][j].val = read.val
                    \/ /\ inc < txn_status[j].inc
                       /\ Written(k, j) => inc < data[k][j].inc
  <2>1. PICK j \in Txns, inc \in Nat :
                 /\ read.ver = <<j, inc>>
                 /\ \/ Written(k, j) /\ data[k][j].inc = inc /\ data[k][j].val = read.val
                    \/ /\ inc < txn_status[j].inc
                       /\ Written(k, j) => inc < data[k][j].inc
    BY <1>3
  <2>2. \/ Written(k, j)' /\ data'[k][j].inc = inc /\ data'[k][j].val = read.val
        \/ /\ inc < txn_status'[j].inc
           /\ Written(k, j)' => inc < data'[k][j].inc
    BY <1>3, <2>1, DataReadStays
  <2> QED
    BY <1>3, <2>1, <2>2 DEF ReadOK
<1> QED
  BY <1>1, <1>2, <1>3 DEF ReadOK

\* A read just captured.
LEMMA NewReadOK ==
    ASSUME TypeOK, EntriesOK, VersionsOK, NEW t \in Txns, NEW k \in Keys, NEW read,
           read.ver = ReadOf(k, t).ver, read.val = ReadOf(k, t).val
    PROVE  ReadOK(k, read)
<1>1. CASE k \in ModuleKeys
  <2>1. read.ver = modules[k].ver /\ read.val = modules[k].val
    BY <1>1 DEF ReadOf
  <2>2. CASE modules[k] = [ver |-> <<>>, val |-> Base[k]]
    <3>1. modules[k].ver = <<>> /\ modules[k].val = Base[k]
      BY <2>2
    <3> QED
      BY <2>1, <3>1 DEF ReadOK
  <2>3. CASE \E j \in Txns : modules[k].ver = <<j>> /\ Published(j)
    <3>1. PICK j \in Txns : modules[k].ver = <<j>> /\ Published(j)
      BY <2>3
    <3>2. <<j>> # <<>>
      OBVIOUS
    <3> QED
      BY <1>1, <2>1, <3>1, <3>2 DEF ReadOK
  <2> QED
    BY <1>1, <2>2, <2>3 DEF VersionsOK
<1>2. CASE k \notin ModuleKeys
  <2>1. k \in DataKeys
    BY <1>2 DEF DataKeys
  <2>2. t \in Nat /\ t < num_txns
    BY TxnFacts
  <2>3. ReadOf(k, t) = FetchIn(data, k, t)
    BY <1>2, FetchNow DEF ReadOf
  <2>4. CASE \A j \in 0 .. t - 1 : data[k][j] = NoEntry
    <3>1. FetchIn(data, k, t) = [ver |-> <<>>, val |-> Base[k], est |-> FALSE]
      BY <2>2, <2>4, FetchBase
    <3> QED
      BY <2>3, <3>1 DEF ReadOK
  <2>5. CASE \E j \in 0 .. t - 1 :
                 /\ data[k][j] # NoEntry
                 /\ \A i \in 0 .. t - 1 : data[k][i] # NoEntry => i <= j
    <3>1. PICK j \in 0 .. t - 1 :
                 /\ data[k][j] # NoEntry
                 /\ \A i \in 0 .. t - 1 : data[k][i] # NoEntry => i <= j
      BY <2>5
    <3>2. FetchIn(data, k, t) = EntryRead(data, k, j)
      BY <2>2, <3>1, FetchTop
    <3>3. read.ver = <<j, data[k][j].inc>> /\ read.val = data[k][j].val
      BY <2>3, <3>2, EntryReadFacts
    <3>4. j \in Txns
      <4>1. j \in Nat /\ j < num_txns
        BY <2>2, Constants
      <4> QED
        BY <4>1, TxnFacts
    <3>5. data[k][j].inc \in Nat
      BY <2>1, <3>1, <3>4 DEF EntriesOK, IsEntry
    <3> QED
      BY <2>1, <3>1, <3>3, <3>4, <3>5 DEF ReadOK, Written
  <2> QED
    BY <2>2, <2>4, <2>5, FetchCases
<1> QED
  BY <1>1, <1>2

\* VersionsOK is preserved.
LEMMA VersionsStep ==
    ASSUME TypeOK, LocksOK, HaltOK, StatusOK, ExecutionOK, DependenciesOK, EntriesOK, WritesOK,
           IncarnationsOK, ReadsOK, VersionsOK, NEW w \in Workers, Step(w), ~At(w, "error")'
    PROVE  VersionsOK'
<1>1. ASSUME NoneHalted', NEW x \in Workers, Reads(x)', NEW k \in DOMAIN worker'[x].reads
      PROVE  ReadOK(k, worker[x].reads[k])'
  <2>1. NoneHalted
    BY <1>1, NoneHaltedBefore
  <2>2. PICK read : read = worker'[x].reads[k]
    OBVIOUS
  <2>3. TypeOK'
    BY TypeStep
  <2>4. PICK t \in Txns : t = worker'[x].task.txn
    BY <2>3 DEF TypeOK, WorkerOK, FieldsOK, Tasks
  <2>5. \/ /\ Reads(x) /\ k \in DOMAIN worker[x].reads
           /\ worker'[x].reads[k] = worker[x].reads[k]
        \/ /\ k \in Keys
           /\ worker'[x].reads[k].ver = ReadOf(k, t).ver
           /\ worker'[x].reads[k].val = ReadOf(k, t).val
    BY <1>1, <2>4, ReadsAre
  <2>6. ReadOK(k, read)
    <3>1. CASE Reads(x) /\ k \in DOMAIN worker[x].reads /\ worker'[x].reads[k] = worker[x].reads[k]
      BY <2>1, <2>2, <3>1 DEF VersionsOK
    <3>2. CASE /\ k \in Keys
               /\ worker'[x].reads[k].ver = ReadOf(k, t).ver
               /\ worker'[x].reads[k].val = ReadOf(k, t).val
      BY <2>2, <3>2, NewReadOK
    <3> QED
      BY <2>5, <3>1, <3>2
  <2>7. ReadOK(k, read)'
    BY <1>1, <2>1, <2>6, ReadOKStays
  <2> QED
    BY <2>2, <2>7 DEF ReadOK
<1>2. ASSUME NoneHalted', NEW t \in Txns, NEW k \in DOMAIN last_input_output'[t].input
      PROVE  ReadOK(k, last_input_output[t].input[k])'
  <2>1. NoneHalted
    BY <1>2, NoneHaltedBefore
  <2>2. PICK read : read = last_input_output'[t].input[k]
    OBVIOUS
  <2>3. ReadOK(k, read)
    <3>1. CASE last_input_output'[t] = last_input_output[t]
      BY <1>2, <2>1, <2>2, <3>1 DEF VersionsOK
    <3>2. CASE Record(w) /\ worker[w].task.txn = t
      <4>1. last_input_output'[t].input = worker[w].reads
        BY <3>2, RecordFields
      <4>2. Reads(w)
        BY <3>2, PhaseRoles DEF Record, At, Reads, ExecutionPcs
      <4> QED
        BY <1>2, <2>1, <2>2, <4>1, <4>2 DEF VersionsOK
    <3> QED
      BY <3>1, <3>2, RecordedFrame
  <2>4. ReadOK(k, read)'
    BY <1>2, <2>1, <2>3, ReadOKStays
  <2> QED
    BY <2>2, <2>4 DEF ReadOK
<1>3. ASSUME NEW k \in ModuleKeys
      PROVE  \/ modules'[k] = [ver |-> <<>>, val |-> Base[k]]
             \/ \E j \in Txns : modules'[k].ver = <<j>> /\ Published(j)'
  <2>1. CASE modules'[k] = modules[k]
    BY <2>1, PublishedStays DEF VersionsOK
  <2>2. CASE /\ PublishModules(w)
             /\ modules'[k] = [ver |-> <<Txn(w)>>, val |-> last_input_output[Txn(w)].output[k]]
    <3>1. PICK t \in Txns : t = Txn(w)
      BY TxnType
    <3>2. Published(t)'
      BY <2>2, <3>1, NewlyPublished
    <3>3. modules'[k].ver = <<t>>
      BY <2>2, <3>1
    <3> QED
      BY <3>2, <3>3
  <2> QED
    BY <2>1, <2>2, ModuleFrame
<1>4. ASSUME skip_module_reads_validation', \A x \in Workers : ~At(x, "require")',
             NEW k \in ModuleKeys
      PROVE  modules'[k].ver = <<>>
  <2>1. ~RecordValidationRequirements(w)
    BY <1>4 DEF RecordValidationRequirements
  <2>2. skip_module_reads_validation
    BY <1>4, <2>1, Changes
  <2>3. \A x \in Workers : ~At(x, "require")
    <3>1. SUFFICES ASSUME NEW x \in Workers, At(x, "require") PROVE FALSE
      OBVIOUS
    <3>2. ~(x = w /\ PublishModules(w))
      BY <3>1 DEF PublishModules, At
    <3> QED
      BY <1>4, <2>1, <3>1, <3>2, RolesOf
  <2>4. modules[k].ver = <<>>
    BY <2>2, <2>3 DEF VersionsOK
  <2>5. ~(PublishModules(w) /\ k \in DOMAIN last_input_output[Txn(w)].output)
    <3>1. SUFFICES ASSUME PublishModules(w), k \in DOMAIN last_input_output[Txn(w)].output
                   PROVE  FALSE
      OBVIOUS
    <3>2. At(w, "require")'
      BY <3>1, PublishModulesEffect DEF Moves, Becomes, At
    <3> QED
      BY <1>4, <3>2
  <2> QED
    BY <2>4, <2>5, ModuleFrame
<1>5. (NoneHalted =>
         /\ \A x \in Workers : Reads(x) =>
               \A k \in DOMAIN worker[x].reads : ReadOK(k, worker[x].reads[k])
         /\ \A t \in Txns : \A k \in DOMAIN last_input_output[t].input :
               ReadOK(k, last_input_output[t].input[k]))'
  BY <1>1, <1>2
<1>6. (skip_module_reads_validation =>
          \/ \A k \in ModuleKeys : modules[k].ver = <<>>
          \/ \E x \in Workers : At(x, "require"))'
  BY <1>4
<1> QED
  BY <1>3, <1>5, <1>6 DEF VersionsOK

-----------------------------------------------------------------------------
(* Sequential execution.                                                   *)

\* The state after transaction t, from the one before it.
AfterTxn(b, t, before) ==
    LET output == Output(b, t, [k \in ReadSet(b, t) |-> before[k]])
    IN  [k \in Keys |-> IF k \in DOMAIN output THEN output[k] ELSE before[k]]

\* f is the sequence of the states of the first n transactions.
SequentialTo(f, n) ==
    f = [t \in 0 .. n |->
            [b \in Blocks |-> IF t = 0 THEN Base ELSE AfterTxn(b, t - 1, f[t - 1][b])]]

\* Such a sequence exists for every n, by a least n for which there is none.
LEMMA SequentialExists ==
    \A n \in Nat : \E f : SequentialTo(f, n)
<1> DEFINE S == {n \in Nat : ~ \E f : SequentialTo(f, n)}
<1>1. SUFFICES ASSUME S # {} PROVE FALSE
  OBVIOUS
<1>2. PICK n \in S : \A m \in S : n <= m
  BY <1>1, LeastOf
<1>3. CASE n = 0
  <2> DEFINE f == [t \in 0 .. 0 |-> [b \in Blocks |-> Base]]
  <2>1. f = [t \in 0 .. 0 |->
            [b \in Blocks |-> IF t = 0 THEN Base ELSE AfterTxn(b, t - 1, f[t - 1][b])]]
    <3>1. f = [t \in 0 .. 0 |-> f[t]]
      OBVIOUS
    <3>2. \A t \in 0 .. 0 : t = 0 /\ f[t] = [b \in Blocks |-> Base]
      OBVIOUS
    <3> HIDE DEF f
    <3>3. \A t \in 0 .. 0 : f[t] = [b \in Blocks |-> IF t = 0 THEN Base
                                                  ELSE AfterTxn(b, t - 1, f[t - 1][b])]
      BY <3>2
    <3> QED
      BY <3>1, <3>3
  <2>2. SequentialTo(f, 0)
    BY <2>1 DEF SequentialTo
  <2> QED
    BY <1>3, <2>2
<1>4. CASE n # 0
  <2>1. n - 1 \in Nat /\ n - 1 \notin S
    BY <1>2, <1>4
  <2>2. PICK f : SequentialTo(f, n - 1)
    BY <2>1
  <2> DEFINE last == [b \in Blocks |-> AfterTxn(b, n - 1, f[n - 1][b])]
             g == [t \in 0 .. n |-> IF t = n THEN last ELSE f[t]]
  <2>3. DOMAIN f = 0 .. n - 1
    BY <2>2 DEF SequentialTo
  <2>4. \A t \in 0 .. n - 1 :
          f[t] = [b \in Blocks |-> IF t = 0 THEN Base ELSE AfterTxn(b, t - 1, f[t - 1][b])]
    BY <2>2 DEF SequentialTo
  <2>5. ASSUME NEW t \in 0 .. n
        PROVE  g[t] = [b \in Blocks |-> IF t = 0 THEN Base ELSE AfterTxn(b, t - 1, g[t - 1][b])]
    <3>1. CASE t = n
      <4>1. t # 0 /\ t - 1 \in 0 .. n /\ t - 1 # n
        BY <1>2, <1>4, <3>1
      <4>2. g[t - 1] = f[n - 1]
        BY <3>1, <4>1
      <4>3. g[t] = last
        BY <3>1
      <4> HIDE DEF g
      <4> QED
        BY <3>1, <4>1, <4>2, <4>3
    <3>2. CASE t # n
      <4>1. t \in 0 .. n - 1 /\ (t # 0 => t - 1 \in 0 .. n /\ t - 1 # n)
        BY <1>2, <3>2
      <4>2. g[t] = f[t] /\ (t # 0 => g[t - 1] = f[t - 1])
        BY <3>2, <4>1
      <4>3. f[t] = [b \in Blocks |-> IF t = 0 THEN Base ELSE AfterTxn(b, t - 1, f[t - 1][b])]
        BY <2>4, <4>1
      <4> HIDE DEF g
      <4>4. CASE t = 0
        BY <4>2, <4>3, <4>4
      <4>5. CASE t # 0
        BY <4>2, <4>3, <4>5
      <4> QED
        BY <4>4, <4>5
    <3> QED
      BY <3>1, <3>2
  <2>6. g = [t \in 0 .. n |-> g[t]]
    OBVIOUS
  <2>7. g = [t \in 0 .. n |->
            [b \in Blocks |-> IF t = 0 THEN Base ELSE AfterTxn(b, t - 1, g[t - 1][b])]]
    <3> HIDE DEF g
    <3> QED
      BY <2>5, <2>6
  <2>8. SequentialTo(g, n)
    BY <2>7 DEF SequentialTo
  <2> QED
    BY <1>2, <2>8
<1> QED
  BY <1>3, <1>4

\* So SequentialState, defined by recursion, satisfies its equation.
LEMMA SequentialDefined ==
    SequentialTo(SequentialState, num_txns)
<1>1. \E f : SequentialTo(f, num_txns)
  BY Constants, SequentialExists
<1>2. SequentialState = CHOOSE f : SequentialTo(f, num_txns)
  BY DEF SequentialState, SequentialTo, AfterTxn
<1> QED
  BY <1>1, <1>2, Zenon

\* What a transaction leaves, in a sequential execution.
LEMMA SequentialFacts ==
    ASSUME NEW b \in Blocks
    PROVE  /\ \A k \in Keys : SequentialState[0][b][k] = Base[k]
           /\ \A t \in Txns : \A k \in Keys :
                 SequentialState[t + 1][b][k] =
                    LET output == Output(b, t, [j \in ReadSet(b, t) |-> SequentialState[t][b][j]])
                    IN  IF k \in DOMAIN output THEN output[k] ELSE SequentialState[t][b][k]
<1>1. \A t \in 0 .. num_txns :
         SequentialState[t] =
            [c \in Blocks |-> IF t = 0 THEN Base ELSE AfterTxn(c, t - 1, SequentialState[t - 1][c])]
  BY SequentialDefined DEF SequentialTo
<1>2. 0 \in 0 .. num_txns
  BY Constants
<1>3. SequentialState[0][b] = Base
  BY <1>1, <1>2
<1>4. ASSUME NEW t \in Txns, NEW k \in Keys
      PROVE  SequentialState[t + 1][b][k] =
                LET output == Output(b, t, [j \in ReadSet(b, t) |-> SequentialState[t][b][j]])
                IN  IF k \in DOMAIN output THEN output[k] ELSE SequentialState[t][b][k]
  <2>1. t + 1 \in 0 .. num_txns /\ t + 1 # 0 /\ (t + 1) - 1 = t
    <3>1. t \in Nat /\ t < num_txns
      BY TxnFacts
    <3> QED
      BY <3>1, Constants
  <2>2. SequentialState[t + 1][b] = AfterTxn(b, t, SequentialState[t][b])
    <3>1. PICK n \in 0 .. num_txns : n = t + 1
      BY <2>1
    <3>2. n # 0 /\ n - 1 = t
      BY <2>1, <3>1
    <3>3. SequentialState[n] =
            [c \in Blocks |-> IF n = 0 THEN Base ELSE AfterTxn(c, n - 1, SequentialState[n - 1][c])]
      BY <1>1
    <3>4. SequentialState[n][b] = AfterTxn(b, n - 1, SequentialState[n - 1][b])
      BY <3>2, <3>3
    <3> QED
      BY <3>1, <3>2, <3>4
  <2>3. PICK before : before = SequentialState[t][b]
    OBVIOUS
  <2>4. AfterTxn(b, t, before)[k] =
           LET output == Output(b, t, [j \in ReadSet(b, t) |-> before[j]])
           IN  IF k \in DOMAIN output THEN output[k] ELSE before[k]
    BY DEF AfterTxn
  <2> QED
    BY <2>2, <2>3, <2>4, Zenon
<1> QED
  BY <1>3, <1>4

-----------------------------------------------------------------------------
(* A commit.                                                               *)

\* What a committed transaction has left is not touched any more.
LEMMA SettledFrame ==
    ASSUME TypeOK, CommitsOK, EntriesOK, WritesOK, IncarnationsOK, NEW w \in Workers, Step(w),
           ~At(w, "error")', NEW t \in Txns, t < commit_state.idx
    PROVE  SameData(t) /\ last_input_output'[t] = last_input_output[t]
<1>1. SUFFICES ASSUME Write(w) \/ MarkEstimate(w) \/ Record(w), worker[w].task.txn = t PROVE FALSE
  BY DataFrame, RecordedFrame
<1>2. Busy(w)
  BY <1>1, PhaseRoles DEF Write, MarkEstimate, Record, At, Busy, Aborting, ExecutionPcs
<1>3. commit_state.idx <= t
  BY <1>1, <1>2 DEF CommitsOK
<1> QED
  BY <1>3, WaveTypes, TxnFacts

\* Neither do reads up to the commit index change, ...
LEMMA FetchSettled ==
    ASSUME TypeOK, CommitsOK, EntriesOK, WritesOK, IncarnationsOK, NEW w \in Workers, Step(w),
           ~At(w, "error")', NEW t \in 0 .. commit_state.idx, NEW k \in DataKeys
    PROVE  fetch_data(k, t)' = fetch_data(k, t)
<1>1. commit_state.idx \in Nat /\ commit_state.idx <= num_txns
  BY WaveTypes
<1>2. ASSUME NEW j \in 0 .. t - 1 PROVE data'[k][j] = data[k][j]
  <2>1. j \in Nat /\ j < commit_state.idx /\ j < num_txns
    BY <1>1, Constants
  <2>2. j \in Txns
    BY <2>1, TxnFacts
  <2> QED
    BY <2>1, <2>2, SettledFrame DEF SameData
<1>3. t \in Nat
  BY <1>1
<1>4. FetchIn(data', k, t) = FetchIn(data, k, t)
  BY <1>2, <1>3, FetchSame
<1> QED
  BY <1>4, FetchNow, FetchNext

\* ... the state they return, ...
LEMMA StateStays ==
    ASSUME TypeOK, CommitsOK, EntriesOK, WritesOK, IncarnationsOK, NEW w \in Workers, Step(w),
           ~At(w, "error")', NEW t \in 0 .. commit_state.idx, StateAt(t)
    PROVE  StateAt(t)'
<1>1. block' = block
  BY Changes
<1> QED
  BY <1>1, FetchSettled DEF StateAt

\* ... the sequential execution, ...
LEMMA SameSequential ==
    ASSUME NEW w \in Workers, Step(w), NEW t
    PROVE  SequentialOutput(t)' = SequentialOutput(t)
<1>1. block' = block
  BY Changes
<1> QED
  BY <1>1 DEF SequentialOutput

\* ... nor what is known of a committed transaction.
LEMMA CommittedStays ==
    ASSUME TypeOK, CommitsOK, EntriesOK, WritesOK, IncarnationsOK, NEW w \in Workers, Step(w),
           ~At(w, "error")', NEW t \in Txns, t < commit_state.idx, CommittedOf(t)
    PROVE  CommittedOf(t)'
<1>1. SameData(t) /\ last_input_output'[t] = last_input_output[t]
  BY SettledFrame
<1>2. t \in 0 .. commit_state.idx
  BY TxnFacts, WaveTypes
<1>3. \A k \in DataOf(last_input_output'[t].input) :
          validate_read(k, last_input_output[t].input[k], t)'
  <2>1. SUFFICES ASSUME NEW k \in DataOf(last_input_output[t].input)
                 PROVE  validate_read(k, last_input_output[t].input[k], t)'
    BY <1>1 DEF DataOf
  <2>2. k \in DataKeys /\ k \notin ModuleKeys
    BY DEF DataOf, DataKeys
  <2>3. fetch_data(k, t)' = fetch_data(k, t)
    BY <1>2, <2>2, FetchSettled
  <2>4. validate_read(k, last_input_output[t].input[k], t)
    BY DEF CommittedOf
  <2> QED
    BY <1>1, <2>2, <2>3, <2>4 DEF validate_read
<1>4. PICK seq : seq = SequentialOutput(t)
  OBVIOUS
<1>5. SequentialOutput(t)' = seq
  BY <1>4, SameSequential
<1>6. last_input_output'[t].ok /\ last_input_output'[t].output = seq
  BY <1>1, <1>4 DEF CommittedOf
<1>7. ASSUME NEW k \in DataKeys
      PROVE  IF k \in DOMAIN seq
             THEN Written(k, t)' /\ ~data'[k][t].est /\ data'[k][t].val = seq[k]
             ELSE ~Written(k, t)'
  BY <1>1, <1>4 DEF CommittedOf, SameData, Written
<1> QED
  BY <1>3, <1>5, <1>6, <1>7, Zenon DEF CommittedOf, DataOf

\* Nobody is in the commit hook when a transaction is committed.
LEMMA NoHook ==
    ASSUME TypeOK, LocksOK, NEW w \in Workers, At(w, "try_commit")
    PROVE  \A x \in Workers : worker[x].ret # "hook" /\ ~At(x, "publish")
<1>1. Coordinates(w)
  BY DEF Coordinates, At, CommitPcs
<1>2. worker[w].ret = "loop"
  BY PhaseFacts DEF At, PhaseOK, HookPcs, FinishPcs, AbortPcs
<1>3. SUFFICES ASSUME NEW x \in Workers, worker[x].ret = "hook" \/ At(x, "publish") PROVE FALSE
  OBVIOUS
<1>4. Coordinates(x)
  BY <1>3 DEF Coordinates, At, CommitPcs
<1>5. x = w
  BY <1>1, <1>4, UniqueCoordinator
<1> QED
  BY <1>2, <1>3, <1>5 DEF At

\* Nor does anybody disturb the transactions that are committed.
LEMMA CommitUndisturbed ==
    ASSUME TypeOK, LocksOK, CommitsOK, NEW w \in Workers, At(w, "try_commit"),
           NEW c, c = commit_state.idx
    PROVE  Undisturbed(c)
<1>1. SUFFICES ASSUME NEW x \in Workers, Disturbs(x) PROVE Txn(x) >= c
  BY DEF Undisturbed
<1>2. worker[x].ret # "hook"
  BY NoHook
<1>3. Busy(x) \/ Finishing(x) \/ Aborted(x)
  <2>1. CASE Unsettles(x)
    BY <1>2, <2>1, PhaseRoles DEF Unsettles, Busy, Finishing, Aborted, At, ExecutionPcs
  <2>2. CASE At(x, "write")
    BY <2>2, PhaseRoles DEF Busy, At, ExecutionPcs
  <2> QED
    BY <1>1, <2>1, <2>2, DisturbsParts
<1>4. commit_state.idx <= worker[x].task.txn
  BY <1>3 DEF CommitsOK
<1>5. Txn(x) = worker[x].task.txn /\ worker[x].task.txn \in Nat
  BY <1>2, PhaseFacts, TxnFacts DEF Txn
<1> QED
  BY <1>4, <1>5, WaveTypes

\* The reads of the transaction that is committed are what it would read now.
LEMMA CommitValid ==
    ASSUME TypeOK, LocksOK, HaltOK, CommitsOK, ValidationsOK, NEW w \in Workers, TryCommit(w),
           NEW c \in Txns, c = commit_state.idx, NEW k \in DOMAIN last_input_output[c].input
    PROVE  validate_read(k, last_input_output[c].input[k], c)
<1>1. NoneHalted
  BY CommitBeforeCut
<1>2. txn_status[c].name = "Executed" /\ may_commit(c, next_wave(c)) /\ At(w, "try_commit")
  BY TryCommitStatus DEF TryCommit
<1>3. PICK u \in Int : u = validation_status[c].validated
  BY WaveTypes
<1>4. Enough(c, u)
  <2>1. c \in Nat /\ commit_state.wave \in Nat /\ validation_status[c].triggered \in Nat
    BY WaveTypes, TxnFacts
  <2>2. validation_status[c].required \in Nat
    BY DEF TypeOK
  <2>3. u >= commit_state.wave /\ u >= validation_status[c].triggered
    BY <1>2, <1>3, <2>1, <2>2 DEF may_commit, next_wave, MaxOf
  <2>4. \A j \in commit_state.idx .. c : j = c
    BY <2>1
  <2> QED
    BY <2>3, <2>4 DEF Enough
<1>5. Promise(c, u)
  BY <1>1, <1>3 DEF ValidationsOK
<1>6. Recorded(c)
  BY <1>2 DEF Recorded, HasStatus
<1>7. Undisturbed(c)
  BY <1>2, CommitUndisturbed
<1>8. Vouches(c, u, k, last_input_output[c].input[k])
  BY <1>5, <1>6 DEF Promise
<1> QED
  BY <1>4, <1>7, <1>8 DEF Vouches

\* A valid read has the value of a read now.
LEMMA ValidDataRead ==
    ASSUME TypeOK, NEW t \in Txns, NEW k \in DataKeys, NEW read, ReadOK(k, read),
           validate_read(k, read, t)
    PROVE  read.val = fetch_data(k, t).val
<1>1. k \notin ModuleKeys
  BY DEF DataKeys
<1>2. fetch_data(k, t) = FetchIn(data, k, t)
  BY FetchNow
<1>3. FetchIn(data, k, t).ver = read.ver
  BY <1>1, <1>2 DEF validate_read
<1>4. t \in Nat
  BY TxnFacts
<1>5. CASE \A j \in 0 .. t - 1 : data[k][j] = NoEntry
  <2>1. FetchIn(data, k, t) = [ver |-> <<>>, val |-> Base[k], est |-> FALSE]
    BY <1>4, <1>5, FetchBase
  <2>2. read.ver = <<>> /\ FetchIn(data, k, t).val = Base[k]
    BY <1>3, <2>1
  <2>3. read.val = Base[k]
    BY <1>1, <2>2 DEF ReadOK
  <2> QED
    BY <1>2, <2>2, <2>3
<1>6. CASE \E j \in 0 .. t - 1 :
              /\ data[k][j] # NoEntry
              /\ \A i \in 0 .. t - 1 : data[k][i] # NoEntry => i <= j
  <2>1. PICK j \in 0 .. t - 1 :
              /\ data[k][j] # NoEntry
              /\ \A i \in 0 .. t - 1 : data[k][i] # NoEntry => i <= j
    BY <1>6
  <2>2. FetchIn(data, k, t) = EntryRead(data, k, j)
    BY <1>4, <2>1, FetchTop
  <2>3. read.ver = <<j, data[k][j].inc>> /\ FetchIn(data, k, t).val = data[k][j].val
    BY <1>3, <2>2, EntryReadFacts
  <2>4. PICK i \in Txns, inc \in Nat :
             /\ read.ver = <<i, inc>>
             /\ \/ Written(k, i) /\ data[k][i].inc = inc /\ data[k][i].val = read.val
                \/ /\ inc < txn_status[i].inc
                   /\ Written(k, i) => inc < data[k][i].inc
    BY <1>1, <2>3 DEF ReadOK
  <2>5. i = j /\ data[k][j].inc = inc
    BY <2>3, <2>4
  <2>6. Written(k, i)
    BY <2>1, <2>5 DEF Written
  <2>7. data[k][i].val = read.val
    BY <2>4, <2>5, <2>6
  <2> QED
    BY <1>2, <2>3, <2>5, <2>7
<1> QED
  BY <1>4, <1>5, <1>6, FetchCases

\* The same for a module.
LEMMA ValidModuleRead ==
    ASSUME VersionsOK, NEW t, NEW k \in ModuleKeys, NEW read, ReadOK(k, read),
           validate_read(k, read, t)
    PROVE  read.val = modules[k].val
<1>1. modules[k].ver = read.ver
  BY DEF validate_read
<1>2. CASE read.ver = <<>> /\ read.val = Base[k]
  <2>1. \A j : <<j>> # <<>>
    OBVIOUS
  <2>2. modules[k] = [ver |-> <<>>, val |-> Base[k]]
    BY <1>1, <1>2, <2>1 DEF VersionsOK
  <2> QED
    BY <1>2, <2>2
<1> QED
  BY <1>1, <1>2 DEF ReadOK, DataKeys

\* A transaction that is committed has read what the ones below leave.
LEMMA CommitReads ==
    ASSUME TypeOK, LocksOK, HaltOK, CommitsOK, StatusOK, ReadsOK, VersionsOK, ValidationsOK,
           CommittedOK, NEW w \in Workers, TryCommit(w), NEW c \in Txns, c = commit_state.idx
    PROVE  /\ last_input_output[c].ok
           /\ last_input_output[c].output = SequentialOutput(c)
<1>1. NoneHalted
  BY CommitBeforeCut
<1>2. txn_status[c].name = "Executed" /\ At(w, "try_commit")
  BY TryCommitStatus DEF TryCommit
<1>3. last_input_output[c].ok
  BY <1>2 DEF StatusOK, StatusOf
<1>4. PICK input : input = last_input_output[c].input
  OBVIOUS
<1>5. DOMAIN input = ReadSet(block, c)
  BY <1>3, <1>4 DEF ReadsOK, InputOf
<1>6. last_input_output[c].output = Output(block, c, [k \in DOMAIN input |-> input[k].val])
  BY <1>3, <1>4 DEF ReadsOK, InputOf
<1>7. block \in Blocks
  BY DEF TypeOK
<1>8. ASSUME NEW k \in ReadSet(block, c)
      PROVE  input[k].val = SequentialState[c][block][k]
  <2>1. k \in Keys
    BY <1>7, ReadSetKeys
  <2>2. validate_read(k, input[k], c)
    BY <1>4, <1>5, CommitValid
  <2>3. ReadOK(k, input[k])
    BY <1>1, <1>4, <1>5 DEF VersionsOK
  <2>4. CASE k \in ModuleKeys
    <3>1. input[k].val = modules[k].val
      BY <2>2, <2>3, <2>4, ValidModuleRead
    <3>2. ModulesPublished = c
      BY <1>2, NoHook DEF ModulesPublished
    <3> QED
      BY <2>4, <3>1, <3>2 DEF CommittedOK
  <2>5. CASE k \notin ModuleKeys
    <3>1. k \in DataKeys
      BY <2>1, <2>5 DEF DataKeys
    <3>2. input[k].val = fetch_data(k, c).val
      BY <2>2, <2>3, <3>1, ValidDataRead
    <3>3. c \in 0 .. commit_state.idx
      BY TxnFacts
    <3> QED
      BY <3>1, <3>2, <3>3 DEF CommittedOK, StateAt
  <2> QED
    BY <2>4, <2>5
<1>9. [k \in DOMAIN input |-> input[k].val] =
         [k \in ReadSet(block, c) |-> SequentialState[c][block][k]]
  BY <1>5, <1>8
<1> QED
  BY <1>3, <1>6, <1>9 DEF SequentialOutput

\* Its entries are its output.
LEMMA CommitEntries ==
    ASSUME TypeOK, LocksOK, HaltOK, CommitsOK, StatusOK, ExecutionOK, OutputsOK, IncarnationsOK,
           ReadsOK, VersionsOK, ValidationsOK, CommittedOK, NEW w \in Workers, TryCommit(w),
           NEW c \in Txns, c = commit_state.idx, NEW k \in DataKeys
    PROVE  IF k \in DOMAIN SequentialOutput(c)
           THEN Written(k, c) /\ ~data[k][c].est /\ data[k][c].val = SequentialOutput(c)[k]
           ELSE ~Written(k, c)
<1>1. txn_status[c].name = "Executed"
  BY TryCommitStatus
<1>2. PICK seq : seq = SequentialOutput(c)
  OBVIOUS
<1>3. last_input_output[c].output = seq
  BY <1>2, CommitReads
<1>4. \A x \in Workers : At(x, "write") => worker[x].task.txn # c
  BY <1>1, NotBusy, PhaseRoles DEF At, ExecutionPcs, Busy
<1>5. Written(k, c) <=> k \in DOMAIN seq
  BY <1>3, <1>4 DEF OutputsOK, OutputOf
<1>6. PICK inc : inc = txn_status[c].inc
  OBVIOUS
<1>7. Written(k, c) => data[k][c] = [inc |-> inc, val |-> seq[k], est |-> FALSE]
  BY <1>1, <1>3, <1>6 DEF IncarnationsOK, IncarnationOf, HasStatus, AllFinal
<1>8. Written(k, c) => data[k][c].val = seq[k] /\ data[k][c].est = FALSE
  BY <1>7
<1> QED
  BY <1>2, <1>5, <1>8

\* What the committed transaction adds to the state.
LEMMA CommitState ==
    ASSUME TypeOK, LocksOK, HaltOK, CommitsOK, StatusOK, ExecutionOK, OutputsOK, IncarnationsOK,
           ReadsOK, VersionsOK, ValidationsOK, CommittedOK, NEW w \in Workers, TryCommit(w),
           Step(w), NEW c \in Txns, c = commit_state.idx
    PROVE  StateAt(c + 1)'
<1>1. c \in Nat /\ block \in Blocks /\ block' = block /\ data' = data /\ c \in 0 .. commit_state.idx
  <2>1. c \in Nat
    BY TxnFacts
  <2>2. block \in Blocks /\ block' = block /\ data' = data
    BY Changes DEF TypeOK, TryCommit, memory
  <2> QED
    BY <2>1, <2>2
<1>2. ASSUME NEW k \in DataKeys
      PROVE  /\ ~FetchIn(data, k, c + 1).est
             /\ FetchIn(data, k, c + 1).val = SequentialState[c + 1][block][k]
  <2>1. k \in Keys
    BY DEF DataKeys
  <2>2. PICK seq : seq = SequentialOutput(c)
    OBVIOUS
  <2>3. SequentialState[c + 1][block][k] =
           IF k \in DOMAIN seq THEN seq[k] ELSE SequentialState[c][block][k]
    BY <1>1, <2>1, <2>2, SequentialFacts DEF SequentialOutput
  <2>4. FetchIn(data, k, c + 1) =
           IF data[k][c] # NoEntry THEN EntryRead(data, k, c) ELSE FetchIn(data, k, c)
    BY <1>1, FetchFurther
  <2>5. IF k \in DOMAIN seq
        THEN Written(k, c) /\ ~data[k][c].est /\ data[k][c].val = seq[k]
        ELSE ~Written(k, c)
    BY <2>2, CommitEntries
  <2>6. CASE k \in DOMAIN seq
    <3>1. FetchIn(data, k, c + 1) = EntryRead(data, k, c)
      BY <2>4, <2>5, <2>6 DEF Written
    <3>2. FetchIn(data, k, c + 1).est = data[k][c].est /\
              FetchIn(data, k, c + 1).val = data[k][c].val
      BY <3>1, EntryReadFacts
    <3> QED
      BY <2>3, <2>5, <2>6, <3>2
  <2>7. CASE k \notin DOMAIN seq
    <3>1. FetchIn(data, k, c + 1) = FetchIn(data, k, c)
      BY <2>4, <2>5, <2>7 DEF Written
    <3>2. ~fetch_data(k, c).est /\ fetch_data(k, c).val = SequentialState[c][block][k]
      BY <1>1 DEF CommittedOK, StateAt
    <3> QED
      BY <2>3, <2>7, <3>1, <3>2, FetchNow
  <2> QED
    BY <2>6, <2>7
<1>3. \A k \in DataKeys : fetch_data(k, c + 1)' = FetchIn(data, k, c + 1)
  BY <1>1, FetchNext
<1> QED
  BY <1>1, <1>2, <1>3 DEF StateAt

\* It is committed as the sequential execution has it.
LEMMA CommitOf ==
    ASSUME TypeOK, LocksOK, HaltOK, CommitsOK, StatusOK, ExecutionOK, OutputsOK, IncarnationsOK,
           ReadsOK, VersionsOK, ValidationsOK, CommittedOK, NEW w \in Workers, TryCommit(w),
           Step(w), NEW c \in Txns, c = commit_state.idx
    PROVE  CommittedOf(c)'
<1>1. data' = data /\ last_input_output' = last_input_output
  BY DEF TryCommit, memory
<1>2. PICK seq : seq = SequentialOutput(c)
  OBVIOUS
<1>3. SequentialOutput(c)' = seq
  BY <1>2, SameSequential
<1>4. last_input_output'[c].ok /\ last_input_output'[c].output = seq
  BY <1>1, <1>2, CommitReads
<1>5. \A k \in DataOf(last_input_output'[c].input) :
          validate_read(k, last_input_output[c].input[k], c)'
  <2>1. SUFFICES ASSUME NEW k \in DataOf(last_input_output[c].input)
                 PROVE  validate_read(k, last_input_output[c].input[k], c)'
    BY <1>1 DEF DataOf
  <2>2. k \in DOMAIN last_input_output[c].input /\ k \in DataKeys /\ k \notin ModuleKeys
    BY DEF DataOf, DataKeys
  <2>3. validate_read(k, last_input_output[c].input[k], c)
    BY <2>2, CommitValid
  <2>4. fetch_data(k, c)' = fetch_data(k, c)
    BY <1>1, FetchNow, FetchNext
  <2> QED
    BY <1>1, <2>2, <2>3, <2>4 DEF validate_read
<1>6. ASSUME NEW k \in DataKeys
      PROVE  IF k \in DOMAIN seq
             THEN Written(k, c)' /\ ~data'[k][c].est /\ data'[k][c].val = seq[k]
             ELSE ~Written(k, c)'
  <2>1. IF k \in DOMAIN seq
        THEN Written(k, c) /\ ~data[k][c].est /\ data[k][c].val = seq[k]
        ELSE ~Written(k, c)
    BY <1>2, CommitEntries
  <2> QED
    BY <1>1, <2>1 DEF Written
<1> QED
  BY <1>3, <1>4, <1>5, <1>6, Zenon DEF CommittedOf, DataOf

\* The module cache after a step.
LEMMA ModulesStep ==
    ASSUME TypeOK, LocksOK, CommittedOK, NEW w \in Workers, Step(w), ~At(w, "error")',
           NEW k \in ModuleKeys
    PROVE  (modules[k].val = SequentialState[ModulesPublished][block][k])'
<1>1. block' = block /\ block \in Blocks /\ k \in Keys
  BY Changes, Constants DEF TypeOK
<1>2. modules[k].val = SequentialState[ModulesPublished][block][k]
  BY DEF CommittedOK
<1>3. CASE TryCommit(w)
  <2>1. ModulesPublished = commit_state.idx
    BY <1>3, NoHook DEF ModulesPublished, TryCommit
  <2>2. commit_state.idx \in Nat /\ commit_state'.idx = commit_state.idx + 1
    BY <1>3, TryCommitStatus, WaveTypes
  <2>3. At(w, "publish")'
    BY <1>3, TryCommitEffect DEF Becomes, At
  <2>4. ModulesPublished' = commit_state.idx
    BY <2>2, <2>3 DEF ModulesPublished
  <2>5. modules' = modules
    BY <1>3 DEF TryCommit, memory
  <2> QED
    BY <1>1, <1>2, <2>1, <2>4, <2>5
<1>4. CASE PublishModules(w)
  <2>1. PICK t \in Txns : t = Txn(w)
    BY TxnType
  <2>2. t = commit_state.idx - 1 /\ At(w, "publish") /\ commit_state' = commit_state
    BY <1>4, <2>1, PublishFacts
  <2>3. t \in Nat /\ commit_state.idx \in Nat
    BY TxnFacts, WaveTypes
  <2>4. ModulesPublished = t
    BY <2>2 DEF ModulesPublished
  <2>5. ModulesPublished' = t + 1
    <3>1. Published(t)'
      BY <1>4, <2>1, NewlyPublished
    <3>2. \A x \in Workers : ~At(x, "publish")'
      BY <2>2, <2>3, <3>1 DEF Published
    <3> QED
      BY <2>2, <2>3, <3>2 DEF ModulesPublished
  <2>6. t \in 0 .. commit_state.idx - 1
    BY <2>2, <2>3
  <2>7. last_input_output[t].output = SequentialOutput(t)
    BY <2>6 DEF CommittedOK, CommittedOf
  <2>8. modules'[k].val = IF k \in DOMAIN last_input_output[t].output
                         THEN last_input_output[t].output[k] ELSE modules[k].val
    BY <1>4, <2>1 DEF PublishModules
  <2>9. SequentialState[t + 1][block][k] =
           IF k \in DOMAIN SequentialOutput(t) THEN SequentialOutput(t)[k]
           ELSE SequentialState[t][block][k]
    BY <1>1, SequentialFacts DEF SequentialOutput
  <2> QED
    BY <1>1, <1>2, <2>4, <2>5, <2>7, <2>8, <2>9
<1>5. CASE ~TryCommit(w) /\ ~PublishModules(w)
  <2>1. modules' = modules
    BY <1>5, Changes
  <2>2. commit_state'.idx = commit_state.idx
    <3>1. CASE TryCommitNothing(w)
      BY <3>1 DEF TryCommitNothing, TypeOK
    <3> QED
      BY <1>5, <3>1, Changes
  <2>3. \A x \in Workers : At(x, "publish")' <=> At(x, "publish")
    BY <1>5, RolesOf
  <2>4. ModulesPublished' = ModulesPublished
    BY <2>2, <2>3, Zenon DEF ModulesPublished
  <2> QED
    BY <1>1, <1>2, <2>1, <2>4
<1> QED
  BY <1>3, <1>4, <1>5

\* CommittedOK is preserved.
LEMMA CommittedStep ==
    ASSUME TypeOK, LocksOK, HaltOK, CommitsOK, StatusOK, ExecutionOK, EntriesOK, OutputsOK,
           WritesOK, IncarnationsOK, ReadsOK, VersionsOK, ValidationsOK, CommittedOK,
           NEW w \in Workers, Step(w), ~At(w, "error")'
    PROVE  CommittedOK'
<1>1. commit_state.idx \in Nat /\ commit_state.idx <= num_txns /\ num_txns \in Nat
  BY WaveTypes, Constants
<1>2. \/ commit_state'.idx = commit_state.idx
      \/ TryCommit(w) /\ commit_state.idx \in Txns /\ commit_state'.idx = commit_state.idx + 1
  <2>1. CASE TryCommit(w)
    BY <2>1, TryCommitStatus
  <2>2. CASE TryCommitNothing(w)
    BY <2>2 DEF TryCommitNothing, TypeOK
  <2> QED
    BY <2>1, <2>2, Changes
<1>3. ASSUME NEW t \in 0 .. commit_state'.idx - 1 PROVE CommittedOf(t)'
  <2>1. CASE t \in 0 .. commit_state.idx - 1
    <3>1. t \in Nat /\ t < commit_state.idx /\ t < num_txns
      BY <1>1, <2>1
    <3>2. t \in Txns /\ CommittedOf(t)
      BY <2>1, <3>1, TxnFacts DEF CommittedOK
    <3> QED
      BY <3>1, <3>2, CommittedStays
  <2>2. CASE t \notin 0 .. commit_state.idx - 1
    <3>1. TryCommit(w) /\ commit_state.idx \in Txns /\ t = commit_state.idx
      BY <1>1, <1>2, <2>2
    <3> QED
      BY <3>1, CommitOf
  <2> QED
    BY <2>1, <2>2
<1>4. ASSUME NEW t \in 0 .. commit_state'.idx PROVE StateAt(t)'
  <2>1. CASE t \in 0 .. commit_state.idx
    <3>1. StateAt(t)
      BY <2>1 DEF CommittedOK
    <3> QED
      BY <2>1, <3>1, StateStays
  <2>2. CASE t \notin 0 .. commit_state.idx
    <3>1. PICK c \in Txns : c = commit_state.idx
      BY <1>1, <1>2, <2>2
    <3>2. TryCommit(w) /\ t = c + 1
      BY <1>1, <1>2, <2>2, <3>1
    <3>3. StateAt(c + 1)'
      BY <3>1, <3>2, CommitState
    <3> QED
      BY <3>2, <3>3
  <2> QED
    BY <2>1, <2>2
<1>5. \A k \in ModuleKeys : (modules[k].val = SequentialState[ModulesPublished][block][k])'
  BY ModulesStep
<1> QED
  BY <1>3, <1>4, <1>5 DEF CommittedOK

-----------------------------------------------------------------------------
(* The invariant.                                                          *)

\* What the workers and the scheduler do, ...
SchedulerInv ==
    /\ TypeOK /\ LocksOK /\ HaltOK /\ CommitsOK /\ QueueOK
    /\ StatusOK /\ ExecutionOK /\ WakeupsOK /\ DependenciesOK /\ WavesOK

\* ... what is in the multi-version data until the block is finalized, ...
DataInv ==
    /\ EntriesOK /\ OutputsOK /\ WritesOK /\ IncarnationsOK
    /\ VersionsOK /\ ValidationsOK

\* ... and all that is invariant.
Inv ==
    /\ SchedulerInv
    /\ ReadsOK /\ CommittedOK
    /\ FinalOK
    /\ BlockFinalizes
    /\ block_result = "running" => DataInv

\* Everything but the data and the results.
rest == <<block, txn_status, validation_status, txn_dependency, commit_state, execution_idx,
          validation_idx, done_marker, has_halted, queueing_commits, commit_queue, vlock, dlock,
          modules, skip_module_reads_validation, last_input_output, cvar, worker>>

\* The variables, sorted.
LEMMA RestVars ==
    UNCHANGED vars <=> UNCHANGED <<rest, data, final_results, block_result>>
BY DEF vars, rest, shared, statuses, indices, markers, commits, locks, memory

\* The invariant is about the values of the variables: each part when they do
\* not change.
LEMMA SameType ==
    ASSUME TypeOK, UNCHANGED rest
    PROVE  TypeOK'
BY DEF TypeOK, WorkerOK, FieldsOK, PhaseOK, Kind, rest

\* The roles.
LEMMA SameRoles ==
    ASSUME UNCHANGED rest, NEW x
    PROVE  /\ Executing(x)' <=> Executing(x)
           /\ Finishing(x)' <=> Finishing(x)
           /\ Aborting(x)' <=> Aborting(x)
           /\ Aborted(x)' <=> Aborted(x)
           /\ Busy(x)' <=> Busy(x)
           /\ Coordinates(x)' <=> Coordinates(x)
           /\ Pending(x)' <=> Pending(x)
           /\ Wakes(x)' <=> Wakes(x)
           /\ Validates(x)' <=> Validates(x)
           /\ HasWave(x)' <=> HasWave(x)
           /\ Reads(x)' <=> Reads(x)
           /\ Txn(x)' = Txn(x)
           /\ \A p : At(x, p)' <=> At(x, p)
BY DEF rest, Executing, Finishing, Aborting, Aborted, Busy, Coordinates, Pending, Wakes, Validates,
       HasWave, Reads, Txn, At, Kind

\* The invariants of the scheduler, which are not about the data.
LEMMA SameScheduler ==
    ASSUME SchedulerInv, UNCHANGED rest,
           block_result' = "running" => block_result = "running" /\ final_results' = final_results
    PROVE  SchedulerInv'
<1> USE DEF SchedulerInv
<1>1. TypeOK'
  BY SameType
<1>2. LocksOK'
  BY SameRoles DEF LocksOK, rest
<1>3. HaltOK'
  BY SameRoles DEF HaltOK, Cut, NoneHalted, AllHalted, IsHalted, Kind, rest
<1>4. CommitsOK'
  BY SameRoles DEF CommitsOK, HasStatus, rest
<1>5. QueueOK'
  <2>1. Queued' = Queued
    BY DEF Queued, rest
  <2>2. AllExited' <=> AllExited
    BY DEF AllExited, At, rest
  <2>3. commit_queue' = commit_queue
    BY DEF rest
  <2> QED
    BY <2>1, <2>2, <2>3 DEF QueueOK
<1>6. StatusOK'
  BY SameRoles DEF StatusOK, StatusOf, OneBusy, rest
<1>7. ExecutionOK'
  BY SameRoles DEF ExecutionOK, ExecutionOf, rest
<1>8. WakeupsOK'
  <2>1. /\ worker' = worker /\ txn_status' = txn_status /\ cvar' = cvar
        /\ done_marker' = done_marker
    BY DEF rest
  <2>2. \A c : Retired(c)' <=> Retired(c)
    BY <2>1 DEF Retired, Pending, IsHalted, Kind
  <2>3. \A c, t : Ended(c, t)' <=> Ended(c, t)
    BY <2>1, <2>2, SameRoles DEF Ended, IsHalted
  <2>4. \A c, t : Woken(c, t)' <=> Woken(c, t)
    BY <2>1 DEF Woken, At
  <2>5. \A v \in Workers : WakeupOf(v)'
    BY <2>1, <2>3, <2>4, SameRoles DEF WakeupsOK, WakeupOf
  <2> QED
    BY <2>1, <2>5, SameRoles DEF WakeupsOK, IsHalted
<1>9. DependenciesOK'
  BY DEF DependenciesOK, DependentOf, ResumedBy, HasWaker, WillWake, HasStatus, Txn, At, rest
<1>10. WavesOK'
  BY SameRoles DEF WavesOK, Covered, Enough, rest
<1> QED
  BY <1>1, <1>2, <1>3, <1>4, <1>5, <1>6, <1>7, <1>8, <1>9, <1>10

\* The reads.
LEMMA SameReads ==
    ASSUME ReadsOK, UNCHANGED rest
    PROVE  ReadsOK'
<1>1. \A x \in Workers : ReadsBy(x)'
  BY DEF ReadsOK, ReadsBy, Reads, Executing, Pending, Kind, At, rest
<1>2. \A t \in Txns : InputOf(t)'
  BY DEF ReadsOK, InputOf, rest
<1> QED
  BY <1>1, <1>2 DEF ReadsOK

\* Entries below the commit index are all that CommittedOK is about.
LEMMA SameCommitted ==
    ASSUME TypeOK, CommittedOK, UNCHANGED rest,
           \A k \in DataKeys : \A t \in Txns : t < commit_state.idx => data'[k][t] = data[k][t]
    PROVE  CommittedOK'
<1>1. /\ commit_state' = commit_state /\ block' = block /\ modules' = modules
      /\ last_input_output' = last_input_output /\ worker' = worker
  BY DEF rest
<1>2. commit_state.idx \in Nat /\ commit_state.idx <= num_txns /\ num_txns \in Nat
  BY WaveTypes, Constants
<1>3. ASSUME NEW t \in 0 .. commit_state.idx, NEW k \in DataKeys
      PROVE  fetch_data(k, t)' = fetch_data(k, t)
  <2>1. ASSUME NEW j \in 0 .. t - 1 PROVE data'[k][j] = data[k][j]
    <3>1. j \in Nat /\ j < commit_state.idx /\ j < num_txns
      BY <1>2
    <3>2. j \in Txns
      BY <3>1, TxnFacts
    <3> QED
      BY <3>1, <3>2
  <2>2. t \in Nat
    BY <1>2
  <2>3. FetchIn(data', k, t) = FetchIn(data, k, t)
    BY <2>1, <2>2, FetchSame
  <2> QED
    BY <2>3, FetchNow, FetchNext
<1>4. ASSUME NEW t \in 0 .. commit_state.idx PROVE StateAt(t)'
  BY <1>1, <1>3 DEF CommittedOK, StateAt
<1>5. ASSUME NEW t \in 0 .. commit_state.idx - 1 PROVE CommittedOf(t)'
  <2>1. CommittedOf(t)
    BY DEF CommittedOK
  <2>2. t \in Nat /\ t < commit_state.idx /\ t < num_txns /\ t \in 0 .. commit_state.idx
    BY <1>2
  <2>3. t \in Txns
    BY <2>2, TxnFacts
  <2>4. \A k \in DataKeys : data'[k][t] = data[k][t] /\ fetch_data(k, t)' = fetch_data(k, t)
    BY <1>3, <2>2, <2>3
  <2>5. SequentialOutput(t)' = SequentialOutput(t)
    BY <1>1 DEF SequentialOutput
  <2>6. \A k \in DataOf(last_input_output[t].input) :
           validate_read(k, last_input_output[t].input[k], t)'
    <3>1. SUFFICES ASSUME NEW k \in DataOf(last_input_output[t].input)
                   PROVE  validate_read(k, last_input_output[t].input[k], t)'
      OBVIOUS
    <3>2. k \in DataKeys /\ k \notin ModuleKeys
      BY DEF DataOf, DataKeys
    <3>3. validate_read(k, last_input_output[t].input[k], t)
      BY <2>1 DEF CommittedOf
    <3>4. fetch_data(k, t)' = fetch_data(k, t)
      BY <2>4, <3>2
    <3> QED
      BY <1>1, <3>2, <3>3, <3>4 DEF validate_read
  <2>7. PICK seq : seq = SequentialOutput(t)
    OBVIOUS
  <2>8. last_input_output[t].ok /\ last_input_output[t].output = seq
    BY <2>1, <2>7 DEF CommittedOf
  <2>9. ASSUME NEW k \in DataKeys
        PROVE  IF k \in DOMAIN seq
               THEN Written(k, t)' /\ ~data'[k][t].est /\ data'[k][t].val = seq[k]
               ELSE ~Written(k, t)'
    BY <2>1, <2>4, <2>7 DEF CommittedOf, Written
  <2> QED
    BY <1>1, <2>5, <2>6, <2>7, <2>8, <2>9, Zenon DEF CommittedOf, DataOf
<1>6. ModulesPublished' = ModulesPublished
  BY <1>1 DEF ModulesPublished, At
<1> QED
  BY <1>1, <1>4, <1>5, <1>6 DEF CommittedOK

\* What is read.
LEMMA SameFetch ==
    ASSUME UNCHANGED vars, NEW k, NEW t
    PROVE  /\ fetch_data(k, t)' = fetch_data(k, t)
           /\ \A read : validate_read(k, read, t)' <=> validate_read(k, read, t)
<1>1. data' = data /\ modules' = modules
  BY RestVars DEF rest
<1>2. fetch_data(k, t)' = fetch_data(k, t)
  BY <1>1, FetchNow, FetchNext
<1> QED
  BY <1>1, <1>2 DEF validate_read

\* The invariants of the data.
LEMMA SameDataInv ==
    ASSUME DataInv, UNCHANGED vars
    PROVE  DataInv'
<1> USE DEF DataInv
<1>1. UNCHANGED <<rest, data, final_results, block_result>>
  BY RestVars
<1>2. EntriesOK'
  BY <1>1 DEF EntriesOK, IsEntry
<1>3. OutputsOK'
  BY <1>1, SMTT(30) DEF OutputsOK, OutputOf, Written, At, rest
<1>4. WritesOK'
  BY <1>1, SMTT(30) DEF WritesOK, WritesOf, CurrentOutput, Written, DataOf, At, rest
<1>5. IncarnationsOK'
  BY <1>1, SameRoles DEF IncarnationsOK, IncarnationOf, IncarnationBy, AllEstimates, AllFinal,
     PartlyEstimates, HasStatus, Written, DataOf, rest
<1>6. VersionsOK'
  <2>1. \A k, read : ReadOK(k, read)' <=> ReadOK(k, read)
    BY <1>1 DEF ReadOK, Published, Written, At, rest
  <2>2. \A j : Published(j)' <=> Published(j)
    BY <1>1 DEF Published, At, rest
  <2>3. NoneHalted' <=> NoneHalted
    BY <1>1 DEF NoneHalted, IsHalted, rest
  <2>4. ASSUME NoneHalted, NEW x \in Workers, Reads(x), NEW k \in DOMAIN worker[x].reads
        PROVE  ReadOK(k, worker[x].reads[k])'
    <3>1. PICK read : read = worker[x].reads[k]
      OBVIOUS
    <3>2. ReadOK(k, read)'
      BY <2>1, <2>4, <3>1 DEF VersionsOK
    <3>3. worker' = worker
      BY <1>1 DEF rest
    <3> QED
      BY <3>1, <3>2, <3>3 DEF ReadOK
  <2>5. ASSUME NoneHalted, NEW t \in Txns, NEW k \in DOMAIN last_input_output[t].input
        PROVE  ReadOK(k, last_input_output[t].input[k])'
    <3>1. PICK read : read = last_input_output[t].input[k]
      OBVIOUS
    <3>2. ReadOK(k, read)'
      BY <2>1, <2>5, <3>1 DEF VersionsOK
    <3>3. last_input_output' = last_input_output
      BY <1>1 DEF rest
    <3> QED
      BY <3>1, <3>2, <3>3 DEF ReadOK
  <2>6. /\ worker' = worker /\ last_input_output' = last_input_output /\ modules' = modules
        /\ skip_module_reads_validation' = skip_module_reads_validation
    BY <1>1 DEF rest
  <2>7. \A x \in Workers : (Reads(x)' <=> Reads(x)) /\ (At(x, "require")' <=> At(x, "require"))
    BY <1>1, SameRoles
  <2>8. (NoneHalted =>
         /\ \A x \in Workers : Reads(x) =>
               \A k \in DOMAIN worker[x].reads : ReadOK(k, worker[x].reads[k])
         /\ \A t \in Txns : \A k \in DOMAIN last_input_output[t].input :
               ReadOK(k, last_input_output[t].input[k]))'
    BY <2>3, <2>4, <2>5, <2>6, <2>7
  <2>9. (\A k \in ModuleKeys :
          \/ modules[k] = [ver |-> <<>>, val |-> Base[k]]
          \/ \E j \in Txns : modules[k].ver = <<j>> /\ Published(j))'
    BY <2>2, <2>6 DEF VersionsOK
  <2>10. (skip_module_reads_validation =>
          \/ \A k \in ModuleKeys : modules[k].ver = <<>>
          \/ \E x \in Workers : At(x, "require"))'
    BY <2>6, <2>7 DEF VersionsOK
  <2> QED
    BY <2>8, <2>9, <2>10 DEF VersionsOK
<1>7. ValidationsOK'
  <2>1. \A x : Disturbs(x)' <=> Disturbs(x)
    BY <1>1 DEF Disturbs, Aborting, Finishing, needs_suffix_validation, CurrentOutput, At, rest
  <2>2. \A t : Undisturbed(t)' <=> Undisturbed(t)
    BY <1>1, <2>1, SameRoles DEF Undisturbed
  <2>3. \A t, u : Enough(t, u)' <=> Enough(t, u)
    BY <1>1 DEF Enough, rest
  <2>4. \A t, u, k, read : Vouches(t, u, k, read)' <=> Vouches(t, u, k, read)
    BY <2>2, <2>3, SameFetch DEF Vouches
  <2>5. worker' = worker /\ last_input_output' = last_input_output /\ txn_status' = txn_status
        /\ validation_status' = validation_status
    BY <1>1 DEF rest
  <2>6. \A t : Recorded(t)' <=> Recorded(t)
    BY <2>5 DEF Recorded, HasStatus, At
  <2>7. ASSUME NEW t, NEW u, Promise(t, u) PROVE Promise(t, u)'
    <3>1. ASSUME NEW x \in Workers, Reads(x), worker[x].task.txn = t,
                 NEW k \in DOMAIN worker[x].reads
          PROVE  Vouches(t, u, k, worker[x].reads[k])'
      <4>1. PICK read : read = worker[x].reads[k]
        OBVIOUS
      <4>2. Vouches(t, u, k, read)'
        BY <2>4, <2>7, <3>1, <4>1 DEF Promise
      <4> QED
        BY <2>5, <4>1, <4>2 DEF Vouches
    <3>2. ASSUME Recorded(t), NEW k \in DOMAIN last_input_output[t].input
          PROVE  Vouches(t, u, k, last_input_output[t].input[k])'
      <4>1. PICK read : read = last_input_output[t].input[k]
        OBVIOUS
      <4>2. Vouches(t, u, k, read)'
        BY <2>4, <2>7, <3>2, <4>1 DEF Promise
      <4> QED
        BY <2>5, <4>1, <4>2 DEF Vouches
    <3> QED
      BY <1>1, <2>5, <2>6, <3>1, <3>2, SameRoles DEF Promise
  <2>8. NoneHalted' <=> NoneHalted
    BY <2>5 DEF NoneHalted, IsHalted
  <2>9. \A x : (Current(x)' <=> Current(x)) /\ (Superseded(x)' <=> Superseded(x))
    BY <2>5 DEF Current, Superseded
  <2>10. ASSUME NEW x \in Workers, ValidationBy(x) PROVE ValidationBy(x)'
    <3>1. PICK t : t = worker[x].task.txn
      OBVIOUS
    <3>2. PICK u : u = worker[x].task.wave
      OBVIOUS
    <3>3. ASSUME Current(x), At(x, "validate"), NEW k \in DOMAIN worker[x].reads \ worker[x].todo
          PROVE  Vouches(t, u, k, worker[x].reads[k])'
      <4>1. PICK read : read = worker[x].reads[k]
        OBVIOUS
      <4>2. Vouches(t, u, k, read)'
        BY <2>4, <2>10, <3>1, <3>2, <3>3, <4>1 DEF ValidationBy
      <4> QED
        BY <2>5, <4>1, <4>2 DEF Vouches
    <3>4. ASSUME Current(x), At(x, "finish_validation"), NEW k \in DOMAIN last_input_output[t].input
          PROVE  Vouches(t, u, k, last_input_output[t].input[k])'
      <4>1. PICK read : read = last_input_output[t].input[k]
        OBVIOUS
      <4>2. Vouches(t, u, k, read)'
        BY <2>4, <2>10, <3>1, <3>2, <3>4, <4>1 DEF ValidationBy
      <4> QED
        BY <2>5, <4>1, <4>2 DEF Vouches
    <3>5. ~Current(x) => Promise(t, u)'
      BY <2>7, <2>10, <3>1, <3>2 DEF ValidationBy
    <3>6. /\ Current(x) \/ Superseded(x)
          /\ At(x, "finish_validation") /\ ~worker[x].flag => Superseded(x)
          /\ Current(x) /\ At(x, "validate") => worker[x].reads = last_input_output[t].input
      BY <2>10, <3>1, <3>2 DEF ValidationBy
    <3>7. /\ worker'[x].task.txn = t /\ worker'[x].task.wave = u
          /\ \A p : At(x, p)' <=> At(x, p)
      BY <1>1, <2>5, <3>1, <3>2, SameRoles
    <3>8. (/\ Current(x) \/ Superseded(x)
           /\ ~Current(x) => Promise(t, u)
           /\ At(x, "finish_validation") /\ ~worker[x].flag => Superseded(x)
           /\ Current(x) /\ At(x, "validate") =>
                 /\ worker[x].reads = last_input_output[t].input
                 /\ \A k \in DOMAIN worker[x].reads \ worker[x].todo :
                       Vouches(t, u, k, worker[x].reads[k])
           /\ Current(x) /\ At(x, "finish_validation") =>
                 \A k \in DOMAIN last_input_output[t].input :
                    Vouches(t, u, k, last_input_output[t].input[k]))'
      BY <2>5, <2>9, <3>3, <3>4, <3>5, <3>6, <3>7
    <3> QED
      BY <3>7, <3>8 DEF ValidationBy
  <2>11. \A x \in Workers : Validates(x)' <=> Validates(x)
    BY <1>1, SameRoles
  <2> QED
    BY <2>5, <2>7, <2>8, <2>10, <2>11 DEF ValidationsOK
<1> QED
  BY <1>2, <1>3, <1>4, <1>5, <1>6, <1>7

-----------------------------------------------------------------------------
(* The first state, the steps and the theorems.                            *)

\* The first state.
LEMMA InitWorkers ==
    ASSUME Init, NEW x \in Workers
    PROVE  /\ worker[x].pc = "loop" /\ worker[x].ret = "loop"
           /\ Kind(x) = "Retry"
           /\ worker[x].reads = EmptyFunction /\ worker[x].todo = {}
           /\ WorkerOK(x)
           /\ ~Executing(x) /\ ~Finishing(x) /\ ~Aborting(x) /\ ~Aborted(x)
           /\ ~Coordinates(x) /\ ~Wakes(x) /\ ~Validates(x) /\ ~HasWave(x) /\ ~Reads(x)
           /\ ~Disturbs(x)
<1>1. worker[x] = NewWorker
  BY DEF Init
<1>2. NoTask("Retry") \in Tasks /\ NoTask("Retry").kind = "Retry"
  BY NoTaskFacts
<1>3. /\ worker[x].pc = "loop" /\ worker[x].ret = "loop" /\ worker[x].task = NoTask("Retry")
      /\ worker[x].reads = EmptyFunction /\ worker[x].todo = {}
      /\ worker[x].num = [idx |-> 0, wave |-> 0] /\ worker[x].flag = FALSE
      /\ DOMAIN worker[x] = WorkerFields
  BY <1>1 DEF NewWorker, WorkerFields
<1>4. Kind(x) = "Retry"
  BY <1>2, <1>3 DEF Kind
<1>5. WorkerOK(x)
  <2>1. FieldsOK(x)
    <3>1. worker[x].num \in [idx : Nat, wave : Nat]
      BY <1>3
    <3>2. worker[x].flag \in BOOLEAN
      BY <1>3, Zenon
    <3>3. worker[x].pc \notin {"next_executed", "next_incarnate", "next_validation", "wait",
                             "suspend"}
      BY <1>3
    <3> QED
      BY <1>2, <1>3, <3>1, <3>2, <3>3, Zenon DEF FieldsOK
  <2>2. PhaseOK(x)
    BY <1>3, <1>4 DEF PhaseOK, LoopPcs
  <2> QED
    BY <1>3, <2>1, <2>2 DEF WorkerOK
<1>6. /\ ~Executing(x) /\ ~Finishing(x) /\ ~Aborting(x) /\ ~Aborted(x)
      /\ ~Coordinates(x) /\ ~Wakes(x) /\ ~Validates(x) /\ ~HasWave(x) /\ ~Reads(x)
  BY <1>3, <1>4 DEF Executing, Finishing, Aborting, Aborted, Coordinates, Wakes, Validates,
     HasWave, Reads, CommitPcs
<1>7. ~Disturbs(x)
  BY <1>3, <1>6 DEF Disturbs, At
<1> QED
  BY <1>3, <1>4, <1>5, <1>6, <1>7

\* Every transaction is ready and nothing is recorded.
LEMMA InitStatus ==
    ASSUME Init, NEW t \in Txns
    PROVE  /\ txn_status[t] \in Statuses
           /\ txn_status[t].name = "Ready" /\ txn_status[t].inc = 0 /\ txn_status[t].cv = None
           /\ txn_status[t].safe = TRUE
           /\ validation_status[t].validated = -1
           /\ last_input_output[t].ok = FALSE
           /\ last_input_output[t].input = EmptyFunction
           /\ last_input_output[t].output = EmptyFunction
BY DEF Init, Status, Statuses, StatusNames

\* The scheduler's invariants hold at first, ...
LEMMA InitScheduler ==
    ASSUME Init
    PROVE  SchedulerInv
<1>1. TypeOK
  <2>1. \A t \in Txns : txn_status[t] \in Statuses
    BY InitStatus
  <2>2. txn_status \in [Txns -> Statuses]
    BY <2>1 DEF Init
  <2>3. 0 \in 0 .. num_txns
    BY Constants
  <2>4. /\ block \in Blocks
        /\ validation_status \in
              [Txns -> [triggered : Nat, required : Nat, validated : Nat \cup {-1}]]
        /\ txn_dependency \in [Txns -> SUBSET Txns]
        /\ commit_state \in [idx : 0 .. num_txns, wave : Nat]
        /\ execution_idx \in Nat
        /\ validation_idx \in [idx : Nat, wave : Nat]
        /\ done_marker \in BOOLEAN
        /\ has_halted \in BOOLEAN
        /\ DOMAIN modules = ModuleKeys
        /\ skip_module_reads_validation \in BOOLEAN
        /\ DOMAIN last_input_output = Txns
    BY <2>3 DEF Init
  <2>5. /\ queueing_commits \in [armed : BOOLEAN, owner : Workers \cup {None}]
        /\ vlock \in [Txns -> Workers \cup {None}]
        /\ dlock \in [Txns -> Workers \cup {None}]
        /\ cvar \in [Workers -> {"Resolved", "Unresolved", "Halted"}]
        /\ DOMAIN worker = Workers
    BY DEF Init
  <2> QED
    BY <2>2, <2>4, <2>5, InitWorkers DEF TypeOK
<1>2. LocksOK
  <2>1. None \notin Workers
    BY Constants
  <2>2. \A x \in Workers : queueing_commits.owner # x /\ \A t \in Txns : vlock[t] # x /\
            dlock[t] # x
    BY <2>1 DEF Init
  <2>3. \A x \in Workers : ~At(x, "suspend")
    BY InitWorkers DEF At
  <2> QED
    BY <2>2, <2>3, InitWorkers DEF LocksOK
<1>3. HaltOK
  <2>1. commit_state.idx = 0 /\ ~done_marker /\ ~has_halted /\ num_txns \in Nat /\ num_txns > 0
    BY Constants DEF Init
  <2>2. NoneHalted
    BY InitStatus DEF NoneHalted, IsHalted
  <2>3. \A x \in Workers : ~At(x, "halt_txn") /\ ~At(x, "halted") /\ ~At(x, "halt")
                            /\ worker[x].ret # "hook" /\ Kind(x) # "Done"
    BY InitWorkers DEF At
  <2> QED
    BY <2>1, <2>2, <2>3 DEF HaltOK, Cut
<1>4. CommitsOK
  <2>1. \A t \in Txns : ~(t < commit_state.idx) /\ ~HasStatus(t, {"Committed"})
    <3>1. commit_state.idx = 0
      BY DEF Init
    <3>2. \A t \in Txns : ~(t < 0)
      BY TxnFacts
    <3> QED
      BY <3>1, <3>2, InitStatus DEF HasStatus
  <2> QED
    BY <2>1, InitWorkers DEF CommitsOK, Busy
<1>5. QueueOK
  <2>1. Queued = 0
    BY InitWorkers DEF Queued, Init
  <2>2. commit_queue = <<>> /\ final_results = {}
    BY DEF Init
  <2>3. Len(<<>>) = 0 /\ <<>> \in Seq(Nat) /\ 0 .. (0 - 0 - 1) = {}
    OBVIOUS
  <2> QED
    BY <2>1, <2>2, <2>3 DEF QueueOK
<1>6. StatusOK
  BY InitStatus, InitWorkers DEF StatusOK, StatusOf, OneBusy, Busy
<1>7. ExecutionOK
  BY InitWorkers DEF ExecutionOK, ExecutionOf, At
<1>8. WakeupsOK
  BY InitWorkers DEF WakeupsOK, WakeupOf
<1>9. DependenciesOK
  <2>1. \A d \in Txns : txn_dependency[d] = {}
    BY DEF Init
  <2>2. \A x \in Workers : ~At(x, "resume") /\ ~At(x, "suspend")
    BY InitWorkers DEF At
  <2> QED
    BY <2>1, <2>2, InitStatus DEF DependenciesOK, DependentOf, ResumedBy, HasStatus
<1>10. WavesOK
  <2>1. \A t \in Txns : Covered(t, validation_status[t].validated)
    BY InitStatus DEF Covered, Enough, Init
  <2>2. \A x \in Workers : ~At(x, "next_executed") /\ ~At(x, "decrease_cas") /\
            ~At(x, "next_validation")
    BY InitWorkers DEF At
  <2> QED
    BY <2>1, <2>2, InitWorkers DEF WavesOK
<1> QED
  BY <1>1, <1>2, <1>3, <1>4, <1>5, <1>6, <1>7, <1>8, <1>9, <1>10 DEF SchedulerInv

\* ... so do those of the data, ...
LEMMA InitData ==
    ASSUME Init
    PROVE  DataInv
<1>1. DOMAIN EmptyFunction = {}
  BY DEF EmptyFunction
<1>2. \A k \in DataKeys : \A t \in Txns : data[k][t] = NoEntry
  BY DEF Init
<1>3. EntriesOK
  <2>1. IsEntry(NoEntry)
    BY DEF IsEntry, NoEntry
  <2> QED
    BY <1>2, <2>1 DEF EntriesOK, Init
<1>4. OutputsOK
  BY <1>1, <1>2, InitStatus DEF OutputsOK, OutputOf, Written
<1>5. WritesOK
  BY InitWorkers DEF WritesOK, WritesOf, At
<1>6. IncarnationsOK
  <2>1. \A t \in Txns : IncarnationOf(t)
    BY <1>2, InitStatus DEF IncarnationOf, HasStatus, AllEstimates, Written
  <2>2. \A x \in Workers : IncarnationBy(x)
    BY InitWorkers DEF IncarnationBy, At
  <2> QED
    BY <2>1, <2>2 DEF IncarnationsOK
<1>7. VersionsOK
  <2>1. \A k \in ModuleKeys : modules[k] = [ver |-> <<>>, val |-> Base[k]]
    BY DEF Init
  <2>2. ASSUME NEW k \in ModuleKeys PROVE modules[k].ver = <<>>
    <3>1. modules[k] = [ver |-> <<>>, val |-> Base[k]]
      BY <2>1
    <3> QED
      BY <3>1
  <2>3. \A x \in Workers : ~Reads(x)
    BY InitWorkers
  <2>4. \A t \in Txns : DOMAIN last_input_output[t].input = {}
    BY <1>1, InitStatus
  <2>5. NoneHalted =>
           /\ \A w \in Workers : Reads(w) =>
                 \A k \in DOMAIN worker[w].reads : ReadOK(k, worker[w].reads[k])
           /\ \A t \in Txns : \A k \in DOMAIN last_input_output[t].input :
                 ReadOK(k, last_input_output[t].input[k])
    BY <2>3, <2>4, Zenon
  <2> QED
    BY <2>1, <2>2, <2>5, Zenon DEF VersionsOK
<1>8. ValidationsOK
  <2>1. \A t \in Txns : ~Recorded(t)
    BY InitStatus, InitWorkers DEF Recorded, HasStatus, At
  <2>2. \A t \in Txns : \A u : Promise(t, u)
    BY <2>1, InitWorkers DEF Promise
  <2> QED
    BY <2>2, InitWorkers DEF ValidationsOK
<1> QED
  BY <1>3, <1>4, <1>5, <1>6, <1>7, <1>8 DEF DataInv

\* ... and the whole.
LEMMA InitInv ==
    ASSUME Init
    PROVE  Inv
<1>1. SchedulerInv
  BY InitScheduler
<1>2. DataInv
  BY InitData
<1>3. block_result = "running" /\ block \in Blocks /\ commit_state.idx = 0
  BY DEF Init
<1>4. ReadsOK
  BY InitWorkers, InitStatus DEF ReadsOK, ReadsBy, InputOf
<1>5. CommittedOK
  <2>1. \A k \in Keys : SequentialState[0][block][k] = Base[k]
    BY <1>3, SequentialFacts
  <2>2. ASSUME NEW k \in DataKeys
        PROVE  /\ ~fetch_data(k, 0).est
               /\ fetch_data(k, 0).val = SequentialState[0][block][k]
    <3>1. FetchIn(data, k, 0) = [ver |-> <<>>, val |-> Base[k], est |-> FALSE]
      <4>1. \A j \in 0 .. 0 - 1 : data[k][j] = NoEntry
        OBVIOUS
      <4> QED
        BY <4>1, FetchBase
    <3>2. k \in Keys
      BY DEF DataKeys
    <3>3. FetchIn(data, k, 0).val = Base[k] /\ FetchIn(data, k, 0).est = FALSE
      BY <3>1
    <3> QED
      BY <2>1, <3>2, <3>3, FetchNow
  <2>3. StateAt(0)
    BY <2>2 DEF StateAt
  <2>4. ModulesPublished = 0
    BY <1>3, InitWorkers DEF ModulesPublished, At
  <2>5. \A k \in ModuleKeys : modules[k].val = Base[k]
    BY DEF Init
  <2>6. ModuleKeys \subseteq Keys
    BY Constants
  <2>7. \A k \in ModuleKeys : modules[k].val = SequentialState[ModulesPublished][block][k]
    BY <2>1, <2>4, <2>5, <2>6
  <2>8. /\ \A t \in 0 .. commit_state.idx - 1 : CommittedOf(t)
        /\ \A t \in 0 .. commit_state.idx : StateAt(t)
    <3>1. \A t \in 0 .. 0 : t = 0
      OBVIOUS
    <3> QED
      BY <1>3, <2>3, <3>1
  <2> QED
    BY <2>7, <2>8 DEF CommittedOK
<1> QED
  BY <1>1, <1>2, <1>3, <1>4, <1>5 DEF Inv, FinalOK, BlockFinalizes

\* A step of a worker.
LEMMA StepInv ==
    ASSUME Inv, NEW w \in Workers, Step(w)
    PROVE  Inv'
<1>1. block_result' = block_result
  BY Changes
<1>2. ~At(w, "exit")
  BY Zenon DEF At, Step, LockCommits, SkipCommits, TryCommit, TryCommitNothing,
     TryCommitContended, UnlockCommits, PublishModules, RecordValidationRequirements,
     AddToCommitQueue, HaltStart, HaltTxn, Halted, DrainCommitQueue, StartTask, Wakeup, NextTask,
     ClaimValidation, StartValidation, ClaimExecution, TryIncarnate, Read, Interrupt,
     WaitForDependency, Suspend, Awake, Write, Record, FinishExecution, TakeDependencies,
     Resume, FetchMin, FinishLoad, RequireWave, TriggerWave, DecreaseValidationIdx, Validate,
     TryAbort, MarkEstimate, FinishAbort, AbortDone, AbortLoad, FinishValidation, Arm
<1>3. block_result = "running"
  BY <1>2 DEF Inv, FinalOK, AllExited
<1>4. /\ TypeOK /\ LocksOK /\ HaltOK /\ CommitsOK /\ QueueOK
      /\ StatusOK /\ ExecutionOK /\ WakeupsOK /\ DependenciesOK /\ WavesOK
      /\ EntriesOK /\ OutputsOK /\ WritesOK /\ IncarnationsOK
      /\ VersionsOK /\ ValidationsOK /\ ReadsOK /\ CommittedOK
  BY <1>3 DEF Inv, SchedulerInv, DataInv
<1>5. ~At(w, "error")'
  BY <1>4, NoError
<1>6. At(w, "resume") => worker[w].todo \in SUBSET Txns
  BY <1>4 DEF DependenciesOK
<1>7. TypeOK'
  BY <1>4, <1>5, TypeStep
<1>8. LocksOK' /\ HaltOK' /\ CommitsOK' /\ QueueOK'
  BY <1>4, <1>5, <1>6, LocksStep, HaltStep, CommitsStep, QueueStep
<1>9. StatusOK' /\ ExecutionOK' /\ WakeupsOK' /\ DependenciesOK' /\ WavesOK'
  BY <1>4, <1>5, <1>7, <1>8, StatusStep, ExecutionStep, WakeupsStep, DependenciesStep, WavesStep
<1>10. EntriesOK' /\ OutputsOK' /\ WritesOK' /\ IncarnationsOK'
  BY <1>4, <1>5, EntriesStep, OutputsStep, WritesStep, IncarnationsStep
<1>11. VersionsOK' /\ ValidationsOK'
  BY <1>4, <1>5, <1>7, <1>8, <1>9, VersionsStep, ValidationsStep
<1>12. ReadsOK' /\ CommittedOK'
  BY <1>4, <1>5, ReadsStep, CommittedStep
<1>13. FinalOK' /\ BlockFinalizes'
  BY <1>1, <1>3 DEF FinalOK, BlockFinalizes
<1> QED
  BY <1>7, <1>8, <1>9, <1>10, <1>11, <1>12, <1>13 DEF Inv, SchedulerInv, DataInv

\* When every worker has exited.
LEMMA AtTheEnd ==
    ASSUME SchedulerInv, AllExited
    PROVE  /\ commit_queue = <<>>
           /\ Queued = commit_state.idx
           /\ commit_state.idx \in Nat /\ commit_state.idx > 0
           /\ commit_state.idx # num_txns => commit_state.idx \in Txns /\ AllHalted
           /\ \A x \in Workers : ~Busy(x) /\ ~At(x, "write")
<1> USE DEF SchedulerInv
<1>1. ASSUME NEW x \in Workers
      PROVE  worker[x].ret = "loop" /\ Kind(x) = "Done" /\ ~At(x, "write") /\ ~At(x, "estimate")
             /\ ~At(x, "halt_txn")
  BY PhaseFacts DEF AllExited, At, PhaseOK, LoopPcs, ExecutionPcs, ValidationPcs, NextPcs,
     HookPcs, FinishPcs, AbortPcs
<1>2. PICK x \in Workers : TRUE
  <2>1. Workers # {}
    BY BlockAssumption, FS_EmptySet
  <2> QED
    BY <2>1
<1>3. done_marker
  BY <1>1, <1>2 DEF HaltOK
<1>4. commit_state.idx \in Nat /\ commit_state.idx > 0 /\ commit_state.idx <= num_txns
  BY <1>3, WaveTypes DEF HaltOK
<1>5. commit_state.idx # num_txns => commit_state.idx < num_txns
  BY <1>4, Constants
<1>6. commit_state.idx # num_txns => commit_state.idx \in Txns /\ AllHalted
  BY <1>1, <1>3, <1>4, <1>5, TxnFacts DEF HaltOK, Cut
<1>7. Queued = commit_state.idx
  BY <1>1 DEF Queued
<1>8. \A y \in Workers : ~Busy(y)
  BY <1>1 DEF Busy, Executing, Aborting, At
<1> QED
  BY <1>1, <1>4, <1>6, <1>7, <1>8 DEF QueueOK

\* The block is finalized.
LEMMA FinalizeInv ==
    ASSUME Inv, FinalizeBlock
    PROVE  Inv'
<1>1. AllExited /\ block_result = "running" /\ SchedulerInv /\ DataInv
  BY DEF FinalizeBlock, Inv
<1>2. UNCHANGED rest
  BY DEF FinalizeBlock, rest, statuses, indices, locks
<1>3. PICK e : e = commit_state.idx
  OBVIOUS
<1>4. PICK inc : block_result' = finalize_result(e, inc)
  BY <1>3 DEF FinalizeBlock
<1>5. /\ commit_queue = <<>> /\ e \in Nat /\ e > 0
      /\ e # num_txns => e \in Txns /\ AllHalted
      /\ \A x \in Workers : ~Busy(x) /\ ~At(x, "write")
      /\ Queued = e
  BY <1>1, <1>3, AtTheEnd
<1>6. e - 1 \in final_results /\ e \notin final_results
  <2>1. final_results = 0 .. Queued - Len(commit_queue) - 1
    BY <1>1 DEF SchedulerInv, QueueOK
  <2>2. Len(commit_queue) = 0
    BY <1>5
  <2>3. final_results = 0 .. e - 1
    BY <1>5, <2>1, <2>2
  <2> QED
    BY <1>5, <2>3
<1>7. e # num_txns => txn_status[e].name = "Halted" /\ txn_status[e].safe
  <2>1. SUFFICES ASSUME e # num_txns PROVE txn_status[e].name = "Halted" /\ txn_status[e].safe
    OBVIOUS
  <2>2. e \in Txns /\ txn_status[e].name = "Halted"
    BY <1>5, <2>1 DEF AllHalted, IsHalted
  <2>3. StatusOf(e)
    BY <1>1, <2>2 DEF SchedulerInv, StatusOK
  <2> QED
    BY <1>5, <2>2, <2>3 DEF StatusOf
<1>8. e # num_txns =>
          \A k \in DOMAIN last_input_output[e].output \cap DataKeys : data[k][e] # NoEntry
  <2>1. SUFFICES ASSUME e # num_txns PROVE \A k \in DOMAIN last_input_output[e].output \cap DataKeys :
                                             data[k][e] # NoEntry
    OBVIOUS
  <2>2. e \in Txns
    BY <1>5, <2>1
  <2>3. OutputOf(e)
    BY <1>1, <2>2 DEF DataInv, OutputsOK
  <2> QED
    BY <1>5, <2>3 DEF OutputOf, Written
<1>9. block_result' \in {"ok", "regressed"}
  BY <1>4, <1>5, <1>6, <1>7, <1>8 DEF finalize_result
<1>10. SchedulerInv'
  BY <1>1, <1>2, <1>9, SameScheduler
<1>11. ReadsOK'
  BY <1>2, SameReads DEF Inv
<1>12. CommittedOK'
  <2>1. \A k \in DataKeys : \A t \in Txns : t < commit_state.idx => data'[k][t] = data[k][t]
    <3>1. \A t \in Txns : t < commit_state.idx => t # commit_state.idx
      BY <1>3, <1>5, TxnFacts
    <3>2. CASE data' = data
      BY <3>2
    <3>3. CASE \A k \in DataKeys : \A t \in Txns : t # commit_state.idx => data'[k][t] = data[k][t]
      BY <3>1, <3>3
    <3>4. data' = data \/ \A k \in DataKeys : \A t \in Txns : t # commit_state.idx =>
              data'[k][t] = data[k][t]
      BY DEF FinalizeBlock
    <3> QED
      BY <3>2, <3>3, <3>4
  <2> QED
    BY <1>1, <1>2, <2>1, SameCommitted DEF Inv, SchedulerInv
<1>13. FinalOK'
  BY <1>1, <1>2 DEF FinalOK, AllExited, At, rest
<1> QED
  BY <1>9, <1>10, <1>11, <1>12, <1>13 DEF Inv, BlockFinalizes

\* Nothing happens.
LEMMA StutterInv ==
    ASSUME Inv, UNCHANGED vars
    PROVE  Inv'
<1>1. UNCHANGED <<rest, data, final_results, block_result>>
  BY RestVars
<1>2. SchedulerInv' /\ ReadsOK'
  BY <1>1, SameScheduler, SameReads DEF Inv
<1>3. CommittedOK'
  BY <1>1, SameCommitted DEF Inv, SchedulerInv
<1>4. FinalOK' /\ BlockFinalizes'
  BY <1>1 DEF Inv, FinalOK, BlockFinalizes, AllExited, At, rest
<1>5. block_result' = "running" => DataInv'
  BY <1>1, SameDataInv DEF Inv
<1> QED
  BY <1>2, <1>3, <1>4, <1>5 DEF Inv

\* Inv is inductive: between any two accesses to shared memory that the
\* scheduler's locks and atomics allow, the locks, the statuses, the lists of
\* dependencies, the waves, the entries and the captured reads fit together.
THEOREM InductiveInvariant == Spec => []Inv
<1>1. Init => Inv
  BY InitInv
<1>2. Inv /\ [Next]_vars => Inv'
  <2>1. SUFFICES ASSUME Inv, [Next]_vars PROVE Inv'
    OBVIOUS
  <2>2. CASE \E w \in Workers : Step(w)
    BY <2>1, <2>2, StepInv
  <2>3. CASE FinalizeBlock
    BY <2>1, <2>3, FinalizeInv
  <2>4. CASE UNCHANGED vars
    BY <2>1, <2>4, StutterInv
  <2> QED
    BY <2>1, <2>2, <2>3, <2>4 DEF Next, Finished
<1> QED
  BY <1>1, <1>2, PTL DEF Spec

\* No interleaving of any number of workers, for any block, makes the
\* scheduler, the worker loop or the multi-version data return a code invariant
\* error or panic: neither the final validation in materialize_txn_commit nor
\* the checks in suspend, resume, set_executed_status, set_aborted_status,
\* remove, mark_estimate and write fail.
THEOREM NeverInvariantError == Spec => []NoInvariantError
<1>1. Inv => NoInvariantError
  <2>1. SUFFICES ASSUME Inv, NEW w \in Workers PROVE ~At(w, "error")
    BY DEF NoInvariantError
  <2>2. PhaseOK(w)
    BY <2>1, PhaseFacts DEF Inv, SchedulerInv
  <2> QED
    BY <2>2 DEF At, PhaseOK, LoopPcs, ExecutionPcs, ValidationPcs, NextPcs, HookPcs, FinishPcs,
       AbortPcs
<1> QED
  BY <1>1, InductiveInvariant, PTL

\* Block-STM commits what sequential execution gives, for every number of
\* transactions and workers and every deterministic block: when try_commit has
\* found the waves validated, the recorded output is the sequential one, and
\* the entries and the module cache hold it.
THEOREM CommitsSequentially == Spec => []CommittedAsSequential
<1>1. Inv => CommittedAsSequential
  <2>1. SUFFICES ASSUME Inv PROVE CommittedAsSequential
    OBVIOUS
  <2>2. ASSUME NEW t \in 0 .. commit_state.idx - 1
        PROVE  /\ last_input_output[t].ok
               /\ last_input_output[t].output = SequentialOutput(t)
               /\ \A k \in DataKeys :
                     IF k \in DOMAIN SequentialOutput(t)
                     THEN /\ data[k][t] # NoEntry /\ ~data[k][t].est
                          /\ data[k][t].val = SequentialOutput(t)[k]
                     ELSE data[k][t] = NoEntry
    BY <2>1 DEF Inv, CommittedOK, CommittedOf, Written
  <2>3. ASSUME \A w \in Workers : ~At(w, "publish"), NEW k \in ModuleKeys
        PROVE  modules[k].val = SequentialState[commit_state.idx][block][k]
    BY <2>1, <2>3 DEF Inv, CommittedOK, ModulesPublished
  <2> QED
    BY <2>2, <2>3 DEF CommittedAsSequential
<1> QED
  BY <1>1, InductiveInvariant, PTL

\* No suspended transaction is forgotten: wait_for_dependency lists it with one
\* that will yet take its list in wake_dependencies_after_execution, someone is
\* about to resume it, or halt will reach it.
THEOREM NoneForgotten == Spec => []NoZombieDependency
<1>1. Inv => NoZombieDependency
  <2>1. SUFFICES ASSUME Inv, NEW t \in Txns, txn_status[t].name = "Suspended"
                 PROVE  \/ \E d \in Txns : t \in txn_dependency[d] /\
                             \/ txn_status[d].name \notin {"Executed", "Committed", "Halted"}
                             \/ \E w \in Workers : At(w, "wake") /\ Txn(w) = d
                        \/ \E w \in Workers : At(w, "resume") /\ t \in worker[w].todo
                        \/ \E w \in Workers : At(w, "halt_txn") /\ t \in worker[w].todo
    BY DEF NoZombieDependency
  <2>2. HaltOK /\ DependenciesOK
    BY <2>1 DEF Inv, SchedulerInv
  <2>3. ~IsHalted(t)
    BY <2>1 DEF IsHalted
  <2>4. CASE \E w \in Workers : ResumedBy(w, t)
    BY <2>4 DEF ResumedBy
  <2>5. ASSUME NEW d \in Txns, t \in txn_dependency[d]
        PROVE  \/ txn_status[d].name \notin {"Executed", "Committed", "Halted"}
               \/ \E w \in Workers : At(w, "wake") /\ Txn(w) = d
               \/ \E w \in Workers : At(w, "halt_txn") /\ t \in worker[w].todo
    <3>1. HasWaker(d)
      BY <2>2, <2>5 DEF DependenciesOK
    <3>2. CASE IsHalted(d)
      <4>1. Cut /\ ~AllHalted
        BY <2>2, <2>3, <3>2 DEF HaltOK, NoneHalted, AllHalted
      <4>2. PICK w \in Workers : At(w, "halt_txn")
        BY <2>2, <4>1 DEF HaltOK
      <4>3. t \in worker[w].todo
        BY <2>2, <2>3, <4>2 DEF HaltOK
      <4> QED
        BY <4>2, <4>3
    <3> QED
      BY <3>1, <3>2 DEF HasWaker, HasStatus, WillWake, IsHalted
  <2>6. \/ \E d \in Txns : t \in txn_dependency[d]
        \/ \E w \in Workers : ResumedBy(w, t)
    BY <2>1, <2>2 DEF DependenciesOK, DependentOf, HasStatus
  <2> QED
    BY <2>4, <2>5, <2>6
<1> QED
  BY <1>1, InductiveInvariant, PTL

\* finalize_parallel_execution finds the commit queue empty, the results of the
\* committed transactions and only those, and the transaction at the index of
\* the epilogue halted, finished and with all its entries in place.
THEOREM FinalizesTheBlock == Spec => []BlockFinalizes
<1>1. Inv => BlockFinalizes
  BY DEF Inv
<1> QED
  BY <1>1, InductiveInvariant, PTL
=============================================================================
