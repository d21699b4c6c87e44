-------------------------------- MODULE Sink --------------------------------
(***************************************************************************)
(* The compress-and-write pipeline of ParallelZipWriter.Sink.              *)
(*                                                                         *)
(*   producer  the thread that calls add() for every entry and then        *)
(*             finish(): batches small entries, takes byte and count       *)
(*             permits, hands the unit to the pool and queues its future   *)
(*   workers   the fixed pool: run the units; each thread allocates its    *)
(*             native compressor on first use                              *)
(*   writer    one thread: takes the futures in submission order, releases *)
(*             the permits, writes the entries, then the central directory *)
(*                                                                         *)
(* An entry is its position in the input list.  Entry contents and what    *)
(* compression makes of them are abstracted: a unit either completes or    *)
(* throws.  The environment's faults are the members of Faults.            *)
(***************************************************************************)
EXTENDS Integers, Sequences, FiniteSets

CONSTANTS
  Inputs,                  (* the entry lists a caller may hand over             *)
  Threads,                 (* threads of the compression pool                    *)
  Store,                   (* TRUE: no entry is deflated                         *)
  NativeAvailable,         (* LibdeflateNative.available()                       *)
  Faults,                  (* what may go wrong in the environment               *)
  MiB, MaxMemory,          (* bytes of one permit, maximum heap of the JVM       *)
  MinBudgetMiB,            (* floor of the byte budget, 16 in the source         *)
  MaxBudgetMiB,            (* ceiling of the byte budget, 1024 in the source     *)
  SpillThreshold,          (* larger files are never read into memory            *)
  MmapThreshold,           (* absolute ceiling of the mmap fast path             *)
  BatchableMaxEntryBytes, BatchMaxEntries, BatchMaxBytes

Kinds == {"dir", "inline", "file"}
Entry == [kind : Kinds, size : Nat]

(* open: the archive cannot be created.  write: an I/O error while writing   *)
(* or closing it.  error: an Error (OutOfMemoryError), which is no Exception, *)
(* in the writer.  task: a unit throws.  alloc: no native compressor.         *)
(* walk: the caller's entry stream throws.  interrupt: the producer thread    *)
(* is interrupted in a blocking call.                                         *)
FaultKinds == {"open", "write", "error", "task", "alloc", "walk", "interrupt"}

ASSUME InputsAssumption  == Inputs \subseteq Seq(Entry)
ASSUME ThreadsAssumption == Threads \in Nat \ {0}
ASSUME FlagsAssumption   == Store \in BOOLEAN /\ NativeAvailable \in BOOLEAN
ASSUME FaultsAssumption  == Faults \subseteq FaultKinds
ASSUME BudgetAssumption  ==
  /\ MiB \in Nat \ {0} /\ MaxMemory \in Nat
  /\ MinBudgetMiB \in Nat \ {0} /\ MaxBudgetMiB \in Nat
  /\ SpillThreshold \in Nat /\ MmapThreshold \in Nat
ASSUME BatchAssumption ==
  /\ BatchableMaxEntryBytes \in Nat
  /\ BatchMaxEntries \in Nat \ {0} /\ BatchMaxBytes \in Nat \ {0}

Workers       == 1..Threads
FlightPermits == Threads * 4
QueueCapacityNoPoison == Threads * 4     (* mutant: no place for the poison item *)
QueueCapacity == Threads * 4 + 1
POISON        == 0               (* the other queue items are positions in task *)
UseNative     == ~Store /\ NativeAvailable

Least(a, b)   == IF a < b THEN a ELSE b
Most(a, b)    == IF a < b THEN b ELSE a
Clamp(x, lo, hi) == IF x \in lo..hi THEN x ELSE IF x < lo THEN lo ELSE hi

BudgetMiB == Most(MinBudgetMiB, Least(MaxBudgetMiB, (MaxMemory \div 6) \div MiB))
EffectiveMmapThreshold == Least(MmapThreshold, Most(1, BudgetMiB \div 2) * MiB)

VARIABLES
  input,              (* the entries of this archive                             *)
  (* producer *)
  ppc, fed, pendingBatch, pendingBatchBytes,
  outbox,             (* the units the current call still has to submit          *)
  finishing, interrupted,
  (* pool *)
  task, future,       (* units in submission order and the state of their future *)
  worker,             (* the unit a pool thread runs, 0 when idle                *)
  handle,             (* the thread-local native compressor of a pool thread     *)
  (* shared *)
  byteFlight, countFlight, queue,
  (* writer *)
  wpc, current, results, failed, writerError,
  archive,            (* the entries written to the archive                      *)
  tail                (* the central directory is written                        *)

producerVars == <<ppc, fed, pendingBatch, pendingBatchBytes, outbox, finishing, interrupted>>
poolVars     == <<task, future, worker, handle>>
flightVars   == <<byteFlight, countFlight, queue>>
writerVars   == <<wpc, current, results, failed, writerError, archive, tail>>
vars         == <<input, producerVars, poolVars, flightVars, writerVars>>

-----------------------------------------------------------------------------
(* Units and the permits they hold.  A unit is a sequence of positions.      *)

IsBatchable(e) == input[e].kind # "dir" /\ input[e].size <= BatchableMaxEntryBytes

CeilMiB(bytes) == (bytes + MiB - 1) \div MiB

(* raw bytes, and next to them the compressed buffer unless storing *)
InMemory(bytes) == IF Store THEN bytes ELSE bytes * 2

IsInMemory(e) ==
  \/ input[e].kind = "inline"
  \/ input[e].kind = "file" /\ input[e].size <= SpillThreshold
IsMapped(e) ==
  input[e].kind = "file" /\ UseNative /\ input[e].size <= EffectiveMmapThreshold

PermitsFor(e) ==
  CASE IsInMemory(e) -> Clamp(CeilMiB(InMemory(input[e].size)), 1, BudgetMiB)
    [] ~IsInMemory(e) /\ IsMapped(e) -> Clamp(CeilMiB(input[e].size), 1, BudgetMiB)
    [] OTHER -> 0        (* a directory, or a large entry streamed through a file *)

BatchBytes(batch) ==
  LET sum[k \in 0..Len(batch)] == IF k = 0 THEN 0 ELSE sum[k - 1] + input[batch[k]].size
  IN  sum[Len(batch)]

PermitsForBatch(batch) ==
  IF Len(batch) = 1 THEN PermitsFor(batch[1])
  ELSE Clamp(CeilMiB(InMemory(BatchBytes(batch))), 1, BudgetMiB)

-----------------------------------------------------------------------------
(* The producer: add(), flushBatch(), submit() and finish().                 *)

Flushed(batch) == IF batch = <<>> THEN <<>> ELSE <<batch>>

(* what a call goes on with once its units are submitted *)
Idle(isFinishing) == IF isFinishing THEN "poison" ELSE "walk"

(* A batchable entry joins the pending batch, which is flushed when full.    *)
AddBatchable ==
  /\ ppc = "walk" /\ fed < Len(input) /\ IsBatchable(fed + 1)
  /\ LET batch == Append(pendingBatch, fed + 1)
         bytes == pendingBatchBytes + input[fed + 1].size
         full  == Len(batch) >= BatchMaxEntries \/ bytes >= BatchMaxBytes
     IN  /\ pendingBatch'      = IF full THEN <<>> ELSE batch
         /\ pendingBatchBytes' = IF full THEN 0 ELSE bytes
         /\ outbox'            = IF full THEN <<batch>> ELSE <<>>
         /\ ppc'               = IF full THEN "acquireBytes" ELSE "walk"
  /\ fed' = fed + 1
  /\ UNCHANGED <<input, finishing, interrupted, poolVars, flightVars, writerVars>>

(* Any other entry is a unit of its own; the pending batch goes first.       *)
AddAlone ==
  /\ ppc = "walk" /\ fed < Len(input) /\ ~IsBatchable(fed + 1)
  /\ outbox' = Append(Flushed(pendingBatch), <<fed + 1>>)
  /\ pendingBatch' = <<>> /\ pendingBatchBytes' = 0
  /\ ppc' = "acquireBytes" /\ fed' = fed + 1
  /\ UNCHANGED <<input, finishing, interrupted, poolVars, flightVars, writerVars>>

AcquireBytes ==
  /\ ppc = "acquireBytes"
  /\ byteFlight >= PermitsForBatch(Head(outbox))
  /\ byteFlight' = byteFlight - PermitsForBatch(Head(outbox))
  /\ ppc' = "acquireCount"
  /\ UNCHANGED <<input, fed, pendingBatch, pendingBatchBytes, outbox, finishing, interrupted,
                 poolVars, countFlight, queue, writerVars>>

AcquireCount ==
  /\ ppc = "acquireCount" /\ countFlight > 0
  /\ countFlight' = countFlight - 1
  /\ ppc' = "execute"
  /\ UNCHANGED <<input, fed, pendingBatch, pendingBatchBytes, outbox, finishing, interrupted,
                 poolVars, byteFlight, queue, writerVars>>

SubmitTask ==
  /\ ppc = "execute"
  /\ task' = Append(task, Head(outbox)) /\ future' = Append(future, "queued")
  /\ ppc' = "put"
  /\ UNCHANGED <<input, fed, pendingBatch, pendingBatchBytes, outbox, finishing, interrupted,
                 worker, handle, flightVars, writerVars>>

PutItem ==
  /\ ppc = "put" /\ Len(queue) < QueueCapacity
  /\ queue' = Append(queue, Len(task))
  /\ outbox' = Tail(outbox)
  /\ ppc' = IF Tail(outbox) = <<>> THEN Idle(finishing) ELSE "acquireBytes"
  /\ UNCHANGED <<input, fed, pendingBatch, pendingBatchBytes, finishing, interrupted,
                 poolVars, byteFlight, countFlight, writerVars>>

(* finish(): the last flush, the poison item, join(), then the finally block. *)
BeginFinish ==
  /\ ppc = "walk" /\ fed = Len(input)
  /\ finishing' = TRUE
  /\ outbox' = Flushed(pendingBatch)
  /\ pendingBatch' = <<>> /\ pendingBatchBytes' = 0
  /\ ppc' = IF pendingBatch = <<>> THEN Idle(TRUE) ELSE "acquireBytes"
  /\ UNCHANGED <<input, fed, interrupted, poolVars, flightVars, writerVars>>

PutPoison ==
  /\ ppc = "poison" /\ Len(queue) < QueueCapacity
  /\ queue' = Append(queue, POISON)
  /\ ppc' = "join"
  /\ UNCHANGED <<input, fed, pendingBatch, pendingBatchBytes, outbox, finishing, interrupted,
                 poolVars, byteFlight, countFlight, writerVars>>

(* mutant: the writer is not waited for *)
JoinSkipped ==
  /\ ppc = "join" /\ ppc' = "free"
  /\ UNCHANGED <<input, fed, pendingBatch, pendingBatchBytes, outbox, finishing, interrupted,
                 poolVars, flightVars, writerVars>>

Join ==
  /\ ppc = "join" /\ wpc = "ended"
  /\ ppc' = "free"
  /\ UNCHANGED <<input, fed, pendingBatch, pendingBatchBytes, outbox, finishing, interrupted,
                 poolVars, flightVars, writerVars>>

(* mutant: the error of the writer is not rethrown *)
CallResultIgnoresError == IF interrupted THEN "thrown" ELSE "returned"

CallResult == IF interrupted \/ writerError THEN "thrown" ELSE "returned"

(* pool.shutdown() lets submitted units run on; the handles are freed here.   *)
FreeHandles ==
  /\ ppc = "free"
  /\ handle' = [w \in Workers |-> IF handle[w] = "live" THEN "freed" ELSE handle[w]]
  /\ ppc' = CallResult
  /\ UNCHANGED <<input, fed, pendingBatch, pendingBatchBytes, outbox, finishing, interrupted,
                 task, future, worker, flightVars, writerVars>>

(* Reading an entry, or the copy walk itself, throws: nobody calls finish().  *)
WalkFails ==
  /\ "walk" \in Faults /\ ppc = "walk"
  /\ ppc' = "thrown"
  /\ UNCHANGED <<input, fed, pendingBatch, pendingBatchBytes, outbox, finishing, interrupted,
                 poolVars, flightVars, writerVars>>

(* An interrupt leaves submit() wherever it blocks.  Within finish() the      *)
(* finally block still runs; within add() the sink is abandoned.              *)
Interrupt ==
  /\ "interrupt" \in Faults
  /\ ppc \in {"acquireBytes", "acquireCount", "put", "poison", "join"}
  /\ interrupted' = TRUE
  /\ ppc' = IF finishing THEN "free" ELSE "thrown"
  /\ UNCHANGED <<input, fed, pendingBatch, pendingBatchBytes, outbox, finishing,
                 poolVars, flightVars, writerVars>>

ProducerStep ==
  \/ AddBatchable \/ AddAlone \/ AcquireBytes \/ AcquireCount \/ SubmitTask \/ PutItem
  \/ BeginFinish \/ PutPoison \/ Join \/ FreeHandles

-----------------------------------------------------------------------------
(* The pool.                                                                 *)

FirstHandle ==
  IF UseNative
  THEN {"live"} \cup (IF "alloc" \in Faults THEN {"null"} ELSE {})
  ELSE {"null"}

(* A new pool thread begins with the unit it was created for while the others *)
(* draw from the pool's queue, so units need not start in submission order.   *)
StartTask(w) ==
  /\ worker[w] = 0
  /\ \E i \in 1..Len(task) :
       /\ future[i] = "queued"
       /\ future' = [future EXCEPT ![i] = "running"]
       /\ worker' = [worker EXCEPT ![w] = i]
  /\ \E h \in FirstHandle :
       handle' = [handle EXCEPT ![w] = IF handle[w] = "none" THEN h ELSE handle[w]]
  /\ UNCHANGED <<input, producerVars, task, flightVars, writerVars>>

EndTask(w, outcome) ==
  /\ worker[w] # 0
  /\ future' = [future EXCEPT ![worker[w]] = outcome]
  /\ worker' = [worker EXCEPT ![w] = 0]
  /\ UNCHANGED <<input, producerVars, task, handle, flightVars, writerVars>>

FinishTask(w) == EndTask(w, "done")
FailTask(w)   == "task" \in Faults /\ EndTask(w, "failed")

WorkerStep(w) == StartTask(w) \/ FinishTask(w) \/ FailTask(w)

-----------------------------------------------------------------------------
(* The writer: runWriter().                                                  *)

OpenArchive ==
  /\ wpc = "open"
  /\ wpc' = "take"
  /\ UNCHANGED <<input, producerVars, poolVars, flightVars,
                 current, results, failed, writerError, archive, tail>>

TakeItem ==
  /\ wpc = "take" /\ queue # <<>>
  /\ queue' = Tail(queue)
  /\ IF Head(queue) = POISON
     THEN wpc' = "tail" /\ UNCHANGED current
     ELSE wpc' = "get" /\ current' = Head(queue)
  /\ UNCHANGED <<input, producerVars, poolVars, byteFlight, countFlight,
                 results, failed, writerError, archive, tail>>

(* The permits go back before anything is written, whether or not the unit    *)
(* failed; once a unit has failed the rest is drained and not written.        *)
CurrentFailed == future[current] = "failed"

Collect(failedNow, releases, afterFailure) ==
  /\ wpc = "get" /\ future[current] \in {"done", "failed"}
  /\ failed' = failedNow
  /\ writerError' = (writerError \/ CurrentFailed)
  /\ IF releases
     THEN /\ countFlight' = countFlight + 1
          /\ byteFlight' = byteFlight + PermitsForBatch(task[current])
     ELSE UNCHANGED <<byteFlight, countFlight>>
  /\ IF failedNow
     THEN wpc' = afterFailure /\ UNCHANGED results
     ELSE wpc' = "write" /\ results' = task[current]
  /\ UNCHANGED <<input, producerVars, poolVars, queue, current, archive, tail>>

(* mutants: permits go back on success only; the first failure ends the drain *)
GetResultKeepsPermits == Collect(failed \/ CurrentFailed, ~CurrentFailed, "take")
GetResultStops == Collect(failed \/ CurrentFailed, TRUE, "tail")

GetResult == Collect(failed \/ CurrentFailed, TRUE, "take")

WriteEntry ==
  /\ wpc = "write"
  /\ archive' = Append(archive, Head(results))
  /\ results' = Tail(results)
  /\ wpc' = IF Tail(results) = <<>> THEN "take" ELSE "write"
  /\ UNCHANGED <<input, producerVars, poolVars, flightVars, current, failed, writerError, tail>>

(* mutant: the central directory is written even after a failure *)
WriteTailAlways ==
  /\ wpc = "tail"
  /\ tail' = TRUE
  /\ wpc' = "close"
  /\ UNCHANGED <<input, producerVars, poolVars, flightVars,
                 current, results, failed, writerError, archive>>

WriteTail ==
  /\ wpc = "tail"
  /\ tail' = ~failed
  /\ wpc' = "close"
  /\ UNCHANGED <<input, producerVars, poolVars, flightVars,
                 current, results, failed, writerError, archive>>

CloseArchive ==
  /\ wpc = "close"
  /\ wpc' = "ended"
  /\ UNCHANGED <<input, producerVars, poolVars, flightVars,
                 current, results, failed, writerError, archive, tail>>

(* An IOException ends the thread through the outer catch, an Error without.  *)
WriterDies ==
  /\ \/ "open" \in Faults /\ wpc = "open" /\ writerError' = TRUE
     \/ "write" \in Faults /\ wpc \in {"write", "tail", "close"} /\ writerError' = TRUE
     \/ "error" \in Faults /\ wpc \in {"open", "write", "tail"} /\ UNCHANGED writerError
  /\ wpc' = "ended"
  /\ UNCHANGED <<input, producerVars, poolVars, flightVars, current, results, failed, archive, tail>>

WriterStep ==
  \/ OpenArchive \/ TakeItem \/ GetResult \/ WriteEntry \/ WriteTail \/ CloseArchive \/ WriterDies

-----------------------------------------------------------------------------
Init ==
  /\ input \in Inputs
  /\ ppc = "walk" /\ fed = 0 /\ pendingBatch = <<>> /\ pendingBatchBytes = 0
  /\ outbox = <<>> /\ finishing = FALSE /\ interrupted = FALSE
  /\ task = <<>> /\ future = <<>>
  /\ worker = [w \in Workers |-> 0] /\ handle = [w \in Workers |-> "none"]
  /\ byteFlight = BudgetMiB /\ countFlight = FlightPermits /\ queue = <<>>
  /\ wpc = "open" /\ current = 0 /\ results = <<>> /\ failed = FALSE /\ writerError = FALSE
  /\ archive = <<>> /\ tail = FALSE

(* Every thread has come to rest; any other state without a step is a deadlock. *)
Terminated ==
  /\ ppc \in {"returned", "thrown"} /\ wpc = "ended"
  /\ \A i \in 1..Len(task) : future[i] \in {"done", "failed"}
  /\ UNCHANGED vars

Next ==
  \/ ProducerStep \/ WalkFails \/ Interrupt
  \/ \E w \in Workers : WorkerStep(w)
  \/ WriterStep
  \/ Terminated

Spec == Init /\ [][Next]_vars

(* The JVM schedules every thread that can run; faults are never forced.      *)
Fairness ==
  /\ WF_vars(ProducerStep)
  /\ \A w \in Workers : WF_vars(WorkerStep(w))
  /\ WF_vars(WriterStep)

FairSpec == Spec /\ Fairness
=============================================================================
