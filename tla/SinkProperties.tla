--------------------------- MODULE SinkProperties ---------------------------
(* What the pipeline of Sink must guarantee.                                 *)
EXTENDS Sink

TypeOK ==
  /\ input \in Inputs
  /\ ppc \in {"walk", "acquireBytes", "acquireCount", "execute", "put", "poison", "join",
              "free", "returned", "thrown"}
  /\ fed \in 0..Len(input)
  /\ pendingBatch \in Seq(Nat) /\ pendingBatchBytes \in Nat
  /\ outbox \in Seq(Seq(Nat))
  /\ finishing \in BOOLEAN /\ interrupted \in BOOLEAN
  /\ task \in Seq(Seq(Nat))
  /\ future \in Seq({"queued", "running", "done", "failed"}) /\ Len(future) = Len(task)
  /\ worker \in [Workers -> 0..Len(task)]
  /\ handle \in [Workers -> {"none", "null", "live", "freed"}]
  /\ byteFlight \in Nat /\ countFlight \in Nat
  /\ queue \in Seq(0..Len(task))
  /\ wpc \in {"open", "take", "get", "write", "tail", "close", "ended"}
  /\ current \in 0..Len(task)
  /\ results \in Seq(Nat)
  /\ failed \in BOOLEAN /\ writerError \in BOOLEAN /\ tail \in BOOLEAN
  /\ archive \in Seq(Nat)

outcome == IF ppc \in {"returned", "thrown"} THEN ppc ELSE "running"

-----------------------------------------------------------------------------
(* The fixed write order: whatever the interleaving and whatever fails, the  *)
(* archive holds a prefix of the input list, in order and without gaps.      *)
ArchiveInOrder ==
  Len(archive) <= Len(input) /\ \A k \in 1..Len(archive) : archive[k] = k

(* A call that returns normally has every entry and the central directory in *)
(* the archive: no unit that failed, was dropped or is still queued.         *)
SuccessIsComplete ==
  ppc = "returned" => tail /\ archive = [k \in 1..Len(input) |-> k]

(* A permit of countFlight is held for every item between acquire() and the  *)
(* writer's take, so queue.put() in submit() and in finish() never blocks.   *)
PutNeverBlocks ==
  ppc \in {"put", "poison"} => Len(queue) < QueueCapacity

(* The units that hold their permits: handed to the pool and not yet         *)
(* collected by the writer.                                                  *)
Held ==
  {i \in 1..Len(task) :
     \/ \E k \in 1..Len(queue) : queue[k] = i
     \/ wpc = "get" /\ current = i
     \/ ppc = "put" /\ i = Len(task)}

(* the running totals of n weights                                           *)
Totals(weight, n) ==
  LET sum[k \in 0..n] == IF k = 0 THEN 0 ELSE sum[k - 1] + weight[k] IN sum

HeldPermits ==
  LET weight == [i \in 1..Len(task) |-> IF i \in Held THEN PermitsForBatch(task[i]) ELSE 0]
  IN  Totals(weight, Len(task))[Len(task)]

(* No permit is lost or given back twice, on any path and whatever fails,    *)
(* unless an interrupt made submit() give up between its acquires and put(). *)
PermitsConserved ==
  ~interrupted =>
    LET acquiring == ppc \in {"acquireCount", "execute"}
    IN  /\ byteFlight + HeldPermits
             + (IF acquiring THEN PermitsForBatch(Head(outbox)) ELSE 0) = BudgetMiB
        /\ countFlight + Cardinality(Held) + (IF ppc = "execute" THEN 1 ELSE 0) = FlightPermits

(* finish() frees the native compressors only when no unit runs on one:      *)
(* "every compress task has fully completed by the time join() returns".     *)
HandleNotFreedInUse ==
  \A w \in Workers : worker[w] # 0 => handle[w] # "freed"

(* When the call is over nothing is left behind: every unit has run, nothing *)
(* is queued, all permits are back and every compressor is freed.            *)
NothingLeftBehind ==
  ppc \in {"returned", "thrown"} =>
    /\ \A i \in 1..Len(task) : future[i] \in {"done", "failed"}
    /\ queue = <<>> /\ wpc = "ended"
    /\ byteFlight = BudgetMiB /\ countFlight = FlightPermits
    /\ \A w \in Workers : handle[w] # "live"

(* Once a unit has failed the writer only drains: the archive is not         *)
(* extended, and it never gets a central directory that would make it valid. *)
FailureStopsArchive == [][failed => UNCHANGED archive /\ ~tail']_vars

-----------------------------------------------------------------------------
(* The call ends whatever the compression tasks do; with NothingLeftBehind   *)
(* that means that the threads do too.                                       *)
Termination == <>(ppc \in {"returned", "thrown"})

(* The pipeline implements the sequential writer: same order, same outcome.  *)
Abs == INSTANCE OrderedArchive
ImplementsOrderedArchive == Abs!AbsSpec
=============================================================================
