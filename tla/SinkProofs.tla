------------------------------ MODULE SinkProofs ----------------------------
(* Theorems about the pipeline for every input list, number of threads,      *)
(* budget and set of faults.                                                 *)
EXTENDS SinkProperties, Induction, TLAPS

-----------------------------------------------------------------------------
(* The inductive invariant behind the properties of the pipeline.  Units are *)
(* runs of consecutive positions, and every buffer between add() and the     *)
(* archive - pending batch, outbox, submitted units, queue, results - holds  *)
(* the stretch of the input list that follows the one after it.              *)
Last(unit) == unit[Len(unit)]

IsRun(unit, from) == unit # <<>> /\ \A j \in 1..Len(unit) : unit[j] = from + j

(* where the first i units of a chain that starts after `from` end           *)
End(units, i, from) == IF i = 0 THEN from ELSE Last(units[i])

Chain(units, from, to) ==
  /\ \A i \in 1..Len(units) : IsRun(units[i], End(units, i - 1, from))
  /\ to = End(units, Len(units), from)

(* the last position handed to the pool                                      *)
Submitted == End(task, Len(task), 0)

(* the states of the producer in which the poison item is still to come      *)
Feeding == ppc \in {"walk", "acquireBytes", "acquireCount", "execute", "put", "poison"}

ProducerInv ==
  /\ Chain(task, 0, Submitted) /\ Submitted <= Len(input)
  /\ \A i \in 1..Len(task) : Last(task[i]) <= Submitted
  /\ ppc = "walk" =>
       outbox = <<>> /\ ~finishing /\ Chain(Flushed(pendingBatch), Submitted, fed)
  /\ ppc \in {"acquireBytes", "acquireCount", "execute"} =>
       pendingBatch = <<>> /\ outbox # <<>> /\ Chain(outbox, Submitted, fed)
  /\ \A i \in 1..Len(outbox) : Last(outbox[i]) <= fed
  /\ ppc = "put" =>
       /\ pendingBatch = <<>> /\ outbox # <<>> /\ task # <<>>
       /\ Chain(Tail(outbox), Submitted, fed)
  /\ ppc = "poison" => pendingBatch = <<>> /\ Submitted = Len(input)
  /\ Feeding /\ finishing => fed = Len(input)
  /\ Feeding => ~interrupted
  /\ ppc \in {"poison", "join", "free", "returned"} => finishing

(* The queue is a window of task in order, with nothing behind the poison.   *)
QueueInv ==
  /\ current + Len(queue) <= Len(task) + 1
  /\ \A k \in 1..Len(queue) : queue[k] = current + k \/ (queue[k] = POISON /\ k = Len(queue))
  /\ queue # <<>> /\ Last(queue) = POISON => current + Len(queue) = Len(task) + 1
  /\ Feeding =>
       /\ \A k \in 1..Len(queue) : queue[k] # POISON
       /\ current + Len(queue) = (IF ppc = "put" THEN Len(task) - 1 ELSE Len(task))

(* A place in the queue for every count permit that is out.                  *)
FlightInv ==
  Feeding =>
    Len(queue) + countFlight
      + (IF wpc = "get" THEN 1 ELSE 0) + (IF ppc \in {"execute", "put"} THEN 1 ELSE 0)
      <= FlightPermits

(* The poison item is in the queue, or has been taken from it.               *)
Poisoned ==
  (queue # <<>> /\ Last(queue) = POISON) \/ wpc \in {"tail", "close"} \/ tail

WriterInv ==
  /\ \A k \in 1..Len(archive) : archive[k] = k
  /\ Len(archive) <= Submitted
  /\ wpc = "open" => current = 0 /\ archive = <<>> /\ ~failed
  /\ wpc = "get" => current > 0
  /\ wpc \in {"open", "take"} /\ ~failed => Len(archive) = End(task, current, 0)
  /\ wpc = "get" /\ ~failed => Len(archive) = End(task, current - 1, 0)
  /\ wpc = "write" =>
       /\ ~failed /\ current > 0 /\ IsRun(results, Len(archive))
       /\ Last(results) = End(task, current, 0)
  /\ wpc \in {"tail", "close"} => current = Len(task)
  /\ wpc = "tail" /\ ~failed => Len(archive) = Submitted
  /\ wpc \in {"open", "take", "get", "write", "tail"} => ~tail
  /\ tail => ~failed /\ Len(archive) = Submitted
  /\ Poisoned => ~Feeding /\ finishing /\ Submitted = Len(input)

(* Whatever is left of a unit that failed is known to the call.              *)
OutcomeInv ==
  /\ failed => writerError
  /\ ppc \in {"free", "returned"} => interrupted \/ wpc = "ended"
  /\ ppc = "returned" => ~interrupted /\ ~writerError
  /\ "error" \notin Faults /\ wpc \in {"close", "ended"} /\ ~writerError => tail

(* Without I/O errors, Errors or interrupts: the units behind the writer     *)
(* have run, and the writer ends only behind the last one.                   *)
Uneventful == Faults \cap {"open", "write", "error", "interrupt"} = {}

PoolInv ==
  /\ \A w \in Workers : worker[w] # 0 => future[worker[w]] = "running"
  /\ \A v, w \in Workers : worker[v] = worker[w] /\ worker[v] # 0 => v = w
  /\ \A i \in 1..Len(task) :
       i < current \/ (i = current /\ wpc # "get") => future[i] \in {"done", "failed"}
  /\ Uneventful /\ wpc = "ended" => current = Len(task) /\ ~Feeding
  /\ Uneventful => ~interrupted
  /\ Uneventful /\ (\E w \in Workers : handle[w] = "freed") => wpc = "ended"

IInv == TypeOK /\ ProducerInv /\ QueueInv /\ FlightInv /\ WriterInv /\ OutcomeInv /\ PoolInv


USE DEF POISON

-----------------------------------------------------------------------------
(* Runs and chains of units.                                                 *)

LEMMA RunLast ==
  ASSUME NEW u \in Seq(Nat), NEW from \in Nat, IsRun(u, from)
  PROVE  Last(u) = from + Len(u) /\ Len(u) > 0
BY DEF IsRun, Last

LEMMA RunAppend ==
  ASSUME NEW u \in Seq(Nat), NEW from \in Nat, NEW n \in Nat,
         u = <<>> \/ IsRun(u, from), n = from + Len(u) + 1
  PROVE  IsRun(Append(u, n), from) /\ Last(Append(u, n)) = n
<1> DEFINE v == Append(u, n)
<1>1. /\ Len(u) \in Nat /\ v \in Seq(Nat) /\ Len(v) = Len(u) + 1
      /\ \A j \in 1..Len(u) : v[j] = u[j]
      /\ v[Len(u) + 1] = n
  OBVIOUS
<1>2. \A j \in 1..Len(u) : u[j] = from + j
  BY <1>1 DEF IsRun
<1> HIDE DEF v
<1>3. \A j \in 1..Len(v) : v[j] = from + j
  <2> SUFFICES ASSUME NEW j \in 1..Len(v) PROVE v[j] = from + j
    OBVIOUS
  <2>1. CASE j = Len(u) + 1
    BY <1>1, <2>1
  <2>2. CASE j # Len(u) + 1
    <3>1. j \in 1..Len(u)
      BY <1>1, <2>2
    <3> QED BY <1>1, <1>2, <3>1
  <2> QED BY <2>1, <2>2
<1>4. v # <<>>
  BY <1>1
<1>5. IsRun(v, from)
  BY <1>3, <1>4 DEF IsRun
<1>6. Last(v) = n
  BY <1>1 DEF Last
<1> QED BY <1>5, <1>6 DEF v

LEMMA ChainEmpty ==
  ASSUME NEW from
  PROVE  Chain(<<>>, from, from)
BY DEF Chain, End

LEMMA ChainAppend ==
  ASSUME NEW s \in Seq(Seq(Nat)), NEW from \in Nat, NEW to \in Nat,
         Chain(s, from, to), NEW u \in Seq(Nat), IsRun(u, to)
  PROVE  Chain(Append(s, u), from, Last(u))
<1> DEFINE t == Append(s, u)
<1>1. /\ Len(t) = Len(s) + 1 /\ t[Len(t)] = u
      /\ \A i \in 1..Len(s) : t[i] = s[i]
  OBVIOUS
<1>2. \A i \in 0..Len(s) : End(t, i, from) = End(s, i, from)
  BY <1>1 DEF End
<1>3. End(t, Len(t), from) = Last(u)
  BY <1>1 DEF End
<1>4. ASSUME NEW i \in 1..Len(t)
      PROVE  IsRun(t[i], End(t, i - 1, from))
  <2>1. CASE i \in 1..Len(s)
    <3>1. IsRun(s[i], End(s, i - 1, from))
      BY <2>1 DEF Chain
    <3>2. t[i] = s[i] /\ End(t, i - 1, from) = End(s, i - 1, from)
      BY <1>1, <1>2, <2>1
    <3> QED BY <3>1, <3>2
  <2>2. CASE i = Len(t)
    <3>1. i - 1 = Len(s) /\ t[i] = u
      BY <1>1, <2>2
    <3>2. End(t, i - 1, from) = to
      BY <1>2, <3>1 DEF Chain
    <3> QED BY <3>1, <3>2
  <2> QED BY <1>1, <2>1, <2>2
<1> QED BY <1>3, <1>4 DEF Chain

LEMMA ChainTail ==
  ASSUME NEW s \in Seq(Seq(Nat)), NEW from \in Nat, NEW to \in Nat,
         s # <<>>, Chain(s, from, to)
  PROVE  /\ IsRun(Head(s), from) /\ Head(s) \in Seq(Nat)
         /\ Chain(Tail(s), Last(Head(s)), to)
<1> DEFINE t == Tail(s)
<1>1. /\ Len(s) > 0 /\ Head(s) = s[1] /\ Len(t) = Len(s) - 1
      /\ \A i \in 1..Len(t) : t[i] = s[i + 1]
  OBVIOUS
<1>2. IsRun(Head(s), from) /\ Head(s) \in Seq(Nat)
  BY <1>1 DEF Chain, End
<1>3. \A i \in 0..Len(t) : End(t, i, Last(Head(s))) = End(s, i + 1, from)
  BY <1>1 DEF End
<1>4. ASSUME NEW i \in 1..Len(t)
      PROVE  IsRun(t[i], End(t, i - 1, Last(Head(s))))
  <2>1. i + 1 \in 1..Len(s) /\ (i + 1) - 1 = i /\ (i - 1) + 1 = i /\ i - 1 \in 0..Len(t)
    BY <1>1
  <2>2. IsRun(s[i + 1], End(s, i, from))
    BY <2>1 DEF Chain
  <2> QED BY <1>1, <1>3, <2>1, <2>2
<1>5. to = End(t, Len(t), Last(Head(s)))
  BY <1>1, <1>3 DEF Chain
<1> QED BY <1>2, <1>4, <1>5 DEF Chain

LEMMA ChainFlushed ==
  ASSUME NEW p \in Seq(Nat), NEW from \in Nat, NEW to \in Nat
  PROVE  /\ Flushed(p) \in Seq(Seq(Nat))
         /\ Chain(Flushed(p), from, to) <=>
              IF p = <<>> THEN from = to ELSE IsRun(p, from) /\ to = Last(p)
BY DEF Flushed, Chain, End

-----------------------------------------------------------------------------
(* Budgets and permits.                                                      *)

LEMMA BudgetTyped == BudgetMiB \in Nat \ {0}
<1> (MaxMemory \div 6) \div MiB \in Int
  BY BudgetAssumption
<1> QED BY BudgetAssumption DEF BudgetMiB, Most, Least

(* No batch ever asks for more permits than there are.                       *)
LEMMA PermitsBounded ==
  ASSUME NEW batch
  PROVE  PermitsForBatch(batch) \in 0..BudgetMiB
<1>1. ASSUME NEW x PROVE Clamp(x, 1, BudgetMiB) \in 0..BudgetMiB
  BY BudgetTyped DEF Clamp
<1>2. ASSUME NEW e PROVE PermitsFor(e) \in 0..BudgetMiB
  <2>1. CASE IsInMemory(e)
    BY <1>1, <2>1 DEF PermitsFor
  <2>2. CASE ~IsInMemory(e) /\ IsMapped(e)
    BY <1>1, <2>2 DEF PermitsFor
  <2>3. CASE ~IsInMemory(e) /\ ~IsMapped(e)
    BY <2>3, BudgetTyped DEF PermitsFor
  <2> QED BY <2>1, <2>2, <2>3
<1> QED BY <1>1, <1>2 DEF PermitsForBatch

LEMMA InputTyped ==
  ASSUME TypeOK
  PROVE  input \in Seq(Entry) /\ \A e \in 1..Len(input) : input[e].size \in Nat
<1>1. input \in Seq(Entry)
  BY InputsAssumption DEF TypeOK
<1>2. \A e \in 1..Len(input) : input[e] \in Entry
  BY <1>1
<1> QED BY <1>1, <1>2 DEF Entry

-----------------------------------------------------------------------------
(* Every step of the pipeline preserves the invariant.                       *)

LEMMA TailEmpty ==
  ASSUME NEW s \in Seq(Nat), Len(s) > 0, Tail(s) = <<>>
  PROVE  Len(s) = 1
<1>1. Len(Tail(s)) = Len(s) - 1 /\ Len(s) \in Nat
  OBVIOUS
<1>2. Len(Tail(s)) = 0
  <2> DEFINE t == Tail(s)
  <2>1. t = <<>>
    OBVIOUS
  <2> HIDE DEF t
  <2>2. Len(t) = 0
    BY <2>1
  <2> QED BY <2>2 DEF t
<1> QED BY <1>1, <1>2

LEMMA FlightTyped == FlightPermits \in Nat
BY ThreadsAssumption DEF FlightPermits

(* The end of the units handed over so far is a position of the list.        *)
LEMMA SubmittedTyped ==
  ASSUME TypeOK, ProducerInv
  PROVE  Submitted \in Nat
<1>1. CASE Len(task) = 0
  BY <1>1 DEF Submitted, End
<1>2. CASE Len(task) # 0
  <2>1. Len(task) \in 1..Len(task) /\ task[Len(task)] \in Seq(Nat)
    BY <1>2 DEF TypeOK
  <2>2. task[Len(task)] # <<>>
    BY <2>1 DEF ProducerInv, Chain, IsRun
  <2> QED BY <1>2, <2>1, <2>2 DEF Submitted, End, Last
<1> QED BY <1>1, <1>2

LEMMA SubmitGrows ==
  ASSUME IInv, SubmitTask
  PROVE  Submitted \in Nat /\ Submitted' \in Nat /\ Submitted <= Submitted'
<1>1. /\ task \in Seq(Seq(Nat)) /\ outbox \in Seq(Seq(Nat)) /\ fed \in Nat /\ Submitted \in Nat
  BY SubmittedTyped DEF IInv, TypeOK
<1>2. outbox # <<>> /\ Chain(outbox, Submitted, fed)
  BY DEF IInv, ProducerInv, SubmitTask
<1>3. IsRun(Head(outbox), Submitted) /\ Head(outbox) \in Seq(Nat)
  BY <1>1, <1>2, ChainTail
<1>4. Last(Head(outbox)) = Submitted + Len(Head(outbox)) /\ Len(Head(outbox)) \in Nat
  <2>1. Last(Head(outbox)) = Submitted + Len(Head(outbox))
    BY <1>1, <1>3, RunLast
  <2> QED BY <1>3, <2>1
<1>5. Submitted' = Last(Head(outbox))
  BY <1>1, SMTT(40) DEF SubmitTask, Submitted, End
<1> QED BY <1>1, <1>4, <1>5

(* What the head of the queue says about the units still queued.             *)
LEMMA QueueHead ==
  ASSUME TypeOK, QueueInv, queue # <<>>
  PROVE  /\ Head(queue) = POISON =>
              Len(queue) = 1 /\ Last(queue) = POISON /\ current = Len(task) /\ ~Feeding
         /\ Head(queue) # POISON => Head(queue) = current + 1
<1>1. Len(queue) \in Nat /\ Len(queue) > 0 /\ Head(queue) = queue[1] /\ 1 \in 1..Len(queue)
  BY DEF TypeOK
<1>2. current \in Nat /\ Len(task) \in Nat
  BY DEF TypeOK
<1>3. queue[1] = current + 1 \/ (queue[1] = POISON /\ 1 = Len(queue))
  BY <1>1 DEF QueueInv
<1>4. Head(queue) # POISON => Head(queue) = current + 1
  BY <1>1, <1>3
<1>5. ASSUME Head(queue) = POISON
      PROVE  Len(queue) = 1 /\ Last(queue) = POISON /\ current = Len(task) /\ ~Feeding
  <2>1. Len(queue) = 1
    BY <1>1, <1>2, <1>3, <1>5
  <2>2. Last(queue) = POISON
    BY <1>1, <1>5, <2>1 DEF Last
  <2>3. current + Len(queue) = Len(task) + 1
    BY <2>2 DEF QueueInv
  <2>4. ~Feeding
    BY <1>1, <1>5 DEF QueueInv
  <2> QED BY <1>2, <2>1, <2>2, <2>3, <2>4
<1> QED BY <1>4, <1>5

(* A unit that ends was running, so it is none the writer has collected.     *)
LEMMA EndTaskPool ==
  ASSUME IInv, NEW w \in Workers, NEW outc \in {"done", "failed"}, EndTask(w, outc)
  PROVE  PoolInv'
<1> DEFINE i == worker[w]
<1>1. /\ i # 0 /\ future' = [future EXCEPT ![i] = outc] /\ worker' = [worker EXCEPT ![w] = 0]
  BY DEF EndTask
<1>2. /\ task' = task /\ current' = current /\ wpc' = wpc /\ interrupted' = interrupted
      /\ handle' = handle /\ (Feeding' <=> Feeding)
  BY DEF EndTask, Feeding, producerVars, flightVars, writerVars
<1>3. /\ worker \in [Workers -> 0..Len(task)] /\ i \in 1..Len(task)
      /\ future \in Seq({"queued", "running", "done", "failed"}) /\ Len(future) = Len(task)
  BY <1>1 DEF IInv, TypeOK
<1>4. \A v \in Workers : v # w /\ worker[v] # 0 => worker[v] # i
  BY <1>1 DEF IInv, PoolInv
<1>5. /\ \A v \in Workers : worker'[v] = (IF v = w THEN 0 ELSE worker[v])
      /\ \A k \in 1..Len(task) : future'[k] = (IF k = i THEN outc ELSE future[k])
  BY <1>1, <1>3
<1>6. \A v \in Workers : worker'[v] # 0 => future'[worker'[v]] = "running"
  BY <1>3, <1>4, <1>5 DEF IInv, PoolInv
<1>7. \A u, v \in Workers : worker'[u] = worker'[v] /\ worker'[u] # 0 => u = v
  BY <1>5 DEF IInv, PoolInv
<1>8. \A k \in 1..Len(task) :
         k < current \/ (k = current /\ wpc # "get") => future'[k] \in {"done", "failed"}
  BY <1>5 DEF IInv, PoolInv
<1> QED BY <1>2, <1>6, <1>7, <1>8 DEF IInv, PoolInv, Uneventful

LEMMA TypeStep ==
  ASSUME IInv, [Next]_vars
  PROVE  TypeOK'
<1> USE DEF IInv, producerVars, poolVars, flightVars, writerVars
<1>1. CASE AddBatchable
  <2>1. fed + 1 \in 1..Len(input) /\ fed + 1 \in Nat /\ fed + 1 \in 0..Len(input)
    BY <1>1, InputTyped DEF AddBatchable, TypeOK
  <2>2. input[fed + 1].size \in Nat
    BY <2>1, InputTyped
  <2>3. /\ Append(pendingBatch, fed + 1) \in Seq(Nat) /\ <<Append(pendingBatch, fed + 1)>> \in Seq(Seq(Nat))
        /\ pendingBatchBytes + input[fed + 1].size \in Nat
    <3>1. pendingBatch \in Seq(Nat) /\ pendingBatchBytes \in Nat
      BY DEF TypeOK
    <3> HIDE DEF IInv
    <3>2. pendingBatchBytes + input[fed + 1].size \in Nat
      BY <2>2, <3>1
    <3>3. Append(pendingBatch, fed + 1) \in Seq(Nat)
      BY <2>1, <3>1
    <3>4. <<Append(pendingBatch, fed + 1)>> \in Seq(Seq(Nat))
      BY <3>3
    <3> QED BY <3>2, <3>3, <3>4
  <2>4. /\ pendingBatch' \in Seq(Nat) /\ pendingBatchBytes' \in Nat /\ outbox' \in Seq(Seq(Nat))
        /\ ppc' \in {"walk", "acquireBytes"} /\ fed' \in 0..Len(input)
    BY <1>1, <2>1, <2>3 DEF AddBatchable, TypeOK
  <2> QED BY <1>1, <2>4 DEF AddBatchable, TypeOK
<1>2. CASE AddAlone
  <2>1. fed + 1 \in Nat /\ fed + 1 \in 0..Len(input)
    BY <1>2, InputTyped DEF AddAlone, TypeOK
  <2>2. Flushed(pendingBatch) \in Seq(Seq(Nat))
    BY DEF Flushed, TypeOK
  <2>3. outbox' \in Seq(Seq(Nat))
    BY <1>2, <2>1, <2>2 DEF AddAlone
  <2> QED BY <1>2, <2>1, <2>3 DEF AddAlone, TypeOK
<1>3. CASE AcquireBytes
  <2>1. PermitsForBatch(Head(outbox)) \in Nat
    BY PermitsBounded, BudgetTyped
  <2>2. byteFlight' \in Nat
    BY <1>3, <2>1, SMTT(40) DEF AcquireBytes, TypeOK
  <2> QED BY <1>3, <2>2 DEF AcquireBytes, TypeOK
<1>4. CASE AcquireCount
  BY <1>4, SMTT(40) DEF AcquireCount, TypeOK
<1>5. CASE SubmitTask
  <2>1. outbox # <<>> /\ Head(outbox) \in Seq(Nat)
    BY <1>5 DEF SubmitTask, ProducerInv, TypeOK
  <2>2. /\ task' \in Seq(Seq(Nat)) /\ Len(task') = Len(task) + 1
        /\ future' \in Seq({"queued", "running", "done", "failed"}) /\ Len(future') = Len(task')
    BY <1>5, <2>1 DEF SubmitTask, TypeOK
  <2>3. 0..Len(task) \subseteq 0..Len(task')
    BY <2>2 DEF TypeOK
  <2>4. queue' \in Seq(0..Len(task'))
    BY <1>5, <2>2, <2>3 DEF SubmitTask, TypeOK
  <2>5. worker' \in [Workers -> 0..Len(task')] /\ current' \in 0..Len(task')
    BY <1>5, <2>3 DEF SubmitTask, TypeOK
  <2> QED BY <1>5, <2>2, <2>4, <2>5 DEF SubmitTask, TypeOK
<1>6. CASE PutItem
  <2>1. outbox # <<>> /\ Tail(outbox) \in Seq(Seq(Nat))
    BY <1>6 DEF PutItem, ProducerInv, TypeOK
  <2>2. queue' \in Seq(0..Len(task))
    BY <1>6 DEF PutItem, TypeOK
  <2>3. ppc' \in {"walk", "poison", "acquireBytes"}
    BY <1>6 DEF PutItem, Idle
  <2> QED BY <1>6, <2>1, <2>2, <2>3, ZenonT(40) DEF PutItem, TypeOK
<1>7. CASE BeginFinish
  <2>1. outbox' \in Seq(Seq(Nat))
    BY <1>7 DEF BeginFinish, Flushed, TypeOK
  <2>2. ppc' \in {"poison", "acquireBytes"}
    BY <1>7 DEF BeginFinish, Idle
  <2>3. pendingBatch' \in Seq(Nat) /\ pendingBatchBytes' \in Nat
    BY <1>7 DEF BeginFinish, TypeOK
  <2> QED BY <1>7, <2>1, <2>2, <2>3 DEF BeginFinish, TypeOK
<1>8. CASE PutPoison
  BY <1>8, SMTT(40) DEF PutPoison, TypeOK
<1>9. CASE Join
  BY <1>9 DEF Join, TypeOK
<1>10. CASE FreeHandles
  <2>1. ppc' \in {"thrown", "returned"}
    BY <1>10 DEF FreeHandles, CallResult
  <2>2. handle' \in [Workers -> {"none", "null", "live", "freed"}]
    BY <1>10 DEF FreeHandles, TypeOK
  <2> QED BY <1>10, <2>1, <2>2 DEF FreeHandles, TypeOK
<1>11. CASE WalkFails
  BY <1>11 DEF WalkFails, TypeOK
<1>12. CASE Interrupt
  BY <1>12 DEF Interrupt, TypeOK
<1>13. CASE OpenArchive
  BY <1>13 DEF OpenArchive, TypeOK
<1>14. CASE TakeItem
  <2>1. queue' \in Seq(0..Len(task)) /\ Head(queue) \in 0..Len(task)
    BY <1>14 DEF TakeItem, TypeOK
  <2> QED BY <1>14, <2>1 DEF TakeItem, TypeOK
<1>15. CASE GetResult
  <2>1. task[current] \in Seq(Nat)
    BY <1>15 DEF GetResult, Collect, WriterInv, TypeOK
  <2>2. PermitsForBatch(task[current]) \in Nat
    BY PermitsBounded, BudgetTyped
  <2>3. byteFlight' \in Nat /\ countFlight' \in Nat
    BY <1>15, <2>2 DEF GetResult, Collect, TypeOK
  <2>4. results' \in Seq(Nat) /\ wpc' \in {"take", "write"}
    BY <1>15, <2>1 DEF GetResult, Collect, TypeOK
  <2>5. failed' \in BOOLEAN /\ writerError' \in BOOLEAN
    BY <1>15 DEF GetResult, Collect, TypeOK
  <2> QED BY <1>15, <2>3, <2>4, <2>5 DEF GetResult, Collect, TypeOK
<1>16. CASE WriteEntry
  <2>1. results # <<>>
    BY <1>16 DEF WriteEntry, WriterInv, IsRun
  <2>2. Head(results) \in Nat /\ Tail(results) \in Seq(Nat)
    BY <2>1 DEF TypeOK
  <2>3. wpc' \in {"take", "write"} /\ archive' \in Seq(Nat) /\ results' \in Seq(Nat)
    BY <1>16, <2>2 DEF WriteEntry, TypeOK
  <2> QED BY <1>16, <2>3, ZenonT(40) DEF WriteEntry, TypeOK
<1>17. CASE WriteTail
  BY <1>17 DEF WriteTail, TypeOK
<1>18. CASE CloseArchive
  BY <1>18 DEF CloseArchive, TypeOK
<1>19. CASE WriterDies
  BY <1>19, ZenonT(40) DEF WriterDies, TypeOK
<1>20. ASSUME NEW w \in Workers, StartTask(w) PROVE TypeOK'
  <2>1. PICK i \in 1..Len(task) :
          /\ future' = [future EXCEPT ![i] = "running"]
          /\ worker' = [worker EXCEPT ![w] = i]
    BY <1>20 DEF StartTask
  <2>2. future' \in Seq({"queued", "running", "done", "failed"}) /\ Len(future') = Len(task)
    BY <2>1 DEF TypeOK
  <2>3. worker' \in [Workers -> 0..Len(task)]
    BY <2>1 DEF TypeOK
  <2>4. handle' \in [Workers -> {"none", "null", "live", "freed"}]
    BY <1>20 DEF StartTask, FirstHandle, TypeOK
  <2> QED BY <1>20, <2>2, <2>3, <2>4, SMTT(40) DEF StartTask, TypeOK
<1>21. ASSUME NEW w \in Workers, FinishTask(w) PROVE TypeOK'
  BY <1>21, SMTT(40) DEF FinishTask, EndTask, TypeOK
<1>22. ASSUME NEW w \in Workers, FailTask(w) PROVE TypeOK'
  BY <1>22 DEF FailTask, EndTask, TypeOK
<1>23. CASE Terminated \/ UNCHANGED vars
  BY <1>23, SMTT(40) DEF Terminated, vars, TypeOK
<1> QED
  BY <1>1, <1>2, <1>3, <1>4, <1>5, <1>6, <1>7, <1>8, <1>9, <1>10, <1>11, <1>12, <1>13, <1>14, <1>15, <1>16, <1>17, <1>18, <1>19, <1>20, <1>21, <1>22, <1>23 DEF Next, ProducerStep, WorkerStep, WriterStep

LEMMA ProducerStepInv ==
  ASSUME IInv, [Next]_vars
  PROVE  ProducerInv'
<1> USE DEF IInv, producerVars, poolVars, flightVars, writerVars
<1>1. CASE AddBatchable
  <2> DEFINE batch == Append(pendingBatch, fed + 1)
  <2>1. pendingBatch \in Seq(Nat) /\ fed \in Nat /\ Submitted \in Nat /\ fed + 1 \in Nat
    BY SubmittedTyped DEF TypeOK
  <2>2. /\ ppc = "walk" /\ outbox = <<>> /\ ~finishing /\ ~interrupted /\ fed < Len(input)
        /\ Chain(Flushed(pendingBatch), Submitted, fed)
    BY <1>1 DEF AddBatchable, ProducerInv, Feeding
  <2>3. (pendingBatch = <<>> \/ IsRun(pendingBatch, Submitted)) /\ fed = Submitted + Len(pendingBatch)
    BY <2>1, <2>2, ChainFlushed, RunLast
  <2>4. IsRun(batch, Submitted) /\ Last(batch) = fed + 1 /\ batch \in Seq(Nat) /\ batch # <<>>
    <3>1. pendingBatch \in Seq(Nat) /\ Submitted \in Nat /\ fed + 1 \in Nat
      BY <2>1
    <3>2. fed + 1 = Submitted + Len(pendingBatch) + 1
      BY <2>1, <2>3
    <3>3. pendingBatch = <<>> \/ IsRun(pendingBatch, Submitted)
      BY <2>3
    <3>4. IsRun(batch, Submitted) /\ Last(batch) = fed + 1
      BY <3>1, <3>2, <3>3, RunAppend
    <3>5. batch \in Seq(Nat) /\ batch # <<>>
      BY <3>1
    <3> QED BY <3>4, <3>5
  <2> HIDE DEF batch
  <2>5. Flushed(batch) = <<batch>> /\ Chain(<<batch>>, Submitted, fed + 1)
    <3>1. Flushed(batch) = <<batch>>
      BY <2>4 DEF Flushed
    <3>2. Chain(Flushed(batch), Submitted, fed + 1)
      BY <2>1, <2>4, ChainFlushed
    <3> QED BY <3>1, <3>2
  <2>6. \A i \in 1..Len(<<batch>>) : Last(<<batch>>[i]) <= fed + 1
    <3>1. Len(<<batch>>) = 1 /\ <<batch>>[1] = batch
      OBVIOUS
    <3> QED BY <2>1, <2>4, <3>1
  <2>7. /\ input' = input /\ task' = task /\ finishing' = finishing /\ interrupted' = interrupted
        /\ fed' = fed + 1 /\ Submitted' = Submitted
        /\ \/ ppc' = "walk" /\ outbox' = <<>> /\ pendingBatch' = batch
           \/ ppc' = "acquireBytes" /\ outbox' = <<batch>> /\ pendingBatch' = <<>>
    BY <1>1, <2>2 DEF AddBatchable, Submitted, batch
  <2>8. CASE ppc' = "walk" /\ outbox' = <<>> /\ pendingBatch' = batch
    BY <2>2, <2>5, <2>7, <2>8 DEF ProducerInv, Feeding
  <2>9. CASE ppc' = "acquireBytes" /\ outbox' = <<batch>> /\ pendingBatch' = <<>>
    BY <2>2, <2>5, <2>6, <2>7, <2>9 DEF ProducerInv, Feeding
  <2> QED BY <2>7, <2>8, <2>9
<1>2. CASE AddAlone
  <2> DEFINE alone == <<fed + 1>>
             units == Append(Flushed(pendingBatch), alone)
  <2>1. pendingBatch \in Seq(Nat) /\ fed \in Nat /\ Submitted \in Nat /\ fed + 1 \in Nat
    BY SubmittedTyped DEF TypeOK
  <2>2. /\ ppc = "walk" /\ ~finishing /\ ~interrupted
        /\ Chain(Flushed(pendingBatch), Submitted, fed)
    BY <1>2 DEF AddAlone, ProducerInv, Feeding
  <2>3. alone \in Seq(Nat) /\ IsRun(alone, fed) /\ Last(alone) = fed + 1
    BY <2>1 DEF IsRun, Last
  <2> HIDE DEF alone
  <2>0. Flushed(pendingBatch) \in Seq(Seq(Nat))
    BY <2>1, ChainFlushed
  <2>4. Chain(units, Submitted, fed + 1)
    <3>1. Chain(units, Submitted, Last(alone))
      BY <2>0, <2>1, <2>2, <2>3, ChainAppend
    <3> QED BY <2>3, <3>1
  <2>5. units # <<>>
    <3>1. Len(units) = Len(Flushed(pendingBatch)) + 1 /\ Len(Flushed(pendingBatch)) \in Nat
      BY <2>0, <2>3
    <3> QED BY <3>1
  <2>6. \A i \in 1..Len(units) : Last(units[i]) <= fed + 1
    <3>1. CASE pendingBatch = <<>>
      BY <2>1, <2>3, <3>1 DEF Flushed
    <3>2. CASE pendingBatch # <<>>
      <4>1. Last(pendingBatch) = fed
        BY <2>1, <2>2, <3>2, ChainFlushed
      <4> QED BY <2>1, <2>3, <3>2, <4>1 DEF Flushed
    <3> QED BY <3>1, <3>2
  <2>7. /\ input' = input /\ task' = task /\ finishing' = finishing /\ interrupted' = interrupted
        /\ fed' = fed + 1 /\ Submitted' = Submitted
        /\ ppc' = "acquireBytes" /\ outbox' = units /\ pendingBatch' = <<>>
    BY <1>2 DEF AddAlone, Submitted, alone
  <2> HIDE DEF units
  <2> QED BY <2>2, <2>4, <2>5, <2>6, <2>7 DEF ProducerInv, Feeding
<1>3. CASE AcquireBytes
  BY <1>3, SMTT(40) DEF AcquireBytes, ProducerInv, Feeding, Submitted
<1>4. CASE AcquireCount
  BY <1>4, SMTT(40) DEF AcquireCount, ProducerInv, Feeding, Submitted
<1>5. CASE SubmitTask
  <2> DEFINE unit == Head(outbox)
  <2>1. /\ ppc = "execute" /\ pendingBatch = <<>> /\ outbox # <<>> /\ ~interrupted
        /\ Chain(outbox, Submitted, fed) /\ Chain(task, 0, Submitted)
        /\ \A i \in 1..Len(outbox) : Last(outbox[i]) <= fed
        /\ \A i \in 1..Len(task) : Last(task[i]) <= Submitted
        /\ finishing => fed = Len(input)
    BY <1>5 DEF SubmitTask, ProducerInv, Feeding
  <2>2. /\ task \in Seq(Seq(Nat)) /\ outbox \in Seq(Seq(Nat))
        /\ fed \in Nat /\ Len(input) \in Nat /\ fed <= Len(input) /\ Submitted \in Nat
    BY SubmittedTyped, InputTyped DEF TypeOK
  <2>3. /\ unit \in Seq(Nat) /\ IsRun(unit, Submitted)
        /\ Chain(Tail(outbox), Last(unit), fed)
    BY <2>1, <2>2, ChainTail
  <2>4. /\ Last(unit) = Submitted + Len(unit) /\ Len(unit) > 0 /\ Last(unit) \in Nat
        /\ Submitted <= Last(unit)
    <3> HIDE DEF unit
    <3>1. Last(unit) = Submitted + Len(unit) /\ Len(unit) > 0
      BY <2>2, <2>3, RunLast
    <3>2. Len(unit) \in Nat
      BY <2>3
    <3> QED BY <2>2, <3>1, <3>2
  <2>5. Last(unit) <= fed
    <3>1. 1 \in 1..Len(outbox) /\ unit = outbox[1]
      BY <2>1, <2>2
    <3> QED BY <2>1, <3>1
  <2>6. task' = Append(task, unit) /\ task' # <<>>
    BY <1>5, <2>2, SMTT(40) DEF SubmitTask
  <2>7. Chain(task', 0, Last(unit))
    BY <2>1, <2>2, <2>3, <2>6, ChainAppend
  <2>8. Submitted' = Last(unit)
    BY <2>7 DEF Chain, Submitted
  <2>9. \A i \in 1..Len(task') : Last(task'[i]) <= Last(unit)
    <3> TAKE i \in 1..Len(task')
    <3>1. CASE i \in 1..Len(task)
      <4>1. task'[i] = task[i] /\ Last(task[i]) <= Submitted
        BY <2>1, <2>2, <2>6, <3>1
      <4>2. task[i] \in Seq(Nat) /\ Last(task[i]) \in Nat
        <5>1. task[i] \in Seq(Nat) /\ task[i] # <<>>
          BY <2>1, <2>2, <3>1 DEF Chain, IsRun
        <5> QED BY <5>1 DEF Last
      <4>3. /\ Submitted \in Nat /\ Last(unit) \in Nat /\ Submitted <= Last(unit)
            /\ Last(task[i]) \in Nat /\ Last(task[i]) <= Submitted
        BY <2>2, <2>4, <4>1, <4>2
      <4>4. Last(task[i]) <= Last(unit)
        <5> HIDE DEF unit
        <5> QED BY <4>3
      <4> QED BY <4>1, <4>4
    <3>2. CASE i = Len(task) + 1
      BY <2>2, <2>4, <2>6, <3>2
    <3> QED BY <2>2, <2>6, <3>1, <3>2
  <2>10. /\ input' = input /\ finishing' = finishing /\ interrupted' = interrupted
         /\ fed' = fed /\ ppc' = "put" /\ outbox' = outbox /\ pendingBatch' = pendingBatch
    BY <1>5 DEF SubmitTask
  <2>11. Last(unit) <= Len(input)
    BY <2>2, <2>4, <2>5
  <2> HIDE DEF unit
  <2> QED BY <2>1, <2>3, <2>5, <2>6, <2>7, <2>8, <2>9, <2>10, <2>11 DEF ProducerInv, Feeding
<1>6. CASE PutItem
  <2>1. /\ ppc = "put" /\ pendingBatch = <<>> /\ ~interrupted
        /\ Chain(Tail(outbox), Submitted, fed)
        /\ finishing => fed = Len(input)
        /\ \A i \in 1..Len(outbox) : Last(outbox[i]) <= fed
    BY <1>6 DEF PutItem, ProducerInv, Feeding
  <2>2. outbox # <<>> /\ outbox \in Seq(Seq(Nat))
    BY <1>6 DEF PutItem, ProducerInv, TypeOK
  <2>3. \A i \in 1..Len(Tail(outbox)) : Last(Tail(outbox)[i]) <= fed
    BY <2>1, <2>2
  <2>4. /\ input' = input /\ task' = task /\ finishing' = finishing /\ interrupted' = interrupted
        /\ fed' = fed /\ Submitted' = Submitted /\ outbox' = Tail(outbox) /\ pendingBatch' = pendingBatch
        /\ ppc' = IF Tail(outbox) = <<>> THEN IF finishing THEN "poison" ELSE "walk" ELSE "acquireBytes"
    BY <1>6 DEF PutItem, Idle, Submitted
  <2>5. CASE Tail(outbox) = <<>>
    <3>1. Submitted = fed /\ Chain(Flushed(<<>>), Submitted, fed)
      BY <2>1, <2>5, ChainEmpty DEF Flushed, Chain, End
    <3> QED BY <2>1, <2>4, <2>5, <3>1 DEF ProducerInv, Feeding, TypeOK
  <2>6. CASE Tail(outbox) # <<>>
    BY <2>1, <2>3, <2>4, <2>6 DEF ProducerInv, Feeding
  <2> QED BY <2>5, <2>6
<1>7. CASE BeginFinish
  <2>1. /\ ppc = "walk" /\ ~interrupted /\ fed = Len(input)
        /\ Chain(Flushed(pendingBatch), Submitted, fed)
    BY <1>7 DEF BeginFinish, ProducerInv, Feeding
  <2>2. /\ input' = input /\ task' = task /\ finishing' = TRUE /\ interrupted' = interrupted
        /\ fed' = fed /\ Submitted' = Submitted /\ outbox' = Flushed(pendingBatch) /\ pendingBatch' = <<>>
        /\ ppc' = IF pendingBatch = <<>> THEN "poison" ELSE "acquireBytes"
    BY <1>7 DEF BeginFinish, Idle, Submitted
  <2>3. pendingBatch \in Seq(Nat) /\ fed \in Nat /\ Submitted \in Nat
    BY SubmittedTyped DEF TypeOK
  <2>4. CASE pendingBatch = <<>>
    <3>1. Submitted = Len(input)
      BY <2>1, <2>3, <2>4, ChainFlushed
    <3>2. Chain(task, 0, Submitted) /\ \A i \in 1..Len(task) : Last(task[i]) <= Submitted
      BY DEF ProducerInv
    <3>3. Flushed(pendingBatch) = <<>>
      BY <2>4 DEF Flushed
    <3>4. ppc' = "poison" /\ Submitted' <= Len(input)
      BY <2>2, <2>3, <2>4, <3>1
    <3> QED BY <2>1, <2>2, <3>1, <3>2, <3>3, <3>4 DEF ProducerInv, Feeding
  <2>5. CASE pendingBatch # <<>>
    <3>1. Flushed(pendingBatch) = <<pendingBatch>> /\ Last(pendingBatch) = fed
      BY <2>1, <2>3, <2>5, ChainFlushed DEF Flushed
    <3>2. \A i \in 1..Len(<<pendingBatch>>) : Last(<<pendingBatch>>[i]) <= fed
      BY <2>3, <3>1
    <3>3. <<pendingBatch>> # <<>>
      OBVIOUS
    <3> QED BY <2>1, <2>2, <2>5, <3>1, <3>2, <3>3 DEF ProducerInv, Feeding
  <2> QED BY <2>4, <2>5
<1>8. CASE PutPoison
  BY <1>8, SMTT(40) DEF PutPoison, ProducerInv, Feeding, Submitted
<1>9. CASE Join
  BY <1>9 DEF Join, ProducerInv, Feeding, Submitted
<1>10. CASE FreeHandles
  BY <1>10 DEF FreeHandles, CallResult, ProducerInv, Feeding, Submitted
<1>11. CASE WalkFails
  BY <1>11 DEF WalkFails, ProducerInv, Feeding, Submitted
<1>12. CASE Interrupt
  BY <1>12 DEF Interrupt, ProducerInv, Feeding, Submitted
<1>13. CASE OpenArchive
  BY <1>13 DEF OpenArchive, ProducerInv, Feeding, Submitted
<1>14. CASE TakeItem
  BY <1>14, SMTT(40) DEF TakeItem, ProducerInv, Feeding, Submitted
<1>15. CASE GetResult
  BY <1>15, SMTT(40) DEF GetResult, Collect, ProducerInv, Feeding, Submitted
<1>16. CASE WriteEntry
  BY <1>16, SMTT(40) DEF WriteEntry, ProducerInv, Feeding, Submitted
<1>17. CASE WriteTail
  BY <1>17 DEF WriteTail, ProducerInv, Feeding, Submitted
<1>18. CASE CloseArchive
  BY <1>18 DEF CloseArchive, ProducerInv, Feeding, Submitted
<1>19. CASE WriterDies
  BY <1>19 DEF WriterDies, ProducerInv, Feeding, Submitted
<1>20. ASSUME NEW w \in Workers, StartTask(w) PROVE ProducerInv'
  BY <1>20, SMTT(40) DEF StartTask, FirstHandle, ProducerInv, Feeding, Submitted
<1>21. ASSUME NEW w \in Workers, FinishTask(w) PROVE ProducerInv'
  BY <1>21 DEF FinishTask, EndTask, ProducerInv, Feeding, Submitted
<1>22. ASSUME NEW w \in Workers, FailTask(w) PROVE ProducerInv'
  BY <1>22 DEF FailTask, EndTask, ProducerInv, Feeding, Submitted
<1>23. CASE Terminated \/ UNCHANGED vars
  BY <1>23 DEF Terminated, vars, ProducerInv, Feeding, Submitted
<1> QED
  BY <1>1, <1>2, <1>3, <1>4, <1>5, <1>6, <1>7, <1>8, <1>9, <1>10, <1>11, <1>12, <1>13, <1>14, <1>15, <1>16, <1>17, <1>18, <1>19, <1>20, <1>21, <1>22, <1>23 DEF Next, ProducerStep, WorkerStep, WriterStep

LEMMA QueueStep ==
  ASSUME IInv, [Next]_vars
  PROVE  QueueInv'
<1> USE DEF IInv, producerVars, poolVars, flightVars, writerVars
<1>1. CASE AddBatchable
  BY <1>1 DEF AddBatchable, QueueInv, Feeding, TypeOK
<1>2. CASE AddAlone
  BY <1>2 DEF AddAlone, QueueInv, Feeding, TypeOK
<1>3. CASE AcquireBytes
  BY <1>3, SMTT(40) DEF AcquireBytes, QueueInv, Feeding, TypeOK
<1>4. CASE AcquireCount
  BY <1>4, SMTT(40) DEF AcquireCount, QueueInv, Feeding, TypeOK
<1>5. CASE SubmitTask
  BY <1>5, SMTT(40) DEF SubmitTask, QueueInv, Feeding, TypeOK
<1>6. CASE PutItem
  <2>1. ppc = "put" /\ task # <<>> /\ queue \in Seq(0..Len(task)) /\ task \in Seq(Seq(Nat)) /\ current \in Nat
    BY <1>6 DEF PutItem, ProducerInv, TypeOK
  <2>2. /\ current + Len(queue) = Len(task) - 1
        /\ \A k \in 1..Len(queue) : queue[k] = current + k /\ queue[k] # POISON
    BY <2>1 DEF QueueInv, Feeding
  <2>3. /\ queue' = Append(queue, Len(task)) /\ current' = current /\ task' = task
        /\ ppc' \in {"poison", "walk", "acquireBytes"}
    BY <1>6 DEF PutItem, Idle
  <2>4. Len(queue') = Len(queue) + 1 /\ queue'[Len(queue) + 1] = Len(task)
    BY <2>1, <2>3
  <2>5. ASSUME NEW k \in 1..Len(queue')
        PROVE  queue'[k] = current + k /\ queue'[k] # POISON
    <3>1. CASE k \in 1..Len(queue)
      BY <2>1, <2>2, <2>3, <3>1
    <3>2. CASE k = Len(queue) + 1
      BY <2>1, <2>2, <2>4, <3>2
    <3> QED
      <4>1. Len(queue) \in Nat
        BY <2>1
      <4> QED BY <2>4, <3>1, <3>2, <4>1
  <2>6. current + Len(queue') = Len(task) /\ Len(task) \in Nat
    BY <2>1, <2>2, <2>4
  <2>7. Last(queue') # POISON
    BY <2>1, <2>4 DEF Last
  <2> QED
    <3>1. /\ current' + Len(queue') <= Len(task') + 1
          /\ current' + Len(queue') = Len(task') /\ ppc' # "put"
      BY <2>3, <2>6
    <3> QED BY <2>3, <2>5, <2>7, <3>1 DEF QueueInv
<1>7. CASE BeginFinish
  BY <1>7 DEF BeginFinish, Idle, QueueInv, Feeding, TypeOK
<1>8. CASE PutPoison
  <2>1. ppc = "poison" /\ queue \in Seq(0..Len(task)) /\ current \in Nat
    BY <1>8 DEF PutPoison, TypeOK
  <2>2. /\ current + Len(queue) = Len(task)
        /\ \A k \in 1..Len(queue) : queue[k] = current + k
    BY <2>1 DEF QueueInv, Feeding
  <2>3. queue' = Append(queue, POISON) /\ current' = current /\ task' = task /\ ppc' = "join"
    BY <1>8 DEF PutPoison
  <2>4. Len(queue') = Len(queue) + 1 /\ queue'[Len(queue) + 1] = POISON
    BY <2>1, <2>3
  <2>5. \A k \in 1..Len(queue') : queue'[k] = current + k \/ (queue'[k] = POISON /\ k = Len(queue'))
    BY <2>1, <2>2, <2>3, <2>4
  <2> QED BY <2>1, <2>2, <2>3, <2>4, <2>5 DEF QueueInv, Feeding
<1>9. CASE Join
  BY <1>9 DEF Join, QueueInv, Feeding, TypeOK
<1>10. CASE FreeHandles
  BY <1>10 DEF FreeHandles, CallResult, QueueInv, Feeding, TypeOK
<1>11. CASE WalkFails
  BY <1>11 DEF WalkFails, QueueInv, Feeding, TypeOK
<1>12. CASE Interrupt
  BY <1>12 DEF Interrupt, QueueInv, Feeding, TypeOK
<1>13. CASE OpenArchive
  BY <1>13 DEF OpenArchive, QueueInv, Feeding, TypeOK
<1>14. CASE TakeItem
  <2>1. /\ queue # <<>> /\ queue \in Seq(0..Len(task)) /\ current \in Nat /\ task \in Seq(Seq(Nat))
        /\ queue' = Tail(queue) /\ task' = task /\ ppc' = ppc
        /\ current' = IF Head(queue) = POISON THEN current ELSE Head(queue)
    BY <1>14 DEF TakeItem, TypeOK
  <2>2. /\ Len(queue) > 0 /\ Head(queue) = queue[1] /\ Len(queue') = Len(queue) - 1
        /\ \A k \in 1..Len(queue') : queue'[k] = queue[k + 1]
    BY <2>1
  <2>0. /\ current + Len(queue) <= Len(task) + 1 /\ Len(task) \in Nat /\ Len(queue) \in Nat
        /\ \A k \in 1..Len(queue) : queue[k] = current + k \/ (queue[k] = POISON /\ k = Len(queue))
        /\ Last(queue) = POISON => current + Len(queue) = Len(task) + 1
        /\ Feeding => /\ \A k \in 1..Len(queue) : queue[k] # POISON
                       /\ current + Len(queue) = (IF ppc = "put" THEN Len(task) - 1 ELSE Len(task))
        /\ Feeding' <=> Feeding
    BY <2>1 DEF QueueInv, Feeding
  <2>3. CASE Head(queue) = POISON
    <3>1. Len(queue') = 0 /\ queue' = <<>> /\ ~Feeding /\ current = Len(task)
      <4>1. Len(queue) = 1 /\ ~Feeding /\ current = Len(task)
        BY <2>1, <2>3, QueueHead
      <4>2. Len(queue') = 0 /\ queue' \in Seq(0..Len(task))
        BY <2>1, <2>2, <4>1
      <4> QED BY <4>1, <4>2
    <3>2. current' + Len(queue') <= Len(task') + 1
      BY <2>0, <2>1, <2>3, <3>1
    <3> QED BY <2>0, <3>1, <3>2 DEF QueueInv
  <2>4. CASE Head(queue) # POISON
    <3>1. current' = current + 1
      BY <2>1, <2>4, QueueHead
    <3>2. current' + Len(queue') = current + Len(queue)
      <4>1. current \in Nat /\ Len(queue) \in Nat /\ Len(queue') = Len(queue) - 1
        BY <2>0, <2>1, <2>2
      <4> QED BY <3>1, <4>1, SMTT(40)
    <3>3. ASSUME NEW k \in 1..Len(queue')
          PROVE  /\ queue'[k] = current' + k \/ (queue'[k] = POISON /\ k = Len(queue'))
                 /\ Feeding => queue'[k] # POISON
      <4>1. k + 1 \in 1..Len(queue) /\ queue'[k] = queue[k + 1] /\ k \in Nat
        BY <2>0, <2>2, SMTT(40)
      <4>2. current \in Nat /\ Len(queue) \in Nat /\ Len(queue') = Len(queue) - 1
        BY <2>0, <2>1, <2>2
      <4>3. queue[k + 1] = current + (k + 1) \/ (queue[k + 1] = POISON /\ k + 1 = Len(queue))
        BY <2>0, <4>1
      <4>4. Feeding => queue[k + 1] # POISON
        BY <2>0, <4>1
      <4> QED BY <3>1, <4>1, <4>2, <4>3, <4>4
    <3>4. queue' # <<>> => Last(queue') = Last(queue)
      BY <2>1, <2>2 DEF Last
    <3>5. task' = task /\ ppc' = ppc
      BY <2>1
    <3> QED BY <2>0, <3>2, <3>3, <3>4, <3>5 DEF QueueInv
  <2> QED BY <2>3, <2>4
<1>15. CASE GetResult
  BY <1>15, SMTT(40) DEF GetResult, Collect, QueueInv, Feeding, TypeOK
<1>16. CASE WriteEntry
  BY <1>16, SMTT(40) DEF WriteEntry, QueueInv, Feeding, TypeOK
<1>17. CASE WriteTail
  BY <1>17 DEF WriteTail, QueueInv, Feeding, TypeOK
<1>18. CASE CloseArchive
  BY <1>18 DEF CloseArchive, QueueInv, Feeding, TypeOK
<1>19. CASE WriterDies
  BY <1>19 DEF WriterDies, QueueInv, Feeding, TypeOK
<1>20. ASSUME NEW w \in Workers, StartTask(w) PROVE QueueInv'
  BY <1>20, SMTT(40) DEF StartTask, FirstHandle, QueueInv, Feeding, TypeOK
<1>21. ASSUME NEW w \in Workers, FinishTask(w) PROVE QueueInv'
  BY <1>21 DEF FinishTask, EndTask, QueueInv, Feeding, TypeOK
<1>22. ASSUME NEW w \in Workers, FailTask(w) PROVE QueueInv'
  BY <1>22 DEF FailTask, EndTask, QueueInv, Feeding, TypeOK
<1>23. CASE Terminated \/ UNCHANGED vars
  BY <1>23 DEF Terminated, vars, QueueInv, Feeding, TypeOK
<1> QED
  BY <1>1, <1>2, <1>3, <1>4, <1>5, <1>6, <1>7, <1>8, <1>9, <1>10, <1>11, <1>12, <1>13, <1>14, <1>15, <1>16, <1>17, <1>18, <1>19, <1>20, <1>21, <1>22, <1>23 DEF Next, ProducerStep, WorkerStep, WriterStep

LEMMA FlightStep ==
  ASSUME IInv, [Next]_vars
  PROVE  FlightInv'
<1> USE DEF IInv, producerVars, poolVars, flightVars, writerVars
<1>1. CASE AddBatchable
  BY <1>1 DEF AddBatchable, FlightInv, QueueInv, Feeding, TypeOK
<1>2. CASE AddAlone
  BY <1>2 DEF AddAlone, FlightInv, QueueInv, Feeding, TypeOK
<1>3. CASE AcquireBytes
  BY <1>3, SMTT(40) DEF AcquireBytes, FlightInv, QueueInv, Feeding, TypeOK
<1>4. CASE AcquireCount
  BY <1>4, SMTT(40) DEF AcquireCount, FlightInv, QueueInv, Feeding, TypeOK
<1>5. CASE SubmitTask
  BY <1>5, SMTT(40) DEF SubmitTask, FlightInv, QueueInv, Feeding, TypeOK
<1>6. CASE PutItem
  <2>1. Len(queue') = Len(queue) + 1 /\ ppc = "put" /\ ppc' \in {"poison", "walk", "acquireBytes"}
    BY <1>6 DEF PutItem, Idle, TypeOK
  <2>2. /\ Len(queue) \in Nat /\ countFlight \in Nat /\ FlightPermits \in Nat
        /\ countFlight' = countFlight /\ wpc' = wpc
    BY <1>6, FlightTyped DEF PutItem, TypeOK
  <2>3. Len(queue) + countFlight + (IF wpc = "get" THEN 1 ELSE 0) + 1 <= FlightPermits
    BY <2>1 DEF FlightInv, Feeding
  <2> QED BY <2>1, <2>2, <2>3 DEF FlightInv
<1>7. CASE BeginFinish
  BY <1>7 DEF BeginFinish, Idle, FlightInv, QueueInv, Feeding, TypeOK
<1>8. CASE PutPoison
  BY <1>8, SMTT(40) DEF PutPoison, FlightInv, QueueInv, Feeding, TypeOK
<1>9. CASE Join
  BY <1>9 DEF Join, FlightInv, QueueInv, Feeding, TypeOK
<1>10. CASE FreeHandles
  BY <1>10 DEF FreeHandles, CallResult, FlightInv, QueueInv, Feeding, TypeOK
<1>11. CASE WalkFails
  BY <1>11 DEF WalkFails, FlightInv, QueueInv, Feeding, TypeOK
<1>12. CASE Interrupt
  BY <1>12 DEF Interrupt, FlightInv, QueueInv, Feeding, TypeOK
<1>13. CASE OpenArchive
  BY <1>13 DEF OpenArchive, FlightInv, QueueInv, Feeding, TypeOK
<1>14. CASE TakeItem
  <2>1. queue # <<>> /\ queue \in Seq(0..Len(task)) /\ queue' = Tail(queue) /\ ppc' = ppc
    BY <1>14 DEF TakeItem, TypeOK
  <2>2. Len(queue') = Len(queue) - 1 /\ Len(queue) > 0 /\ Head(queue) = queue[1]
    BY <2>1
  <2>3. Feeding => Head(queue) # POISON
    BY <2>1, QueueHead
  <2>4. wpc = "take" /\ countFlight' = countFlight /\ (Feeding => wpc' = "get") /\ (Feeding' <=> Feeding)
    BY <1>14, <2>3 DEF TakeItem, Feeding
  <2> QED BY <2>1, <2>2, <2>4, FlightTyped DEF FlightInv, TypeOK
<1>15. CASE GetResult
  <2>1. /\ wpc = "get" /\ wpc' \in {"take", "write"} /\ countFlight' = countFlight + 1
        /\ queue' = queue /\ ppc' = ppc
    BY <1>15 DEF GetResult, Collect
  <2> QED BY <2>1, FlightTyped DEF FlightInv, Feeding, TypeOK
<1>16. CASE WriteEntry
  BY <1>16, SMTT(40) DEF WriteEntry, FlightInv, QueueInv, Feeding, TypeOK
<1>17. CASE WriteTail
  BY <1>17 DEF WriteTail, FlightInv, QueueInv, Feeding, TypeOK
<1>18. CASE CloseArchive
  BY <1>18 DEF CloseArchive, FlightInv, QueueInv, Feeding, TypeOK
<1>19. CASE WriterDies
  BY <1>19 DEF WriterDies, FlightInv, QueueInv, Feeding, TypeOK
<1>20. ASSUME NEW w \in Workers, StartTask(w) PROVE FlightInv'
  BY <1>20, SMTT(40) DEF StartTask, FirstHandle, FlightInv, QueueInv, Feeding, TypeOK
<1>21. ASSUME NEW w \in Workers, FinishTask(w) PROVE FlightInv'
  BY <1>21 DEF FinishTask, EndTask, FlightInv, QueueInv, Feeding, TypeOK
<1>22. ASSUME NEW w \in Workers, FailTask(w) PROVE FlightInv'
  BY <1>22 DEF FailTask, EndTask, FlightInv, QueueInv, Feeding, TypeOK
<1>23. CASE Terminated \/ UNCHANGED vars
  BY <1>23 DEF Terminated, vars, FlightInv, QueueInv, Feeding, TypeOK
<1> QED
  BY <1>1, <1>2, <1>3, <1>4, <1>5, <1>6, <1>7, <1>8, <1>9, <1>10, <1>11, <1>12, <1>13, <1>14, <1>15, <1>16, <1>17, <1>18, <1>19, <1>20, <1>21, <1>22, <1>23 DEF Next, ProducerStep, WorkerStep, WriterStep

LEMMA WriterStepInv ==
  ASSUME IInv, [Next]_vars
  PROVE  WriterInv'
<1> USE DEF IInv, producerVars, poolVars, flightVars, writerVars
<1>1. CASE AddBatchable
  BY <1>1 DEF AddBatchable, WriterInv, Poisoned, Submitted, Feeding, TypeOK
<1>2. CASE AddAlone
  BY <1>2 DEF AddAlone, WriterInv, Poisoned, Submitted, Feeding, TypeOK
<1>3. CASE AcquireBytes
  BY <1>3, SMTT(40) DEF AcquireBytes, WriterInv, Poisoned, Submitted, Feeding, TypeOK
<1>4. CASE AcquireCount
  BY <1>4, SMTT(40) DEF AcquireCount, WriterInv, Poisoned, Submitted, Feeding, TypeOK
<1>5. CASE SubmitTask
  <2>1. Feeding /\ ~Poisoned /\ queue # <<>> => Last(queue) # POISON
    BY <1>5 DEF SubmitTask, Feeding, WriterInv, Poisoned
  <2>2. ~Poisoned
    BY <1>5 DEF SubmitTask, Feeding, WriterInv
  <2>3. /\ task' = Append(task, Head(outbox)) /\ task \in Seq(Seq(Nat)) /\ current \in 0..Len(task)
        /\ archive' = archive /\ results' = results /\ wpc' = wpc /\ current' = current /\ failed' = failed
        /\ tail' = tail /\ queue' = queue /\ ppc' = "put" /\ ppc = "execute"
    BY <1>5 DEF SubmitTask, TypeOK
  <2>4. \A i \in 0..Len(task) : End(task', i, 0) = End(task, i, 0)
    BY <2>3 DEF End
  <2>5. current > 0 => current - 1 \in 0..Len(task)
    BY <2>3
  <2>6. Submitted <= Submitted' /\ Submitted \in Nat /\ Submitted' \in Nat
    BY <1>5, SubmitGrows
  <2>7. Len(archive) <= Submitted'
    BY <2>6 DEF WriterInv, TypeOK
  <2>8. ~Poisoned' /\ wpc \notin {"tail", "close"} /\ ~tail
    BY <2>2, <2>3 DEF Poisoned
  <2> QED BY <2>3, <2>4, <2>5, <2>7, <2>8 DEF WriterInv
<1>6. CASE PutItem
  <2>1. ~Poisoned /\ task # <<>>
    BY <1>6 DEF PutItem, Feeding, WriterInv, ProducerInv
  <2>2. queue' = Append(queue, Len(task)) /\ Last(queue') = Len(task) /\ Len(task) # POISON
    BY <1>6, <2>1 DEF PutItem, Last, TypeOK
  <2>3. ~Poisoned'
    BY <1>6, <2>1, <2>2 DEF PutItem, Poisoned
  <2>4. /\ archive' = archive /\ results' = results /\ wpc' = wpc /\ current' = current /\ failed' = failed
        /\ tail' = tail /\ task' = task /\ Submitted' = Submitted
    BY <1>6 DEF PutItem, Submitted
  <2> QED BY <2>3, <2>4 DEF WriterInv
<1>7. CASE BeginFinish
  BY <1>7 DEF BeginFinish, Idle, WriterInv, Poisoned, Submitted, Feeding, TypeOK
<1>8. CASE PutPoison
  <2>1. finishing /\ Submitted = Len(input)
    BY <1>8 DEF PutPoison, ProducerInv
  <2>2. /\ archive' = archive /\ results' = results /\ wpc' = wpc /\ current' = current /\ failed' = failed
        /\ tail' = tail /\ task' = task /\ Submitted' = Submitted /\ input' = input
        /\ finishing' = finishing /\ ~Feeding'
    BY <1>8 DEF PutPoison, Submitted, Feeding
  <2> QED BY <2>1, <2>2 DEF WriterInv
<1>9. CASE Join
  BY <1>9 DEF Join, WriterInv, Poisoned, Submitted, Feeding, TypeOK
<1>10. CASE FreeHandles
  BY <1>10 DEF FreeHandles, CallResult, WriterInv, Poisoned, Submitted, Feeding, TypeOK
<1>11. CASE WalkFails
  BY <1>11 DEF WalkFails, WriterInv, Poisoned, Submitted, Feeding, TypeOK
<1>12. CASE Interrupt
  BY <1>12 DEF Interrupt, WriterInv, Poisoned, Submitted, Feeding, TypeOK
<1>13. CASE OpenArchive
  BY <1>13 DEF OpenArchive, WriterInv, Poisoned, Submitted, Feeding, TypeOK
<1>14. CASE TakeItem
  <2>1. /\ wpc = "take" /\ queue # <<>> /\ queue \in Seq(0..Len(task)) /\ current \in Nat
        /\ task \in Seq(Seq(Nat)) /\ queue' = Tail(queue)
        /\ archive' = archive /\ results' = results /\ failed' = failed /\ tail' = tail /\ task' = task
        /\ ppc' = ppc /\ finishing' = finishing /\ input' = input
        /\ Submitted' = Submitted /\ (Feeding' <=> Feeding) /\ ~tail
    BY <1>14 DEF TakeItem, TypeOK, Submitted, Feeding, WriterInv
  <2>2. /\ Len(queue) > 0 /\ Head(queue) = queue[1] /\ Len(queue') = Len(queue) - 1
        /\ \A k \in 1..Len(queue') : queue'[k] = queue[k + 1]
    BY <2>1
  <2>3. CASE Head(queue) = POISON
    <3>1. Last(queue) = POISON /\ current = Len(task)
      BY <2>1, <2>3, QueueHead
    <3>2. Poisoned /\ current = Len(task)
      BY <2>1, <3>1 DEF Poisoned
    <3>3. wpc' = "tail" /\ current' = current
      BY <1>14, <2>3 DEF TakeItem
    <3>4. ~failed => Len(archive) = Submitted
      BY <2>1, <3>2 DEF WriterInv, Submitted
    <3> QED BY <2>1, <3>2, <3>3, <3>4 DEF WriterInv
  <2>4. CASE Head(queue) # POISON
    <3>1. current' = current + 1 /\ wpc' = "get" /\ current' - 1 = current
      <4>1. Head(queue) = current + 1
        BY <2>1, <2>4, QueueHead
      <4> QED BY <1>14, <2>1, <2>4, <4>1 DEF TakeItem
    <3>2. Poisoned' => Poisoned
      BY <2>1, <2>2, <3>1 DEF Poisoned, Last
    <3> QED BY <2>1, <3>1, <3>2 DEF WriterInv
  <2> QED BY <2>3, <2>4
<1>15. CASE GetResult
  <2>1. /\ wpc = "get" /\ current > 0 /\ current \in 1..Len(task) /\ task \in Seq(Seq(Nat)) /\ ~tail
        /\ archive' = archive /\ tail' = tail /\ task' = task /\ current' = current
        /\ queue' = queue /\ ppc' = ppc /\ finishing' = finishing /\ input' = input
        /\ Submitted' = Submitted /\ (Feeding' <=> Feeding)
    BY <1>15 DEF GetResult, Collect, TypeOK, Submitted, Feeding, WriterInv
  <2>2. \/ wpc' = "take" /\ failed'
        \/ wpc' = "write" /\ ~failed' /\ ~failed /\ results' = task[current]
    BY <1>15 DEF GetResult, Collect
  <2>3. Poisoned' => Poisoned
    BY <2>1, <2>2 DEF Poisoned
  <2>4. CASE wpc' = "take" /\ failed'
    BY <2>1, <2>3, <2>4 DEF WriterInv
  <2>5. CASE wpc' = "write" /\ ~failed' /\ ~failed /\ results' = task[current]
    <3>1. Len(archive) = End(task, current - 1, 0)
      BY <2>1, <2>5 DEF WriterInv
    <3>2. IsRun(task[current], End(task, current - 1, 0))
      BY <2>1 DEF ProducerInv, Chain
    <3>3. Last(task[current]) = End(task, current, 0)
      BY <2>1 DEF End
    <3> QED BY <2>1, <2>3, <2>5, <3>1, <3>2, <3>3 DEF WriterInv
  <2> QED BY <2>2, <2>4, <2>5
<1>16. CASE WriteEntry
  <2>1. /\ wpc = "write" /\ ~failed /\ current > 0 /\ current \in 1..Len(task) /\ ~tail
        /\ IsRun(results, Len(archive)) /\ Last(results) = End(task, current, 0)
        /\ results \in Seq(Nat) /\ archive \in Seq(Nat) /\ Len(archive) \in Nat
        /\ \A k \in 1..Len(archive) : archive[k] = k
    BY <1>16 DEF WriteEntry, TypeOK, WriterInv
  <2>2. /\ archive' = Append(archive, Head(results)) /\ results' = Tail(results)
        /\ wpc' = IF Tail(results) = <<>> THEN "take" ELSE "write"
        /\ failed' = failed /\ tail' = tail /\ task' = task /\ current' = current
        /\ queue' = queue /\ ppc' = ppc /\ finishing' = finishing /\ input' = input
        /\ Submitted' = Submitted /\ (Feeding' <=> Feeding)
    BY <1>16 DEF WriteEntry, Submitted, Feeding
  <2>3. Head(results) = Len(archive) + 1 /\ Len(results) > 0 /\ Last(results) = Len(archive) + Len(results)
    BY <2>1, RunLast DEF IsRun
  <2>4. Len(archive') = Len(archive) + 1 /\ \A k \in 1..Len(archive') : archive'[k] = k
    BY <2>1, <2>2, <2>3
  <2>5. Last(results) <= Submitted
    BY <2>1 DEF ProducerInv, End
  <2>6. Len(archive') <= Submitted /\ archive' # <<>>
    BY <2>1, <2>3, <2>4, <2>5, SubmittedTyped
  <2>7. CASE Tail(results) = <<>>
    <3>1. Len(results) = 1
      BY <2>1, <2>3, <2>7, TailEmpty
    <3>2. Len(archive') = End(task, current, 0)
      BY <2>1, <2>3, <2>4, <3>1
    <3> QED BY <2>1, <2>2, <2>4, <2>6, <2>7, <3>2 DEF WriterInv, Poisoned
  <2>8. CASE Tail(results) # <<>>
    <3>1. IsRun(results', Len(archive')) /\ Last(results') = Last(results)
      <4>1. /\ Len(results') = Len(results) - 1 /\ Len(results') > 0 /\ Len(results) \in Nat
            /\ \A j \in 1..Len(results') : results'[j] = results[j + 1]
        BY <2>1, <2>2, <2>8, SMTT(40)
      <4>2. ASSUME NEW j \in 1..Len(results')
            PROVE  results'[j] = Len(archive') + j
        <5>1. j + 1 \in 1..Len(results)
          BY <4>1
        <5>2. results[j + 1] = Len(archive) + (j + 1)
          BY <2>1, <5>1 DEF IsRun
        <5> QED BY <2>1, <2>4, <4>1, <5>2
      <4>3. results' # <<>>
        BY <2>2, <2>8
      <4> QED BY <4>1, <4>2, <4>3 DEF IsRun, Last
    <3> QED BY <2>1, <2>2, <2>4, <2>6, <2>8, <3>1 DEF WriterInv, Poisoned
  <2> QED BY <2>7, <2>8
<1>17. CASE WriteTail
  BY <1>17 DEF WriteTail, WriterInv, Poisoned, Submitted, Feeding, TypeOK
<1>18. CASE CloseArchive
  BY <1>18 DEF CloseArchive, WriterInv, Poisoned, Submitted, Feeding, TypeOK
<1>19. CASE WriterDies
  BY <1>19 DEF WriterDies, WriterInv, Poisoned, Submitted, Feeding, TypeOK
<1>20. ASSUME NEW w \in Workers, StartTask(w) PROVE WriterInv'
  BY <1>20, SMTT(40) DEF StartTask, FirstHandle, WriterInv, Poisoned, Submitted, Feeding, TypeOK
<1>21. ASSUME NEW w \in Workers, FinishTask(w) PROVE WriterInv'
  BY <1>21 DEF FinishTask, EndTask, WriterInv, Poisoned, Submitted, Feeding, TypeOK
<1>22. ASSUME NEW w \in Workers, FailTask(w) PROVE WriterInv'
  BY <1>22 DEF FailTask, EndTask, WriterInv, Poisoned, Submitted, Feeding, TypeOK
<1>23. CASE Terminated \/ UNCHANGED vars
  <2>1. UNCHANGED vars
    BY <1>23 DEF Terminated
  <2>2. /\ Submitted' = Submitted /\ (Feeding' <=> Feeding) /\ (Poisoned' <=> Poisoned)
    BY <2>1 DEF vars, Submitted, Feeding, Poisoned
  <2> QED BY <2>1, <2>2 DEF vars, WriterInv
<1> QED
  BY <1>1, <1>2, <1>3, <1>4, <1>5, <1>6, <1>7, <1>8, <1>9, <1>10, <1>11, <1>12, <1>13, <1>14, <1>15, <1>16, <1>17, <1>18, <1>19, <1>20, <1>21, <1>22, <1>23 DEF Next, ProducerStep, WorkerStep, WriterStep

LEMMA OutcomeStep ==
  ASSUME IInv, [Next]_vars
  PROVE  OutcomeInv'
<1> USE DEF IInv, producerVars, poolVars, flightVars, writerVars
<1>1. CASE AddBatchable
  BY <1>1 DEF AddBatchable, OutcomeInv, TypeOK
<1>2. CASE AddAlone
  BY <1>2 DEF AddAlone, OutcomeInv, TypeOK
<1>3. CASE AcquireBytes
  BY <1>3, SMTT(40) DEF AcquireBytes, OutcomeInv, TypeOK
<1>4. CASE AcquireCount
  BY <1>4, SMTT(40) DEF AcquireCount, OutcomeInv, TypeOK
<1>5. CASE SubmitTask
  BY <1>5, SMTT(40) DEF SubmitTask, OutcomeInv, TypeOK
<1>6. CASE PutItem
  BY <1>6, SMTT(40) DEF PutItem, Idle, OutcomeInv, TypeOK
<1>7. CASE BeginFinish
  BY <1>7 DEF BeginFinish, Idle, OutcomeInv, TypeOK
<1>8. CASE PutPoison
  BY <1>8, SMTT(40) DEF PutPoison, OutcomeInv, TypeOK
<1>9. CASE Join
  BY <1>9 DEF Join, OutcomeInv, TypeOK
<1>10. CASE FreeHandles
  BY <1>10 DEF FreeHandles, CallResult, OutcomeInv, TypeOK
<1>11. CASE WalkFails
  BY <1>11 DEF WalkFails, OutcomeInv, TypeOK
<1>12. CASE Interrupt
  BY <1>12 DEF Interrupt, OutcomeInv, TypeOK
<1>13. CASE OpenArchive
  BY <1>13 DEF OpenArchive, OutcomeInv, TypeOK
<1>14. CASE TakeItem
  BY <1>14, SMTT(40) DEF TakeItem, OutcomeInv, TypeOK
<1>15. CASE GetResult
  BY <1>15, SMTT(40) DEF GetResult, Collect, OutcomeInv, TypeOK
<1>16. CASE WriteEntry
  BY <1>16, SMTT(40) DEF WriteEntry, OutcomeInv, TypeOK
<1>17. CASE WriteTail
  BY <1>17 DEF WriteTail, OutcomeInv, TypeOK
<1>18. CASE CloseArchive
  BY <1>18 DEF CloseArchive, OutcomeInv, TypeOK
<1>19. CASE WriterDies
  BY <1>19 DEF WriterDies, OutcomeInv, TypeOK
<1>20. ASSUME NEW w \in Workers, StartTask(w) PROVE OutcomeInv'
  BY <1>20, SMTT(40) DEF StartTask, FirstHandle, OutcomeInv, TypeOK
<1>21. ASSUME NEW w \in Workers, FinishTask(w) PROVE OutcomeInv'
  BY <1>21 DEF FinishTask, EndTask, OutcomeInv, TypeOK
<1>22. ASSUME NEW w \in Workers, FailTask(w) PROVE OutcomeInv'
  BY <1>22 DEF FailTask, EndTask, OutcomeInv, TypeOK
<1>23. CASE Terminated \/ UNCHANGED vars
  BY <1>23 DEF Terminated, vars, OutcomeInv, TypeOK
<1> QED
  BY <1>1, <1>2, <1>3, <1>4, <1>5, <1>6, <1>7, <1>8, <1>9, <1>10, <1>11, <1>12, <1>13, <1>14, <1>15, <1>16, <1>17, <1>18, <1>19, <1>20, <1>21, <1>22, <1>23 DEF Next, ProducerStep, WorkerStep, WriterStep

LEMMA PoolStep ==
  ASSUME IInv, [Next]_vars
  PROVE  PoolInv'
<1> USE DEF IInv, producerVars, poolVars, flightVars, writerVars
<1>1. CASE AddBatchable
  BY <1>1 DEF AddBatchable, PoolInv, Uneventful, Feeding, TypeOK
<1>2. CASE AddAlone
  BY <1>2 DEF AddAlone, PoolInv, Uneventful, Feeding, TypeOK
<1>3. CASE AcquireBytes
  BY <1>3, SMTT(40) DEF AcquireBytes, PoolInv, Uneventful, Feeding, TypeOK
<1>4. CASE AcquireCount
  BY <1>4, SMTT(40) DEF AcquireCount, PoolInv, Uneventful, Feeding, TypeOK
<1>5. CASE SubmitTask
  BY <1>5, SMTT(40) DEF SubmitTask, PoolInv, Uneventful, Feeding, TypeOK
<1>6. CASE PutItem
  BY <1>6, SMTT(40) DEF PutItem, Idle, PoolInv, Uneventful, Feeding, TypeOK
<1>7. CASE BeginFinish
  BY <1>7 DEF BeginFinish, Idle, PoolInv, Uneventful, Feeding, TypeOK
<1>8. CASE PutPoison
  BY <1>8, SMTT(40) DEF PutPoison, PoolInv, Uneventful, Feeding, TypeOK
<1>9. CASE Join
  BY <1>9 DEF Join, PoolInv, Uneventful, Feeding, TypeOK
<1>10. CASE FreeHandles
  <2>1. ppc = "free" /\ (interrupted \/ wpc = "ended")
    BY <1>10 DEF FreeHandles, OutcomeInv
  <2>2. /\ worker' = worker /\ future' = future /\ task' = task /\ current' = current /\ wpc' = wpc
        /\ interrupted' = interrupted /\ ppc' \in {"thrown", "returned"} /\ ~Feeding'
    BY <1>10 DEF FreeHandles, CallResult, Feeding
  <2>3. Uneventful => wpc = "ended"
    BY <2>1 DEF PoolInv
  <2> QED BY <2>2, <2>3 DEF PoolInv, Uneventful
<1>11. CASE WalkFails
  BY <1>11 DEF WalkFails, PoolInv, Uneventful, Feeding, TypeOK
<1>12. CASE Interrupt
  BY <1>12 DEF Interrupt, PoolInv, Uneventful, Feeding, TypeOK
<1>13. CASE OpenArchive
  BY <1>13 DEF OpenArchive, PoolInv, Uneventful, Feeding, TypeOK
<1>14. CASE TakeItem
  <2>1. /\ wpc = "take" /\ wpc' \in {"get", "tail"} /\ (wpc' = "tail" => current' = current)
        /\ wpc' = "get" => current' = current + 1
    <3>1. queue # <<>> /\ wpc = "take"
      BY <1>14 DEF TakeItem
    <3> QED BY <1>14, <3>1, QueueHead DEF TakeItem
  <2>2. /\ worker' = worker /\ future' = future /\ task' = task /\ handle' = handle
        /\ interrupted' = interrupted
    BY <1>14 DEF TakeItem
  <2>3. current \in Nat
    BY DEF TypeOK
  <2>4. ASSUME NEW i \in 1..Len(task), i < current' \/ (i = current' /\ wpc' # "get")
        PROVE  future[i] \in {"done", "failed"}
    <3>1. i < current \/ (i = current /\ wpc # "get")
      BY <2>1, <2>3, <2>4
    <3> QED BY <3>1 DEF PoolInv
  <2> QED BY <2>1, <2>2, <2>4 DEF PoolInv, Uneventful
<1>15. CASE GetResult
  BY <1>15, SMTT(40) DEF GetResult, Collect, PoolInv, Uneventful, Feeding, TypeOK
<1>16. CASE WriteEntry
  BY <1>16, SMTT(40) DEF WriteEntry, PoolInv, Uneventful, Feeding, TypeOK
<1>17. CASE WriteTail
  BY <1>17 DEF WriteTail, PoolInv, Uneventful, Feeding, TypeOK
<1>18. CASE CloseArchive
  <2>1. wpc = "close" /\ wpc' = "ended" /\ current = Len(task) /\ ~Feeding
    BY <1>18 DEF CloseArchive, WriterInv, Poisoned
  <2>2. /\ worker' = worker /\ future' = future /\ task' = task /\ handle' = handle
        /\ interrupted' = interrupted /\ current' = current /\ ~Feeding'
    BY <1>18, <2>1 DEF CloseArchive, Feeding
  <2> QED BY <2>1, <2>2 DEF PoolInv, Uneventful
<1>19. CASE WriterDies
  BY <1>19 DEF WriterDies, PoolInv, Uneventful, Feeding, TypeOK
<1>20. ASSUME NEW w \in Workers, StartTask(w) PROVE PoolInv'
  <2>1. PICK i \in 1..Len(task) :
          /\ future[i] = "queued" /\ worker[w] = 0
          /\ future' = [future EXCEPT ![i] = "running"]
          /\ worker' = [worker EXCEPT ![w] = i]
    BY <1>20 DEF StartTask
  <2>2. /\ task' = task /\ current' = current /\ wpc' = wpc /\ interrupted' = interrupted
        /\ Feeding' <=> Feeding
    BY <1>20 DEF StartTask, Feeding
  <2>3. /\ worker \in [Workers -> 0..Len(task)] /\ i > 0
        /\ future \in Seq({"queued", "running", "done", "failed"}) /\ Len(future) = Len(task)
    BY DEF TypeOK
  <2>4. \A v \in Workers : worker[v] # i
    BY <2>1, <2>3 DEF PoolInv
  <2>5. /\ \A v \in Workers : worker'[v] = (IF v = w THEN i ELSE worker[v])
        /\ \A k \in 1..Len(task) : future'[k] = (IF k = i THEN "running" ELSE future[k])
    BY <2>1, <2>3
  <2>6. \A v \in Workers : worker'[v] # 0 => future'[worker'[v]] = "running"
    BY <2>3, <2>4, <2>5 DEF PoolInv
  <2>7. \A u, v \in Workers : worker'[u] = worker'[v] /\ worker'[u] # 0 => u = v
    BY <2>3, <2>4, <2>5 DEF PoolInv
  <2>8. \A k \in 1..Len(task) :
           k < current \/ (k = current /\ wpc # "get") => future'[k] \in {"done", "failed"}
    BY <2>1, <2>5 DEF PoolInv
  <2>9. (\E v \in Workers : handle'[v] = "freed") => (\E v \in Workers : handle[v] = "freed")
    BY <1>20 DEF StartTask, FirstHandle, TypeOK
  <2> QED BY <2>2, <2>6, <2>7, <2>8, <2>9 DEF PoolInv, Uneventful
<1>21. ASSUME NEW w \in Workers, FinishTask(w) PROVE PoolInv'
  <2>1. EndTask(w, "done")
    BY <1>21 DEF FinishTask
  <2> QED BY <2>1, EndTaskPool
<1>22. ASSUME NEW w \in Workers, FailTask(w) PROVE PoolInv'
  <2>1. EndTask(w, "failed")
    BY <1>22 DEF FailTask
  <2> QED BY <2>1, EndTaskPool
<1>23. CASE Terminated \/ UNCHANGED vars
  <2>1. UNCHANGED vars
    BY <1>23 DEF Terminated
  <2>2. Feeding' <=> Feeding
    BY <2>1 DEF vars, Feeding
  <2> QED BY <2>1, <2>2 DEF vars, PoolInv, Uneventful
<1> QED
  BY <1>1, <1>2, <1>3, <1>4, <1>5, <1>6, <1>7, <1>8, <1>9, <1>10, <1>11, <1>12, <1>13, <1>14, <1>15, <1>16, <1>17, <1>18, <1>19, <1>20, <1>21, <1>22, <1>23 DEF Next, ProducerStep, WorkerStep, WriterStep

-----------------------------------------------------------------------------
LEMMA InitInv == Init => IInv
<1> SUFFICES ASSUME Init PROVE IInv
  OBVIOUS
<1> USE DEF Init
<1>1. /\ fed \in 0..Len(input) /\ Len(input) \in Nat
  <2>1. input \in Seq(Entry)
    BY InputsAssumption
  <2> QED BY <2>1
<1>2. TypeOK
  <2>1. /\ <<>> \in Seq(Nat) /\ <<>> \in Seq(Seq(Nat)) /\ Len(<<>>) = 0
        /\ <<>> \in Seq({"queued", "running", "done", "failed"}) /\ <<>> \in Seq(0..0)
    OBVIOUS
  <2>2. worker \in [Workers -> 0..0] /\ handle \in [Workers -> {"none", "null", "live", "freed"}]
    OBVIOUS
  <2>3. Len(task) = 0 /\ 0 \in 0..Len(task)
    BY <2>1
  <2>4. /\ future \in Seq({"queued", "running", "done", "failed"}) /\ Len(future) = Len(task)
        /\ worker \in [Workers -> 0..Len(task)] /\ queue \in Seq(0..Len(task)) /\ current \in 0..Len(task)
    BY <2>1, <2>2, <2>3
  <2>5. /\ pendingBatch \in Seq(Nat) /\ outbox \in Seq(Seq(Nat)) /\ task \in Seq(Seq(Nat))
        /\ results \in Seq(Nat) /\ archive \in Seq(Nat)
    BY <2>1
  <2>6. byteFlight \in Nat /\ countFlight \in Nat /\ pendingBatchBytes \in Nat
    BY BudgetTyped, FlightTyped
  <2> QED BY <1>1, <2>2, <2>4, <2>5, <2>6 DEF TypeOK
<1>3. Submitted = 0
  BY DEF Submitted, End
<1>4. Chain(task, 0, Submitted) /\ Chain(Flushed(pendingBatch), Submitted, fed)
  BY <1>3, ChainEmpty DEF Flushed
<1>5. ProducerInv
  BY <1>1, <1>3, <1>4 DEF ProducerInv, Feeding
<1>6. QueueInv
  BY DEF QueueInv, Feeding
<1>7. FlightInv
  BY FlightTyped DEF FlightInv, Feeding
<1>8. WriterInv
  BY <1>3 DEF WriterInv, Poisoned, End
<1>9. OutcomeInv
  BY DEF OutcomeInv
<1>10. PoolInv
  BY DEF PoolInv, Uneventful, Feeding
<1> QED BY <1>2, <1>5, <1>6, <1>7, <1>8, <1>9, <1>10 DEF IInv

LEMMA NextInv == IInv /\ [Next]_vars => IInv'
BY TypeStep, ProducerStepInv, QueueStep, FlightStep, WriterStepInv, OutcomeStep, PoolStep DEF IInv

(* The invariant holds in every state of every instance.                     *)
THEOREM Invariance == Spec => []IInv
BY InitInv, NextInv, PTL DEF Spec

(* Every variable keeps its type: no permit count ever goes below zero.      *)
THEOREM TypeCorrect == Spec => []TypeOK
<1>1. IInv => TypeOK
  BY DEF IInv
<1> QED BY <1>1, Invariance, PTL

(* The archive is a prefix of the input list in its order, whatever the      *)
(* number of threads, the interleaving and the faults.                       *)
THEOREM InOrder == Spec => []ArchiveInOrder
<1>1. IInv => ArchiveInOrder
  <2> SUFFICES ASSUME IInv PROVE ArchiveInOrder
    OBVIOUS
  <2>1. /\ Len(archive) <= Submitted /\ Submitted <= Len(input) /\ Submitted \in Nat
        /\ Len(archive) \in Nat /\ Len(input) \in Nat
    BY SubmittedTyped, InputTyped DEF IInv, TypeOK, WriterInv, ProducerInv
  <2> QED BY <2>1 DEF IInv, WriterInv, ArchiveInOrder
<1> QED BY <1>1, Invariance, PTL

(* The queue of the writer never makes the producer wait.                    *)
THEOREM QueueHasRoom == Spec => []PutNeverBlocks
<1>1. IInv => PutNeverBlocks
  <2> SUFFICES ASSUME IInv, ppc \in {"put", "poison"} PROVE Len(queue) < QueueCapacity
    BY DEF PutNeverBlocks
  <2>1. Len(queue) \in Nat /\ countFlight \in Nat
    BY DEF IInv, TypeOK
  <2>2. Len(queue) <= FlightPermits
    BY <2>1, FlightTyped DEF IInv, FlightInv, Feeding
  <2>3. QueueCapacity = FlightPermits + 1
    BY DEF QueueCapacity, FlightPermits
  <2> QED BY <2>1, <2>2, <2>3, FlightTyped
<1> QED BY <1>1, Invariance, PTL

(* Without Errors in the writer thread, a call that returns normally leaves  *)
(* a complete archive: I/O errors, failing units and interrupts all surface. *)
LEMMA CompleteInv ==
  ASSUME "error" \notin Faults, IInv
  PROVE  SuccessIsComplete
<1> SUFFICES ASSUME ppc = "returned"
             PROVE  tail /\ archive = [k \in 1..Len(input) |-> k]
  BY DEF SuccessIsComplete
<1>1. wpc = "ended" /\ ~writerError
  BY DEF IInv, OutcomeInv
<1>2. tail
  BY <1>1 DEF IInv, OutcomeInv
<1>3. Len(archive) = Len(input)
  BY <1>2 DEF IInv, WriterInv, Poisoned
<1>4. archive \in Seq(Nat) /\ \A k \in 1..Len(archive) : archive[k] = k
  BY DEF IInv, TypeOK, WriterInv
<1> QED BY <1>2, <1>3, <1>4

THEOREM ReturnsComplete ==
  ASSUME "error" \notin Faults
  PROVE  Spec => []SuccessIsComplete
<1>1. IInv => SuccessIsComplete
  BY CompleteInv
<1> QED BY <1>1, Invariance, PTL

(* Without I/O errors, Errors and interrupts no unit runs on a compressor    *)
(* that finish() has freed.                                                  *)
THEOREM HandlesSafe ==
  ASSUME Uneventful
  PROVE  Spec => []HandleNotFreedInUse
<1>1. IInv => HandleNotFreedInUse
  <2> SUFFICES ASSUME IInv, NEW w \in Workers, worker[w] # 0, handle[w] = "freed"
               PROVE  FALSE
    BY DEF HandleNotFreedInUse
  <2>1. worker[w] \in 1..Len(task) /\ Len(task) \in Nat
    BY DEF IInv, TypeOK
  <2>2. wpc = "ended" /\ current = Len(task)
    BY DEF IInv, PoolInv
  <2>3. future[worker[w]] \in {"done", "failed"}
    BY <2>1, <2>2 DEF IInv, PoolInv
  <2>4. future[worker[w]] = "running"
    BY DEF IInv, PoolInv
  <2> QED BY <2>3, <2>4
<1> QED BY <1>1, Invariance, PTL

(* Once a unit has failed, no step extends the archive or completes it.      *)
THEOREM FailureStops == Spec => FailureStopsArchive
<1>1. IInv /\ [Next]_vars => [failed => UNCHANGED archive /\ ~tail']_vars
  <2> SUFFICES ASSUME IInv, [Next]_vars, failed
               PROVE  archive' = archive /\ tail' = FALSE
    OBVIOUS
  <2> USE DEF producerVars, poolVars, flightVars, writerVars
  <2>1. wpc # "write" /\ tail = FALSE /\ failed = TRUE
    BY DEF IInv, TypeOK, WriterInv
  <2>2. CASE ProducerStep
    BY <2>1, <2>2 DEF ProducerStep, AddBatchable, AddAlone, AcquireBytes, AcquireCount, SubmitTask,
      PutItem, BeginFinish, PutPoison, Join, FreeHandles
  <2>3. CASE WalkFails \/ Interrupt \/ Terminated \/ UNCHANGED vars
    BY <2>1, <2>3 DEF WalkFails, Interrupt, Terminated, vars
  <2>4. ASSUME NEW w \in Workers, WorkerStep(w)
        PROVE  archive' = archive /\ tail' = FALSE
    BY <2>1, <2>4 DEF WorkerStep, StartTask, FinishTask, FailTask, EndTask
  <2>5. CASE WriterStep
    BY <2>1, <2>5 DEF WriterStep, OpenArchive, TakeItem, GetResult, Collect, WriteEntry, WriteTail,
      CloseArchive, WriterDies
  <2> QED BY <2>2, <2>3, <2>4, <2>5 DEF Next
<1> QED BY <1>1, Invariance, PTL DEF Spec, FailureStopsArchive

-----------------------------------------------------------------------------
(* Running totals.                                                           *)

LEMMA TotalsFacts ==
  ASSUME NEW n \in Nat, NEW w \in [1..n -> Int]
  PROVE  /\ Totals(w, n) \in [0..n -> Int] /\ Totals(w, n)[0] = 0
         /\ \A k \in 1..n : Totals(w, n)[k] = Totals(w, n)[k - 1] + w[k]
<1> DEFINE step == [k \in 1..n |-> [v \in Int |-> v + w[k]]]
<1> DEFINE Rec(g) == [k \in 0..n |-> IF k = 0 THEN 0 ELSE g[k - 1] + w[k]]
<1>1. step \in [1..n -> [Int -> Int]]
  OBVIOUS
<1>2. PICK f \in [0..n -> Int] : f[0] = 0 /\ \A k \in 1..n : f[k] = step[k][f[k - 1]]
  <2> HIDE DEF step
  <2>1. 0 \in Int
    OBVIOUS
  <2>2. PICK f \in [0..n -> Int] : Follows(f, n, 0, step)
    BY <1>1, <2>1, Recursion
  <2> QED BY <2>2 DEF Follows
<1>3. ASSUME NEW k \in 1..n PROVE f[k] = f[k - 1] + w[k]
  <2>1. k - 1 \in 0..n /\ f[k - 1] \in Int
    OBVIOUS
  <2>2. step[k][f[k - 1]] = f[k - 1] + w[k]
    BY <2>1
  <2> QED BY <1>2, <2>2
<1>4. f = Rec(f)
  <2>1. ASSUME NEW k \in 0..n PROVE f[k] = Rec(f)[k]
    <3>1. CASE k = 0
      BY <1>2, <3>1
    <3>2. CASE k # 0
      <4>1. k \in 1..n
        BY <3>2
      <4> QED BY <1>3, <3>2, <4>1
    <3> QED BY <3>1, <3>2
  <2>2. Rec(f) = [k \in 0..n |-> Rec(f)[k]]
    OBVIOUS
  <2> HIDE DEF Rec
  <2> QED BY <2>1, <2>2
<1> DEFINE t == Totals(w, n)
<1>5. t = Rec(t)
  <2>1. t = CHOOSE g : g = Rec(g)
    BY DEF Totals
  <2> HIDE DEF Rec, t
  <2> QED BY <1>4, <2>1
<1> HIDE DEF t
<1>6. t[0] = 0
  BY <1>5
<1>7. ASSUME NEW k \in 1..n PROVE t[k] = t[k - 1] + w[k]
  <2>1. k \in 0..n /\ k # 0
    OBVIOUS
  <2>2. t[k] = Rec(t)[k]
    <3> HIDE DEF Rec
    <3> QED BY <1>5
  <2>3. Rec(t)[k] = t[k - 1] + w[k]
    BY <2>1
  <2> QED BY <2>2, <2>3
<1>8. \A k \in 0..n : t[k] \in Int
  <2> DEFINE S == {k \in 0..n : t[k] \in Int}
  <2>1. 0 \in S
    BY <1>6
  <2>2. \A k \in 0..(n - 1) : k \in S => k + 1 \in S
    <3> SUFFICES ASSUME NEW k \in 0..(n - 1), t[k] \in Int PROVE t[k + 1] \in Int
      OBVIOUS
    <3>1. PICK j \in 1..n : j = k + 1
      OBVIOUS
    <3>2. w[j] \in Int /\ t[j] = t[j - 1] + w[j] /\ j - 1 = k
      BY <1>7, <3>1
    <3> QED BY <3>1, <3>2
  <2>3. \A k \in 0..n : k \in S
    <3> HIDE DEF S
    <3> QED BY <2>1, <2>2, UpTo
  <2> QED BY <2>3
<1>9. t \in [0..n -> Int]
  <2>1. t = [k \in 0..n |-> Rec(t)[k]]
    BY <1>5
  <2>2. \A k \in 0..n : Rec(t)[k] \in Int
    <3> HIDE DEF Rec
    <3> QED BY <1>5, <1>8
  <2> HIDE DEF Rec
  <2> QED BY <2>1, <2>2
<1> QED BY <1>6, <1>7, <1>9 DEF t

(* Totals that grow by the same weights behind some point differ by what     *)
(* they are at that point.                                                   *)
LEMMA TotalsShift ==
  ASSUME NEW n \in Nat, NEW w \in [1..n -> Int], NEW m \in Nat, NEW v \in [1..m -> Int],
         NEW c \in 0..n, n <= m, \A k \in 1..n : k <= c => v[k] = 0,
         \A k \in 1..n : k > c => v[k] = w[k]
  PROVE  \A k \in 0..n : Totals(v, m)[k] =
                           IF k <= c THEN 0 ELSE Totals(w, n)[k] - Totals(w, n)[c]
<1> PICK f : f = Totals(w, n)
  OBVIOUS
<1> PICK g : g = Totals(v, m)
  OBVIOUS
<1>1. /\ f \in [0..n -> Int] /\ f[0] = 0
      /\ \A k \in 1..n : f[k] = f[k - 1] + w[k]
  BY TotalsFacts
<1>2. /\ g \in [0..m -> Int] /\ g[0] = 0
      /\ \A k \in 1..m : g[k] = g[k - 1] + v[k]
  BY TotalsFacts
<1> DEFINE S == {k \in 0..n : g[k] = IF k <= c THEN 0 ELSE f[k] - f[c]}
<1>3. 0 \in S
  BY <1>2
<1>4. \A k \in 0..(n - 1) : k \in S => k + 1 \in S
  <2> SUFFICES ASSUME NEW k \in 0..(n - 1), g[k] = IF k <= c THEN 0 ELSE f[k] - f[c]
               PROVE  g[k + 1] = IF k + 1 <= c THEN 0 ELSE f[k + 1] - f[c]
    BY SMTT(40)
  <2>1. PICK j \in 1..n : j = k + 1 /\ j \in 1..m /\ j - 1 = k /\ j \in 0..n
    OBVIOUS
  <2>2. g[j] = g[k] + v[j] /\ f[j] = f[k] + w[j]
    BY <1>1, <1>2, <2>1
  <2>3. w[j] \in Int /\ f[k] \in Int /\ f[c] \in Int /\ g[k] \in Int
    <3>1. k \in 0..n /\ k \in 0..m
      OBVIOUS
    <3> QED BY <1>1, <1>2, <2>1, <3>1
  <2>4. CASE j <= c
    <3>1. v[j] = 0 /\ k <= c
      BY <2>1, <2>4
    <3> QED BY <2>1, <2>2, <2>4, <3>1
  <2>5. CASE j = c + 1
    <3>1. k = c /\ v[j] = w[j]
      BY <2>1, <2>5
    <3> QED BY <2>1, <2>2, <2>3, <2>5, <3>1
  <2>6. CASE j > c + 1
    <3>1. ~(k <= c) /\ v[j] = w[j] /\ ~(j <= c)
      BY <2>1, <2>6
    <3> QED BY <2>1, <2>2, <2>3, <3>1
  <2> QED BY <2>1, <2>4, <2>5, <2>6
<1>5. \A k \in 0..n : k \in S
  <2> HIDE DEF S
  <2> QED BY <1>3, <1>4, UpTo
<1> QED BY <1>5

LEMMA TotalsAgree ==
  ASSUME NEW n \in Nat, NEW w \in [1..n -> Int], NEW m \in Nat, NEW v \in [1..m -> Int],
         n <= m, \A k \in 1..n : v[k] = w[k]
  PROVE  \A k \in 0..n : Totals(v, m)[k] = Totals(w, n)[k]
<1>1. 0 \in 0..n
  OBVIOUS
<1>2. \A k \in 0..n : Totals(v, m)[k] =
                        IF k <= 0 THEN 0 ELSE Totals(w, n)[k] - Totals(w, n)[0]
  <2>1. /\ \A k \in 1..n : k <= 0 => v[k] = 0
        /\ \A k \in 1..n : k > 0 => v[k] = w[k]
    OBVIOUS
  <2> QED BY <1>1, <2>1, TotalsShift, ZenonT(40)
<1>3. Totals(w, n)[0] = 0 /\ Totals(w, n) \in [0..n -> Int]
  BY TotalsFacts
<1> PICK f : f = Totals(w, n)
  OBVIOUS
<1> QED BY <1>2, <1>3

(* the weights behind position c                                             *)
Masked(v, w, c, n) ==
  (\A k \in 1..n : k <= c => v[k] = 0) /\ (\A k \in 1..n : k > c => v[k] = w[k])

LEMMA MaskedTotal ==
  ASSUME NEW n \in Nat, NEW w \in [1..n -> Int], NEW v \in [1..n -> Int], NEW c \in 0..n,
         Masked(v, w, c, n)
  PROVE  Totals(v, n)[n] = IF n <= c THEN 0 ELSE Totals(w, n)[n] - Totals(w, n)[c]
<1>1. n <= n /\ n \in 0..n
  OBVIOUS
<1>2. \A k \in 0..n : Totals(v, n)[k] = IF k <= c THEN 0 ELSE Totals(w, n)[k] - Totals(w, n)[c]
  BY <1>1, TotalsShift, ZenonT(40) DEF Masked
<1> QED BY <1>1, <1>2

-----------------------------------------------------------------------------
(* The permits of the units.                                                 *)
Permits == [i \in 1..Len(task) |-> PermitsForBatch(task[i])]
Spent == Totals(Permits, Len(task))

(* how many units the writer has collected                                   *)
Collected == IF wpc = "get" THEN current - 1 ELSE current

LEMMA PermitsKept ==
  ASSUME input' = input, NEW CONSTANT u
  PROVE  PermitsForBatch(u)' = PermitsForBatch(u)
BY DEF PermitsForBatch, PermitsFor, BatchBytes, IsInMemory, IsMapped

Acquiring == IF ppc \in {"acquireCount", "execute"} THEN PermitsForBatch(Head(outbox)) ELSE 0
PoisonLast == queue # <<>> /\ Last(queue) = POISON

(* Until an interrupt every unit is in the queue until the writer takes it,  *)
(* and what is out are the permits of the units behind the writer.           *)
PermitsInv ==
  ~interrupted =>
    /\ ~PoisonLast => current + Len(queue) = IF ppc = "put" THEN Len(task) - 1 ELSE Len(task)
    /\ byteFlight + (Spent[Len(task)] - Spent[Collected]) + Acquiring = BudgetMiB
    /\ countFlight + (Len(task) - Collected) + (IF ppc = "execute" THEN 1 ELSE 0) = FlightPermits

LEMMA SpentFacts ==
  ASSUME TypeOK
  PROVE  /\ Permits \in [1..Len(task) -> Int]
         /\ Spent \in [0..Len(task) -> Int] /\ Spent[0] = 0
         /\ \A k \in 1..Len(task) : Spent[k] = Spent[k - 1] + Permits[k]
<1>1. Len(task) \in Nat
  BY DEF TypeOK
<1>2. Permits \in [1..Len(task) -> Int]
  <2>1. ASSUME NEW i \in 1..Len(task) PROVE PermitsForBatch(task[i]) \in Int
    <3>1. PermitsForBatch(task[i]) \in 0..BudgetMiB
      BY PermitsBounded
    <3> QED BY <3>1, BudgetTyped
  <2> QED BY <2>1 DEF Permits
<1> QED BY <1>1, <1>2, TotalsFacts DEF Spent

LEMMA SpentKept ==
  ASSUME input' = input, task' = task
  PROVE  Permits' = Permits /\ Spent' = Spent
<1>1. Permits' = Permits
  <2>1. ASSUME NEW CONSTANT i PROVE PermitsForBatch(task[i])' = PermitsForBatch(task[i])
    BY DEF PermitsForBatch, PermitsFor, BatchBytes, IsInMemory, IsMapped
  <2> QED BY <2>1 DEF Permits
<1> QED BY <1>1 DEF Spent, Totals

LEMMA CollectedTyped ==
  ASSUME IInv
  PROVE  Collected \in 0..Len(task) /\ Collected \in Nat
BY DEF IInv, TypeOK, WriterInv, Collected

LEMMA PermitsFrame ==
  ASSUME PermitsInv, UNCHANGED <<input, task, queue, current, byteFlight, countFlight, interrupted>>,
         Collected' = Collected, Acquiring' = Acquiring,
         ppc' = "put" <=> ppc = "put", ppc' = "execute" <=> ppc = "execute"
  PROVE  PermitsInv'
<1>1. Spent' = Spent /\ PoisonLast' = PoisonLast
  BY SpentKept DEF PoisonLast, Last
<1> QED BY <1>1 DEF PermitsInv

LEMMA PermitsStep ==
  ASSUME IInv, PermitsInv, [Next]_vars
  PROVE  PermitsInv'
<1> USE DEF producerVars, poolVars, flightVars, writerVars
<1>1. CASE AddBatchable
  <2>1. /\ ppc = "walk" /\ ppc' \in {"walk", "acquireBytes"} /\ wpc' = wpc
        /\ UNCHANGED <<input, task, queue, current, byteFlight, countFlight, interrupted>>
    BY <1>1 DEF AddBatchable
  <2> QED BY <2>1, PermitsFrame DEF Collected, Acquiring
<1>2. CASE AddAlone
  <2>1. /\ ppc = "walk" /\ ppc' = "acquireBytes" /\ wpc' = wpc
        /\ UNCHANGED <<input, task, queue, current, byteFlight, countFlight, interrupted>>
    BY <1>2 DEF AddAlone
  <2> QED BY <2>1, PermitsFrame DEF Collected, Acquiring
<1>3. CASE BeginFinish \/ Join \/ FreeHandles \/ WalkFails
  <2>1. /\ ppc \in {"walk", "join", "free"}
        /\ ppc' \in {"acquireBytes", "poison", "free", "thrown", "returned"} /\ wpc' = wpc
        /\ UNCHANGED <<input, task, queue, current, byteFlight, countFlight, interrupted>>
    BY <1>3 DEF BeginFinish, Idle, Join, FreeHandles, CallResult, WalkFails
  <2> QED BY <2>1, PermitsFrame DEF Collected, Acquiring
<1>4. CASE OpenArchive \/ WriteEntry \/ WriteTail \/ CloseArchive \/ WriterDies
  <2>1. /\ wpc # "get" /\ wpc' # "get" /\ ppc' = ppc /\ outbox' = outbox
        /\ UNCHANGED <<input, task, queue, current, byteFlight, countFlight, interrupted>>
    BY <1>4 DEF OpenArchive, WriteEntry, WriteTail, CloseArchive, WriterDies
  <2>2. PermitsForBatch(Head(outbox))' = PermitsForBatch(Head(outbox))
    BY <2>1 DEF PermitsForBatch, PermitsFor, BatchBytes, IsInMemory, IsMapped
  <2> QED BY <2>1, <2>2, PermitsFrame DEF Collected, Acquiring
<1>5. CASE (\E w \in Workers : WorkerStep(w)) \/ Terminated \/ UNCHANGED vars
  <2>1. /\ wpc' = wpc /\ ppc' = ppc /\ outbox' = outbox
        /\ UNCHANGED <<input, task, queue, current, byteFlight, countFlight, interrupted>>
    BY <1>5 DEF WorkerStep, StartTask, FinishTask, FailTask, EndTask, Terminated, vars
  <2>2. PermitsForBatch(Head(outbox))' = PermitsForBatch(Head(outbox))
    BY <2>1 DEF PermitsForBatch, PermitsFor, BatchBytes, IsInMemory, IsMapped
  <2> QED BY <2>1, <2>2, PermitsFrame DEF Collected, Acquiring
<1>6. CASE Interrupt
  BY <1>6 DEF Interrupt, PermitsInv
<1>7. CASE PutPoison
  <2>1. /\ ppc = "poison" /\ ppc' = "join" /\ wpc' = wpc /\ queue' = Append(queue, POISON)
        /\ UNCHANGED <<input, task, current, byteFlight, countFlight, interrupted>>
    BY <1>7 DEF PutPoison
  <2>2. PoisonLast'
    <3>1. queue \in Seq(0..Len(task)) /\ POISON \in 0..Len(task)
      <4>1. queue \in Seq(0..Len(task)) /\ Len(task) \in Nat
        BY DEF IInv, TypeOK
      <4> QED BY <4>1
    <3>2. Len(queue') = Len(queue) + 1 /\ Len(queue) \in Nat
      BY <2>1, <3>1
    <3>3. queue'[Len(queue) + 1] = POISON
      BY <2>1, <3>1
    <3>4. queue' # <<>>
      BY <3>2
    <3> QED BY <3>2, <3>3, <3>4 DEF PoisonLast, Last
  <2>3. Spent' = Spent /\ Collected' = Collected
    BY <2>1, SpentKept DEF Collected
  <2> QED BY <2>1, <2>2, <2>3 DEF PermitsInv, Acquiring
<1>8. CASE AcquireBytes
  <2>1. /\ ppc = "acquireBytes" /\ ppc' = "acquireCount" /\ wpc' = wpc /\ outbox' = outbox
        /\ byteFlight' = byteFlight - PermitsForBatch(Head(outbox))
        /\ UNCHANGED <<input, task, queue, current, countFlight, interrupted>>
    BY <1>8 DEF AcquireBytes
  <2>2. PermitsForBatch(Head(outbox))' = PermitsForBatch(Head(outbox))
    BY <2>1 DEF PermitsForBatch, PermitsFor, BatchBytes, IsInMemory, IsMapped
  <2>3. Spent' = Spent /\ Collected' = Collected /\ PoisonLast' = PoisonLast
    BY <2>1, SpentKept DEF Collected, PoisonLast, Last
  <2>4. Acquiring = 0 /\ Acquiring' = PermitsForBatch(Head(outbox))
    BY <2>1, <2>2 DEF Acquiring
  <2> DEFINE x == Spent[Len(task)] - Spent[Collected]
  <2> DEFINE a == PermitsForBatch(Head(outbox))
  <2>5. byteFlight \in Int /\ x \in Int /\ a \in Int
    <3>1. Len(task) \in 0..Len(task)
      BY DEF IInv, TypeOK
    <3>2. a \in 0..BudgetMiB
      BY PermitsBounded
    <3>3. Spent[Len(task)] \in Int /\ Spent[Collected] \in Int
      BY <3>1, SpentFacts, CollectedTyped DEF IInv
    <3> QED BY <3>2, <3>3, BudgetTyped, SMTT(40) DEF IInv, TypeOK
  <2>6. ~interrupted => byteFlight + x + 0 = BudgetMiB
    BY <2>4 DEF PermitsInv
  <2>7. ~interrupted => byteFlight' + x + a = BudgetMiB
    <3> HIDE DEF x, a
    <3>1. byteFlight' = byteFlight - a
      BY <2>1 DEF a
    <3> QED BY <2>5, <2>6, <3>1
  <2> QED BY <2>1, <2>3, <2>4, <2>7 DEF PermitsInv
<1>9. CASE AcquireCount
  <2>1. /\ ppc = "acquireCount" /\ ppc' = "execute" /\ wpc' = wpc /\ outbox' = outbox
        /\ countFlight' = countFlight - 1
        /\ UNCHANGED <<input, task, queue, current, byteFlight, interrupted>>
    BY <1>9 DEF AcquireCount
  <2>2. PermitsForBatch(Head(outbox))' = PermitsForBatch(Head(outbox))
    BY <2>1 DEF PermitsForBatch, PermitsFor, BatchBytes, IsInMemory, IsMapped
  <2>3. Spent' = Spent /\ Collected' = Collected /\ PoisonLast' = PoisonLast /\ Acquiring' = Acquiring
    BY <2>1, <2>2, SpentKept DEF Collected, PoisonLast, Last, Acquiring
  <2>4. countFlight \in Int /\ Len(task) - Collected \in Int
    BY CollectedTyped DEF IInv, TypeOK
  <2>5. ~interrupted => countFlight' + (Len(task) - Collected) + 1 = FlightPermits
    <3>1. ~interrupted => countFlight + (Len(task) - Collected) + 0 = FlightPermits
      BY <2>1 DEF PermitsInv
    <3> QED BY <2>1, <2>4, <3>1, FlightTyped
  <2> QED BY <2>1, <2>3, <2>5 DEF PermitsInv
<1>10. CASE SubmitTask
  <2> PICK n \in Nat : n = Len(task)
    BY DEF IInv, TypeOK
  <2> PICK c \in 0..n : c = Collected
    BY CollectedTyped
  <2> PICK u : u = Head(outbox)
    OBVIOUS
  <2>1. /\ ppc = "execute" /\ ppc' = "put" /\ wpc' = wpc /\ task' = Append(task, u)
        /\ UNCHANGED <<input, queue, current, byteFlight, countFlight, interrupted>>
    BY <1>10 DEF SubmitTask
  <2>2. /\ task \in Seq(Seq(Nat)) /\ u \in Seq(Nat) /\ TypeOK'
    <3>1. outbox # <<>> /\ outbox \in Seq(Seq(Nat))
      BY <2>1 DEF IInv, TypeOK, ProducerInv
    <3>2. task \in Seq(Seq(Nat)) /\ u \in Seq(Nat)
      BY <3>1 DEF IInv, TypeOK
    <3>3. TypeOK'
      BY TypeStep
    <3> QED BY <3>2, <3>3
  <2>3. Len(task') = n + 1 /\ task'[n + 1] = u /\ \A i \in 1..n : task'[i] = task[i]
    BY <2>1, <2>2
  <2> PICK w : w = Permits
    OBVIOUS
  <2> PICK v : v = Permits'
    OBVIOUS
  <2>4. w \in [1..n -> Int] /\ Spent = Totals(w, n) /\ v \in [1..(n + 1) -> Int]
        /\ Spent' = Totals(v, n + 1)
    <3>1. w \in [1..n -> Int]
      BY SpentFacts DEF IInv
    <3>2. v = [i \in 1..(n + 1) |-> PermitsForBatch(task[i])']
      BY <2>3 DEF Permits
    <3>3. ASSUME NEW i \in 1..(n + 1) PROVE PermitsForBatch(task[i])' \in Int
      <4>1. PermitsForBatch(task[i])' = PermitsForBatch(task'[i])
        BY <2>1 DEF PermitsForBatch, PermitsFor, BatchBytes, IsInMemory, IsMapped
      <4>2. PermitsForBatch(task'[i]) \in 0..BudgetMiB
        BY PermitsBounded
      <4> QED BY <4>1, <4>2, BudgetTyped
    <3>4. v \in [1..(n + 1) -> Int]
      BY <3>2, <3>3
    <3> QED BY <2>3, <3>1, <3>4 DEF Spent
  <2>5. \A i \in 1..(n + 1) : v[i] = PermitsForBatch(task'[i])
    <3>1. v = [i \in 1..(n + 1) |-> PermitsForBatch(task[i])']
      BY <2>3 DEF Permits
    <3>2. ASSUME NEW i \in 1..(n + 1) PROVE PermitsForBatch(task[i])' = PermitsForBatch(task'[i])
      BY <2>1 DEF PermitsForBatch, PermitsFor, BatchBytes, IsInMemory, IsMapped
    <3> QED BY <3>1, <3>2
  <2>6. v[n + 1] = PermitsForBatch(u) /\ \A i \in 1..n : v[i] = w[i]
    <3>1. v[n + 1] = PermitsForBatch(u)
      BY <2>3, <2>5
    <3>2. ASSUME NEW i \in 1..n PROVE v[i] = w[i]
      <4>1. i \in 1..(n + 1)
        OBVIOUS
      <4>2. w[i] = PermitsForBatch(task[i])
        BY DEF Permits
      <4> QED BY <2>3, <2>5, <4>1, <4>2
    <3> QED BY <3>1, <3>2
  <2> DEFINE S == Totals(w, n)
  <2> DEFINE T == Totals(v, n + 1)
  <2>7. \A k \in 0..n : T[k] = S[k]
    <3>1. PICK m \in Nat : m = n + 1 /\ n <= m
      OBVIOUS
    <3>2. w \in [1..n -> Int] /\ v \in [1..m -> Int]
      BY <2>4, <3>1
    <3>3. \A k \in 1..n : v[k] = w[k]
      BY <2>6
    <3>4. \A k \in 0..n : Totals(v, m)[k] = Totals(w, n)[k]
      <4>1. n <= m
        BY <3>1
      <4> QED BY <3>2, <3>3, <4>1, TotalsAgree, ZenonT(40)
    <3> QED BY <3>1, <3>4
  <2>8. T[n + 1] = T[n] + v[n + 1] /\ S \in [0..n -> Int]
    <3>1. \A k \in 1..(n + 1) : T[k] = T[k - 1] + v[k]
      <4>1. n + 1 \in Nat
        OBVIOUS
      <4> QED BY <2>4, <4>1, TotalsFacts
    <3>2. n + 1 \in 1..(n + 1) /\ n + 1 - 1 = n
      OBVIOUS
    <3>3. T[n + 1] = T[n] + v[n + 1]
      <4> HIDE DEF T
      <4> QED BY <3>1, <3>2
    <3> QED BY <2>4, <3>3, TotalsFacts
  <2> HIDE DEF S, T
  <2>9. Collected' = c /\ PoisonLast' = PoisonLast /\ Acquiring = PermitsForBatch(u) /\ Acquiring' = 0
    BY <2>1 DEF Collected, PoisonLast, Last, Acquiring
  <2> DEFINE a == PermitsForBatch(u)
  <2>10. /\ S[n] \in Int /\ S[c] \in Int /\ T[c] = S[c] /\ T[n + 1] = S[n] + a
         /\ a \in Int /\ byteFlight \in Int /\ countFlight \in Int
    <3>1. n \in 0..n /\ c \in 0..n
      OBVIOUS
    <3>2. a \in 0..BudgetMiB
      BY PermitsBounded
    <3> HIDE DEF a
    <3>3. T[n + 1] = S[n] + a
      BY <2>6, <2>7, <2>8, <3>1 DEF a
    <3>4. a \in Int /\ byteFlight \in Int /\ countFlight \in Int
      BY <3>2, BudgetTyped DEF IInv, TypeOK
    <3>5. S[n] \in Int /\ S[c] \in Int /\ T[c] = S[c]
      BY <2>7, <2>8, <3>1
    <3> QED BY <3>3, <3>4, <3>5
  <2>11. ~interrupted => byteFlight + (S[n] - S[c]) + a = BudgetMiB
    BY <2>4, <2>9 DEF PermitsInv, S
  <2>12. ~interrupted => byteFlight' + (T[n + 1] - T[c]) + 0 = BudgetMiB
    <3> HIDE DEF a
    <3>1. byteFlight' = byteFlight
      BY <2>1
    <3> QED BY <2>10, <2>11, <3>1
  <2>13. ~interrupted => countFlight' + (n + 1 - c) + 0 = FlightPermits
    <3>1. ~interrupted => countFlight + (n - c) + 1 = FlightPermits
      BY <2>1 DEF PermitsInv
    <3> QED BY <2>1, <2>10, <3>1, FlightTyped
  <2>14. ~interrupted /\ ~PoisonLast => current + Len(queue) = n + 1 - 1
    BY <2>1 DEF PermitsInv
  <2>15. Spent' = T
    BY <2>4 DEF T
  <2> QED BY <2>1, <2>3, <2>9, <2>12, <2>13, <2>14, <2>15 DEF PermitsInv
<1>11. CASE PutItem
  <2>1. /\ ppc = "put" /\ ppc' \in {"poison", "walk", "acquireBytes"} /\ wpc' = wpc
        /\ queue' = Append(queue, Len(task))
        /\ UNCHANGED <<input, task, current, byteFlight, countFlight, interrupted>>
    BY <1>11 DEF PutItem, Idle
  <2>2. Spent' = Spent /\ Collected' = Collected /\ Acquiring = 0 /\ Acquiring' = 0
    BY <2>1, SpentKept DEF Collected, Acquiring
  <2>3. /\ queue \in Seq(0..Len(task)) /\ Len(queue') = Len(queue) + 1
        /\ Len(queue) \in Nat /\ current \in Nat /\ Len(task) \in Nat
    BY <2>1 DEF IInv, TypeOK
  <2>4. current + Len(queue) = Len(task) - 1
    BY <2>1 DEF IInv, QueueInv, Feeding
  <2>5. current' + Len(queue') = Len(task')
    BY <2>1, <2>3, <2>4
  <2> QED BY <2>1, <2>2, <2>5 DEF PermitsInv
<1>12. CASE TakeItem
  <2>1. /\ wpc = "take" /\ queue # <<>> /\ queue' = Tail(queue) /\ ppc' = ppc /\ outbox' = outbox
        /\ UNCHANGED <<input, task, byteFlight, countFlight, interrupted>>
        /\ Head(queue) = POISON => wpc' = "tail" /\ current' = current
        /\ Head(queue) # POISON => wpc' = "get" /\ current' = Head(queue)
    BY <1>12 DEF TakeItem
  <2>2. PermitsForBatch(Head(outbox))' = PermitsForBatch(Head(outbox))
    BY <2>1 DEF PermitsForBatch, PermitsFor, BatchBytes, IsInMemory, IsMapped
  <2>3. Spent' = Spent /\ Acquiring' = Acquiring
    BY <2>1, <2>2, SpentKept DEF Acquiring
  <2>4. /\ Len(queue') = Len(queue) - 1 /\ Len(queue) \in Nat \ {0} /\ queue \in Seq(0..Len(task))
        /\ Head(queue) = queue[1] /\ \A k \in 1..Len(queue') : queue'[k] = queue[k + 1]
        /\ queue' \in Seq(0..Len(task))
    BY <2>1 DEF IInv, TypeOK
  <2>5. current \in Nat /\ Len(task) \in Nat
    BY DEF IInv, TypeOK
  <2>6. CASE Head(queue) = POISON
    <3>1. Len(queue) = 1 /\ current = Len(task) /\ ppc # "put"
      BY <2>1, <2>6, QueueHead DEF IInv, Feeding
    <3>2. Collected' = Collected /\ current' + Len(queue') = Len(task)
      BY <2>1, <2>4, <2>5, <2>6, <3>1 DEF Collected
    <3> QED BY <2>1, <2>3, <3>1, <3>2 DEF PermitsInv
  <2>7. CASE Head(queue) # POISON
    <3>1. current' = current + 1 /\ wpc' = "get"
      BY <2>1, <2>7, QueueHead DEF IInv
    <3>2. Collected' = Collected /\ current' + Len(queue') = current + Len(queue)
      BY <2>1, <2>4, <2>5, <3>1 DEF Collected
    <3>3. PoisonLast => PoisonLast'
      <4> SUFFICES ASSUME PoisonLast PROVE PoisonLast'
        OBVIOUS
      <4>1. queue[Len(queue)] = POISON
        BY DEF PoisonLast, Last
      <4>2. Len(queue) # 1
        BY <2>4, <2>7, <4>1
      <4>3. Len(queue') \in 1..Len(queue') /\ Len(queue') + 1 = Len(queue)
        BY <2>4, <4>2
      <4>4. queue'[Len(queue')] = POISON
        BY <2>4, <4>1, <4>3
      <4>5. queue' # <<>>
        BY <2>4, <4>3
      <4> QED BY <4>4, <4>5 DEF PoisonLast, Last
    <3> QED BY <2>1, <2>3, <3>1, <3>2, <3>3 DEF PermitsInv
  <2> QED BY <2>6, <2>7
<1>13. CASE GetResult
  <2>1. /\ wpc = "get" /\ wpc' \in {"take", "write"} /\ ppc' = ppc /\ outbox' = outbox
        /\ countFlight' = countFlight + 1
        /\ byteFlight' = byteFlight + PermitsForBatch(task[current])
        /\ UNCHANGED <<input, task, queue, current, interrupted>>
    BY <1>13 DEF GetResult, Collect
  <2>2. PermitsForBatch(Head(outbox))' = PermitsForBatch(Head(outbox))
    BY <2>1 DEF PermitsForBatch, PermitsFor, BatchBytes, IsInMemory, IsMapped
  <2>3. Spent' = Spent /\ Acquiring' = Acquiring /\ PoisonLast' = PoisonLast
    BY <2>1, <2>2, SpentKept DEF Acquiring, PoisonLast, Last
  <2>4. current \in 1..Len(task) /\ Len(task) \in Nat /\ Collected = current - 1 /\ Collected' = current
    BY <2>1 DEF IInv, TypeOK, WriterInv, Collected
  <2> PICK a : a = PermitsForBatch(task[current])
    OBVIOUS
  <2> PICK l, m, h : l = Spent[Collected] /\ m = Spent[current] /\ h = Spent[Len(task)]
    OBVIOUS
  <2> PICK q : q = Acquiring
    OBVIOUS
  <2>5. m = l + a /\ l \in Int /\ m \in Int /\ h \in Int /\ a \in Int
    <3>1. Permits[current] = a
      BY <2>4 DEF Permits
    <3>2. Spent[current] = Spent[current - 1] + Permits[current]
      BY <2>4, SpentFacts DEF IInv
    <3>3. a \in Int
      <4>1. a \in 0..BudgetMiB
        BY PermitsBounded
      <4> QED BY <4>1, BudgetTyped
    <3>4. current \in 0..Len(task) /\ Collected \in 0..Len(task) /\ Len(task) \in 0..Len(task)
      BY <2>4
    <3> QED BY <2>4, <3>1, <3>2, <3>3, <3>4, SpentFacts DEF IInv
  <2>6. q \in Int /\ byteFlight \in Int /\ countFlight \in Int
    <3>1. PermitsForBatch(Head(outbox)) \in 0..BudgetMiB
      BY PermitsBounded
    <3>2. q \in Int
      BY <3>1, BudgetTyped DEF Acquiring
    <3> QED BY <3>2 DEF IInv, TypeOK
  <2>7. ~interrupted => byteFlight' + (h - m) + q = BudgetMiB
    <3>1. ~interrupted => byteFlight + (h - l) + q = BudgetMiB
      BY DEF PermitsInv
    <3>2. byteFlight' = byteFlight + a
      BY <2>1
    <3>3. SUFFICES ASSUME ~interrupted PROVE byteFlight' + (h - m) + q = BudgetMiB
      OBVIOUS
    <3>4. byteFlight + (h - l) + q = BudgetMiB
      BY <3>1, <3>3
    <3>5. h - m = (h - l) - a /\ h - l \in Int
      BY <2>5
    <3> QED BY <2>5, <2>6, <3>2, <3>4, <3>5
  <2>8. ~interrupted => countFlight' + (Len(task) - current) + (IF ppc = "execute" THEN 1 ELSE 0) = FlightPermits
    <3>1. ~interrupted => countFlight + (Len(task) - (current - 1)) + (IF ppc = "execute" THEN 1 ELSE 0) = FlightPermits
      BY <2>4 DEF PermitsInv
    <3> QED BY <2>1, <2>4, <2>6, <3>1, FlightTyped
  <2> QED BY <2>1, <2>3, <2>4, <2>7, <2>8 DEF PermitsInv
<1> QED
  BY <1>1, <1>2, <1>3, <1>4, <1>5, <1>6, <1>7, <1>8, <1>9, <1>10, <1>11, <1>12, <1>13
  DEF Next, ProducerStep, WriterStep

LEMMA PermitsInit == Init => PermitsInv
<1> SUFFICES ASSUME Init PROVE PermitsInv
  OBVIOUS
<1>1. IInv /\ Len(task) = 0 /\ Collected = 0 /\ Acquiring = 0 /\ ppc = "walk"
  BY InitInv DEF Init, Collected, Acquiring
<1>2. Spent[0] = 0
  BY <1>1, SpentFacts DEF IInv
<1>3. byteFlight = BudgetMiB /\ countFlight = FlightPermits /\ current + Len(queue) = 0
  BY DEF Init
<1> QED BY <1>1, <1>2, <1>3, BudgetTyped, FlightTyped DEF PermitsInv

(* The units that hold permits are those behind the writer.                  *)
LEMMA HeldIs ==
  ASSUME IInv, PermitsInv, ~interrupted
  PROVE  Held = (Collected + 1)..Len(task)
<1> PICK n \in Nat : n = Len(task)
  BY DEF IInv, TypeOK
<1> PICK c \in 0..n : c = Collected
  BY CollectedTyped
<1>1. /\ current \in 0..n /\ Len(queue) \in Nat /\ queue \in Seq(0..n)
      /\ current = (IF wpc = "get" THEN c + 1 ELSE c)
  BY CollectedTyped DEF IInv, TypeOK, Collected
<1>2. ASSUME NEW i \in Held PROVE i \in (c + 1)..n
  <2>1. i \in 1..n
    BY DEF Held
  <2>2. CASE \E k \in 1..Len(queue) : queue[k] = i
    <3>1. PICK k \in 1..Len(queue) : queue[k] = i
      BY <2>2
    <3>2. i = current + k
      BY <2>1, <3>1 DEF IInv, QueueInv
    <3> QED BY <1>1, <2>1, <3>1, <3>2
  <2>3. CASE wpc = "get" /\ current = i
    BY <1>1, <2>1, <2>3
  <2>4. CASE ppc = "put" /\ i = n
    <3>1. current + Len(queue) = n - 1
      BY <2>4 DEF IInv, QueueInv, Feeding
    <3> QED BY <1>1, <2>1, <2>4, <3>1
  <2> QED BY <2>2, <2>3, <2>4 DEF Held
<1>3. ASSUME NEW i \in (c + 1)..n PROVE i \in Held
  <2>1. i \in 1..n
    OBVIOUS
  <2>2. CASE i <= current
    <3>1. wpc = "get" /\ current = i
      BY <1>1, <2>2
    <3> QED BY <2>1, <3>1 DEF Held
  <2>3. CASE ppc = "put" /\ i = n
    BY <2>1, <2>3 DEF Held
  <2>4. CASE i > current /\ ~(ppc = "put" /\ i = n)
    <3> DEFINE k == i - current
    <3>1. k \in 1..Len(queue) /\ ~(PoisonLast /\ k = Len(queue))
      <4>1. CASE PoisonLast
        <5>1. current + Len(queue) = n + 1
          BY <4>1 DEF PoisonLast, IInv, QueueInv
        <5> QED BY <1>1, <2>1, <2>4, <5>1
      <4>2. CASE ~PoisonLast
        <5>1. current + Len(queue) = IF ppc = "put" THEN n - 1 ELSE n
          BY <4>2 DEF PermitsInv
        <5> QED BY <1>1, <2>1, <2>4, <4>2, <5>1
      <4> QED BY <4>1, <4>2
    <3> HIDE DEF k
    <3>2. queue[k] = current + k
      <4>1. queue[k] = current + k \/ (queue[k] = POISON /\ k = Len(queue))
        BY <3>1 DEF IInv, QueueInv
      <4>2. ASSUME queue[k] = POISON, k = Len(queue) PROVE FALSE
        <5>1. queue # <<>> /\ Last(queue) = POISON
          BY <1>1, <3>1, <4>2 DEF Last
        <5> QED BY <3>1, <4>2, <5>1 DEF PoisonLast
      <4> QED BY <4>1, <4>2
    <3>3. queue[k] = i
      BY <1>1, <2>1, <3>2 DEF k
    <3> QED BY <2>1, <3>1, <3>3 DEF Held
  <2> QED BY <1>1, <2>2, <2>3, <2>4
<1>4. Held = (c + 1)..n
  <2>1. Held \subseteq (c + 1)..n
    BY <1>2
  <2>2. (c + 1)..n \subseteq Held
    BY <1>3
  <2> QED BY <2>1, <2>2, Zenon
<1> QED BY <1>4

(* Whatever fails and however the threads interleave: unless an interrupt    *)
(* made the producer give up, every permit is free, or held by a unit on its *)
(* way to the writer, or by the producer for the unit it is about to submit. *)
THEOREM PermitsBalance == Spec => []PermitsConserved
<1>1. IInv /\ PermitsInv => PermitsConserved
  <2> SUFFICES ASSUME IInv, PermitsInv, ~interrupted
               PROVE  /\ byteFlight + HeldPermits + Acquiring = BudgetMiB
                      /\ countFlight + Cardinality(Held) + (IF ppc = "execute" THEN 1 ELSE 0)
                           = FlightPermits
    BY DEF PermitsConserved, Acquiring
  <2> PICK n \in Nat : n = Len(task)
    BY DEF IInv, TypeOK
  <2> PICK c \in 0..n : c = Collected
    BY CollectedTyped
  <2>1. Held = (c + 1)..n
    BY HeldIs
  <2> PICK v : v = [i \in 1..n |-> IF i \in Held THEN PermitsForBatch(task[i]) ELSE 0]
    OBVIOUS
  <2> PICK w : w = Permits
    OBVIOUS
  <2>2. w \in [1..n -> Int] /\ w = [i \in 1..n |-> PermitsForBatch(task[i])]
        /\ Spent = Totals(w, n)
    BY SpentFacts DEF IInv, Permits, Spent
  <2>3. /\ v \in [1..n -> Int] /\ \A i \in 1..n : i <= c => v[i] = 0
        /\ \A i \in 1..n : i > c => v[i] = w[i]
    <3>1. ASSUME NEW i \in 1..n
          PROVE  v[i] \in Int /\ (i <= c => v[i] = 0) /\ (i > c => v[i] = w[i])
      <4>1. w[i] \in Int /\ w[i] = PermitsForBatch(task[i])
        BY <2>2
      <4>2. CASE i <= c
        <5>1. i \notin Held
          BY <2>1, <4>2
        <5> QED BY <4>2, <5>1
      <4>3. CASE i > c
        <5>1. i \in Held
          BY <2>1, <4>3
        <5> QED BY <4>1, <4>3, <5>1
      <4> QED BY <4>2, <4>3
    <3>2. v \in [1..n -> Int]
      <4>1. v = [i \in 1..n |-> v[i]]
        OBVIOUS
      <4> QED BY <3>1, <4>1, Zenon
    <3> QED BY <3>1, <3>2
  <2>4. HeldPermits = Totals(v, n)[n]
    BY DEF HeldPermits
  <2>5. Totals(v, n)[n] = IF n <= c THEN 0 ELSE Totals(w, n)[n] - Totals(w, n)[c]
    <3>1. w \in [1..n -> Int] /\ v \in [1..n -> Int]
      BY <2>2, <2>3
    <3>2. Masked(v, w, c, n)
      BY <2>3 DEF Masked
    <3> QED BY <3>1, <3>2, MaskedTotal, Z3
  <2>6. Totals(w, n)[n] \in Int /\ Totals(w, n)[c] \in Int
    <3>1. n \in 0..n /\ c \in 0..n
      OBVIOUS
    <3>2. Totals(w, n) \in [0..n -> Int]
      BY <2>2, TotalsFacts
    <3> QED BY <3>1, <3>2
  <2>7. HeldPermits = Spent[n] - Spent[c]
    <3>1. CASE n <= c
      <4>1. n = c
        BY <3>1
      <4> QED BY <2>2, <2>4, <2>5, <2>6, <4>1
    <3>2. CASE ~(n <= c)
      BY <2>2, <2>4, <2>5, <3>2
    <3> QED BY <3>1, <3>2
  <2>8. Cardinality(Held) = n - c
    <3>1. Cardinality((c + 1)..n) = IF c + 1 > n THEN 0 ELSE n - (c + 1) + 1
      <4>1. PICK a \in Int : a = c + 1
        OBVIOUS
      <4>2. n \in Int
        OBVIOUS
      <4>3. Cardinality(a..n) = IF a > n THEN 0 ELSE n - a + 1
        BY <4>2, FS_Interval
      <4> QED BY <4>1, <4>3
    <3> QED BY <2>1, <3>1
  <2> QED BY <2>7, <2>8 DEF PermitsInv
<1> QED BY <1>1, PermitsInit, PermitsStep, Invariance, PTL DEF Spec

-----------------------------------------------------------------------------
(* What is left behind.                                                      *)

(* Only units fail.                                                          *)
Quiet == Faults \subseteq {"task", "alloc"}

LeftInv ==
  /\ ppc \in {"free", "returned", "thrown"} => wpc = "ended"
  /\ wpc \in {"tail", "close", "ended"} => queue = <<>>
  /\ ppc \in {"returned", "thrown"} => \A w \in Workers : handle[w] # "live"

LEMMA LeftStep ==
  ASSUME Quiet, IInv, LeftInv, [Next]_vars
  PROVE  LeftInv'
<1> USE DEF producerVars, poolVars, flightVars, writerVars
<1>1. Uneventful
  BY DEF Quiet, Uneventful
<1>2. CASE AddBatchable \/ AddAlone \/ AcquireBytes \/ AcquireCount \/ SubmitTask \/ BeginFinish
  <2>1. /\ ppc' \in {"walk", "acquireBytes", "acquireCount", "execute", "put", "poison"}
        /\ wpc' = wpc /\ queue' = queue
    BY <1>2 DEF AddBatchable, AddAlone, AcquireBytes, AcquireCount, SubmitTask, BeginFinish, Idle
  <2> QED BY <2>1 DEF LeftInv
<1>3. CASE PutItem \/ PutPoison
  <2>1. /\ ppc \in {"put", "poison"} /\ ppc' \in {"walk", "acquireBytes", "poison", "join"}
        /\ wpc' = wpc
    BY <1>3 DEF PutItem, PutPoison, Idle
  <2>2. wpc \notin {"tail", "close", "ended"}
    BY <1>1, <2>1 DEF IInv, WriterInv, Poisoned, PoolInv, Feeding
  <2> QED BY <2>1, <2>2 DEF LeftInv
<1>4. CASE Join
  BY <1>4 DEF Join, LeftInv
<1>5. CASE FreeHandles
  <2>1. /\ ppc = "free" /\ ppc' \in {"returned", "thrown"} /\ wpc' = wpc /\ queue' = queue
        /\ handle' = [w \in Workers |-> IF handle[w] = "live" THEN "freed" ELSE handle[w]]
    BY <1>5 DEF FreeHandles, CallResult
  <2>2. \A w \in Workers : handle'[w] # "live"
    BY <2>1
  <2> QED BY <2>1, <2>2 DEF LeftInv
<1>6. CASE WalkFails \/ Interrupt \/ WriterDies
  BY <1>6 DEF WalkFails, Interrupt, WriterDies, Quiet
<1>7. CASE OpenArchive \/ GetResult \/ WriteEntry
  <2>1. /\ wpc \in {"open", "get", "write"} /\ wpc' \in {"take", "write"} /\ ppc' = ppc
        /\ queue' = queue /\ handle' = handle
    BY <1>7 DEF OpenArchive, GetResult, Collect, WriteEntry
  <2> QED BY <2>1 DEF LeftInv
<1>8. CASE TakeItem
  <2>1. /\ wpc = "take" /\ queue # <<>> /\ queue' = Tail(queue) /\ ppc' = ppc /\ handle' = handle
        /\ Head(queue) = POISON => wpc' = "tail"
        /\ Head(queue) # POISON => wpc' = "get"
    BY <1>8 DEF TakeItem
  <2>2. Head(queue) = POISON => queue' = <<>>
    <3> SUFFICES ASSUME Head(queue) = POISON PROVE queue' = <<>>
      OBVIOUS
    <3>1. Len(queue) = 1 /\ queue \in Seq(0..Len(task))
      BY <2>1, QueueHead DEF IInv, TypeOK
    <3>2. queue' \in Seq(0..Len(task)) /\ Len(queue') = 0
      BY <2>1, <3>1
    <3> QED BY <3>2
  <2> QED BY <2>1, <2>2 DEF LeftInv
<1>9. CASE WriteTail \/ CloseArchive
  <2>1. /\ wpc \in {"tail", "close"} /\ wpc' \in {"close", "ended"} /\ ppc' = ppc
        /\ queue' = queue /\ handle' = handle
    BY <1>9 DEF WriteTail, CloseArchive
  <2> QED BY <2>1 DEF LeftInv
<1>10. ASSUME NEW w \in Workers, StartTask(w) PROVE LeftInv'
  <2>1. PICK i \in 1..Len(task) : future[i] = "queued"
    BY <1>10 DEF StartTask
  <2>2. wpc # "ended"
    <3> SUFFICES ASSUME wpc = "ended" PROVE FALSE
      OBVIOUS
    <3>1. current = Len(task) /\ Len(task) \in Nat
      BY <1>1 DEF IInv, PoolInv, TypeOK
    <3>2. future[i] \in {"done", "failed"}
      BY <2>1, <3>1 DEF IInv, PoolInv
    <3> QED BY <2>1, <3>2
  <2>3. wpc' = wpc /\ ppc' = ppc /\ queue' = queue
    BY <1>10 DEF StartTask
  <2> QED BY <2>2, <2>3 DEF LeftInv
<1>11. ASSUME NEW w \in Workers, FinishTask(w) \/ FailTask(w) PROVE LeftInv'
  <2>1. wpc' = wpc /\ ppc' = ppc /\ queue' = queue /\ handle' = handle
    BY <1>11 DEF FinishTask, FailTask, EndTask
  <2> QED BY <2>1 DEF LeftInv
<1>12. CASE Terminated \/ UNCHANGED vars
  <2>1. wpc' = wpc /\ ppc' = ppc /\ queue' = queue /\ handle' = handle
    BY <1>12 DEF Terminated, vars
  <2> QED BY <2>1 DEF LeftInv
<1> QED
  BY <1>2, <1>3, <1>4, <1>5, <1>6, <1>7, <1>8, <1>9, <1>10, <1>11, <1>12
  DEF Next, ProducerStep, WorkerStep, WriterStep

(* As long as only units fail, and whether or not they do, a call that is    *)
(* over has left no unit unrun, no permit taken and no compressor allocated. *)
THEOREM AllGivenBack ==
  ASSUME Quiet
  PROVE  Spec => []NothingLeftBehind
<1>1. ASSUME IInv, PermitsInv, LeftInv PROVE NothingLeftBehind
  <2>1. Uneventful
    BY DEF Quiet, Uneventful
  <2> SUFFICES ASSUME ppc \in {"returned", "thrown"}
               PROVE  /\ \A i \in 1..Len(task) : future[i] \in {"done", "failed"}
                      /\ queue = <<>> /\ wpc = "ended"
                      /\ byteFlight = BudgetMiB /\ countFlight = FlightPermits
                      /\ \A w \in Workers : handle[w] # "live"
    BY <1>1 DEF NothingLeftBehind
  <2>2. wpc = "ended" /\ queue = <<>> /\ \A w \in Workers : handle[w] # "live"
    BY <1>1 DEF LeftInv
  <2>3. current = Len(task) /\ Len(task) \in Nat /\ ~interrupted
    BY <1>1, <2>1, <2>2 DEF IInv, TypeOK, PoolInv
  <2>4. \A i \in 1..Len(task) : future[i] \in {"done", "failed"}
    BY <1>1, <2>2, <2>3 DEF IInv, PoolInv
  <2>5. Collected = Len(task) /\ Acquiring = 0
    BY <2>2, <2>3 DEF Collected, Acquiring
  <2>6. Spent[Len(task)] \in Int /\ byteFlight \in Int /\ countFlight \in Int
    <3>1. Len(task) \in 0..Len(task)
      BY <2>3
    <3>2. Spent \in [0..Len(task) -> Int]
      BY <1>1, SpentFacts DEF IInv
    <3>3. byteFlight \in Int /\ countFlight \in Int
      BY <1>1 DEF IInv, TypeOK
    <3> QED BY <3>1, <3>2, <3>3
  <2>7. byteFlight = BudgetMiB
    <3>1. byteFlight + (Spent[Len(task)] - Spent[Len(task)]) + 0 = BudgetMiB
      BY <1>1, <2>3, <2>5 DEF PermitsInv
    <3> QED BY <2>6, <3>1
  <2>8. countFlight = FlightPermits
    <3>1. countFlight + (Len(task) - Len(task)) + 0 = FlightPermits
      BY <1>1, <2>3, <2>5 DEF PermitsInv
    <3> QED BY <2>3, <2>6, <3>1
  <2> QED BY <2>2, <2>4, <2>7, <2>8
<1>2. Init => LeftInv
  BY DEF Init, LeftInv
<1>3. IInv /\ LeftInv /\ [Next]_vars => LeftInv'
  BY LeftStep
<1> QED BY <1>1, <1>2, <1>3, PermitsInit, PermitsStep, Invariance, PTL DEF Spec

-----------------------------------------------------------------------------
(* The pipeline implements the sequential archive of OrderedArchive: its     *)
(* outcome is the abstract one, and all else that happens is stuttering.     *)

LEMMA RefinesInit == Init => Abs!AbsInit
BY DEF Init, Abs!AbsInit, outcome

LEMMA RefinesNext ==
  ASSUME "error" \notin Faults, IInv, [Next]_vars
  PROVE  [Abs!AbsNext]_Abs!absVars
<1> USE DEF producerVars, poolVars, flightVars, writerVars, Abs!absVars, outcome
<1>1. CASE \/ AddBatchable \/ AddAlone \/ AcquireBytes \/ AcquireCount \/ SubmitTask \/ PutItem
           \/ BeginFinish \/ PutPoison \/ Join
  BY <1>1 DEF AddBatchable, AddAlone, AcquireBytes, AcquireCount, SubmitTask, PutItem,
    BeginFinish, PutPoison, Join, Idle
<1>2. CASE FreeHandles
  <2>1. CASE ppc' = "thrown"
    BY <1>2, <2>1 DEF FreeHandles, Abs!AbsNext, Abs!Throw
  <2>2. CASE ppc' = "returned"
    <3>1. ~interrupted /\ ~writerError /\ wpc = "ended" /\ tail
      BY <1>2, <2>2 DEF FreeHandles, CallResult, IInv, OutcomeInv
    <3> QED BY <1>2, <2>2, <3>1 DEF FreeHandles, Abs!AbsNext, Abs!Return
  <2> QED BY <1>2, <2>1, <2>2 DEF FreeHandles, CallResult
<1>3. CASE WalkFails \/ Interrupt
  BY <1>3 DEF WalkFails, Interrupt, Abs!AbsNext, Abs!Throw
<1>4. ASSUME NEW w \in Workers, WorkerStep(w)
      PROVE  [Abs!AbsNext]_Abs!absVars
  BY <1>4 DEF WorkerStep, StartTask, FinishTask, FailTask, EndTask
<1>5. CASE OpenArchive \/ TakeItem \/ GetResult \/ CloseArchive \/ WriterDies
  BY <1>5 DEF OpenArchive, TakeItem, GetResult, Collect, CloseArchive, WriterDies
<1>6. outcome = "returned" => wpc = "ended"
  BY DEF IInv, OutcomeInv
<1>7. CASE WriteEntry
  <2>1. WriterInv' /\ TypeOK' /\ ProducerInv'
    BY NextInv DEF IInv
  <2>2. archive' = Append(archive, Head(results)) /\ wpc = "write" /\ UNCHANGED <<input, tail, ppc>>
    BY <1>7 DEF WriteEntry
  <2>3. archive \in Seq(Nat) /\ Len(archive') = Len(archive) + 1 /\ archive'[Len(archive')] = Head(results)
    BY <2>2 DEF IInv, TypeOK
  <2>4. Head(results) = Len(archive) + 1
    BY <2>1, <2>3 DEF WriterInv
  <2>5. Len(archive') <= Len(input')
    <3>1. Len(archive') <= Submitted' /\ Submitted' <= Len(input')
      BY <2>1 DEF WriterInv, ProducerInv
    <3>2. Submitted \in Nat /\ Submitted' = Submitted
      BY <1>7, SubmittedTyped DEF WriteEntry, Submitted, IInv
    <3>3. Len(input') \in Nat
      BY <2>2, InputTyped DEF IInv
    <3> QED BY <2>3, <3>1, <3>2, <3>3
  <2>6. ~tail
    BY <2>2 DEF IInv, WriterInv
  <2>7. Len(archive) < Len(input)
    BY <2>2, <2>3, <2>5, InputTyped DEF IInv
  <2> QED BY <1>6, <2>2, <2>4, <2>6, <2>7 DEF Abs!AbsNext, Abs!AppendNext
<1>8. CASE WriteTail
  <2>1. CASE failed
    <3>1. tail = FALSE /\ failed = TRUE
      BY <1>8, <2>1 DEF WriteTail, IInv, WriterInv, TypeOK
    <3> QED BY <1>8, <3>1 DEF WriteTail
  <2>2. CASE ~failed
    <3>1. Len(archive) = Len(input) /\ ~tail
      BY <1>8, <2>2 DEF WriteTail, IInv, WriterInv, Poisoned
    <3> QED BY <1>6, <1>8, <2>2, <3>1 DEF WriteTail, Abs!AbsNext, Abs!Complete
  <2> QED BY <2>1, <2>2
<1>9. CASE Terminated \/ UNCHANGED vars
  BY <1>9 DEF Terminated, vars
<1> QED BY <1>1, <1>2, <1>3, <1>4, <1>5, <1>7, <1>8, <1>9 DEF Next, ProducerStep, WriterStep

THEOREM Refines ==
  ASSUME "error" \notin Faults
  PROVE  Spec => ImplementsOrderedArchive
<1>1. IInv /\ [Next]_vars => [Abs!AbsNext]_Abs!absVars
  BY RefinesNext
<1> QED BY <1>1, RefinesInit, Invariance, PTL DEF Spec, Abs!AbsSpec, ImplementsOrderedArchive

=============================================================================
