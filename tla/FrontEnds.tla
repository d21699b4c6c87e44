------------------------------ MODULE FrontEnds ------------------------------
(***************************************************************************)
(* The two callers of the pipeline and the spill directory they share with *)
(* it: ParallelZipWriter.write() lists source trees first and hands the    *)
(* sorted list over; ParallelZipCopyAction.execute() hands over what       *)
(* Gradle's copy walk yields as it comes, buffering filtered contents.     *)
(*                                                                         *)
(* The pipeline is here only what its contract and its use of the spill    *)
(* directory are; Sink and Compress have the rest.  Contents are sequences *)
(* of units.                                                               *)
(***************************************************************************)
EXTENDS Attributes, Functions

CONSTANTS
  SourceLists,             (* what write() may be called with                    *)
  CopyWalks,               (* what the copy walk may yield                       *)
  SpillThreshold,
  Chunk,                   (* units one read() returns at most                   *)
  FaultSets                (* what may throw: the caller's side, a unit, a write *)

(* A file: its path in its tree and what the walk tells of it.  Separators are  *)
(* not doubled, and a path neither begins nor ends with one.                    *)
Path == {p \in Seq(Nat) :
           /\ p # <<>> /\ ~IsSeparator(p[1]) /\ ~IsSeparator(p[Len(p)])
           /\ SeparatorsApart(p)}
Modes == {NoMode} \cup 0..4095
File == [rel : Path, dir : BOOLEAN, filtered : BOOLEAN, size : Nat, modified : LocalDateTime,
         mode : Modes]
Source == [prefix : {p \in Seq(Nat) : SeparatorsApart(p)}, files : SUBSET File]

ASSUME InputsAssumption ==
  /\ SourceLists \subseteq Seq(Source)
  /\ CopyWalks \subseteq Seq(File)
  /\ \A w \in CopyWalks : \A k \in DOMAIN w : w[k].filtered => ~w[k].dir
ASSUME SpillAssumption == SpillThreshold \in Nat /\ Chunk \in Nat \ {0}
ASSUME FaultsAssumption == FaultSets \subseteq SUBSET {"caller", "task", "write"}

VARIABLES
  sources, walk,           (* the inputs; one of them is empty                   *)
  preserve,                (* preserveTimestamps                                 *)
  faults,
  pc,
  source, walked, seen, list,     (* enumerate()                                 *)
  buf, left,               (* materialize(): buf, the units still unread         *)
  handed,                  (* the entries handed to the sink                     *)
  stage, payload,          (* of each of them: its progress, what is streamed    *)
  dirExists, temps,        (* the spill directory and the files in it            *)
  doomed,                  (* what deleteRecursively() still has to delete       *)
  failed,                  (* a unit or the writer threw                         *)
  abandoned, died          (* the caller's side threw; the writer threw          *)

inputVars == <<sources, walk, preserve, faults>>
enumVars  == <<source, walked, seen, list>>
readVars  == <<buf, left>>
sinkVars  == <<stage, payload, failed>>
dirVars   == <<dirExists, temps, doomed>>
vars == <<inputVars, pc, enumVars, readVars, handed, sinkVars, dirVars, abandoned, died>>

-----------------------------------------------------------------------------
(* Entries.                                                                  *)

Stamp(f) == IF preserve THEN DosDateTime(f.modified) ELSE FixedStamp
Whole(f) == [i \in 1..f.size |-> i]

(* fileEntry, dirEntry, inlineEntry: temp names the file's place in the spill *)
(* directory, 0 if it is a source file; origin is the file it is made of      *)
EntryOf(f, name, kind, content, temp) ==
  [origin |-> f, name |-> name, kind |-> kind, content |-> content, temp |-> temp,
   stamp |-> Stamp(f), attr |-> ExternalAttr(f.mode, f.dir)]
PlainEntry(f, name) ==
  EntryOf(f, name, IF f.dir THEN "dir" ELSE "file", IF f.dir THEN <<>> ELSE Whole(f), 0)

-----------------------------------------------------------------------------
(* enumerate().                                                              *)

Here == sources[source]

(* mutant: a later entry of the same name is listed as well *)
WalkFileAgain ==
  /\ pc = "enumerate" /\ source <= Len(sources)
  /\ \E f \in Here.files \ walked :
       LET name == EntryName(Here.prefix, f.rel, f.dir)
       IN  /\ walked' = walked \union {f}
           /\ seen' = seen \union {name}
           /\ list' = Append(list, PlainEntry(f, name))
  /\ UNCHANGED <<inputVars, pc, source, readVars, handed, sinkVars, dirVars, abandoned, died>>

(* Files.walk gives the files of a source in any order. *)
WalkFile ==
  /\ pc = "enumerate" /\ source <= Len(sources)
  /\ \E f \in Here.files \ walked :
       LET name == EntryName(Here.prefix, f.rel, f.dir)
       IN  /\ walked' = walked \union {f}
           /\ seen' = seen \union {name}
           /\ list' = IF name \in seen THEN list ELSE Append(list, PlainEntry(f, name))
  /\ UNCHANGED <<inputVars, pc, source, readVars, handed, sinkVars, dirVars, abandoned, died>>

NextSource ==
  /\ pc = "enumerate" /\ source <= Len(sources) /\ walked = Here.files
  /\ source' = source + 1 /\ walked' = {}
  /\ UNCHANGED <<inputVars, pc, seen, list, readVars, handed, sinkVars, dirVars, abandoned, died>>

Reorderings(l) == {[i \in DOMAIN l |-> l[p[i]]] : p \in Bijection(DOMAIN l, DOMAIN l)}
InOrder(l) ==
  \A i, j \in DOMAIN l : i < j => Less(l[i].name, l[j].name) \/ l[i].name = l[j].name

SortList ==
  /\ pc = "enumerate" /\ source > Len(sources)
  /\ list' \in {l \in Reorderings(list) : InOrder(l)}
  /\ pc' = "open"
  /\ UNCHANGED <<inputVars, source, walked, seen, readVars, handed, sinkVars, dirVars, abandoned, died>>

(* createTempDirectory *)
OpenSpillDir ==
  /\ pc = "open"
  /\ dirExists' = TRUE /\ pc' = "feed"
  /\ UNCHANGED <<inputVars, enumVars, readVars, handed, sinkVars, temps, doomed, abandoned, died>>

-----------------------------------------------------------------------------
(* Handing over.                                                             *)

Hand(e) ==
  /\ handed'  = Append(handed, e)
  /\ stage'   = Append(stage, "queued")
  /\ payload' = Append(payload, "memory")

AddListed ==
  /\ pc = "feed" /\ Len(handed) < Len(list)
  /\ Hand(list[Len(handed) + 1])
  /\ UNCHANGED <<inputVars, pc, enumVars, readVars, failed, dirVars, abandoned, died>>

Details == walk[Len(handed) + 1]
Walking == pc = "feed" /\ Len(handed) < Len(walk)

(* A directory or an unfiltered file. *)
AddDetails ==
  /\ Walking /\ ~Details.filtered
  /\ Hand(PlainEntry(Details, IF Details.dir THEN Append(Details.rel, Slash) ELSE Details.rel))
  /\ UNCHANGED <<inputVars, pc, enumVars, readVars, failed, dirVars, abandoned, died>>

(* materialize(). *)
OpenStream ==
  /\ Walking /\ Details.filtered
  /\ pc' = "read" /\ buf' = <<>> /\ left' = Whole(Details)
  /\ UNCHANGED <<inputVars, enumVars, handed, sinkVars, dirVars, abandoned, died>>

InputTemp == [of |-> Len(handed) + 1, side |-> "in"]

(* mutant: what is in the buffer does not go to the file *)
ReadChunkForgets ==
  /\ pc \in {"read", "overflow"} /\ left # <<>>
  /\ \E n \in 1..Chunk :
       /\ n <= Len(left)
       /\ left' = SubSeq(left, n + 1, Len(left))
       /\ IF pc = "overflow" \/ Len(buf) + n <= SpillThreshold
          THEN /\ buf' = buf \o SubSeq(left, 1, n)
               /\ UNCHANGED <<pc, temps>>
          ELSE /\ buf' = SubSeq(left, 1, n)
               /\ pc' = "overflow" /\ temps' = temps \union {InputTemp}
  /\ UNCHANGED <<inputVars, enumVars, handed, sinkVars, dirExists, doomed, abandoned, died>>

(* Once over the threshold, buf stands for the contents of the file. *)
ReadChunk ==
  /\ pc \in {"read", "overflow"} /\ left # <<>>
  /\ \E n \in 1..Chunk :
       /\ n <= Len(left)
       /\ left' = SubSeq(left, n + 1, Len(left))
       /\ buf' = buf \o SubSeq(left, 1, n)
       /\ IF pc = "overflow" \/ Len(buf) + n <= SpillThreshold
          THEN UNCHANGED <<pc, temps>>
          ELSE pc' = "overflow" /\ temps' = temps \union {InputTemp}
  /\ UNCHANGED <<inputVars, enumVars, handed, sinkVars, dirExists, doomed, abandoned, died>>

AddMaterialized ==
  /\ pc \in {"read", "overflow"} /\ left = <<>>
  /\ Hand(IF pc = "read" THEN EntryOf(Details, Details.rel, "inline", buf, 0)
                         ELSE EntryOf(Details, Details.rel, "file", buf, Len(handed) + 1))
  /\ pc' = "feed"
  /\ UNCHANGED <<inputVars, enumVars, readVars, failed, dirVars, abandoned, died>>

(* The walk or a stream throws, or the thread is interrupted: the pipeline   *)
(* is left to itself and the finally clause runs.                            *)
Abandon ==
  /\ "caller" \in faults /\ pc \in {"feed", "read", "overflow"}
  /\ abandoned' = TRUE /\ pc' = "list"
  /\ UNCHANGED <<inputVars, enumVars, readVars, handed, sinkVars, dirVars, died>>

-----------------------------------------------------------------------------
(* The pipeline.                                                             *)

IsLarge(k)   == handed[k].kind = "file" /\ Len(handed[k].content) > SpillThreshold
TempInput(k) == IF handed[k].temp = 0 THEN {} ELSE {[of |-> k, side |-> "in"]}
Readable(k)  == TempInput(k) \subseteq temps

(* An entry compressed in memory.  A temporary input stays: a large one is   *)
(* mapped, and a small one cannot be temporary.                              *)
CompressInMemory(k) ==
  /\ stage[k] = "queued" /\ Readable(k)
  /\ stage' = [stage EXCEPT ![k] = "done"]
  /\ UNCHANGED <<inputVars, pc, enumVars, readVars, handed, payload, failed, dirVars, abandoned, died>>

(* A large entry that is stored. *)
StoreLarge(k) ==
  /\ stage[k] = "queued" /\ IsLarge(k) /\ Readable(k)
  /\ stage' = [stage EXCEPT ![k] = "done"]
  /\ payload' = [payload EXCEPT ![k] = "input"]
  /\ UNCHANGED <<inputVars, pc, enumVars, readVars, handed, failed, dirVars, abandoned, died>>

(* deflateToFile: the spill file first, *)
Spill(k) ==
  /\ stage[k] = "queued" /\ IsLarge(k) /\ Readable(k) /\ dirExists
  /\ stage' = [stage EXCEPT ![k] = "deflating"]
  /\ temps' = temps \union {[of |-> k, side |-> "out"]}
  /\ UNCHANGED <<inputVars, pc, enumVars, readVars, handed, payload, failed, dirExists, doomed, abandoned, died>>

(* mutant: the input goes away although it is stored *)
SpilledDeletes(k) ==
  /\ stage[k] = "deflating"
  /\ stage' = [stage EXCEPT ![k] = "done"]
  /\ \/ /\ temps' = temps \ TempInput(k)
        /\ payload' = [payload EXCEPT ![k] = "spill"]
     \/ /\ temps' = temps \ ({[of |-> k, side |-> "out"]} \union TempInput(k))
        /\ payload' = [payload EXCEPT ![k] = "input"]
  /\ UNCHANGED <<inputVars, pc, enumVars, readVars, handed, failed, dirExists, doomed, abandoned, died>>

(* then it is kept and a temporary input deleted, or the other way round.    *)
Spilled(k) ==
  /\ stage[k] = "deflating"
  /\ stage' = [stage EXCEPT ![k] = "done"]
  /\ \/ /\ temps' = temps \ TempInput(k)
        /\ payload' = [payload EXCEPT ![k] = "spill"]
     \/ /\ temps' = temps \ {[of |-> k, side |-> "out"]}
        /\ payload' = [payload EXCEPT ![k] = "input"]
  /\ UNCHANGED <<inputVars, pc, enumVars, readVars, handed, failed, dirExists, doomed, abandoned, died>>

UnitFails(k) ==
  /\ stage[k] \in {"queued", "deflating"}
  /\ "task" \in faults \/ ~Readable(k) \/ (IsLarge(k) /\ ~dirExists)
  /\ stage' = [stage EXCEPT ![k] = "failed"]
  /\ UNCHANGED <<inputVars, pc, enumVars, readVars, handed, payload, failed, dirVars, abandoned, died>>

(* The writer: entry k is next; what it streams is deleted if temporary.     *)
Streamed(k) ==
  CASE payload[k] = "memory" -> {}
    [] payload[k] = "input"  -> TempInput(k)
    [] payload[k] = "spill"  -> {[of |-> k, side |-> "out"]}

IsNext(k) == stage[k] # "written" /\ \A j \in 1..(k - 1) : stage[j] = "written"
Streams(k)    == stage[k] = "done" /\ ~failed

WriteEntry(k) ==
  /\ ~died /\ IsNext(k) /\ stage[k] \in {"done", "failed"}
  /\ \/ /\ Streams(k) /\ Streamed(k) \subseteq temps
        /\ temps' = temps \ Streamed(k)
        /\ UNCHANGED failed
     \/ /\ ~Streams(k)
        /\ failed' = TRUE
        /\ UNCHANGED temps
  /\ stage' = [stage EXCEPT ![k] = "written"]
  /\ UNCHANGED <<inputVars, pc, enumVars, readVars, handed, payload, dirExists, doomed, abandoned, died>>

(* An I/O error, or a file that is gone, ends the writer; a temporary file it *)
(* was streaming is deleted all the same.  The workers go on.                *)
WriterDies ==
  /\ ~died
  /\ pc \in {"feed", "read", "overflow"} \/ abandoned
  /\ \/ /\ "write" \in faults
        /\ UNCHANGED temps
     \/ \E k \in 1..Len(handed) :
          /\ IsNext(k) /\ Streams(k)
          /\ "write" \in faults \/ ~(Streamed(k) \subseteq temps)
          /\ temps' = temps \ Streamed(k)
  /\ died' = TRUE /\ failed' = TRUE
  /\ UNCHANGED <<inputVars, pc, enumVars, readVars, handed, stage, payload, dirExists, doomed, abandoned>>

PipelineStep(k) ==
  \/ CompressInMemory(k) \/ StoreLarge(k) \/ Spill(k) \/ Spilled(k)
  \/ UnitFails(k) \/ WriteEntry(k)

(* mutant: finish() does not wait *)
FinishEarly ==
  /\ pc = "feed" /\ Len(handed) = Len(list) + Len(walk)
  /\ pc' = "list"
  /\ UNCHANGED <<inputVars, enumVars, readVars, handed, sinkVars, dirVars, abandoned, died>>

(* finish() returns or throws once the writer has ended: it has taken every  *)
(* entry or died.                                                            *)
Finish ==
  /\ pc = "feed" /\ Len(handed) = Len(list) + Len(walk)
  /\ died \/ \A k \in 1..Len(handed) : stage[k] = "written"
  /\ pc' = "list"
  /\ UNCHANGED <<inputVars, enumVars, readVars, handed, sinkVars, dirVars, abandoned, died>>

-----------------------------------------------------------------------------
(* deleteRecursively(): the files it finds, then the directory itself, which *)
(* stays if there is something in it.                                        *)

ListSpillDir ==
  /\ pc = "list"
  /\ doomed' = temps /\ pc' = "delete"
  /\ UNCHANGED <<inputVars, enumVars, readVars, handed, sinkVars, dirExists, temps, abandoned, died>>

DeleteTemp ==
  /\ pc = "delete"
  /\ \E t \in doomed : doomed' = doomed \ {t} /\ temps' = temps \ {t}
  /\ UNCHANGED <<inputVars, pc, enumVars, readVars, handed, sinkVars, dirExists, abandoned, died>>

DeleteSpillDir ==
  /\ pc = "delete" /\ doomed = {}
  /\ dirExists' = (temps # {}) /\ pc' = "over"
  /\ UNCHANGED <<inputVars, enumVars, readVars, handed, sinkVars, temps, doomed, abandoned, died>>

-----------------------------------------------------------------------------
Init ==
  /\ \/ sources \in SourceLists /\ walk = <<>> /\ pc = "enumerate"
     \/ sources = <<>> /\ walk \in CopyWalks /\ pc = "open"
  /\ preserve \in BOOLEAN /\ faults \in FaultSets
  /\ source = 1 /\ walked = {} /\ seen = {} /\ list = <<>>
  /\ buf = <<>> /\ left = <<>>
  /\ handed = <<>> /\ stage = <<>> /\ payload = <<>>
  /\ dirExists = FALSE /\ temps = {} /\ doomed = {}
  /\ failed = FALSE /\ abandoned = FALSE /\ died = FALSE

(* After an abandoned walk entries may stay queued for ever. *)
Terminated == pc = "over" /\ UNCHANGED vars

Next ==
  \/ WalkFile \/ NextSource \/ SortList \/ OpenSpillDir
  \/ AddListed \/ AddDetails \/ OpenStream \/ ReadChunk \/ AddMaterialized \/ Abandon
  \/ \E k \in 1..Len(handed) : PipelineStep(k)
  \/ WriterDies
  \/ Finish \/ ListSpillDir \/ DeleteTemp \/ DeleteSpillDir
  \/ Terminated

Spec == Init /\ [][Next]_vars
=============================================================================
