------------------------------ MODULE Compress ------------------------------
(***************************************************************************)
(* One unit of ParallelZipWriter.Sink: how the entries of a batch, or the  *)
(* one entry of a singleton, become Compressed records on a pool thread,   *)
(* and what the writer thread then puts into the archive.                  *)
(*                                                                         *)
(* A content is a number that also stands for its CRC-32; 0 is the empty   *)
(* content, whose CRC-32 is 0.  What the sniffs and the two deflaters make *)
(* of a content is given by Trait.  Files are replaced as a whole: each    *)
(* time the code opens one it finds the content of that moment.            *)
(***************************************************************************)
EXTENDS Integers, Sequences, FiniteSets

CONSTANTS
  Trait,              (* what there is to know of each content                  *)
  Batches,            (* the units add() may form                               *)
  Store, SkipAlreadyCompressed,
  NativeHandles,      (* the handles a pool thread may have                     *)
  SpillThreshold,     (* larger files are never read into memory                *)
  MmapThresholds,     (* effectiveMmapThreshold, one for each heap size         *)
  SniffMinInput, SniffSample,   (* smaller inputs are never probed; the probe   *)
  FaultSets           (* what may go wrong together                             *)

Content == DOMAIN Trait
Empty   == 0
Gone      == -1                   (* in place of a content: there is no file,   *)
Abandoned == -2                   (* or one that a failing deflater has left    *)

(* size and lengths in bytes; native = 0: does not fit the output buffer.       *)
(* magic: a signature of COMPRESSED_MAGICS.  jdkSniff, nativeSniff: a probe of  *)
(* the head barely shrinks.                                                     *)
Traits == [size : Nat, magic : BOOLEAN, jdkSniff : BOOLEAN, nativeSniff : BOOLEAN,
           jdk : Nat, native : Nat]
Entry  == [kind : {"dir", "inline", "file"}, content : Content, temp : BOOLEAN]

(* read, spill: an I/O error while reading an input, while writing a temp file. *)
(* archive: while writing the archive, or a unit before this one failed.  map:  *)
(* the file cannot be mapped.  pin: the JVM cannot pin an array.  malloc: the   *)
(* batch call has no memory.  rewrite: somebody replaces a source file.         *)
FaultKinds == {"read", "spill", "archive", "map", "pin", "malloc", "rewrite"}

ASSUME TraitAssumption ==
  /\ Content \subseteq Nat /\ Empty \in Content
  /\ Trait \in [Content -> Traits]
  /\ \A c \in Content : Trait[c].size = 0 <=> c = Empty
  /\ \A c \in Content \ {Empty} : Trait[c].jdk > 0
ASSUME BatchesAssumption == Batches \subseteq Seq(Entry) \ {<<>>}
(* add() gives a directory and a file too large for memory units of their own.  *)
ASSUME UnitsAssumption ==
  \A b \in Batches : \A i \in 1..Len(b) :
    /\ b[i].kind = "dir" => b[i].content = Empty
    /\ Len(b) > 1 => b[i].kind # "dir"
    /\ Len(b) > 1 /\ b[i].kind = "file" => Trait[b[i].content].size <= SpillThreshold
ASSUME SettingsAssumption ==
  /\ Store \in BOOLEAN /\ SkipAlreadyCompressed \in BOOLEAN
  /\ NativeHandles \in SUBSET {"null", "live"} /\ NativeHandles # {}
  /\ SpillThreshold \in Nat /\ SniffMinInput \in Nat /\ SniffSample \in Nat
  /\ MmapThresholds \subseteq Nat /\ MmapThresholds # {}
  /\ FaultSets \subseteq SUBSET FaultKinds

VARIABLES
  batch, nativeHandle, mmapThreshold, faults,   (* this unit and what it meets  *)
  disk,               (* the file of each entry                                 *)
  spill,              (* the content deflated into each entry's temp file       *)
  pc, cur,            (* next step, and the entry it is about                   *)
  raws,               (* the buffers compressBatchNative has read               *)
  result,             (* the Compressed records                                 *)
  out                 (* what the writer has put into the archive               *)

unit == <<batch, nativeHandle, mmapThreshold, faults>>
vars == <<unit, disk, spill, pc, cur, raws, result, out>>

Size(c)    == Trait[c].size
Crc(c)     == c
DeclaredSize(i) == Size(batch[i].content)           (* e.size, set by add's caller *)
Present(i) == disk[i] # Gone

(* the bytes of a content, plain or deflated *)
Length(form, c) == IF form = "raw" THEN Size(c) ELSE Trait[c][form]

-----------------------------------------------------------------------------
(* Compressed: data in memory (of = its content), or a file to stream from.  *)

Compressed == [from : {"memory", "file", "spill"}, form : {"raw", "native", "jdk"},
               of : Content, crc : Content, rawSize : Nat, compSize : Nat, method : {0, 8}]

StoredBuffer(c, crc) ==
  [from |-> "memory", form |-> "raw", of |-> c, crc |-> crc,
   rawSize |-> Size(c), compSize |-> Size(c), method |-> 0]
DeflatedBuffer(form, c, crc, rawSize, compSize) ==
  [from |-> "memory", form |-> form, of |-> c, crc |-> crc,
   rawSize |-> rawSize, compSize |-> compSize, method |-> 8]
StoredFile(crc, size) ==
  [from |-> "file", form |-> "raw", of |-> Empty, crc |-> crc,
   rawSize |-> size, compSize |-> size, method |-> 0]
SpillFile(crc, rawSize, compSize) ==
  [from |-> "spill", form |-> "jdk", of |-> Empty, crc |-> crc,
   rawSize |-> rawSize, compSize |-> compSize, method |-> 8]

-----------------------------------------------------------------------------
(* The JNI calls.  A reply is the length and the CRC-32 they hand back.      *)

STORE_SENTINEL == -2
Failed         == -1

PzipCompressOrStore(c) ==
  IF Size(c) >= SniffMinInput /\ Trait[c].nativeSniff THEN STORE_SENTINEL
  ELSE IF Trait[c].native = 0 THEN Failed ELSE Trait[c].native

(* without a pinned array nothing is computed, the CRC-32 stays 0 *)
Replies(c) ==
  {[len |-> PzipCompressOrStore(c), crc |-> Crc(c)]} \cup
  (IF "pin" \in faults THEN {[len |-> Failed, crc |-> 0]} ELSE {})

(* the replies for the buffers of a batch: all of them stay 0 without memory *)
BatchReplies(buffers) ==
  {r \in [DOMAIN buffers -> UNION {Replies(c) : c \in Content}] :
     \A k \in DOMAIN buffers : r[k] \in Replies(buffers[k])} \cup
  (IF "malloc" \in faults THEN {[k \in DOMAIN buffers |-> [len |-> 0, crc |-> 0]]} ELSE {})

-----------------------------------------------------------------------------
(* In memory: the JDK deflater, and the decision between it, the native one  *)
(* and storing.                                                              *)

Bypasses(c) == c = Empty \/ (SkipAlreadyCompressed /\ Trait[c].magic)

CompressWithJdk(c, crc) ==
  IF Trait[c].jdk >= Size(c) THEN StoredBuffer(c, crc)
  ELSE DeflatedBuffer("jdk", c, crc, Size(c), Trait[c].jdk)

Judged(c, reply) ==
  IF reply.len = STORE_SENTINEL \/ reply.len >= Size(c) THEN StoredBuffer(c, reply.crc)
  ELSE IF reply.len <= 0 THEN CompressWithJdk(c, reply.crc)
  ELSE DeflatedBuffer("native", c, reply.crc, Size(c), reply.len)

CompressBytes(c) ==
  IF Store \/ Bypasses(c) THEN {StoredBuffer(c, Crc(c))}
  ELSE IF nativeHandle = "live" THEN {Judged(c, reply) : reply \in Replies(c)}
  ELSE {CompressWithJdk(c, Crc(c))}

(* the entries of a batch that go through the one native call *)
NativeIdx(contents) == {i \in 1..Len(contents) : ~Bypasses(contents[i])}

(* the place of entry i in the call's arrays, and the entry at place k          *)
PlaceOf(i, idx) == Cardinality({j \in idx : j < i}) + 1
EntryAt(k, idx) == CHOOSE i \in idx : PlaceOf(i, idx) = k

(* mutants: a signature is not looked for in a batch; the replies are taken    *)
(* in reverse                                                                  *)
BatchResultTries(contents, idx, replies) ==
  [i \in 1..Len(contents) |->
     IF contents[i] = Empty THEN StoredBuffer(Empty, 0)
     ELSE IF Bypasses(contents[i]) THEN CompressWithJdk(contents[i], Crc(contents[i]))
     ELSE Judged(contents[i], replies[PlaceOf(i, idx)])]
BatchResultMixedUp(contents, idx, replies) ==
  [i \in 1..Len(contents) |->
     IF Bypasses(contents[i]) THEN StoredBuffer(contents[i], Crc(contents[i]))
     ELSE Judged(contents[i], replies[Cardinality(idx) + 1 - PlaceOf(i, idx)])]

BatchResult(contents, idx, replies) ==
  [i \in 1..Len(contents) |->
     IF Bypasses(contents[i]) THEN StoredBuffer(contents[i], Crc(contents[i]))
     ELSE Judged(contents[i], replies[PlaceOf(i, idx)])]

-----------------------------------------------------------------------------
(* The pool thread: compressBatch().                                         *)

ReadContent(i) == IF batch[i].kind = "inline" THEN batch[i].content ELSE disk[i]
IsLarge(i)     == batch[i].kind = "file" /\ DeclaredSize(i) > SpillThreshold

TakesBatchCall == ~Store /\ nativeHandle = "live" /\ Len(batch) > 1

(* one entry of the unit is done; after the last one the writer takes over *)
Deliver(record) ==
  /\ result' = Append(result, record)
  /\ pc' = IF cur = Len(batch) THEN "write" ELSE "compress"
  /\ cur' = IF cur = Len(batch) THEN 1 ELSE cur + 1

Fail == pc' = "failed" /\ UNCHANGED <<unit, disk, spill, cur, raws, result, out>>
GoTo(label) == pc' = label /\ UNCHANGED <<unit, disk, spill, cur, raws, result, out>>

ReadBatched ==
  /\ pc = "readBatch"
  /\ raws' = Append(raws, ReadContent(cur))
  /\ pc' = IF cur = Len(batch) THEN "native" ELSE "readBatch"
  /\ cur' = IF cur = Len(batch) THEN 1 ELSE cur + 1
  /\ UNCHANGED <<unit, disk, spill, result, out>>

CompressBatchNative ==
  /\ pc = "native"
  /\ LET idx == NativeIdx(raws)
     IN  \E replies \in BatchReplies([k \in 1..Cardinality(idx) |-> raws[EntryAt(k, idx)]]) :
           result' = BatchResult(raws, idx, replies)
  /\ pc' = "write"
  /\ UNCHANGED <<unit, disk, spill, cur, raws, out>>

CompressSmall ==
  /\ pc = "compress" /\ ~IsLarge(cur)
  /\ IF batch[cur].kind = "dir" THEN Deliver(StoredBuffer(Empty, 0))
     ELSE \E record \in CompressBytes(ReadContent(cur)) : Deliver(record)
  /\ UNCHANGED <<unit, disk, spill, raws, out>>

(* compressLarge() opens the file again for each of its questions.           *)
BeginLarge ==
  /\ pc = "compress" /\ IsLarge(cur)
  /\ GoTo(IF Store THEN "crc" ELSE IF SkipAlreadyCompressed THEN "magic" ELSE "probe")

ReadMagic ==
  /\ pc = "magic"
  /\ GoTo(IF Trait[disk[cur]].magic THEN "crc" ELSE "probe")

(* a file that has shrunk below one sample is not judged *)
LooksIncompressible(c, declared) ==
  declared >= SniffMinInput /\ Size(c) >= SniffSample /\ Trait[c].jdkSniff

AfterProbe ==
  IF nativeHandle = "live" /\ DeclaredSize(cur) <= mmapThreshold THEN "map" ELSE "deflate"

Probe ==
  /\ pc = "probe"
  /\ GoTo(IF LooksIncompressible(disk[cur], DeclaredSize(cur)) THEN "crc" ELSE AfterProbe)

CrcOf ==
  /\ pc = "crc"
  /\ Deliver(StoredFile(Crc(disk[cur]), DeclaredSize(cur)))
  /\ UNCHANGED <<unit, disk, spill, raws, out>>

(* The mapped file has the size the entry was added with, or is not used.     *)
SameSize(c) == Size(c) = DeclaredSize(cur)

MappedResult(c, reply) ==
  IF reply.len = STORE_SENTINEL \/ reply.len >= DeclaredSize(cur)
  THEN StoredFile(reply.crc, DeclaredSize(cur))
  ELSE DeflatedBuffer("native", c, reply.crc, DeclaredSize(cur), reply.len)

TryMmapNativeDeflate ==
  /\ pc = "map"
  /\ \/ /\ SameSize(disk[cur])
        /\ \E reply \in Replies(disk[cur]) :
             IF reply.len = Failed THEN GoTo("deflate")
             ELSE /\ Deliver(MappedResult(disk[cur], reply))
                  /\ UNCHANGED <<unit, disk, spill, raws, out>>
     \/ (~SameSize(disk[cur]) \/ "map" \in faults) /\ GoTo("deflate")

(* a temp input that its deflated form stands for is deleted *)
InputAfter == IF batch[cur].temp THEN Gone ELSE disk[cur]

(* mutant: a temp input is deleted as soon as it was deflated *)
DeflateToFileDeletes ==
  /\ pc = "deflate"
  /\ disk' = [disk EXCEPT ![cur] = InputAfter]
  /\ IF Trait[disk[cur]].jdk >= DeclaredSize(cur)
     THEN Deliver(StoredFile(Crc(disk[cur]), DeclaredSize(cur))) /\ UNCHANGED spill
     ELSE /\ Deliver(SpillFile(Crc(disk[cur]), DeclaredSize(cur), Trait[disk[cur]].jdk))
          /\ spill' = [spill EXCEPT ![cur] = disk[cur]]
  /\ UNCHANGED <<unit, raws, out>>

(* The file is deflated into a temp file, which stands for it from then on.   *)
(* An input that did not shrink is streamed from where it is instead and the  *)
(* temp file deleted.                                                         *)
DeflateToFile ==
  /\ pc = "deflate"
  /\ LET crc      == Crc(disk[cur])
         compSize == Trait[disk[cur]].jdk
     IN  IF compSize >= DeclaredSize(cur)
         THEN Deliver(StoredFile(crc, DeclaredSize(cur))) /\ UNCHANGED <<disk, spill>>
         ELSE /\ Deliver(SpillFile(crc, DeclaredSize(cur), compSize))
              /\ spill' = [spill EXCEPT ![cur] = disk[cur]]
              /\ disk' = [disk EXCEPT ![cur] = InputAfter]
  /\ UNCHANGED <<unit, raws, out>>

(* An I/O error in any of these steps makes the unit throw.                   *)
WorkerFails ==
  /\ "read" \in faults /\ batch[cur].kind = "file"
  /\ \/ pc \in {"readBatch", "magic", "probe", "crc"}
     \/ pc = "compress" /\ ~IsLarge(cur)
  /\ Fail

(* Nobody catches an error of the deflater, so its temp file stays, if it got *)
(* as far as making one.                                                      *)
DeflateToFileFails ==
  /\ pc = "deflate" /\ faults \cap {"read", "spill"} # {}
  /\ pc' = "failed"
  /\ \E left \in {Gone, Abandoned} : spill' = [spill EXCEPT ![cur] = left]
  /\ UNCHANGED <<unit, disk, cur, raws, result, out>>

-----------------------------------------------------------------------------
(* The writer thread: writePayload().                                        *)

Source(c) == IF c.from = "memory" THEN c.of ELSE IF c.from = "file" THEN disk[cur] ELSE spill[cur]

(* mutant: only a spill file is deleted, not a temp input that is stored *)
DeleteStreamedSpill(c) ==
  /\ disk' = disk
  /\ spill' = IF c.from = "spill" THEN [spill EXCEPT ![cur] = Gone] ELSE spill

(* a temp file that was streamed is deleted, whether or not that went well *)
DeleteStreamed(c) ==
  /\ disk'  = IF c.from = "file" /\ batch[cur].temp THEN [disk EXCEPT ![cur] = Gone] ELSE disk
  /\ spill' = IF c.from = "spill" THEN [spill EXCEPT ![cur] = Gone] ELSE spill

WritePayload ==
  /\ pc = "write"
  /\ LET c == result[cur]
         complete == Source(c) # Gone /\ Length(c.form, Source(c)) >= c.compSize
     IN  /\ DeleteStreamed(c)
         /\ IF complete
            THEN /\ out' = Append(out, [c EXCEPT !.of = Source(c)])
                 /\ pc' = IF cur = Len(batch) THEN "done" ELSE "write"
                 /\ cur' = IF cur = Len(batch) THEN cur ELSE cur + 1
            ELSE pc' = "failed" /\ UNCHANGED <<out, cur>>   (* no file, or EOF *)
  /\ UNCHANGED <<unit, raws, result>>

(* The writer gives up, or drops the unit because one before it failed: what  *)
(* was to be streamed stays, unless it is what was being streamed.            *)
WriterFails ==
  /\ pc = "write"
  /\ \/ "archive" \in faults /\ UNCHANGED <<disk, spill>>
     \/ /\ "archive" \in faults \/ ("read" \in faults /\ result[cur].from # "memory")
        /\ DeleteStreamed(result[cur])
  /\ pc' = "failed"
  /\ UNCHANGED <<unit, cur, raws, result, out>>

-----------------------------------------------------------------------------
(* Anyone may replace a source file between two reads.                       *)
Rewrite(i) ==
  /\ "rewrite" \in faults /\ pc \notin {"done", "failed"}
  /\ batch[i].kind = "file" /\ ~batch[i].temp /\ Present(i)
  /\ \E c \in Content : disk' = [disk EXCEPT ![i] = c]
  /\ UNCHANGED <<unit, spill, pc, cur, raws, result, out>>

Init ==
  /\ batch \in Batches /\ nativeHandle \in NativeHandles /\ mmapThreshold \in MmapThresholds
  /\ faults \in FaultSets
  /\ disk = [i \in 1..Len(batch) |-> IF batch[i].kind = "file" THEN batch[i].content ELSE Gone]
  /\ spill = [i \in 1..Len(batch) |-> Gone]
  /\ pc = IF TakesBatchCall THEN "readBatch" ELSE "compress"
  /\ cur = 1 /\ raws = <<>> /\ result = <<>> /\ out = <<>>

Terminated == pc \in {"done", "failed"} /\ UNCHANGED vars

Next ==
  \/ ReadBatched \/ CompressBatchNative
  \/ CompressSmall
  \/ BeginLarge \/ ReadMagic \/ Probe \/ CrcOf \/ TryMmapNativeDeflate \/ DeflateToFile
  \/ WorkerFails \/ DeflateToFileFails
  \/ WritePayload \/ WriterFails
  \/ \E i \in 1..Len(batch) : Rewrite(i)
  \/ Terminated

Spec == Init /\ [][Next]_vars

-----------------------------------------------------------------------------
(* What the compression of a unit must guarantee.                            *)

(* A reader of the archive can extract entry k: the payload has the sizes    *)
(* and, once inflated, the CRC-32 that its headers state.                    *)
Readable(k) ==
  /\ out[k].compSize = Length(out[k].form, out[k].of)
  /\ out[k].rawSize = Size(out[k].of)
  /\ out[k].crc = Crc(out[k].of)
  /\ out[k].method = IF out[k].form = "raw" THEN 0 ELSE 8

(* Whatever path an entry takes, what is archived is readable, is the        *)
(* content the entry was added with, and stands at the entry's own place.    *)
(* If files are replaced between the steps of the unit, that still holds of  *)
(* what is read into memory except for the content: sizes and CRC-32 are     *)
(* those of the bytes that were read, never the size the entry came with.    *)
ArchivedFaithfully ==
  \A k \in 1..Len(out) :
    IF "rewrite" \notin faults THEN Readable(k) /\ out[k].of = batch[k].content
    ELSE ~IsLarge(k) => Readable(k)

(* "without changing what gets compressed": each entry of a batch is archived *)
(* as it would be in a unit of its own.                                       *)
BatchIndependent ==
  Len(batch) > 1 /\ "rewrite" \notin faults =>
    \A k \in 1..Len(out) :
      \E c \in (IF batch[k].kind = "dir" THEN {StoredBuffer(Empty, 0)}
                ELSE CompressBytes(batch[k].content)) : out[k] = c

(* A unit that nothing goes wrong for does not throw: no path deletes a file  *)
(* that a later step, or the writer, still reads.                             *)
NoSpuriousFailure ==
  pc = "failed" => faults \cap {"read", "spill", "archive", "rewrite"} # {}

(* Files end as they should.  The user's own are never deleted.  A spill file *)
(* exists only from the end of its deflater until it is streamed, and stays   *)
(* only if the unit fails: then it is the one file of this one large entry,   *)
(* which the removal of the spill directory takes away.  A temp input is left *)
(* by a written unit only if it was compressed from memory or a mapping, and  *)
(* it is there together with a spill file only if deflating it failed.        *)
FilesDisposed ==
  \A k \in 1..Len(batch) :
    /\ batch[k].kind = "file" /\ ~batch[k].temp => Present(k)
    /\ spill[k] # Gone => k = cur /\ IsLarge(k) /\ pc \in {"write", "failed"}
    /\ batch[k].temp /\ Present(k) => spill[k] \in {Gone, Abandoned}
    /\ batch[k].temp /\ Present(k) /\ pc = "done" => result[k].from = "memory"

-----------------------------------------------------------------------------
(* What comments and documents say and the code does not do.                 *)

(* "CRC-32 ... always filled in by the native call regardless of outcome":    *)
(* the archived CRC-32 is that of the archived content whatever the native    *)
(* call returns.                                                              *)
CrcAlwaysFilledIn == \A k \in 1..Len(out) : out[k].crc = Crc(out[k].of)
=============================================================================
