--------------------------- MODULE CompressProofs ---------------------------
(* Proofs that a unit is archived faithfully and that its files end as they  *)
(* should, for every table of contents, every set of units and every setting. *)
EXTENDS Compress, FiniteSetTheorems, SequenceTheorems, TLAPS

-----------------------------------------------------------------------------
(* The inductive invariant.                                                  *)

Stable == "rewrite" \notin faults
Pinned == faults \cap {"pin", "malloc"} = {}

LargeSteps   == {"magic", "probe", "crc", "map", "deflate"}
Compressing  == {"compress"} \cup LargeSteps

TypeInv ==
  /\ batch \in Batches /\ faults \in FaultSets
  /\ disk \in [1..Len(batch) -> Content \cup {Gone}]
  /\ spill \in [1..Len(batch) -> Content \cup {Gone, Abandoned}]
  /\ cur \in 1..Len(batch)
  /\ raws \in Seq(Content) /\ result \in Seq(Compressed) /\ out \in Seq(Compressed)

(* How far raws, result and out have grown at each step. *)
StageInv ==
  /\ pc \in {"readBatch", "native", "write", "done", "failed"} \cup Compressing
  /\ pc = "readBatch" => TakesBatchCall /\ Len(raws) = cur - 1 /\ result = <<>> /\ out = <<>>
  /\ pc = "native" =>
       TakesBatchCall /\ Len(raws) = Len(batch) /\ cur = 1 /\ result = <<>> /\ out = <<>>
  /\ pc \in Compressing => Len(result) = cur - 1 /\ out = <<>>
  /\ pc \in LargeSteps => IsLarge(cur)
  /\ pc = "write" => Len(result) = Len(batch) /\ Len(out) = cur - 1
  /\ pc = "done" => Len(result) = Len(batch) /\ Len(out) = Len(batch)
  /\ Len(result) <= Len(batch) /\ Len(out) <= Len(batch)

RawsInv == Stable => \A k \in 1..Len(raws) : raws[k] = batch[k].content

(* A record of data in memory, of content c, describes c. *)
Describes(r, c, crc) ==
  /\ r.of = c /\ r.crc = crc
  /\ r.rawSize = Size(c)
  /\ r.compSize = Length(r.form, c)
  /\ r.method = IF r.form = "raw" THEN 0 ELSE 8

MemoryRecord(k, r) ==
  /\ r.of \in Content
  /\ Describes(r, r.of, r.crc)
  /\ Pinned => r.crc = Crc(r.of)
  /\ Stable => r.of = batch[k].content

FileRecord(k, r) ==
  /\ IsLarge(k) /\ r.form = "raw" /\ r.method = 0
  /\ r.rawSize = DeclaredSize(k) /\ r.compSize = DeclaredSize(k)
  /\ Stable /\ Pinned => r.crc = Crc(batch[k].content)

SpillRecord(k, r) ==
  /\ IsLarge(k) /\ r.form = "jdk" /\ r.method = 8
  /\ r.rawSize = DeclaredSize(k)
  /\ Stable => r.crc = Crc(batch[k].content)

RecordOk(k, r) ==
  \/ r.from = "memory" /\ MemoryRecord(k, r)
  \/ r.from = "file" /\ FileRecord(k, r)
  \/ r.from = "spill" /\ SpillRecord(k, r)

RecordsInv == \A k \in 1..Len(result) : RecordOk(k, result[k])

(* What an entry of a batch is on its own. *)
Alone(k) == IF batch[k].kind = "dir" THEN {StoredBuffer(Empty, 0)}
            ELSE CompressBytes(batch[k].content)
AloneOk(k, r) ==
  Len(batch) > 1 /\ Stable /\ "malloc" \notin faults => r \in Alone(k)
AloneInv == /\ \A k \in 1..Len(result) : AloneOk(k, result[k])
            /\ \A k \in 1..Len(out) : AloneOk(k, out[k])

(* The file of an entry is there for as long as a step still opens it, and   *)
(* the writer leaves a temp input only if it was not asked to stream it.     *)
FileOk(k) ==
  /\ Stable => disk[k] \in {Gone, batch[k].content}
  /\ batch[k].kind = "file" /\ ~batch[k].temp => disk[k] # Gone
  /\ batch[k].kind = "file" /\ k > Len(result) => disk[k] # Gone
  /\ pc # "failed" /\ k > Len(out) /\ k <= Len(result) /\ result[k].from = "file"
       => disk[k] # Gone
  /\ pc # "failed" /\ k <= Len(out) /\ batch[k].temp /\ disk[k] # Gone
       => result[k].from = "memory"

(* Until the unit fails, there is a temp file exactly from the deflater's end *)
(* to the streaming.                                                          *)
SpillOk(k) ==
  /\ spill[k] # Gone => IsLarge(k)
  /\ batch[k].temp /\ disk[k] # Gone => spill[k] \in {Gone, Abandoned}
  /\ pc # "failed" /\ k > Len(result) => spill[k] = Gone
  /\ pc # "failed" /\ k <= Len(result) /\ result[k].from # "spill" => spill[k] = Gone
  /\ pc # "failed" /\ k <= Len(out) => spill[k] = Gone
  /\ pc # "failed" /\ k > Len(out) /\ k <= Len(result) /\ result[k].from = "spill" =>
       /\ spill[k] \in Content /\ result[k].compSize = Trait[spill[k]].jdk
       /\ Stable => spill[k] = batch[k].content

FilesInv == \A k \in 1..Len(batch) : FileOk(k) /\ SpillOk(k)

WrittenOk(k, r) ==
  LET readable == Describes(r, r.of, Crc(r.of)) IN
  Pinned => IF Stable THEN readable /\ r.of = batch[k].content ELSE ~IsLarge(k) => readable
WrittenInv == \A k \in 1..Len(out) : WrittenOk(k, out[k])

IInv == /\ TypeInv /\ StageInv /\ RawsInv /\ RecordsInv /\ AloneInv /\ FilesInv
        /\ WrittenInv /\ NoSpuriousFailure

-----------------------------------------------------------------------------
(* Constants and types.                                                      *)

LEMMA ContentFacts ==
  ASSUME NEW c \in Content
  PROVE  /\ c \in Nat /\ c # Gone
         /\ Size(c) \in Nat /\ Trait[c].jdk \in Nat /\ Trait[c].native \in Nat
         /\ c # Empty => Size(c) > 0 /\ Trait[c].jdk > 0
         /\ Size(c) = 0 => c = Empty
<1>1. c \in Nat /\ Trait[c] \in Traits
  BY TraitAssumption
<1>2. Size(c) \in Nat /\ Trait[c].jdk \in Nat /\ Trait[c].native \in Nat
  BY <1>1 DEF Traits, Size
<1>3. Size(c) = 0 <=> c = Empty
  BY TraitAssumption DEF Size
<1>4. c # Empty => Trait[c].jdk > 0
  BY TraitAssumption
<1> QED BY <1>1, <1>2, <1>3, <1>4 DEF Gone

LEMMA EmptyIsContent == Empty \in Content /\ 0 \in Content /\ Size(Empty) = 0
<1>1. Empty \in Content
  BY TraitAssumption
<1>2. Size(Empty) = 0
  BY <1>1, TraitAssumption DEF Size
<1> QED BY <1>1, <1>2 DEF Empty

LEMMA BatchFacts ==
  ASSUME batch \in Batches
  PROVE  /\ Len(batch) \in Nat /\ Len(batch) >= 1
         /\ \A k \in 1..Len(batch) :
              /\ batch[k] \in Entry /\ batch[k].content \in Content
              /\ batch[k].kind \in {"dir", "inline", "file"}
              /\ DeclaredSize(k) \in Nat
              /\ batch[k].kind = "dir" => batch[k].content = Empty
              /\ Len(batch) > 1 => batch[k].kind # "dir" /\ ~IsLarge(k)
<1>1. batch \in Seq(Entry) /\ batch # <<>>
  BY BatchesAssumption
<1>2. Len(batch) \in Nat /\ Len(batch) >= 1
  BY <1>1, EmptySeq
<1>3. ASSUME NEW k \in 1..Len(batch)
      PROVE  /\ batch[k] \in Entry /\ batch[k].content \in Content
             /\ batch[k].kind \in {"dir", "inline", "file"}
             /\ DeclaredSize(k) \in Nat
             /\ batch[k].kind = "dir" => batch[k].content = Empty
             /\ Len(batch) > 1 => batch[k].kind # "dir" /\ ~IsLarge(k)
  <2>1. batch[k] \in Entry
    BY <1>1, ElementOfSeq
  <2>2. batch[k].content \in Content /\ batch[k].kind \in {"dir", "inline", "file"}
    BY <2>1 DEF Entry
  <2>3. DeclaredSize(k) \in Nat
    BY <2>2, ContentFacts DEF DeclaredSize
  <2>4. batch[k].kind = "dir" => batch[k].content = Empty
    BY UnitsAssumption
  <2>5. ASSUME Len(batch) > 1 PROVE batch[k].kind # "dir" /\ ~IsLarge(k)
    <3>1. batch[k].kind # "dir"
      BY <2>5, UnitsAssumption
    <3>2. batch[k].kind = "file" => DeclaredSize(k) <= SpillThreshold
      BY <2>5, UnitsAssumption DEF DeclaredSize, Size
    <3> QED BY <2>3, <3>1, <3>2, SettingsAssumption DEF IsLarge
  <2> QED BY <2>1, <2>2, <2>3, <2>4, <2>5
<1> QED BY <1>2, <1>3

-----------------------------------------------------------------------------
(* The records that the in-memory paths make.                                *)

LEMMA StoredDescribes ==
  ASSUME NEW c \in Content, NEW crc \in Content
  PROVE  /\ StoredBuffer(c, crc) \in Compressed /\ StoredBuffer(c, crc).from = "memory"
         /\ Describes(StoredBuffer(c, crc), c, crc)
<1>1. Size(c) \in Nat /\ crc \in Content
  BY ContentFacts
<1> QED BY <1>1 DEF StoredBuffer, Compressed, Describes, Length

LEMMA DeflatedDescribes ==
  ASSUME NEW form \in {"native", "jdk"}, NEW c \in Content, NEW crc \in Content
  PROVE  LET r == DeflatedBuffer(form, c, crc, Size(c), Trait[c][form]) IN
         r \in Compressed /\ r.from = "memory" /\ Describes(r, c, crc)
<1>1. Size(c) \in Nat /\ Trait[c].native \in Nat /\ Trait[c].jdk \in Nat
  BY ContentFacts
<1>2. CASE form = "native"
  BY <1>1, <1>2 DEF DeflatedBuffer, Compressed, Describes, Length
<1>3. CASE form = "jdk"
  BY <1>1, <1>3 DEF DeflatedBuffer, Compressed, Describes, Length
<1> QED BY <1>2, <1>3

LEMMA JdkDescribes ==
  ASSUME NEW c \in Content, NEW crc \in Content
  PROVE  LET r == CompressWithJdk(c, crc) IN
         r \in Compressed /\ r.from = "memory" /\ Describes(r, c, crc)
<1>1. CASE Trait[c].jdk >= Size(c)
  BY <1>1, StoredDescribes DEF CompressWithJdk
<1>2. CASE ~(Trait[c].jdk >= Size(c))
  BY <1>2, DeflatedDescribes DEF CompressWithJdk
<1> QED BY <1>1, <1>2

(* What a native call can hand back for a content. *)
GoodReply(reply, c) ==
  /\ reply.len \in {STORE_SENTINEL, Failed, 0, Trait[c].native}
  /\ reply.crc \in {0, Crc(c)}
  /\ Pinned => reply.crc = Crc(c)

LEMMA RepliesGood ==
  ASSUME NEW c \in Content, NEW reply \in Replies(c)
  PROVE  GoodReply(reply, c)
<1>1. PzipCompressOrStore(c) \in {STORE_SENTINEL, Failed, 0, Trait[c].native}
  BY DEF PzipCompressOrStore
<1>2. CASE reply = [len |-> PzipCompressOrStore(c), crc |-> Crc(c)]
  BY <1>1, <1>2 DEF GoodReply
<1>3. CASE "pin" \in faults /\ reply = [len |-> Failed, crc |-> 0]
  BY <1>3 DEF GoodReply, Pinned
<1> QED BY <1>2, <1>3 DEF Replies

LEMMA JudgedDescribes ==
  ASSUME NEW c \in Content, NEW reply, GoodReply(reply, c)
  PROVE  LET r == Judged(c, reply) IN
         r \in Compressed /\ r.from = "memory" /\ Describes(r, c, reply.crc)
<1>1. reply.crc \in Content
  BY EmptyIsContent DEF GoodReply, Crc
<1>2. CASE reply.len = STORE_SENTINEL \/ reply.len >= Size(c)
  BY <1>1, <1>2, StoredDescribes DEF Judged
<1>3. CASE ~(reply.len = STORE_SENTINEL \/ reply.len >= Size(c)) /\ reply.len <= 0
  BY <1>1, <1>3, JdkDescribes DEF Judged
<1>4. CASE ~(reply.len = STORE_SENTINEL \/ reply.len >= Size(c)) /\ ~(reply.len <= 0)
  <2>1. reply.len = Trait[c].native
    BY <1>4 DEF GoodReply, STORE_SENTINEL, Failed
  <2>2. Judged(c, reply) = DeflatedBuffer("native", c, reply.crc, Size(c), Trait[c]["native"])
    BY <1>4, <2>1 DEF Judged
  <2> QED BY <1>1, <2>2, DeflatedDescribes
<1> QED BY <1>2, <1>3, <1>4

LEMMA BytesDescribe ==
  ASSUME NEW c \in Content, NEW r \in CompressBytes(c)
  PROVE  /\ r \in Compressed /\ r.from = "memory"
         /\ Describes(r, c, r.crc)
         /\ Pinned => r.crc = Crc(c)
<1>1. Crc(c) \in Content
  BY DEF Crc
<1>2. CASE Store \/ Bypasses(c)
  <2>1. r = StoredBuffer(c, Crc(c))
    BY <1>2 DEF CompressBytes
  <2> QED BY <1>1, <2>1, StoredDescribes DEF Describes
<1>3. CASE ~(Store \/ Bypasses(c)) /\ nativeHandle = "live"
  <2>1. PICK reply \in Replies(c) : r = Judged(c, reply)
    BY <1>3 DEF CompressBytes
  <2>2. GoodReply(reply, c)
    BY RepliesGood
  <2> QED BY <2>1, <2>2, JudgedDescribes DEF Describes, GoodReply
<1>4. CASE ~(Store \/ Bypasses(c)) /\ nativeHandle # "live"
  <2>1. r = CompressWithJdk(c, Crc(c))
    BY <1>4 DEF CompressBytes
  <2> QED BY <1>1, <2>1, JdkDescribes DEF Describes
<1> QED BY <1>2, <1>3, <1>4

-----------------------------------------------------------------------------
(* The arrays of a batch call: an entry's place is one of the call's, and    *)
(* the entry at that place is this one.                                      *)

LEMMA PlacesDistinct ==
  ASSUME NEW n \in Nat, NEW idx \in SUBSET (1..n), NEW i \in idx, NEW j \in idx, i < j
  PROVE  PlaceOf(i, idx) < PlaceOf(j, idx)
<1> DEFINE below(x) == {y \in idx : y < x}
<1>1. IsFiniteSet(idx)
  <2>1. IsFiniteSet(1..n)
    BY FS_Interval
  <2> QED BY <2>1, FS_Subset
<1>2. IsFiniteSet(below(i)) /\ IsFiniteSet(below(j))
  BY <1>1, FS_Subset
<1>3. i \notin below(i) /\ below(i) \cup {i} \subseteq below(j)
  <2>1. \A y \in idx : y \in Int
    OBVIOUS
  <2>2. ~(i < i) /\ \A y \in idx : y < i => y < j
    BY <2>1
  <2> QED BY <2>2
<1>4. /\ IsFiniteSet(below(i) \cup {i})
      /\ Cardinality(below(i) \cup {i}) = Cardinality(below(i)) + 1
  BY <1>2, <1>3, FS_AddElement
<1>5. Cardinality(below(i)) + 1 <= Cardinality(below(j))
  BY <1>2, <1>3, <1>4, FS_Subset
<1>6. Cardinality(below(i)) \in Nat /\ Cardinality(below(j)) \in Nat
  BY <1>2, FS_CardinalityType
<1>7. PlaceOf(i, idx) = Cardinality(below(i)) + 1 /\ PlaceOf(j, idx) = Cardinality(below(j)) + 1
  BY DEF PlaceOf
<1> HIDE DEF below
<1> QED BY <1>5, <1>6, <1>7

LEMMA PlaceInCall ==
  ASSUME NEW n \in Nat, NEW idx \in SUBSET (1..n), NEW i \in idx
  PROVE  PlaceOf(i, idx) \in 1..Cardinality(idx) /\ EntryAt(PlaceOf(i, idx), idx) = i
<1> DEFINE below == {y \in idx : y < i}
<1>1. IsFiniteSet(idx) /\ IsFiniteSet(below)
  <2>1. IsFiniteSet(1..n)
    BY FS_Interval
  <2>2. IsFiniteSet(idx)
    BY <2>1, FS_Subset
  <2> QED BY <2>2, FS_Subset
<1>2. i \notin below /\ below \cup {i} \subseteq idx
  OBVIOUS
<1>3. /\ IsFiniteSet(below \cup {i})
      /\ Cardinality(below \cup {i}) = Cardinality(below) + 1
  BY <1>1, <1>2, FS_AddElement
<1>4. Cardinality(below) + 1 <= Cardinality(idx)
  BY <1>1, <1>2, <1>3, FS_Subset
<1>5. Cardinality(below) \in Nat /\ Cardinality(idx) \in Nat
  BY <1>1, FS_CardinalityType
<1>6. PlaceOf(i, idx) = Cardinality(below) + 1
  BY DEF PlaceOf
<1>7. PlaceOf(i, idx) \in 1..Cardinality(idx)
  <2> HIDE DEF below
  <2> QED BY <1>4, <1>5, <1>6
<1>8. \A j \in idx : PlaceOf(j, idx) = PlaceOf(i, idx) => j = i
  <2> SUFFICES ASSUME NEW j \in idx, j # i PROVE PlaceOf(j, idx) # PlaceOf(i, idx)
    OBVIOUS
  <2>1. PlaceOf(i, idx) \in Int /\ PlaceOf(j, idx) \in Int
    <3>1. IsFiniteSet({y \in idx : y < j})
      BY <1>1, FS_Subset
    <3> QED BY <1>7, <3>1, FS_CardinalityType DEF PlaceOf
  <2>2. CASE i < j
    BY <2>1, <2>2, PlacesDistinct
  <2>3. CASE j < i
    BY <2>1, <2>3, PlacesDistinct
  <2> QED BY <2>2, <2>3
<1> QED BY <1>7, <1>8 DEF EntryAt

(* Each entry of the call is judged by a reply to its own content. *)
LEMMA ReplyOfEntry ==
  ASSUME NEW contents \in Seq(Content), NEW i \in NativeIdx(contents),
         NEW replies \in BatchReplies([k \in 1..Cardinality(NativeIdx(contents)) |->
                                          contents[EntryAt(k, NativeIdx(contents))]])
  PROVE  LET reply == replies[PlaceOf(i, NativeIdx(contents))] IN
         /\ GoodReply(reply, contents[i])
         /\ "malloc" \notin faults => reply \in Replies(contents[i])
<1> DEFINE idx     == NativeIdx(contents)
           buffers == [k \in 1..Cardinality(idx) |-> contents[EntryAt(k, idx)]]
           place   == PlaceOf(i, idx)
<1>1. Len(contents) \in Nat /\ idx \in SUBSET (1..Len(contents)) /\ i \in 1..Len(contents)
  BY DEF NativeIdx
<1>2. place \in 1..Cardinality(idx) /\ EntryAt(place, idx) = i
  BY <1>1, PlaceInCall
<1>3. buffers[place] = contents[i] /\ place \in DOMAIN buffers
  BY <1>2
<1>4. contents[i] \in Content
  BY <1>1, ElementOfSeq
<1>5. CASE \A k \in DOMAIN buffers : replies[k] \in Replies(buffers[k])
  BY <1>3, <1>4, <1>5, RepliesGood
<1>6. CASE "malloc" \in faults /\ replies = [k \in DOMAIN buffers |-> [len |-> 0, crc |-> 0]]
  <2>1. replies[place] = [len |-> 0, crc |-> 0]
    BY <1>3, <1>6
  <2>2. GoodReply([len |-> 0, crc |-> 0], contents[i])
    BY <1>6 DEF GoodReply, Pinned
  <2> QED BY <1>6, <2>1, <2>2
<1> QED BY <1>5, <1>6 DEF BatchReplies

LEMMA BatchDescribes ==
  ASSUME NEW contents \in Seq(Content),
         NEW replies \in BatchReplies([k \in 1..Cardinality(NativeIdx(contents)) |->
                                          contents[EntryAt(k, NativeIdx(contents))]]),
         NEW i \in 1..Len(contents),
         ~Store, nativeHandle = "live"
  PROVE  LET r == BatchResult(contents, NativeIdx(contents), replies)[i] IN
         /\ r \in Compressed /\ r.from = "memory"
         /\ Describes(r, contents[i], r.crc)
         /\ Pinned => r.crc = Crc(contents[i])
         /\ "malloc" \notin faults => r \in CompressBytes(contents[i])
<1> DEFINE idx == NativeIdx(contents)
           r   == BatchResult(contents, idx, replies)[i]
<1>1. contents[i] \in Content /\ Crc(contents[i]) \in Content
  BY ElementOfSeq DEF Crc
<1>2. CASE Bypasses(contents[i])
  <2>1. r = StoredBuffer(contents[i], Crc(contents[i]))
    BY <1>2 DEF BatchResult
  <2>2. r \in CompressBytes(contents[i])
    BY <1>2, <2>1 DEF CompressBytes
  <2> QED BY <1>1, <2>1, <2>2, StoredDescribes DEF Describes
<1>3. CASE ~Bypasses(contents[i])
  <2> DEFINE reply == replies[PlaceOf(i, idx)]
  <2>1. r = Judged(contents[i], reply)
    BY <1>3 DEF BatchResult
  <2>2. i \in idx
    BY <1>3 DEF NativeIdx
  <2>3. /\ GoodReply(reply, contents[i])
        /\ "malloc" \notin faults => reply \in Replies(contents[i])
    BY <2>2, ReplyOfEntry
  <2>4. "malloc" \notin faults => r \in CompressBytes(contents[i])
    BY <1>3, <2>1, <2>3 DEF CompressBytes
  <2> HIDE DEF r, reply
  <2>5. r \in Compressed /\ r.from = "memory" /\ Describes(r, contents[i], reply.crc)
    BY <1>1, <2>1, <2>3, JudgedDescribes
  <2>6. Describes(r, contents[i], r.crc) /\ r.crc = reply.crc
    BY <2>5 DEF Describes
  <2>7. Pinned => r.crc = Crc(contents[i])
    BY <2>3, <2>6 DEF GoodReply
  <2> QED BY <2>4, <2>5, <2>6, <2>7 DEF r
<1> QED BY <1>2, <1>3

-----------------------------------------------------------------------------
(* Steps.  The unit itself never changes, and neither do the facts about it. *)

LEMMA UnitFixed ==
  ASSUME IInv, UNCHANGED unit
  PROVE  /\ batch' \in Batches /\ faults' \in FaultSets
         /\ batch' = batch /\ Stable' = Stable /\ Pinned' = Pinned
         /\ TakesBatchCall' = TakesBatchCall
         /\ \A k : IsLarge(k)' = IsLarge(k) /\ DeclaredSize(k)' = DeclaredSize(k)
BY DEF unit, IInv, TypeInv, Stable, Pinned, TakesBatchCall, IsLarge, DeclaredSize

LEMMA RecordsKept ==
  ASSUME UNCHANGED unit, \A k \in 1..Len(result') : RecordOk(k, result'[k])
  PROVE  RecordsInv'
BY DEF unit, RecordsInv, RecordOk, MemoryRecord, FileRecord, SpillRecord, Describes, Stable,
       Pinned, IsLarge, DeclaredSize, Size, Length, Crc

LEMMA WrittenKept ==
  ASSUME UNCHANGED unit, \A k \in 1..Len(out') : WrittenOk(k, out'[k])
  PROVE  WrittenInv'
BY DEF unit, WrittenInv, WrittenOk, Describes, Stable, Pinned, IsLarge, DeclaredSize, Size,
       Length, Crc

LEMMA AloneKept ==
  ASSUME UNCHANGED unit,
         \A k \in 1..Len(result') : AloneOk(k, result'[k]),
         \A k \in 1..Len(out') : AloneOk(k, out'[k])
  PROVE  AloneInv'
<1>1. ASSUME NEW c PROVE CompressBytes(c)' = CompressBytes(c)
  BY DEF unit, CompressBytes, Replies, Judged, CompressWithJdk, PzipCompressOrStore, Bypasses,
         StoredBuffer, DeflatedBuffer, Size, Crc
<1>2. \A k : CompressBytes(batch[k].content)' = CompressBytes(batch[k].content)
  BY <1>1 DEF unit, CompressBytes, Replies, Judged, CompressWithJdk, PzipCompressOrStore,
              Bypasses, StoredBuffer, DeflatedBuffer, Size, Crc
<1>3. \A k : Alone(k)' = Alone(k)
  BY <1>2 DEF unit, Alone, StoredBuffer, Size
<1> QED BY <1>3 DEF unit, AloneInv, AloneOk, Stable

(* A step that touches no file, record or payload. *)
LEMMA FilesKept ==
  ASSUME IInv, UNCHANGED <<unit, disk, spill, result, out>>, pc' # "failed" => pc # "failed"
  PROVE  FilesInv'
<1>1. /\ batch' = batch /\ Stable' = Stable /\ \A k : IsLarge(k)' = IsLarge(k)
      /\ disk' = disk /\ spill' = spill /\ result' = result /\ out' = out
  BY UnitFixed
<1> SUFFICES ASSUME NEW k \in 1..Len(batch) PROVE FileOk(k)' /\ SpillOk(k)'
  BY <1>1 DEF FilesInv
<1>2. FileOk(k) /\ SpillOk(k)
  BY DEF IInv, FilesInv
<1>3. FileOk(k)'
  BY <1>1, <1>2 DEF FileOk
<1>4. SpillOk(k)'
  BY <1>1, <1>2 DEF SpillOk
<1> QED BY <1>3, <1>4

(* The step of one entry: its record, its file and its temp file; those of   *)
(* the other entries stay as they are.                                       *)
LEMMA DeliverKeeps ==
  ASSUME IInv, pc \in Compressing, NEW r \in Compressed, Deliver(r),
         UNCHANGED <<unit, raws, out>>,
         disk' \in [1..Len(batch) -> Content \cup {Gone}],
         spill' \in [1..Len(batch) -> Content \cup {Gone, Abandoned}],
         \A k \in 1..Len(batch) : k # cur => disk'[k] = disk[k] /\ spill'[k] = spill[k],
         RecordOk(cur, r), AloneOk(cur, r),
         Stable => disk'[cur] \in {Gone, batch[cur].content},
         batch[cur].kind = "file" /\ ~batch[cur].temp => disk'[cur] # Gone,
         r.from = "file" => disk'[cur] # Gone,
         r.from # "spill" => spill'[cur] = Gone,
         r.from = "spill" => /\ batch[cur].temp => disk'[cur] = Gone
                             /\ spill'[cur] \in Content /\ r.compSize = Trait[spill'[cur]].jdk
                             /\ Stable => spill'[cur] = batch[cur].content
  PROVE  IInv'
<1> DEFINE m == Len(batch)
<1>1. /\ m \in Nat /\ m >= 1 /\ cur \in 1..m /\ result \in Seq(Compressed)
      /\ Len(result) = cur - 1 /\ out = <<>> /\ Len(out) = 0
  BY BatchFacts, EmptySeq DEF IInv, TypeInv, StageInv
<1>2. /\ batch' = batch /\ faults' = faults /\ Stable' = Stable /\ raws' = raws /\ out' = out
      /\ unit' = unit /\ \A k : IsLarge(k)' = IsLarge(k)
  BY UnitFixed DEF unit
<1>3. /\ result' \in Seq(Compressed) /\ Len(result') = cur
      /\ result'[cur] = r /\ \A k \in 1..(cur - 1) : result'[k] = result[k]
  BY <1>1, AppendProperties DEF Deliver
<1>4. \/ cur = m /\ pc' = "write" /\ cur' = 1
      \/ cur < m /\ pc' = "compress" /\ cur' = cur + 1
  BY <1>1 DEF Deliver
<1>5. cur' \in 1..m /\ pc' \in {"write", "compress"}
  BY <1>1, <1>4
<1>6. TypeInv'
  BY <1>2, <1>3, <1>5 DEF IInv, TypeInv
<1>7. StageInv'
  BY <1>1, <1>2, <1>3, <1>4 DEF StageInv, Compressing, LargeSteps
<1>8. RawsInv'
  BY <1>2 DEF IInv, RawsInv
<1>9. RecordsInv'
  <2>1. ASSUME NEW k \in 1..Len(result') PROVE RecordOk(k, result'[k])
    <3>1. CASE k = cur
      BY <1>3, <3>1
    <3>2. CASE k # cur
      <4>1. k \in 1..(cur - 1) /\ k \in 1..Len(result)
        BY <1>1, <1>3, <3>2
      <4> QED BY <1>3, <4>1 DEF IInv, RecordsInv
    <3> QED BY <3>1, <3>2
  <2> QED BY <1>2, <2>1, RecordsKept
<1>10. AloneInv'
  <2>1. ASSUME NEW k \in 1..Len(result') PROVE AloneOk(k, result'[k])
    <3>1. CASE k = cur
      BY <1>3, <3>1
    <3>2. CASE k # cur
      <4>1. k \in 1..(cur - 1) /\ k \in 1..Len(result)
        BY <1>1, <1>3, <3>2
      <4> QED BY <1>3, <4>1 DEF IInv, AloneInv
    <3> QED BY <3>1, <3>2
  <2>2. \A k \in 1..Len(out') : AloneOk(k, out'[k])
    BY <1>2 DEF IInv, AloneInv
  <2> QED BY <1>2, <2>1, <2>2, AloneKept
<1>11. FilesInv'
  <2> SUFFICES ASSUME NEW k \in 1..m PROVE FileOk(k)' /\ SpillOk(k)'
    BY <1>2 DEF FilesInv
  <2>1. FileOk(k) /\ SpillOk(k)
    BY DEF IInv, FilesInv
  <2>2. Len(out') = 0 /\ pc' # "failed" /\ pc # "failed"
    BY <1>1, <1>2, <1>5 DEF Compressing, LargeSteps
  <2>3. CASE k = cur
    <3>1. ~(k > Len(result')) /\ k <= Len(result') /\ result'[k] = r /\ ~(k <= Len(out'))
      BY <1>1, <1>3, <2>2, <2>3
    <3>2. FileOk(k)'
      BY <1>2, <2>3, <3>1 DEF FileOk
    <3>3. spill'[k] # Gone => IsLarge(k)
      BY <2>3 DEF RecordOk, SpillRecord
    <3>4. batch[k].temp /\ disk'[k] # Gone => spill'[k] = Gone
      BY <2>3
    <3> QED BY <1>2, <2>3, <3>1, <3>2, <3>3, <3>4 DEF SpillOk
  <2>4. CASE k < cur
    <3>1. /\ ~(k > Len(result')) /\ k <= Len(result') /\ result'[k] = result[k]
          /\ ~(k > Len(result)) /\ k <= Len(result)
          /\ ~(k <= Len(out)) /\ k > Len(out) /\ k # cur
      BY <1>1, <1>3, <2>4
    <3>2. FileOk(k)'
      BY <1>2, <2>1, <2>2, <3>1 DEF FileOk
    <3> QED BY <1>2, <2>1, <2>2, <3>1, <3>2 DEF SpillOk
  <2>5. CASE k > cur
    <3>1. /\ k > Len(result') /\ ~(k <= Len(result')) /\ k > Len(result) /\ ~(k <= Len(result))
          /\ ~(k <= Len(out)) /\ k > Len(out) /\ k # cur
      BY <1>1, <1>3, <2>5
    <3>2. FileOk(k)'
      BY <1>2, <2>1, <2>2, <3>1 DEF FileOk
    <3> QED BY <1>2, <2>1, <2>2, <3>1, <3>2 DEF SpillOk
  <2> QED BY <1>1, <2>3, <2>4, <2>5
<1>12. WrittenInv'
  <2>1. \A k \in 1..Len(out') : WrittenOk(k, out'[k])
    BY <1>2 DEF IInv, WrittenInv
  <2> QED BY <1>2, <2>1, WrittenKept
<1>13. NoSpuriousFailure'
  BY <1>5 DEF NoSpuriousFailure
<1> QED BY <1>6, <1>7, <1>8, <1>9, <1>10, <1>11, <1>12, <1>13 DEF IInv

-----------------------------------------------------------------------------
(* What is known at the entry a step is about.                               *)

LEMMA CurFacts ==
  ASSUME IInv
  PROVE  /\ batch \in Batches /\ cur \in 1..Len(batch) /\ Len(batch) \in Nat
         /\ batch[cur].content \in Content /\ DeclaredSize(cur) \in Nat
         /\ batch[cur].kind \in {"dir", "inline", "file"}
         /\ disk[cur] \in Content \cup {Gone} /\ spill[cur] \in Content \cup {Gone, Abandoned}
BY BatchFacts DEF IInv, TypeInv

LEMMA CompressingFacts ==
  ASSUME IInv, pc \in Compressing
  PROVE  /\ batch[cur].kind = "file" => disk[cur] \in Content
         /\ spill[cur] = Gone
         /\ cur > Len(result) /\ Len(result) = cur - 1
<1>1. Len(result) = cur - 1 /\ cur > Len(result)
  BY CurFacts DEF IInv, StageInv
<1>2. FileOk(cur) /\ SpillOk(cur)
  BY CurFacts DEF IInv, FilesInv
<1>3. pc # "failed"
  BY DEF Compressing, LargeSteps
<1> QED BY <1>1, <1>2, <1>3, CurFacts DEF FileOk, SpillOk

LEMMA LargeFacts ==
  ASSUME IInv, pc \in LargeSteps
  PROVE  /\ pc \in Compressing
         /\ IsLarge(cur) /\ batch[cur].kind = "file" /\ disk[cur] \in Content
         /\ Stable => disk[cur] = batch[cur].content
         /\ \A r : AloneOk(cur, r)
<1>1. pc \in Compressing /\ IsLarge(cur)
  BY DEF IInv, StageInv, Compressing
<1>2. batch[cur].kind = "file" /\ disk[cur] \in Content
  BY <1>1, CompressingFacts DEF IsLarge
<1>3. Stable => disk[cur] = batch[cur].content
  BY <1>2, CurFacts, ContentFacts DEF IInv, FilesInv, FileOk
<1>4. ~(Len(batch) > 1)
  BY <1>1, CurFacts, BatchFacts
<1> QED BY <1>1, <1>2, <1>3, <1>4 DEF AloneOk

(* A step that delivers a record and leaves the files alone. *)
LEMMA DeliverInPlace ==
  ASSUME IInv, pc \in Compressing, NEW r \in Compressed, Deliver(r),
         UNCHANGED <<unit, raws, out, disk, spill>>,
         RecordOk(cur, r), AloneOk(cur, r), r.from # "spill"
  PROVE  IInv'
<1>1. disk \in [1..Len(batch) -> Content \cup {Gone}] /\ spill \in [1..Len(batch) -> Content \cup {Gone, Abandoned}]
  BY DEF IInv, TypeInv
<1>2. FileOk(cur) /\ spill[cur] = Gone
  BY CurFacts, CompressingFacts DEF IInv, FilesInv
<1>3. r.from = "file" => batch[cur].kind = "file"
  BY DEF RecordOk, FileRecord, IsLarge
<1>4. r.from = "file" => disk[cur] # Gone
  BY <1>3, CompressingFacts, ContentFacts
<1>5. UNCHANGED unit /\ disk' = disk /\ spill' = spill /\ UNCHANGED <<unit, raws, out>>
  OBVIOUS
<1>6. Stable => disk[cur] \in {Gone, batch[cur].content}
  BY <1>2 DEF FileOk
<1>7. batch[cur].kind = "file" /\ ~batch[cur].temp => disk[cur] # Gone
  BY <1>2 DEF FileOk
<1> QED BY <1>1, <1>2, <1>4, <1>5, <1>6, <1>7, DeliverKeeps

(* A step that only decides what comes next for the entry. *)
LEMMA GoToKeeps ==
  ASSUME IInv, pc \in Compressing, IsLarge(cur), NEW label \in LargeSteps, GoTo(label)
  PROVE  IInv'
<1>1. /\ pc' = label /\ UNCHANGED unit
      /\ batch' = batch /\ faults' = faults /\ Stable' = Stable /\ Pinned' = Pinned
      /\ disk' = disk /\ spill' = spill
      /\ cur' = cur /\ raws' = raws /\ result' = result /\ out' = out
  BY UnitFixed DEF GoTo, unit
<1>2. TypeInv'
  BY <1>1 DEF IInv, TypeInv
<1>3. StageInv'
  <2>1. Len(result) = cur - 1 /\ out = <<>> /\ Len(result) <= Len(batch) /\ Len(out) <= Len(batch)
    BY DEF IInv, StageInv
  <2>2. IsLarge(cur)'
    BY <1>1 DEF IsLarge, DeclaredSize, Size
  <2> QED BY <1>1, <2>1, <2>2 DEF StageInv, Compressing, LargeSteps
<1>4. RawsInv'
  BY <1>1 DEF IInv, RawsInv
<1>5. RecordsInv' /\ WrittenInv' /\ AloneInv'
  <2>1. \A k \in 1..Len(result') : RecordOk(k, result'[k]) /\ AloneOk(k, result'[k])
    BY <1>1 DEF IInv, RecordsInv, AloneInv
  <2>2. \A k \in 1..Len(out') : WrittenOk(k, out'[k]) /\ AloneOk(k, out'[k])
    BY <1>1 DEF IInv, WrittenInv, AloneInv
  <2> QED BY <1>1, <2>1, <2>2, RecordsKept, WrittenKept, AloneKept
<1>6. FilesInv'
  <2>1. pc' # "failed" /\ pc # "failed"
    BY <1>1 DEF LargeSteps, Compressing
  <2> QED BY <1>1, <2>1, FilesKept
<1>7. NoSpuriousFailure'
  BY <1>1 DEF NoSpuriousFailure, LargeSteps
<1> QED BY <1>2, <1>3, <1>4, <1>5, <1>6, <1>7 DEF IInv

-----------------------------------------------------------------------------
(* In memory.                                                                *)

LEMMA MemoryRecordOk ==
  ASSUME NEW k, NEW c \in Content, NEW r, r.from = "memory", Describes(r, c, r.crc),
         Pinned => r.crc = Crc(c), Stable => c = batch[k].content
  PROVE  RecordOk(k, r)
<1>1. r.of = c
  BY DEF Describes
<1> QED BY <1>1 DEF RecordOk, MemoryRecord

LEMMA CompressSmallKeeps == ASSUME IInv, CompressSmall PROVE IInv'
<1>1. /\ pc \in Compressing /\ ~IsLarge(cur)
      /\ UNCHANGED <<unit, raws, out, disk, spill>>
  BY DEF CompressSmall, Compressing
<1>2. CASE batch[cur].kind = "dir"
  <2> DEFINE r == StoredBuffer(Empty, 0)
  <2>1. Deliver(r)
    BY <1>2 DEF CompressSmall
  <2>2. r \in Compressed /\ r.from = "memory" /\ Describes(r, Empty, 0)
    BY EmptyIsContent, StoredDescribes
  <2>3. Describes(r, Empty, r.crc) /\ r.crc = Crc(Empty)
    BY <2>2 DEF Describes, Crc, Empty
  <2>4. batch[cur].content = Empty
    BY <1>2, CurFacts, BatchFacts
  <2>5. RecordOk(cur, r)
    <3> HIDE DEF r
    <3> QED BY <2>2, <2>3, <2>4, EmptyIsContent, MemoryRecordOk
  <2>6. AloneOk(cur, r)
    BY <1>2 DEF AloneOk, Alone
  <2> HIDE DEF r
  <2> QED BY <1>1, <2>1, <2>2, <2>5, <2>6, DeliverInPlace
<1>3. CASE batch[cur].kind # "dir"
  <2> DEFINE c == ReadContent(cur)
  <2>1. PICK r \in CompressBytes(c) : Deliver(r)
    BY <1>3 DEF CompressSmall
  <2>2. c \in Content /\ (Stable => c = batch[cur].content)
    <3>1. CASE batch[cur].kind = "inline"
      BY <3>1, CurFacts DEF ReadContent
    <3>2. CASE batch[cur].kind = "file"
      <4>1. c = disk[cur] /\ disk[cur] \in Content
        BY <1>1, <3>2, CompressingFacts DEF ReadContent
      <4>2. Stable => disk[cur] = batch[cur].content
        BY <4>1, CurFacts, ContentFacts DEF IInv, FilesInv, FileOk
      <4> QED BY <4>1, <4>2
    <3> QED BY <1>3, <3>1, <3>2, CurFacts
  <2>3. AloneOk(cur, r)
    BY <1>3, <2>1, <2>2 DEF AloneOk, Alone
  <2> HIDE DEF c
  <2>4. /\ r \in Compressed /\ r.from = "memory"
        /\ Describes(r, c, r.crc) /\ (Pinned => r.crc = Crc(c))
    BY <2>1, <2>2, BytesDescribe
  <2>5. RecordOk(cur, r)
    BY <2>2, <2>4, MemoryRecordOk
  <2> QED BY <1>1, <2>1, <2>3, <2>4, <2>5, DeliverInPlace
<1> QED BY <1>2, <1>3

LEMMA ReadBatchedKeeps == ASSUME IInv, ReadBatched PROVE IInv'
<1> DEFINE c == ReadContent(cur)
<1>1. /\ pc = "readBatch" /\ raws' = Append(raws, c) /\ UNCHANGED unit
      /\ batch' = batch /\ faults' = faults /\ Stable' = Stable /\ Pinned' = Pinned
      /\ TakesBatchCall' = TakesBatchCall
      /\ disk' = disk /\ spill' = spill /\ result' = result /\ out' = out
  BY UnitFixed DEF ReadBatched, unit
<1>2. /\ TakesBatchCall /\ Len(raws) = cur - 1 /\ raws \in Seq(Content)
      /\ result = <<>> /\ out = <<>> /\ Len(result) = 0 /\ Len(out) = 0
  BY <1>1, EmptySeq DEF IInv, TypeInv, StageInv
<1>3. cur \in 1..Len(batch) /\ Len(batch) \in Nat /\ batch[cur].kind # "dir"
  BY <1>2, CurFacts, BatchFacts DEF TakesBatchCall
<1>4. c \in Content /\ (Stable => c = batch[cur].content)
  <2>1. CASE batch[cur].kind = "inline"
    BY <2>1, CurFacts DEF ReadContent
  <2>2. CASE batch[cur].kind = "file"
    <3>1. FileOk(cur) /\ cur > Len(result)
      BY <1>2, <1>3 DEF IInv, FilesInv
    <3>2. c = disk[cur] /\ disk[cur] # Gone
      BY <2>2, <3>1 DEF ReadContent, FileOk
    <3> QED BY <3>1, <3>2, CurFacts DEF FileOk
  <2> QED BY <1>3, <2>1, <2>2, CurFacts
<1> HIDE DEF c
<1>5. /\ raws' \in Seq(Content) /\ Len(raws') = cur
      /\ raws'[cur] = c /\ \A k \in 1..(cur - 1) : raws'[k] = raws[k]
  BY <1>1, <1>2, <1>3, <1>4, AppendProperties
<1>6. \/ cur = Len(batch) /\ pc' = "native" /\ cur' = 1
      \/ cur < Len(batch) /\ pc' = "readBatch" /\ cur' = cur + 1
  BY <1>3 DEF ReadBatched
<1>7. TypeInv'
  <2>1. cur' \in 1..Len(batch)
    BY <1>3, <1>6
  <2> QED BY <1>1, <1>5, <2>1 DEF IInv, TypeInv
<1>8. StageInv'
  BY <1>1, <1>2, <1>3, <1>5, <1>6 DEF StageInv, Compressing, LargeSteps
<1>9. RawsInv'
  <2> SUFFICES ASSUME Stable, NEW k \in 1..Len(raws') PROVE raws'[k] = batch[k].content
    BY <1>1 DEF RawsInv
  <2>1. CASE k = cur
    BY <1>4, <1>5, <2>1
  <2>2. CASE k # cur
    <3>1. k \in 1..(cur - 1) /\ k \in 1..Len(raws)
      BY <1>2, <1>3, <1>5, <2>2
    <3> QED BY <1>5, <3>1 DEF IInv, RawsInv
  <2> QED BY <2>1, <2>2
<1>10. RecordsInv' /\ WrittenInv' /\ AloneInv'
  <2>1. \A k \in 1..Len(result') : RecordOk(k, result'[k]) /\ AloneOk(k, result'[k])
    BY <1>1 DEF IInv, RecordsInv, AloneInv
  <2>2. \A k \in 1..Len(out') : WrittenOk(k, out'[k]) /\ AloneOk(k, out'[k])
    BY <1>1 DEF IInv, WrittenInv, AloneInv
  <2> QED BY <1>1, <2>1, <2>2, RecordsKept, WrittenKept, AloneKept
<1>11. FilesInv'
  <2>1. pc' # "failed" /\ pc # "failed"
    BY <1>1, <1>6
  <2> QED BY <1>1, <2>1, FilesKept
<1>12. NoSpuriousFailure'
  BY <1>6 DEF NoSpuriousFailure
<1> QED BY <1>7, <1>8, <1>9, <1>10, <1>11, <1>12 DEF IInv

(* The batch call hands back all the records at once, each from the reply to *)
(* its own entry.                                                            *)
LEMMA CompressBatchNativeKeeps == ASSUME IInv, CompressBatchNative PROVE IInv'
<1> DEFINE idx == NativeIdx(raws)
<1>1. /\ pc = "native" /\ pc' = "write" /\ UNCHANGED unit
      /\ batch' = batch /\ faults' = faults /\ Stable' = Stable /\ Pinned' = Pinned
      /\ disk' = disk /\ spill' = spill /\ cur' = cur /\ raws' = raws /\ out' = out
  BY UnitFixed DEF CompressBatchNative, unit
<1>2. /\ TakesBatchCall /\ Len(raws) = Len(batch) /\ cur = 1 /\ raws \in Seq(Content)
      /\ result = <<>> /\ out = <<>> /\ Len(result) = 0 /\ Len(out) = 0
  BY <1>1, EmptySeq DEF IInv, TypeInv, StageInv
<1>3. ~Store /\ nativeHandle = "live" /\ Len(batch) > 1
  BY <1>2 DEF TakesBatchCall
<1>4. PICK replies \in BatchReplies([k \in 1..Cardinality(idx) |-> raws[EntryAt(k, idx)]]) :
        result' = BatchResult(raws, idx, replies)
  BY DEF CompressBatchNative
<1>5. ASSUME NEW k \in 1..Len(batch)
      PROVE  /\ result'[k] \in Compressed /\ result'[k].from = "memory"
             /\ RecordOk(k, result'[k]) /\ AloneOk(k, result'[k])
  <2> DEFINE r == result'[k]
  <2>1. k \in 1..Len(raws) /\ raws[k] \in Content /\ (Stable => raws[k] = batch[k].content)
    BY <1>2, ElementOfSeq DEF IInv, RawsInv
  <2>2. /\ r \in Compressed /\ r.from = "memory"
        /\ Describes(r, raws[k], r.crc)
        /\ Pinned => r.crc = Crc(raws[k])
        /\ "malloc" \notin faults => r \in CompressBytes(raws[k])
    BY <1>2, <1>3, <1>4, <2>1, BatchDescribes
  <2> HIDE DEF r
  <2>3. RecordOk(k, r)
    BY <2>1, <2>2, MemoryRecordOk
  <2>4. AloneOk(k, r)
    <3>1. batch[k].kind # "dir"
      BY <1>3, CurFacts, BatchFacts
    <3> QED BY <2>1, <2>2, <3>1 DEF AloneOk, Alone
  <2> QED BY <2>2, <2>3, <2>4 DEF r
<1>6. result' \in Seq(Compressed) /\ Len(result') = Len(batch)
  <2>1. result' = [k \in 1..Len(batch) |-> result'[k]]
    BY <1>2, <1>4 DEF BatchResult
  <2>2. Len(batch) \in Nat
    BY CurFacts
  <2> QED BY <1>5, <2>1, <2>2, SeqDef, LenProperties
<1>7. TypeInv'
  BY <1>1, <1>6 DEF IInv, TypeInv
<1>8. StageInv'
  BY <1>1, <1>2, <1>6, CurFacts DEF StageInv, Compressing, LargeSteps
<1>9. RawsInv'
  BY <1>1 DEF IInv, RawsInv
<1>10. RecordsInv' /\ WrittenInv' /\ AloneInv'
  <2>1. \A k \in 1..Len(result') : RecordOk(k, result'[k]) /\ AloneOk(k, result'[k])
    BY <1>5, <1>6
  <2>2. \A k \in 1..Len(out') : WrittenOk(k, out'[k]) /\ AloneOk(k, out'[k])
    BY <1>1 DEF IInv, WrittenInv, AloneInv
  <2> QED BY <1>1, <2>1, <2>2, RecordsKept, WrittenKept, AloneKept
<1>11. FilesInv'
  <2> SUFFICES ASSUME NEW k \in 1..Len(batch) PROVE FileOk(k)' /\ SpillOk(k)'
    BY <1>1 DEF FilesInv
  <2>1. /\ FileOk(k) /\ SpillOk(k) /\ k > Len(result) /\ ~(k > Len(result'))
        /\ ~(k <= Len(out))
    BY <1>2, <1>6 DEF IInv, FilesInv
  <2>2. result'[k].from = "memory"
    BY <1>5
  <2> QED BY <1>1, <2>1, <2>2 DEF FileOk, SpillOk
<1>12. NoSpuriousFailure'
  BY <1>1 DEF NoSpuriousFailure
<1> QED BY <1>7, <1>8, <1>9, <1>10, <1>11, <1>12 DEF IInv

-----------------------------------------------------------------------------
(* Large files.                                                              *)

LEMMA BeginLargeKeeps == ASSUME IInv, BeginLarge PROVE IInv'
<1>1. pc \in Compressing /\ IsLarge(cur)
  BY DEF BeginLarge, Compressing
<1>2. PICK label \in LargeSteps : GoTo(label)
  BY DEF BeginLarge, LargeSteps
<1> QED BY <1>1, <1>2, GoToKeeps

LEMMA ReadMagicKeeps == ASSUME IInv, ReadMagic PROVE IInv'
<1>1. pc \in Compressing /\ IsLarge(cur)
  BY LargeFacts DEF ReadMagic, LargeSteps
<1>2. PICK label \in LargeSteps : GoTo(label)
  BY DEF ReadMagic, LargeSteps
<1> QED BY <1>1, <1>2, GoToKeeps

LEMMA ProbeKeeps == ASSUME IInv, Probe PROVE IInv'
<1>1. pc \in Compressing /\ IsLarge(cur)
  BY LargeFacts DEF Probe, LargeSteps
<1>2. PICK label \in LargeSteps : GoTo(label)
  BY DEF Probe, AfterProbe, LargeSteps
<1> QED BY <1>1, <1>2, GoToKeeps

LEMMA StoredFileOk ==
  ASSUME NEW k \in 1..Len(batch), batch \in Batches, IsLarge(k), NEW crc \in Content,
         Stable /\ Pinned => crc = Crc(batch[k].content)
  PROVE  LET r == StoredFile(crc, DeclaredSize(k)) IN
         r \in Compressed /\ r.from = "file" /\ RecordOk(k, r)
<1>1. DeclaredSize(k) \in Nat
  BY BatchFacts
<1>2. StoredFile(crc, DeclaredSize(k)) \in Compressed
  BY <1>1, EmptyIsContent DEF StoredFile, Compressed
<1> QED BY <1>2 DEF StoredFile, RecordOk, FileRecord

LEMMA CrcOfKeeps == ASSUME IInv, CrcOf PROVE IInv'
<1> DEFINE r == StoredFile(Crc(disk[cur]), DeclaredSize(cur))
<1>1. pc \in LargeSteps /\ Deliver(r) /\ UNCHANGED <<unit, raws, out, disk, spill>>
  BY DEF CrcOf, LargeSteps
<1>2. r \in Compressed /\ r.from = "file" /\ RecordOk(cur, r)
  BY <1>1, LargeFacts, CurFacts, StoredFileOk DEF Crc
<1> HIDE DEF r
<1> QED BY <1>1, <1>2, LargeFacts, DeliverInPlace

LEMMA TryMmapKeeps == ASSUME IInv, TryMmapNativeDeflate PROVE IInv'
<1>1. pc \in LargeSteps
  BY DEF TryMmapNativeDeflate, LargeSteps
<1>2. CASE GoTo("deflate")
  BY <1>1, <1>2, LargeFacts, GoToKeeps DEF LargeSteps
<1>3. CASE /\ SameSize(disk[cur])
           /\ \E reply \in Replies(disk[cur]) :
                /\ reply.len # Failed
                /\ Deliver(MappedResult(disk[cur], reply))
                /\ UNCHANGED <<unit, disk, spill, raws, out>>
  <2> DEFINE c == disk[cur]
  <2>1. PICK reply \in Replies(c) :
          /\ reply.len # Failed
          /\ Deliver(MappedResult(c, reply))
          /\ UNCHANGED <<unit, disk, spill, raws, out>>
    BY <1>3
  <2>2. c \in Content /\ Size(c) = DeclaredSize(cur) /\ (Stable => c = batch[cur].content)
    BY <1>1, <1>3, LargeFacts DEF SameSize
  <2>3. GoodReply(reply, c) /\ reply.crc \in Content
    BY <2>2, RepliesGood, EmptyIsContent DEF GoodReply, Crc
  <2> DEFINE r == MappedResult(c, reply)
  <2>4. r \in Compressed /\ r.from # "spill" /\ RecordOk(cur, r)
    <3>1. CASE reply.len = STORE_SENTINEL \/ reply.len >= DeclaredSize(cur)
      <4>1. r = StoredFile(reply.crc, DeclaredSize(cur))
        BY <3>1 DEF MappedResult
      <4>2. Stable /\ Pinned => reply.crc = Crc(batch[cur].content)
        BY <2>2, <2>3 DEF GoodReply
      <4> HIDE DEF r
      <4> QED BY <1>1, <2>3, <4>1, <4>2, LargeFacts, CurFacts, StoredFileOk
    <3>2. CASE ~(reply.len = STORE_SENTINEL \/ reply.len >= DeclaredSize(cur))
      <4>1. reply.len = Trait[c].native
        <5>1. Size(c) \in Nat /\ (reply.len = 0 => Trait[c].native = 0)
          <6>1. Size(c) \in Nat
            BY <2>2, ContentFacts
          <6>2. reply.len = PzipCompressOrStore(c) \/ reply.len = Failed
            BY <2>1 DEF Replies
          <6>3. reply.len # 0
            BY <2>1, <6>2 DEF PzipCompressOrStore, Failed, STORE_SENTINEL
          <6> QED BY <6>1, <6>3
        <5> QED BY <2>1, <2>3, <3>2, <5>1 DEF GoodReply
      <4>2. r = DeflatedBuffer("native", c, reply.crc, Size(c), Trait[c]["native"])
        BY <2>2, <3>2, <4>1 DEF MappedResult
      <4>3. r \in Compressed /\ r.from = "memory" /\ Describes(r, c, reply.crc)
        BY <2>2, <2>3, <4>2, DeflatedDescribes
      <4> HIDE DEF r
      <4>4. r.crc = reply.crc /\ Describes(r, c, r.crc) /\ (Pinned => r.crc = Crc(c))
        BY <2>3, <4>3 DEF Describes, GoodReply
      <4>5. RecordOk(cur, r)
        BY <2>2, <4>3, <4>4, MemoryRecordOk
      <4> QED BY <4>3, <4>5
    <3> QED BY <3>1, <3>2
  <2> HIDE DEF r
  <2> QED BY <1>1, <2>1, <2>4, LargeFacts, DeliverInPlace DEF r
<1> QED BY <1>2, <1>3 DEF TryMmapNativeDeflate

LEMMA DeflateToFileKeeps == ASSUME IInv, DeflateToFile PROVE IInv'
<1> DEFINE c == disk[cur]
           declared == DeclaredSize(cur)
<1>1. /\ pc \in LargeSteps /\ UNCHANGED <<unit, raws, out>>
      /\ c \in Content /\ (Stable => c = batch[cur].content)
      /\ declared \in Nat /\ Trait[c].jdk \in Nat
  BY LargeFacts, CurFacts, ContentFacts DEF DeflateToFile, LargeSteps
<1>2. pc \in Compressing /\ IsLarge(cur) /\ \A r : AloneOk(cur, r)
  BY <1>1, LargeFacts
<1>3. CASE Trait[c].jdk >= declared
  <2> DEFINE r == StoredFile(Crc(c), declared)
  <2>1. Deliver(r) /\ UNCHANGED <<unit, raws, out, disk, spill>>
    BY <1>3 DEF DeflateToFile
  <2>2. r \in Compressed /\ r.from = "file" /\ RecordOk(cur, r)
    BY <1>1, <1>2, CurFacts, StoredFileOk DEF Crc
  <2> HIDE DEF r
  <2> QED BY <1>2, <2>1, <2>2, DeliverInPlace
<1>4. CASE ~(Trait[c].jdk >= declared)
  <2> DEFINE r == SpillFile(Crc(c), declared, Trait[c].jdk)
  <2>1. /\ Deliver(r) /\ spill' = [spill EXCEPT ![cur] = c]
        /\ disk' = [disk EXCEPT ![cur] = InputAfter]
    BY <1>4 DEF DeflateToFile
  <2>2. /\ r \in Compressed /\ r.from = "spill" /\ RecordOk(cur, r)
        /\ r.compSize = Trait[c].jdk
    <3>1. r \in Compressed
      BY <1>1, EmptyIsContent DEF SpillFile, Compressed, Crc
    <3> QED BY <1>1, <1>2, <3>1 DEF SpillFile, RecordOk, SpillRecord
  <2>3. InputAfter \in {Gone, c} /\ (~batch[cur].temp => InputAfter = c)
    BY DEF InputAfter
  <2>4. /\ disk \in [1..Len(batch) -> Content \cup {Gone}]
        /\ spill \in [1..Len(batch) -> Content \cup {Gone, Abandoned}]
        /\ cur \in 1..Len(batch)
    BY DEF IInv, TypeInv
  <2>5. /\ disk' \in [1..Len(batch) -> Content \cup {Gone}]
        /\ spill' \in [1..Len(batch) -> Content \cup {Gone, Abandoned}]
        /\ disk'[cur] = InputAfter /\ spill'[cur] = c
        /\ \A k \in 1..Len(batch) : k # cur => disk'[k] = disk[k] /\ spill'[k] = spill[k]
    BY <1>1, <2>1, <2>3, <2>4
  <2>6. c # Gone /\ (batch[cur].temp => InputAfter = Gone)
    BY <1>1, ContentFacts DEF InputAfter
  <2> HIDE DEF r
  <2> QED BY <1>1, <1>2, <2>1, <2>2, <2>3, <2>5, <2>6, DeliverKeeps
<1> QED BY <1>3, <1>4

-----------------------------------------------------------------------------
(* Faults.                                                                   *)

(* A step with which the unit fails: only the files are to be looked at. *)
LEMMA FailingKeeps ==
  ASSUME IInv, pc' = "failed", UNCHANGED <<unit, cur, raws, result, out>>,
         disk' \in [1..Len(batch) -> Content \cup {Gone}],
         spill' \in [1..Len(batch) -> Content \cup {Gone, Abandoned}],
         FilesInv', faults \cap {"read", "spill", "archive", "rewrite"} # {}
  PROVE  IInv'
<1>1. /\ batch' = batch /\ faults' = faults /\ Stable' = Stable
      /\ cur' = cur /\ raws' = raws /\ result' = result /\ out' = out
  BY UnitFixed DEF unit
<1>2. TypeInv' /\ RawsInv'
  BY <1>1 DEF IInv, TypeInv, RawsInv
<1>3. StageInv'
  BY <1>1 DEF IInv, StageInv, Compressing, LargeSteps
<1>4. RecordsInv' /\ WrittenInv' /\ AloneInv'
  <2>1. \A k \in 1..Len(result') : RecordOk(k, result'[k]) /\ AloneOk(k, result'[k])
    BY <1>1 DEF IInv, RecordsInv, AloneInv
  <2>2. \A k \in 1..Len(out') : WrittenOk(k, out'[k]) /\ AloneOk(k, out'[k])
    BY <1>1 DEF IInv, WrittenInv, AloneInv
  <2> QED BY <1>1, <2>1, <2>2, RecordsKept, WrittenKept, AloneKept
<1>5. NoSpuriousFailure'
  BY <1>1 DEF NoSpuriousFailure
<1> QED BY <1>2, <1>3, <1>4, <1>5 DEF IInv

LEMMA WorkerFailsKeeps == ASSUME IInv, WorkerFails PROVE IInv'
<1>1. /\ pc' = "failed" /\ UNCHANGED <<unit, cur, raws, result, out>>
      /\ disk' = disk /\ spill' = spill /\ "read" \in faults
  BY DEF WorkerFails, Fail
<1>2. FilesInv'
  BY <1>1, FilesKept
<1> QED BY <1>1, <1>2, FailingKeeps DEF IInv, TypeInv

LEMMA DeflateToFileFailsKeeps == ASSUME IInv, DeflateToFileFails PROVE IInv'
<1>1. /\ pc' = "failed" /\ UNCHANGED <<unit, cur, raws, result, out>> /\ disk' = disk
      /\ faults \cap {"read", "spill", "archive", "rewrite"} # {}
  BY DEF DeflateToFileFails
<1>2. PICK left \in {Gone, Abandoned} : spill' = [spill EXCEPT ![cur] = left]
  BY DEF DeflateToFileFails
<1>3. /\ cur \in 1..Len(batch) /\ IsLarge(cur)
      /\ disk \in [1..Len(batch) -> Content \cup {Gone}]
      /\ spill \in [1..Len(batch) -> Content \cup {Gone, Abandoned}]
  BY LargeFacts DEF DeflateToFileFails, LargeSteps, IInv, TypeInv
<1>4. /\ spill' \in [1..Len(batch) -> Content \cup {Gone, Abandoned}]
      /\ spill'[cur] \in {Gone, Abandoned}
      /\ \A k \in 1..Len(batch) : k # cur => spill'[k] = spill[k]
  BY <1>2, <1>3
<1>5. batch' = batch /\ Stable' = Stable /\ \A k : IsLarge(k)' = IsLarge(k)
  BY <1>1, UnitFixed
<1>6. ASSUME NEW k \in 1..Len(batch) PROVE FileOk(k)' /\ SpillOk(k)'
  <2>1. FileOk(k) /\ SpillOk(k)
    BY DEF IInv, FilesInv
  <2>2. FileOk(k)'
    BY <1>1, <1>5, <2>1 DEF FileOk
  <2>3. CASE k = cur
    BY <1>1, <1>3, <1>4, <1>5, <2>2, <2>3 DEF SpillOk
  <2>4. CASE k # cur
    BY <1>1, <1>4, <1>5, <2>1, <2>2, <2>4 DEF SpillOk
  <2> QED BY <2>2, <2>3, <2>4
<1>7. FilesInv'
  BY <1>5, <1>6 DEF FilesInv
<1> QED BY <1>1, <1>3, <1>4, <1>7, FailingKeeps

LEMMA RewriteKeeps == ASSUME IInv, NEW i \in 1..Len(batch), Rewrite(i) PROVE IInv'
<1>1. /\ pc' = pc /\ UNCHANGED unit
      /\ batch' = batch /\ faults' = faults /\ Stable' = Stable /\ Pinned' = Pinned
      /\ TakesBatchCall' = TakesBatchCall
      /\ spill' = spill
      /\ cur' = cur /\ raws' = raws /\ result' = result /\ out' = out
  BY UnitFixed DEF Rewrite, unit
<1>2. /\ ~Stable /\ disk \in [1..Len(batch) -> Content \cup {Gone}]
      /\ \E c \in Content : disk' = [disk EXCEPT ![i] = c]
  BY DEF Rewrite, Stable, IInv, TypeInv
<1>3. TypeInv' /\ RawsInv'
  BY <1>1, <1>2 DEF IInv, TypeInv, RawsInv
<1>4. StageInv'
  <2>1. IsLarge(cur)' = IsLarge(cur)
    BY <1>1 DEF IsLarge, DeclaredSize, Size
  <2> QED BY <1>1, <2>1 DEF IInv, StageInv
<1>5. RecordsInv' /\ WrittenInv' /\ AloneInv'
  <2>1. \A k \in 1..Len(result') : RecordOk(k, result'[k]) /\ AloneOk(k, result'[k])
    BY <1>1 DEF IInv, RecordsInv, AloneInv
  <2>2. \A k \in 1..Len(out') : WrittenOk(k, out'[k]) /\ AloneOk(k, out'[k])
    BY <1>1 DEF IInv, WrittenInv, AloneInv
  <2> QED BY <1>1, <2>1, <2>2, RecordsKept, WrittenKept, AloneKept
<1>6. FilesInv'
  <2> SUFFICES ASSUME NEW k \in 1..Len(batch) PROVE FileOk(k)' /\ SpillOk(k)'
    BY <1>1 DEF FilesInv
  <2>1. FileOk(k) /\ SpillOk(k)
    BY DEF IInv, FilesInv
  <2>2. disk'[k] = disk[k] \/ disk'[k] # Gone
    BY <1>2, ContentFacts
  <2>3. FileOk(k)'
    <3>1. batch[k].temp => disk'[k] = disk[k]
      BY <1>2 DEF Rewrite
    <3> QED BY <1>1, <1>2, <2>1, <2>2, <3>1 DEF FileOk
  <2>4. SpillOk(k)'
    <3>1. \A j : IsLarge(j)' = IsLarge(j)
      BY <1>1, UnitFixed
    <3>2. batch[k].temp => disk'[k] = disk[k]
      BY <1>2 DEF Rewrite
    <3> QED BY <1>1, <2>1, <3>1, <3>2 DEF SpillOk
  <2> QED BY <2>3, <2>4
<1>7. NoSpuriousFailure'
  BY <1>1 DEF IInv, NoSpuriousFailure
<1> QED BY <1>3, <1>4, <1>5, <1>6, <1>7 DEF IInv

-----------------------------------------------------------------------------
(* The writer.  Whatever it takes its bytes from, they are there, and there  *)
(* are as many as the record says unless the file has been replaced.         *)
LEMMA SourceFacts ==
  ASSUME IInv, pc = "write"
  PROVE  LET r == result[cur] IN
         /\ r \in Compressed /\ RecordOk(cur, r) /\ AloneOk(cur, r)
         /\ Source(r) \in Content
         /\ Stable \/ r.from # "file" => Length(r.form, Source(r)) >= r.compSize
         /\ WrittenOk(cur, [r EXCEPT !.of = Source(r)])
         /\ [r EXCEPT !.of = Source(r)] \in Compressed
         /\ AloneOk(cur, [r EXCEPT !.of = Source(r)])
<1> DEFINE r == result[cur]
           w == [r EXCEPT !.of = Source(r)]
<1>1. /\ Len(result) = Len(batch) /\ Len(out) = cur - 1 /\ cur \in 1..Len(result)
      /\ cur > Len(out) /\ cur <= Len(result)
      /\ batch[cur].content \in Content
  BY CurFacts DEF IInv, StageInv
<1>2. r \in Compressed /\ RecordOk(cur, r) /\ AloneOk(cur, r)
  BY <1>1, ElementOfSeq DEF IInv, TypeInv, RecordsInv, AloneInv
<1>3. /\ r.form \in {"raw", "native", "jdk"} /\ r.compSize \in Nat /\ r.of \in Content
      /\ r.from \in {"memory", "file", "spill"}
  BY <1>2 DEF Compressed
<1>4. FileOk(cur) /\ SpillOk(cur)
  BY CurFacts DEF IInv, FilesInv
<1>5. Source(r) \in Content
  <2>1. CASE r.from = "memory"
    BY <1>3, <2>1 DEF Source
  <2>2. CASE r.from = "file"
    BY <1>1, <1>4, <2>2, CurFacts DEF Source, FileOk
  <2>3. CASE r.from = "spill"
    BY <1>1, <1>4, <2>3, CurFacts DEF Source, SpillOk
  <2> QED BY <1>3, <2>1, <2>2, <2>3
<1>6. /\ w \in Compressed /\ w.of = Source(r) /\ w.from = r.from /\ w.form = r.form
      /\ w.crc = r.crc /\ w.rawSize = r.rawSize /\ w.compSize = r.compSize /\ w.method = r.method
  <2> HIDE DEF r
  <2> QED BY <1>2, <1>5 DEF Compressed
<1>7. r.from = "memory" => w = r
  <2> HIDE DEF r
  <2> QED BY <1>2 DEF Compressed, Source
<1>8. r.from = "memory" => Describes(w, w.of, w.crc) /\ (Pinned => w.crc = Crc(w.of))
                           /\ (Stable => w.of = batch[cur].content)
  <2> HIDE DEF r, w
  <2> QED BY <1>2, <1>7 DEF RecordOk, MemoryRecord
<1>9. r.from = "file" /\ Stable =>
        /\ Source(r) = batch[cur].content
        /\ Pinned => Describes(w, w.of, Crc(w.of))
        /\ Length(r.form, Source(r)) = r.compSize
  <2> SUFFICES ASSUME r.from = "file", Stable
               PROVE  /\ Source(r) = batch[cur].content
                      /\ Pinned => Describes(w, w.of, Crc(w.of))
                      /\ Length(r.form, Source(r)) = r.compSize
    OBVIOUS
  <2>1. FileRecord(cur, r)
    BY <1>2 DEF RecordOk
  <2>2. Source(r) = batch[cur].content
    BY <1>1, <1>4 DEF FileOk, Source
  <2> HIDE DEF r, w
  <2> QED BY <1>6, <2>1, <2>2 DEF FileRecord, Describes, DeclaredSize, Length, Crc
<1>10. r.from = "spill" => Length(r.form, Source(r)) = r.compSize
  <2> SUFFICES ASSUME r.from = "spill" PROVE Length(r.form, Source(r)) = r.compSize
    OBVIOUS
  <2>1. SpillRecord(cur, r)
    BY <1>2 DEF RecordOk
  <2>2. r.compSize = Trait[Source(r)].jdk
    BY <1>1, <1>4 DEF SpillOk, Source
  <2> HIDE DEF r
  <2> QED BY <2>1, <2>2 DEF SpillRecord, Length
<1>11. r.from = "spill" /\ Stable =>
         Source(r) = batch[cur].content /\ Describes(w, w.of, Crc(w.of))
  <2> SUFFICES ASSUME r.from = "spill", Stable
               PROVE  Source(r) = batch[cur].content /\ Describes(w, w.of, Crc(w.of))
    OBVIOUS
  <2>1. SpillRecord(cur, r)
    BY <1>2 DEF RecordOk
  <2>2. Source(r) = batch[cur].content
    BY <1>1, <1>4 DEF SpillOk, Source
  <2> HIDE DEF r, w
  <2> QED BY <1>6, <1>10, <2>1, <2>2 DEF SpillRecord, Describes, DeclaredSize, Length, Crc
<1>12. r.from # "memory" => IsLarge(cur)
  BY <1>2 DEF RecordOk, FileRecord, SpillRecord
<1> HIDE DEF r, w
<1>13. WrittenOk(cur, w)
  <2>1. CASE r.from = "memory"
    BY <1>8, <2>1 DEF WrittenOk, Describes
  <2>2. CASE r.from # "memory"
    BY <1>3, <1>6, <1>9, <1>11, <1>12, <2>2 DEF WrittenOk
  <2> QED BY <2>1, <2>2
<1>14. AloneOk(cur, w)
  <2>1. CASE r.from = "memory"
    BY <1>2, <1>7, <2>1
  <2>2. CASE r.from # "memory"
    <3>1. ~(Len(batch) > 1)
      BY <1>12, <2>2, CurFacts, BatchFacts
    <3> QED BY <3>1 DEF AloneOk
  <2> QED BY <2>1, <2>2
<1>15. Stable \/ r.from # "file" => Length(r.form, Source(r)) >= r.compSize
  <2>1. r.from = "memory" => Length(r.form, Source(r)) = r.compSize
    BY <1>2 DEF RecordOk, MemoryRecord, Describes, Source
  <2> QED BY <1>3, <1>9, <1>10, <2>1
<1> QED BY <1>2, <1>5, <1>6, <1>13, <1>14, <1>15 DEF r, w

(* Only the file that was streamed goes, and only if it is the plugin's own. *)
LEMMA StreamedFiles ==
  ASSUME IInv, pc = "write", DeleteStreamed(result[cur])
  PROVE  /\ disk' \in [1..Len(batch) -> Content \cup {Gone}]
         /\ spill' \in [1..Len(batch) -> Content \cup {Gone, Abandoned}]
         /\ \A k \in 1..Len(batch) :
              /\ k # cur => disk'[k] = disk[k] /\ spill'[k] = spill[k]
              /\ disk'[k] = disk[k] \/ (disk'[k] = Gone /\ batch[k].temp)
         /\ spill'[cur] = Gone
         /\ batch[cur].temp /\ disk'[cur] # Gone => result[cur].from = "memory"
<1> DEFINE r == result[cur]
<1>1. /\ disk \in [1..Len(batch) -> Content \cup {Gone}]
      /\ spill \in [1..Len(batch) -> Content \cup {Gone, Abandoned}]
      /\ cur \in 1..Len(batch) /\ cur <= Len(result)
  BY CurFacts DEF IInv, TypeInv, StageInv
<1>2. /\ r.from # "spill" => spill[cur] = Gone
      /\ r.from = "spill" /\ batch[cur].temp => disk[cur] = Gone
      /\ r.from \in {"memory", "file", "spill"}
  <2>1. SpillOk(cur) /\ RecordOk(cur, r) /\ cur > Len(out)
    BY <1>1, CurFacts DEF IInv, FilesInv, RecordsInv, StageInv
  <2>2. r.from = "spill" => spill[cur] # Gone /\ spill[cur] # Abandoned
    <3>1. r.from = "spill" => spill[cur] \in Content
      BY <1>1, <2>1 DEF SpillOk
    <3> QED BY <3>1, ContentFacts DEF Abandoned
  <2> QED BY <1>1, <2>1, <2>2 DEF SpillOk, RecordOk
<1>3. /\ disk' = IF r.from = "file" /\ batch[cur].temp THEN [disk EXCEPT ![cur] = Gone] ELSE disk
      /\ spill' = IF r.from = "spill" THEN [spill EXCEPT ![cur] = Gone] ELSE spill
  BY DEF DeleteStreamed
<1> HIDE DEF r
<1>4. /\ disk' \in [1..Len(batch) -> Content \cup {Gone}]
      /\ \A k \in 1..Len(batch) :
           /\ k # cur => disk'[k] = disk[k]
           /\ disk'[k] = disk[k] \/ (disk'[k] = Gone /\ batch[k].temp)
  BY <1>1, <1>3
<1>5. /\ spill' \in [1..Len(batch) -> Content \cup {Gone, Abandoned}]
      /\ \A k \in 1..Len(batch) : k # cur => spill'[k] = spill[k]
      /\ spill'[cur] = Gone
  BY <1>1, <1>2, <1>3
<1>6. batch[cur].temp /\ disk'[cur] # Gone => r.from = "memory"
  BY <1>1, <1>2, <1>3
<1> QED BY <1>4, <1>5, <1>6 DEF r

LEMMA WritePayloadKeeps == ASSUME IInv, WritePayload PROVE IInv'
<1> DEFINE r == result[cur]
           w == [r EXCEPT !.of = Source(r)]
<1>1. /\ pc = "write" /\ UNCHANGED unit /\ DeleteStreamed(r)
      /\ batch' = batch /\ faults' = faults /\ Stable' = Stable /\ Pinned' = Pinned
      /\ raws' = raws /\ result' = result
  BY UnitFixed DEF WritePayload, unit
<1>2. /\ Len(batch) \in Nat /\ cur \in 1..Len(batch) /\ Len(result) = Len(batch)
      /\ Len(out) = cur - 1 /\ out \in Seq(Compressed)
  BY <1>1, CurFacts DEF IInv, TypeInv, StageInv
<1>3. /\ disk' \in [1..Len(batch) -> Content \cup {Gone}]
      /\ spill' \in [1..Len(batch) -> Content \cup {Gone, Abandoned}]
      /\ \A k \in 1..Len(batch) :
           /\ k # cur => disk'[k] = disk[k] /\ spill'[k] = spill[k]
           /\ disk'[k] = disk[k] \/ (disk'[k] = Gone /\ batch[k].temp)
      /\ spill'[cur] = Gone
      /\ batch[cur].temp /\ disk'[cur] # Gone => r.from = "memory"
      /\ \A k : IsLarge(k)' = IsLarge(k)
  BY <1>1, StreamedFiles, UnitFixed
<1>4. /\ Source(r) \in Content
      /\ Stable \/ r.from # "file" => Length(r.form, Source(r)) >= r.compSize
      /\ WrittenOk(cur, w) /\ w \in Compressed /\ AloneOk(cur, w)
  BY <1>1, SourceFacts
<1>5. \/ /\ out' = Append(out, w)
         /\ pc' = IF cur = Len(batch) THEN "done" ELSE "write"
         /\ cur' = IF cur = Len(batch) THEN cur ELSE cur + 1
      \/ /\ pc' = "failed" /\ out' = out /\ cur' = cur
         /\ ~(Source(r) # Gone /\ Length(r.form, Source(r)) >= r.compSize)
  BY DEF WritePayload
<1>6. RecordsInv' /\ RawsInv'
  <2>1. \A k \in 1..Len(result') : RecordOk(k, result'[k])
    BY <1>1 DEF IInv, RecordsInv
  <2> QED BY <1>1, <2>1, RecordsKept DEF IInv, RawsInv
<1>7. FilesInv' \/ ~(\A k \in 1..Len(batch) : k > Len(out') /\ pc' # "failed" => k # cur)
  <2> SUFFICES ASSUME \A k \in 1..Len(batch) : k > Len(out') /\ pc' # "failed" => k # cur,
                      NEW k \in 1..Len(batch)
               PROVE  FileOk(k)' /\ SpillOk(k)'
    BY <1>1 DEF FilesInv
  <2>1. /\ FileOk(k) /\ SpillOk(k) /\ pc # "failed"
        /\ ~(k > Len(result)) /\ k <= Len(result)
    BY <1>1, <1>2 DEF IInv, FilesInv
  <2>2. Len(out') \in Nat /\ Len(out') >= Len(out) /\ Len(out') <= cur
    BY <1>2, <1>4, <1>5, AppendProperties
  <2>3. k # cur /\ k <= Len(out') => k <= Len(out)
    BY <1>2, <2>2
  <2>4. k > Len(out') => k > Len(out)
    BY <1>2, <2>2
  <2>5. FileOk(k)'
    <3>1. Stable => disk'[k] \in {Gone, batch[k].content}
      BY <1>3, <2>1 DEF FileOk
    <3>2. batch[k].kind = "file" /\ ~batch[k].temp => disk'[k] # Gone
      BY <1>3, <2>1 DEF FileOk
    <3>3. pc' # "failed" /\ k > Len(out') /\ k <= Len(result) /\ result[k].from = "file"
            => disk'[k] # Gone
      BY <1>3, <2>1, <2>4 DEF FileOk
    <3>4. k <= Len(out') /\ batch[k].temp /\ disk'[k] # Gone => result[k].from = "memory"
      BY <1>3, <2>1, <2>3 DEF FileOk
    <3> QED BY <1>1, <2>1, <3>1, <3>2, <3>3, <3>4 DEF FileOk
  <2>6. SpillOk(k)'
    <3>1. CASE k = cur
      BY <1>1, <1>3, <2>1, <3>1 DEF SpillOk
    <3>2. CASE k # cur
      <4>1. disk'[k] = disk[k] /\ spill'[k] = spill[k]
        BY <1>3, <3>2
      <4> QED BY <1>1, <1>3, <2>1, <2>3, <2>4, <3>2, <4>1 DEF SpillOk
    <3> QED BY <3>1, <3>2
  <2> QED BY <2>5, <2>6
<1>8. CASE out' = Append(out, w) /\ pc' # "failed"
  <2> HIDE DEF r, w
  <2>1. /\ out' \in Seq(Compressed) /\ Len(out') = cur
        /\ out'[cur] = w /\ \A k \in 1..(cur - 1) : out'[k] = out[k]
    BY <1>2, <1>4, <1>8, AppendProperties
  <2>2. \/ cur = Len(batch) /\ pc' = "done" /\ cur' = cur
        \/ cur < Len(batch) /\ pc' = "write" /\ cur' = cur + 1
    BY <1>2, <1>5, <1>8
  <2>3. TypeInv'
    <3>1. cur' \in 1..Len(batch)
      BY <1>2, <2>2
    <3> QED BY <1>1, <1>3, <2>1, <3>1 DEF IInv, TypeInv
  <2>4. StageInv'
    BY <1>1, <1>2, <2>1, <2>2 DEF StageInv, Compressing, LargeSteps
  <2>5. FilesInv'
    BY <1>2, <1>7, <2>1
  <2>6. \A k \in 1..Len(out') : WrittenOk(k, out'[k]) /\ AloneOk(k, out'[k])
    <3> SUFFICES ASSUME NEW k \in 1..Len(out') PROVE WrittenOk(k, out'[k]) /\ AloneOk(k, out'[k])
      OBVIOUS
    <3>1. CASE k = cur
      BY <1>4, <2>1, <3>1
    <3>2. CASE k # cur
      <4>1. k \in 1..(cur - 1) /\ k \in 1..Len(out)
        BY <1>2, <2>1, <3>2
      <4> QED BY <2>1, <4>1 DEF IInv, WrittenInv, AloneInv
    <3> QED BY <3>1, <3>2
  <2>7. \A k \in 1..Len(result') : AloneOk(k, result'[k])
    BY <1>1 DEF IInv, AloneInv
  <2>8. WrittenInv' /\ AloneInv'
    BY <1>1, <2>6, <2>7, WrittenKept, AloneKept
  <2>9. NoSpuriousFailure'
    BY <1>8 DEF NoSpuriousFailure
  <2> QED BY <1>6, <2>3, <2>4, <2>5, <2>8, <2>9 DEF IInv
<1>9. CASE /\ pc' = "failed" /\ out' = out /\ cur' = cur
           /\ ~(Source(r) # Gone /\ Length(r.form, Source(r)) >= r.compSize)
  <2>1. ~Stable
    <3>1. Source(r) # Gone
      BY <1>4, ContentFacts
    <3> QED BY <1>4, <1>9, <3>1
  <2> HIDE DEF r, w
  <2>2. TypeInv'
    BY <1>1, <1>3, <1>9 DEF IInv, TypeInv
  <2>3. StageInv'
    BY <1>1, <1>2, <1>9 DEF StageInv, Compressing, LargeSteps
  <2>4. FilesInv'
    BY <1>7, <1>9
  <2>5. \A k \in 1..Len(out') : WrittenOk(k, out'[k]) /\ AloneOk(k, out'[k])
    BY <1>9 DEF IInv, WrittenInv, AloneInv
  <2>6. \A k \in 1..Len(result') : AloneOk(k, result'[k])
    BY <1>1 DEF IInv, AloneInv
  <2>7. WrittenInv' /\ AloneInv'
    BY <1>1, <2>5, <2>6, WrittenKept, AloneKept
  <2>8. NoSpuriousFailure'
    BY <1>1, <2>1 DEF NoSpuriousFailure, Stable
  <2> QED BY <1>6, <2>2, <2>3, <2>4, <2>7, <2>8 DEF IInv
<1> QED BY <1>5, <1>8, <1>9

LEMMA WriterFailsKeeps == ASSUME IInv, WriterFails PROVE IInv'
<1>1. /\ pc = "write" /\ pc' = "failed" /\ UNCHANGED <<unit, cur, raws, result, out>>
      /\ faults \cap {"read", "spill", "archive", "rewrite"} # {}
  BY DEF WriterFails
<1>2. CASE disk' = disk /\ spill' = spill
  <2>1. FilesInv'
    BY <1>1, <1>2, FilesKept
  <2> QED BY <1>1, <1>2, <2>1, FailingKeeps DEF IInv, TypeInv
<1>3. CASE DeleteStreamed(result[cur])
  <2>1. /\ disk' \in [1..Len(batch) -> Content \cup {Gone}]
        /\ spill' \in [1..Len(batch) -> Content \cup {Gone, Abandoned}]
        /\ \A k \in 1..Len(batch) :
             /\ k # cur => disk'[k] = disk[k] /\ spill'[k] = spill[k]
             /\ disk'[k] = disk[k] \/ (disk'[k] = Gone /\ batch[k].temp)
        /\ spill'[cur] = Gone
    BY <1>1, <1>3, StreamedFiles
  <2>2. /\ batch' = batch /\ Stable' = Stable /\ \A k : IsLarge(k)' = IsLarge(k)
        /\ result' = result /\ out' = out /\ Len(result) = Len(batch) /\ Len(batch) \in Nat
    BY <1>1, UnitFixed, CurFacts DEF IInv, StageInv
  <2>3. ASSUME NEW k \in 1..Len(batch) PROVE FileOk(k)' /\ SpillOk(k)'
    <3>1. FileOk(k) /\ SpillOk(k) /\ ~(k > Len(result))
      BY <2>2 DEF IInv, FilesInv
    <3>2. FileOk(k)'
      BY <1>1, <2>1, <2>2, <3>1 DEF FileOk
    <3>3. CASE k = cur
      BY <1>1, <2>1, <2>2, <3>2, <3>3 DEF SpillOk
    <3>4. CASE k # cur
      BY <1>1, <2>1, <2>2, <3>1, <3>2, <3>4 DEF SpillOk
    <3> QED BY <3>2, <3>3, <3>4
  <2>4. FilesInv'
    BY <2>2, <2>3 DEF FilesInv
  <2> QED BY <1>1, <2>1, <2>4, FailingKeeps
<1> QED BY <1>2, <1>3 DEF WriterFails

-----------------------------------------------------------------------------
(* The invariant holds of every state of every unit. *)

LEMMA InitInv == Init => IInv
<1> SUFFICES ASSUME Init PROVE IInv
  OBVIOUS
<1>1. /\ batch \in Batches /\ faults \in FaultSets
      /\ disk = [i \in 1..Len(batch) |-> IF batch[i].kind = "file" THEN batch[i].content ELSE Gone]
      /\ spill = [i \in 1..Len(batch) |-> Gone]
      /\ pc = (IF TakesBatchCall THEN "readBatch" ELSE "compress")
      /\ cur = 1 /\ raws = <<>> /\ result = <<>> /\ out = <<>>
  BY DEF Init
<1>2. /\ Len(batch) \in Nat /\ Len(batch) >= 1
      /\ \A k \in 1..Len(batch) : batch[k].content \in Content
  BY <1>1, BatchFacts
<1>3. Len(raws) = 0 /\ Len(result) = 0 /\ Len(out) = 0
  BY <1>1, EmptySeq
<1>4. TypeInv
  <2>1. <<>> \in Seq(Content) /\ <<>> \in Seq(Compressed)
    BY EmptySeq
  <2> QED BY <1>1, <1>2, <2>1 DEF TypeInv
<1>5. StageInv
  BY <1>1, <1>2, <1>3 DEF StageInv, Compressing, LargeSteps
<1>6. RawsInv /\ RecordsInv /\ WrittenInv /\ AloneInv
  BY <1>3 DEF RawsInv, RecordsInv, WrittenInv, AloneInv
<1>7. FilesInv
  <2> SUFFICES ASSUME NEW k \in 1..Len(batch) PROVE FileOk(k) /\ SpillOk(k)
    BY DEF FilesInv
  <2>1. batch[k].content # Gone
    BY <1>2, ContentFacts
  <2> QED BY <1>1, <1>3, <2>1 DEF FileOk, SpillOk
<1>8. NoSpuriousFailure
  BY <1>1 DEF NoSpuriousFailure
<1> QED BY <1>4, <1>5, <1>6, <1>7, <1>8 DEF IInv

LEMMA StutterKeeps == ASSUME IInv, UNCHANGED vars PROVE IInv'
<1>1. /\ pc' = pc /\ UNCHANGED unit
      /\ batch' = batch /\ faults' = faults /\ nativeHandle' = nativeHandle
      /\ Stable' = Stable /\ Pinned' = Pinned /\ TakesBatchCall' = TakesBatchCall
      /\ disk' = disk /\ spill' = spill
      /\ cur' = cur /\ raws' = raws /\ result' = result /\ out' = out
  BY UnitFixed DEF vars, unit
<1>2. TypeInv' /\ RawsInv' /\ NoSpuriousFailure'
  BY <1>1 DEF IInv, TypeInv, RawsInv, NoSpuriousFailure
<1>3. StageInv'
  <2>1. IsLarge(cur)' = IsLarge(cur)
    BY <1>1 DEF IsLarge, DeclaredSize, Size
  <2> QED BY <1>1, <2>1 DEF IInv, StageInv
<1>4. RecordsInv' /\ WrittenInv' /\ AloneInv'
  <2>1. \A k \in 1..Len(result') : RecordOk(k, result'[k]) /\ AloneOk(k, result'[k])
    BY <1>1 DEF IInv, RecordsInv, AloneInv
  <2>2. \A k \in 1..Len(out') : WrittenOk(k, out'[k]) /\ AloneOk(k, out'[k])
    BY <1>1 DEF IInv, WrittenInv, AloneInv
  <2> QED BY <1>1, <2>1, <2>2, RecordsKept, WrittenKept, AloneKept
<1>5. FilesInv'
  BY <1>1, FilesKept
<1> QED BY <1>2, <1>3, <1>4, <1>5 DEF IInv

THEOREM UnitInvariance == Spec => []IInv
<1>1. Init => IInv
  BY InitInv
<1>2. IInv /\ [Next]_vars => IInv'
  <2> SUFFICES ASSUME IInv, [Next]_vars PROVE IInv'
    OBVIOUS
  <2>1. CASE ReadBatched
    BY <2>1, ReadBatchedKeeps
  <2>2. CASE CompressBatchNative
    BY <2>2, CompressBatchNativeKeeps
  <2>3. CASE CompressSmall
    BY <2>3, CompressSmallKeeps
  <2>4. CASE BeginLarge
    BY <2>4, BeginLargeKeeps
  <2>5. CASE ReadMagic
    BY <2>5, ReadMagicKeeps
  <2>6. CASE Probe
    BY <2>6, ProbeKeeps
  <2>7. CASE CrcOf
    BY <2>7, CrcOfKeeps
  <2>8. CASE TryMmapNativeDeflate
    BY <2>8, TryMmapKeeps
  <2>9. CASE DeflateToFile
    BY <2>9, DeflateToFileKeeps
  <2>10. CASE WorkerFails
    BY <2>10, WorkerFailsKeeps
  <2>11. CASE WritePayload
    BY <2>11, WritePayloadKeeps
  <2>12. CASE \E i \in 1..Len(batch) : Rewrite(i)
    BY <2>12, RewriteKeeps
  <2>13. CASE UNCHANGED vars
    BY <2>13, StutterKeeps
  <2>14. CASE DeflateToFileFails
    BY <2>14, DeflateToFileFailsKeeps
  <2>15. CASE WriterFails
    BY <2>15, WriterFailsKeeps
  <2> QED
    BY <2>1, <2>2, <2>3, <2>4, <2>5, <2>6, <2>7, <2>8, <2>9, <2>10, <2>11, <2>12, <2>13,
       <2>14, <2>15 DEF Next, Terminated
<1> QED BY <1>1, <1>2, PTL DEF Spec

-----------------------------------------------------------------------------
(* What the runs check, for every value of the constants.                    *)

(* No unit fails unless something went wrong for it: whatever path each of   *)
(* its entries takes, no file is deleted that a later step, or the writer,   *)
(* still reads, and each file has the bytes its record announces.            *)
THEOREM ThrowsOnlyOnFaults == Spec => []NoSpuriousFailure
<1>1. IInv => NoSpuriousFailure
  BY DEF IInv
<1> QED BY <1>1, UnitInvariance, PTL

(* A unit with a spill file has one entry. *)
LEMMA OneEntry ==
  ASSUME NEW n \in Nat, n >= 1, ~(n > 1), NEW i \in 1..n, NEW j \in 1..n
  PROVE  n = 1 /\ i = 1 /\ j = 1
OBVIOUS

(* The user's own files are never deleted, whatever goes wrong.  A spill     *)
(* file is there only until it is streamed, and one that stays is that of a  *)
(* unit that failed, the only entry of which it is: deflateToFile and the    *)
(* writer leave it to whoever removes the spill directory.  A written unit   *)
(* leaves a temp input only where nothing was streamed, and no unit has both *)
(* a temp input and its deflated form, but for a deflater that failed.       *)
THEOREM FilesEndAsTheyShould == Spec => []FilesDisposed
<1>1. IInv => FilesDisposed
  <2> SUFFICES ASSUME IInv, NEW k \in 1..Len(batch)
               PROVE  /\ batch[k].kind = "file" /\ ~batch[k].temp => Present(k)
                      /\ spill[k] # Gone => k = cur /\ IsLarge(k) /\ pc \in {"write", "failed"}
                      /\ batch[k].temp /\ Present(k) => spill[k] \in {Gone, Abandoned}
                      /\ batch[k].temp /\ Present(k) /\ pc = "done" => result[k].from = "memory"
    BY DEF FilesDisposed
  <2>1. FileOk(k) /\ SpillOk(k)
    BY DEF IInv, FilesInv
  <2>2. pc = "done" => k <= Len(out)
    BY CurFacts DEF IInv, StageInv
  <2>3. ASSUME spill[k] # Gone PROVE k = cur /\ IsLarge(k) /\ pc \in {"write", "failed"}
    <3>1. IsLarge(k)
      BY <2>1, <2>3 DEF SpillOk
    <3>2. Len(batch) = 1 /\ k = 1 /\ cur = 1
      <4>1. /\ Len(batch) \in Nat /\ Len(batch) >= 1 /\ ~(Len(batch) > 1)
            /\ cur \in 1..Len(batch)
        BY <3>1, CurFacts, BatchFacts
      <4> QED BY <4>1, OneEntry
    <3>3. pc \in {"write", "failed"}
      <4> SUFFICES ASSUME pc # "failed" PROVE pc = "write"
        OBVIOUS
      <4>1. ~(k > Len(result)) /\ ~(k <= Len(out))
        BY <2>1, <2>3 DEF SpillOk
      <4>2. result # <<>> /\ Len(result) # cur - 1
        <5>1. result = <<>> => Len(result) = 0
          BY EmptySeq
        <5> QED BY <3>2, <4>1, <5>1
      <4> QED BY <2>2, <4>1, <4>2 DEF IInv, StageInv
    <3> QED BY <3>1, <3>2, <3>3
  <2> QED BY <2>1, <2>2, <2>3 DEF FileOk, SpillOk, Present
<1> QED BY <1>1, UnitInvariance, PTL

(* Unless the native call fails before it has a CRC-32, what is archived is  *)
(* readable and is the entry: for the batch call, in memory, mapped, spilled *)
(* and streamed alike.                                                       *)
THEOREM ArchivesFaithfully ==
  ASSUME \A F \in FaultSets : "pin" \notin F /\ "malloc" \notin F
  PROVE  Spec => []ArchivedFaithfully
<1>1. IInv => ArchivedFaithfully
  <2> SUFFICES ASSUME IInv, NEW k \in 1..Len(out)
               PROVE  IF "rewrite" \notin faults THEN Readable(k) /\ out[k].of = batch[k].content
                      ELSE ~IsLarge(k) => Readable(k)
    BY DEF ArchivedFaithfully
  <2>1. WrittenOk(k, out[k]) /\ Pinned
    BY DEF IInv, WrittenInv, TypeInv, Pinned
  <2> QED BY <2>1 DEF WrittenOk, Describes, Readable, Stable
<1> QED BY <1>1, UnitInvariance, PTL

(* Batching never changes what gets compressed: while the batch call has its *)
(* memory, each entry is archived as one of the records it could have had in *)
(* a unit of its own.                                                        *)
THEOREM BatchesChangeNothing ==
  ASSUME \A F \in FaultSets : "malloc" \notin F
  PROVE  Spec => []BatchIndependent
<1>1. IInv => BatchIndependent
  <2> SUFFICES ASSUME IInv, Len(batch) > 1, "rewrite" \notin faults, NEW k \in 1..Len(out)
               PROVE  out[k] \in Alone(k)
    BY DEF BatchIndependent, Alone
  <2>1. AloneOk(k, out[k]) /\ "malloc" \notin faults
    BY DEF IInv, AloneInv, TypeInv
  <2> QED BY <2>1 DEF AloneOk, Stable
<1> QED BY <1>1, UnitInvariance, PTL
=============================================================================
