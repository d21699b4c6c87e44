------------------------------ MODULE ZipFormat ------------------------------
(***************************************************************************)
(* The archive that ParallelZipWriter writes: local headers and payloads   *)
(* as the entries come, then the central directory and the end records,    *)
(* with ZIP64 fields where a size, an offset or the count is too large.    *)
(*                                                                         *)
(* Bytes are abstracted to records that know the position they start at.   *)
(* A 4-byte field holds its value modulo MAX32 + 1, a count field modulo   *)
(* MAX16 + 1; these two are parameters, 16rFFFFFFFF and 16rFFFF in the     *)
(* source.  The capacity of the directory buffer is a Java int.            *)
(***************************************************************************)
EXTENDS Integers, Sequences

CONSTANTS
  MAX16, MAX32, MaxInt,
  Entries,                   (* the entries there may be                        *)
  MaxEntries                 (* bound on their number                           *)

Methods == {0, 8}
Entry == [name : STRING, nameLen : Nat, crc : 0..MAX32, raw : Nat, comp : Nat, method : Methods]

ASSUME LimitsAssumption  == MAX16 \in Nat \ {0} /\ MAX32 \in Nat \ {0} /\ MaxInt \in Nat /\ MaxInt >= 162
ASSUME EntriesAssumption == Entries \subseteq Entry /\ MaxEntries \in Nat
ASSUME NamesAssumption   == \A e \in Entries : e.nameLen + 74 <= MaxInt

Field32(x) == x % (MAX32 + 1)
Field16(x) == x % (MAX16 + 1)
IsLargeStrictly(x) == x > MAX32             (* mutant: off by one *)
IsLarge(x) == x >= MAX32

JavaInt(x) == IF x > MaxInt THEN x - 2 * (MaxInt + 1) ELSE x

VARIABLES
  force,               (* forceZip64                                             *)
  stage,
  order,               (* the entries written, with their offsets (order, meta)  *)
  offset,              (* bytes written so far                                   *)
  locals,              (* the local headers in the archive                       *)
  summed,              (* the entries that capacity is computed for              *)
  cap, position,       (* capacity and position of the directory buffer b        *)
  central,             (* the directory records                                  *)
  anyEntryZ64,
  ends                 (* the end records                                        *)

vars == <<force, stage, order, offset, locals, summed, cap, position, central, anyEntryZ64, ends>>

-----------------------------------------------------------------------------
(* Local headers.                                                            *)

LocalZ64(e, f) == f \/ IsLarge(e.comp) \/ IsLarge(e.raw)

LocalLength(e, f) == 30 + e.nameLen + (IF LocalZ64(e, f) THEN 20 ELSE 0)

LocalHeader(e, at, f) ==
  [at |-> at, name |-> e.name, crc |-> Field32(e.crc), method |-> e.method,
   comp  |-> Field32(IF LocalZ64(e, f) THEN MAX32 ELSE e.comp),
   raw   |-> Field32(IF LocalZ64(e, f) THEN MAX32 ELSE e.raw),
   extra |-> IF LocalZ64(e, f) THEN <<e.raw, e.comp>> ELSE <<>>,
   dataAt |-> at + LocalLength(e, f)]

(* mutant: the ZIP64 field of a local header is not counted *)
WriteEntryShort ==
  /\ stage = "entries" /\ Len(order) < MaxEntries
  /\ \E e \in Entries :
       /\ locals' = Append(locals, LocalHeader(e, offset, force))
       /\ order'  = Append(order, [entry |-> e, off |-> offset])
       /\ offset' = offset + 30 + e.nameLen + e.comp
  /\ UNCHANGED <<force, stage, summed, cap, position, central, anyEntryZ64, ends>>

(* runWriter: one entry goes out and is noted for the directory. *)
WriteEntry ==
  /\ stage = "entries" /\ Len(order) < MaxEntries
  /\ \E e \in Entries :
       /\ locals' = Append(locals, LocalHeader(e, offset, force))
       /\ order'  = Append(order, [entry |-> e, off |-> offset])
       /\ offset' = offset + LocalLength(e, force) + e.comp
  /\ UNCHANGED <<force, stage, summed, cap, position, central, anyEntryZ64, ends>>

-----------------------------------------------------------------------------
(* buildCentralDirectoryAndEnd().                                            *)

EndRecords == 56 + 20 + 22
Slack      == 64
MaxExtraNone == 4              (* mutant: room for the head of the field only  *)
MaxExtra   == 28

BeginDirectory ==
  /\ stage = "entries"
  /\ stage' = "sizing"
  /\ cap' = EndRecords + Slack
  /\ UNCHANGED <<force, order, offset, locals, summed, position, central, anyEntryZ64, ends>>

(* The first loop. *)
AddToCap ==
  /\ stage = "sizing" /\ summed < Len(order)
  /\ cap' = JavaInt(cap + 46 + order[summed + 1].entry.nameLen + MaxExtra)
  /\ summed' = summed + 1
  /\ UNCHANGED <<force, stage, order, offset, locals, position, central, anyEntryZ64, ends>>

(* A negative capacity makes allocate() throw. *)
Allocate ==
  /\ stage = "sizing" /\ summed = Len(order)
  /\ stage' = IF cap < 0 THEN "failed" ELSE "directory"
  /\ UNCHANGED <<force, order, offset, locals, summed, cap, position, central, anyEntryZ64, ends>>

(* The ZIP64 field has the values that do not fit, in a fixed order. *)
CentralExtra(m, f) ==
  (IF f \/ IsLarge(m.entry.raw) THEN <<m.entry.raw>> ELSE <<>>) \o
  (IF f \/ IsLarge(m.entry.comp) THEN <<m.entry.comp>> ELSE <<>>) \o
  (IF f \/ IsLarge(m.off) THEN <<m.off>> ELSE <<>>)

Sentinel(x, f) == Field32(IF f \/ IsLarge(x) THEN MAX32 ELSE x)

CentralRecord(m, at, f) ==
  LET extra == CentralExtra(m, f)
      extraLen == IF extra = <<>> THEN 0 ELSE 4 + 8 * Len(extra)
  IN  [at |-> at, name |-> m.entry.name, crc |-> Field32(m.entry.crc), method |-> m.entry.method,
       comp |-> Sentinel(m.entry.comp, f), raw |-> Sentinel(m.entry.raw, f), off |-> Sentinel(m.off, f),
       extra |-> extra, length |-> 46 + m.entry.nameLen + extraLen]

NextRecord == CentralRecord(order[Len(central) + 1], offset + position, force)

(* The second loop; a full buffer makes put() throw. *)
PutCentral ==
  /\ stage = "directory" /\ Len(central) < Len(order)
  /\ IF position + NextRecord.length <= cap
     THEN /\ central' = Append(central, NextRecord)
          /\ position' = position + NextRecord.length
          /\ anyEntryZ64' = (anyEntryZ64 \/ NextRecord.extra # <<>>)
          /\ UNCHANGED stage
     ELSE stage' = "failed" /\ UNCHANGED <<central, position, anyEntryZ64>>
  /\ UNCHANGED <<force, order, offset, locals, summed, cap, ends>>

(* mutants: only the entries count; always *)
NeedZip64Entries == force \/ anyEntryZ64 \/ Len(order) >= MAX16
NeedZip64Always  == TRUE

NeedZip64 ==
  \/ force \/ anyEntryZ64 \/ Len(order) >= MAX16
  \/ IsLarge(offset) \/ IsLarge(position)

End64(at) == [at |-> at, count |-> Len(order), cdSize |-> position, cdOffset |-> offset]
End(at) ==
  [at |-> at,
   count    |-> Field16(IF Len(order) >= MAX16 THEN MAX16 ELSE Len(order)),
   cdSize   |-> Field32(IF IsLarge(position) THEN MAX32 ELSE position),
   cdOffset |-> Field32(IF IsLarge(offset) THEN MAX32 ELSE offset)]

(* the ZIP64 record, the locator that points at it, and the end record *)
EndsWith64 ==
  LET at == offset + position
  IN  [zip64 |-> <<End64(at)>>, locator |-> <<[at |-> at + 56, pointsAt |-> at]>>, end |-> End(at + 56 + 20)]
EndsWithout == [zip64 |-> <<>>, locator |-> <<>>, end |-> End(offset + position)]

PutEnd ==
  /\ stage = "directory" /\ Len(central) = Len(order)
  /\ LET length == IF NeedZip64 THEN EndRecords ELSE 22
     IN  IF position + length <= cap
         THEN /\ ends' = <<IF NeedZip64 THEN EndsWith64 ELSE EndsWithout>>
              /\ stage' = "written"
         ELSE stage' = "failed" /\ UNCHANGED ends
  /\ UNCHANGED <<force, order, offset, locals, summed, cap, position, central, anyEntryZ64>>

Init ==
  /\ force \in BOOLEAN
  /\ stage = "entries" /\ order = <<>> /\ offset = 0 /\ locals = <<>>
  /\ summed = 0 /\ cap = 0 /\ position = 0 /\ central = <<>> /\ anyEntryZ64 = FALSE /\ ends = <<>>

Terminated == stage \in {"written", "failed"} /\ UNCHANGED vars

Next ==
  \/ WriteEntry
  \/ BeginDirectory \/ AddToCap \/ Allocate
  \/ PutCentral \/ PutEnd
  \/ Terminated

Spec == Init /\ [][Next]_vars
=============================================================================
