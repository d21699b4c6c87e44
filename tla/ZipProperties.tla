---------------------------- MODULE ZipProperties ----------------------------
(* What the archive of ZipFormat must be to somebody who reads it.           *)
EXTENDS ZipFormat

Records == [at : Nat, name : STRING, crc : 0..MAX32, method : Methods, comp : 0..MAX32,
            raw : 0..MAX32, off : 0..MAX32, extra : Seq(Nat), length : Nat]
Headers == [at : Nat, name : STRING, crc : 0..MAX32, method : Methods, comp : 0..MAX32,
            raw : 0..MAX32, extra : Seq(Nat), dataAt : Nat]

TypeOK ==
  /\ force \in BOOLEAN
  /\ stage \in {"entries", "sizing", "directory", "written", "failed"}
  /\ order \in Seq([entry : Entries, off : Nat])
  /\ offset \in Nat
  /\ locals \in Seq(Headers)
  /\ summed \in 0..Len(order)
  /\ cap \in (-MaxInt - 1)..MaxInt
  /\ position \in Nat
  /\ central \in Seq(Records) /\ Len(central) <= Len(order)
  /\ anyEntryZ64 \in BOOLEAN
  /\ Len(ends) = IF stage = "written" THEN 1 ELSE 0

-----------------------------------------------------------------------------
(* A reader: a 4-byte field that holds the sentinel stands for the next      *)
(* value of the ZIP64 field, if there is one left.                           *)

Widened(field, extra, i) == IF field = MAX32 /\ i <= Len(extra) THEN extra[i] ELSE field
Taken(field) == IF field = MAX32 THEN 1 ELSE 0

RawOf(r)  == Widened(r.raw, r.extra, 1)
CompOf(r) == Widened(r.comp, r.extra, 1 + Taken(r.raw))
OffOf(r)  == Widened(r.off, r.extra, 1 + Taken(r.raw) + Taken(r.comp))

(* It starts with the end record and looks for a locator right before it.    *)
EndRecord == ends[1].end
Locates64 ==
  /\ ends[1].locator # <<>> /\ ends[1].zip64 # <<>>
  /\ ends[1].locator[1].at = EndRecord.at - 20
  /\ ends[1].locator[1].pointsAt = ends[1].zip64[1].at

FromEnd(field, sentinel, wide) == IF field = sentinel /\ Locates64 THEN wide ELSE field
CountFound  == FromEnd(EndRecord.count, MAX16, ends[1].zip64[1].count)
SizeFound   == FromEnd(EndRecord.cdSize, MAX32, ends[1].zip64[1].cdSize)
OffsetFound == FromEnd(EndRecord.cdOffset, MAX32, ends[1].zip64[1].cdOffset)

-----------------------------------------------------------------------------
(* From the end record alone a reader finds the directory, its extent and    *)
(* the number of its records.                                                *)
DirectoryFound ==
  stage = "written" =>
    /\ CountFound = Len(order) /\ CountFound = Len(central)
    /\ OffsetFound = offset /\ SizeFound = position

(* The records follow each other without gaps from the start of the          *)
(* directory, record k tells sizes, CRC-32 and method of entry k, and where  *)
(* its local header is; none of this depends on which of the values are too  *)
(* large for their fields.                                                   *)
RecordsRecovered ==
  \A k \in 1..Len(central) :
    /\ central[k].at = IF k = 1 THEN offset ELSE central[k - 1].at + central[k - 1].length
    /\ central[k].name = order[k].entry.name /\ central[k].method = order[k].entry.method
    /\ central[k].crc = order[k].entry.crc
    /\ RawOf(central[k]) = order[k].entry.raw
    /\ CompOf(central[k]) = order[k].entry.comp
    /\ OffOf(central[k]) = order[k].off

(* At the offset noted for entry k is its local header, which tells the same *)
(* sizes; its payload ends where the next header, or the directory, begins.  *)
LocalsFound ==
  /\ Len(locals) = Len(order)
  /\ \A k \in 1..Len(order) :
       /\ locals[k].at = order[k].off /\ locals[k].name = order[k].entry.name
       /\ RawOf(locals[k]) = order[k].entry.raw
       /\ CompOf(locals[k]) = order[k].entry.comp
       /\ locals[k].dataAt + order[k].entry.comp =
            IF k = Len(order) THEN offset ELSE locals[k + 1].at

(* ZIP64 only where it is needed: an archive whose values all fit has none   *)
(* of its records, so any reader can open it.                                *)
Zip64OnlyIfNeeded ==
  /\ stage = "written" /\ ~force /\ Len(order) < MAX16 /\ offset < MAX32 /\ position < MAX32
  /\ \A k \in 1..Len(order) : order[k].entry.raw < MAX32 /\ order[k].entry.comp < MAX32
  => /\ ends[1].zip64 = <<>>
     /\ \A k \in 1..Len(order) : central[k].extra = <<>> /\ locals[k].extra = <<>>

(* The bytes the entries may need in the buffer, by how many of them are     *)
(* counted: the end records with their slack, then a record per entry.       *)
Needed ==
  LET need[k \in 0..Len(order)] ==
        IF k = 0 THEN 98 + 64 ELSE need[k - 1] + 46 + order[k].entry.nameLen + 28
  IN  need

(* The capacity computed up front is enough for whatever the entries need,   *)
(* unless the sum exceeds an int.                                            *)
DirectoryFits == stage = "failed" => Needed[Len(order)] > MaxInt
=============================================================================
