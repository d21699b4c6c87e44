------------------------------ MODULE ZipProofs ------------------------------
(* Proofs that the archive of ZipFormat can be read back, for every value of *)
(* the field limits and every set of entries.                                *)
EXTENDS ZipProperties, SequenceTheorems, Induction, TLAPS

-----------------------------------------------------------------------------
(* The inductive invariant of ZipFormat: every record in the archive is the  *)
(* one its entry asks for, and the records lie next to each other.           *)
LocalsInv ==
  /\ Len(locals) = Len(order)
  /\ \A k \in 1..Len(order) : locals[k] = LocalHeader(order[k].entry, order[k].off, force)
  /\ \A k \in 1..Len(order) :
       locals[k].dataAt + order[k].entry.comp =
         IF k = Len(order) THEN offset ELSE locals[k + 1].at

CentralInv ==
  /\ stage \in {"entries", "sizing"} => central = <<>> /\ position = 0 /\ ~anyEntryZ64
  /\ stage = "entries" => summed = 0
  /\ \A k \in 1..Len(central) :
       central[k] = CentralRecord(order[k], IF k = 1 THEN offset
                                            ELSE central[k - 1].at + central[k - 1].length, force)
  /\ offset + position =
       IF central = <<>> THEN offset
       ELSE central[Len(central)].at + central[Len(central)].length
  /\ anyEntryZ64 <=> \E k \in 1..Len(central) : central[k].extra # <<>>

EndInv ==
  stage = "written" =>
    /\ Len(central) = Len(order)
    /\ ends = <<IF NeedZip64 THEN EndsWith64 ELSE EndsWithout>>

IInv == TypeOK /\ LocalsInv /\ CentralInv /\ EndInv


Placed == [entry : Entries, off : Nat]

-----------------------------------------------------------------------------
(* Fields.                                                                   *)

(* A remainder of a smaller number is the number itself. *)
LEMMA SmallMod == ASSUME NEW n \in Nat, NEW x \in 0..n PROVE x % (n + 1) = x
  BY Z3T(20)

LEMMA AddZero == ASSUME NEW x \in Nat, NEW y \in Nat, y = 0 PROVE x + y = x
  OBVIOUS

LEMMA FieldSmall == ASSUME NEW x \in 0..MAX32 PROVE Field32(x) = x
  <1>1. MAX32 \in Nat
    BY LimitsAssumption
  <1> QED
    BY <1>1, SmallMod DEF Field32

LEMMA FieldType == ASSUME NEW x \in Nat PROVE Field32(x) \in 0..MAX32
  <1>1. MAX32 \in Nat /\ MAX32 + 1 \in Nat /\ MAX32 + 1 > 0
    BY LimitsAssumption
  <1>2. x % (MAX32 + 1) \in 0..MAX32
    BY <1>1, Z3T(20)
  <1> QED
    BY <1>2 DEF Field32

LEMMA CountSmall == ASSUME NEW x \in 0..MAX16 PROVE Field16(x) = x
  <1>1. MAX16 \in Nat
    BY LimitsAssumption
  <1> QED
    BY <1>1, SmallMod DEF Field16

(* A value that is not large fits its field and is not the sentinel. *)
LEMMA Fits == ASSUME NEW x \in Nat, ~IsLarge(x)
              PROVE  Field32(x) = x /\ x # MAX32 /\ x \in 0..MAX32
  <1>1. x \in 0..MAX32 /\ x # MAX32
    BY LimitsAssumption DEF IsLarge
  <1> QED
    BY <1>1, FieldSmall

LEMMA SentinelField == Field32(MAX32) = MAX32 /\ MAX32 \in Nat
  <1>1. MAX32 \in Nat /\ MAX32 \in 0..MAX32
    BY LimitsAssumption
  <1> QED
    BY <1>1, FieldSmall

LEMMA EntryParts ==
  ASSUME NEW e \in Entries
  PROVE  /\ e.name \in STRING /\ e.nameLen \in Nat /\ e.crc \in 0..MAX32
         /\ e.raw \in Nat /\ e.comp \in Nat /\ e.method \in Methods
  BY EntriesAssumption DEF Entry

-----------------------------------------------------------------------------
(* Local headers.                                                            *)

LEMMA LengthType == ASSUME NEW e \in Entries PROVE LocalLength(e, force) \in Nat
  BY EntryParts DEF LocalLength

LEMMA HeaderType ==
  ASSUME NEW e \in Entries, NEW at \in Nat
  PROVE  LocalHeader(e, at, force) \in Headers
  <1>1. e.crc \in Nat
    BY EntryParts, LimitsAssumption
  <1>2. /\ Field32(e.crc) \in 0..MAX32
        /\ Field32(IF LocalZ64(e, force) THEN MAX32 ELSE e.comp) \in 0..MAX32
        /\ Field32(IF LocalZ64(e, force) THEN MAX32 ELSE e.raw) \in 0..MAX32
    BY <1>1, EntryParts, FieldType, SentinelField
  <1>3. (IF LocalZ64(e, force) THEN <<e.raw, e.comp>> ELSE <<>>) \in Seq(Nat)
    BY EntryParts
  <1>4. at + LocalLength(e, force) \in Nat
    BY LengthType
  <1> QED
    BY <1>2, <1>3, <1>4, EntryParts DEF LocalHeader, Headers

(* A reader of a local header gets the sizes of its entry. *)
LEMMA HeaderReads ==
  ASSUME NEW e \in Entries, NEW at \in Nat
  PROVE  /\ LocalHeader(e, at, force).at = at /\ LocalHeader(e, at, force).name = e.name
         /\ RawOf(LocalHeader(e, at, force)) = e.raw
         /\ CompOf(LocalHeader(e, at, force)) = e.comp
  <1> DEFINE h == LocalHeader(e, at, force)
  <1>1. h.at = at /\ h.name = e.name
    BY DEF LocalHeader
  <1>2. CASE LocalZ64(e, force)
    <2>1. h.raw = MAX32 /\ h.comp = MAX32 /\ h.extra = <<e.raw, e.comp>>
      BY <1>2, SentinelField DEF LocalHeader
    <2>2. Len(h.extra) = 2 /\ h.extra[1] = e.raw /\ h.extra[2] = e.comp
      BY <2>1
    <2> HIDE DEF h
    <2>3. RawOf(h) = e.raw /\ CompOf(h) = e.comp
      BY <2>1, <2>2 DEF RawOf, CompOf, Widened, Taken
    <2> QED
      BY <2>3, <1>1 DEF h
  <1>3. CASE ~LocalZ64(e, force)
    <2>1. ~IsLarge(e.raw) /\ ~IsLarge(e.comp)
      BY <1>3 DEF LocalZ64
    <2>2. h.raw = e.raw /\ h.comp = e.comp /\ e.raw # MAX32 /\ e.comp # MAX32
      BY <1>3, <2>1, EntryParts, Fits DEF LocalHeader
    <2> HIDE DEF h
    <2>3. RawOf(h) = e.raw /\ CompOf(h) = e.comp
      BY <2>2 DEF RawOf, CompOf, Widened, Taken
    <2> QED
      BY <2>3, <1>1 DEF h
  <1> QED
    BY <1>2, <1>3

-----------------------------------------------------------------------------
(* Directory records.                                                        *)

(* The elements of sequences put together from singletons. *)
LEMMA EmptyConcat == ASSUME NEW s \in Seq(Nat) PROVE s \o <<>> = s /\ <<>> \o s = s
  BY ConcatEmptySeq

LEMMA TwoElements ==
  ASSUME NEW a \in Nat, NEW b \in Nat
  PROVE  /\ <<a>> \o <<b>> \in Seq(Nat) /\ Len(<<a>> \o <<b>>) = 2
         /\ (<<a>> \o <<b>>)[1] = a /\ (<<a>> \o <<b>>)[2] = b
  <1>1. <<a>> \in Seq(Nat) /\ <<b>> \in Seq(Nat) /\ Len(<<a>>) = 1 /\ Len(<<b>>) = 1
    OBVIOUS
  <1> QED
    BY <1>1, ConcatProperties

LEMMA ThirdElement ==
  ASSUME NEW t \in Seq(Nat), Len(t) = 2, NEW c \in Nat
  PROVE  Len(t \o <<c>>) = 3 /\ (t \o <<c>>)[1] = t[1] /\ (t \o <<c>>)[2] = t[2]
         /\ (t \o <<c>>)[3] = c
  <1> DEFINE s == t \o <<c>>
  <1>2. <<c>> \in Seq(Nat) /\ Len(<<c>>) = 1
    OBVIOUS
  <1>3. /\ Len(s) = Len(t) + Len(<<c>>)
        /\ \A i \in 1..Len(t) + Len(<<c>>) : s[i] = IF i <= Len(t) THEN t[i] ELSE <<c>>[i - Len(t)]
    BY <1>2, ConcatProperties
  <1>4. <<c>>[1] = c /\ 1 \in 1..3 /\ 2 \in 1..3 /\ 3 \in 1..3
    OBVIOUS
  <1> HIDE DEF s
  <1>5. Len(s) = 3 /\ s[1] = t[1] /\ s[2] = t[2] /\ s[3] = <<c>>[1]
    BY <1>2, <1>3, <1>4
  <1> QED
    BY <1>4, <1>5 DEF s

LEMMA PlacedParts == ASSUME NEW m \in Placed PROVE m.entry \in Entries /\ m.off \in Nat
  BY DEF Placed

LEMMA ExtraType ==
  ASSUME NEW m \in Placed
  PROVE  CentralExtra(m, force) \in Seq(Nat) /\ Len(CentralExtra(m, force)) \in Nat
  <1>1. /\ (IF force \/ IsLarge(m.entry.raw) THEN <<m.entry.raw>> ELSE <<>>) \in Seq(Nat)
        /\ (IF force \/ IsLarge(m.entry.comp) THEN <<m.entry.comp>> ELSE <<>>) \in Seq(Nat)
        /\ (IF force \/ IsLarge(m.off) THEN <<m.off>> ELSE <<>>) \in Seq(Nat)
    BY PlacedParts, EntryParts
  <1>2. CentralExtra(m, force) \in Seq(Nat)
    BY <1>1 DEF CentralExtra
  <1> QED
    BY <1>2

LEMMA SentinelType == ASSUME NEW x \in Nat PROVE Sentinel(x, force) \in 0..MAX32
  BY FieldType, SentinelField DEF Sentinel

LEMMA RecordType ==
  ASSUME NEW m \in Placed, NEW at \in Nat
  PROVE  CentralRecord(m, at, force) \in Records
  <1>1. Field32(m.entry.crc) \in 0..MAX32
    BY PlacedParts, EntryParts, FieldType, LimitsAssumption
  <1>2. /\ Sentinel(m.entry.comp, force) \in 0..MAX32 /\ Sentinel(m.entry.raw, force) \in 0..MAX32
        /\ Sentinel(m.off, force) \in 0..MAX32
    BY PlacedParts, EntryParts, SentinelType
  <1>3. CentralExtra(m, force) \in Seq(Nat) /\ Len(CentralExtra(m, force)) \in Nat
    BY ExtraType
  <1>4. 46 + m.entry.nameLen + (IF CentralExtra(m, force) = <<>> THEN 0 ELSE 4 + 8 * Len(CentralExtra(m, force))) \in Nat
    BY <1>3, PlacedParts, EntryParts
  <1>5. m.entry.name \in STRING /\ m.entry.method \in Methods
    BY PlacedParts, EntryParts
  <1> QED
    BY <1>1, <1>2, <1>3, <1>4, <1>5 DEF CentralRecord, Records

(* The 4-byte field of a value and whether a reader takes it for a sentinel. *)
LEMMA SentinelReads ==
  ASSUME NEW x \in Nat
  PROVE  /\ force \/ IsLarge(x) => Sentinel(x, force) = MAX32
         /\ ~(force \/ IsLarge(x)) => Sentinel(x, force) = x /\ x # MAX32
  BY SentinelField, Fits DEF Sentinel

(* The reader takes the values of the ZIP64 field in the order they went in. *)
LEMMA ExtraReads ==
  ASSUME NEW m \in Placed
  PROVE  LET x == CentralExtra(m, force)
             r == Taken(Sentinel(m.entry.raw, force))
             c == Taken(Sentinel(m.entry.comp, force))
         IN  /\ Widened(Sentinel(m.entry.raw, force), x, 1) = m.entry.raw
             /\ Widened(Sentinel(m.entry.comp, force), x, 1 + r) = m.entry.comp
             /\ Widened(Sentinel(m.off, force), x, 1 + r + c) = m.off
  <1> DEFINE raw == m.entry.raw
             comp == m.entry.comp
             off == m.off
             R == force \/ IsLarge(raw)
             C == force \/ IsLarge(comp)
             O == force \/ IsLarge(off)
             x == CentralExtra(m, force)
  <1>0. raw \in Nat /\ comp \in Nat /\ off \in Nat
    BY PlacedParts, EntryParts
  <1>1. x = (IF R THEN <<raw>> ELSE <<>>) \o (IF C THEN <<comp>> ELSE <<>>)
            \o (IF O THEN <<off>> ELSE <<>>)
    BY DEF CentralExtra
  <1>2. /\ R => Sentinel(raw, force) = MAX32
        /\ ~R => Sentinel(raw, force) = raw /\ raw # MAX32
        /\ C => Sentinel(comp, force) = MAX32
        /\ ~C => Sentinel(comp, force) = comp /\ comp # MAX32
        /\ O => Sentinel(off, force) = MAX32
        /\ ~O => Sentinel(off, force) = off /\ off # MAX32
    BY <1>0, SentinelReads
  <1>3. SUFFICES /\ Widened(Sentinel(raw, force), x, 1) = raw
                 /\ Widened(Sentinel(comp, force), x, 1 + Taken(Sentinel(raw, force))) = comp
                 /\ Widened(Sentinel(off, force), x, 1 + Taken(Sentinel(raw, force)) + Taken(Sentinel(comp, force))) = off
    OBVIOUS
  <1> HIDE DEF raw, comp, off, R, C, O, x
  <1>4. CASE R /\ C /\ O
    <2>1. x = <<raw>> \o <<comp>> \o <<off>>
      BY <1>1, <1>4
    <2> DEFINE t == <<raw>> \o <<comp>>
    <2>3. t \in Seq(Nat) /\ Len(t) = 2 /\ t[1] = raw /\ t[2] = comp
      BY <1>0, TwoElements
    <2>4. x = t \o <<off>>
      BY <2>1
    <2> HIDE DEF t
    <2>2. Len(x) = 3 /\ x[1] = raw /\ x[2] = comp /\ x[3] = off
      BY <1>0, <2>3, <2>4, ThirdElement
    <2> QED
      BY <1>2, <1>4, <2>2 DEF Widened, Taken
  <1>5. CASE R /\ C /\ ~O
    <2>1. x = <<raw>> \o <<comp>> \o <<>>
      BY <1>1, <1>5
    <2>2. Len(x) = 2 /\ x[1] = raw /\ x[2] = comp
      BY <1>0, <2>1, EmptyConcat, TwoElements
    <2> QED
      BY <1>2, <1>5, <2>2 DEF Widened, Taken
  <1>6. CASE R /\ ~C /\ O
    <2>1. x = <<raw>> \o <<>> \o <<off>>
      BY <1>1, <1>6
    <2>2. Len(x) = 2 /\ x[1] = raw /\ x[2] = off
      BY <1>0, <2>1, EmptyConcat, TwoElements
    <2> QED
      BY <1>2, <1>6, <2>2 DEF Widened, Taken
  <1>7. CASE R /\ ~C /\ ~O
    <2>1. x = <<raw>>
      BY <1>0, <1>1, <1>7
    <2>2. Len(x) = 1 /\ x[1] = raw
      BY <2>1
    <2> QED
      BY <1>2, <1>7, <2>2 DEF Widened, Taken
  <1>8. CASE ~R /\ C /\ O
    <2>1. x = <<>> \o <<comp>> \o <<off>>
      BY <1>1, <1>8
    <2>2. Len(x) = 2 /\ x[1] = comp /\ x[2] = off
      BY <1>0, <2>1, EmptyConcat, TwoElements
    <2> QED
      BY <1>2, <1>8, <2>2 DEF Widened, Taken
  <1>9. CASE ~R /\ C /\ ~O
    <2>1. x = <<comp>>
      BY <1>0, <1>1, <1>9
    <2>2. Len(x) = 1 /\ x[1] = comp
      BY <2>1
    <2> QED
      BY <1>2, <1>9, <2>2 DEF Widened, Taken
  <1>10. CASE ~R /\ ~C /\ O
    <2>1. x = <<off>>
      BY <1>0, <1>1, <1>10
    <2>2. Len(x) = 1 /\ x[1] = off
      BY <2>1
    <2> QED
      BY <1>2, <1>10, <2>2 DEF Widened, Taken
  <1>11. CASE ~R /\ ~C /\ ~O
    BY <1>2, <1>11 DEF Widened, Taken
  <1> QED
    BY <1>4, <1>5, <1>6, <1>7, <1>8, <1>9, <1>10, <1>11

(* A reader of a directory record gets what its entry is and where. *)
LEMMA RecordReads ==
  ASSUME NEW m \in Placed, NEW at \in Nat
  PROVE  LET r == CentralRecord(m, at, force)
         IN  /\ r.at = at /\ r.name = m.entry.name /\ r.method = m.entry.method
             /\ r.crc = m.entry.crc
             /\ RawOf(r) = m.entry.raw /\ CompOf(r) = m.entry.comp /\ OffOf(r) = m.off
  <1> DEFINE r == CentralRecord(m, at, force)
  <1>1. Field32(m.entry.crc) = m.entry.crc
    BY PlacedParts, EntryParts, FieldSmall
  <1>2. /\ r.at = at /\ r.name = m.entry.name /\ r.method = m.entry.method
        /\ r.crc = m.entry.crc
        /\ r.raw = Sentinel(m.entry.raw, force) /\ r.comp = Sentinel(m.entry.comp, force) /\ r.off = Sentinel(m.off, force)
        /\ r.extra = CentralExtra(m, force)
    BY <1>1 DEF CentralRecord
  <1> HIDE DEF r
  <1>3. RawOf(r) = m.entry.raw /\ CompOf(r) = m.entry.comp /\ OffOf(r) = m.off
    BY <1>2, ExtraReads DEF RawOf, CompOf, OffOf
  <1> QED
    BY <1>2, <1>3 DEF r

-----------------------------------------------------------------------------
(* The invariant.                                                            *)

LEMMA InitInv == Init => IInv
  <1> SUFFICES ASSUME Init PROVE IInv
    OBVIOUS
  <1> USE DEF Init
  <1>1. Len(order) = 0 /\ Len(locals) = 0 /\ Len(central) = 0 /\ Len(ends) = 0
    OBVIOUS
  <1>2. TypeOK
    <2>1. 0 \in (-MaxInt - 1)..MaxInt /\ 0 \in 0..0
      BY LimitsAssumption
    <2>2. order \in Seq(Placed) /\ locals \in Seq(Headers) /\ central \in Seq(Records)
      BY EmptySeq
    <2>3. Len(ends) = IF stage = "written" THEN 1 ELSE 0
      BY <1>1
    <2>4. /\ force \in BOOLEAN /\ stage \in {"entries", "sizing", "directory", "written", "failed"}
          /\ anyEntryZ64 \in BOOLEAN
      OBVIOUS
    <2>5. /\ offset \in Nat /\ position \in Nat /\ summed \in 0..Len(order)
          /\ cap \in (-MaxInt - 1)..MaxInt /\ Len(central) <= Len(order)
      BY <1>1, <2>1
    <2> QED
      BY <2>2, <2>3, <2>4, <2>5, Zenon DEF TypeOK, Placed
  <1>3. LocalsInv
    BY <1>1 DEF LocalsInv
  <1>4. CentralInv
    BY <1>1 DEF CentralInv
  <1> QED
    BY <1>2, <1>3, <1>4 DEF IInv, EndInv

(* What Append does to the elements of a sequence. *)
LEMMA Appended ==
  ASSUME NEW S, NEW s \in Seq(S), NEW x \in S
  PROVE  /\ Append(s, x) \in Seq(S) /\ Len(Append(s, x)) = Len(s) + 1 /\ Len(s) \in Nat
         /\ \A k \in 1..Len(s) : Append(s, x)[k] = s[k]
         /\ Append(s, x)[Len(s) + 1] = x
  BY AppendProperties, LenProperties

LEMMA WriteEntryInv == IInv /\ WriteEntry => IInv'
  <1> SUFFICES ASSUME IInv, WriteEntry PROVE IInv'
    OBVIOUS
  <1>1. PICK e \in Entries :
          /\ locals' = Append(locals, LocalHeader(e, offset, force))
          /\ order'  = Append(order, [entry |-> e, off |-> offset])
          /\ offset' = offset + LocalLength(e, force) + e.comp
    BY DEF WriteEntry
  <1>2. /\ stage = "entries" /\ stage' = stage /\ force' = force /\ summed' = summed
        /\ cap' = cap /\ position' = position /\ central' = central
        /\ anyEntryZ64' = anyEntryZ64 /\ ends' = ends
    BY DEF WriteEntry
  <1>3. /\ force \in BOOLEAN /\ order \in Seq(Placed) /\ offset \in Nat /\ locals \in Seq(Headers)
        /\ summed \in 0..Len(order) /\ cap \in (-MaxInt - 1)..MaxInt /\ position \in Nat
        /\ central \in Seq(Records) /\ Len(central) <= Len(order) /\ anyEntryZ64 \in BOOLEAN
        /\ Len(ends) = IF stage = "written" THEN 1 ELSE 0
    BY DEF IInv, TypeOK, Placed
  <1>4. /\ Len(locals) = Len(order)
        /\ \A k \in 1..Len(order) : locals[k] = LocalHeader(order[k].entry, order[k].off, force)
        /\ \A k \in 1..Len(order) :
             locals[k].dataAt + order[k].entry.comp =
               IF k = Len(order) THEN offset ELSE locals[k + 1].at
    BY DEF IInv, LocalsInv
  <1>5. central = <<>> /\ position = 0 /\ ~anyEntryZ64 /\ summed = 0
    BY <1>2 DEF IInv, CentralInv
  <1> DEFINE m == [entry |-> e, off |-> offset]
             h == LocalHeader(e, offset, force)
  <1>6. m \in Placed /\ m.entry = e /\ m.off = offset
    BY <1>3 DEF Placed
  <1>7. h \in Headers /\ h.at = offset
    BY <1>3, HeaderType, HeaderReads
  <1>8. h.dataAt + e.comp = offset' /\ offset' \in Nat
    BY <1>1, <1>3, LengthType, EntryParts, SMTT(40) DEF LocalHeader
  <1>9. /\ order' \in Seq(Placed) /\ Len(order') = Len(order) + 1 /\ Len(order) \in Nat
        /\ \A k \in 1..Len(order) : order'[k] = order[k]
        /\ order'[Len(order) + 1] = m
    BY <1>1, <1>3, <1>6, Appended
  <1>10. /\ locals' \in Seq(Headers) /\ Len(locals') = Len(locals) + 1
         /\ \A k \in 1..Len(locals) : locals'[k] = locals[k]
         /\ locals'[Len(locals) + 1] = h
    BY <1>1, <1>3, <1>7, Appended
  <1>11. TypeOK'
    <2>1. Len(central) = 0
      BY <1>5
    <2>2. summed' \in 0..Len(order') /\ Len(central') <= Len(order')
      BY <1>2, <1>5, <1>9, <2>1
    <2> QED
      BY <1>2, <1>3, <1>8, <1>9, <1>10, <2>2 DEF TypeOK, Placed
  <1>12. LocalsInv'
    <2>1. Len(locals') = Len(order')
      BY <1>4, <1>9, <1>10
    <2>2. ASSUME NEW k \in 1..Len(order')
          PROVE  locals'[k] = LocalHeader(order'[k].entry, order'[k].off, force)
      <3>1. CASE k = Len(order) + 1
        BY <1>4, <1>6, <1>9, <1>10, <3>1
      <3>2. CASE k # Len(order) + 1
        <4>1. k \in 1..Len(order)
          BY <1>9, <3>2
        <4> QED
          BY <1>4, <1>9, <1>10, <4>1
      <3> QED
        BY <3>1, <3>2
    <2>3. ASSUME NEW k \in 1..Len(order')
          PROVE  locals'[k].dataAt + order'[k].entry.comp =
                   IF k = Len(order') THEN offset' ELSE locals'[k + 1].at
      <3>1. CASE k = Len(order) + 1
        BY <1>4, <1>6, <1>8, <1>9, <1>10, <3>1
      <3>2. CASE k = Len(order)
        <4>1. locals'[k].dataAt + order'[k].entry.comp = offset
          BY <1>4, <1>9, <1>10, <3>2
        <4>2. k # Len(order') /\ locals'[k + 1] = h
          BY <1>4, <1>9, <1>10, <3>2
        <4> QED
          BY <1>7, <4>1, <4>2
      <3>3. CASE k # Len(order) /\ k # Len(order) + 1
        <4>1. k \in 1..Len(order) /\ k + 1 \in 1..Len(order) /\ k # Len(order) /\ k # Len(order')
          BY <1>9, <3>3
        <4>2. locals[k].dataAt + order[k].entry.comp = locals[k + 1].at
          BY <1>4, <4>1
        <4> QED
          BY <1>4, <1>9, <1>10, <4>1, <4>2
      <3> QED
        BY <3>1, <3>2, <3>3
    <2> QED
      BY <1>2, <2>1, <2>2, <2>3 DEF LocalsInv
  <1>13. CentralInv'
    <2>1. central' = <<>> /\ Len(central') = 0 /\ position' = 0
      BY <1>2, <1>5
    <2>2. anyEntryZ64' <=> \E k \in 1..Len(central') : central'[k].extra # <<>>
      BY <1>2, <1>5, <2>1
    <2>3. \A k \in 1..Len(central') :
            central'[k] = CentralRecord(order[k], IF k = 1 THEN offset
                                                  ELSE central[k - 1].at + central[k - 1].length, force)'
      BY <2>1
    <2>4. offset' + position' = IF central' = <<>> THEN offset'
                                ELSE central'[Len(central')].at + central'[Len(central')].length
      <3>1. offset' \in Nat
        BY <1>8
      <3>2. position' \in Nat /\ position' = 0
        BY <2>1
      <3>3. offset' + position' = offset'
        BY <3>1, <3>2, AddZero
      <3> QED
        BY <2>1, <3>3
    <2>5. stage' = "entries" /\ central' = <<>> /\ position' = 0 /\ ~anyEntryZ64' /\ summed' = 0
      BY <1>2, <1>5, <2>1
    <2> QED
      BY <2>2, <2>3, <2>4, <2>5, Zenon DEF CentralInv
  <1>14. EndInv'
    BY <1>2 DEF EndInv
  <1> QED
    BY <1>11, <1>12, <1>13, <1>14 DEF IInv

(* A step that leaves the written part alone. *)
LEMMA LocalsFrame ==
  LocalsInv /\ UNCHANGED <<force, order, offset, locals>> => LocalsInv'
  <1> SUFFICES ASSUME LocalsInv, UNCHANGED <<force, order, offset, locals>> PROVE LocalsInv'
    OBVIOUS
  <1>1. force' = force /\ order' = order /\ offset' = offset /\ locals' = locals
    OBVIOUS
  <1> QED
    BY <1>1 DEF LocalsInv

LEMMA CentralFrame ==
  /\ CentralInv
  /\ UNCHANGED <<force, order, offset, position, central, anyEntryZ64>>
  /\ stage' \in {"entries", "sizing"} => stage \in {"entries", "sizing"}
  /\ stage' = "entries" => summed' = 0
  => CentralInv'
  <1> SUFFICES ASSUME CentralInv,
                      UNCHANGED <<force, order, offset, position, central, anyEntryZ64>>,
                      stage' \in {"entries", "sizing"} => stage \in {"entries", "sizing"},
                      stage' = "entries" => summed' = 0
               PROVE  CentralInv'
    OBVIOUS
  <1>1. /\ force' = force /\ order' = order /\ offset' = offset /\ position' = position
        /\ central' = central /\ anyEntryZ64' = anyEntryZ64
    OBVIOUS
  <1>2. stage' \in {"entries", "sizing"} => central' = <<>> /\ position' = 0 /\ ~anyEntryZ64'
    BY <1>1 DEF CentralInv
  <1>3. \A k \in 1..Len(central') :
          central'[k] = CentralRecord(order[k], IF k = 1 THEN offset
                                                ELSE central[k - 1].at + central[k - 1].length, force)'
    BY <1>1 DEF CentralInv
  <1>4. offset' + position' = IF central' = <<>> THEN offset'
                              ELSE central'[Len(central')].at + central'[Len(central')].length
    BY <1>1 DEF CentralInv
  <1>5. anyEntryZ64' <=> \E k \in 1..Len(central') : central'[k].extra # <<>>
    BY <1>1 DEF CentralInv
  <1> QED
    BY <1>2, <1>3, <1>4, <1>5 DEF CentralInv

LEMMA BeginDirectoryInv == IInv /\ BeginDirectory => IInv'
  <1> SUFFICES ASSUME IInv, BeginDirectory PROVE IInv'
    OBVIOUS
  <1>1. /\ stage = "entries" /\ stage' = "sizing" /\ cap' = 162
        /\ UNCHANGED <<force, order, offset, locals, summed, position, central, anyEntryZ64, ends>>
    BY DEF BeginDirectory, EndRecords, Slack
  <1>2. TypeOK'
    <2>1. cap' \in (-MaxInt - 1)..MaxInt
      BY <1>1, LimitsAssumption
    <2> QED
      BY <1>1, <2>1 DEF IInv, TypeOK
  <1>3. LocalsInv' /\ CentralInv'
    BY <1>1, LocalsFrame, CentralFrame DEF IInv
  <1> QED
    BY <1>1, <1>2, <1>3 DEF IInv, EndInv

LEMMA AddToCapInv == IInv /\ AddToCap => IInv'
  <1> SUFFICES ASSUME IInv, AddToCap PROVE IInv'
    OBVIOUS
  <1>1. /\ stage = "sizing" /\ stage' = stage /\ summed < Len(order) /\ summed' = summed + 1
        /\ cap' = JavaInt(cap + 46 + order[summed + 1].entry.nameLen + 28)
        /\ UNCHANGED <<force, order, offset, locals, position, central, anyEntryZ64, ends>>
    BY DEF AddToCap, MaxExtra
  <1>2. order \in Seq(Placed) /\ summed \in 0..Len(order) /\ cap \in (-MaxInt - 1)..MaxInt
    BY DEF IInv, TypeOK, Placed
  <1>3. TypeOK'
    <2>1. summed + 1 \in 1..Len(order)
      BY <1>1, <1>2
    <2>2. order[summed + 1] \in Placed
      BY <1>2, <2>1, ElementOfSeq
    <2>3. order[summed + 1].entry \in Entries
      BY <2>2, PlacedParts
    <2> DEFINE n == order[summed + 1].entry.nameLen
    <2>4. n \in Nat /\ n + 74 <= MaxInt
      BY <2>3, EntryParts, NamesAssumption
    <2> HIDE DEF n
    <2>5. JavaInt(cap + 46 + n + 28) \in (-MaxInt - 1)..MaxInt
      BY <1>2, <2>4, LimitsAssumption DEF JavaInt
    <2>6. cap' \in (-MaxInt - 1)..MaxInt
      BY <1>1, <2>5 DEF n
    <2>7. summed' \in 0..Len(order')
      BY <1>1, <1>2
    <2> QED
      BY <1>1, <2>6, <2>7 DEF IInv, TypeOK
  <1>4. LocalsInv' /\ CentralInv'
    BY <1>1, LocalsFrame, CentralFrame DEF IInv
  <1> QED
    BY <1>1, <1>3, <1>4 DEF IInv, EndInv

LEMMA AllocateInv == IInv /\ Allocate => IInv'
  <1> SUFFICES ASSUME IInv, Allocate PROVE IInv'
    OBVIOUS
  <1>1. /\ stage = "sizing" /\ stage' \in {"failed", "directory"}
        /\ UNCHANGED <<force, order, offset, locals, summed, cap, position, central, anyEntryZ64, ends>>
    BY DEF Allocate
  <1>2. TypeOK'
    BY <1>1 DEF IInv, TypeOK
  <1>3. LocalsInv' /\ CentralInv'
    BY <1>1, LocalsFrame, CentralFrame DEF IInv
  <1> QED
    BY <1>1, <1>2, <1>3 DEF IInv, EndInv

LEMMA PutCentralInv == IInv /\ PutCentral => IInv'
  <1> SUFFICES ASSUME IInv, PutCentral PROVE IInv'
    OBVIOUS
  <1>1. /\ stage = "directory" /\ Len(central) < Len(order)
        /\ UNCHANGED <<force, order, offset, locals, summed, cap, ends>>
    BY DEF PutCentral
  <1>2. /\ order \in Seq(Placed) /\ offset \in Nat /\ position \in Nat
        /\ central \in Seq(Records) /\ cap \in (-MaxInt - 1)..MaxInt /\ anyEntryZ64 \in BOOLEAN
    BY DEF IInv, TypeOK, Placed
  <1>3. CASE UNCHANGED <<central, position, anyEntryZ64>> /\ stage' = "failed"
    <2>1. TypeOK'
      BY <1>1, <1>3 DEF IInv, TypeOK
    <2>2. LocalsInv' /\ CentralInv'
      BY <1>1, <1>3, LocalsFrame, CentralFrame DEF IInv
    <2> QED
      BY <1>3, <2>1, <2>2 DEF IInv, EndInv
  <1> DEFINE n == Len(central)
             m == order[n + 1]
             r == NextRecord
  <1>4. CASE /\ stage' = stage /\ central' = Append(central, r) /\ position' = position + r.length
             /\ anyEntryZ64' = (anyEntryZ64 \/ r.extra # <<>>)
    <2>1. n \in Nat /\ n + 1 \in 1..Len(order) /\ m \in Placed
      BY <1>1, <1>2, LenProperties, ElementOfSeq
    <2>2. offset + position \in Nat
      BY <1>2
    <2>3. r = CentralRecord(m, offset + position, force)
      BY DEF NextRecord
    <2>4. r \in Records /\ r.at = offset + position
      BY <2>1, <2>2, <2>3, RecordType, RecordReads
    <2> HIDE DEF r, m
    <2>5. r.length \in Nat
      BY <2>4 DEF Records
    <2>6. /\ central' \in Seq(Records) /\ Len(central') = n + 1
          /\ \A k \in 1..n : central'[k] = central[k]
          /\ central'[n + 1] = r
      BY <1>2, <1>4, <2>4, Appended
    <2>7. TypeOK'
      <3>1. position' \in Nat
        BY <1>2, <1>4, <2>5
      <3>2. Len(central') <= Len(order') /\ anyEntryZ64' \in BOOLEAN
        BY <1>1, <1>2, <1>4, <2>1, <2>6
      <3> QED
        BY <1>1, <1>4, <2>6, <3>1, <3>2 DEF IInv, TypeOK
    <2>8. LocalsInv'
      BY <1>1, LocalsFrame DEF IInv
    <2>9. CentralInv'
      <3>1. /\ \A k \in 1..n : central[k] = CentralRecord(order[k], IF k = 1 THEN offset
                                      ELSE central[k - 1].at + central[k - 1].length, force)
            /\ offset + position = IF central = <<>> THEN offset
                                   ELSE central[n].at + central[n].length
            /\ anyEntryZ64 <=> \E k \in 1..n : central[k].extra # <<>>
        BY DEF IInv, CentralInv
      <3>2. ASSUME NEW k \in 1..(n + 1)
            PROVE  central'[k] = CentralRecord(order[k], IF k = 1 THEN offset
                                   ELSE central'[k - 1].at + central'[k - 1].length, force)
        <4>1. CASE k = n + 1 /\ n = 0
          <5>1. central = <<>>
            BY <1>2, <4>1, EmptySeq
          <5> QED
            BY <2>3, <2>6, <3>1, <4>1, <5>1 DEF m
        <4>2. CASE k = n + 1 /\ n # 0
          <5>1. central # <<>> /\ k # 1 /\ k - 1 = n /\ n \in 1..n
            BY <1>2, <2>1, <4>2, EmptySeq
          <5>2. offset + position = central'[k - 1].at + central'[k - 1].length
            BY <2>6, <3>1, <5>1
          <5> QED
            BY <2>3, <2>6, <4>2, <5>1, <5>2 DEF m
        <4>3. CASE k # n + 1
          <5>1. k \in 1..n /\ (k # 1 => k - 1 \in 1..n)
            BY <2>1, <4>3
          <5> QED
            BY <2>6, <3>1, <5>1
        <4> QED
          BY <4>1, <4>2, <4>3
      <3>3. central' # <<>>
        BY <2>1, <2>6, EmptySeq
      <3>4. offset' + position' = central'[Len(central')].at + central'[Len(central')].length
        <4>1. offset + (position + r.length) = r.at + r.length
          BY <1>2, <2>4, <2>5
        <4> QED
          BY <1>1, <1>4, <2>6, <4>1
      <3>5. anyEntryZ64' <=> \E k \in 1..(n + 1) : central'[k].extra # <<>>
        <4>1. anyEntryZ64' <=> (\E k \in 1..n : central[k].extra # <<>>) \/ r.extra # <<>>
          BY <1>4, <3>1
        <4>2. \A k \in 1..(n + 1) : k \in 1..n \/ k = n + 1
          BY <2>1
        <4>3. n + 1 \in 1..(n + 1) /\ \A k \in 1..n : k \in 1..(n + 1)
          BY <2>1
        <4> QED
          BY <2>6, <4>1, <4>2, <4>3
      <3> QED
        BY <1>1, <1>4, <2>6, <3>2, <3>3, <3>4, <3>5 DEF CentralInv
    <2> QED
      BY <1>1, <1>4, <2>7, <2>8, <2>9 DEF IInv, EndInv
  <1> QED
    BY <1>1, <1>3, <1>4 DEF PutCentral

(* The end records depend only on what no later step changes. *)
LEMMA PutEndInv == IInv /\ PutEnd => IInv'
  <1> SUFFICES ASSUME IInv, PutEnd PROVE IInv'
    OBVIOUS
  <1>1. /\ stage = "directory" /\ Len(central) = Len(order)
        /\ UNCHANGED <<force, order, offset, locals, summed, cap, position, central, anyEntryZ64>>
    BY DEF PutEnd
  <1>2. LocalsInv' /\ CentralInv'
    <2>1. stage' \in {"written", "failed"}
      BY DEF PutEnd
    <2> QED
      BY <1>1, <2>1, LocalsFrame, CentralFrame DEF IInv
  <1>3. CASE stage' = "failed" /\ UNCHANGED ends
    <2>1. TypeOK'
      BY <1>1, <1>3 DEF IInv, TypeOK
    <2> QED
      BY <1>2, <1>3, <2>1 DEF IInv, EndInv
  <1>4. CASE stage' = "written" /\ ends' = <<IF NeedZip64 THEN EndsWith64 ELSE EndsWithout>>
    <2>1. Len(ends') = 1
      BY <1>4
    <2>2. TypeOK'
      BY <1>1, <1>4, <2>1 DEF IInv, TypeOK
    <2>3. NeedZip64' = NeedZip64
      BY <1>1 DEF NeedZip64
    <2>4. EndsWith64' = EndsWith64 /\ EndsWithout' = EndsWithout
      BY <1>1 DEF EndsWith64, EndsWithout, End64, End
    <2>5. EndInv'
      BY <1>1, <1>4, <2>3, <2>4 DEF EndInv
    <2> QED
      BY <1>2, <2>2, <2>5 DEF IInv
  <1> QED
    BY <1>3, <1>4 DEF PutEnd

(* The inductive invariant holds in every reachable state: every header and  *)
(* record in the archive is the one its entry asks for, and they lie next to *)
(* each other.                                                               *)
THEOREM Invariance == Spec => []IInv
  <1>1. IInv /\ [Next]_vars => IInv'
    <2> SUFFICES ASSUME IInv, [Next]_vars PROVE IInv'
      OBVIOUS
    <2>1. CASE UNCHANGED vars
      <3>1. /\ UNCHANGED <<force, order, offset, locals, position, central, anyEntryZ64>>
            /\ UNCHANGED <<stage, summed, cap, ends>>
        BY <2>1 DEF vars
      <3>2. TypeOK'
        BY <3>1 DEF IInv, TypeOK
      <3>3. LocalsInv' /\ CentralInv'
        BY <3>1, LocalsFrame, CentralFrame DEF IInv, CentralInv
      <3>4. NeedZip64' = NeedZip64 /\ EndsWith64' = EndsWith64 /\ EndsWithout' = EndsWithout
        BY <3>1 DEF NeedZip64, EndsWith64, EndsWithout, End64, End
      <3>5. EndInv'
        BY <3>1, <3>4 DEF IInv, EndInv
      <3> QED
        BY <3>2, <3>3, <3>5 DEF IInv
    <2>2. CASE Terminated
      BY <2>1, <2>2 DEF Terminated
    <2> QED
      BY <2>1, <2>2, WriteEntryInv, BeginDirectoryInv, AddToCapInv, AllocateInv, PutCentralInv, PutEndInv
      DEF Next
  <1> QED
    BY <1>1, InitInv, PTL DEF Spec

(* Every variable keeps its type; the capacity stays a Java int.             *)
THEOREM TypeCorrect == Spec => []TypeOK
  <1>1. IInv => TypeOK
    BY DEF IInv
  <1> QED
    BY <1>1, Invariance, PTL

(* Whatever the sizes and offsets, a reader of directory record k gets the   *)
(* sizes, the CRC-32, the method and the place of entry k.                   *)
THEOREM RecordsCorrect == Spec => []RecordsRecovered
  <1>1. IInv => RecordsRecovered
    <2> SUFFICES ASSUME IInv, NEW k \in 1..Len(central)
                 PROVE  /\ central[k].at = IF k = 1 THEN offset
                                           ELSE central[k - 1].at + central[k - 1].length
                        /\ central[k].name = order[k].entry.name /\ central[k].method = order[k].entry.method
                        /\ central[k].crc = order[k].entry.crc
                        /\ RawOf(central[k]) = order[k].entry.raw
                        /\ CompOf(central[k]) = order[k].entry.comp
                        /\ OffOf(central[k]) = order[k].off
      BY DEF RecordsRecovered
    <2>1. /\ order \in Seq(Placed) /\ offset \in Nat /\ central \in Seq(Records)
          /\ Len(central) <= Len(order)
      BY DEF IInv, TypeOK, Placed
    <2> DEFINE m == order[k]
               at == IF k = 1 THEN offset ELSE central[k - 1].at + central[k - 1].length
    <2>2. m \in Placed
      <3>1. k \in 1..Len(order)
        BY <2>1, LenProperties
      <3> QED
        BY <2>1, <3>1, ElementOfSeq
    <2>3. at \in Nat
      <3>1. CASE k = 1
        BY <2>1, <3>1
      <3>2. CASE k # 1
        <4>1. k - 1 \in 1..Len(central)
          BY <2>1, <3>2, LenProperties
        <4>2. central[k - 1] \in Records
          BY <2>1, <4>1, ElementOfSeq
        <4>3. central[k - 1].at \in Nat /\ central[k - 1].length \in Nat
          BY <4>2 DEF Records
        <4> QED
          BY <3>2, <4>3
      <3> QED
        BY <3>1, <3>2
    <2>4. central[k] = CentralRecord(m, at, force)
      BY DEF IInv, CentralInv
    <2> HIDE DEF m, at
    <2>5. LET r == CentralRecord(m, at, force)
          IN  /\ r.at = at /\ r.name = m.entry.name /\ r.method = m.entry.method
              /\ r.crc = m.entry.crc
              /\ RawOf(r) = m.entry.raw /\ CompOf(r) = m.entry.comp /\ OffOf(r) = m.off
      BY <2>2, <2>3, RecordReads
    <2> QED
      BY <2>4, <2>5 DEF m, at
  <1> QED
    BY <1>1, Invariance, PTL

(* The local header of entry k is where the directory says, tells the same   *)
(* sizes, and its payload ends exactly where the next one begins.            *)
THEOREM LocalsCorrect == Spec => []LocalsFound
  <1>1. IInv => LocalsFound
    <2> SUFFICES ASSUME IInv PROVE LocalsFound
      OBVIOUS
    <2>1. order \in Seq(Placed)
      BY DEF IInv, TypeOK, Placed
    <2>2. /\ Len(locals) = Len(order)
          /\ \A k \in 1..Len(order) : locals[k] = LocalHeader(order[k].entry, order[k].off, force)
          /\ \A k \in 1..Len(order) :
               locals[k].dataAt + order[k].entry.comp =
                 IF k = Len(order) THEN offset ELSE locals[k + 1].at
      BY DEF IInv, LocalsInv
    <2>3. ASSUME NEW k \in 1..Len(order)
          PROVE  /\ locals[k].at = order[k].off /\ locals[k].name = order[k].entry.name
                 /\ RawOf(locals[k]) = order[k].entry.raw
                 /\ CompOf(locals[k]) = order[k].entry.comp
      <3>1. order[k] \in Placed
        BY <2>1, ElementOfSeq
      <3>2. order[k].entry \in Entries /\ order[k].off \in Nat
        BY <3>1, PlacedParts
      <3> QED
        BY <2>2, <3>2, HeaderReads
    <2> QED
      BY <2>2, <2>3 DEF LocalsFound
  <1> QED
    BY <1>1, Invariance, PTL

(* From the end record alone a reader finds the directory, its extent and    *)
(* the number of its records, also when each is beyond its field.            *)
THEOREM DirectoryCorrect == Spec => []DirectoryFound
  <1>1. IInv => DirectoryFound
    <2> SUFFICES ASSUME IInv, stage = "written"
                 PROVE  /\ CountFound = Len(order) /\ CountFound = Len(central)
                        /\ OffsetFound = offset /\ SizeFound = position
      BY DEF DirectoryFound
    <2>1. /\ Len(central) = Len(order) /\ ends = <<IF NeedZip64 THEN EndsWith64 ELSE EndsWithout>>
          /\ Len(order) \in Nat /\ offset \in Nat /\ position \in Nat
      BY LenProperties DEF IInv, EndInv, TypeOK
    <2>2. ends[1] = IF NeedZip64 THEN EndsWith64 ELSE EndsWithout
      BY <2>1
    <2>3. /\ EndRecord.count = IF Len(order) >= MAX16 THEN MAX16 ELSE Len(order)
          /\ EndRecord.cdSize = IF IsLarge(position) THEN MAX32 ELSE position
          /\ EndRecord.cdOffset = IF IsLarge(offset) THEN MAX32 ELSE offset
      <3>1. Field16(IF Len(order) >= MAX16 THEN MAX16 ELSE Len(order))
              = IF Len(order) >= MAX16 THEN MAX16 ELSE Len(order)
        <4>1. (IF Len(order) >= MAX16 THEN MAX16 ELSE Len(order)) \in 0..MAX16
          BY <2>1, LimitsAssumption
        <4> QED
          BY <4>1, CountSmall
      <3>2. Field32(IF IsLarge(position) THEN MAX32 ELSE position)
              = IF IsLarge(position) THEN MAX32 ELSE position
        BY <2>1, Fits, SentinelField
      <3>3. Field32(IF IsLarge(offset) THEN MAX32 ELSE offset)
              = IF IsLarge(offset) THEN MAX32 ELSE offset
        BY <2>1, Fits, SentinelField
      <3> QED
        BY <2>2, <3>1, <3>2, <3>3 DEF EndRecord, EndsWith64, EndsWithout, End
    <2>4. CASE NeedZip64
      <3>1. /\ ends[1].locator = <<[at |-> offset + position + 56, pointsAt |-> offset + position]>>
            /\ ends[1].zip64 = <<End64(offset + position)>>
            /\ EndRecord.at = offset + position + 56 + 20
        BY <2>2, <2>4 DEF EndsWith64, EndRecord, End
      <3>2. /\ ends[1].locator[1].at = offset + position + 56
            /\ ends[1].locator[1].pointsAt = offset + position
            /\ ends[1].zip64[1] = End64(offset + position)
            /\ ends[1].locator # <<>> /\ ends[1].zip64 # <<>>
        BY <3>1
      <3>3. /\ ends[1].zip64[1].at = offset + position /\ ends[1].zip64[1].count = Len(order)
            /\ ends[1].zip64[1].cdSize = position /\ ends[1].zip64[1].cdOffset = offset
        BY <3>2 DEF End64
      <3>4. Locates64
        <4>1. EndRecord.at - 20 = offset + position + 56
          BY <2>1, <3>1
        <4> QED
          BY <3>2, <3>3, <4>1 DEF Locates64
      <3>5. CountFound = Len(order) /\ SizeFound = position /\ OffsetFound = offset
        BY <2>1, <2>3, <3>3, <3>4 DEF CountFound, SizeFound, OffsetFound, FromEnd
      <3> QED
        BY <2>1, <3>5
    <2>5. CASE ~NeedZip64
      <3>1. ~(Len(order) >= MAX16) /\ ~IsLarge(offset) /\ ~IsLarge(position)
        BY <2>5 DEF NeedZip64
      <3>2. ends[1].locator = <<>>
        BY <2>2, <2>5 DEF EndsWithout
      <3>3. ~Locates64
        BY <3>2 DEF Locates64
      <3>4. CountFound = Len(order) /\ SizeFound = position /\ OffsetFound = offset
        BY <2>1, <2>3, <3>1, <3>3 DEF CountFound, SizeFound, OffsetFound, FromEnd
      <3> QED
        BY <2>1, <3>4
    <2> QED
      BY <2>4, <2>5
  <1> QED
    BY <1>1, Invariance, PTL

(* Every local header was written before the current end of the archive. *)
OffsInv == \A k \in 1..Len(order) : order[k].off <= offset

LEMMA OffsKept == IInv /\ OffsInv /\ [Next]_vars => OffsInv'
  <1> SUFFICES ASSUME IInv, OffsInv, [Next]_vars PROVE OffsInv'
    OBVIOUS
  <1>1. CASE UNCHANGED <<order, offset>>
    BY <1>1 DEF OffsInv
  <1>2. CASE WriteEntry
    <2>1. PICK e \in Entries :
            /\ order'  = Append(order, [entry |-> e, off |-> offset])
            /\ offset' = offset + LocalLength(e, force) + e.comp
      BY <1>2 DEF WriteEntry
    <2>2. order \in Seq(Placed) /\ offset \in Nat
      BY DEF IInv, TypeOK, Placed
    <2>3. [entry |-> e, off |-> offset] \in Placed
      BY <2>2 DEF Placed
    <2>4. /\ Len(order') = Len(order) + 1 /\ Len(order) \in Nat
          /\ \A k \in 1..Len(order) : order'[k] = order[k]
          /\ order'[Len(order) + 1] = [entry |-> e, off |-> offset]
      BY <2>1, <2>2, <2>3, Appended
    <2>5. offset' \in Nat /\ offset <= offset'
      <3>1. LocalLength(e, force) \in Nat /\ e.comp \in Nat
        BY LengthType, EntryParts
      <3> QED
        BY <2>1, <2>2, <3>1
    <2>6. ASSUME NEW k \in 1..Len(order') PROVE order'[k].off <= offset'
      <3>1. CASE k = Len(order) + 1
        BY <2>4, <2>5, <3>1
      <3>2. CASE k # Len(order) + 1
        <4>1. k \in 1..Len(order)
          BY <2>4, <3>2
        <4>2. order[k] \in Placed
          BY <2>2, <4>1, ElementOfSeq
        <4>3. order[k].off \in Nat /\ order[k].off <= offset
          BY <4>1, <4>2, PlacedParts DEF OffsInv
        <4> QED
          BY <2>2, <2>4, <2>5, <4>1, <4>3
      <3> QED
        BY <3>1, <3>2
    <2> QED
      BY <2>6 DEF OffsInv
  <1>3. Next => WriteEntry \/ UNCHANGED <<order, offset>>
    BY DEF Next, BeginDirectory, AddToCap, Allocate, PutCentral, PutEnd, Terminated, vars
  <1> QED
    BY <1>1, <1>2, <1>3 DEF vars

(* An archive that fits the plain format and is not forced has no ZIP64      *)
(* record and no ZIP64 field: not in a local header, not in the directory,   *)
(* not at the end.                                                           *)
THEOREM PlainIfItFits == Spec => []Zip64OnlyIfNeeded
  <1>1. IInv /\ OffsInv => Zip64OnlyIfNeeded
    <2> SUFFICES ASSUME IInv, OffsInv, stage = "written", ~force, Len(order) < MAX16,
                        offset < MAX32, position < MAX32,
                        \A k \in 1..Len(order) :
                          order[k].entry.raw < MAX32 /\ order[k].entry.comp < MAX32
                 PROVE  /\ ends[1].zip64 = <<>>
                        /\ \A k \in 1..Len(order) :
                             central[k].extra = <<>> /\ locals[k].extra = <<>>
      BY Zenon DEF Zip64OnlyIfNeeded
    <2>1. /\ order \in Seq(Placed) /\ offset \in Nat /\ position \in Nat /\ Len(order) \in Nat
          /\ Len(central) = Len(order)
          /\ ends = <<IF NeedZip64 THEN EndsWith64 ELSE EndsWithout>>
      BY LenProperties DEF IInv, TypeOK, Placed, EndInv
    <2>2. ASSUME NEW k \in 1..Len(order)
          PROVE  central[k].extra = <<>> /\ locals[k].extra = <<>>
      <3>1. /\ order[k].entry.raw \in Nat /\ order[k].entry.comp \in Nat
            /\ order[k].off \in Nat /\ order[k].off <= offset
        <4>1. order[k] \in Placed
          BY <2>1, ElementOfSeq
        <4>2. order[k].entry \in Entries /\ order[k].off \in Nat
          BY <4>1, PlacedParts
        <4>3. order[k].entry.raw \in Nat /\ order[k].entry.comp \in Nat
          BY <4>2, EntryParts
        <4> QED
          BY <4>2, <4>3 DEF OffsInv
      <3>2. ~IsLarge(order[k].entry.raw) /\ ~IsLarge(order[k].entry.comp) /\ ~IsLarge(order[k].off)
        BY <2>1, <3>1, LimitsAssumption DEF IsLarge
      <3>3. CentralExtra(order[k], force) = <<>>
        BY <3>2 DEF CentralExtra
      <3>4. central[k].extra = CentralExtra(order[k], force)
        <4> DEFINE at == IF k = 1 THEN offset ELSE central[k - 1].at + central[k - 1].length
        <4>1. central[k] = CentralRecord(order[k], at, force)
          BY <2>1 DEF IInv, CentralInv
        <4> HIDE DEF at
        <4>2. CentralRecord(order[k], at, force).extra = CentralExtra(order[k], force)
          BY DEF CentralRecord
        <4> QED
          BY <4>1, <4>2
      <3>5. locals[k].extra = <<>>
        <4>1. locals[k] = LocalHeader(order[k].entry, order[k].off, force)
          BY DEF IInv, LocalsInv
        <4>2. LocalHeader(order[k].entry, order[k].off, force).extra = <<>>
          <5>1. ~LocalZ64(order[k].entry, force)
            BY <3>2 DEF LocalZ64
          <5> QED
            BY <5>1 DEF LocalHeader
        <4> QED
          BY <4>1, <4>2
      <3> QED
        BY <3>3, <3>4, <3>5
    <2>3. ~anyEntryZ64
      BY <2>1, <2>2 DEF IInv, CentralInv
    <2>4. ~NeedZip64
      BY <2>1, <2>3, LimitsAssumption DEF NeedZip64, IsLarge
    <2>5. ends[1].zip64 = <<>>
      BY <2>1, <2>4 DEF EndsWithout
    <2> QED
      BY <2>2, <2>5
  <1>2. Init => OffsInv
    BY DEF Init, OffsInv
  <1> QED
    BY <1>1, <1>2, OffsKept, Invariance, PTL DEF Spec

-----------------------------------------------------------------------------
(* The directory buffer.                                                     *)

LEMMA NeededFacts ==
  ASSUME TypeOK
  PROVE  /\ Needed \in [0..Len(order) -> Nat] /\ Needed[0] = 162
         /\ \A k \in 1..Len(order) :
              /\ order[k].entry.nameLen \in Nat
              /\ Needed[k] = Needed[k - 1] + 74 + order[k].entry.nameLen
  <1> PICK n \in Nat : n = Len(order)
    BY LenProperties DEF TypeOK
  <1> DEFINE name(k) == order[k].entry.nameLen
  <1>1. ASSUME NEW k \in 1..n PROVE name(k) \in Nat
    <2>1. order \in Seq(Placed)
      BY DEF TypeOK, Placed
    <2>2. order[k] \in Placed
      BY <2>1, ElementOfSeq
    <2> QED BY <2>2, PlacedParts, EntryParts
  <1> HIDE DEF name
  <1> DEFINE step == [k \in 1..n |-> [v \in Nat |-> v + 46 + name(k) + 28]]
  <1>2. step \in [1..n -> [Nat -> Nat]]
    <2>1. ASSUME NEW k \in 1..n, NEW v \in Nat PROVE v + 46 + name(k) + 28 \in Nat
      BY <1>1
    <2> QED BY <2>1
  <1>3. PICK a \in Nat : a = 162
    OBVIOUS
  <1>4. PICK f \in [0..n -> Nat] : f[0] = 162 /\ \A k \in 1..n : f[k] = step[k][f[k - 1]]
    <2> HIDE DEF step
    <2>1. PICK f \in [0..n -> Nat] : Follows(f, n, a, step)
      BY <1>2, Recursion
    <2> QED BY <1>3, <2>1 DEF Follows
  <1> DEFINE Rec(g) == [k \in 0..n |-> IF k = 0 THEN 98 + 64 ELSE g[k - 1] + 46 + name(k) + 28]
  <1>5. ASSUME NEW k \in 1..n PROVE f[k] = f[k - 1] + 46 + name(k) + 28
    <2>1. k - 1 \in 0..n /\ f[k - 1] \in Nat
      OBVIOUS
    <2>2. step[k][f[k - 1]] = f[k - 1] + 46 + name(k) + 28
      BY <2>1
    <2> QED BY <1>4, <2>2
  <1>6. f = Rec(f)
    <2>1. ASSUME NEW k \in 0..n PROVE f[k] = Rec(f)[k]
      <3>1. CASE k = 0
        BY <1>4, <3>1
      <3>2. CASE k # 0
        <4>1. k \in 1..n
          BY <3>2
        <4> QED BY <1>5, <3>2, <4>1
      <3> QED BY <3>1, <3>2
    <2>2. Rec(f) = [k \in 0..n |-> Rec(f)[k]]
      OBVIOUS
    <2> HIDE DEF Rec
    <2> QED BY <2>1, <2>2
  <1>7. Needed = Rec(Needed)
    <2>1. Needed = CHOOSE g : g = Rec(g)
      BY DEF Needed, name
    <2> HIDE DEF Rec
    <2> QED BY <1>6, <2>1
  <1>8. Needed[0] = 162
    BY <1>7
  <1>9. ASSUME NEW k \in 1..n PROVE Needed[k] = Needed[k - 1] + 46 + name(k) + 28
    <2>1. k \in 0..n /\ k # 0
      OBVIOUS
    <2>2. Needed[k] = Rec(Needed)[k]
      <3> HIDE DEF Rec
      <3> QED BY <1>7
    <2>3. Rec(Needed)[k] = Needed[k - 1] + 46 + name(k) + 28
      BY <2>1
    <2> QED BY <2>2, <2>3
  <1> DEFINE S == {k \in 0..n : Needed[k] \in Nat}
  <1>10. 0 \in S
    BY <1>8
  <1>11. \A k \in 0..(n - 1) : k \in S => k + 1 \in S
    <2> SUFFICES ASSUME NEW k \in 0..(n - 1), Needed[k] \in Nat PROVE Needed[k + 1] \in Nat
      OBVIOUS
    <2>1. k + 1 \in 1..n /\ k + 1 - 1 = k
      OBVIOUS
    <2>2. name(k + 1) \in Nat /\ Needed[k + 1] = Needed[k] + 46 + name(k + 1) + 28
      BY <1>1, <1>9, <2>1
    <2> QED BY <2>2
  <1>12. \A k \in 0..n : k \in S
    <2> HIDE DEF S
    <2> QED BY <1>10, <1>11, UpTo
  <1>13. Needed \in [0..n -> Nat]
    <2>1. Needed = [k \in 0..n |-> Rec(Needed)[k]]
      BY <1>7
    <2>2. \A k \in 0..n : Rec(Needed)[k] \in Nat
      <3> HIDE DEF Rec
      <3> QED BY <1>7, <1>12
    <2> HIDE DEF Rec
    <2> QED BY <2>1, <2>2
  <1>14. ASSUME NEW k \in 1..n
         PROVE  name(k) \in Nat /\ Needed[k] = Needed[k - 1] + 74 + name(k)
    <2>1. k - 1 \in 0..n
      OBVIOUS
    <2>2. Needed[k - 1] \in Nat
      BY <1>13, <2>1
    <2> QED BY <1>1, <1>9, <2>2
  <1> QED BY <1>8, <1>13, <1>14 DEF name

LEMMA NeededGrows ==
  ASSUME TypeOK, NEW i \in 0..Len(order), NEW j \in 0..Len(order), i <= j
  PROVE  Needed[i] <= Needed[j]
  <1> PICK n \in Nat : n = Len(order)
    BY LenProperties DEF TypeOK
  <1> PICK f : f = Needed
    OBVIOUS
  <1>1. f \in [0..n -> Int]
    <2>1. f \in [0..n -> Nat]
      BY NeededFacts
    <2> QED BY <2>1
  <1>2. ASSUME NEW k \in 1..n PROVE f[k - 1] <= f[k]
    <2>1. f[k - 1] \in Int
      BY <1>1
    <2>2. order[k].entry.nameLen \in Nat /\ f[k] = f[k - 1] + 74 + order[k].entry.nameLen
      BY NeededFacts
    <2> QED BY <2>1, <2>2
  <1> QED BY <1>1, <1>2, Increasing

(* As long as the sum stays within an int the capacity is that sum, and what *)
(* is in the buffer is at most what was counted for it.                      *)
BufferInv ==
  /\ stage = "sizing" => (Needed[summed] <= MaxInt => cap = Needed[summed])
  /\ stage = "directory" =>
       (Needed[Len(order)] <= MaxInt =>
          cap = Needed[Len(order)] /\ position <= Needed[Len(central)] - 162)
  /\ DirectoryFits

LEMMA ShortConcat ==
  ASSUME NEW x \in Seq(Nat), NEW y \in Seq(Nat), NEW z \in Seq(Nat),
         Len(x) <= 1, Len(y) <= 1, Len(z) <= 1
  PROVE  Len(x \o y \o z) <= 3
  <1>1. x \o y \in Seq(Nat) /\ Len(x \o y) = Len(x) + Len(y)
    BY ConcatProperties
  <1>2. Len(x \o y \o z) = Len(x \o y) + Len(z)
    BY <1>1, ConcatProperties
  <1> QED BY <1>1, <1>2, LenProperties

LEMMA RecordLength ==
  ASSUME NEW m \in Placed, NEW at \in Nat
  PROVE  /\ CentralRecord(m, at, force).length \in Nat
         /\ CentralRecord(m, at, force).length <= 74 + m.entry.nameLen
  <1> DEFINE x == IF force \/ IsLarge(m.entry.raw) THEN <<m.entry.raw>> ELSE <<>>
  <1> DEFINE y == IF force \/ IsLarge(m.entry.comp) THEN <<m.entry.comp>> ELSE <<>>
  <1> DEFINE z == IF force \/ IsLarge(m.off) THEN <<m.off>> ELSE <<>>
  <1>1. /\ x \in Seq(Nat) /\ Len(x) <= 1 /\ y \in Seq(Nat) /\ Len(y) <= 1
        /\ z \in Seq(Nat) /\ Len(z) <= 1
    BY PlacedParts, EntryParts
  <1>2. CentralExtra(m, force) = x \o y \o z
    BY DEF CentralExtra
  <1> HIDE DEF x, y, z
  <1>3. CentralExtra(m, force) \in Seq(Nat) /\ Len(CentralExtra(m, force)) \in 0..3
    <2>1. Len(x \o y \o z) <= 3
      BY <1>1, ShortConcat
    <2>2. CentralExtra(m, force) \in Seq(Nat) /\ Len(CentralExtra(m, force)) \in Nat
      BY ExtraType
    <2>3. Len(CentralExtra(m, force)) <= 3
      BY <1>2, <2>1
    <2>4. \A i \in Nat : i <= 3 => i \in 0..3
      OBVIOUS
    <2> HIDE DEF x, y, z
    <2> QED BY <2>2, <2>3, <2>4, Zenon
  <1> DEFINE l == IF CentralExtra(m, force) = <<>> THEN 0 ELSE 4 + 8 * Len(CentralExtra(m, force))
  <1>4. l \in 0..28
    <2>1. PICK c \in 0..3 : c = Len(CentralExtra(m, force))
      BY <1>3
    <2>2. 4 + 8 * c \in 0..28
      OBVIOUS
    <2> QED BY <2>1, <2>2
  <1>5. CentralRecord(m, at, force).length = 46 + m.entry.nameLen + l
    BY DEF CentralRecord
  <1> HIDE DEF l
  <1> QED BY <1>4, <1>5, PlacedParts, EntryParts

LEMMA BufferKept == IInv /\ BufferInv /\ [Next]_vars => BufferInv'
  <1> SUFFICES ASSUME IInv, BufferInv, [Next]_vars PROVE BufferInv'
    OBVIOUS
  <1> PICK n \in Nat : n = Len(order)
    BY LenProperties DEF IInv, TypeOK
  <1> PICK f : f = Needed
    OBVIOUS
  <1>1. /\ f \in [0..n -> Nat] /\ f[0] = 162
        /\ \A k \in 1..n : /\ order[k].entry.nameLen \in Nat
                            /\ f[k] = f[k - 1] + 74 + order[k].entry.nameLen
    BY NeededFacts DEF IInv
  <1>2. order' = order => Needed' = f /\ Len(order') = n
    BY DEF Needed
  <1>3. /\ order \in Seq(Placed) /\ summed \in 0..n /\ cap \in Int /\ position \in Nat
        /\ MaxInt \in Nat /\ offset \in Nat /\ Len(central) \in 0..n
    <2>1. Len(central) \in Nat /\ Len(central) <= n
      BY LenProperties DEF IInv, TypeOK
    <2> QED BY <2>1, LimitsAssumption DEF IInv, TypeOK, Placed
  <1>4. CASE WriteEntry
    <2>1. stage = "entries" /\ stage' = "entries"
      BY <1>4 DEF WriteEntry
    <2> QED BY <2>1 DEF BufferInv, DirectoryFits
  <1>5. CASE BeginDirectory
    <2>1. stage' = "sizing" /\ order' = order /\ cap' = 162 /\ summed' = 0
      BY <1>5 DEF BeginDirectory, EndRecords, Slack, IInv, CentralInv
    <2> QED BY <1>1, <1>2, <2>1 DEF BufferInv, DirectoryFits
  <1>6. CASE AddToCap
    <2>1. /\ stage = "sizing" /\ stage' = "sizing" /\ order' = order
          /\ summed < n /\ summed' = summed + 1
          /\ cap' = JavaInt(cap + 46 + order[summed + 1].entry.nameLen + 28)
      BY <1>6 DEF AddToCap, MaxExtra
    <2> DEFINE l == order[summed + 1].entry.nameLen
    <2>2. l \in Nat /\ f[summed + 1] = f[summed] + 74 + l /\ f[summed] \in Nat
      <3>1. PICK k : k = summed + 1
        OBVIOUS
      <3>2. k \in 1..n /\ k - 1 = summed /\ summed \in 0..n
        BY <1>3, <2>1, <3>1
      <3>3. order[k].entry.nameLen \in Nat /\ f[k] = f[k - 1] + 74 + order[k].entry.nameLen
        BY <1>1, <3>2, Zenon
      <3>4. l = order[k].entry.nameLen
        BY <3>1
      <3>5. f[summed] \in Nat
        BY <1>1, <3>2
      <3> HIDE DEF l
      <3>6. l \in Nat /\ f[k] = f[summed] + 74 + l
        BY <3>2, <3>3, <3>4, Zenon
      <3> QED BY <3>1, <3>5, <3>6, Zenon
    <2> HIDE DEF l
    <2>3. ASSUME f[summed + 1] <= MaxInt PROVE cap' = f[summed + 1]
      <3>1. f[summed] <= MaxInt
        BY <1>3, <2>2, <2>3
      <3>2. cap = f[summed]
        BY <2>1, <3>1 DEF BufferInv
      <3>3. cap + 46 + l + 28 = f[summed + 1]
        BY <2>2, <3>2
      <3>4. JavaInt(f[summed + 1]) = f[summed + 1]
        BY <1>3, <2>2, <2>3 DEF JavaInt
      <3> QED BY <2>1, <3>3, <3>4 DEF l
    <2> QED BY <1>2, <2>1, <2>3 DEF BufferInv, DirectoryFits
  <1>7. CASE Allocate
    <2>1. /\ stage = "sizing" /\ order' = order /\ summed = n
          /\ UNCHANGED <<cap, position, central>>
          /\ stage' = IF cap < 0 THEN "failed" ELSE "directory"
      BY <1>7 DEF Allocate
    <2>2. f[n] \in Nat /\ (f[n] <= MaxInt => cap = f[n])
      BY <1>1, <2>1 DEF BufferInv
    <2>3. central = <<>> /\ position = 0
      BY <2>1 DEF IInv, CentralInv
    <2>4. Len(central) = 0 /\ position <= f[0] - 162
      BY <1>1, <2>3
    <2>5. cap < 0 => f[n] > MaxInt
      BY <1>3, <2>2
    <2> QED BY <1>2, <2>1, <2>2, <2>4, <2>5 DEF BufferInv, DirectoryFits
  <1>8. CASE PutCentral
    <2> DEFINE c == Len(central)
    <2> DEFINE l == NextRecord.length
    <2>1. stage = "directory" /\ c < n /\ order' = order /\ cap' = cap
      BY <1>8 DEF PutCentral
    <2>2. c + 1 \in 1..n /\ c + 1 \in 0..n /\ c \in 0..n /\ c + 1 - 1 = c
      BY <1>3, <2>1
    <2>3. f[c] \in Nat /\ f[c + 1] \in Nat /\ f[n] \in Nat /\ f[c + 1] <= f[n]
      <3>1. n \in 0..n /\ c + 1 <= n
        BY <1>3, <2>2
      <3>2. Needed[c + 1] <= Needed[n]
        BY <2>2, <3>1, NeededGrows DEF IInv
      <3> QED BY <1>1, <2>2, <3>1, <3>2
    <2>4. l \in Nat /\ f[c] + l <= f[c + 1]
      <3>1. order[c + 1] \in Placed
        BY <1>3, <2>2, ElementOfSeq
      <3>2. NextRecord = CentralRecord(order[c + 1], offset + position, force)
        BY DEF NextRecord
      <3>3. offset + position \in Nat
        BY <1>3
      <3>4. l \in Nat /\ l <= 74 + order[c + 1].entry.nameLen
        BY <3>1, <3>2, <3>3, RecordLength
      <3>5. order[c + 1].entry.nameLen \in Nat /\ f[c + 1] = f[c] + 74 + order[c + 1].entry.nameLen
        BY <1>1, <2>2
      <3> HIDE DEF l, c
      <3> QED BY <2>3, <3>4, <3>5, SMTT(40)
    <2>5. f[n] <= MaxInt => cap = f[n] /\ position <= f[c] - 162
      BY <2>1 DEF BufferInv
    <2>6. CASE position + l <= cap
      <3>1. central' = Append(central, NextRecord) /\ position' = position + l /\ stage' = "directory"
        BY <1>8, <2>1, <2>6 DEF PutCentral
      <3>2. Len(central') = c + 1
        BY <3>1 DEF IInv, TypeOK
      <3>3. f[n] <= MaxInt => cap = f[n] /\ position' <= f[c + 1] - 162
        <4> HIDE DEF l, c
        <4> QED BY <1>3, <2>3, <2>4, <2>5, <3>1, SMTT(40)
      <3> QED BY <1>2, <2>1, <3>1, <3>2, <3>3 DEF BufferInv, DirectoryFits
    <2>7. CASE ~(position + l <= cap)
      <3>1. stage' = "failed"
        BY <1>8, <2>7 DEF PutCentral
      <3>2. f[n] > MaxInt
        <4> HIDE DEF l, c
        <4> QED BY <1>3, <2>3, <2>4, <2>5, <2>7, SMTT(40)
      <3> QED BY <1>2, <2>1, <3>1, <3>2 DEF BufferInv, DirectoryFits
    <2> QED BY <2>6, <2>7
  <1>9. CASE PutEnd
    <2> DEFINE length == IF NeedZip64 THEN EndRecords ELSE 22
    <2>1. stage = "directory" /\ order' = order /\ Len(central) = n
          /\ stage' = IF position + length <= cap THEN "written" ELSE "failed"
      BY <1>9 DEF PutEnd
    <2>2. length \in Nat /\ length <= 98
      BY DEF EndRecords
    <2>3. f[n] \in Nat /\ (f[n] <= MaxInt => cap = f[n] /\ position <= f[n] - 162)
      BY <1>1, <2>1 DEF BufferInv
    <2> HIDE DEF length
    <2>4. f[n] <= MaxInt => position + length <= cap
      BY <1>3, <2>2, <2>3
    <2>5. stage' = "failed" => f[n] > MaxInt
      BY <1>3, <2>1, <2>3, <2>4
    <2> QED BY <1>2, <2>1, <2>5 DEF BufferInv, DirectoryFits
  <1>10. CASE UNCHANGED vars
    <2>1. /\ order' = order /\ stage' = stage /\ cap' = cap /\ summed' = summed
          /\ position' = position /\ central' = central
      BY <1>10 DEF vars
    <2> QED BY <1>2, <2>1 DEF BufferInv, DirectoryFits
  <1> QED BY <1>4, <1>5, <1>6, <1>7, <1>8, <1>9, <1>10 DEF Next, Terminated

(* Whatever the entries are, the buffer overflows, or cannot be allocated,   *)
(* only if the records need more bytes than an int can say: a directory      *)
(* never fails for want of the room that was computed for it.                *)
THEOREM BufferSuffices == Spec => []DirectoryFits
  <1>1. Init => BufferInv
    BY DEF Init, BufferInv, DirectoryFits
  <1>2. BufferInv => DirectoryFits
    BY DEF BufferInv
  <1> QED BY <1>1, <1>2, BufferKept, Invariance, PTL DEF Spec
=============================================================================
