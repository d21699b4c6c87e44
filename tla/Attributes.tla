----------------------------- MODULE Attributes ------------------------------
(* What both front ends of ParallelZipWriter compute for one entry: its name *)
(* in the archive, its DOS time stamp and its external attributes.  A path   *)
(* is a sequence of character codes; bit fields that do not overlap are      *)
(* added.                                                                    *)
EXTENDS Integers, Sequences

Slash == 47
Backslash == 92

-----------------------------------------------------------------------------
(* Names.                                                                    *)

IsSeparator(c) == c \in {Slash, Backslash}
SeparatorsApart(p) == \A i \in 1..(Len(p) - 1) : ~(IsSeparator(p[i]) /\ IsSeparator(p[i + 1]))

WithSlashes(p) == [i \in DOMAIN p |-> IF p[i] = Backslash THEN Slash ELSE p[i]]

(* An empty prefix stays empty. *)
NormalizePrefix(p) ==
  LET s == WithSlashes(p)
      t == IF s # <<>> /\ s[Len(s)] # Slash THEN Append(s, Slash) ELSE s
  IN  IF t # <<>> /\ t[1] = Slash THEN Tail(t) ELSE t

EntryName(prefix, rel, dir) ==
  NormalizePrefix(prefix) \o WithSlashes(rel) \o (IF dir THEN <<Slash>> ELSE <<>>)

(* String.compareTo *)
Less(s, t) ==
  \E n \in 0..Len(s) :
    /\ n < Len(t) /\ SubSeq(s, 1, n) = SubSeq(t, 1, n)
    /\ n = Len(s) \/ s[n + 1] < t[n + 1]

-----------------------------------------------------------------------------
(* Time stamps.                                                              *)

LocalDateTime == [year : Int, month : 1..12, day : 1..31,
                  hour : 0..23, minute : 0..59, second : 0..59]

FixedStamp == [time |-> 0, date |-> 33]

(* mutant: one year too many *)
DosDateTimeWide(t) ==
  IF t.year < 1980 \/ t.year > 2108 THEN FixedStamp
  ELSE [date |-> (t.year - 1980) * 512 + t.month * 32 + t.day,
        time |-> t.hour * 2048 + t.minute * 32 + t.second \div 2]

DosDateTime(t) ==
  IF t.year < 1980 \/ t.year > 2107 THEN FixedStamp
  ELSE [date |-> (t.year - 1980) * 512 + t.month * 32 + t.day,
        time |-> t.hour * 2048 + t.minute * 32 + t.second \div 2]

(* both go out as shorts *)
Short(x) == x % 65536
StampFields(s) == [time |-> Short(s.time), date |-> Short(s.date)]

-----------------------------------------------------------------------------
(* External attributes: the high word has the Unix mode, the low word the    *)
(* MS-DOS bits.  NoMode: the permission bits are not available.              *)

NoMode          == -1
DefaultFileMode == 420         (* 0644    *)
DefaultDirMode  == 493         (* 0755    *)
RegularBit      == 32768       (* S_IFREG *)
DirectoryBit    == 16384       (* S_IFDIR *)

DefaultMode(dir) == IF dir THEN DefaultDirMode ELSE DefaultFileMode

ExternalAttr(mode, dir) ==
  [high |-> IF mode = NoMode THEN DefaultMode(dir) ELSE mode, low |-> IF dir THEN 16 ELSE 0]

ExternalAttrFor(attr, dir) ==
  LET mode == attr.high % 4096
  IN  [attr EXCEPT !.high = (IF mode = 0 THEN DefaultMode(dir) ELSE mode)
                            + (IF dir THEN DirectoryBit ELSE RegularBit)]
=============================================================================
