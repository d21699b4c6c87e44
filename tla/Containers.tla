----------------------------- MODULE Containers -----------------------------
(***************************************************************************)
(* zlib_compress.c, zlib_decompress.c, gzip_compress.c, gzip_decompress.c: *)
(* what is put around a DEFLATE stream, and how it is taken off again.     *)
(* format is "deflate", "zlib" or "gzip".                                  *)
(***************************************************************************)
EXTENDS Checksums

AdlerBytes(a) == <<a[2] \div 256, a[2] % 256, a[1] \div 256, a[1] % 256>>

RECURSIVE ByteValue(_, _)
ByteValue(set, i) == IF i = 8 THEN 0 ELSE (IF i \in set THEN 2^i ELSE 0) + ByteValue(set, i + 1)
CrcBytes(crc) == [k \in 1..4 |-> ByteValue(Byte(crc, k - 1), 0)]

Le32(n) == <<n % 256, (n \div 2^8) % 256, (n \div 2^16) % 256, (n \div 2^24) % 256>>

Overhead(format) == CASE format = "deflate" -> 0 [] format = "zlib" -> 6 [] format = "gzip" -> 18
Footer(format)   == CASE format = "deflate" -> 0 [] format = "zlib" -> 4 [] format = "gzip" -> 8

(***************************************************************************)
(* Compression.                                                            *)
(***************************************************************************)
(* The level, as the two formats hint at it. *)
LevelHint(level) == CASE level < 2 -> 0 [] level \in 2..5 -> 1 [] level \in 6..7 -> 2 [] OTHER -> 3
Xfl(level) == CASE level < 2 -> 4 [] level \in 2..7 -> 0 [] OTHER -> 2

ZlibHeader(level) ==
  LET hdr == 8 * 256 + 7 * 4096 + 64 * LevelHint(level)
      all == hdr + (31 - (hdr % 31))
  IN  <<all \div 256, all % 256>>
GzipHeader(level) == <<31, 139, 8, 0, 0, 0, 0, 0, Xfl(level), 255>>

HeaderBytes(format, level) ==
  CASE format = "deflate" -> <<>>
    [] format = "zlib"    -> ZlibHeader(level)
    [] format = "gzip"    -> GzipHeader(level)
FooterBytes(format, data) ==
  CASE format = "deflate" -> <<>>
    [] format = "zlib"    -> AdlerBytes(libdeflate_adler32(data))
    [] format = "gzip"    -> CrcBytes(libdeflate_crc32(data, 0)) \o Le32(Len(data))

(***************************************************************************)
(* Decompression.  Bad, or where the DEFLATE stream begins (from 0).       *)
(***************************************************************************)
BadHeader == [ok |-> FALSE, at |-> 0]

ParseZlib(bytes) ==
  LET hdr == 256 * bytes[1] + bytes[2]
  IN  IF \/ Len(bytes) < Overhead("zlib")
         \/ hdr % 31 # 0                       (* FCHECK *)
         \/ (hdr \div 256) % 16 # 8            (* CM     *)
         \/ hdr \div 4096 > 7                  (* CINFO  *)
         \/ (hdr \div 32) % 2 = 1              (* FDICT  *)
      THEN BadHeader
      ELSE [ok |-> TRUE, at |-> 2]

(* A field takes p = [ok, at] to where the field ends.  With FooterFits the  *)
(* code makes sure after each that a footer can follow.                      *)
FooterFits(bytes, p) ==
  IF Len(bytes) - p.at < Footer("gzip") THEN BadHeader ELSE p

ExtraField(bytes, p) ==
  LET xlen == bytes[p.at + 1] + 256 * bytes[p.at + 2]
  IN  IF Len(bytes) - (p.at + 2) < xlen + Footer("gzip") THEN BadHeader
      ELSE [p EXCEPT !.at = @ + 2 + xlen]

ZeroTerminated(bytes, p) ==
  LET zeroes == {k \in (p.at + 1)..Len(bytes) : bytes[k] = 0}
  IN  [p EXCEPT !.at = IF zeroes = {} THEN Len(bytes) ELSE CHOOSE k \in zeroes : \A j \in zeroes : k <= j]

FlagSet(bytes, bit) == (bytes[4] \div bit) % 2 = 1
Field(bytes, bit, p, after) == IF p.ok /\ FlagSet(bytes, bit) THEN after ELSE p

ParseGzip(bytes) ==
  LET start   == [ok |-> TRUE, at |-> 10]
      extra   == Field(bytes, 4, start, ExtraField(bytes, start))
      name    == Field(bytes, 8, extra, FooterFits(bytes, ZeroTerminated(bytes, extra)))
      comment == Field(bytes, 16, name, FooterFits(bytes, ZeroTerminated(bytes, name)))
  IN  IF \/ Len(bytes) < Overhead("gzip")
         \/ bytes[1] # 31 \/ bytes[2] # 139 \/ bytes[3] # 8
         \/ bytes[4] >= 32                     (* GZIP_FRESERVED *)
      THEN BadHeader
      ELSE Field(bytes, 2, comment, FooterFits(bytes, [comment EXCEPT !.at = @ + 2]))

ParseHeader(format, bytes) ==
  CASE format = "deflate" -> [ok |-> TRUE, at |-> 0]
    [] format = "zlib"    -> ParseZlib(bytes)
    [] format = "gzip"    -> ParseGzip(bytes)

(* mutant: the checksum is read and not compared *)
LengthOnly(format, footer, data) ==
  format # "gzip" \/ SubSeq(footer, 5, 8) = Le32(Len(data))
FooterMatches(format, footer, data) == footer = FooterBytes(format, data)
=============================================================================
