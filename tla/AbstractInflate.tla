-------------------------- MODULE AbstractInflate --------------------------
(***************************************************************************)
(* What decompressing a DEFLATE stream means: bits are read where they     *)
(* are, a codeword is decoded from the lengths of its code, a match is     *)
(* copied byte by byte.  There is no bit buffer, no decode table, no fast  *)
(* loop and nothing is kept from one block or stream to the next.          *)
(*                                                                         *)
(* The stream is followed by zeroes; once some of them are consumed the    *)
(* decompressor may say so at any time and has to at the end.              *)
(***************************************************************************)
EXTENDS Integers, Sequences, FiniteSets, DeflateTables, Loops

VARIABLES in,          (* the bytes of the stream                                  *)
          avail,       (* room for output                                          *)
          wants_size,  (* the caller asks how much was written                     *)
          phase,       (* "idle", "header", "symbols", "block_end", "done"         *)
          pos,         (* bits consumed                                            *)
          out,         (* bytes written                                            *)
          final,       (* BFINAL of the block                                      *)
          lens,        (* codeword lengths of the block: [litlen, offset]          *)
          result,      (* "none" until there is one                                *)
          consumed     (* actual_in_nbytes                                         *)
avars == <<in, avail, wants_size, phase, pos, out, final, lens, result, consumed>>

Size == 8 * Len(in)
Bit(k) == IF k < Size THEN (in[(k \div 8) + 1] \div 2^(k % 8)) % 2 ELSE 0

RECURSIVE Number(_, _)
Number(at, n) == IF n = 0 THEN 0 ELSE Bit(at) + 2 * Number(at + 1, n - 1)

(***************************************************************************)
(* Codes, by their lengths.                                                *)
(***************************************************************************)
OfLen(code, l) == {s \in DOMAIN code : code[s] = l}
Used(code) == {s \in DOMAIN code : code[s] # 0}

RECURSIVE Space(_, _)
Space(code, l) == IF l = 0 THEN 0 ELSE 2 * Space(code, l - 1) + Cardinality(OfLen(code, l))

(* Complete, or with at most one codeword, which is then one bit, whatever   *)
(* its value.                                                                *)
Lone(code) == Cardinality(Used(code)) <= 1 /\ \A s \in Used(code) : code[s] = 1
Valid(code) == Space(code, 15) = 2^15 \/ Lone(code)

(* The codewords of a length follow each other, behind those of the length   *)
(* before with a 0 appended: rank is the place of the bits before at among   *)
(* the prefixes that no shorter codeword has taken.                          *)
RECURSIVE Decode(_, _, _, _)
Decode(code, at, l, rank) ==
  LET r == 2 * rank + Bit(at)
      Among(syms) ==
        IF r >= Cardinality(syms) THEN Decode(code, at + 1, l + 1, r - Cardinality(syms))
        ELSE [sym |-> CHOOSE s \in syms : Cardinality({t \in syms : t < s}) = r, end |-> at + 1]
  IN  With(OfLen(code, l), Among)
Symbol(code, at) ==
  IF Lone(code)
  THEN [sym |-> IF Used(code) = {} THEN 0 ELSE CHOOSE s \in Used(code) : TRUE, end |-> at + 1]
  ELSE Decode(code, at, 1, 0)

(***************************************************************************)
(* Block headers.                                                          *)
(***************************************************************************)
Order == <<16, 17, 18, 0, 8, 7, 9, 6, 10, 5, 11, 4, 12, 3, 13, 2, 14, 1, 15>>

(* count lengths from at on, got is what is there of them. *)
RECURSIVE ReadLens(_, _, _, _)
ReadLens(precode, at, count, got) ==
  LET Extra(s)  == IF s.sym < 16 THEN 0 ELSE <<2, 3, 7>>[s.sym - 15]
      Times(s)  == IF s.sym < 16 THEN 1 ELSE <<3, 3, 11>>[s.sym - 15] + Number(s.end, Extra(s))
      Length(s) == CASE s.sym < 16 -> s.sym [] s.sym = 16 -> got[Len(got)] [] OTHER -> 0
      More(s) ==
        IF s.sym = 16 /\ got = <<>> THEN [ok |-> FALSE, lens |-> got, end |-> at]
        ELSE ReadLens(precode, s.end + Extra(s), count, got \o [k \in 1..Times(s) |-> Length(s)])
  IN  IF Len(got) >= count THEN [ok |-> Len(got) = count, lens |-> got, end |-> at]
      ELSE With(Symbol(precode, at), More)

DynamicLens(at) ==
  LET nlit == 257 + Number(at, 5)
      noff == 1 + Number(at + 5, 5)
      npre == 4 + Number(at + 10, 4)
      Place(s) == CHOOSE k \in 1..19 : Order[k] = s
      precode == [s \in 0..18 |-> IF Place(s) <= npre THEN Number(at + 11 + 3 * Place(s), 3) ELSE 0]
      Codes(end, litlen, offset) ==
        IF ~Valid(litlen) \/ ~Valid(offset) THEN [ok |-> FALSE]
        ELSE [ok |-> TRUE, end |-> end, lens |-> [litlen |-> litlen, offset |-> offset]]
      Split(read) == IF ~read.ok THEN [ok |-> FALSE]
                     ELSE Codes(read.end, [s \in 0..(nlit - 1) |-> read.lens[s + 1]],
                                          [s \in 0..(noff - 1) |-> read.lens[nlit + s + 1]])
      Read(code) == IF ~Valid(code) THEN [ok |-> FALSE]
                    ELSE With(ReadLens(code, at + 14 + 3 * npre, nlit + noff, <<>>), Split)
  IN  With(precode, Read)

StaticLens ==
  [litlen |-> [s \in 0..287 |-> IF s < 144 THEN 8 ELSE IF s < 256 THEN 9
                                ELSE IF s < 280 THEN 7 ELSE 8],
   offset |-> [s \in 0..31 |-> 5]]

(***************************************************************************)
(* Steps.                                                                  *)
(***************************************************************************)
Stop(r) ==
  /\ result' = r /\ phase' = "done"
  /\ UNCHANGED <<in, avail, wants_size, pos, out, final, lens, consumed>>
Rest == <<in, avail, wants_size, result, consumed>>

ABegin(i, room, wants) ==
  /\ in' = i /\ avail' = room /\ wants_size' = wants
  /\ phase' = "header" /\ pos' = 0 /\ out' = <<>> /\ result' = "none"
  /\ UNCHANGED <<final, lens, consumed>>

(* The zeroes behind the stream were consumed, or are now. *)
Exhausted(end) == end > Size /\ Stop("BAD_DATA")

Header ==
  /\ phase = "header" /\ Number(pos + 1, 2) \in {1, 2}
  /\ \E h \in {IF Number(pos + 1, 2) = 1 THEN [ok |-> TRUE, end |-> pos + 3, lens |-> StaticLens]
               ELSE DynamicLens(pos + 3)} :
         IF ~h.ok THEN Stop("BAD_DATA")
         ELSE \/ Exhausted(h.end)
              \/ /\ final' = (Bit(pos) = 1) /\ lens' = h.lens /\ pos' = h.end /\ phase' = "symbols"
                 /\ UNCHANGED <<out, Rest>>

Stored ==
  /\ phase = "header" /\ Number(pos + 1, 2) = 0
  /\ LET at  == (pos + 3 + 7) \div 8
         len == Number(8 * at, 16)
     IN  CASE pos + 3 > Size \/ at + 4 > Len(in) -> Stop("BAD_DATA")
           [] OTHER ->
              CASE Number(8 * at + 16, 16) # 65535 - len -> Stop("BAD_DATA")
                [] OTHER ->
                   CASE len > avail - Len(out) -> Stop("INSUFFICIENT_SPACE")
                     [] len <= avail - Len(out) /\ at + 4 + len > Len(in) -> Stop("BAD_DATA")
                     [] OTHER ->
                        /\ final' = (Bit(pos) = 1)
                        /\ out' = out \o SubSeq(in, at + 5, at + 4 + len)
                        /\ pos' = 8 * (at + 4 + len) /\ phase' = "block_end"
                        /\ UNCHANGED <<lens, Rest>>

Reserved == phase = "header" /\ Number(pos + 1, 2) = 3 /\ Stop("BAD_DATA")

(* out until it has size bytes, each one the byte offset bytes before it. *)
RECURSIVE Copied(_, _, _)
Copied(o, size, offset) ==
  IF Len(o) = size THEN o ELSE Copied(Append(o, o[Len(o) + 1 - offset]), size, offset)

Literal(s) ==
  IF Len(out) = avail THEN Stop("INSUFFICIENT_SPACE")
  ELSE /\ out' = Append(out, s.sym) /\ pos' = s.end
       /\ UNCHANGED <<phase, final, lens, Rest>>

EndOfBlock(s) ==
  /\ pos' = s.end /\ phase' = "block_end"
  /\ UNCHANGED <<out, final, lens, Rest>>

(* The match that begins with the symbol s. *)
MatchAt(s) ==
  LET lr == litlen_decode_results(s.sym)
      Offset(o) ==
        LET r == offset_decode_results(o.sym)
        IN  [len    |-> lr.base + Number(s.end, lr.extra),
             offset |-> r.base + Number(o.end, r.extra),
             end    |-> o.end + r.extra]
  IN  With(Symbol(lens.offset, s.end + lr.extra), Offset)
Match(m) ==
  IF m.len > avail - Len(out) THEN Stop("INSUFFICIENT_SPACE")
  ELSE IF m.offset > Len(out) THEN Stop("BAD_DATA")
  ELSE /\ out' = Copied(out, Len(out) + m.len, m.offset) /\ pos' = m.end
       /\ UNCHANGED <<phase, final, lens, Rest>>

Item ==
  /\ phase = "symbols"
  /\ \E s \in {Symbol(lens.litlen, pos)} :
       \/ s.sym < 256 /\ Literal(s)
       \/ s.sym = 256 /\ EndOfBlock(s)
       \/ s.sym <= 256 /\ Exhausted(s.end)
       \/ s.sym > 256 /\ \E m \in {MatchAt(s)} : Match(m) \/ Exhausted(m.end)

NextBlock ==
  /\ phase = "block_end" /\ ~final
  /\ phase' = "header" /\ UNCHANGED <<pos, out, final, lens, Rest>>
Finish ==
  /\ phase = "block_end" /\ final
  /\ CASE pos > Size -> Stop("BAD_DATA")
       [] pos <= Size /\ ~wants_size /\ Len(out) # avail -> Stop("SHORT_OUTPUT")
       [] OTHER -> /\ result' = "SUCCESS" /\ phase' = "done" /\ consumed' = (pos + 7) \div 8
                   /\ UNCHANGED <<in, avail, wants_size, pos, out, final, lens>>

AStep ==
  \/ Header \/ Stored \/ Reserved \/ Item
  \/ NextBlock \/ Finish
=============================================================================
