------------------------------ MODULE BitBudget ------------------------------
(***************************************************************************)
(* The arithmetic of bits and slots on both sides of a stream, with the    *)
(* real sizes.  side says which side a behaviour is about; the others      *)
(* rest.  The third side sends single matches: WRITE_MATCH turns a length  *)
(* and an offset into symbols and extra bits, the decode tables turn them  *)
(* back.                                                                   *)
(***************************************************************************)
EXTENDS BitWriter, BitReader

CONSTANT Offsets   (* offsets of the matches that are sent *)
ASSUME OffsetsAssumption == Offsets \subseteq 1..MAX_MATCH_OFFSET

VARIABLES side,   (* "writer", "reader" or "match"   *)
          match,  (* the match that is sent          *)
          sent    (* its symbols and extra bits      *)
mvars == <<match, sent>>

Nothing == [len |-> 0, offset |-> 0]

(* full_len_codewords and WRITE_MATCH; the near-optimal parser has the offset *)
(* slot from its own table.                                                   *)
Encode(m) ==
  LET slot  == length_slot(m.len)
      oslot == get_offset_slot(m.offset)
  IN  [litlen  |-> 257 + slot, extra |-> m.len - length_slot_base[slot + 1],
       offset  |-> oslot,      more  |-> m.offset - offset_slot_base[oslot + 1],
       optimal |-> offset_slot_full(m.offset)]

Decode(s) ==
  [len    |-> litlen_decode_results(s.litlen).base + s.extra,
   offset |-> offset_decode_results(s.offset).base + s.more]

SendMatch(m) == match' = m /\ sent' = Encode(m)

Init ==
  /\ WInit /\ RInit
  /\ side \in {"writer", "reader", "match"}
  /\ match = Nothing /\ sent = <<>>

Next ==
  /\ \/ side = "writer" /\ WNext /\ UNCHANGED <<rvars, mvars>>
     \/ side = "reader" /\ RNext /\ UNCHANGED <<wvars, mvars>>
     \/ /\ side = "match" /\ match = Nothing
        /\ \E len \in MIN_MATCH_LEN..MAX_MATCH_LEN, offset \in Offsets :
             SendMatch([len |-> len, offset |-> offset])
        /\ UNCHANGED <<machine, wvars, rvars>>
  /\ UNCHANGED side

Spec == Init /\ [][Next]_<<side, machine, wvars, rvars, mvars>>

(***************************************************************************)
(* Properties.                                                             *)
(***************************************************************************)
TypeOK ==
  /\ AnyMachine
  /\ bitcount \in Nat /\ next \in Nat /\ fast_end \in 0..Space /\ left \in Nat
  /\ bitsleft \in 0..NBITS /\ valid \in 0..NBITS /\ advanced \in Nat /\ written \in Nat
  /\ {lost, overran, stopped, starved, strayed} \subseteq BOOLEAN

(* A match that the compressor sends is the match that the decompressor     *)
(* reads: slots, bases and numbers of extra bits, which each side has in    *)
(* tables of its own, agree, and so do the three ways to an offset's slot.  *)
MatchesReadBack ==
  match # Nothing =>
    /\ Decode(sent) = match
    /\ sent.extra < 2^litlen_decode_results(sent.litlen).extra
    /\ sent.more < 2^offset_decode_results(sent.offset).extra
    /\ extra_length_bits[sent.litlen - 256] = litlen_decode_results(sent.litlen).extra
    /\ extra_offset_bits[sent.offset + 1] = offset_decode_results(sent.offset).extra
    /\ sent.optimal = sent.offset
=============================================================================
