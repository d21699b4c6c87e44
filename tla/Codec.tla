------------------------------- MODULE Codec -------------------------------
(***************************************************************************)
(* A stream from libdeflate's compressor to its decompressor: the blocks   *)
(* of some data are written (DeflateBlock), framed (Containers), carried   *)
(* to a decompressor that may have been used before, perhaps damaged on    *)
(* the way, and read back (Inflate).                                       *)
(*                                                                         *)
(* A job is a record of                                                    *)
(*   blocks   the data of each block with its items, as a parser made them *)
(*   foreign  a DEFLATE stream of another compressor for the same data, or *)
(*            <<>>                                                         *)
(*   level, format                                                         *)
(*   slack    room for output, beyond the bound for the data               *)
(*   damage   ways to change what was sent: <<"none">>, <<"cut", bytes     *)
(*            left>>, <<"flip", bit>>, <<"pad", n>>                        *)
(*   calls    room, and whether the size is asked for, at the decompressor *)
(*   before   streams that the decompressor has seen before                *)
(***************************************************************************)
EXTENDS Inflate, DeflateBlock, Containers

CONSTANT Jobs

VARIABLES job, stage,
          done_blocks, os,   (* the compressor's progress and its output    *)
          whole, sent,       (* the framed stream, and what became of it    *)
          damaged,
          base,              (* where the DEFLATE stream begins in sent     *)
          seen,              (* streams that the decompressor is through    *)
          answer             (* of the decompression: result and bytes used *)
(* machine is the decompressor's, whose code depends on it; it is chosen     *)
(* when the stream is sent.                                                  *)
cvars == <<job, stage, done_blocks, os, whole, sent, damaged, base, seen, answer>>
vars  == <<machine, ivars, cvars>>

(* The bytes that items stand for. *)
RECURSIVE Expand(_, _)
Expand(items, out) ==
  LET item == Head(items)
  IN  IF items = <<>> THEN out
      ELSE Expand(Tail(items),
                  IF item[1] = 1 THEN Append(out, item[2]) ELSE CopyBytes(out, Len(out) - item[2], Len(out), item[1]))

Data == FlattenSeq([b \in DOMAIN job.blocks |-> job.blocks[b].data])
Bound(j, n) == Overhead(j.format) + deflate_compress_bound(n)
DataSize(j) == FoldLeft(LAMBDA n, b : n + Len(b.data), 0, j.blocks)

(* max_passthrough_size *)
PassThrough(level, n) == level = 0 \/ n <= 55 - 4 * level

Init ==
  /\ machine = [word |-> 8, fast |-> TRUE]
  /\ job \in Jobs
  /\ \E d \in job.slack :
       os = [bits |-> <<>>, overflow |-> FALSE, cost |-> 0,
             avail |-> Bound(job, DataSize(job)) + d - Overhead(job.format)]
  /\ stage = "compress" /\ done_blocks = 0
  /\ whole = <<>> /\ sent = <<>> /\ damaged = <<"none">> /\ base = 0 /\ seen = 0
  /\ answer = [result |-> "none", used |-> 0]
  /\ in = <<>> /\ avail = 0 /\ wants_size = FALSE
  /\ next = 0 /\ buf = Empty /\ left = 0 /\ over = 0 /\ wild = FALSE
  /\ mem = <<>> /\ out_next = 0
  /\ u = <<>> /\ offset_table = <<>> /\ litlen_tablebits = 0 /\ static_codes_loaded = FALSE
  /\ code = <<>> /\ entry = Uninit /\ pc = "idle" /\ is_final = FALSE
  /\ result = "none" /\ consumed = 0

(***************************************************************************)
(* Compression.                                                            *)
(***************************************************************************)
Refuse ==
  /\ stage = "compress" /\ os.avail <= 0 /\ job.format # "deflate"
  /\ stage' = "refused"
  /\ UNCHANGED <<job, done_blocks, os, whole, sent, damaged, base, seen, answer>>
CanCompress == stage = "compress" /\ job.foreign = <<>> /\ (os.avail > 0 \/ job.format = "deflate")

CompressNone ==
  /\ CanCompress /\ done_blocks = 0 /\ PassThrough(job.level, Len(Data))
  /\ os' = deflate_compress_none(os, Data)
  /\ done_blocks' = Len(job.blocks)
  /\ UNCHANGED <<job, stage, whole, sent, damaged, base, seen, answer>>

FlushBlock ==
  /\ CanCompress /\ ~PassThrough(job.level, Len(Data))
  /\ done_blocks < Len(job.blocks) /\ ~os.overflow
  /\ LET b == job.blocks[done_blocks + 1]
     IN  os' = finish_block(os, b.data, b.items, done_blocks + 1 = Len(job.blocks))
  /\ done_blocks' = done_blocks + 1
  /\ UNCHANGED <<job, stage, whole, sent, damaged, base, seen, answer>>

Framed(stream) ==
  HeaderBytes(job.format, job.level) \o stream \o FooterBytes(job.format, Data)

Frame ==
  /\ CanCompress /\ (os.overflow \/ done_blocks = Len(job.blocks))
  /\ IF os.overflow THEN stage' = "refused" /\ UNCHANGED <<os, whole>>
     ELSE /\ stage' = "framed"
          /\ os' = FinalByte(os)
          /\ whole' = Framed(ToBytes(FinalByte(os).bits))
  /\ UNCHANGED <<job, done_blocks, sent, damaged, base, seen, answer>>

Foreign ==
  /\ stage = "compress" /\ job.foreign # <<>>
  /\ stage' = "framed" /\ whole' = job.foreign
  /\ UNCHANGED <<job, done_blocks, os, sent, damaged, base, seen, answer>>

(***************************************************************************)
(* On the way.                                                             *)
(***************************************************************************)
Flipped(byte, bit) == IF (byte \div 2^bit) % 2 = 1 THEN byte - 2^bit ELSE byte + 2^bit
Damaged(bytes, d) ==
  CASE d[1] = "none" -> bytes
    [] d[1] = "cut"  -> SubSeq(bytes, 1, d[2])
    [] d[1] = "pad"  -> bytes \o [i \in 1..d[2] |-> 0]
    [] d[1] = "flip" -> [bytes EXCEPT ![(d[2] \div 8) + 1] = Flipped(@, d[2] % 8)]

Send ==
  /\ stage = "framed"
  /\ \E d \in job.damage : sent' = Damaged(whole, d) /\ damaged' = d
  /\ stage' = "received" /\ machine' \in Machines
  /\ UNCHANGED <<job, done_blocks, os, whole, base, seen, answer>>

(***************************************************************************)
(* Decompression.                                                          *)
(***************************************************************************)
UseBefore ==
  /\ stage = "received" /\ seen < Len(job.before)
  /\ Begin(job.before[seen + 1], 600, TRUE)
  /\ stage' = "before" /\ seen' = seen + 1
  /\ UNCHANGED <<job, done_blocks, os, whole, sent, damaged, base, answer>>
Reuse ==
  /\ stage = "before" /\ pc = "done"
  /\ stage' = "received"
  /\ UNCHANGED <<job, done_blocks, os, whole, sent, damaged, base, seen, answer>>

Parsed == ParseHeader(job.format, sent)
Unwrap ==
  /\ stage = "received" /\ seen = Len(job.before)
  /\ IF Parsed.ok
     THEN /\ \E c \in job.calls :
               Begin(SubSeq(sent, Parsed.at + 1, Len(sent) - Footer(job.format)), c[1], c[2])
          /\ base' = Parsed.at /\ stage' = "inflate" /\ UNCHANGED answer
     ELSE /\ answer' = [result |-> "BAD_DATA", used |-> 0] /\ stage' = "answered"
          /\ UNCHANGED <<ivars, base>>
  /\ UNCHANGED <<job, done_blocks, os, whole, sent, damaged, seen>>

(* What the wrapper takes the decompressed size to be. *)
Size == IF wants_size THEN out_next ELSE avail
Verify ==
  /\ stage = "inflate" /\ pc = "done"
  /\ LET end    == base + consumed
         footer == SubSeq(sent, end + 1, end + Footer(job.format))
     IN  answer' =
           CASE result # "SUCCESS" -> [result |-> result, used |-> 0]
             [] result = "SUCCESS" /\ ~FooterMatches(job.format, footer, SubSeq(mem, 1, Size)) ->
                  [result |-> "BAD_DATA", used |-> 0]
             [] OTHER -> [result |-> "SUCCESS", used |-> end + Footer(job.format)]
  /\ stage' = "answered"
  /\ UNCHANGED <<job, done_blocks, os, whole, sent, damaged, base, seen>>

Compressing   == Refuse \/ CompressNone \/ FlushBlock \/ Frame \/ Foreign
Decompressing == stage \in {"before", "inflate"} /\ Step /\ UNCHANGED cvars
(* The only ways to stop. *)
Over == stage \in {"refused", "answered"} /\ UNCHANGED vars
Next ==
  \/ Send /\ UNCHANGED ivars
  \/ /\ UNCHANGED machine
     /\ \/ UNCHANGED ivars /\ (Compressing \/ Reuse \/ Verify)
        \/ UseBefore \/ Unwrap
        \/ Decompressing
  \/ Over

Spec == Init /\ [][Next]_vars

-----------------------------------------------------------------------------
(***************************************************************************)
(* What the compressor, the containers and the decompressor promise each   *)
(* other and their callers.                                                *)
(***************************************************************************)
(* A block has exactly the bits that deflate_flush_block counted before it   *)
(* chose how to write it, whichever way that was: the choice and the check   *)
(* of the room both rest on the count (its last assertion).                  *)
CostExact ==
  [][(done_blocks' = done_blocks + 1 /\ os'.cost # 0 /\ ~os'.overflow) => Len(os'.bits) = Len(os.bits) + os'.cost]_vars

(* With the room that the bound asks for compression never fails, whatever   *)
(* the data, the blocks and the container.                                   *)
BoundSuffices ==
  (os.avail >= deflate_compress_bound(Len(Data)) /\ job.foreign = <<>>) =>
     ~os.overflow /\ stage # "refused"

Answered == stage = "answered"
Untouched == damaged[1] \in {"none", "pad"} /\ (job.format = "deflate" \/ damaged[1] = "none")

(* A stream that arrives as it was sent is read back: the same bytes, all of *)
(* the stream used and no more, whatever the decompressor has seen before;   *)
(* with less room than the data needs, or too much of it, that is the answer. *)
ReadsBack ==
  (Answered /\ Untouched) =>
     IF avail < Len(Data) THEN answer.result = "INSUFFICIENT_SPACE"
     ELSE IF wants_size \/ avail = Len(Data)
     THEN answer.result = "SUCCESS" /\ SubSeq(mem, 1, Size) = Data /\ answer.used = Len(whole)
     ELSE answer.result = "SHORT_OUTPUT"

(* A damaged zlib or gzip stream is never taken for other data.              *)
DamageNoticed ==
  (Answered /\ answer.result = "SUCCESS" /\ job.format # "deflate") =>
     SubSeq(mem, 1, Size) = Data

(* The compressor writes nothing beyond the room given, the byte in the      *)
(* buffer at the end included.  Whatever bytes the decompressor is given, it *)
(* reads nothing outside the input and writes nothing outside the output:    *)
(* the fast loop's margins, the refills of a whole word and the copies that  *)
(* write too much stay inside, and a match never begins before the output.   *)
WithinRoom == DivRoundUp(Len(os.bits), 8) <= (IF os.avail > 0 THEN os.avail ELSE 0)
InBounds ==
  /\ WithinRoom
  /\ ~wild
  /\ Len(mem) <= avail /\ out_next <= Len(mem)
  /\ Junk \notin {mem[i] : i \in 1..out_next}

(* The byte at a time and the table driven checksums are what Adler-32 and   *)
(* CRC-32 are, wherever the data lies in memory.                             *)
ChecksumsAgree == stage = "framed" => \A ahead \in 0..7 : Agree(Data, ahead)

(***************************************************************************)
(* Refinement: the decompressor decodes what the format means.             *)
(***************************************************************************)
AbsPhase ==
  CASE pc = "block" -> "header"
    [] pc \in {"loop", "fast0", "fast1", "fast2", "generic"} -> "symbols"
    [] pc = "block_done" -> "block_end"
    [] OTHER -> pc
Abs == INSTANCE AbstractInflate WITH
         phase <- AbsPhase, pos <- 8 * (next + over) - left, out <- SubSeq(mem, 1, out_next),
         final <- is_final, lens <- code

(* Each step of the decompressor, with its bit buffer, tables and fast loop, *)
(* is a step of the format's definition or changes nothing of it.            *)
Implements == [][Abs!AStep \/ Abs!ABegin(in', avail', wants_size')]_(Abs!avars)
=============================================================================
