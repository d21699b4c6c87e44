------------------------------- MODULE MCSink -------------------------------
(* Small instances of the pipeline for TLC.  One permit stands for two bytes *)
(* and the byte budget is four permits; files of more than three bytes are   *)
(* not read into memory, and those of up to four bytes are mapped.           *)
EXTENDS SinkProperties, TLC

dir      == [kind |-> "dir", size |-> 0]
small    == [kind |-> "file", size |-> 1]       (* batchable                           *)
snippet  == [kind |-> "inline", size |-> 1]     (* batchable                           *)
medium   == [kind |-> "file", size |-> 3]       (* in memory: 3 permits                *)
mapped   == [kind |-> "file", size |-> 4]       (* mapped: 2 permits                   *)
streamed == [kind |-> "file", size |-> 9]       (* through a temp file: none           *)
resource == [kind |-> "inline", size |-> 9]     (* exceeds the budget: clamped to 4    *)

(* no entry, the last flush alone, a batch flushed by a lone entry and one by *)
(* its size, permits that do not fit together, more units than permits        *)
MCInputs ==
  { <<>>,
    <<small, snippet, small>>,
    <<small, dir, small, small, streamed>>,
    <<medium, mapped, resource, small>>,
    <<mapped, dir, mapped, medium, snippet>> }

(* for one thread: more units than it has count permits, and short lists     *)
MCManyUnits ==
  { <<dir, streamed, dir, dir, streamed, dir>>,
    <<small, dir, small>>, <<medium, mapped, small, snippet>> }

(* short lists, for the runs with every fault                                 *)
MCShortInputs ==
  { <<small, dir, small>>, <<medium, mapped, small, snippet>>, <<streamed, streamed, streamed>> }
=============================================================================
