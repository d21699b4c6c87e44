--------------------------- MODULE OrderedArchive ---------------------------
(***************************************************************************)
(* What ParallelZipWriter promises its caller, whatever the number of      *)
(* threads: the archive grows one entry at a time in the order of the      *)
(* input list, and the call returns normally only when every entry and the *)
(* central directory are in the archive.  A call that throws may leave any *)
(* prefix behind, and a writer it abandoned may still extend it.           *)
(***************************************************************************)
EXTENDS Naturals, Sequences

CONSTANT Inputs
VARIABLES input, archive, tail, outcome

absVars == <<input, archive, tail, outcome>>

AbsInit ==
  /\ input \in Inputs
  /\ archive = <<>> /\ tail = FALSE /\ outcome = "running"

AppendNext ==
  /\ outcome # "returned" /\ ~tail /\ Len(archive) < Len(input)
  /\ archive' = Append(archive, Len(archive) + 1)
  /\ UNCHANGED <<input, tail, outcome>>

Complete ==
  /\ outcome # "returned" /\ ~tail /\ Len(archive) = Len(input)
  /\ tail' = TRUE
  /\ UNCHANGED <<input, archive, outcome>>

Return ==
  /\ outcome = "running" /\ tail
  /\ outcome' = "returned"
  /\ UNCHANGED <<input, archive, tail>>

Throw ==
  /\ outcome = "running"
  /\ outcome' = "thrown"
  /\ UNCHANGED <<input, archive, tail>>

AbsNext == AppendNext \/ Complete \/ Return \/ Throw

AbsSpec == AbsInit /\ [][AbsNext]_absVars

Answers == <>(outcome # "running")
=============================================================================
