------------------------- MODULE FrontEndsProperties -------------------------
(* What the entries and the spill directory of FrontEnds must be.            *)
EXTENDS FrontEnds

-----------------------------------------------------------------------------
(* The listing.  Of the files that map to one name the first source that has *)
(* one wins, however the trees are walked; every name is listed once, in     *)
(* order.                                                                    *)
NamesIn(s) == {EntryName(s.prefix, f.rel, f.dir) : f \in s.files}
FirstWith(name) ==
  CHOOSE i \in DOMAIN sources :
    name \in NamesIn(sources[i]) /\ \A j \in 1..(i - 1) : name \notin NamesIn(sources[j])

ListedOnce ==
  sources # <<>> /\ pc # "enumerate" =>
    /\ {list[i].name : i \in DOMAIN list} = UNION {NamesIn(sources[i]) : i \in DOMAIN sources}
    /\ \A i, j \in DOMAIN list : i < j => Less(list[i].name, list[j].name)
    /\ \A i \in DOMAIN list : list[i].origin \in sources[FirstWith(list[i].name)].files

(* An entry name is a relative path with slashes only, and the path of the   *)
(* file within its source begins at a separator of it.                       *)
NamesRelative ==
  \A i \in DOMAIN list :
    LET name == list[i].name
        own  == Len(list[i].origin.rel) + (IF list[i].origin.dir THEN 1 ELSE 0)
    IN  /\ name[1] # Slash
        /\ \A j \in DOMAIN name :
             /\ name[j] # Backslash
             /\ name[j] = Slash /\ j < Len(name) => name[j + 1] # Slash
        /\ own < Len(name) => name[Len(name) - own] = Slash

(* The list of entries that the pipeline is given is all of this.            *)
EntriesListed == ListedOnce /\ NamesRelative

-----------------------------------------------------------------------------
(* A filtered entry has the whole of its stream, in order, whatever the      *)
(* reads return, and is in memory exactly if it is not over the threshold.   *)
MaterializedFaithfully ==
  walk # <<>> =>
    \A k \in DOMAIN handed :
      /\ handed[k].origin = walk[k]
      /\ ~walk[k].dir => handed[k].content = Whole(walk[k])
      /\ handed[k].kind = "inline" => Len(handed[k].content) <= SpillThreshold
      /\ walk[k].filtered => (handed[k].temp # 0 <=> walk[k].size > SpillThreshold)

-----------------------------------------------------------------------------
(* A reader of the archive gets the modification time of the file, rounded   *)
(* down to two seconds, if a DOS date can tell it, and 1980-01-01 otherwise. *)
ReadStamp(s) ==
  [year |-> 1980 + s.date \div 512, month |-> (s.date \div 32) % 16, day |-> s.date % 32,
   hour |-> s.time \div 2048, minute |-> (s.time \div 32) % 64, second |-> 2 * (s.time % 32)]

Epoch == [year |-> 1980, month |-> 1, day |-> 1, hour |-> 0, minute |-> 0, second |-> 0]

StampReadsBack(e) ==
  LET t == e.origin.modified
  IN  ReadStamp(StampFields(e.stamp)) =
        IF preserve /\ t.year \in 1980..2107 THEN [t EXCEPT !.second = 2 * (t.second \div 2)] ELSE Epoch

(* An extractor gets the type of the entry and the permission bits of its    *)
(* file, those of a default where there are none.                            *)
ModeReadsBack(e) ==
  LET f    == e.origin
      attr == ExternalAttrFor(e.attr, f.dir)
  IN  /\ attr.high \div 4096 = IF f.dir THEN 4 ELSE 8
      /\ attr.high % 4096 = IF f.mode \in {NoMode, 0} THEN DefaultMode(f.dir) ELSE f.mode
      /\ (attr.low = 16) <=> f.dir

(* What the two fields of a record say of a file is what an extractor sets.  *)
AttributesReadBack == \A k \in DOMAIN handed : StampReadsBack(handed[k]) /\ ModeReadsBack(handed[k])

-----------------------------------------------------------------------------
(* Unless the caller's side threw or the archive could not be written, the   *)
(* call leaves nothing of the spill directory behind, also when a unit failed. *)
SpillDirGone == pc = "over" /\ ~abandoned /\ "write" \notin faults => ~dirExists /\ temps = {}

(* While the call waits for the pipeline no unit and not the writer lacks a  *)
(* file of the spill directory: without a fault nothing fails.               *)
NoStrayFailure == failed => abandoned \/ "write" \in faults \/ "task" \in faults
=============================================================================
