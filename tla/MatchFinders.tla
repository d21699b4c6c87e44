---------------------------- MODULE MatchFinders ----------------------------
(***************************************************************************)
(* The three match finders of the compressor: the hash table of the        *)
(* fastest parser (ht_matchfinder.h), the hash chains of the greedy and    *)
(* lazy parsers (hc_matchfinder.h) and the binary trees of the             *)
(* near-optimal parser (bt_matchfinder.h).                                 *)
(*                                                                         *)
(* A finder mf is a record of its tables.  Positions in the tables are     *)
(* relative to mf.base, the source's in_base, so -Window is out of reach;  *)
(* the other parameters count from the start of the text.  The tables that *)
(* are indexed by position are not initialised: they start as Junk.        *)
(***************************************************************************)
EXTENDS Integers, Sequences, Loops

CONSTANTS Window,      (* MATCHFINDER_WINDOW_SIZE, a power of two               *)
          Hashes,      (* the buckets of every hash table                       *)
          lz_hash(_),  (* the bucket of three or four bytes                     *)
          Junk         (* what a table holds that nothing was ever written to   *)
ASSUME FinderAssumption == Window \in Nat \ {0} /\ 0 \in Hashes /\ Junk \in Int

VARIABLE text  (* the bytes to be compressed *)

End == Len(text)
Byte(at) == text[at + 1]
Bytes(at, n) == SubSeq(text, at + 1, at + n)
Same(at, from, n) == Bytes(at, n) = Bytes(from, n)

lz_extend(at, from, max_len) ==
  CHOOSE len \in 0..max_len :
    /\ Same(at, from, len)
    /\ len < max_len => Byte(at + len) # Byte(from + len)

(* The nearest two positions that no search may reach any more. *)
Cutoff(mf, at) == at - mf.base - Window
Bucket(at, n) == lz_hash(Bytes(at, n))

(* mutant: positions of the window before the last one come back into reach *)
RebasedWrapping(table) ==
  [i \in DOMAIN table |-> IF table[i] >= 0 THEN table[i] - Window ELSE table[i]]
(* Subtract the window, but go no lower than -Window. *)
matchfinder_rebase(table) ==
  [i \in DOMAIN table |-> IF table[i] >= 0 THEN table[i] - Window ELSE -Window]

Empty == [h \in Hashes |-> -Window]

(***************************************************************************)
(* Hash table: the latest two positions of each hash of four bytes.        *)
(***************************************************************************)
HT_REQUIRED_NBYTES == 5

ht_init == [tab |-> [h \in Hashes |-> <<-Window, -Window>>], base |-> 0, hash |-> 0]

ht_slide_window(mf) ==
  [mf EXCEPT !.tab = [h \in Hashes |-> matchfinder_rebase(mf.tab[h])], !.base = @ + Window]
HtSlid(mf, at) == IF at - mf.base = Window THEN ht_slide_window(mf) ELSE mf

HtFound(mf, at, max_len, nice_len) ==
  LET node(w) == mf.tab[mf.hash][w]
      InReach(w) == node(w) > Cutoff(mf, at)
      from(w) == mf.base + node(w)
      Length(w) == IF Same(at, from(w), 4) THEN lz_extend(at, from(w), max_len) ELSE 0
      Two(first, second) ==
        IF second > first THEN [len |-> second, offset |-> at - from(2)]
        ELSE [len |-> first, offset |-> IF first > 0 THEN at - from(1) ELSE 0]
  IN  IF ~InReach(1) THEN [len |-> 0, offset |-> 0]
      ELSE With(Length(1),
                LAMBDA first :
                  Two(first, IF InReach(2) /\ first < nice_len THEN Length(2) ELSE 0))

(* The entry behind the first one is left alone when the first is too old. *)
HtEntered(mf, at) ==
  LET bucket == mf.tab[mf.hash]
  IN  [mf EXCEPT
         !.tab[mf.hash] =
           <<at - mf.base, IF bucket[1] > Cutoff(mf, at) THEN bucket[1] ELSE bucket[2]>>,
         !.hash = Bucket(at + 1, 4)]

ht_longest_match(mf, at, max_len, nice_len) ==
  With(HtSlid(mf, at),
       LAMBDA m : [mf |-> HtEntered(m, at), found |-> HtFound(m, at, max_len, nice_len)])

RECURSIVE HtSkipped(_, _, _)
HtSkipped(mf, at, count) ==
  IF count = 0 THEN mf
  ELSE With([mf EXCEPT !.tab[mf.hash] = <<at - mf.base, @[1]>>, !.hash = Bucket(at + 1, 4)],
            LAMBDA m : HtSkipped(m, at + 1, count - 1))

(* The window slides early, for the first of the bytes that are skipped. *)
ht_skip_bytes(mf, at, count) ==
  LET slid == IF at - mf.base + count - 1 >= Window THEN ht_slide_window(mf) ELSE mf
  IN  IF count + HT_REQUIRED_NBYTES > End - at THEN mf
      ELSE With(slid, LAMBDA m : HtSkipped(m, at, count))

(***************************************************************************)
(* Hash chains: the latest position of each hash of three bytes, and all   *)
(* positions of each hash of four bytes, linked by next from the latest on.*)
(***************************************************************************)
hc_init ==
  [hash3 |-> Empty, hash4 |-> Empty, next |-> [i \in 0..(Window - 1) |-> Junk],
   base |-> 0, hashes |-> <<0, 0>>]

hc_slide_window(mf) ==
  [mf EXCEPT !.hash3 = matchfinder_rebase(@), !.hash4 = matchfinder_rebase(@),
             !.next = matchfinder_rebase(@), !.base = @ + Window]
HcSlid(mf, at) == IF at - mf.base = Window THEN hc_slide_window(mf) ELSE mf

HcEntered(mf, at) ==
  LET pos == at - mf.base
  IN  [mf EXCEPT !.hash3[mf.hashes[1]] = pos,
                 !.next[pos] = mf.hash4[mf.hashes[2]],
                 !.hash4[mf.hashes[2]] = pos,
                 !.hashes = <<Bucket(at + 1, 3), Bucket(at + 1, 4)>>]

(* Along a chain while it is in reach, at most depth nodes and until a match *)
(* is nice enough; a match must be longer than the best one so far.          *)
RECURSIVE HcWalk(_, _, _, _, _)
HcWalk(mf, at, max_len, nice_len, w) ==
  LET Next(len) ==
        [w EXCEPT !.node = mf.next[w.node % Window], !.depth = @ - 1,
                  !.found = IF len >= 4 /\ len > w.found.len
                            THEN [len |-> len, offset |-> at - (mf.base + w.node)] ELSE @]
  IN  IF w.node <= Cutoff(mf, at) \/ w.depth = 0 \/ w.found.len >= nice_len THEN w.found
      ELSE With(Next(lz_extend(at, mf.base + w.node, max_len)),
                LAMBDA v : HcWalk(mf, at, max_len, nice_len, v))

HcThree(mf, at, best_len) ==
  /\ best_len < 3
  /\ mf.hash3[mf.hashes[1]] > Cutoff(mf, at)
  /\ Same(at, mf.base + mf.hash3[mf.hashes[1]], 3)

(* No position with the same three bytes: no match of four, either. *)
HcFound(mf, at, best_len, max_len, nice_len, depth) ==
  LET node3 == mf.hash3[mf.hashes[1]]
      first == IF HcThree(mf, at, best_len) THEN [len |-> 3, offset |-> at - (mf.base + node3)]
               ELSE [len |-> best_len, offset |-> 0]
  IN  IF best_len < 4 /\ node3 <= Cutoff(mf, at) THEN first
      ELSE HcWalk(mf, at, max_len, nice_len,
                  [node |-> mf.hash4[mf.hashes[2]], depth |-> depth, found |-> first])

hc_longest_match(mf, at, best_len, max_len, nice_len, depth) ==
  LET Search(m) ==
        IF max_len < 5 THEN [mf |-> m, found |-> [len |-> best_len, offset |-> 0]]
        ELSE [mf |-> HcEntered(m, at), found |-> HcFound(m, at, best_len, max_len, nice_len, depth)]
  IN  With(HcSlid(mf, at), Search)

RECURSIVE HcSkipped(_, _, _)
HcSkipped(mf, at, count) ==
  IF count = 0 THEN mf
  ELSE With(HcEntered(HcSlid(mf, at), at), LAMBDA m : HcSkipped(m, at + 1, count - 1))

hc_skip_bytes(mf, at, count) ==
  IF count + 5 > End - at THEN mf ELSE HcSkipped(mf, at, count)

(***************************************************************************)
(* Binary trees: the latest two positions of each hash of three bytes, and *)
(* for each hash of four bytes a tree, sorted by what follows a position,  *)
(* in which a node is later than those under it.                           *)
(***************************************************************************)
BT_REQUIRED_NBYTES == 5

bt_init ==
  [hash3 |-> [h \in Hashes |-> <<-Window, -Window>>], hash4 |-> Empty,
   child |-> [i \in 0..(2 * Window - 1) |-> Junk], base |-> 0, hashes |-> <<0, 0>>]

bt_slide_window(mf, at) ==
  [mf EXCEPT !.hash3 = [h \in Hashes |-> matchfinder_rebase(mf.hash3[h])],
             !.hash4 = matchfinder_rebase(@), !.child = matchfinder_rebase(@), !.base = at]
BtSlid(mf, at) == IF at - mf.base = Window THEN bt_slide_window(mf, at) ELSE mf

bt_left_child(node)  == 2 * (node % Window)
bt_right_child(node) == 2 * (node % Window) + 1

BtThree(mf, at) ==
  LET node(w) == mf.hash3[mf.hashes[1]][w]
      IsMatch(w) == node(w) > Cutoff(mf, at) /\ Same(at, mf.base + node(w), 3)
      Match(w) == <<[length |-> 3, offset |-> at - (mf.base + node(w))]>>
  IN  CASE IsMatch(1) -> Match(1)
        [] ~IsMatch(1) /\ node(1) > Cutoff(mf, at) /\ IsMatch(2) -> Match(2)
        [] OTHER -> <<>>

(* The walk t down a tree makes the new node its root: lt and gt are where   *)
(* the next smaller and the next greater node will hang, and what is under   *)
(* t.node agrees with the text in min(lt_len, gt_len) bytes at least.        *)
BtStop(t, lt, gt) == [t EXCEPT !.child[t.lt] = lt, !.child[t.gt] = gt, !.done = TRUE]

BtTurn(t, smaller, len) ==
  IF smaller
  THEN [t EXCEPT !.child[t.lt] = t.node, !.lt = bt_right_child(t.node),
                 !.node = t.child[bt_right_child(t.node)],
                 !.lt_len = len, !.len = IF t.gt_len < len THEN t.gt_len ELSE len]
  ELSE [t EXCEPT !.child[t.gt] = t.node, !.gt = bt_left_child(t.node),
                 !.node = t.child[bt_left_child(t.node)],
                 !.gt_len = len, !.len = IF t.lt_len < len THEN t.lt_len ELSE len]

BtVisit(at, base, max_len, nice_len, record, t) ==
  LET from   == base + t.node
      agrees == Byte(from + t.len) = Byte(at + t.len)
      Visit(len) ==
        LET longer == agrees /\ (record => len > t.best)
            match  == [length |-> len, offset |-> at - from]
            noted  == IF longer /\ record
                      THEN [t EXCEPT !.best = len, !.matches = Append(@, match)] ELSE t
        IN  IF longer /\ len >= nice_len
            THEN BtStop(noted, t.child[bt_left_child(t.node)], t.child[bt_right_child(t.node)])
            ELSE BtTurn([noted EXCEPT !.depth = @ - 1], Byte(from + len) < Byte(at + len), len)
  IN  With(IF agrees THEN lz_extend(at, from, max_len) ELSE t.len, Visit)

RECURSIVE BtWalk(_, _, _, _, _, _)
BtWalk(at, base, max_len, nice_len, record, t) ==
  CASE t.done -> t
    [] ~t.done /\ (t.node <= at - base - Window \/ t.depth = 0) -> BtStop(t, -Window, -Window)
    [] OTHER -> With(BtVisit(at, base, max_len, nice_len, record, t),
                     LAMBDA u : BtWalk(at, base, max_len, nice_len, record, u))

bt_advance_one_byte(mf, at, max_len, nice_len, depth, record) ==
  LET pos == at - mf.base
      top == [node |-> mf.hash4[mf.hashes[2]], child |-> mf.child, depth |-> depth, done |-> FALSE,
              lt |-> bt_left_child(pos), gt |-> bt_right_child(pos), lt_len |-> 0, gt_len |-> 0,
              len |-> 0, best |-> 3, matches |-> IF record THEN BtThree(mf, at) ELSE <<>>]
      Entered(t) ==
        [mf |-> [mf EXCEPT !.hash3[mf.hashes[1]] = <<pos, @[1]>>, !.hash4[mf.hashes[2]] = pos,
                           !.child = t.child,
                           !.hashes = <<Bucket(at + 1, 3), Bucket(at + 1, 4)>>],
         matches |-> t.matches]
  IN  With(BtWalk(at, mf.base, max_len, nice_len, record, top), Entered)
=============================================================================
