------------------------------ MODULE RangeSet ------------------------------
(***************************************************************************)
(* The range set of xenutil/rangeset.c as operators on a record.  The      *)
(* Entries are a sequence of ranges [Start, End1); a position in it stands *)
(* for the address of an entry, and position 0 for the head of the list.   *)
(* RseCache is the number of spare entries, and Pool the number of further *)
(* entries that XmAllocateZeroedMemory would provide.  Bug is set when an  *)
(* assertion of the code fails.                                            *)
(*                                                                         *)
(* Indices are page frame numbers, far below the top of their type, so the *)
(* encoding of that top as End1 = 0 is left out, and so are the statistics *)
(* that only RangeSetDump reads and the two operations that have no caller *)
(* (RangeSetAddRange, RangeSetPopAlignedBlock).                            *)
(***************************************************************************)
EXTENDS Integers, Sequences, FiniteSetsExt, SequencesExt

RangeSetInit ==
    [Entries |-> <<>>, RseCursor |-> 0, RseCache |-> 0, Pool |-> 0,
     NrItems |-> 0, Bug |-> FALSE]

Failed(rs) == [rs EXCEPT !.Bug = TRUE]

(* The entry at position i goes to the cache; a cursor on it moves on. *)
release_rse(rs, i) ==
    [rs EXCEPT !.Entries = RemoveAt(@, i),
               !.RseCache = @ + 1,
               !.RseCursor = IF @ > i THEN @ - 1
                             ELSE IF @ = i /\ i = Len(rs.Entries) THEN 0
                             ELSE @]

MayAllocate(rs) == rs.RseCache + rs.Pool > 0

(* allocate_rse and InsertHeadList: a new entry behind position i. *)
InsertAfter(rs, i, rse) ==
    [rs EXCEPT !.Entries = InsertAt(@, i + 1, rse),
               !.RseCursor = IF @ > i THEN @ + 1 ELSE @,
               !.RseCache = IF @ > 0 THEN @ - 1 ELSE @,
               !.Pool = IF rs.RseCache > 0 THEN @ ELSE @ - 1]

merge_forwards(rs, i) ==
    LET E == rs.Entries
    IN  IF i \in 1..Len(E) - 1 /\ E[i].End1 = E[i + 1].Start
        THEN release_rse([rs EXCEPT !.Entries[i].End1 = E[i + 1].End1], i + 1)
        ELSE rs

(* The walk of RangeSetAdd from the cursor to the last entry that starts   *)
(* below idx.                                                              *)
LastBelow(rs, idx) ==
    LET E == rs.Entries
        c == IF rs.RseCursor = 0 THEN 1 ELSE rs.RseCursor
    IN  IF E[c].Start > idx
        THEN Max({0} \cup {j \in 1..c : E[j].Start <= idx})
        ELSE Min({Len(E) + 1} \cup {j \in c..Len(E) : E[j].Start >= idx}) - 1

(* An assertion of RangeSetAdd fails: idx is in the set already. *)
Misplaced(rs, idx, at) ==
    LET E == rs.Entries
    IN  \/ at > 0 /\ E[at].End1 > idx
        \/ at < Len(E) /\ E[at + 1].Start <= idx

Counted(rs) == [rs EXCEPT !.NrItems = @ + 1]

(* [ok |-> the function's result, rs |-> the set afterwards] *)
RangeSetAdd(rs, idx) ==
    LET E     == rs.Entries
        at    == IF E = <<>> THEN 0 ELSE LastBelow(rs, idx)
        moved == [rs EXCEPT !.RseCursor = at]
    IN  IF E # <<>> /\ Misplaced(rs, idx, at)
        THEN [ok |-> FALSE, rs |-> Failed(rs)]
        ELSE IF at > 0 /\ E[at].End1 = idx
        THEN [ok |-> TRUE, rs |-> Counted(merge_forwards(
                 [moved EXCEPT !.Entries[at].End1 = idx + 1], at))]
        ELSE IF at < Len(E) /\ E[at + 1].Start = idx + 1
        THEN [ok |-> TRUE, rs |-> Counted(merge_forwards(
                 [moved EXCEPT !.Entries[at + 1].Start = idx], at))]
        ELSE IF MayAllocate(moved)
        THEN [ok |-> TRUE, rs |-> Counted(
                 [InsertAfter(moved, at, [Start |-> idx, End1 |-> idx + 1])
                    EXCEPT !.RseCursor = at + 1])]
        ELSE [ok |-> FALSE, rs |-> moved]

(* One turn of the loops over the items, which stop at the first failure: a is
   the outcome so far, r the next item's; n counts the successes. *)
UntilFailure(a, r) ==
    IF a.ok
    THEN [ok |-> r.ok, rs |-> r.rs, n |-> IF r.ok THEN a.n + 1 ELSE a.n]
    ELSE a

RangeSetAddItems(rs, items) ==
    FoldLeft(LAMBDA a, x : UntilFailure(a, RangeSetAdd(a.rs, x)),
             [ok |-> TRUE, rs |-> rs, n |-> 0], items)

(* The value that both branches of RangeSetRemoveRange give to End1. *)
TrimmedEnd(start) == start - 1

RangeSetRemoveRange(rs, start, end) ==
    LET E    == rs.Entries
        here == {j \in 1..Len(E) : E[j].Start <= start /\ E[j].End1 > start}
        i    == CHOOSE j \in here : TRUE
        Tidy(s) == IF s.Entries[i].Start = s.Entries[i].End1
                   THEN release_rse(s, i) ELSE s
        Less(s) == [s EXCEPT !.NrItems = @ - (end - start + 1)]
    IN  IF here = {} THEN [ok |-> FALSE, rs |-> Failed(rs)]
        ELSE IF E[i].Start = start
        THEN [ok |-> TRUE,
              rs |-> Less(Tidy([rs EXCEPT !.Entries[i].Start = end + 1]))]
        ELSE IF E[i].End1 = end + 1
        THEN [ok |-> TRUE,
              rs |-> Less(Tidy([rs EXCEPT
                                  !.Entries[i].End1 = TrimmedEnd(start)]))]
        ELSE IF MayAllocate(rs)
        THEN [ok |-> TRUE,
              rs |-> Less(InsertAfter(
                       [rs EXCEPT !.Entries[i].End1 = TrimmedEnd(start)],
                       i, [Start |-> end + 1, End1 |-> E[i].End1]))]
        ELSE [ok |-> FALSE, rs |-> rs]

RangeSetRemove(rs, idx) == RangeSetRemoveRange(rs, idx, idx)

RangeSetRemoveItems(rs, items) ==
    FoldLeft(LAMBDA a, x : UntilFailure(a, RangeSetRemove(a.rs, x)),
             [ok |-> TRUE, rs |-> rs, n |-> 0], items)

(* [out |-> the index, rs |-> the set afterwards] *)
RangeSetPopOne(rs) ==
    LET h == rs.Entries[1]
        s == [rs EXCEPT !.Entries[1].Start = @ + 1, !.NrItems = @ - 1]
    IN  IF rs.Entries = <<>> THEN [out |-> 0, rs |-> Failed(rs)]
        ELSE [out |-> h.Start,
              rs |-> IF h.Start + 1 = h.End1 THEN release_rse(s, 1) ELSE s]

(* [out |-> the sequence of indices, rs |-> the set afterwards] *)
RangeSetPopMany(rs, nr) ==
    FoldLeft(LAMBDA a, k : LET r == RangeSetPopOne(a.rs)
                           IN  [out |-> Append(a.out, r.out), rs |-> r.rs],
             [out |-> <<>>, rs |-> rs], [k \in 1..nr |-> k])

RangeSetDropRseCache(rs) == [rs EXCEPT !.RseCache = 0, !.Pool = 0]

-----------------------------------------------------------------------------

(* [|rs|], the denotation in the comment above struct range_set *)
Denotation(rs) ==
    UNION {rs.Entries[i].Start .. rs.Entries[i].End1 - 1 : i \in 1..Len(rs.Entries)}

(* RSE.nonempty, RS.ascending with RS.nontouching, and RS.cursor_valid *)
WellFormed(rs) ==
    /\ \A i \in 1..Len(rs.Entries) : rs.Entries[i].Start < rs.Entries[i].End1
    /\ \A i \in 1..Len(rs.Entries) - 1 :
          rs.Entries[i].End1 < rs.Entries[i + 1].Start
    /\ rs.RseCursor \in 0..Len(rs.Entries)
=============================================================================
