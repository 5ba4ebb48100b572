------------------------------ MODULE ListOwner -------------------------------
(***************************************************************************)
(* List columns such as TypeDef.MethodList: a row owns the run of target   *)
(* rows from its own column value up to the next row's.  Tables::list_range*)
(* maps an owner to its run, Tables::owner_of_list maps a member back by   *)
(* bisection, with a linear scan behind it for columns that do not ascend. *)
(*                                                                         *)
(* Runs are in logical RIDs: when the target has a *Ptr table the run      *)
(* limit is the row count of that table (Tables::logical_row_count).       *)
(* One step is one loop iteration; 0 stands for None in `result'.          *)
(***************************************************************************)
EXTENDS Integers, Sequences

CONSTANTS
  ListColumns,   \* the list columns an owner table may have: raw values by RID
  RowCounts,     \* the row counts a target and its *Ptr table may have
  Members,       \* the member RIDs callers ask about
  MaxU32         \* the largest value of the RIDs' integer type

ASSUME ListAssumption ==
  /\ MaxU32 \in Nat
  /\ ListColumns \subseteq Seq(0..MaxU32)
  /\ \A c \in ListColumns : Len(c) < MaxU32
  /\ RowCounts \subseteq 0..(MaxU32 - 1)
  /\ Members \subseteq 0..MaxU32

VARIABLES
  column,        \* raw_column(owner_table, rid, column) for each rid
  targetRows,    \* row_count(target)
  ptrRows,       \* row_count of the target's *Ptr table, 0 without one
  pc,            \* the loop being executed
  member,        \* the argument of owner_of_list
  lo, hi,        \* the bounds of the bisection
  candidate,     \* the last probed owner whose run starts at or before member
  rid,           \* the owner the scan is at
  result,        \* the owner returned, 0 for None
  range          \* what list_range last returned, << >> for an error

image == <<column, targetRows, ptrRows>>
bisection == <<member, lo, hi, candidate>>
vars == <<image, bisection, pc, rid, result, range>>

count == Len(column)

logical_row_count == IF ptrRows > 0 THEN ptrRows ELSE targetRows

limit == logical_row_count + 1

Clamp(x, low, high) == IF x < low THEN low ELSE IF x > high THEN high ELSE x

Start(o) == Clamp(column[o], 1, limit)

(* Mutant: the raw column value is not clamped to the target table.        *)
RunEndUnclamped(o) ==
  LET end == IF o = count THEN limit ELSE column[o + 1]
  IN  IF end < Start(o) THEN Start(o) ELSE end

RunEnd(o) ==
  LET end == IF o = count THEN limit ELSE Clamp(column[o + 1], 1, limit)
  IN  IF end < Start(o) THEN Start(o) ELSE end

(* The members of the half-open range list_range returns.                  *)
Run(o) == {m \in 1..limit : Start(o) <= m /\ m < RunEnd(o)}

Init ==
  /\ column \in ListColumns
  /\ targetRows \in RowCounts
  /\ ptrRows \in RowCounts
  /\ pc = "idle"
  /\ member \in Members
  /\ lo = 1
  /\ hi = 0
  /\ candidate = 0
  /\ rid = 1
  /\ result = 0
  /\ range = << >>

Idle == pc \in {"idle", "returned"}

list_range(o) ==
  /\ Idle
  /\ range' = IF o = 0 \/ o > count THEN << >> ELSE <<Start(o), RunEnd(o)>>
  /\ UNCHANGED <<image, bisection, pc, rid, result>>

owner_of_list(m) ==
  /\ Idle
  /\ member' = m
  /\ result' = 0
  /\ candidate' = 0
  /\ lo' = 1
  /\ hi' = count
  /\ pc' = IF count = 0 \/ m = 0 THEN "returned" ELSE "bisect"
  /\ range' = << >>
  /\ UNCHANGED <<image, rid>>

mid == lo + (hi - lo) \div 2

(* Mutant: a probe at the member's own start is taken to be past it.       *)
ProbeStrict ==
  /\ pc = "bisect"
  /\ lo <= hi
  /\ \/ /\ column[mid] < member
        /\ candidate' = mid
        /\ lo' = mid + 1
        /\ UNCHANGED <<hi, pc>>
     \/ /\ column[mid] >= member
        /\ mid # 1
        /\ hi' = mid - 1
        /\ UNCHANGED <<lo, candidate, pc>>
     \/ /\ column[mid] >= member
        /\ mid = 1
        /\ pc' = "check"
        /\ UNCHANGED <<lo, hi, candidate>>
  /\ UNCHANGED <<image, member, rid, result, range>>

(* Mutant: the lower bound is left on the probed owner.                    *)
ProbeNoProgress ==
  /\ pc = "bisect"
  /\ lo <= hi
  /\ \/ /\ column[mid] <= member
        /\ candidate' = mid
        /\ lo' = mid
        /\ UNCHANGED <<hi, pc>>
     \/ /\ column[mid] > member
        /\ mid # 1
        /\ hi' = mid - 1
        /\ UNCHANGED <<lo, candidate, pc>>
     \/ /\ column[mid] > member
        /\ mid = 1
        /\ pc' = "check"
        /\ UNCHANGED <<lo, hi, candidate>>
  /\ UNCHANGED <<image, member, rid, result, range>>

Probe ==
  /\ pc = "bisect"
  /\ lo <= hi
  /\ \/ /\ column[mid] <= member
        /\ candidate' = mid
        /\ lo' = mid + 1
        /\ UNCHANGED <<hi, pc>>
     \/ /\ column[mid] > member
        /\ mid # 1
        /\ hi' = mid - 1
        /\ UNCHANGED <<lo, candidate, pc>>
     \/ /\ column[mid] > member       \* break: hi must not go below the table
        /\ mid = 1
        /\ pc' = "check"
        /\ UNCHANGED <<lo, hi, candidate>>
  /\ UNCHANGED <<image, member, rid, result, range>>

BisectDone ==
  /\ pc = "bisect"
  /\ lo > hi
  /\ pc' = "check"
  /\ UNCHANGED <<image, bisection, rid, result, range>>

(* Mutant: the candidate is returned without looking at its run.           *)
CheckTrusting ==
  /\ pc = "check"
  /\ \/ /\ candidate # 0
        /\ result' = candidate
        /\ pc' = "returned"
        /\ UNCHANGED rid
     \/ /\ candidate = 0
        /\ rid' = 1
        /\ pc' = "scan"
        /\ UNCHANGED result
  /\ UNCHANGED <<image, bisection, range>>

(* Mutant: a candidate that misses is the end of the search.               *)
CheckNoFallback ==
  /\ pc = "check"
  /\ pc' = "returned"
  /\ result' = IF candidate # 0 /\ member \in Run(candidate) THEN candidate ELSE 0
  /\ UNCHANGED <<image, bisection, rid, range>>

CheckCandidate ==
  /\ pc = "check"
  /\ \/ /\ candidate # 0 /\ member \in Run(candidate)
        /\ result' = candidate
        /\ pc' = "returned"
        /\ UNCHANGED rid
     \/ /\ ~(candidate # 0 /\ member \in Run(candidate))
        /\ rid' = 1
        /\ pc' = "scan"
        /\ UNCHANGED result
  /\ UNCHANGED <<image, bisection, range>>

ScanOwner ==
  /\ pc = "scan"
  /\ rid <= count
  /\ \/ /\ member \in Run(rid)
        /\ result' = rid
        /\ pc' = "returned"
        /\ UNCHANGED rid
     \/ /\ member \notin Run(rid)
        /\ rid' = rid + 1
        /\ UNCHANGED <<result, pc>>
  /\ UNCHANGED <<image, bisection, range>>

ScanDone ==
  /\ pc = "scan"
  /\ rid > count
  /\ pc' = "returned"
  /\ UNCHANGED <<image, bisection, rid, result, range>>

Step == Probe \/ BisectDone \/ CheckCandidate \/ ScanOwner \/ ScanDone

Next ==
  \/ Step
  \/ \E m \in Members : owner_of_list(m)
  \/ \E o \in 0..(count + 1) : list_range(o)

Spec == Init /\ [][Next]_vars

-------------------------------------------------------------------------------
(* Properties                                                              *)

Ascending == \A i, j \in 1..count : i <= j => column[i] <= column[j]

(* The locals keep their types; hi may be 0 only before a bisection or on  *)
(* an empty owner table, so hi - 1 and hi - lo never leave u32.            *)
TypeOK ==
  /\ column \in ListColumns
  /\ targetRows \in RowCounts
  /\ ptrRows \in RowCounts
  /\ pc \in {"idle", "bisect", "check", "scan", "returned"}
  /\ member \in Members
  /\ lo \in 1..MaxU32
  /\ hi \in 0..MaxU32
  /\ candidate \in 0..count
  /\ rid \in 1..MaxU32
  /\ result \in 0..count
  /\ range \in Seq(1..MaxU32)

(* The bisection narrows inside the owner table: the two bounds cross by   *)
(* at most one, so no subtraction of the loop goes below zero, and every   *)
(* probe is a row of the table, whatever the column holds.                 *)
BisectionInTable ==
  pc = "bisect" => /\ lo <= hi + 1
                   /\ hi <= count
                   /\ lo <= hi => mid \in 1..count

(* An owner that owner_of_list returns does own the member: list_range of  *)
(* it contains the member, on ascending and on shuffled columns alike.     *)
OwnerOwns ==
  pc = "returned" /\ result # 0 => member \in Run(result)

(* None is only returned for a member that no owner's run contains.        *)
NoneMeansOrphan ==
  pc = "returned" /\ result = 0 => \A o \in 1..count : member \notin Run(o)

(* owner_of_list is exact on every column.                                 *)
OwnerExact == OwnerOwns /\ NoneMeansOrphan

(* On an ascending column the two directions are inverse: the owner found  *)
(* is the only one, and the linear scan only ever runs for orphans.        *)
BisectionSuffices ==
  Ascending =>
    /\ pc = "scan" => \A o \in 1..count : member \notin Run(o)
    /\ pc = "returned" => \A o \in 1..count : member \in Run(o) => o = result

(* Every RID of a range list_range returned is a logical row of the        *)
(* target, and the range is never inverted, however the column is shuffled.*)
RangeIsLogical ==
  range # << >> => /\ 1 <= range[1]
                   /\ range[1] <= range[2]
                   /\ range[2] <= logical_row_count + 1

(* owner_of_list returns, on every column.                                 *)
OwnerTerminates == (pc = "bisect") ~> (pc = "returned")
===============================================================================
