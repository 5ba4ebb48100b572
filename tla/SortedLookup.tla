----------------------------- MODULE SortedLookup -----------------------------
(***************************************************************************)
(* Keyed lookup in one metadata table: Tables::verify_sortedness runs once *)
(* over the table's sort-key column when the stream is parsed, and leaves  *)
(* a bit behind; every later Tables::rows_with_key trusts that bit to      *)
(* choose between a binary search and a linear scan.                       *)
(*                                                                         *)
(* One step of the model is one iteration of a loop of the code.  A raw    *)
(* column read outside 1..row_count would be an error of the model; that   *)
(* the bytes of every row exist is TableStream's subject.                  *)
(***************************************************************************)
EXTENDS Naturals, Sequences

CONSTANTS
  Columns,    \* the sort-key columns a table may have: raw values by RID
  Keys,       \* the raw keys callers look up
  MaxU32      \* the largest value of the RIDs' integer type

(* TableStream bounds the row count by the size of the stream, so the      *)
(* one-past-the-end RID still fits the integer type.                       *)
ASSUME ColumnsAssumption ==
  /\ MaxU32 \in Nat
  /\ Keys \subseteq Nat
  /\ Columns \subseteq Seq(Nat)
  /\ \A c \in Columns : Len(c) < MaxU32

VARIABLES
  column,     \* raw_column(table, rid, sort_key_column(table)) for each rid
  strict,     \* the Strictness the stream was parsed with
  declared,   \* the table's bit in the header's Sorted mask
  pc,         \* the loop being executed
  sorted,     \* the table's bit in verified_sorted: what is_sorted returns
  diagnosed,  \* whether TableNotSorted was pushed
  previous,   \* the local variable of verify_sortedness
  key,        \* the argument of rows_with_key
  lo, hi,     \* the bounds of the binary search
  rid,        \* the row a loop is at
  out         \* the RIDs collected, the result once pc = "answered"

opened == <<column, strict, declared>>
verdict == <<sorted, diagnosed, previous>>
search == <<key, lo, hi, out>>
vars == <<opened, verdict, search, pc, rid>>

count == Len(column)

Init ==
  /\ column \in Columns
  /\ strict \in BOOLEAN
  /\ declared \in BOOLEAN
  /\ pc = "verify"
  /\ sorted = FALSE
  /\ diagnosed = FALSE
  /\ previous = 0
  /\ key \in Keys
  /\ lo = 1
  /\ hi = 1
  /\ rid = 1
  /\ out = << >>

-------------------------------------------------------------------------------
(* Tables::verify_sortedness, for one table                                *)

VerifyTrivial ==
  /\ pc = "verify"
  /\ rid = 1
  /\ count <= 1
  /\ sorted' = TRUE
  /\ pc' = "ready"
  /\ UNCHANGED <<opened, search, diagnosed, previous, rid>>

VerifyFirst ==
  /\ pc = "verify"
  /\ rid = 1
  /\ count > 1
  /\ previous' = column[1]
  /\ rid' = 2
  /\ UNCHANGED <<opened, search, pc, sorted, diagnosed>>

(* Mutant: compares every row with the first one only.                     *)
VerifyNextStalePrevious ==
  /\ pc = "verify"
  /\ rid \in 2..count
  /\ column[rid] >= previous
  /\ rid' = rid + 1
  /\ UNCHANGED <<opened, verdict, search, pc>>

VerifyNext ==
  /\ pc = "verify"
  /\ rid \in 2..count
  /\ column[rid] >= previous
  /\ previous' = column[rid]
  /\ rid' = rid + 1
  /\ UNCHANGED <<opened, search, pc, sorted, diagnosed>>

VerifySorted ==
  /\ pc = "verify"
  /\ rid > 1
  /\ rid = count + 1
  /\ sorted' = TRUE
  /\ pc' = "ready"
  /\ UNCHANGED <<opened, search, diagnosed, previous, rid>>

(* Mutant: strict parsing forgives a table that declared itself sorted.    *)
VerifyUnsortedForgiven ==
  /\ pc = "verify"
  /\ rid \in 2..count
  /\ column[rid] < previous
  /\ diagnosed' = TRUE
  /\ pc' = "ready"
  /\ UNCHANGED <<opened, search, sorted, previous, rid>>

VerifyUnsorted ==
  /\ pc = "verify"
  /\ rid \in 2..count
  /\ column[rid] < previous
  /\ \/ /\ strict /\ declared
        /\ pc' = "rejected"
        /\ UNCHANGED diagnosed
     \/ /\ ~(strict /\ declared)
        /\ pc' = "ready"
        /\ diagnosed' = TRUE
  /\ UNCHANGED <<opened, search, sorted, previous, rid>>

-------------------------------------------------------------------------------
(* Tables::rows_with_key                                                   *)

(* The mask bit chooses the loop; an empty table is answered at once.      *)
RowsWithKey(k) ==
  /\ pc \in {"ready", "answered"}
  /\ key' = k
  /\ out' = << >>
  /\ \/ /\ count = 0
        /\ pc' = "answered"
        /\ UNCHANGED <<lo, hi, rid>>
     \/ /\ count > 0 /\ sorted
        /\ lo' = 1
        /\ hi' = count + 1
        /\ pc' = "search"
        /\ UNCHANGED rid
     \/ /\ count > 0 /\ ~sorted
        /\ rid' = 1
        /\ pc' = "scan"
        /\ UNCHANGED <<lo, hi>>
  /\ UNCHANGED <<opened, verdict>>

mid == lo + (hi - lo) \div 2

(* Mutant: keeps the probed row in the upper half it is to be dropped from.*)
SearchNarrowNoProgress ==
  /\ pc = "search"
  /\ lo < hi
  /\ \/ column[mid] < key /\ lo' = mid /\ UNCHANGED hi
     \/ column[mid] >= key /\ hi' = mid /\ UNCHANGED lo
  /\ UNCHANGED <<opened, verdict, pc, key, rid, out>>

SearchNarrow ==
  /\ pc = "search"
  /\ lo < hi
  /\ \/ column[mid] < key /\ lo' = mid + 1 /\ UNCHANGED hi
     \/ column[mid] >= key /\ hi' = mid /\ UNCHANGED lo
  /\ UNCHANGED <<opened, verdict, pc, key, rid, out>>

SearchDone ==
  /\ pc = "search"
  /\ ~(lo < hi)
  /\ rid' = lo
  /\ pc' = "collect"
  /\ UNCHANGED <<opened, verdict, search>>

(* Mutant: takes the first row of the run and stops.                       *)
CollectOnlyFirst ==
  /\ pc = "collect"
  /\ rid <= count
  /\ column[rid] = key
  /\ out' = Append(out, rid)
  /\ rid' = rid + 1
  /\ pc' = "answered"
  /\ UNCHANGED <<opened, verdict, key, lo, hi>>

Collect ==
  /\ pc = "collect"
  /\ rid <= count
  /\ column[rid] = key
  /\ out' = Append(out, rid)
  /\ rid' = rid + 1
  /\ UNCHANGED <<opened, verdict, pc, key, lo, hi>>

CollectDone ==
  /\ pc = "collect"
  /\ rid <= count => column[rid] # key
  /\ pc' = "answered"
  /\ UNCHANGED <<opened, verdict, search, rid>>

ScanRow ==
  /\ pc = "scan"
  /\ rid <= count
  /\ out' = IF column[rid] = key THEN Append(out, rid) ELSE out
  /\ rid' = rid + 1
  /\ UNCHANGED <<opened, verdict, pc, key, lo, hi>>

ScanDone ==
  /\ pc = "scan"
  /\ rid > count
  /\ pc' = "answered"
  /\ UNCHANGED <<opened, verdict, search, rid>>

-------------------------------------------------------------------------------
(* One iteration of the loop being executed.                               *)
Step ==
  \/ VerifyTrivial \/ VerifyFirst \/ VerifyNext \/ VerifySorted \/ VerifyUnsorted
  \/ SearchNarrow \/ SearchDone \/ Collect \/ CollectDone
  \/ ScanRow \/ ScanDone

Next == Step \/ \E k \in Keys : RowsWithKey(k)

Spec == Init /\ [][Next]_vars

-------------------------------------------------------------------------------
(* Properties                                                              *)

(* Every local keeps its type: RIDs and bounds fit u32, one past the end   *)
(* included, and out holds RIDs.                                           *)
TypeOK ==
  /\ column \in Columns
  /\ strict \in BOOLEAN
  /\ declared \in BOOLEAN
  /\ pc \in {"verify", "ready", "rejected", "search", "collect", "scan", "answered"}
  /\ sorted \in BOOLEAN
  /\ diagnosed \in BOOLEAN
  /\ previous \in Nat
  /\ key \in Keys
  /\ lo \in 1..MaxU32
  /\ hi \in 1..MaxU32
  /\ rid \in 1..MaxU32
  /\ out \in Seq(1..MaxU32)

Rows == 1..count

Ordered(n) == \A i, j \in 1..n : i <= j => column[i] <= column[j]

(* The bit verify_sortedness leaves is exact: it is set if and only if the *)
(* whole column is non-decreasing, though only neighbours were compared.   *)
SortedBitExact ==
  pc \notin {"verify", "rejected"} => (sorted <=> Ordered(count))

(* The binary search never probes a row outside the table, although its    *)
(* upper bound starts one past the end.                                    *)
ProbesInTable ==
  pc = "search" /\ lo < hi => mid \in Rows

(* rows_with_key returns the RIDs of every row holding the key, ascending  *)
(* and without repetition, sorted table or not ("falls back to a linear    *)
(* scan rather than returning a wrong answer").                            *)
Abstract == INSTANCE KeyIndex WITH
  phase <- CASE pc = "verify" -> "opening"
             [] pc = "rejected" -> "refused"
             [] pc = "ready" -> "idle"
             [] pc = "answered" -> "answered"
             [] OTHER -> "asked",
  answer <- IF pc = "answered" THEN out ELSE << >>

LookupComplete ==
  pc = "answered" => Abstract!Lists(out, column, count, key)

(* Verification and lookups together behave as the abstract index: every   *)
(* answer belongs to the last question asked, and the table never changes. *)
RefinesKeyIndex == Abstract!Spec

(* A strict parse refuses exactly the tables that declare themselves       *)
(* sorted and are not; otherwise disorder is reported, never silent.       *)
DisorderHandled ==
  pc # "verify" =>
    /\ pc = "rejected" <=> (strict /\ declared /\ ~Ordered(count))
    /\ diagnosed <=> (~Ordered(count) /\ pc # "rejected")

(* Every lookup returns, on every column.                                  *)
LookupTerminates == (pc \notin {"ready", "rejected", "answered"}) ~>
                    (pc \in {"ready", "rejected", "answered"})
===============================================================================
