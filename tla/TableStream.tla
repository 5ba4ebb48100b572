----------------------------- MODULE TableStream ------------------------------
(***************************************************************************)
(* Tables::parse over the bytes of a #~ or #- stream: the header, one row  *)
(* count per bit of Valid, the geometry of every table computed from those *)
(* counts and the heap size bits, the clamp of a table that does not fit,  *)
(* and the read of every sort key.  Everything a later row access relies   *)
(* on - that row_bytes and read_uint_at find their bytes - is decided here,*)
(* once, from numbers the image states about itself.                       *)
(*                                                                         *)
(* One step is one iteration of the loop being executed.  Bytes are        *)
(* counted, not stored: of the content only the numbers that steer the     *)
(* parse are kept.                                                         *)
(***************************************************************************)
EXTENDS Naturals, Sequences

CONSTANTS
  SlotCount,    \* the width of the Valid bitvector
  Known,        \* the slots that TableId::from_u8 recognises
  Schema,       \* columns_of: the column kinds of every known table
  PtrSource,    \* ptr_source: the *Ptr table of a table, or NoTable
  NoTable,      \* not a table
  Keyed,        \* the tables sort_key_column names a column of
  NarrowRows,   \* the row count from which an index no longer fits two bytes
  Heaps,        \* the heaps whose index width HeapSizes selects
  Counts,       \* the row counts a stream may declare
  Lengths       \* the stream lengths, in bytes

Slots == 0..(SlotCount - 1)

HeaderBytes == 24
CountBytes == 4
MaxColumns == 9

ColumnKinds ==
  [kind : {"fixed"}, width : {2, 4}] \cup
  [kind : {"heap"}, heap : Heaps] \cup
  [kind : {"rid"}, to : Known] \cup
  [kind : {"coded"}, to : SUBSET Known, tags : Nat \ {0}]

ASSUME StreamAssumption ==
  /\ SlotCount \in Nat
  /\ Known \subseteq Slots
  /\ DOMAIN Schema = Known
  /\ \A t \in Known : /\ Schema[t] \in Seq(ColumnKinds)
                      /\ Len(Schema[t]) \in 1..MaxColumns
  /\ NoTable \notin Known
  /\ PtrSource \in [Known -> Known \cup {NoTable}]
  /\ Keyed \subseteq Known
  /\ NarrowRows \in Nat
  /\ Counts \subseteq Nat
  /\ Lengths \subseteq Nat

VARIABLES
  len,          \* data.len()
  strict,       \* the Strictness asked for
  heap_sizes,   \* the HeapSizes byte: wide heaps, unknown bits, extra data
  valid,        \* the Valid bitvector
  stated,       \* the row count the stream states for each slot of Valid
  pc,           \* the loop being executed, "done" or "rejected"
  error,        \* the error of a rejected parse
  slot,         \* the table slot a loop is at
  cursor,       \* the reader's position, then the data offset of the next table
  row_counts,   \* the local array of the same name
  column,       \* the column of the current table the inner loop is at
  offset,       \* its offset within the row
  layout,       \* the layouts computed so far
  exhausted,    \* whether a table was already clamped
  diagnostics,  \* the codes pushed, with the slot they are about
  verified      \* verified_sorted

input == <<len, strict, heap_sizes, valid, stated>>
vars == <<input, pc, error, slot, cursor, row_counts, column, offset, layout,
          exhausted, diagnostics, verified>>

EmptyLayout == [row_count |-> 0, row_size |-> 0, data_offset |-> 0,
                offsets |-> << >>, widths |-> << >>]

Init ==
  /\ len \in Lengths
  /\ strict \in BOOLEAN
  /\ heap_sizes \in [wide : SUBSET Heaps, unknown : BOOLEAN, extra : BOOLEAN]
  /\ valid \in SUBSET Slots
  /\ stated \in [valid -> Counts]
  /\ pc = "header"
  /\ error = "none"
  /\ slot = 0
  /\ cursor = 0
  /\ row_counts = [t \in Slots |-> 0]
  /\ column = 1
  /\ offset = 0
  /\ layout = [t \in Known |-> EmptyLayout]
  /\ exhausted = FALSE
  /\ diagnostics = {}
  /\ verified = {}

Reject(why) == pc' = "rejected" /\ error' = why

Record(code, about) == diagnostics' = diagnostics \cup {<<code, about>>}

-------------------------------------------------------------------------------
(* The header and the row counts                                           *)

ReadHeader ==
  /\ pc = "header"
  /\ \/ /\ len < HeaderBytes
        /\ Reject("Truncated")
        /\ UNCHANGED <<cursor, diagnostics>>
     \/ /\ len >= HeaderBytes
        /\ cursor' = HeaderBytes
        /\ \/ /\ heap_sizes.unknown /\ strict
              /\ Reject("Malformed")
              /\ UNCHANGED diagnostics
           \/ /\ heap_sizes.unknown /\ ~strict
              /\ Record("UnknownHeapSizeBits", NoTable)
              /\ pc' = "counts"
              /\ UNCHANGED error
           \/ /\ ~heap_sizes.unknown
              /\ pc' = "counts"
              /\ UNCHANGED <<error, diagnostics>>
  /\ UNCHANGED <<input, slot, row_counts, column, offset, layout, exhausted, verified>>

SkipAbsent ==
  /\ pc = "counts"
  /\ slot < SlotCount
  /\ slot \notin valid
  /\ slot' = slot + 1
  /\ UNCHANGED <<input, pc, error, cursor, row_counts, column, offset, layout,
                 exhausted, diagnostics, verified>>

ReadCount ==
  /\ pc = "counts"
  /\ slot \in valid
  /\ \/ /\ cursor + CountBytes > len
        /\ Reject("Truncated")
        /\ UNCHANGED <<cursor, slot, row_counts, diagnostics>>
     \/ /\ cursor + CountBytes <= len
        /\ cursor' = cursor + CountBytes
        /\ \/ /\ slot \in Known
              /\ row_counts' = [row_counts EXCEPT ![slot] = stated[slot]]
              /\ slot' = slot + 1
              /\ UNCHANGED <<pc, error, diagnostics>>
           \/ /\ slot \notin Known
              /\ stated[slot] # 0 \/ strict
              /\ Reject("Unsupported")
              /\ UNCHANGED <<slot, row_counts, diagnostics>>
           \/ /\ slot \notin Known
              /\ stated[slot] = 0 /\ ~strict
              /\ Record("ReservedTablePresent", slot)
              /\ slot' = slot + 1
              /\ UNCHANGED <<pc, error, row_counts>>
  /\ UNCHANGED <<input, column, offset, layout, exhausted, verified>>

ReadExtraData ==
  /\ pc = "counts"
  /\ slot = SlotCount
  /\ \/ /\ heap_sizes.extra /\ cursor + CountBytes > len
        /\ Reject("Truncated")
        /\ UNCHANGED <<cursor, slot>>
     \/ /\ heap_sizes.extra /\ cursor + CountBytes <= len
        /\ cursor' = cursor + CountBytes
        /\ slot' = 0 /\ pc' = "layout"
        /\ UNCHANGED error
     \/ /\ ~heap_sizes.extra
        /\ slot' = 0 /\ pc' = "layout"
        /\ UNCHANGED <<cursor, error>>
  /\ UNCHANGED <<input, row_counts, column, offset, layout, exhausted, diagnostics, verified>>

-------------------------------------------------------------------------------
(* The geometry of every table                                             *)

(* A 2-byte simple index must reach every row of its target and of the     *)
(* target's *Ptr table.                                                    *)
RidIsNarrow(t) ==
  /\ row_counts[t] < NarrowRows
  /\ PtrSource[t] # NoTable => row_counts[PtrSource[t]] < NarrowRows

small_row_limit(kind) == NarrowRows \div kind.tags

CodedIsNarrow(kind) == \A t \in kind.to : row_counts[t] < small_row_limit(kind)

(* Mutant: a list column's width ignores the *Ptr table it addresses.      *)
column_width_no_ptr(kind) ==
  CASE kind.kind = "fixed" -> kind.width
    [] kind.kind = "heap" -> IF kind.heap \in heap_sizes.wide THEN 4 ELSE 2
    [] kind.kind = "rid" -> IF row_counts[kind.to] < NarrowRows THEN 2 ELSE 4
    [] kind.kind = "coded" -> IF CodedIsNarrow(kind) THEN 2 ELSE 4

column_width(kind) ==
  CASE kind.kind = "fixed" -> kind.width
    [] kind.kind = "heap" -> IF kind.heap \in heap_sizes.wide THEN 4 ELSE 2
    [] kind.kind = "rid" -> IF RidIsNarrow(kind.to) THEN 2 ELSE 4
    [] kind.kind = "coded" -> IF CodedIsNarrow(kind) THEN 2 ELSE 4

(* The layout loop runs over TableId::ALL, which has no reserved slots.    *)
SkipReserved ==
  /\ pc = "layout"
  /\ slot \in Slots \ Known
  /\ slot' = slot + 1
  /\ UNCHANGED <<input, pc, error, cursor, row_counts, column, offset, layout,
                 exhausted, diagnostics, verified>>

(* Mutant: the offset is advanced before the column is placed.             *)
LayoutColumnShifted ==
  /\ pc = "layout"
  /\ slot \in Known
  /\ column <= Len(Schema[slot])
  /\ LET width == column_width(Schema[slot][column])
     IN  /\ layout' = [layout EXCEPT ![slot].offsets = Append(@, offset + width),
                                     ![slot].widths = Append(@, width)]
         /\ offset' = offset + width
  /\ column' = column + 1
  /\ UNCHANGED <<input, pc, error, slot, cursor, row_counts, exhausted,
                 diagnostics, verified>>

LayoutColumn ==
  /\ pc = "layout"
  /\ slot \in Known
  /\ column <= Len(Schema[slot])
  /\ LET width == column_width(Schema[slot][column])
     IN  /\ layout' = [layout EXCEPT ![slot].offsets = Append(@, offset),
                                     ![slot].widths = Append(@, width)]
         /\ offset' = offset + width
  /\ column' = column + 1
  /\ UNCHANGED <<input, pc, error, slot, cursor, row_counts, exhausted,
                 diagnostics, verified>>

available == IF cursor <= len THEN len - cursor ELSE 0

(* A table with rows is clamped if it does not fit, or follows one that    *)
(* did not.                                                                *)
DoesNotFit ==
  /\ row_counts[slot] > 0
  /\ exhausted \/ row_counts[slot] * offset > available

(* Mutant: the last row may be cut off.                                    *)
ClampedCountRoundingUp == (available + offset - 1) \div offset

(* The whole rows that still fit.                                          *)
ClampedCount == available \div offset

(* Mutant: the cursor advances by rows instead of bytes.                   *)
PlaceByRows(count) ==
  /\ layout' = [layout EXCEPT ![slot].row_count = count,
                              ![slot].row_size = offset,
                              ![slot].data_offset = cursor]
  /\ cursor' = cursor + count
  /\ slot' = slot + 1
  /\ column' = 1
  /\ offset' = 0

(* The layout is stored and the cursor moves past the table.               *)
Place(count) ==
  /\ layout' = [layout EXCEPT ![slot].row_count = count,
                              ![slot].row_size = offset,
                              ![slot].data_offset = cursor]
  /\ cursor' = cursor + count * offset
  /\ slot' = slot + 1
  /\ column' = 1
  /\ offset' = 0

(* Mutant: the clamp forgets to say so.                                    *)
PlaceTableSilently ==
  /\ pc = "layout"
  /\ slot \in Known
  /\ column = Len(Schema[slot]) + 1
  /\ \/ /\ ~DoesNotFit
        /\ Place(row_counts[slot])
        /\ UNCHANGED <<pc, error, exhausted, diagnostics>>
     \/ /\ DoesNotFit /\ strict
        /\ Reject("Truncated")
        /\ UNCHANGED <<layout, cursor, slot, column, offset, exhausted, diagnostics>>
     \/ /\ DoesNotFit /\ ~strict
        /\ Place(ClampedCount)
        /\ exhausted' = TRUE
        /\ UNCHANGED <<pc, error, diagnostics>>
  /\ UNCHANGED <<input, row_counts, verified>>

PlaceTable ==
  /\ pc = "layout"
  /\ slot \in Known
  /\ column = Len(Schema[slot]) + 1
  /\ \/ /\ ~DoesNotFit
        /\ Place(row_counts[slot])
        /\ UNCHANGED <<pc, error, exhausted, diagnostics>>
     \/ /\ DoesNotFit /\ strict
        /\ Reject("Truncated")
        /\ UNCHANGED <<layout, cursor, slot, column, offset, exhausted, diagnostics>>
     \/ /\ DoesNotFit /\ ~strict
        /\ Record("StreamRangeClamped", slot)
        /\ Place(ClampedCount)
        /\ exhausted' = TRUE
        /\ UNCHANGED <<pc, error>>
  /\ UNCHANGED <<input, row_counts, verified>>

LayoutDone ==
  /\ pc = "layout"
  /\ slot = SlotCount
  /\ slot' = 0
  /\ pc' = "verify"
  /\ UNCHANGED <<input, error, cursor, row_counts, column, offset, layout,
                 exhausted, diagnostics, verified>>

-------------------------------------------------------------------------------
(* verify_sortedness: which rows it reads, and what it may conclude.  The  *)
(* comparison of the keys it reads is SortedLookup's subject.              *)

TableEnd(t) == layout[t].data_offset + layout[t].row_count * layout[t].row_size

SkipUnkeyed ==
  /\ pc = "verify"
  /\ slot \in Slots \ Keyed
  /\ slot' = slot + 1
  /\ UNCHANGED <<input, pc, error, cursor, row_counts, column, offset, layout,
                 exhausted, diagnostics, verified>>

VerifyTable ==
  /\ pc = "verify"
  /\ slot \in Keyed
  /\ \/ /\ layout[slot].row_count <= 1 \/ TableEnd(slot) <= len
        /\ verified' = verified \cup {slot}
        /\ slot' = slot + 1
        /\ UNCHANGED <<pc, error, diagnostics>>
     \/ /\ layout[slot].row_count > 1 /\ TableEnd(slot) <= len
        /\ Record("TableNotSorted", slot)
        /\ slot' = slot + 1
        /\ UNCHANGED <<pc, error, verified>>
     \/ /\ layout[slot].row_count > 1 /\ TableEnd(slot) <= len
        /\ strict
        /\ Reject("Malformed")
        /\ UNCHANGED <<slot, diagnostics, verified>>
     \/ /\ layout[slot].row_count > 1 /\ TableEnd(slot) > len
        /\ Reject("row_bytes")
        /\ UNCHANGED <<slot, diagnostics, verified>>
  /\ UNCHANGED <<input, cursor, row_counts, column, offset, layout, exhausted>>

VerifyDone ==
  /\ pc = "verify"
  /\ slot = SlotCount
  /\ pc' = "done"
  /\ UNCHANGED <<input, error, slot, cursor, row_counts, column, offset, layout,
                 exhausted, diagnostics, verified>>

-------------------------------------------------------------------------------

Next ==
  \/ ReadHeader \/ SkipAbsent \/ ReadCount \/ ReadExtraData
  \/ SkipReserved \/ LayoutColumn \/ PlaceTable \/ LayoutDone
  \/ SkipUnkeyed \/ VerifyTable \/ VerifyDone

Spec == Init /\ [][Next]_vars

-------------------------------------------------------------------------------
(* Properties                                                              *)

Diagnosed(code) == \E d \in diagnostics : d[1] = code

Layouts == [row_count : Nat, row_size : Nat, data_offset : Nat,
            offsets : Seq(Nat), widths : Seq({2, 4})]

(* Every local of the parse keeps its type.                                *)
TypeOK ==
  /\ len \in Lengths
  /\ strict \in BOOLEAN
  /\ heap_sizes \in [wide : SUBSET Heaps, unknown : BOOLEAN, extra : BOOLEAN]
  /\ valid \subseteq Slots
  /\ stated \in [valid -> Counts]
  /\ pc \in {"header", "counts", "layout", "verify", "done", "rejected"}
  /\ error \in {"none", "Truncated", "Malformed", "Unsupported", "row_bytes"}
  /\ slot \in 0..SlotCount
  /\ cursor \in Nat
  /\ row_counts \in [Slots -> Counts \cup {0}]
  /\ column \in 1..(MaxColumns + 1)
  /\ offset \in Nat
  /\ layout \in [Known -> Layouts]
  /\ exhausted \in BOOLEAN
  /\ verified \subseteq Keyed

(* Every row the layouts promise lies inside the stream, clamped or not,   *)
(* so row_bytes never fails on a RID up to row_count, and the sortedness   *)
(* check of the same parse never meets a missing row.                      *)
RowsInStream ==
  /\ \A t \in Known : layout[t].row_count > 0 => TableEnd(t) <= len
  /\ error # "row_bytes"

(* Tables do not share bytes: each starts where the previous one ends,     *)
(* also after one of them was clamped.                                     *)
TablesDisjoint ==
  \A t, u \in Known :
    t < u /\ layout[t].row_count > 0 /\ layout[u].row_count > 0
      => TableEnd(t) <= layout[u].data_offset

(* The columns tile the row in schema order, so read_uint_at finds every   *)
(* column inside the bytes of the row, and offsets fit the byte they are   *)
(* stored in.                                                              *)
ColumnsTile ==
  pc \in {"verify", "done"} =>
    \A t \in Known : LET l == layout[t] IN
      /\ Len(l.offsets) = Len(Schema[t]) /\ Len(l.widths) = Len(Schema[t])
      /\ l.row_size <= 255
      /\ l.offsets[1] = 0
      /\ \A i \in 1..Len(Schema[t]) :
           l.offsets[i] + l.widths[i] =
             IF i = Len(Schema[t]) THEN l.row_size ELSE l.offsets[i + 1]

(* Unless a diagnostic says a table was clamped, a narrow simple index     *)
(* column can name every row of its target, by logical RID when the target *)
(* has a *Ptr table.                                                       *)
NarrowIndexReaches ==
  pc = "done" /\ ~Diagnosed("StreamRangeClamped") =>
    \A t \in Known : \A i \in 1..Len(Schema[t]) :
      LET kind == Schema[t][i] IN
        kind.kind = "rid" /\ layout[t].widths[i] = 2 =>
          /\ layout[kind.to].row_count < NarrowRows
          /\ PtrSource[kind.to] # NoTable =>
               layout[PtrSource[kind.to]].row_count < NarrowRows

(* A finished parse without a clamp diagnostic gives every table exactly   *)
(* the rows the stream stated, and a strict parse never clamps: what it    *)
(* accepts, the permissive parse reads the same way.                       *)
StatedUnlessDiagnosed ==
  pc = "done" =>
    /\ strict => ~Diagnosed("StreamRangeClamped")
    /\ ~Diagnosed("StreamRangeClamped") =>
         \A t \in Known : layout[t].row_count =
                            (IF t \in valid THEN stated[t] ELSE 0)

(* "The number of rows, after any clamping applied while parsing": a table *)
(* never has more rows than the stream states for it.                      *)
ClampNeverAddsRows ==
  \A t \in Known : layout[t].row_count > 0 => t \in valid /\ layout[t].row_count <= stated[t]
===============================================================================
