--------------------------- MODULE TableStreamProofs --------------------------
(***************************************************************************)
(* TableStream for every schema, every header and every stream length: the *)
(* rows the layouts promise exist, tables and columns tile, and a parse    *)
(* that reports no clamp has exactly the rows the stream states.           *)
(***************************************************************************)
EXTENDS TableStream, TLAPS

(* The first n columns of t are placed: in order, without gaps, as wide as *)
(* the row counts demand, ending at end.                                   *)
ColumnsPlaced(t, n, end) ==
  /\ Len(layout[t].offsets) = n
  /\ Len(layout[t].widths) = n
  /\ n = 0 => end = 0
  /\ n > 0 => layout[t].offsets[1] = 0
  /\ 2 * n <= end
  /\ end <= 4 * n
  /\ \A i \in 1..n : layout[t].widths[i] = column_width(Schema[t][i])
  /\ \A i \in 1..n : i < n => layout[t].offsets[i] + layout[t].widths[i] = layout[t].offsets[i + 1]
  /\ n > 0 => layout[t].offsets[n] + layout[t].widths[n] = end

Complete(t) == ColumnsPlaced(t, Len(Schema[t]), layout[t].row_size)

(* How far the two nested loops of the layout have come.                   *)
LayoutInv ==
  /\ pc \in {"header", "counts"} => \A t \in Known : layout[t] = EmptyLayout
  /\ pc \in {"header", "counts"} => column = 1 /\ offset = 0 /\ ~exhausted
  /\ pc = "layout" =>
       /\ \A t \in Known : t < slot => Complete(t)
       /\ \A t \in Known : t > slot => layout[t] = EmptyLayout
       /\ slot \in Known => /\ layout[slot].row_count = 0
                            /\ column <= Len(Schema[slot]) + 1
                            /\ ColumnsPlaced(slot, column - 1, offset)
       /\ slot \notin Known => column = 1 /\ offset = 0
  /\ pc \in {"verify", "done"} => \A t \in Known : Complete(t)

(* Where the placed tables lie.                                            *)
PlaceInv ==
  /\ pc \in {"counts", "layout", "verify", "done"} => cursor <= len
  /\ pc \in {"header", "counts", "layout"} =>
       \A t \in Known : layout[t].row_count > 0 => TableEnd(t) <= cursor
  /\ RowsInStream
  /\ TablesDisjoint

Stated(t) == IF t \in valid THEN stated[t] ELSE 0

(* What the row counts and the clamp diagnostic say of each other.         *)
StatedInv ==
  /\ pc = "header" => slot = 0 /\ \A t \in Known : row_counts[t] = 0
  /\ pc \in {"header", "counts"} => ~Diagnosed("StreamRangeClamped")
  /\ pc = "counts" => \A t \in Known : row_counts[t] = IF t < slot THEN Stated(t) ELSE 0
  /\ pc \in {"layout", "verify", "done"} => \A t \in Known : row_counts[t] = Stated(t)
  /\ strict => ~Diagnosed("StreamRangeClamped")
  /\ exhausted => Diagnosed("StreamRangeClamped")
  /\ pc = "layout" /\ ~Diagnosed("StreamRangeClamped") =>
       \A t \in Known : t < slot => layout[t].row_count = row_counts[t]
  /\ pc \in {"verify", "done"} /\ ~Diagnosed("StreamRangeClamped") =>
       \A t \in Known : layout[t].row_count = row_counts[t]

Inv == TypeOK /\ LayoutInv /\ PlaceInv /\ StatedInv

-------------------------------------------------------------------------------
(* The data                                                                *)

(* The slots and the numbers the loops compare.                            *)
LEMMA Numbers ==
  ASSUME TypeOK
  PROVE  /\ len \in Nat /\ cursor \in Nat /\ offset \in Nat /\ column \in Nat
         /\ SlotCount \in Nat /\ slot \in Nat /\ slot <= SlotCount
         /\ \A t \in Known : t \in Nat /\ t < SlotCount /\ t \in Slots
         /\ \A t \in Known : Len(Schema[t]) \in Nat /\ Len(Schema[t]) >= 1
                             /\ Len(Schema[t]) <= MaxColumns
  <1>1. len \in Nat /\ cursor \in Nat /\ offset \in Nat
    BY StreamAssumption DEF TypeOK
  <1>2. column \in 1..(MaxColumns + 1) /\ slot \in 0..SlotCount
    BY DEF TypeOK
  <1>3. SlotCount \in Nat
    BY StreamAssumption
  <1>4. \A t \in Known : t \in Slots
    BY StreamAssumption
  <1>5. \A t \in Known : Len(Schema[t]) \in 1..MaxColumns
    BY StreamAssumption
  <1>6. MaxColumns = 9 /\ Slots = 0..(SlotCount - 1)
    BY DEF MaxColumns, Slots
  <1>7. column \in Nat /\ slot \in Nat /\ slot <= SlotCount
    BY <1>2, <1>3, <1>6
  <1>8. \A t \in Known : t \in Nat /\ t < SlotCount
    BY <1>3, <1>4, <1>6
  <1>9. \A t \in Known : /\ Len(Schema[t]) \in Nat
                         /\ Len(Schema[t]) >= 1 /\ Len(Schema[t]) <= MaxColumns
    <2>1. \A n \in 1..MaxColumns : n \in Nat /\ n >= 1 /\ n <= MaxColumns
      BY <1>6
    <2> QED BY <1>5, <2>1, Zenon
  <1> QED BY <1>1, <1>3, <1>4, <1>7, <1>8, <1>9

(* The row counts are numbers.                                             *)
LEMMA CountTypes ==
  ASSUME TypeOK
  PROVE  /\ \A t \in Slots : row_counts[t] \in Nat
         /\ \A t \in valid : stated[t] \in Counts /\ stated[t] \in Nat
  <1>1. row_counts \in [Slots -> Counts \cup {0}] /\ stated \in [valid -> Counts]
    BY DEF TypeOK
  <1>2. \A n \in Counts : n \in Nat
    BY StreamAssumption
  <1>3. \A t \in Slots : row_counts[t] \in Nat
    BY <1>1, <1>2
  <1>4. \A t \in valid : stated[t] \in Counts
    BY <1>1
  <1> QED BY <1>2, <1>3, <1>4

(* The fields of a layout.                                                 *)
LEMMA LayoutType ==
  ASSUME TypeOK, NEW t \in Known
  PROVE  /\ layout[t] \in Layouts
         /\ layout[t].row_count \in Nat
         /\ layout[t].row_size \in Nat
         /\ layout[t].data_offset \in Nat
         /\ layout[t].offsets \in Seq(Nat)
         /\ layout[t].widths \in Seq({2, 4})
  <1>1. layout[t] \in Layouts
    BY DEF TypeOK
  <1> QED BY <1>1 DEF Layouts

(* A column is two or four bytes wide.                                     *)
LEMMA WidthType ==
  ASSUME NEW t \in Known, NEW i \in 1..Len(Schema[t])
  PROVE  column_width(Schema[t][i]) \in {2, 4}
  <1> DEFINE k == Schema[t][i]
  <1>1. k \in ColumnKinds
    BY StreamAssumption
  <1>2. CASE k \in [kind : {"fixed"}, width : {2, 4}]
    BY <1>2 DEF column_width
  <1>3. CASE k \in [kind : {"heap"}, heap : Heaps]
    BY <1>3 DEF column_width
  <1>4. CASE k \in [kind : {"rid"}, to : Known]
    BY <1>4 DEF column_width
  <1>5. CASE k \in [kind : {"coded"}, to : SUBSET Known, tags : Nat \ {0}]
    BY <1>5 DEF column_width
  <1> QED BY <1>1, <1>2, <1>3, <1>4, <1>5 DEF ColumnKinds

(* Whole rows that fit take no more than the bytes there are.              *)
LEMMA WholeRowsFit ==
  ASSUME NEW a \in Nat, NEW b \in Nat, b > 0
  PROVE  /\ a \div b \in Nat
         /\ (a \div b) * b <= a
  OBVIOUS

(* What LayoutColumn does to the layouts: one offset and one width more    *)
(* for the current table, nothing else.                                    *)
LEMMA ColumnEffect ==
  ASSUME TypeOK, LayoutColumn
  PROVE  /\ slot \in Known
         /\ column \in 1..Len(Schema[slot])
         /\ layout' \in [Known -> Layouts]
         /\ layout'[slot].offsets = Append(layout[slot].offsets, offset)
         /\ layout'[slot].widths
              = Append(layout[slot].widths, column_width(Schema[slot][column]))
         /\ offset' = offset + column_width(Schema[slot][column])
         /\ \A t \in Known : /\ layout'[t].row_count = layout[t].row_count
                             /\ layout'[t].row_size = layout[t].row_size
                             /\ layout'[t].data_offset = layout[t].data_offset
         /\ \A t \in Known \ {slot} : layout'[t] = layout[t]
  <1> DEFINE w == column_width(Schema[slot][column])
  <1>1. slot \in Known /\ column \in 1..Len(Schema[slot])
    BY Numbers DEF LayoutColumn, TypeOK
  <1>2. w \in {2, 4}
    BY <1>1, WidthType
  <1>3. layout' = [layout EXCEPT ![slot].offsets = Append(@, offset),
                                 ![slot].widths = Append(@, w)]
    BY DEF LayoutColumn
  <1>4. DOMAIN layout = Known /\ layout[slot] \in Layouts
    BY <1>1 DEF TypeOK
  <1>5. layout'[slot] = [layout[slot] EXCEPT !.offsets = Append(@, offset), !.widths = Append(@, w)]
    BY <1>1, <1>3, <1>4, Zenon
  <1>6. \A t \in Known \ {slot} : layout'[t] = layout[t]
    BY <1>1, <1>3, <1>4
  <1>7. /\ layout'[slot].offsets = Append(layout[slot].offsets, offset)
        /\ layout'[slot].widths = Append(layout[slot].widths, w)
        /\ layout'[slot].row_count = layout[slot].row_count
        /\ layout'[slot].row_size = layout[slot].row_size
        /\ layout'[slot].data_offset = layout[slot].data_offset
    BY <1>4, <1>5 DEF Layouts
  <1>8. Append(layout[slot].offsets, offset) \in Seq(Nat)
        /\ Append(layout[slot].widths, w) \in Seq({2, 4})
    BY <1>1, <1>2, LayoutType, Numbers
  <1>9. layout'[slot] \in Layouts
    BY <1>4, <1>5, <1>8 DEF Layouts
  <1>10. layout' \in [Known -> Layouts]
    BY <1>3, <1>4, <1>6, <1>9 DEF TypeOK
  <1>11. offset' = offset + w
    BY DEF LayoutColumn
  <1> QED BY <1>1, <1>6, <1>7, <1>10, <1>11

(* What Place does to the layouts: the extent of the current table.        *)
LEMMA PlaceEffect ==
  ASSUME TypeOK, slot \in Known, NEW n \in Nat, Place(n)
  PROVE  /\ layout' \in [Known -> Layouts]
         /\ layout'[slot].offsets = layout[slot].offsets
         /\ layout'[slot].widths = layout[slot].widths
         /\ layout'[slot].row_count = n
         /\ layout'[slot].row_size = offset
         /\ layout'[slot].data_offset = cursor
         /\ \A t \in Known \ {slot} : layout'[t] = layout[t]
  <1>1. layout' = [layout EXCEPT ![slot].row_count = n,
                                 ![slot].row_size = offset,
                                 ![slot].data_offset = cursor]
    BY DEF Place
  <1>2. DOMAIN layout = Known /\ layout[slot] \in Layouts
    BY DEF TypeOK
  <1>3. layout'[slot] = [layout[slot] EXCEPT !.row_count = n, !.row_size = offset,
                                             !.data_offset = cursor]
    BY <1>1, <1>2, Zenon
  <1>4. \A t \in Known \ {slot} : layout'[t] = layout[t]
    BY <1>1, <1>2
  <1>5. layout'[slot] \in Layouts
    BY <1>2, <1>3, Numbers DEF Layouts
  <1>6. layout' \in [Known -> Layouts]
    BY <1>1, <1>2, <1>4, <1>5 DEF TypeOK
  <1>7. /\ layout'[slot].offsets = layout[slot].offsets
        /\ layout'[slot].widths = layout[slot].widths
        /\ layout'[slot].row_count = n
        /\ layout'[slot].row_size = offset
        /\ layout'[slot].data_offset = cursor
    BY <1>2, <1>3 DEF Layouts
  <1> QED BY <1>4, <1>6, <1>7

(* Where nothing the geometry is made of changes, it stays.                *)
LEMMA GeometryFrame ==
  ASSUME UNCHANGED <<heap_sizes, row_counts, layout>>
  PROVE  /\ \A t \in Known : \A n, end : ColumnsPlaced(t, n, end)' <=> ColumnsPlaced(t, n, end)
         /\ \A t \in Known : Complete(t)' <=> Complete(t)
         /\ \A t \in Known : TableEnd(t)' = TableEnd(t)
  <1>1. \A kind : column_width(kind)' = column_width(kind)
    BY DEF column_width, RidIsNarrow, CodedIsNarrow
  <1>2. \A t \in Known : \A n, end : ColumnsPlaced(t, n, end)' <=> ColumnsPlaced(t, n, end)
    BY <1>1 DEF ColumnsPlaced
  <1>3. \A t \in Known : Complete(t)' <=> Complete(t)
    BY <1>2 DEF Complete
  <1>4. \A t \in Known : TableEnd(t)' = TableEnd(t)
    BY DEF TableEnd
  <1> QED BY <1>2, <1>3, <1>4

(* No column of an empty layout is placed.                                 *)
LEMMA NothingPlaced ==
  ASSUME NEW t \in Known, layout[t] = EmptyLayout
  PROVE  ColumnsPlaced(t, 0, 0) /\ layout[t].row_count = 0
  BY DEF ColumnsPlaced, EmptyLayout

-------------------------------------------------------------------------------
(* The invariant                                                           *)

LEMMA InitInv == Init => Inv
  <1> SUFFICES ASSUME Init PROVE Inv
    OBVIOUS
  <1>1. TypeOK
    <2>1. EmptyLayout \in Layouts
      BY DEF EmptyLayout, Layouts
    <2>2. layout \in [Known -> Layouts]
      BY <2>1 DEF Init
    <2>3. row_counts \in [Slots -> Counts \cup {0}]
      BY DEF Init
    <2>4. slot \in 0..SlotCount /\ cursor \in Nat /\ offset \in Nat /\ column \in 1..(MaxColumns + 1)
      BY StreamAssumption DEF Init, MaxColumns
    <2>5. /\ len \in Lengths /\ strict \in BOOLEAN
          /\ heap_sizes \in [wide : SUBSET Heaps, unknown : BOOLEAN, extra : BOOLEAN]
          /\ valid \subseteq Slots /\ stated \in [valid -> Counts]
      BY Zenon DEF Init
    <2>6. /\ pc \in {"header", "counts", "layout", "verify", "done", "rejected"}
          /\ error \in {"none", "Truncated", "Malformed", "Unsupported", "row_bytes"}
          /\ exhausted \in BOOLEAN /\ verified \subseteq Keyed
      BY Zenon DEF Init
    <2> QED BY <2>2, <2>3, <2>4, <2>5, <2>6, Zenon DEF TypeOK
  <1>2. \A t \in Known : layout[t] = EmptyLayout /\ layout[t].row_count = 0
    BY DEF Init, EmptyLayout
  <1>3. LayoutInv
    BY <1>2 DEF Init, LayoutInv
  <1>4. PlaceInv
    BY <1>1, <1>2, Numbers DEF Init, PlaceInv, RowsInStream, TablesDisjoint
  <1>5. StatedInv
    BY <1>1, Numbers DEF Init, StatedInv, Diagnosed
  <1> QED BY <1>1, <1>3, <1>4, <1>5 DEF Inv

LEMMA StutterInv == Inv /\ UNCHANGED vars => Inv'
  <1> SUFFICES ASSUME Inv, UNCHANGED vars PROVE Inv'
    OBVIOUS
  <1>1. /\ UNCHANGED <<len, strict, heap_sizes, valid, stated, pc, error, slot, cursor>>
        /\ UNCHANGED <<row_counts, column, offset, layout, exhausted, diagnostics, verified>>
    BY DEF vars, input
  <1>2. TypeOK'
    BY <1>1 DEF Inv, TypeOK
  <1>3. LayoutInv'
    BY <1>1, GeometryFrame DEF Inv, LayoutInv
  <1>4. PlaceInv'
    BY <1>1, GeometryFrame DEF Inv, PlaceInv, RowsInStream, TablesDisjoint
  <1>5. StatedInv'
    BY <1>1 DEF Inv, StatedInv, Stated, Diagnosed
  <1> QED BY <1>2, <1>3, <1>4, <1>5 DEF Inv

(* The steps before the layout leave every layout empty.                   *)
LEMMA ReadHeaderInv == Inv /\ ReadHeader => Inv'
  <1> SUFFICES ASSUME Inv, ReadHeader PROVE Inv'
    OBVIOUS
  <1>1. /\ UNCHANGED <<len, strict, heap_sizes, valid, stated>>
        /\ UNCHANGED <<slot, row_counts, column, offset, layout, exhausted, verified>>
        /\ pc = "header" /\ pc' \in {"counts", "rejected"}
        /\ error' \in {error, "Truncated", "Malformed"}
        /\ cursor' \in {cursor, HeaderBytes}
        /\ pc' = "counts" => cursor' = HeaderBytes /\ len >= HeaderBytes
    BY DEF ReadHeader, Reject, input, Record
  <1>t. TypeOK /\ LayoutInv /\ PlaceInv /\ StatedInv
    BY DEF Inv
  <1>2. TypeOK'
    <2>1. cursor' \in Nat
      BY <1>1, <1>t, Numbers DEF HeaderBytes
    <2>2. error' \in {"none", "Truncated", "Malformed", "Unsupported", "row_bytes"}
          /\ pc' \in {"header", "counts", "layout", "verify", "done", "rejected"}
      BY <1>1, <1>t DEF TypeOK
    <2> QED BY <1>1, <1>t, <2>1, <2>2, Zenon DEF TypeOK
  <1>3. LayoutInv'
    BY <1>1, <1>t DEF LayoutInv
  <1>4. PlaceInv'
    <2>1. \A t \in Known : layout[t].row_count = 0
      BY <1>1, <1>t DEF LayoutInv, EmptyLayout
    <2>2. cursor' <= len \/ pc' = "rejected"
      BY <1>1, <1>t, Numbers DEF HeaderBytes
    <2>3. error' # "row_bytes"
      BY <1>1, <1>t DEF PlaceInv, RowsInStream
    <2> QED BY <1>1, <2>1, <2>2, <2>3 DEF PlaceInv, RowsInStream, TablesDisjoint
  <1>5. StatedInv'
    <2>1. ~Diagnosed("StreamRangeClamped") /\ slot = 0 /\ \A t \in Known : row_counts[t] = 0
      BY <1>1, <1>t DEF StatedInv
    <2>2. ~exhausted
      BY <1>1, <1>t DEF LayoutInv
    <2>3. ~Diagnosed("StreamRangeClamped")'
      <3>1. diagnostics' = diagnostics
            \/ diagnostics' = diagnostics \cup {<<"UnknownHeapSizeBits", NoTable>>}
        BY DEF ReadHeader, Record
      <3> QED BY <2>1, <3>1 DEF Diagnosed
    <2>4. \A t \in Known : ~(t < 0)
      BY <1>t, Numbers
    <2> QED BY <1>1, <2>1, <2>2, <2>3, <2>4 DEF StatedInv
  <1> QED BY <1>2, <1>3, <1>4, <1>5 DEF Inv

LEMMA SkipAbsentInv == Inv /\ SkipAbsent => Inv'
  <1> SUFFICES ASSUME Inv, SkipAbsent PROVE Inv'
    OBVIOUS
  <1>1. /\ UNCHANGED <<len, strict, heap_sizes, valid, stated, pc, error, cursor>>
        /\ UNCHANGED <<row_counts, column, offset, layout, exhausted, diagnostics, verified>>
        /\ pc = "counts" /\ slot < SlotCount /\ slot \notin valid /\ slot' = slot + 1
    BY DEF SkipAbsent, input
  <1>t. TypeOK /\ LayoutInv /\ PlaceInv /\ StatedInv
    BY DEF Inv
  <1>2. TypeOK'
    <2>1. slot' \in 0..SlotCount
      BY <1>1, <1>t, Numbers
    <2> QED BY <1>1, <1>t, <2>1, Zenon DEF TypeOK
  <1>3. LayoutInv'
    BY <1>1, <1>t DEF LayoutInv
  <1>4. PlaceInv'
    BY <1>1, <1>t, GeometryFrame DEF PlaceInv, RowsInStream, TablesDisjoint
  <1>5. StatedInv'
    <2>1. \A t \in Known : t < slot + 1 <=> t < slot \/ t = slot
      BY <1>t, Numbers
    <2>2. ASSUME NEW t \in Known
          PROVE  row_counts[t] = IF t < slot + 1 THEN Stated(t) ELSE 0
      BY <1>1, <1>t, <2>1 DEF StatedInv, Stated
    <2>3. (~Diagnosed("StreamRangeClamped"))' /\ (~exhausted)'
      BY <1>1, <1>t DEF StatedInv, LayoutInv, Diagnosed
    <2> QED BY <1>1, <2>2, <2>3 DEF StatedInv, Stated
  <1> QED BY <1>2, <1>3, <1>4, <1>5 DEF Inv

LEMMA ReadCountInv == Inv /\ ReadCount => Inv'
  <1> SUFFICES ASSUME Inv, ReadCount PROVE Inv'
    OBVIOUS
  <1>1. /\ UNCHANGED <<len, strict, heap_sizes, valid, stated>>
        /\ UNCHANGED <<column, offset, layout, exhausted, verified>>
        /\ pc = "counts" /\ slot \in valid
        /\ error' \in {error, "Truncated", "Unsupported"}
        /\ diagnostics' = diagnostics
           \/ diagnostics' = diagnostics \cup {<<"ReservedTablePresent", slot>>}
        /\ \/ pc' = "rejected" /\ slot' = slot /\ row_counts' = row_counts
              /\ cursor' \in {cursor, cursor + CountBytes}
           \/ /\ pc' = pc /\ slot' = slot + 1
              /\ cursor' = cursor + CountBytes /\ cursor + CountBytes <= len
              /\ \/ slot \in Known /\ row_counts' = [row_counts EXCEPT ![slot] = stated[slot]]
                 \/ slot \notin Known /\ row_counts' = row_counts
    BY DEF ReadCount, Reject, input, Record
  <1>t. TypeOK /\ LayoutInv /\ PlaceInv /\ StatedInv
    BY DEF Inv
  <1>2. slot \in Slots /\ slot < SlotCount /\ stated[slot] \in Counts
    BY <1>1, <1>t, Numbers, CountTypes DEF TypeOK, Slots
  <1>3. TypeOK'
    <2>1. slot' \in 0..SlotCount /\ cursor' \in Nat
      BY <1>1, <1>2, <1>t, Numbers DEF CountBytes
    <2>2. row_counts' \in [Slots -> Counts \cup {0}]
      BY <1>1, <1>2, <1>t DEF TypeOK
    <2>3. error' \in {"none", "Truncated", "Malformed", "Unsupported", "row_bytes"}
          /\ pc' \in {"header", "counts", "layout", "verify", "done", "rejected"}
      BY <1>1, <1>t DEF TypeOK
    <2> QED BY <1>1, <1>t, <2>1, <2>2, <2>3, Zenon DEF TypeOK
  <1>4. LayoutInv'
    BY <1>1, <1>t DEF LayoutInv
  <1>5. PlaceInv'
    <2>1. \A t \in Known : layout[t].row_count = 0
      BY <1>1, <1>t DEF LayoutInv, EmptyLayout
    <2>2. cursor' <= len \/ pc' = "rejected"
      BY <1>1
    <2>3. error' # "row_bytes"
      BY <1>1, <1>t DEF PlaceInv, RowsInStream
    <2> QED BY <1>1, <2>1, <2>2, <2>3 DEF PlaceInv, RowsInStream, TablesDisjoint
  <1>6. StatedInv'
    <2>1. ~Diagnosed("StreamRangeClamped") /\ ~exhausted
      BY <1>1, <1>t DEF StatedInv, LayoutInv
    <2>2. ~Diagnosed("StreamRangeClamped")'
      BY <1>1, <2>1 DEF Diagnosed
    <2>3. \A t \in Known : row_counts[t] = IF t < slot THEN Stated(t) ELSE 0
      BY <1>1, <1>t DEF StatedInv
    <2>4. ASSUME pc' = "counts", NEW t \in Known
          PROVE  row_counts'[t] = IF t < slot' THEN Stated(t) ELSE 0
      <3>1. t \in Nat /\ t \in Slots /\ DOMAIN row_counts = Slots
        BY <1>t, Numbers DEF TypeOK
      <3>2. CASE t = slot
        BY <1>1, <1>2, <2>4, <3>1, <3>2 DEF Stated
      <3>3. CASE t # slot
        <4>1. row_counts'[t] = row_counts[t]
          BY <1>1, <3>1, <3>3
        <4>2. t < slot' <=> t < slot
          BY <1>1, <1>t, <2>4, <3>1, <3>3, Numbers
        <4> QED BY <2>3, <4>1, <4>2
      <3> QED BY <3>2, <3>3
    <2> QED BY <1>1, <2>1, <2>2, <2>4 DEF StatedInv, Stated
  <1> QED BY <1>3, <1>4, <1>5, <1>6 DEF Inv

(* All counts are read: the layout loop starts at slot 0.                  *)
LEMMA ReadExtraDataInv == Inv /\ ReadExtraData => Inv'
  <1> SUFFICES ASSUME Inv, ReadExtraData PROVE Inv'
    OBVIOUS
  <1>1. /\ UNCHANGED <<len, strict, heap_sizes, valid, stated>>
        /\ UNCHANGED <<row_counts, column, offset, layout, exhausted, diagnostics, verified>>
        /\ pc = "counts" /\ slot = SlotCount
        /\ error' \in {error, "Truncated"}
        /\ \/ pc' = "rejected" /\ slot' = slot /\ cursor' = cursor
           \/ /\ pc' = "layout" /\ slot' = 0
              /\ \/ cursor' = cursor
                 \/ cursor' = cursor + CountBytes /\ cursor + CountBytes <= len
    BY DEF ReadExtraData, Reject, input
  <1>t. TypeOK /\ LayoutInv /\ PlaceInv /\ StatedInv
    BY DEF Inv
  <1>2. TypeOK'
    <2>1. slot' \in 0..SlotCount /\ cursor' \in Nat
      BY <1>1, <1>t, Numbers DEF CountBytes
    <2>2. error' \in {"none", "Truncated", "Malformed", "Unsupported", "row_bytes"}
          /\ pc' \in {"header", "counts", "layout", "verify", "done", "rejected"}
      BY <1>1, <1>t DEF TypeOK
    <2> QED BY <1>1, <1>t, <2>1, <2>2, Zenon DEF TypeOK
  <1>3. \A t \in Known : /\ layout[t] = EmptyLayout
                         /\ layout[t].row_count = 0
                         /\ ~(t < 0)
    BY <1>1, <1>t, NothingPlaced, Numbers DEF LayoutInv
  <1>4. column = 1 /\ offset = 0 /\ ~exhausted
    BY <1>1, <1>t DEF LayoutInv
  <1>5. LayoutInv'
    <2>1. \A t \in Known : ColumnsPlaced(t, 0, 0)' /\ column' <= Len(Schema[t]) + 1
      BY <1>1, <1>3, <1>4, <1>t, GeometryFrame, NothingPlaced, Numbers
    <2>2. column' - 1 = 0
      BY <1>1, <1>4
    <2> QED BY <1>1, <1>3, <1>4, <2>1, <2>2 DEF LayoutInv
  <1>6. PlaceInv'
    <2>1. cursor' <= len \/ pc' = "rejected"
      BY <1>1, <1>t DEF PlaceInv
    <2>2. error' # "row_bytes"
      BY <1>1, <1>t DEF PlaceInv, RowsInStream
    <2> QED BY <1>1, <1>3, <2>1, <2>2 DEF PlaceInv, RowsInStream, TablesDisjoint
  <1>7. StatedInv'
    <2>1. (~Diagnosed("StreamRangeClamped"))'
      BY <1>1, <1>t DEF StatedInv, Diagnosed
    <2>2. \A t \in Known : row_counts[t] = Stated(t)
      BY <1>1, <1>t, Numbers DEF StatedInv
    <2> QED BY <1>1, <1>3, <1>4, <2>1, <2>2 DEF StatedInv, Stated
  <1> QED BY <1>2, <1>5, <1>6, <1>7 DEF Inv

-------------------------------------------------------------------------------
(* The layout                                                              *)

LEMMA SkipReservedInv == Inv /\ SkipReserved => Inv'
  <1> SUFFICES ASSUME Inv, SkipReserved PROVE Inv'
    OBVIOUS
  <1>1. /\ UNCHANGED <<len, strict, heap_sizes, valid, stated, pc, error, cursor>>
        /\ UNCHANGED <<row_counts, column, offset, layout, exhausted, diagnostics, verified>>
        /\ pc = "layout" /\ slot \in Slots /\ slot \notin Known /\ slot' = slot + 1
    BY DEF SkipReserved, input
  <1>t. TypeOK /\ LayoutInv /\ PlaceInv /\ StatedInv
    BY DEF Inv
  <1>2. slot < SlotCount
    BY <1>1, <1>t, Numbers DEF Slots
  <1>3. TypeOK'
    <2>1. slot' \in 0..SlotCount
      BY <1>1, <1>2, <1>t, Numbers
    <2> QED BY <1>1, <1>t, <2>1, Zenon DEF TypeOK
  <1>4. \A t \in Known : /\ t < slot + 1 => t < slot
                         /\ t > slot + 1 => t > slot
                         /\ t = slot + 1 => t > slot
    BY <1>1, <1>t, Numbers
  <1>5. LayoutInv'
    <2>1. column = 1 /\ offset = 0 /\ column - 1 = 0
      BY <1>1, <1>t DEF LayoutInv
    <2>2. \A t \in Known : t > slot => layout[t] = EmptyLayout
      BY <1>1, <1>t DEF LayoutInv
    <2>3. slot' \in Known => /\ layout[slot'].row_count = 0
                             /\ 1 <= Len(Schema[slot']) + 1
                             /\ ColumnsPlaced(slot', 0, 0)
      BY <1>1, <1>4, <1>t, <2>2, NothingPlaced, Numbers
    <2>4. slot' \in Known => ColumnsPlaced(slot, column - 1, offset)'
      BY <1>1, <2>1, <2>3, GeometryFrame
    <2>5. \A t \in Known : t < slot' => Complete(t)'
      BY <1>1, <1>4, <1>t, GeometryFrame DEF LayoutInv
    <2>6. \A t \in Known : t > slot' => layout'[t] = EmptyLayout
      BY <1>1, <1>4, <2>2
    <2> QED BY <1>1, <2>1, <2>3, <2>4, <2>5, <2>6 DEF LayoutInv
  <1>6. PlaceInv'
    BY <1>1, <1>t, GeometryFrame DEF PlaceInv, RowsInStream, TablesDisjoint
  <1>7. StatedInv'
    BY <1>1, <1>4, <1>t DEF StatedInv, Stated, Diagnosed
  <1> QED BY <1>3, <1>5, <1>6, <1>7 DEF Inv

LEMMA LayoutColumnInv == Inv /\ LayoutColumn => Inv'
  <1> SUFFICES ASSUME Inv, LayoutColumn PROVE Inv'
    OBVIOUS
  <1> DEFINE w == column_width(Schema[slot][column])
  <1>1. /\ UNCHANGED <<len, strict, heap_sizes, valid, stated, pc, error, slot, cursor>>
        /\ UNCHANGED <<row_counts, exhausted, diagnostics, verified>>
        /\ pc = "layout" /\ slot \in Known /\ column' = column + 1
        /\ column <= Len(Schema[slot])
    BY DEF LayoutColumn, input
  <1>t. TypeOK /\ LayoutInv /\ PlaceInv /\ StatedInv
    BY DEF Inv
  <1>2. w \in {2, 4} /\ offset' = offset + w
    BY <1>t, ColumnEffect, WidthType
  <1>c. column \in Nat /\ column >= 1 /\ column <= MaxColumns /\ MaxColumns = 9 /\ offset \in Nat
    <2>1. column \in 1..(MaxColumns + 1) /\ MaxColumns = 9
      BY <1>t DEF TypeOK, MaxColumns
    <2>2. column \in Nat /\ column >= 1
      BY <2>1
    <2>3. Len(Schema[slot]) \in Nat /\ Len(Schema[slot]) <= MaxColumns
      BY <1>1, <1>t, Numbers
    <2> QED BY <1>1, <1>t, <2>1, <2>2, <2>3, Numbers
  <1>3. \A kind : column_width(kind)' = column_width(kind)
    BY <1>1 DEF column_width, RidIsNarrow, CodedIsNarrow
  <1>4. TypeOK'
    <2>1. column' \in 1..(MaxColumns + 1)
      BY <1>1, <1>c
    <2>3. offset' \in Nat
      BY <1>2, <1>t, Numbers
    <2>2. layout' \in [Known -> Layouts]
      BY <1>t, ColumnEffect
    <2> QED BY <1>1, <1>t, <2>1, <2>2, <2>3, Zenon DEF TypeOK
  <1>5. \A t \in Known : /\ layout'[t].row_count = layout[t].row_count
                         /\ TableEnd(t)' = TableEnd(t)
                         /\ layout'[t].data_offset = layout[t].data_offset
    BY <1>t, ColumnEffect DEF TableEnd
  <1>6. \A t \in Known : t # slot => layout'[t] = layout[t] /\ (Complete(t)' <=> Complete(t))
    <2>1. \A t \in Known : t # slot => layout'[t] = layout[t]
      BY <1>t, ColumnEffect
    <2> QED BY <1>1, <1>3, <2>1 DEF Complete, ColumnsPlaced
  <1>7. ColumnsPlaced(slot, column - 1, offset)'
    <2> DEFINE o == layout[slot].offsets
               v == layout[slot].widths
               n == column - 1
    <2>1. /\ layout'[slot].offsets = Append(o, offset)
          /\ layout'[slot].widths = Append(v, w)
      BY <1>t, ColumnEffect
    <2>2. ColumnsPlaced(slot, n, offset)
      BY <1>1, <1>t DEF LayoutInv
    <2>3. o \in Seq(Nat) /\ v \in Seq({2, 4}) /\ Len(o) = n /\ Len(v) = n /\ n \in Nat
      BY <1>1, <1>t, <2>2, LayoutType DEF ColumnsPlaced, TypeOK, MaxColumns
    <2>4. /\ Len(Append(o, offset)) = column
          /\ Append(o, offset)[column] = offset
          /\ \A i \in 1..n : Append(o, offset)[i] = o[i]
      BY <2>3, <1>t, Numbers
    <2>5. /\ Len(Append(v, w)) = column
          /\ Append(v, w)[column] = w
          /\ \A i \in 1..n : Append(v, w)[i] = v[i]
      BY <2>3, <1>2, <1>t, Numbers
    <2>6. \A i \in 1..n : v[i] = column_width(Schema[slot][i])
      BY <2>2, <2>3 DEF ColumnsPlaced
    <2>7. \A i \in 1..n : i < n => o[i] + v[i] = o[i + 1]
      BY <2>2, <2>3 DEF ColumnsPlaced
    <2>8. n > 0 => o[n] + v[n] = offset /\ o[1] = 0
      BY <2>2, <2>3 DEF ColumnsPlaced
    <2>9. n = 0 => offset = 0
      BY <2>2 DEF ColumnsPlaced
    <2>10. 2 * column <= offset + w /\ offset + w <= 4 * column
      <3>1. 2 * n <= offset /\ offset <= 4 * n
        BY <2>2 DEF ColumnsPlaced
      <3> QED BY <1>2, <1>c, <3>1
    <2>11. \A i \in 1..column : Append(v, w)[i] = column_width(Schema[slot][i])
      BY <2>3, <2>5, <2>6
    <2>12. \A i \in 1..column : i < column =>
             Append(o, offset)[i] + Append(v, w)[i] = Append(o, offset)[i + 1]
      <3> SUFFICES ASSUME NEW i \in 1..column, i < column
                   PROVE  Append(o, offset)[i] + Append(v, w)[i] = Append(o, offset)[i + 1]
        OBVIOUS
      <3>1. i \in 1..n /\ i \in Nat /\ i <= n /\ n + 1 = column
        BY <1>c
      <3>2. Append(o, offset)[i] = o[i] /\ Append(v, w)[i] = v[i]
        BY <2>4, <2>5, <3>1
      <3>3. CASE i < n
        <4>1. i + 1 \in 1..n
          BY <2>3, <3>1, <3>3
        <4>2. Append(o, offset)[i + 1] = o[i + 1]
          BY <2>4, <4>1
        <4> QED BY <2>7, <3>1, <3>2, <3>3, <4>2
      <3>4. CASE i = n
        <4>1. Append(o, offset)[i + 1] = offset
          BY <2>4, <3>1, <3>4
        <4> QED BY <2>3, <2>8, <3>1, <3>2, <3>4, <4>1
      <3> QED BY <2>3, <3>1, <3>3, <3>4
    <2>13. Append(o, offset)[1] = 0
      BY <2>3, <2>4, <2>8, <2>9
    <2>14. column > 0 /\ column' - 1 = column /\ offset' = offset + w
      BY <1>1, <1>2, <1>c
    <2>15. \A i \in 1..column : layout'[slot].widths[i] = column_width(Schema[slot][i])'
      BY <1>1, <1>3, <2>1, <2>11
    <2>16. \A i \in 1..column : i < column =>
             layout'[slot].offsets[i] + layout'[slot].widths[i] = layout'[slot].offsets[i + 1]
      BY <2>1, <2>12
    <2>17. layout'[slot].offsets[column] + layout'[slot].widths[column] = offset + w
      BY <2>1, <2>4, <2>5
    <2>18. /\ Len(layout'[slot].offsets) = column /\ Len(layout'[slot].widths) = column
           /\ layout'[slot].offsets[1] = 0
      BY <2>1, <2>4, <2>5, <2>13
    <2> HIDE DEF w
    <2>19. column' - 1 = 0 => offset' = 0
      BY <2>14
    <2> QED BY <1>1, <2>10, <2>14, <2>15, <2>16, <2>17, <2>18, <2>19, Zenon DEF ColumnsPlaced
  <1>8. LayoutInv'
    <2>1. \A t \in Known : t < slot => Complete(t)'
      BY <1>1, <1>6, <1>t, Numbers DEF LayoutInv
    <2>2. \A t \in Known : t > slot => layout'[t] = EmptyLayout
      BY <1>1, <1>6, <1>t, Numbers DEF LayoutInv
    <2>3. layout'[slot].row_count = 0
      BY <1>1, <1>5, <1>t DEF LayoutInv
    <2>4. column' <= Len(Schema[slot]) + 1
      BY <1>1, <1>t, Numbers
    <2>5. ColumnsPlaced(slot, column - 1, offset)'
      <3>1. column' - 1 = column
        BY <1>1, <1>t, Numbers
      <3> QED BY <1>7, <3>1 DEF ColumnsPlaced
    <2> QED BY <1>1, <2>1, <2>2, <2>3, <2>4, <2>5 DEF LayoutInv
  <1>9. PlaceInv'
    BY <1>1, <1>5, <1>t DEF PlaceInv, RowsInStream, TablesDisjoint
  <1>10. StatedInv'
    BY <1>1, <1>5, <1>t DEF StatedInv, Stated, Diagnosed
  <1> QED BY <1>4, <1>8, <1>9, <1>10 DEF Inv

(* A table whose n rows fit is placed behind the others and inside the     *)
(* stream, its columns complete.                                           *)
LEMMA Placed ==
  ASSUME Inv, pc = "layout", slot \in Known, column = Len(Schema[slot]) + 1,
         NEW n \in Nat, Place(n), n > 0 => n * offset <= len - cursor,
         exhausted' \in BOOLEAN,
         UNCHANGED <<len, strict, heap_sizes, valid, stated>>,
         UNCHANGED <<pc, error, row_counts, verified>>
  PROVE  TypeOK' /\ LayoutInv' /\ PlaceInv'
  <1>t. TypeOK /\ LayoutInv /\ PlaceInv /\ StatedInv
    BY DEF Inv
  <1>1. slot' = slot + 1 /\ column' = 1 /\ offset' = 0 /\ cursor' = cursor + n * offset
    BY DEF Place
  <1>2. /\ offset \in Nat /\ cursor \in Nat /\ len \in Nat
        /\ slot \in Nat /\ SlotCount \in Nat /\ slot < SlotCount
        /\ n * offset \in Nat /\ cursor' \in Nat
    <2>1. offset \in Nat /\ cursor \in Nat /\ len \in Nat
      BY <1>t, Numbers
    <2>2. slot \in Nat /\ SlotCount \in Nat /\ slot < SlotCount
      BY <1>t, Numbers
    <2>3. n * offset \in Nat
      BY <2>1
    <2> QED BY <1>1, <2>1, <2>2, <2>3
  <1>3. TypeOK'
    <2>1. slot' \in 0..SlotCount
      BY <1>1, <1>2
    <2>2. column' \in 1..(MaxColumns + 1) /\ offset' \in Nat
      BY <1>1 DEF MaxColumns
    <2>3. layout' \in [Known -> Layouts]
      BY <1>t, PlaceEffect
    <2> QED BY <1>2, <1>t, <2>1, <2>2, <2>3, Zenon DEF TypeOK
  <1>4. \A t \in Known : t \in Nat /\ (t < slot + 1 => t < slot \/ t = slot)
                                   /\ (t > slot => ~(t < slot) /\ t # slot)
                                   /\ (t = slot + 1 => t > slot)
                                   /\ (t > slot + 1 => t > slot)
    BY <1>t, Numbers
  <1>5. \A kind : column_width(kind)' = column_width(kind)
    BY DEF column_width, RidIsNarrow, CodedIsNarrow
  <1>6. \A t \in Known : t # slot => /\ layout'[t] = layout[t]
                                     /\ TableEnd(t)' = TableEnd(t)
                                     /\ Complete(t)' <=> Complete(t)
    <2>1. \A t \in Known : t # slot => layout'[t] = layout[t]
      BY <1>t, PlaceEffect
    <2> QED BY <1>5, <2>1 DEF Complete, ColumnsPlaced, TableEnd
  <1>7. ASSUME NEW t \in Known, t = slot
        PROVE  Complete(t)' /\ TableEnd(t)' = cursor + n * offset
               /\ layout'[t].row_count = n /\ layout'[t].data_offset = cursor
    <2> DEFINE m == Len(Schema[t])
    <2>1. ColumnsPlaced(t, m, offset)
      <3>1. ColumnsPlaced(t, column - 1, offset)
        BY <1>t, <1>7 DEF LayoutInv
      <3>2. column - 1 = m
        BY <1>7, <1>t, Numbers
      <3> QED BY <3>1, <3>2
    <2>2. /\ layout'[t].offsets = layout[t].offsets
          /\ layout'[t].widths = layout[t].widths
          /\ layout'[t].row_size = offset
          /\ layout'[t].row_count = n /\ layout'[t].data_offset = cursor
      BY <1>7, <1>t, PlaceEffect
    <2>3. ColumnsPlaced(t, m, offset) /\ layout'[t].row_size = offset => Complete(t)'
      BY <1>5, <2>2 DEF Complete, ColumnsPlaced
    <2> QED BY <2>1, <2>2, <2>3 DEF TableEnd
  <1>8. LayoutInv'
    <2>1. \A t \in Known : t < slot' => Complete(t)'
      BY <1>1, <1>4, <1>6, <1>7, <1>t DEF LayoutInv
    <2>2. \A t \in Known : t > slot => layout'[t] = EmptyLayout /\ layout[t] = EmptyLayout
      BY <1>4, <1>6, <1>t DEF LayoutInv
    <2>3. \A t \in Known : t > slot' => layout'[t] = EmptyLayout
      BY <1>1, <1>4, <2>2
    <2>4. \A t \in Known : t = slot' => /\ layout'[t].row_count = 0
                                        /\ column' <= Len(Schema[t]) + 1
                                        /\ ColumnsPlaced(t, 0, 0)'
      <3> SUFFICES ASSUME NEW t \in Known, t = slot'
                   PROVE  /\ layout'[t].row_count = 0
                          /\ column' <= Len(Schema[t]) + 1
                          /\ ColumnsPlaced(t, 0, 0)'
        OBVIOUS
      <3>1. layout'[t] = EmptyLayout
        BY <1>1, <1>4, <2>2
      <3>2. column' <= Len(Schema[t]) + 1
        <4>1. Len(Schema[t]) \in Nat /\ Len(Schema[t]) >= 1
          BY <1>t, Numbers
        <4> QED BY <1>1, <4>1
      <3> QED BY <3>1, <3>2 DEF ColumnsPlaced, EmptyLayout
    <2>5. column' - 1 = 0
      BY <1>1
    <2> QED BY <1>1, <2>1, <2>3, <2>4, <2>5 DEF LayoutInv
  <1>9. PlaceInv'
    <2>1. cursor <= len /\ cursor' <= len /\ cursor <= cursor'
      <3>1. cursor <= len
        BY <1>t DEF PlaceInv
      <3> QED BY <1>1, <1>2, <3>1
    <2>2. \A t \in Known : layout[t].row_count > 0 => TableEnd(t) <= cursor
      BY <1>t DEF PlaceInv
    <2>3. \A t \in Known : TableEnd(t) \in Nat
      <3>1. \A a, b, c \in Nat : a + b * c \in Nat
        OBVIOUS
      <3> QED BY <1>t, <3>1, LayoutType DEF TableEnd
    <2>4. \A t \in Known : layout'[t].row_count > 0 => TableEnd(t)' <= cursor'
      BY <1>1, <1>2, <1>6, <1>7, <2>1, <2>2, <2>3
    <2>5. \A t \in Known : layout'[t].row_count > 0 => TableEnd(t)' <= len
      <3>1. \A t \in Known : TableEnd(t)' \in Nat
        BY <1>2, <1>6, <1>7, <2>3
      <3> QED BY <1>2, <2>1, <2>4, <3>1
    <2>6. ASSUME NEW t \in Known, NEW u \in Known, t < u,
                 layout'[t].row_count > 0, layout'[u].row_count > 0
          PROVE  TableEnd(t)' <= layout'[u].data_offset
      <3>1. \A x \in Known : x > slot => layout'[x].row_count = 0
        BY <1>4, <1>6, <1>t DEF LayoutInv, EmptyLayout
      <3>2. ~(u > slot) /\ t # slot /\ u \in Nat /\ t \in Nat
        BY <1>4, <1>2, <2>6, <3>1
      <3>3. CASE u = slot
        BY <1>6, <1>7, <2>2, <2>6, <3>2, <3>3
      <3>4. CASE u # slot
        BY <1>6, <1>t, <2>6, <3>2, <3>4 DEF PlaceInv, TablesDisjoint
      <3> QED BY <3>3, <3>4
    <2>7. error' # "row_bytes"
      BY <1>t DEF PlaceInv, RowsInStream
    <2> QED BY <2>1, <2>4, <2>5, <2>6, <2>7 DEF PlaceInv, RowsInStream, TablesDisjoint
  <1> QED BY <1>3, <1>8, <1>9

LEMMA PlaceTableInv == Inv /\ PlaceTable => Inv'
  <1> SUFFICES ASSUME Inv, PlaceTable PROVE Inv'
    OBVIOUS
  <1>t. TypeOK /\ LayoutInv /\ PlaceInv /\ StatedInv
    BY DEF Inv
  <1>1. /\ UNCHANGED <<len, strict, heap_sizes, valid, stated, row_counts, verified>>
        /\ pc = "layout" /\ slot \in Known /\ column = Len(Schema[slot]) + 1
    BY DEF PlaceTable, input
  <1>2. /\ slot \in Nat /\ slot \in Slots /\ cursor \in Nat /\ len \in Nat /\ offset \in Nat
        /\ row_counts[slot] \in Nat
        /\ Len(Schema[slot]) \in Nat /\ Len(Schema[slot]) >= 1
    BY <1>1, <1>t, Numbers, CountTypes
  <1>3. cursor <= len /\ available = len - cursor /\ available \in Nat
    BY <1>1, <1>2, <1>t DEF PlaceInv, available
  <1>4. offset > 0
    <2>1. ColumnsPlaced(slot, column - 1, offset)
      BY <1>1, <1>t DEF LayoutInv
    <2> QED BY <1>1, <1>2, <2>1 DEF ColumnsPlaced
  <1>5. \A t \in Known : t \in Nat /\ (t < slot + 1 => t < slot \/ t = slot)
    BY <1>2, <1>t, Numbers
  <1>6. CASE /\ ~DoesNotFit
             /\ Place(row_counts[slot])
             /\ UNCHANGED <<pc, error, exhausted, diagnostics>>
    <2>1. row_counts[slot] > 0 => row_counts[slot] * offset <= len - cursor
      <3>1. row_counts[slot] * offset \in Nat
        BY <1>2
      <3> QED BY <1>3, <1>6, <3>1 DEF DoesNotFit
    <2>2. exhausted' \in BOOLEAN
      BY <1>6, <1>t DEF TypeOK
    <2>3. TypeOK' /\ LayoutInv' /\ PlaceInv'
      BY <1>1, <1>2, <1>6, <2>1, <2>2, Placed
    <2>4. StatedInv'
      <3>1. ~Diagnosed("StreamRangeClamped") =>
              \A t \in Known : t < slot + 1 => layout'[t].row_count = row_counts[t]
        BY <1>1, <1>2, <1>5, <1>6, <1>t, PlaceEffect DEF StatedInv
      <3>2. slot' = slot + 1
        BY <1>6 DEF Place
      <3> QED BY <1>1, <1>6, <1>t, <3>1, <3>2 DEF StatedInv, Stated, Diagnosed
    <2> QED BY <2>3, <2>4 DEF Inv
  <1>7. CASE /\ DoesNotFit /\ strict
             /\ Reject("Truncated")
             /\ UNCHANGED <<layout, cursor, slot, column, offset, exhausted, diagnostics>>
    <2>1. pc' = "rejected" /\ error' = "Truncated"
      BY <1>7 DEF Reject
    <2>2. TypeOK'
      BY <1>1, <1>7, <1>t, <2>1, Zenon DEF TypeOK
    <2>3. LayoutInv'
      BY <2>1 DEF LayoutInv
    <2>4. PlaceInv'
      BY <1>1, <1>7, <1>t, <2>1, GeometryFrame DEF PlaceInv, RowsInStream, TablesDisjoint
    <2>5. StatedInv'
      BY <1>1, <1>7, <1>t, <2>1 DEF StatedInv, Diagnosed
    <2> QED BY <2>2, <2>3, <2>4, <2>5 DEF Inv
  <1>8. CASE /\ DoesNotFit /\ ~strict
             /\ Record("StreamRangeClamped", slot)
             /\ Place(ClampedCount)
             /\ exhausted' = TRUE
             /\ UNCHANGED <<pc, error>>
    <2>1. ClampedCount \in Nat /\ ClampedCount * offset <= len - cursor
      BY <1>2, <1>3, <1>4, WholeRowsFit DEF ClampedCount
    <2>2. TypeOK' /\ LayoutInv' /\ PlaceInv'
      BY <1>1, <1>8, <2>1, Placed
    <2>3. Diagnosed("StreamRangeClamped")'
      <3>1. <<"StreamRangeClamped", slot>> \in diagnostics'
        BY <1>8 DEF Record
      <3>2. <<"StreamRangeClamped", slot>>[1] = "StreamRangeClamped"
        OBVIOUS
      <3> QED BY <3>1, <3>2, Zenon DEF Diagnosed
    <2>4. StatedInv'
      BY <1>1, <1>8, <1>t, <2>3 DEF StatedInv, Stated
    <2> QED BY <2>2, <2>4 DEF Inv
  <1> QED BY <1>6, <1>7, <1>8 DEF PlaceTable

LEMMA LayoutDoneInv == Inv /\ LayoutDone => Inv'
  <1> SUFFICES ASSUME Inv, LayoutDone PROVE Inv'
    OBVIOUS
  <1>1. /\ UNCHANGED <<len, strict, heap_sizes, valid, stated, error, cursor>>
        /\ UNCHANGED <<row_counts, column, offset, layout, exhausted, diagnostics, verified>>
        /\ pc = "layout" /\ slot = SlotCount /\ slot' = 0 /\ pc' = "verify"
    BY DEF LayoutDone, input
  <1>t. TypeOK /\ LayoutInv /\ PlaceInv /\ StatedInv
    BY DEF Inv
  <1>2. TypeOK'
    <2>1. slot' \in 0..SlotCount
      BY <1>1, <1>t, Numbers
    <2> QED BY <1>1, <1>t, <2>1, Zenon DEF TypeOK
  <1>3. \A t \in Known : t < slot
    BY <1>1, <1>t, Numbers
  <1>4. LayoutInv'
    BY <1>1, <1>3, <1>t, GeometryFrame DEF LayoutInv
  <1>5. PlaceInv'
    BY <1>1, <1>t, GeometryFrame DEF PlaceInv, RowsInStream, TablesDisjoint
  <1>6. StatedInv'
    BY <1>1, <1>3, <1>t DEF StatedInv, Stated, Diagnosed
  <1> QED BY <1>2, <1>4, <1>5, <1>6 DEF Inv

-------------------------------------------------------------------------------
(* The sortedness check                                                    *)

(* A step of the check moves slot, marks tables and records TableNotSorted;*)
(* the geometry is finished and every row it reads is there.               *)
LEMMA VerifyStepInv ==
  ASSUME Inv, pc = "verify", pc' \in {"verify", "done", "rejected"},
         slot' \in 0..SlotCount, verified' \subseteq Keyed,
         error' \in {error, "Malformed"},
         diagnostics' = diagnostics \/ diagnostics' = diagnostics \cup {<<"TableNotSorted", slot>>},
         UNCHANGED <<len, strict, heap_sizes, valid, stated, cursor>>,
         UNCHANGED <<row_counts, column, offset, layout, exhausted>>
  PROVE  Inv'
  <1>t. TypeOK /\ LayoutInv /\ PlaceInv /\ StatedInv
    BY DEF Inv
  <1>1. TypeOK'
    <2>1. error' \in {"none", "Truncated", "Malformed", "Unsupported", "row_bytes"}
          /\ pc' \in {"header", "counts", "layout", "verify", "done", "rejected"}
      BY <1>t DEF TypeOK
    <2> QED BY <1>t, <2>1, Zenon DEF TypeOK
  <1>2. LayoutInv'
    BY <1>t, GeometryFrame DEF LayoutInv
  <1>3. PlaceInv'
    <2>1. error' # "row_bytes"
      BY <1>t DEF PlaceInv, RowsInStream
    <2> QED BY <1>t, <2>1, GeometryFrame DEF PlaceInv, RowsInStream, TablesDisjoint
  <1>4. StatedInv'
    <2>1. Diagnosed("StreamRangeClamped")' <=> Diagnosed("StreamRangeClamped")
      BY DEF Diagnosed
    <2> QED BY <1>t, <2>1 DEF StatedInv, Stated
  <1> QED BY <1>1, <1>2, <1>3, <1>4 DEF Inv

LEMMA SkipUnkeyedInv == Inv /\ SkipUnkeyed => Inv'
  <1> SUFFICES ASSUME Inv, SkipUnkeyed PROVE Inv'
    OBVIOUS
  <1>1. slot' \in 0..SlotCount /\ verified' \subseteq Keyed
    <2>1. slot \in 0..(SlotCount - 1) /\ SlotCount \in Nat /\ verified \subseteq Keyed
      BY StreamAssumption DEF SkipUnkeyed, Slots, Inv, TypeOK
    <2> QED BY <2>1 DEF SkipUnkeyed
  <1> QED BY <1>1, VerifyStepInv DEF SkipUnkeyed, input

LEMMA VerifyTableInv == Inv /\ VerifyTable => Inv'
  <1> SUFFICES ASSUME Inv, VerifyTable PROVE Inv'
    OBVIOUS
  <1>1. /\ slot \in Keyed /\ slot \in Known /\ slot \in 0..(SlotCount - 1)
        /\ SlotCount \in Nat /\ verified \subseteq Keyed
    BY StreamAssumption DEF VerifyTable, Slots, Inv, TypeOK
  <1>2. ~(layout[slot].row_count > 1 /\ TableEnd(slot) > len)
    <2>1. layout[slot].row_count \in Nat /\ TableEnd(slot) \in Nat /\ len \in Nat
      <3>1. \A a, b, c \in Nat : a + b * c \in Nat
        OBVIOUS
      <3> QED BY <1>1, <3>1, LayoutType, Numbers DEF TableEnd, Inv
    <2>2. layout[slot].row_count > 0 => TableEnd(slot) <= len
      BY <1>1 DEF Inv, PlaceInv, RowsInStream
    <2> QED BY <2>1, <2>2
  <1>3. /\ pc = "verify" /\ pc' \in {"verify", "done", "rejected"}
        /\ slot' \in {slot, slot + 1}
        /\ verified' = verified \/ verified' = verified \cup {slot}
        /\ error' \in {error, "Malformed"}
        /\ diagnostics' = diagnostics \/ diagnostics' = diagnostics \cup {<<"TableNotSorted", slot>>}
    BY <1>2 DEF VerifyTable, Record, Reject
  <1>4. slot' \in 0..SlotCount /\ verified' \subseteq Keyed
    <2>1. slot' \in 0..SlotCount
      BY <1>1, <1>3
    <2>2. verified' \subseteq Keyed
      BY <1>1, <1>3
    <2> QED BY <2>1, <2>2
  <1> QED BY <1>3, <1>4, VerifyStepInv DEF VerifyTable, input

LEMMA VerifyDoneInv == Inv /\ VerifyDone => Inv'
  <1> SUFFICES ASSUME Inv, VerifyDone PROVE Inv'
    OBVIOUS
  <1>1. slot' \in 0..SlotCount /\ verified' \subseteq Keyed
    BY DEF VerifyDone, Inv, TypeOK
  <1> QED BY <1>1, VerifyStepInv DEF VerifyDone, input

-------------------------------------------------------------------------------
(* What the parse promises                                                 *)

(* Tables::parse keeps the invariant from the first byte to the last table.*)
THEOREM Invariance == Spec => []Inv
  <1>1. Inv /\ [Next]_vars => Inv'
    <2> SUFFICES ASSUME Inv, [Next]_vars PROVE Inv'
      OBVIOUS
    <2>1. CASE UNCHANGED vars
      BY <2>1, StutterInv
    <2>2. CASE ReadHeader \/ SkipAbsent \/ ReadCount \/ ReadExtraData
      BY <2>2, ReadHeaderInv, SkipAbsentInv, ReadCountInv, ReadExtraDataInv
    <2>3. CASE SkipReserved \/ LayoutColumn \/ PlaceTable \/ LayoutDone
      BY <2>3, SkipReservedInv, LayoutColumnInv, PlaceTableInv, LayoutDoneInv
    <2>4. CASE SkipUnkeyed \/ VerifyTable \/ VerifyDone
      BY <2>4, SkipUnkeyedInv, VerifyTableInv, VerifyDoneInv
    <2> QED BY <2>1, <2>2, <2>3, <2>4 DEF Next
  <1> QED BY <1>1, InitInv, PTL DEF Spec

(* The locals of Tables::parse keep their types.                           *)
THEOREM TypeCorrect == Spec => []TypeOK
  <1>1. Inv => TypeOK
    BY DEF Inv
  <1> QED BY <1>1, Invariance, PTL

(* Every row a layout promises lies in the stream: row_bytes finds its     *)
(* bytes for every RID up to row_count.                                    *)
THEOREM RowsExist == Spec => []RowsInStream
  <1>1. Inv => RowsInStream
    BY DEF Inv, PlaceInv
  <1> QED BY <1>1, Invariance, PTL

(* No two tables share bytes, clamped or not.                              *)
THEOREM TablesAreDisjoint == Spec => []TablesDisjoint
  <1>1. Inv => TablesDisjoint
    BY DEF Inv, PlaceInv
  <1> QED BY <1>1, Invariance, PTL

(* The columns tile the row in schema order, so read_uint_at finds each.   *)
THEOREM ColumnsTileRows == Spec => []ColumnsTile
  <1>1. Inv => ColumnsTile
    <2> SUFFICES ASSUME Inv, pc \in {"verify", "done"}, NEW t \in Known
                 PROVE  LET l == layout[t] IN
                          /\ Len(l.offsets) = Len(Schema[t]) /\ Len(l.widths) = Len(Schema[t])
                          /\ l.row_size <= 255
                          /\ l.offsets[1] = 0
                          /\ \A i \in 1..Len(Schema[t]) :
                               l.offsets[i] + l.widths[i] =
                                 IF i = Len(Schema[t]) THEN l.row_size ELSE l.offsets[i + 1]
      BY DEF ColumnsTile
    <2> DEFINE n == Len(Schema[t])
    <2>1. Complete(t)
      BY DEF Inv, LayoutInv
    <2>2. n \in Nat /\ n >= 1 /\ n <= 9 /\ layout[t].row_size \in Nat
      BY Numbers, LayoutType DEF Inv, MaxColumns
    <2>3. layout[t].row_size <= 255 /\ layout[t].offsets[1] = 0
          /\ Len(layout[t].offsets) = n /\ Len(layout[t].widths) = n
      BY <2>1, <2>2 DEF Complete, ColumnsPlaced
    <2>4. ASSUME NEW i \in 1..n
          PROVE  layout[t].offsets[i] + layout[t].widths[i] =
                   IF i = n THEN layout[t].row_size ELSE layout[t].offsets[i + 1]
      BY <2>1, <2>2 DEF Complete, ColumnsPlaced
    <2> QED BY <2>3, <2>4
  <1> QED BY <1>1, Invariance, PTL

(* Unless a clamp was reported, a 2-byte index reaches every row of the    *)
(* table it names and of its *Ptr table.                                   *)
THEOREM NarrowIndexesReach == Spec => []NarrowIndexReaches
  <1>1. Inv => NarrowIndexReaches
    <2> SUFFICES ASSUME Inv, pc = "done", ~Diagnosed("StreamRangeClamped"),
                        NEW t \in Known, NEW i \in 1..Len(Schema[t]),
                        Schema[t][i].kind = "rid", layout[t].widths[i] = 2
                 PROVE  /\ layout[Schema[t][i].to].row_count < NarrowRows
                        /\ PtrSource[Schema[t][i].to] # NoTable =>
                             layout[PtrSource[Schema[t][i].to]].row_count < NarrowRows
      BY DEF NarrowIndexReaches
    <2> DEFINE k == Schema[t][i]
    <2>1. Complete(t)
      BY DEF Inv, LayoutInv
    <2>2. column_width(k) = 2
      BY <2>1 DEF Complete, ColumnsPlaced
    <2>3. RidIsNarrow(k.to)
      BY <2>2 DEF column_width
    <2>4. k \in [kind : {"rid"}, to : Known]
      <3>1. k \in ColumnKinds
        BY StreamAssumption
      <3> QED BY <3>1 DEF ColumnKinds
    <2>5. k.to \in Known /\ (PtrSource[k.to] # NoTable => PtrSource[k.to] \in Known)
      BY <2>4, StreamAssumption
    <2>6. \A u \in Known : layout[u].row_count = row_counts[u]
      BY DEF Inv, StatedInv
    <2> QED BY <2>3, <2>5, <2>6 DEF RidIsNarrow
  <1> QED BY <1>1, Invariance, PTL

(* A parse that reports no clamp has the rows the stream states, and a     *)
(* strict parse never clamps.                                              *)
THEOREM ClampIsReported == Spec => []StatedUnlessDiagnosed
  <1>1. Inv => StatedUnlessDiagnosed
    BY DEF Inv, StatedInv, Stated, StatedUnlessDiagnosed
  <1> QED BY <1>1, Invariance, PTL

===============================================================================
