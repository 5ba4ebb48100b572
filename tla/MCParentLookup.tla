---------------------------- MODULE MCParentLookup ----------------------------
(***************************************************************************)
(* ParentLookup on two kinds of table of up to MaxRows rows.               *)
(*                                                                         *)
(* Coded: two tag bits for three tables and two RIDs, as HasConstant with  *)
(* its RIDs scaled down.  The raw values are a null Param, Field 1, RID 1  *)
(* under the tag without a table, and RID 3, which truncates to Field 1.   *)
(* Keyed by a RID: two types nested in each other, in null and in a type   *)
(* that does not exist, in every way: cycles, types nested in themselves   *)
(* and repeated rows are among them.                                       *)
(*                                                                         *)
(* RowSchema comes along for its assumptions about the real key columns.   *)
(***************************************************************************)
EXTENDS ParentLookup, RowSchema

CONSTANT MaxRows

ColumnsOf(raws) == UNION {[1..n -> raws] : n \in 0..MaxRows}

TablesOf(is_coded, raws, others) ==
  {[coded |-> is_coded, column |-> c, second |-> o] :
     c \in ColumnsOf(raws), o \in ColumnsOf(others)}

MCKeyTables == <<"Field", "Param", "Property">>
MCTagBase == 4
MCRidBase == 2
MCMaxU32 == 15
MCTypeCount == 2
MCRids == {1, 2, 3}

MCContents ==
  {t \in TablesOf(TRUE, {1, 4, 7, 12}, {0, 1}) \cup TablesOf(FALSE, {1, 2}, 0..3) :
     Len(t.column) = Len(t.second)}
MCColumns == {t.column : t \in MCContents}
MCTokens == [table : {"Field", "Param", "TypeRef"}, rid : 0..1]
MCKeys == 0..6
===============================================================================
