------------------------------ MODULE MemberRows ------------------------------
(***************************************************************************)
(* How a client reads the members of all owners: for each owner in turn it *)
(* takes list_range and reads every RID of it through the typed accessor,  *)
(* which follows the target's *Ptr table.  The two iterators of a table    *)
(* read the same rows without the owners: iter_indirect through the *Ptr   *)
(* table, iter past it.                                                    *)
(*                                                                         *)
(* Logical and physical RIDs are the same integer type.  A list column and *)
(* owner_of_list speak of logical ones; the *Ptr table maps one of them to *)
(* the physical row, and must be applied to it exactly once.               *)
(***************************************************************************)
EXTENDS ListOwner, FiniteSets

CONSTANT PtrColumns    \* the contents a *Ptr table may have: a RID by row

ASSUME PtrAssumption ==
  /\ PtrColumns \subseteq Seq(0..MaxU32)
  /\ \A p \in PtrColumns : Len(p) \in RowCounts

VARIABLES
  ptr,           \* the column of the target's *Ptr table
  walk,          \* "none", "owners", "logical" or "physical"
  owner,         \* the owner whose members are being read
  at, end,       \* the RIDs left to read: a Range, or an iterator's rid and end
  items          \* what the client was given: RIDs and the physical rows read

reading == <<walk, owner, at, end, items>>
memberVars == <<vars, ptr, reading>>

NoRow == 0       \* the row of a read that failed

MemberInit ==
  /\ Init
  /\ ptr \in PtrColumns
  /\ Len(ptr) = ptrRows
  /\ walk = "none"
  /\ owner = 0
  /\ at = 0
  /\ end = 0
  /\ items = << >>

(* row: a physical row, read without indirection.                          *)
row(physical) == IF physical \in 1..targetRows THEN physical ELSE NoRow

(* resolve_indirection: a RID outside the *Ptr table is an error, and one  *)
(* of a target without one is its own row.                                 *)
resolve_indirection(logical) ==
  IF ptrRows = 0 THEN logical
  ELSE IF logical \in 1..ptrRows THEN ptr[logical] ELSE NoRow

(* Mutant: a resolved RID is taken for a logical one and resolved again.   *)
row_indirect_twice(logical) == row(resolve_indirection(resolve_indirection(logical)))

row_indirect(logical) == row(resolve_indirection(logical))

-------------------------------------------------------------------------------

(* A client that reads and one that looks up do not disturb each other, so *)
(* reading starts where no lookup has begun.                               *)
StartWalk(how, first, past) ==
  /\ pc = "idle"
  /\ walk = "none"
  /\ walk' = how
  /\ at' = first
  /\ end' = past
  /\ items' = << >>
  /\ UNCHANGED <<vars, ptr, owner>>

ReadMembers == StartWalk("owners", 0, 0)
iter_indirect == StartWalk("logical", 1, logical_row_count + 1)
iter == StartWalk("physical", 1, targetRows + 1)

Yield(physical) ==
  /\ items' = Append(items, [rid |-> at, row |-> physical])
  /\ at' = at + 1
  /\ UNCHANGED <<vars, ptr, walk, owner, end>>

NextRow ==
  /\ at < end
  /\ \/ walk \in {"owners", "logical"} /\ Yield(row_indirect(at))
     \/ walk = "physical" /\ Yield(row(at))

NextOwner ==
  /\ walk = "owners"
  /\ at >= end
  /\ owner < count
  /\ owner' = owner + 1
  /\ at' = Start(owner')
  /\ end' = RunEnd(owner')
  /\ UNCHANGED <<vars, ptr, walk, items>>

Lookup == walk = "none" /\ Next /\ UNCHANGED <<ptr, reading>>

MemberNext == Lookup \/ ReadMembers \/ iter_indirect \/ iter \/ NextRow \/ NextOwner

MemberSpec == MemberInit /\ [][MemberNext]_memberVars

(* Sequential code: a loop that can iterate does.                          *)
FairMemberSpec == MemberSpec /\ WF_memberVars(Step /\ UNCHANGED <<ptr, reading>>)

-------------------------------------------------------------------------------
(* Properties                                                              *)

(* The rows of the target, in the order of its *Ptr table if it has one.   *)
Conforming ==
  /\ count > 0 /\ column[1] = 1
  /\ Ascending
  /\ column[count] <= limit
  /\ ptrRows > 0 => /\ ptrRows = targetRows
                    /\ {ptr[l] : l \in 1..ptrRows} = 1..targetRows

WalkDone == at >= end /\ (walk = "owners" => owner = count)

(* On a conforming image every way to read a table reads each of its rows  *)
(* exactly once, in the order of the *Ptr table if the way is through it:  *)
(* the runs of the owners partition the logical RIDs, and the indirection  *)
(* maps those one to one to rows.                                          *)
MembersPartition ==
  Conforming /\ walk # "none" /\ WalkDone =>
    /\ Len(items) = targetRows
    /\ {items[n].row : n \in 1..Len(items)} = 1..targetRows
    /\ \A n \in 1..Len(items) :
         items[n].row = IF ptrRows > 0 /\ walk # "physical" THEN ptr[n] ELSE n

(* On any image, however its list columns are shuffled, no read leaves the *)
(* table it addresses: the only reads that fail are those a *Ptr row sends *)
(* to a row that does not exist.                                           *)
WalksStayInside ==
  \A n \in 1..Len(items) :
    /\ items[n].rid \in 1..(IF walk = "physical" THEN targetRows ELSE logical_row_count)
    /\ items[n].row = NoRow => /\ walk # "physical"
                               /\ ptrRows > 0
                               /\ ptr[items[n].rid] \notin 1..targetRows
===============================================================================
