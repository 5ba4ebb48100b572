--------------------------- MODULE MemberRowsProofs ----------------------------
(***************************************************************************)
(* ListOwner for every list column, every target and every member: the     *)
(* owner returned owns the member, None means nobody does, the bisection   *)
(* stays inside the table, and on ascending columns it needs no scan.      *)
(* Then MemberRows for every image: what ListOwner promises holds beside   *)
(* the walks, no walk leaves the table it reads, and on a conforming image *)
(* every walk reads every row exactly once.                                *)
(***************************************************************************)
EXTENDS MemberRows, TLAPS

-------------------------------------------------------------------------------
(* The owner of a member                                                    *)

(* What bisection, check, scan and return have established.                *)
BisectInv ==
  pc = "bisect" =>
    /\ lo <= hi + 1
    /\ hi <= count
    /\ candidate = lo - 1
    /\ result = 0
    /\ Ascending => \A o \in 1..count : /\ o < lo => column[o] <= member
                                        /\ o > hi => column[o] > member

CheckInv ==
  pc = "check" =>
    /\ result = 0
    /\ Ascending => \A o \in 1..count : /\ o <= candidate => column[o] <= member
                                        /\ o > candidate => column[o] > member

ScanInv ==
  pc = "scan" =>
    /\ rid <= count + 1
    /\ result = 0
    /\ \A o \in 1..count : o < rid => member \notin Run(o)

Inv ==
  /\ TypeOK
  /\ BisectInv
  /\ CheckInv
  /\ ScanInv
  /\ OwnerOwns
  /\ NoneMeansOrphan
  /\ BisectionSuffices
  /\ RangeIsLogical

-------------------------------------------------------------------------------

(* The counts and the raw values are numbers the loops can compare.        *)
LEMMA ImageType ==
  ASSUME TypeOK
  PROVE  /\ count \in Nat
         /\ count < MaxU32
         /\ MaxU32 \in Nat
         /\ member \in Nat
         /\ logical_row_count \in Nat
         /\ limit \in Nat
         /\ 1 <= limit
         /\ limit <= MaxU32
         /\ \A o \in 1..count : column[o] \in Nat
  BY ListAssumption DEF TypeOK, count, limit, logical_row_count

(* The midpoint of a bracket of at least one row lies inside it.           *)
LEMMA MidInside ==
  ASSUME NEW l \in Nat, NEW h \in Nat, l <= h
  PROVE  /\ l + (h - l) \div 2 \in Nat
         /\ l <= l + (h - l) \div 2
         /\ l + (h - l) \div 2 <= h
  OBVIOUS

(* Both ends of a run are logical RIDs, or one past the last, in order.    *)
LEMMA RunEnds ==
  ASSUME TypeOK, NEW o \in 1..count
  PROVE  /\ Start(o) \in 1..limit
         /\ RunEnd(o) \in 1..limit
         /\ Start(o) <= RunEnd(o)
  BY ImageType DEF Start, RunEnd, Clamp

(* Clamping and the cut-back of inverted runs, reduced to what they mean:  *)
(* an owner owns the members from its own value up to the next owner's.    *)
LEMMA RunMeans ==
  ASSUME TypeOK, NEW o \in 1..count, NEW m \in Nat
  PROVE  m \in Run(o) <=> /\ 1 <= m
                          /\ m < limit
                          /\ column[o] <= m
                          /\ o # count => column[o + 1] > m
  <1> USE ImageType
  <1>1. m \in Run(o) <=> Start(o) <= m /\ m < RunEnd(o)
    BY RunEnds DEF Run
  <1>2. CASE o = count
    BY <1>1, <1>2 DEF Start, RunEnd, Clamp
  <1>3. CASE o # count
    <2>1. column[o] \in Nat /\ column[o + 1] \in Nat
      BY <1>3
    <2> QED BY <1>1, <1>3, <2>1 DEF Start, RunEnd, Clamp
  <1> QED BY <1>2, <1>3

(* On an ascending column two owners of one member are the same row.       *)
LEMMA OwnerUnique ==
  ASSUME TypeOK, Ascending, NEW m \in Nat,
         NEW o \in 1..count, NEW p \in 1..count, m \in Run(o), m \in Run(p)
  PROVE  o = p
  <1> USE ImageType
  <1>1. ASSUME NEW q \in 1..count, NEW r \in 1..count, m \in Run(q), m \in Run(r), q < r
        PROVE  FALSE
    <2>1. column[q + 1] > m
      BY <1>1, RunMeans
    <2>2. column[q + 1] <= column[r]
      BY <1>1 DEF Ascending
    <2>3. column[r] <= m
      BY <1>1, RunMeans
    <2> QED BY <2>1, <2>2, <2>3, <1>1
  <1> QED BY <1>1

(* The image never changes under a lookup.                                 *)
LEMMA ImageFixed ==
  ASSUME [Next]_vars
  PROVE  /\ UNCHANGED image
         /\ count' = count
         /\ limit' = limit
         /\ logical_row_count' = logical_row_count
         /\ Ascending' = Ascending
         /\ \A o \in 1..count : Run(o)' = Run(o)
  <1>1. UNCHANGED image
    BY DEF Next, Step, Probe, BisectDone, CheckCandidate, ScanOwner, ScanDone,
           owner_of_list, list_range, vars
  <1> QED BY <1>1 DEF image, count, limit, logical_row_count, Ascending, Run, Start, RunEnd

-------------------------------------------------------------------------------

LEMMA InitInv == Init => Inv
  <1> SUFFICES ASSUME Init PROVE Inv
    OBVIOUS
  <1>1. column \in Seq(0..MaxU32) /\ count \in Nat /\ count < MaxU32
    BY ListAssumption DEF Init, count
  <1>2. TypeOK
    <2>1. /\ lo \in 1..MaxU32 /\ hi \in 0..MaxU32 /\ rid \in 1..MaxU32
          /\ candidate \in 0..count /\ result \in 0..count
      BY <1>1, ListAssumption DEF Init
    <2>2. range \in Seq(1..MaxU32)
      BY DEF Init
    <2> QED BY <2>1, <2>2 DEF Init, TypeOK
  <1> QED BY <1>2 DEF Init, Inv, BisectInv, CheckInv, ScanInv, OwnerOwns,
                      NoneMeansOrphan, BisectionSuffices, RangeIsLogical

(* Every iteration keeps the invariant.                                    *)
LEMMA StepInv == Inv /\ Step => Inv'
  <1> SUFFICES ASSUME Inv, Step PROVE Inv'
    OBVIOUS
  <1> USE ImageType
  <1>t. TypeOK
    BY DEF Inv
  <1>0. /\ UNCHANGED image /\ count' = count /\ limit' = limit
        /\ logical_row_count' = logical_row_count
        /\ Ascending' = Ascending /\ \A o \in 1..count : Run(o)' = Run(o)
    BY ImageFixed DEF Next
  <1>r. range' = range /\ RangeIsLogical'
    BY <1>0 DEF Inv, RangeIsLogical, Step, Probe, BisectDone, CheckCandidate,
                ScanOwner, ScanDone
  <1>m. member' = member
    BY DEF Step, Probe, BisectDone, CheckCandidate, ScanOwner, ScanDone, bisection
  <1>1. CASE Probe
    <2>1. mid \in 1..count /\ lo <= mid /\ mid <= hi
      BY <1>1, <1>t, MidInside DEF Inv, TypeOK, BisectInv, mid, Probe
    <2>2. TypeOK'
      BY <1>0, <1>1, <1>t, <1>r, <2>1 DEF TypeOK, Probe, image
    <2>3. BisectInv'
      <3>1. CASE column[mid] <= member /\ candidate' = mid /\ lo' = mid + 1 /\ UNCHANGED <<hi, pc>>
        <4>1. Ascending => \A o \in 1..count : o < lo' => column[o] <= member
          BY <2>1, <3>1, <1>t DEF Ascending
        <4> QED BY <1>0, <1>1, <1>m, <1>t, <2>1, <3>1, <4>1 DEF Inv, BisectInv, TypeOK, Probe, image
      <3>2. CASE column[mid] > member /\ mid # 1 /\ hi' = mid - 1 /\ UNCHANGED <<lo, candidate, pc>>
        <4>1. Ascending => \A o \in 1..count : o > hi' => column[o] > member
          BY <2>1, <3>2, <1>t DEF Ascending
        <4> QED BY <1>0, <1>1, <1>m, <1>t, <2>1, <3>2, <4>1 DEF Inv, BisectInv, TypeOK, Probe, image
      <3>3. CASE pc' = "check"
        BY <3>3 DEF BisectInv
      <3> QED BY <1>1, <3>1, <3>2, <3>3 DEF Probe
    <2>4. CheckInv'
      <3>1. CASE pc' = "bisect"
        BY <3>1 DEF CheckInv
      <3>2. CASE column[mid] > member /\ mid = 1 /\ pc' = "check" /\ UNCHANGED <<lo, hi, candidate>>
        <4>1. candidate' = 0 /\ result' = 0
          BY <1>1, <1>t, <2>1, <3>2 DEF Inv, BisectInv, TypeOK, Probe
        <4>2. Ascending => \A o \in 1..count : column[o] > member
          BY <2>1, <3>2, <1>t DEF Ascending
        <4> QED BY <1>0, <1>m, <4>1, <4>2 DEF CheckInv, image
      <3> QED BY <1>1, <3>1, <3>2 DEF Probe
    <2>5. pc' \in {"bisect", "check"}
      BY <1>1 DEF Probe
    <2> QED BY <2>2, <2>3, <2>4, <2>5, <1>r
            DEF Inv, ScanInv, OwnerOwns, NoneMeansOrphan, BisectionSuffices
  <1>2. CASE BisectDone
    <2>1. TypeOK'
      BY <1>0, <1>2, <1>t, <1>r DEF TypeOK, BisectDone, image, bisection
    <2>2. CheckInv'
      BY <1>0, <1>2, <1>m, <1>t DEF Inv, BisectInv, CheckInv, TypeOK, BisectDone, image, bisection
    <2>3. pc' = "check"
      BY <1>2 DEF BisectDone
    <2> QED BY <2>1, <2>2, <2>3, <1>r
            DEF Inv, BisectInv, ScanInv, OwnerOwns, NoneMeansOrphan, BisectionSuffices
  <1>3. CASE CheckCandidate
    <2>1. TypeOK'
      BY <1>0, <1>3, <1>t, <1>r DEF TypeOK, CheckCandidate, image, bisection
    <2>2. CASE candidate # 0 /\ member \in Run(candidate) /\ result' = candidate /\ pc' = "returned"
      <3>1. candidate \in 1..count
        BY <2>2, <1>t DEF TypeOK
      <3>2. OwnerOwns' /\ NoneMeansOrphan'
        <4>1. Run(result)' = Run(candidate)
          BY <2>2, <3>1, <1>0 DEF Run, Start, RunEnd, image
        <4> QED BY <2>2, <3>1, <4>1, <1>m DEF OwnerOwns, NoneMeansOrphan
      <3>3. Ascending => \A o \in 1..count : member \in Run(o) => o = candidate
        BY <2>2, <3>1, <1>t, OwnerUnique
      <3> QED BY <2>1, <2>2, <3>2, <3>3, <1>0, <1>m, <1>r
              DEF Inv, BisectInv, CheckInv, ScanInv, BisectionSuffices
    <2>3. CASE ~(candidate # 0 /\ member \in Run(candidate)) /\ rid' = 1 /\ pc' = "scan"
               /\ result' = result
      <3>1. Ascending => \A o \in 1..count : member \notin Run(o)
        <4> SUFFICES ASSUME Ascending, NEW o \in 1..count, member \in Run(o)
                     PROVE  FALSE
          OBVIOUS
        <4>1. column[o] <= member /\ (o # count => column[o + 1] > member)
          BY <1>t, RunMeans
        <4>2. candidate \in 0..count
          BY <1>t DEF TypeOK
        <4>3. o <= candidate
          BY <1>3, <1>t, <4>1, <4>2 DEF Inv, CheckInv, CheckCandidate
        <4>4. ~(o < candidate)
          BY <1>3, <1>t, <4>1, <4>2 DEF Inv, CheckInv, CheckCandidate
        <4> QED BY <2>3, <4>2, <4>3, <4>4
      <3>2. result' = 0
        BY <1>3, <2>3 DEF Inv, CheckInv, CheckCandidate
      <3> QED BY <2>1, <2>3, <3>1, <3>2, <1>0, <1>m, <1>r, <1>t
              DEF Inv, BisectInv, CheckInv, ScanInv, OwnerOwns, NoneMeansOrphan, BisectionSuffices
    <2> QED BY <1>3, <2>2, <2>3 DEF CheckCandidate
  <1>4. CASE ScanOwner
    <2>0. rid \in 1..count
      BY <1>4, <1>t DEF TypeOK, ScanOwner
    <2>1. TypeOK'
      BY <1>0, <1>4, <1>t, <1>r, <2>0 DEF TypeOK, ScanOwner, image, bisection
    <2>2. CASE member \in Run(rid) /\ result' = rid /\ pc' = "returned"
      <3>1. OwnerOwns' /\ NoneMeansOrphan'
        <4>1. Run(result)' = Run(rid)
          BY <2>0, <2>2, <1>0 DEF Run, Start, RunEnd, image
        <4> QED BY <2>0, <2>2, <4>1, <1>m DEF OwnerOwns, NoneMeansOrphan
      <3>2. Ascending => \A o \in 1..count : member \in Run(o) => o = rid
        BY <2>0, <2>2, <1>t, OwnerUnique
      <3> QED BY <2>1, <2>2, <3>1, <3>2, <1>0, <1>m, <1>r
              DEF Inv, BisectInv, CheckInv, ScanInv, BisectionSuffices
    <2>3. CASE member \notin Run(rid) /\ rid' = rid + 1 /\ UNCHANGED <<result, pc>>
      <3>1. ScanInv'
        BY <1>0, <1>4, <1>m, <2>0, <2>3 DEF Inv, ScanInv, ScanOwner
      <3>2. pc' = "scan" /\ BisectionSuffices'
        BY <1>0, <1>4, <1>m, <2>3 DEF Inv, BisectionSuffices, ScanOwner
      <3> QED BY <2>1, <3>1, <3>2, <1>r
              DEF Inv, BisectInv, CheckInv, OwnerOwns, NoneMeansOrphan
    <2> QED BY <1>4, <2>2, <2>3 DEF ScanOwner
  <1>5. CASE ScanDone
    <2>1. TypeOK'
      BY <1>0, <1>5, <1>t, <1>r DEF TypeOK, ScanDone, image, bisection
    <2>2. pc' = "returned" /\ result' = 0
      BY <1>5 DEF ScanDone, Inv, ScanInv
    <2>3. \A o \in 1..count : member' \notin Run(o)'
      <3>1. \A o \in 1..count : o < rid
        BY <1>5, <1>t DEF ScanDone, TypeOK
      <3> QED BY <3>1, <1>0, <1>5, <1>m DEF ScanDone, Inv, ScanInv
    <2> QED BY <2>1, <2>2, <2>3, <1>0, <1>r
            DEF Inv, BisectInv, CheckInv, ScanInv, OwnerOwns, NoneMeansOrphan, BisectionSuffices
  <1> QED BY <1>1, <1>2, <1>3, <1>4, <1>5 DEF Step

(* A new question starts from the whole table, or is None at once.         *)
LEMMA OwnerOfListInv == ASSUME NEW m \in Members PROVE Inv /\ owner_of_list(m) => Inv'
  <1> SUFFICES ASSUME Inv, owner_of_list(m) PROVE Inv'
    OBVIOUS
  <1> USE ImageType
  <1>t. TypeOK
    BY DEF Inv
  <1>0. /\ UNCHANGED image /\ count' = count /\ limit' = limit
        /\ Ascending' = Ascending /\ \A o \in 1..count : Run(o)' = Run(o)
    BY ImageFixed DEF Next
  <1>1. range' \in Seq(1..MaxU32) /\ range' = << >>
    BY DEF owner_of_list
  <1>2. TypeOK'
    BY <1>0, <1>1, <1>t DEF TypeOK, owner_of_list, image
  <1>3. BisectInv'
    BY <1>0, <1>t DEF BisectInv, owner_of_list, image
  <1>4. pc' = "returned" => \A o \in 1..count : member' \notin Run(o)'
    BY <1>0 DEF owner_of_list, Run
  <1>5. pc' \in {"returned", "bisect"} /\ result' = 0
    BY DEF owner_of_list
  <1> QED BY <1>0, <1>1, <1>2, <1>3, <1>4, <1>5
          DEF Inv, CheckInv, ScanInv, OwnerOwns, NoneMeansOrphan, BisectionSuffices, RangeIsLogical

(* A range is computed without touching a lookup's result.                 *)
LEMMA ListRangeInv == ASSUME NEW o \in Nat PROVE Inv /\ list_range(o) => Inv'
  <1> SUFFICES ASSUME Inv, list_range(o) PROVE Inv'
    OBVIOUS
  <1> USE ImageType
  <1>t. TypeOK
    BY DEF Inv
  <1>0. UNCHANGED <<image, bisection, pc, rid, result>>
    BY DEF list_range
  <1>1. /\ count' = count /\ limit' = limit /\ logical_row_count' = logical_row_count
        /\ Ascending' = Ascending /\ \A p \in 1..count : Run(p)' = Run(p)
    BY <1>0 DEF image, count, limit, logical_row_count, Ascending, Run, Start, RunEnd
  <1>2. /\ range' \in Seq(1..MaxU32)
        /\ range' # << >> => 1 <= range'[1] /\ range'[1] <= range'[2] /\ range'[2] <= limit
    <2>1. CASE o = 0 \/ o > count
      <3>1. range' = << >>
        BY <2>1, Zenon DEF list_range
      <3> QED BY <3>1
    <2>2. CASE o \in 1..count
      <3>0. ~(o = 0 \/ o > count)
        BY <2>2, <1>t
      <3>1. range' = <<Start(o), RunEnd(o)>>
        BY <3>0, Zenon DEF list_range
      <3>2. Start(o) \in 1..MaxU32 /\ RunEnd(o) \in 1..MaxU32
        BY <2>2, <1>t, RunEnds
      <3>3. Start(o) <= RunEnd(o) /\ RunEnd(o) <= limit /\ 1 <= Start(o)
        BY <2>2, <1>t, RunEnds
      <3> HIDE DEF Inv
      <3>4. range' \in Seq(1..MaxU32) /\ range'[1] = Start(o) /\ range'[2] = RunEnd(o)
        BY <3>1, <3>2
      <3> QED BY <3>3, <3>4
    <2> QED BY <2>1, <2>2, <1>t
  <1>3. TypeOK'
    BY <1>0, <1>1, <1>2, <1>t DEF TypeOK, image, bisection
  <1>4. RangeIsLogical'
    BY <1>1, <1>2 DEF RangeIsLogical, limit
  <1>5. pc' \in {"idle", "returned"}
    BY <1>0 DEF list_range, Idle
  <1>6. OwnerOwns' /\ NoneMeansOrphan' /\ BisectionSuffices'
    BY <1>0, <1>1, <1>t DEF Inv, OwnerOwns, NoneMeansOrphan, BisectionSuffices, TypeOK, bisection
  <1> QED BY <1>3, <1>4, <1>5, <1>6 DEF Inv, BisectInv, CheckInv, ScanInv

LEMMA StutterInv == Inv /\ UNCHANGED vars => Inv'
  <1> SUFFICES ASSUME Inv, UNCHANGED vars PROVE Inv'
    OBVIOUS
  <1>1. /\ count' = count /\ limit' = limit /\ logical_row_count' = logical_row_count
        /\ Ascending' = Ascending /\ \A o \in 1..count : Run(o)' = Run(o)
    BY DEF vars, image, count, limit, logical_row_count, Ascending, Run, Start, RunEnd
  <1>2. TypeOK' /\ BisectInv' /\ CheckInv' /\ ScanInv' /\ RangeIsLogical'
    BY <1>1 DEF Inv, TypeOK, BisectInv, CheckInv, ScanInv, RangeIsLogical, vars, image, bisection
  <1>3. OwnerOwns' /\ NoneMeansOrphan' /\ BisectionSuffices'
    BY <1>1 DEF Inv, TypeOK, OwnerOwns, NoneMeansOrphan, BisectionSuffices, vars, bisection
  <1> QED BY <1>2, <1>3 DEF Inv

(* Inv holds throughout, whatever is asked and in whatever order.          *)
THEOREM Invariance == Spec => []Inv
  <1>1. Inv /\ [Next]_vars => Inv'
    <2> SUFFICES ASSUME Inv, [Next]_vars PROVE Inv'
      OBVIOUS
    <2>1. \A o \in 0..(count + 1) : o \in Nat
      OBVIOUS
    <2> QED BY <2>1, StepInv, OwnerOfListInv, ListRangeInv, StutterInv DEF Next
  <1> QED BY InitInv, <1>1, PTL DEF Spec

(* The locals keep their types, whatever the image holds.                  *)
THEOREM TypeCorrect == Spec => []TypeOK
  BY Invariance, PTL DEF Inv

(* The bisection never leaves the owner table.                             *)
THEOREM BisectionStaysInTable == Spec => []BisectionInTable
  <1>1. Inv => BisectionInTable
    BY ImageType, MidInside DEF Inv, TypeOK, BisectInv, BisectionInTable, mid
  <1> QED BY Invariance, <1>1, PTL

(* owner_of_list is exact in both directions, on any column.               *)
THEOREM OwnerIsExact == Spec => []OwnerExact
  BY Invariance, PTL DEF Inv, OwnerExact

(* On ascending columns the bisection alone decides, and the owner it      *)
(* finds is the only one: the scan is for disordered images.               *)
THEOREM AscendingNeedsNoScan == Spec => []BisectionSuffices
  BY Invariance, PTL DEF Inv

(* Every RID of a returned range is a logical row of the target.           *)
THEOREM RangesAreLogical == Spec => []RangeIsLogical
  BY Invariance, PTL DEF Inv

-------------------------------------------------------------------------------
(* The walks over lists                                                     *)

(* The image, the range being read, and what has been read of it.          *)
ReadingOK ==
  /\ ptr \in PtrColumns
  /\ Len(ptr) = ptrRows
  /\ walk \in {"none", "owners", "logical", "physical"}
  /\ owner \in 0..count
  /\ at \in Nat
  /\ end \in Nat
  /\ items \in Seq([rid : Nat, row : Nat])

RangeOK ==
  /\ walk = "none" => items = << >> /\ owner = 0
  /\ walk = "logical" => 1 <= at /\ at <= end /\ end = limit
  /\ walk = "physical" => 1 <= at /\ at <= end /\ end = targetRows + 1
  /\ walk = "owners" =>
       IF owner = 0 THEN at = 0 /\ end = 0 /\ items = << >>
       ELSE Start(owner) <= at /\ at <= end /\ end = RunEnd(owner)

(* The row a walk reads at a RID.                                          *)
ReadAt(r) == IF walk = "physical" THEN row(r) ELSE row_indirect(r)

ItemsOK == \A n \in 1..Len(items) : items[n].row = ReadAt(items[n].rid)

(* On a conforming image a walk passes every RID from 1 up, in order.      *)
InOrder ==
  Conforming /\ walk # "none" =>
    /\ (walk = "owners" => owner > 0) => Len(items) = at - 1
    /\ \A n \in 1..Len(items) : items[n].rid = n

WalkInv == ReadingOK /\ RangeOK /\ ItemsOK /\ WalksStayInside /\ InOrder

-------------------------------------------------------------------------------

(* A step of a client is a step of a lookup, or leaves the lookups alone.  *)
LEMMA StepLifts == [MemberNext]_memberVars => [Next]_vars
  BY DEF MemberNext, memberVars, Lookup, ReadMembers, iter_indirect, iter, StartWalk,
         NextRow, NextOwner, Yield

(* The walks do not disturb the lookups: all of ListOwner's theorems hold  *)
(* of a client that also reads.                                            *)
THEOREM LookupsUndisturbed == MemberSpec => Spec
  <1>1. MemberInit => Init
    BY DEF MemberInit
  <1> QED BY <1>1, StepLifts, PTL DEF MemberSpec, Spec

THEOREM LookupInvariance == MemberSpec => []Inv
  BY LookupsUndisturbed, Invariance, PTL

-------------------------------------------------------------------------------

(* The constants and operators of an image, as numbers.                    *)
LEMMA MemberTypes ==
  ASSUME TypeOK, ReadingOK
  PROVE  /\ targetRows \in Nat
         /\ ptrRows \in Nat
         /\ count \in Nat
         /\ limit = logical_row_count + 1
         /\ logical_row_count = IF ptrRows > 0 THEN ptrRows ELSE targetRows
         /\ \A l \in 1..ptrRows : ptr[l] \in Nat
         /\ \A r \in Nat : row(r) \in Nat /\ row_indirect(r) \in Nat
  <1>1. targetRows \in Nat /\ ptrRows \in Nat /\ count \in Nat
    BY ImageType, ListAssumption DEF TypeOK
  <1>2. ptr \in Seq(0..MaxU32) /\ MaxU32 \in Nat
    BY PtrAssumption, ListAssumption DEF ReadingOK
  <1>3. \A l \in 1..ptrRows : ptr[l] \in Nat
    BY <1>1, <1>2 DEF ReadingOK
  <1>4. \A r \in Nat : row(r) \in Nat /\ row_indirect(r) \in Nat
    BY <1>1, <1>3 DEF row, row_indirect, resolve_indirection, NoRow
  <1> QED BY <1>1, <1>3, <1>4 DEF limit, logical_row_count

(* A walk steps over the image, which stays.                               *)
LEMMA WalkImageFixed ==
  ASSUME UNCHANGED <<vars, ptr>>
  PROVE  /\ UNCHANGED <<image, count, limit, logical_row_count, targetRows, ptrRows>>
         /\ Conforming' = Conforming
         /\ \A o : Start(o)' = Start(o) /\ RunEnd(o)' = RunEnd(o)
         /\ \A r : row(r)' = row(r) /\ row_indirect(r)' = row_indirect(r)
  BY DEF vars, image, count, limit, logical_row_count, Conforming, Ascending, Start, RunEnd,
         row, row_indirect, resolve_indirection

LEMMA InitWalk == MemberInit /\ TypeOK => WalkInv
  <1> SUFFICES ASSUME MemberInit, TypeOK PROVE WalkInv
    OBVIOUS
  <1>1. count \in Nat
    BY ImageType
  <1> QED BY <1>1 DEF MemberInit, WalkInv, ReadingOK, RangeOK, ItemsOK, WalksStayInside, InOrder

(* A walk starts at the front of what it reads, with nothing read.         *)
LEMMA StartInv ==
  ASSUME TypeOK, WalkInv, ReadMembers \/ iter_indirect \/ iter
  PROVE  WalkInv'
  <1>1. /\ UNCHANGED <<vars, ptr, owner>> /\ items' = << >> /\ walk = "none" /\ owner = 0
        /\ \/ walk' = "owners" /\ at' = 0 /\ end' = 0
           \/ walk' = "logical" /\ at' = 1 /\ end' = limit
           \/ walk' = "physical" /\ at' = 1 /\ end' = targetRows + 1
    BY DEF ReadMembers, iter_indirect, iter, StartWalk, WalkInv, RangeOK, limit
  <1> HIDE DEF ReadMembers, iter_indirect, iter
  <1>2. /\ UNCHANGED <<count, limit, targetRows, ptrRows>>
        /\ limit \in Nat /\ 1 <= limit /\ targetRows \in Nat
    BY <1>1, WalkImageFixed, ImageType, MemberTypes DEF WalkInv
  <1>3. ReadingOK'
    BY <1>1, <1>2 DEF WalkInv, ReadingOK
  <1>4. RangeOK'
    BY <1>1, <1>2 DEF RangeOK
  <1>5. ItemsOK' /\ WalksStayInside' /\ InOrder'
    BY <1>1 DEF ItemsOK, WalksStayInside, InOrder
  <1> QED BY <1>3, <1>4, <1>5 DEF WalkInv

(* The RID a walk reads next is one of the table it reads.                 *)
LEMMA NextRidInside ==
  ASSUME TypeOK, WalkInv, at < end, walk # "none"
  PROVE  /\ 1 <= at
         /\ walk = "physical" => at <= targetRows
         /\ walk # "physical" => at <= logical_row_count
  <1>1. ReadingOK /\ RangeOK
    BY DEF WalkInv
  <1>2. CASE walk = "owners"
    <2>1. owner # 0
      BY <1>1, <1>2 DEF RangeOK
    <2>2. owner \in 1..count
      BY <1>1, <2>1, MemberTypes DEF ReadingOK
    <2>3. /\ Start(owner) \in 1..limit /\ RunEnd(owner) \in 1..limit
          /\ Start(owner) <= at /\ end = RunEnd(owner)
      BY <1>1, <1>2, <2>1, <2>2, RunEnds DEF RangeOK
    <2>4. limit = logical_row_count + 1 /\ logical_row_count \in Nat /\ at \in Nat
      BY <1>1, ImageType, MemberTypes DEF ReadingOK
    <2> QED BY <1>2, <2>3, <2>4
  <1>3. CASE walk = "logical"
    <2>1. limit = logical_row_count + 1 /\ logical_row_count \in Nat /\ at \in Nat
      BY <1>1, ImageType, MemberTypes DEF ReadingOK
    <2> QED BY <1>1, <1>3, <2>1 DEF RangeOK
  <1>4. CASE walk = "physical"
    BY <1>1, <1>4, MemberTypes DEF RangeOK, ReadingOK
  <1> QED BY <1>1, <1>2, <1>3, <1>4 DEF ReadingOK

(* A read that fails was sent nowhere by a *Ptr row.                       *)
LEMMA FailedReads ==
  ASSUME TypeOK, ReadingOK, NEW r \in Nat, 1 <= r
  PROVE  /\ r <= targetRows => row(r) = r
         /\ r <= logical_row_count /\ row_indirect(r) = NoRow =>
              ptrRows > 0 /\ ptr[r] \notin 1..targetRows
  BY MemberTypes DEF row, row_indirect, resolve_indirection, NoRow

LEMMA NextRowInv == TypeOK /\ WalkInv /\ NextRow => WalkInv'
  <1> SUFFICES ASSUME TypeOK, WalkInv, NextRow PROVE WalkInv'
    OBVIOUS
  <1> DEFINE item == [rid |-> at, row |-> ReadAt(at)]
  <1>1. /\ ReadingOK /\ RangeOK /\ ItemsOK /\ WalksStayInside /\ InOrder
        /\ at < end /\ walk \in {"owners", "logical", "physical"}
        /\ items' = Append(items, item) /\ at' = at + 1
        /\ UNCHANGED <<vars, ptr, walk, owner, end>>
    BY DEF WalkInv, NextRow, Yield, ReadAt
  <1> HIDE DEF WalkInv, NextRow
  <1>2. /\ UNCHANGED <<count, limit, logical_row_count, targetRows, ptrRows>>
        /\ Conforming' = Conforming
        /\ \A o : Start(o)' = Start(o) /\ RunEnd(o)' = RunEnd(o)
        /\ \A r : ReadAt(r)' = ReadAt(r)
    BY <1>1, WalkImageFixed DEF ReadAt
  <1>3. at \in Nat /\ 1 <= at /\ end \in Nat /\ ReadAt(at) \in Nat
    BY <1>1, NextRidInside, MemberTypes DEF WalkInv, ReadingOK, ReadAt
  <1>4. item \in [rid : Nat, row : Nat] /\ items \in Seq([rid : Nat, row : Nat])
    BY <1>1, <1>3 DEF ReadingOK
  <1> HIDE DEF item
  <1>5. /\ items' \in Seq([rid : Nat, row : Nat])
        /\ Len(items') = Len(items) + 1
        /\ \A n \in 1..Len(items) : items'[n] = items[n]
        /\ items'[Len(items) + 1] = item
    BY <1>1, <1>4
  <1>6. item.rid = at /\ item.row = ReadAt(at)
    BY DEF item
  <1>7. ReadingOK'
    BY <1>1, <1>2, <1>3, <1>5 DEF ReadingOK
  <1>8. RangeOK'
    <2>1. CASE walk = "owners"
      <3>0. owner # 0
        BY <1>1, <2>1 DEF RangeOK
      <3>1. owner # 0 /\ Start(owner) \in Nat
        <4>1. owner \in 1..count
          BY <1>1, <3>0, MemberTypes DEF ReadingOK
        <4>2. limit \in Nat
          BY ImageType
        <4> QED BY <3>0, <4>1, <4>2, RunEnds
      <3> QED BY <1>1, <1>2, <1>3, <2>1, <3>1 DEF RangeOK, ReadingOK
    <2>2. CASE walk # "owners"
      BY <1>1, <1>2, <1>3, <2>2 DEF RangeOK
    <2> QED BY <2>1, <2>2
  <1>9. ItemsOK'
    BY <1>1, <1>2, <1>4, <1>5, <1>6 DEF ItemsOK
  <1>10. WalksStayInside'
    <2>0. /\ walk = "physical" => at <= targetRows
          /\ walk # "physical" => at <= logical_row_count
          /\ targetRows \in Nat /\ logical_row_count \in Nat
      BY <1>1, NextRidInside, ImageType, MemberTypes
    <2>1. /\ walk = "physical" => at \in 1..targetRows /\ ReadAt(at) # NoRow
          /\ walk # "physical" =>
               /\ at \in 1..logical_row_count
               /\ ReadAt(at) = NoRow => ptrRows > 0 /\ ptr[at] \notin 1..targetRows
      BY <1>1, <1>3, <2>0, FailedReads DEF ReadAt, NoRow
    <2>2. ASSUME NEW n \in 1..Len(items)'
          PROVE  /\ items'[n].rid \in 1..(IF walk = "physical" THEN targetRows ELSE logical_row_count)
                 /\ items'[n].row = NoRow => /\ walk # "physical"
                                             /\ ptrRows > 0
                                             /\ ptr[items'[n].rid] \notin 1..targetRows
      <3>1. CASE n = Len(items) + 1
        BY <1>5, <1>6, <2>1, <3>1
      <3>2. CASE n \in 1..Len(items)
        BY <1>1, <1>5, <3>2 DEF WalksStayInside
      <3> QED BY <1>4, <1>5, <3>1, <3>2
    <2> QED BY <1>1, <1>2, <2>2 DEF WalksStayInside
  <1>11. InOrder'
    <2> SUFFICES ASSUME Conforming, walk # "none"
                 PROVE  /\ (walk = "owners" => owner > 0) => Len(items)' = at' - 1
                        /\ \A n \in 1..Len(items)' : items'[n].rid = n
      BY <1>1, <1>2 DEF InOrder
    <2>1. walk = "owners" => owner > 0
      BY <1>1, <1>3, MemberTypes DEF RangeOK, ReadingOK
    <2>2. Len(items) = at - 1 /\ \A n \in 1..Len(items) : items[n].rid = n
      BY <1>1, <2>1 DEF InOrder
    <2> QED BY <1>1, <1>3, <1>4, <1>5, <1>6, <2>2
  <1> QED BY <1>7, <1>8, <1>9, <1>10, <1>11 DEF WalkInv

(* On a conforming image the runs follow each other without a gap.         *)
LEMMA RunsMeet ==
  ASSUME TypeOK, Conforming
  PROVE  /\ Start(1) = 1
         /\ RunEnd(count) = limit
         /\ \A o \in 1..(count - 1) : RunEnd(o) = Start(o + 1)
  <1>1. /\ count \in Nat /\ count > 0 /\ limit \in Nat /\ 1 <= limit
        /\ \A o \in 1..count : column[o] \in Nat
    BY ImageType DEF Conforming
  <1>2. \A o \in 1..count : 1 <= column[o] /\ column[o] <= limit
    BY <1>1 DEF Conforming, Ascending
  <1>3. \A o \in 1..count : Start(o) = column[o]
    BY <1>1, <1>2 DEF Start, Clamp
  <1>4. RunEnd(count) = limit
    BY <1>1, <1>2, <1>3 DEF RunEnd
  <1>5. ASSUME NEW o \in 1..(count - 1) PROVE RunEnd(o) = Start(o + 1)
    <2>1. o \in 1..count /\ o + 1 \in 1..count /\ o # count
      BY <1>1
    <2>2. column[o] <= column[o + 1]
      BY <2>1, <1>1 DEF Conforming, Ascending
    <2> QED BY <1>1, <1>2, <1>3, <2>1, <2>2 DEF RunEnd, Clamp
  <1> QED BY <1>1, <1>3, <1>4, <1>5 DEF Conforming

LEMMA NextOwnerInv == TypeOK /\ WalkInv /\ NextOwner => WalkInv'
  <1> SUFFICES ASSUME TypeOK, WalkInv, NextOwner PROVE WalkInv'
    OBVIOUS
  <1>1. /\ ReadingOK /\ RangeOK /\ ItemsOK /\ WalksStayInside /\ InOrder
        /\ walk = "owners" /\ at >= end /\ owner < count /\ owner' = owner + 1
        /\ UNCHANGED <<vars, ptr, walk, items>>
    BY DEF WalkInv, NextOwner
  <1>2. /\ UNCHANGED <<count, limit, logical_row_count, targetRows, ptrRows>>
        /\ Conforming' = Conforming
        /\ \A o : Start(o)' = Start(o) /\ RunEnd(o)' = RunEnd(o)
        /\ \A r : row(r)' = row(r) /\ row_indirect(r)' = row_indirect(r)
    BY <1>1, WalkImageFixed
  <1>3. owner' \in 1..count
    BY <1>1, MemberTypes DEF ReadingOK
  <1>4. at' = Start(owner') /\ end' = RunEnd(owner')
    BY <1>2, <1>3 DEF NextOwner
  <1>5. Start(owner') \in 1..limit /\ RunEnd(owner') \in 1..limit /\ Start(owner') <= RunEnd(owner')
    BY <1>3, RunEnds
  <1>6. limit \in Nat
    BY ImageType
  <1>7. ReadingOK'
    BY <1>1, <1>2, <1>3, <1>4, <1>5, <1>6 DEF ReadingOK
  <1>8. RangeOK'
    BY <1>1, <1>2, <1>3, <1>4, <1>5, <1>6 DEF RangeOK
  <1>9. ItemsOK' /\ WalksStayInside'
    BY <1>1, <1>2 DEF ItemsOK, WalksStayInside, ReadAt
  <1>10. InOrder'
    <2> SUFFICES ASSUME Conforming
                 PROVE  /\ Len(items) = at' - 1
                        /\ \A n \in 1..Len(items) : items[n].rid = n
      BY <1>1, <1>2 DEF InOrder
    <2>1. \A n \in 1..Len(items) : items[n].rid = n
      BY <1>1 DEF InOrder
    <2>2. CASE owner = 0
      <3>1. items = << >> /\ owner' = 1
        BY <1>1, <2>2 DEF RangeOK
      <3>2. at' = 1
        BY <1>4, <3>1, RunsMeet
      <3> QED BY <2>1, <3>1, <3>2
    <2>3. CASE owner # 0
      <3>1. owner \in 1..(count - 1)
        BY <1>1, <2>3, MemberTypes DEF ReadingOK
      <3>2. at = end /\ end = RunEnd(owner)
        BY <1>1, <2>3 DEF RangeOK, ReadingOK
      <3>3. at' = at
        BY <1>1, <1>4, <3>1, <3>2, RunsMeet
      <3>4. Len(items) = at - 1
        BY <1>1, <3>1, MemberTypes DEF InOrder
      <3> QED BY <2>1, <3>3, <3>4
    <2> QED BY <2>2, <2>3
  <1> QED BY <1>7, <1>8, <1>9, <1>10 DEF WalkInv

(* A lookup only runs beside a walk that has not begun.                    *)
LEMMA LookupWalk == TypeOK /\ TypeOK' /\ WalkInv /\ Lookup => WalkInv'
  <1> SUFFICES ASSUME TypeOK, TypeOK', WalkInv, Lookup PROVE WalkInv'
    OBVIOUS
  <1>1. /\ walk = "none" /\ items = << >> /\ owner = 0
        /\ UNCHANGED <<ptr, walk, owner, at, end, items>>
        /\ UNCHANGED image
    BY ImageFixed DEF Lookup, reading, WalkInv, RangeOK
  <1>2. count' = count /\ ptrRows' = ptrRows
    BY <1>1 DEF count, image
  <1> QED BY <1>1, <1>2 DEF WalkInv, ReadingOK, RangeOK, ItemsOK, WalksStayInside, InOrder

LEMMA StutterWalk == WalkInv /\ UNCHANGED memberVars => WalkInv'
  <1> SUFFICES ASSUME WalkInv, UNCHANGED memberVars PROVE WalkInv'
    OBVIOUS
  <1>1. UNCHANGED <<vars, ptr, walk, owner, at, end, items>>
    BY DEF memberVars, reading
  <1> QED BY <1>1, WalkImageFixed
          DEF WalkInv, ReadingOK, RangeOK, ItemsOK, WalksStayInside, InOrder, ReadAt

THEOREM WalkInvariance == MemberSpec => []WalkInv
  <1>1. MemberInit => TypeOK
    BY InitInv DEF MemberInit, Inv
  <1>2. MemberInit => WalkInv
    BY <1>1, InitWalk
  <1>3. TypeOK /\ TypeOK' /\ WalkInv /\ [MemberNext]_memberVars => WalkInv'
    BY StartInv, NextRowInv, NextOwnerInv, LookupWalk, StutterWalk DEF MemberNext
  <1>4. Inv => TypeOK
    BY DEF Inv
  <1> QED BY <1>2, <1>3, <1>4, LookupInvariance, PTL DEF MemberSpec

(* However the list columns of an image are shuffled, no read of a walk    *)
(* leaves the table it addresses, and only a *Ptr row makes one fail.      *)
THEOREM NoWalkLeavesItsTable == MemberSpec => []WalksStayInside
  BY WalkInvariance, PTL DEF WalkInv

(* On a conforming image of any size each of the three walks reads every   *)
(* row of the table exactly once.                                          *)
THEOREM EveryRowOnce == MemberSpec => []MembersPartition
  <1>1. TypeOK /\ WalkInv => MembersPartition
    <2> SUFFICES ASSUME TypeOK, WalkInv, Conforming, walk # "none", WalkDone
                 PROVE  /\ Len(items) = targetRows
                        /\ {items[n].row : n \in 1..Len(items)} = 1..targetRows
                        /\ \A n \in 1..Len(items) :
                             items[n].row = IF ptrRows > 0 /\ walk # "physical" THEN ptr[n] ELSE n
      BY DEF MembersPartition
    <2>1. ReadingOK /\ RangeOK /\ ItemsOK /\ InOrder
      BY DEF WalkInv
    <2>2. logical_row_count = targetRows /\ limit = targetRows + 1 /\ targetRows \in Nat
      BY <2>1, MemberTypes DEF Conforming
    <2>3. at = targetRows + 1 /\ (walk = "owners" => owner > 0)
      BY <2>1, <2>2, RunsMeet DEF WalkDone, RangeOK, ReadingOK, Conforming
    <2>4. Len(items) = targetRows /\ \A n \in 1..targetRows : items[n].rid = n
      BY <2>1, <2>2, <2>3 DEF InOrder
    <2>5. \A n \in 1..targetRows : items[n].row = ReadAt(n)
      BY <2>1, <2>4 DEF ItemsOK
    <2>6. /\ {ReadAt(n) : n \in 1..targetRows} = 1..targetRows
          /\ \A n \in 1..targetRows :
               ReadAt(n) = IF ptrRows > 0 /\ walk # "physical" THEN ptr[n] ELSE n
      <3>1. CASE walk = "physical" \/ ptrRows = 0
        <4>1. \A n \in 1..targetRows : ReadAt(n) = n
          BY <2>2, <3>1 DEF ReadAt, row, row_indirect, resolve_indirection
        <4> QED BY <3>1, <4>1
      <3>2. CASE walk # "physical" /\ ptrRows # 0
        <4>0. ptrRows > 0
          BY <2>1, <3>2, MemberTypes
        <4>1. ptrRows = targetRows /\ {ptr[n] : n \in 1..targetRows} = 1..targetRows
          BY <4>0, Zenon DEF Conforming
        <4>2. \A n \in 1..targetRows : ReadAt(n) = ptr[n]
          BY <2>2, <3>2, <4>1 DEF ReadAt, row, row_indirect, resolve_indirection
        <4> QED BY <3>2, <4>0, <4>1, <4>2
      <3> QED BY <3>1, <3>2
    <2> QED BY <2>4, <2>5, <2>6
  <1>2. Inv => TypeOK
    BY DEF Inv
  <1> QED BY <1>1, <1>2, WalkInvariance, LookupInvariance, PTL
================================================================================
