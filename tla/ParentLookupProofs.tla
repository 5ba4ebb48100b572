-------------------------- MODULE ParentLookupProofs ---------------------------
(***************************************************************************)
(* SortedLookup for every column, every key and every width of the RIDs:   *)
(* the sortedness bit is exact, the lookup is complete, and verification   *)
(* and lookup together implement KeyIndex.  Then ParentLookup for every    *)
(* table, coded kind, token and integer width: the calls use the keyed     *)
(* lookup as SortedLookup allows, a parent's rows are the rows whose key   *)
(* decodes to it, and a name follows the nesting.                          *)
(***************************************************************************)
EXTENDS ParentLookup, SequenceTheorems, TLAPS

-------------------------------------------------------------------------------
(* The keyed lookup                                                         *)

(* What the verification loop has established when it is at row rid: the   *)
(* rows before it are ordered, pairwise, and previous is the last of them. *)
VerifyInv ==
  /\ pc = "verify" =>
       /\ sorted = FALSE
       /\ diagnosed = FALSE
       /\ rid <= count + 1
       /\ rid > 1 => /\ count > 1
                     /\ previous = column[rid - 1]
                     /\ Ordered(rid - 1)
  /\ pc # "verify" =>
       /\ pc # "rejected" => (sorted <=> Ordered(count))
       /\ pc = "rejected" => strict /\ declared /\ ~Ordered(count)
       /\ strict /\ declared /\ ~Ordered(count) => pc = "rejected"
       /\ diagnosed <=> (~Ordered(count) /\ pc # "rejected")

(* What the lookup's loops have established: the binary search brackets    *)
(* the first row of the run, the collecting loop holds the run up to rid,  *)
(* the scan holds every match before rid.                                  *)
LookupInv ==
  /\ pc = "search" =>
       /\ sorted
       /\ lo <= hi
       /\ hi <= count + 1
       /\ \A r \in 1..count : r < lo => column[r] < key
       /\ \A r \in 1..count : r >= hi => column[r] >= key
       /\ out = << >>
  /\ pc = "collect" =>
       /\ sorted
       /\ lo <= rid
       /\ rid <= count + 1
       /\ \A r \in 1..count : r < lo => column[r] < key
       /\ \A r \in 1..count : r >= lo => column[r] >= key
       /\ \A r \in 1..count : lo <= r /\ r < rid => column[r] = key
       /\ Len(out) = rid - lo
       /\ \A i \in 1..Len(out) : out[i] = lo + i - 1
  /\ pc = "scan" =>
       /\ rid <= count + 1
       /\ Abstract!Lists(out, column, rid - 1, key)
  /\ pc = "answered" => Abstract!Lists(out, column, count, key)

Inv == TypeOK /\ VerifyInv /\ LookupInv

-------------------------------------------------------------------------------

(* The columns and the row count are numbers the loops can compare.        *)
LEMMA ColumnType ==
  ASSUME TypeOK
  PROVE  /\ count \in Nat
         /\ count < MaxU32
         /\ MaxU32 \in Nat
         /\ key \in Nat
         /\ \A r \in 1..count : column[r] \in Nat
  BY ColumnsAssumption DEF TypeOK, count

(* The midpoint of a non-empty bracket lies inside it.                     *)
LEMMA MidInside ==
  ASSUME NEW l \in Nat, NEW h \in Nat, l < h
  PROVE  /\ l + (h - l) \div 2 \in Nat
         /\ l <= l + (h - l) \div 2
         /\ l + (h - l) \div 2 < h
  OBVIOUS

(* Extending an ordered prefix by a row not below its last one.            *)
LEMMA OrderedExtends ==
  ASSUME TypeOK, NEW n \in Nat, n >= 1, n < count, Ordered(n),
         column[n + 1] >= column[n]
  PROVE  Ordered(n + 1)
  <1> SUFFICES ASSUME NEW i \in 1..(n + 1), NEW j \in 1..(n + 1), i <= j
               PROVE  column[i] <= column[j]
    BY DEF Ordered
  <1> USE ColumnType
  <1>1. CASE j <= n
    BY <1>1 DEF Ordered
  <1>2. CASE j = n + 1 /\ i = n + 1
    BY <1>2
  <1>3. CASE j = n + 1 /\ i <= n
    <2>1. column[i] <= column[n]
      BY <1>3 DEF Ordered
    <2> QED BY <2>1, <1>3
  <1> QED BY <1>1, <1>2, <1>3

(* The rows the lookup starts from are the ones Init allows.               *)
LEMMA InitInv == Init => Inv
  <1> SUFFICES ASSUME Init PROVE Inv
    OBVIOUS
  <1>1. column \in Seq(Nat) /\ count \in Nat /\ count < MaxU32
    BY ColumnsAssumption DEF Init, count
  <1>2. TypeOK
    <2>1. lo \in 1..MaxU32 /\ hi \in 1..MaxU32 /\ rid \in 1..MaxU32 /\ previous \in Nat
      BY <1>1, ColumnsAssumption DEF Init
    <2>2. out \in Seq(1..MaxU32)
      BY DEF Init
    <2> QED BY <2>1, <2>2, Zenon DEF Init, TypeOK
  <1>3. VerifyInv
    BY <1>1 DEF Init, VerifyInv
  <1>4. LookupInv
    BY DEF Init, LookupInv
  <1> QED BY <1>2, <1>3, <1>4 DEF Inv

(* No step changes what was opened.                                        *)
LEMMA OpenedFixed == [Next]_vars => UNCHANGED opened
  BY DEF Next, Step, VerifyTrivial, VerifyFirst, VerifyNext, VerifySorted,
         VerifyUnsorted, RowsWithKey, SearchNarrow, SearchDone, Collect,
         CollectDone, ScanRow, ScanDone, vars, opened

(* A complete list of the matches before row n + 1 becomes one of the      *)
(* matches up to it by appending n + 1 if it matches.                      *)
LEMMA ListsExtends ==
  ASSUME NEW col, NEW n \in Nat, NEW k, NEW s \in Seq(Nat), Abstract!Lists(s, col, n, k)
  PROVE  /\ col[n + 1] = k => Abstract!Lists(Append(s, n + 1), col, n + 1, k)
         /\ col[n + 1] # k => Abstract!Lists(s, col, n + 1, k)
  <1>1. ASSUME col[n + 1] # k
        PROVE  Abstract!Lists(s, col, n + 1, k)
    <2>1. \A r \in 1..(n + 1) : col[r] = k => r \in 1..n
      BY <1>1
    <2> QED BY <2>1 DEF Abstract!Lists
  <1>2. ASSUME col[n + 1] = k
        PROVE  Abstract!Lists(Append(s, n + 1), col, n + 1, k)
    <2> DEFINE t == Append(s, n + 1)
    <2>1. /\ Len(t) = Len(s) + 1
          /\ \A i \in 1..Len(s) : t[i] = s[i]
          /\ t[Len(s) + 1] = n + 1
      OBVIOUS
    <2> HIDE DEF t
    <2>2. \A i \in 1..Len(t) : t[i] \in 1..(n + 1) /\ col[t[i]] = k
      <3> TAKE i \in 1..Len(t)
      <3>1. CASE i = Len(s) + 1
        BY <3>1, <2>1, <1>2
      <3>2. CASE i \in 1..Len(s)
        BY <3>2, <2>1 DEF Abstract!Lists
      <3> QED BY <3>1, <3>2, <2>1
    <2>3. \A i, j \in 1..Len(t) : i < j => t[i] < t[j]
      <3> SUFFICES ASSUME NEW i \in 1..Len(t), NEW j \in 1..Len(t), i < j
                   PROVE  t[i] < t[j]
        OBVIOUS
      <3>1. i \in 1..Len(s) /\ t[i] \in 1..n
        BY <2>1 DEF Abstract!Lists
      <3>2. CASE j = Len(s) + 1
        BY <3>1, <3>2, <2>1
      <3>3. CASE j \in 1..Len(s)
        BY <3>1, <3>3, <2>1 DEF Abstract!Lists
      <3> QED BY <3>2, <3>3, <2>1
    <2>4. \A r \in 1..(n + 1) : col[r] = k => \E i \in 1..Len(t) : t[i] = r
      <3> SUFFICES ASSUME NEW r \in 1..(n + 1), col[r] = k
                   PROVE  \E i \in 1..Len(t) : t[i] = r
        OBVIOUS
      <3>1. CASE r = n + 1
        BY <3>1, <2>1
      <3>2. CASE r \in 1..n
        <4>1. PICK i \in 1..Len(s) : s[i] = r
          BY <3>2 DEF Abstract!Lists
        <4> QED BY <4>1, <2>1
      <3> QED BY <3>1, <3>2
    <2>5. Abstract!Lists(t, col, n + 1, k)
      BY <2>2, <2>3, <2>4 DEF Abstract!Lists
    <2> QED BY <2>5 DEF t
  <1> QED BY <1>1, <1>2

-------------------------------------------------------------------------------

(* One iteration of any loop keeps the invariant.                          *)
LEMMA StepInv == Inv /\ Step => Inv'
  <1> SUFFICES ASSUME Inv, Step PROVE Inv'
    OBVIOUS
  <1> USE ColumnType DEF Inv
  <1>0. column' = column /\ count' = count /\ strict' = strict /\ declared' = declared
    BY OpenedFixed DEF opened, count, Next
  <1>1. CASE VerifyTrivial
    <2> USE <1>1 DEF VerifyTrivial
    <2>1. TypeOK'
      BY <1>0 DEF TypeOK, opened, verdict, search
    <2>2. VerifyInv'
      BY <1>0 DEF VerifyInv, TypeOK, Ordered, opened, verdict, search
    <2>3. LookupInv'
      BY <1>0 DEF LookupInv, TypeOK, opened, verdict, search
    <2> QED BY <2>1, <2>2, <2>3
  <1>2. CASE VerifyFirst
    <2> USE <1>2 DEF VerifyFirst
    <2>1. TypeOK'
      BY <1>0 DEF TypeOK, opened, verdict, search
    <2>2. VerifyInv'
      BY <1>0 DEF VerifyInv, TypeOK, Ordered, opened, verdict, search
    <2>3. LookupInv'
      BY <1>0 DEF LookupInv, TypeOK, opened, verdict, search
    <2> QED BY <2>1, <2>2, <2>3
  <1>3. CASE VerifyNext
    <2> USE <1>3 DEF VerifyNext
    <2>1. TypeOK'
      BY <1>0 DEF TypeOK, opened, verdict, search
    <2>2. VerifyInv'
      BY <1>0 DEF VerifyInv, TypeOK, Ordered, opened, verdict, search
    <2>3. LookupInv'
      BY <1>0 DEF LookupInv, TypeOK, opened, verdict, search
    <2> QED BY <2>1, <2>2, <2>3
  <1>4. CASE VerifySorted
    <2> USE <1>4 DEF VerifySorted
    <2>1. TypeOK'
      BY <1>0 DEF TypeOK, opened, verdict, search
    <2>2. VerifyInv'
      <3>1. rid \in Nat /\ rid - 1 = count /\ Ordered(count)
        <4>1. rid \in Nat /\ rid - 1 = count
          BY DEF TypeOK
        <4>2. Ordered(rid - 1)
          BY DEF VerifyInv
        <4> QED BY <4>1, <4>2
      <3>2. Ordered(count)'
        BY <3>1, <1>0 DEF Ordered
      <3> QED BY <3>2, <1>0 DEF VerifyInv
    <2>3. LookupInv'
      BY <1>0 DEF LookupInv, TypeOK, opened, verdict, search
    <2> QED BY <2>1, <2>2, <2>3
  <1>5. CASE VerifyUnsorted
    <2> USE <1>5 DEF VerifyUnsorted
    <2>1. TypeOK'
      BY <1>0 DEF TypeOK, opened, verdict, search
    <2>2. VerifyInv'
      BY <1>0 DEF VerifyInv, TypeOK, Ordered, opened, verdict, search
    <2>3. LookupInv'
      BY <1>0 DEF LookupInv, TypeOK, opened, verdict, search
    <2> QED BY <2>1, <2>2, <2>3
  <1>6. CASE SearchNarrow
    <2> USE <1>6 DEF SearchNarrow
    <2>1. TypeOK'
      BY <1>0, MidInside DEF TypeOK, LookupInv, verdict, mid
    <2>2. VerifyInv'
      BY <1>0 DEF VerifyInv, TypeOK, Ordered, opened, verdict, search
    <2>3. LookupInv'
      <3>1. mid \in 1..count /\ lo <= mid /\ mid < hi
        BY MidInside DEF TypeOK, LookupInv, mid
      <3>2. Ordered(count)
        BY DEF VerifyInv, LookupInv, TypeOK
      <3>3. CASE column[mid] < key /\ lo' = mid + 1 /\ UNCHANGED hi
        <4>1. \A r \in 1..count : r <= mid => column[r] < key
          BY <3>1, <3>2, <3>3 DEF Ordered
        <4> QED BY <4>1, <3>1, <3>3, <1>0 DEF LookupInv, TypeOK, verdict
      <3>4. CASE column[mid] >= key /\ hi' = mid /\ UNCHANGED lo
        <4>1. \A r \in 1..count : r >= mid => column[r] >= key
          BY <3>1, <3>2, <3>4 DEF Ordered
        <4> QED BY <4>1, <3>1, <3>4, <1>0 DEF LookupInv, TypeOK, verdict
      <3> QED BY <3>3, <3>4
    <2> QED BY <2>1, <2>2, <2>3
  <1>7. CASE SearchDone
    <2> USE <1>7 DEF SearchDone
    <2>1. TypeOK'
      BY <1>0 DEF TypeOK, opened, verdict, search
    <2>2. VerifyInv'
      BY <1>0 DEF VerifyInv, TypeOK, Ordered, opened, verdict, search
    <2>3. LookupInv'
      BY <1>0 DEF LookupInv, TypeOK, opened, verdict, search
    <2> QED BY <2>1, <2>2, <2>3
  <1>8. CASE Collect
    <2> USE <1>8 DEF Collect
    <2>1. TypeOK'
      BY <1>0 DEF TypeOK, opened, verdict, search
    <2>2. VerifyInv'
      BY <1>0 DEF VerifyInv, TypeOK, Ordered, opened, verdict, search
    <2>3. LookupInv'
      <3>1. rid \in 1..count /\ out \in Seq(Nat)
        BY DEF TypeOK, LookupInv
      <3>2. /\ Len(out') = Len(out) + 1
            /\ \A i \in 1..Len(out) : out'[i] = out[i]
            /\ out'[Len(out) + 1] = rid
        BY <3>1
      <3>3. Len(out') = rid' - lo' /\ \A i \in 1..Len(out') : out'[i] = lo' + i - 1
        <4>1. /\ lo' = lo /\ lo \in Nat /\ rid' = rid + 1
              /\ Len(out) = rid - lo /\ Len(out) \in Nat
              /\ \A i \in 1..Len(out) : out[i] = lo + i - 1
          BY <3>1 DEF LookupInv, TypeOK
        <4> HIDE DEF Collect, Inv
        <4>2. rid = lo + (Len(out) + 1) - 1
          BY <4>1, <3>1
        <4>3. \A i \in 1..Len(out') : i \in 1..Len(out) \/ i = Len(out) + 1
          BY <4>1, <3>2
        <4> QED BY <4>1, <4>2, <4>3, <3>1, <3>2
      <3>4. \A r \in 1..count : lo <= r /\ r < rid' => column[r] = key
        BY <3>1 DEF LookupInv, TypeOK
      <3> QED BY <3>1, <3>3, <3>4, <1>0 DEF LookupInv, TypeOK, verdict
    <2> QED BY <2>1, <2>2, <2>3
  <1>9. CASE CollectDone
    <2> USE <1>9 DEF CollectDone
    <2>1. TypeOK'
      BY <1>0 DEF TypeOK, opened, verdict, search
    <2>2. VerifyInv'
      BY <1>0 DEF VerifyInv, TypeOK, Ordered, opened, verdict, search
    <2>3. LookupInv'
      <3>1. lo \in Nat /\ rid \in Nat /\ out \in Seq(Nat)
        BY DEF TypeOK
      <3>2. \A i \in 1..Len(out) : out[i] \in 1..count /\ column[out[i]] = key
        BY <3>1 DEF LookupInv, TypeOK
      <3>3. \A i, j \in 1..Len(out) : i < j => out[i] < out[j]
        BY <3>1 DEF LookupInv
      <3>4. \A r \in 1..count : column[r] = key => lo <= r /\ r < rid
        <4> SUFFICES ASSUME NEW r \in 1..count, column[r] = key, ~(r < rid)
                     PROVE  FALSE
          BY <3>1 DEF LookupInv
        <4>1. rid \in 1..count /\ rid <= r
          BY <3>1 DEF TypeOK
        <4>2. column[rid] >= key /\ column[rid] # key
          BY <4>1 DEF LookupInv
        <4>3. column[rid] <= column[r]
          BY <4>1 DEF VerifyInv, LookupInv, Ordered
        <4> QED BY <4>1, <4>2, <4>3
      <3>5. \A r \in 1..count : column[r] = key => \E i \in 1..Len(out) : out[i] = r
        <4> SUFFICES ASSUME NEW r \in 1..count, column[r] = key
                     PROVE  \E i \in 1..Len(out) : out[i] = r
          OBVIOUS
        <4>1. r - lo + 1 \in 1..Len(out)
          BY <3>1, <3>4 DEF LookupInv
        <4>2. out[r - lo + 1] = r
          BY <4>1, <3>1 DEF LookupInv
        <4> QED BY <4>1, <4>2
      <3>6. Abstract!Lists(out, column, count, key)
        BY <3>2, <3>3, <3>5 DEF Abstract!Lists
      <3> QED BY <3>6, <1>0 DEF LookupInv, search, verdict
    <2> QED BY <2>1, <2>2, <2>3
  <1>10. CASE ScanRow
    <2> USE <1>10 DEF ScanRow
    <2>1. TypeOK'
      <3>1. rid \in 1..MaxU32 /\ rid' \in 1..MaxU32
        BY DEF TypeOK
      <3>2. out' \in Seq(1..MaxU32)
        <4>1. out \in Seq(1..MaxU32)
          BY DEF TypeOK
        <4>2. Append(out, rid) \in Seq(1..MaxU32)
          BY <4>1, <3>1
        <4>3. out' = Append(out, rid) \/ out' = out
          OBVIOUS
        <4> QED BY <4>1, <4>2, <4>3
      <3> QED BY <3>1, <3>2, <1>0 DEF TypeOK, verdict
    <2>2. VerifyInv'
      BY <1>0 DEF VerifyInv, TypeOK, Ordered, opened, verdict, search
    <2>3. LookupInv'
      <3>1. rid - 1 \in Nat /\ out \in Seq(Nat) /\ (rid - 1) + 1 = rid
        BY DEF TypeOK
      <3>2. Abstract!Lists(out, column, rid - 1, key)
        BY DEF LookupInv
      <3>3. Abstract!Lists(out', column, rid, key)
        BY <3>1, <3>2, ListsExtends
      <3> QED BY <3>1, <3>3, <1>0 DEF LookupInv, TypeOK, verdict
    <2> QED BY <2>1, <2>2, <2>3
  <1>11. CASE ScanDone
    <2> USE <1>11 DEF ScanDone
    <2>1. TypeOK'
      BY <1>0 DEF TypeOK, opened, verdict, search
    <2>2. VerifyInv'
      BY <1>0 DEF VerifyInv, TypeOK, Ordered, opened, verdict, search
    <2>3. LookupInv'
      BY <1>0 DEF LookupInv, TypeOK, opened, verdict, search
    <2> QED BY <2>1, <2>2, <2>3
  <1> QED BY <1>1, <1>2, <1>3, <1>4, <1>5, <1>6, <1>7, <1>8, <1>9, <1>10, <1>11 DEF Step

(* Starting a lookup sets up whichever loop the bit selects.               *)
LEMMA RowsWithKeyInv == ASSUME NEW k \in Keys PROVE Inv /\ RowsWithKey(k) => Inv'
  <1> SUFFICES ASSUME Inv, RowsWithKey(k) PROVE Inv'
    OBVIOUS
  <1> USE ColumnType DEF Inv, RowsWithKey
  <1>0. column' = column /\ count' = count /\ strict' = strict /\ declared' = declared
    BY DEF opened, count
  <1>1. TypeOK'
    BY <1>0 DEF TypeOK, verdict
  <1>2. VerifyInv'
    BY <1>0 DEF VerifyInv, TypeOK, Ordered, verdict
  <1>3. LookupInv'
    <2>1. Abstract!Lists(<< >>, column, 0, k)
      BY DEF Abstract!Lists
    <2>2. CASE count = 0 /\ pc' = "answered"
      BY <2>1, <2>2, <1>0 DEF LookupInv
    <2>3. CASE count > 0 /\ sorted /\ lo' = 1 /\ hi' = count + 1 /\ pc' = "search"
      BY <2>3, <1>0 DEF LookupInv, TypeOK, verdict
    <2>4. CASE count > 0 /\ ~sorted /\ rid' = 1 /\ pc' = "scan"
      BY <2>1, <2>4, <1>0 DEF LookupInv
    <2> QED BY <2>2, <2>3, <2>4
  <1> QED BY <1>1, <1>2, <1>3

(* Doing nothing keeps the invariant.                                      *)
LEMMA StutterInv == Inv /\ UNCHANGED vars => Inv'
  BY DEF Inv, TypeOK, VerifyInv, LookupInv, Ordered, count, vars, opened, verdict, search

(* Inv holds throughout: of the verification, of every lookup, and between *)
(* them.                                                                   *)
THEOREM Invariance == Spec => []Inv
  <1>1. Inv /\ [Next]_vars => Inv'
    BY StepInv, RowsWithKeyInv, StutterInv DEF Next
  <1> QED BY InitInv, <1>1, PTL DEF Spec

(* The locals of both functions keep their types, for every column.        *)
THEOREM TypeCorrect == Spec => []TypeOK
  BY Invariance, PTL DEF Inv

(* The verified_sorted bit says exactly whether the column ascends.        *)
THEOREM BitExact == Spec => []SortedBitExact
  <1>1. Inv => SortedBitExact
    BY DEF Inv, VerifyInv, SortedBitExact
  <1> QED BY Invariance, <1>1, PTL

(* The binary search never probes outside the table.                       *)
THEOREM ProbesStayInTable == Spec => []ProbesInTable
  <1>1. Inv => ProbesInTable
    BY ColumnType, MidInside DEF Inv, LookupInv, TypeOK, ProbesInTable, mid, Rows
  <1> QED BY Invariance, <1>1, PTL

(* rows_with_key returns exactly the matching rows, on any column.         *)
THEOREM LookupCorrect == Spec => []LookupComplete
  <1>1. Inv => LookupComplete
    BY DEF Inv, LookupInv, LookupComplete
  <1> QED BY Invariance, <1>1, PTL

(* Strict parsing refuses exactly the tables that lie about their order,   *)
(* and every other disorder leaves a diagnostic.                           *)
THEOREM DisorderIsHandled == Spec => []DisorderHandled
  <1>1. Inv => DisorderHandled
    BY DEF Inv, VerifyInv, DisorderHandled
  <1> QED BY Invariance, <1>1, PTL

-------------------------------------------------------------------------------
(* The refinement mapping, under names of its own.                         *)
phaseBar == CASE pc = "verify" -> "opening"
              [] pc = "rejected" -> "refused"
              [] pc = "ready" -> "idle"
              [] pc = "answered" -> "answered"
              [] OTHER -> "asked"

answerBar == IF pc = "answered" THEN out ELSE << >>

(* The mapped phase, value by value.                                       *)
LEMMA PhaseCases ==
  /\ pc = "verify" => phaseBar = "opening"
  /\ pc = "rejected" => phaseBar = "refused"
  /\ pc = "ready" => phaseBar = "idle"
  /\ pc = "answered" => phaseBar = "answered"
  /\ pc \in {"search", "collect", "scan"} => phaseBar = "asked"
  BY DEF phaseBar

(* Every iteration maps to a step of the abstract index or to a stutter.   *)
LEMMA StepRefines ==
  ASSUME Inv, Inv', [Next]_vars
  PROVE  [Abstract!Next]_(Abstract!vars)
  <1> USE PhaseCases DEF Abstract!Next, Abstract!vars
  <1>0. column' = column
    BY OpenedFixed DEF opened
  <1>a. /\ pc' = "verify" => phaseBar' = "opening"
        /\ pc' = "rejected" => phaseBar' = "refused"
        /\ pc' = "ready" => phaseBar' = "idle"
        /\ pc' = "answered" => phaseBar' = "answered"
        /\ pc' \in {"search", "collect", "scan"} => phaseBar' = "asked"
    BY DEF phaseBar
  <1>b. /\ pc = "answered" => answerBar = out
        /\ pc # "answered" => answerBar = << >>
        /\ pc' = "answered" => answerBar' = out'
        /\ pc' # "answered" => answerBar' = << >>
    BY DEF answerBar
  <1> DEFINE AOpen == /\ phaseBar = "opening" /\ phaseBar' \in {"idle", "refused"}
                      /\ column' = column /\ key' = key /\ answerBar' = answerBar
             AAsk  == /\ phaseBar \in {"idle", "answered"} /\ phaseBar' = "asked"
                      /\ key' \in Keys /\ answerBar' = << >> /\ column' = column
             AAns  == /\ phaseBar = "asked" /\ phaseBar' = "answered"
                      /\ Abstract!Lists(answerBar', column, Len(column), key)
                      /\ column' = column /\ key' = key
             AOnce == /\ phaseBar \in {"idle", "answered"} /\ phaseBar' = "answered"
                      /\ key' \in Keys
                      /\ Abstract!Lists(answerBar', column, Len(column), key')
                      /\ column' = column
             AStut == /\ column' = column /\ phaseBar' = phaseBar
                      /\ key' = key /\ answerBar' = answerBar
  <1>c. AOpen \/ AAsk \/ AAns \/ AOnce \/ AStut => [Abstract!Next]_(Abstract!vars)
    BY DEF Abstract!Open, Abstract!Ask, Abstract!Answer, Abstract!AnswerAtOnce,
           phaseBar, answerBar
  <1>1. CASE VerifyTrivial \/ VerifySorted \/ VerifyUnsorted
    <2>1. AOpen
      BY <1>0, <1>1, <1>a, <1>b DEF VerifyTrivial, VerifySorted, VerifyUnsorted, search
    <2> QED BY <2>1, <1>c
  <1>2. CASE VerifyFirst \/ VerifyNext \/ SearchNarrow \/ SearchDone \/ Collect \/ ScanRow
    <2>1. AStut
      BY <1>0, <1>2, <1>a, <1>b
      DEF VerifyFirst, VerifyNext, SearchNarrow, SearchDone, Collect, ScanRow, search
    <2> QED BY <2>1, <1>c
  <1>3. CASE CollectDone \/ ScanDone
    <2>1. /\ pc \in {"collect", "scan"} /\ pc' = "answered" /\ key' = key
      BY <1>3 DEF CollectDone, ScanDone, search
    <2>2. Abstract!Lists(out', column, Len(column), key)
      BY <1>0, <2>1 DEF Inv, LookupInv, count
    <2>3. AAns
      BY <1>0, <1>a, <1>b, <2>1, <2>2
    <2> QED BY <2>3, <1>c
  <1>4. ASSUME NEW k \in Keys, RowsWithKey(k)
        PROVE  [Abstract!Next]_(Abstract!vars)
    <2>1. pc \in {"ready", "answered"} /\ key' \in Keys
      BY <1>4 DEF RowsWithKey
    <2>2. CASE pc' \in {"search", "scan"}
      <3>1. AAsk
        BY <1>0, <1>a, <1>b, <2>1, <2>2
      <3> QED BY <3>1, <1>c
    <2>3. CASE pc' = "answered"
      <3>1. Abstract!Lists(out', column, Len(column), key')
        BY <1>0, <2>3 DEF Inv, LookupInv, count
      <3>2. AOnce
        BY <1>0, <1>a, <1>b, <2>1, <2>3, <3>1
      <3> QED BY <3>2, <1>c
    <2> QED BY <1>4, <2>2, <2>3 DEF RowsWithKey
  <1>5. CASE UNCHANGED vars
    <2>1. AStut
      BY <1>5 DEF vars, opened, search, phaseBar, answerBar
    <2> QED BY <2>1, <1>c
  <1> QED BY <1>1, <1>2, <1>3, <1>4, <1>5 DEF Next, Step

(* Verification, binary search, collection and scan together implement the *)
(* abstract index: the answers are those of a table that is simply asked.  *)
THEOREM Refinement == Spec => RefinesKeyIndex
  <1>1. Init => Abstract!Init
    BY DEF Init, Abstract!Init
  <1>2. Inv /\ Inv' /\ [Next]_vars => [Abstract!Next]_(Abstract!vars)
    BY StepRefines
  <1> QED BY <1>1, <1>2, Invariance, PTL DEF Spec, RefinesKeyIndex, Abstract!Spec

-------------------------------------------------------------------------------
(* The calls that use it                                                    *)

(* The table a call reads, and the types a name is built of.               *)
CallTyped ==
  /\ coded \in BOOLEAN
  /\ second \in Seq(Nat)
  /\ Len(second) = count
  /\ stage \in {"idle", "lookup", "loop"}
  /\ at \in Nat
  /\ call = "name" /\ stage # "idle" => rows \in Seq(1..TypeCount) /\ rows # << >>

(* The raw key of the lookup is the one the call asked for.                *)
KeyAsked ==
  stage = "lookup" /\ call # "name" =>
    IF coded THEN parent \in Tokens /\ key \in encode(parent) ELSE key = parent.rid

(* A name so far: the chain from the type asked for to the outermost type, *)
(* one longer than the rounds that have ended.                             *)
NameSoFar ==
  call = "name" /\ stage # "idle" =>
    /\ at <= count
    /\ rows[Len(rows)] = parent.rid
    /\ \A i \in 1..Len(rows) - 1 : rows[i] \in Encloser(rows[i + 1])
    /\ stage = "loop" => Len(rows) = at + 1
    /\ stage = "lookup" => Len(rows) = at /\ key = current

(* The types found nested so far are those of the rows looped over.        *)
NestedSoFar ==
  call = "nested" /\ stage = "loop" =>
    /\ at <= count
    /\ rows \in Seq(Nat)
    /\ \A r \in 1..at : second[r] = parent.rid => column[r] \in Entries(rows)

CallInv ==
  /\ KeyAsked /\ RowsExact /\ FirstIsLeast /\ DeclarationOrder
  /\ NestedSoFar /\ NestingMirrored
  /\ NameSoFar /\ NameFollowsNesting

-------------------------------------------------------------------------------

(* Names as sequences: one type, its front, and a type put before it.      *)
LEMMA NameGrows ==
  ASSUME NEW S, NEW e \in S
  PROVE  /\ <<e>> \in Seq(S) /\ <<e>> # << >> /\ Len(<<e>>) = 1
         /\ \A s \in Seq(S) : /\ <<e>> \o s \in Seq(S) /\ <<e>> \o s # << >>
                              /\ Len(<<e>> \o s) = Len(s) + 1
                              /\ (<<e>> \o s)[1] = e
                              /\ \A i \in 1..Len(s) : (<<e>> \o s)[i + 1] = s[i]
  <1>1. <<e>> \in Seq(S) /\ Len(<<e>>) = 1 /\ <<e>>[1] = e
    BY SMT
  <1>2. ASSUME NEW s \in Seq(S)
        PROVE  /\ <<e>> \o s \in Seq(S)
               /\ Len(<<e>> \o s) = Len(s) + 1
               /\ (<<e>> \o s)[1] = e
               /\ \A i \in 1..Len(s) : (<<e>> \o s)[i + 1] = s[i]
    <2>1. /\ <<e>> \o s \in Seq(S)
          /\ Len(<<e>> \o s) = 1 + Len(s)
          /\ \A i \in 1..1 + Len(s) :
               (<<e>> \o s)[i] = IF i <= 1 THEN <<e>>[i] ELSE s[i - 1]
      BY <1>1, ConcatProperties
    <2>2. Len(s) \in Nat
      OBVIOUS
    <2> QED BY <1>1, <2>1, <2>2
  <1>3. \A s \in Seq(S) : <<e>> \o s # << >>
    <2> TAKE s \in Seq(S)
    <2>1. Len(<<e>> \o s) = Len(s) + 1 /\ Len(s) \in Nat
      BY <1>2
    <2> QED BY <2>1, EmptySeq
  <1> QED BY <1>1, <1>2, <1>3

LEMMA NameHead ==
  ASSUME NEW S, NEW s \in Seq(S), s # << >>
  PROVE  Head(s) = s[1] /\ s[1] \in S /\ Len(s) \in Nat \ {0}
  BY HeadTailProperties, EmptySeq, LenProperties

(* Nothing but the verification and the lookup touches their variables,    *)
(* and neither they nor a call touch the table.                            *)
LEMMA TableFixed ==
  ASSUME [ParentNext]_allvars
  PROVE  UNCHANGED <<column, coded, second>>
  <1> USE DEF vars, opened, table, allvars
  <1>1. Step \/ UNCHANGED vars => UNCHANGED column
    BY OpenedFixed DEF Next
  <1>2. \A k : RowsWithKey(k) => UNCHANGED column
    BY DEF RowsWithKey
  <1> QED
    BY <1>1, <1>2 DEF ParentNext, CallStep, CallMade, LookupStep, Return, NestedRow, NestedDone,
       WalkRound, WalkedOut, WalkStop, WalkOutwards, ForParent, ForRid, NestedTypes, TypeName,
       Calls

LEMMA InitTyped == ParentInit => CallTyped
  BY KeyAssumption DEF ParentInit, CallTyped, count

LEMMA TypedStep == CallTyped /\ [ParentNext]_allvars => CallTyped'
  <1> SUFFICES ASSUME CallTyped, [ParentNext]_allvars PROVE CallTyped'
    OBVIOUS
  <1>1. UNCHANGED <<count, coded, second>>
    BY TableFixed DEF count
  <1> USE <1>1, KeyAssumption DEF CallTyped, IsType
  <1>2. CASE LookupStep
    BY <1>2 DEF LookupStep, calling
  <1>3. CASE Return \/ NestedDone \/ WalkedOut \/ WalkStop
    BY <1>3 DEF Return, NestedDone, WalkedOut, WalkStop
  <1>4. CASE NestedRow
    BY <1>4 DEF NestedRow
  <1>5. CASE WalkRound
    BY <1>5 DEF WalkRound
  <1>6. CASE WalkOutwards
    <2> PICK o : /\ call = "name" /\ stage = "lookup"
                 /\ \/ IsType(o) /\ rows' = <<o>> \o rows /\ stage' = "loop"
                    \/ ~IsType(o) /\ rows' = << >> /\ stage' = "idle"
                 /\ UNCHANGED <<call, parent, at>>
      BY <1>6 DEF WalkOutwards
    <2>1. CASE IsType(o)
      <3>1. rows' \in Seq(1..TypeCount) /\ rows' # << >>
        <4>1. o \in 1..TypeCount /\ rows \in Seq(1..TypeCount) /\ rows' = <<o>> \o rows
          BY <2>1
        <4> QED BY <4>1, NameGrows
      <3> QED BY <2>1, <3>1
    <2> QED BY <2>1
  <1>7. CASE CallMade
    <2>1. ASSUME NEW c \in {"rows", "first", "ordered"}, NEW p, ForParent(c, p) PROVE CallTyped'
      BY <2>1 DEF ForParent, Calls
    <2>2. ASSUME NEW c \in {"rows", "first"}, NEW r, ForRid(c, r) PROVE CallTyped'
      BY <2>2 DEF ForRid, Calls
    <2>3. ASSUME NEW r, NestedTypes(r) PROVE CallTyped'
      BY <2>3 DEF NestedTypes, Calls
    <2>4. ASSUME NEW r, TypeName(r) PROVE CallTyped'
      <3>1. IsType(r) => <<r>> \in Seq(1..TypeCount) /\ <<r>> # << >>
        BY NameGrows
      <3> QED BY <2>4, <3>1 DEF TypeName, Calls
    <2> QED BY <1>7, <2>1, <2>2, <2>3, <2>4 DEF CallMade
  <1>8. CASE UNCHANGED allvars
    BY <1>8 DEF allvars, calling
  <1> QED BY <1>2, <1>3, <1>4, <1>5, <1>6, <1>7, <1>8 DEF ParentNext, CallStep

THEOREM CallsTyped == ParentSpec => []CallTyped
  BY InitTyped, TypedStep, PTL DEF ParentSpec

(* Every lookup a call begins is for one of the keys SortedLookup allows.  *)
LEMMA CallLifts == CallTyped /\ [ParentNext]_allvars => [Next]_vars
  <1> SUFFICES ASSUME CallTyped, [ParentNext]_allvars PROVE [Next]_vars
    OBVIOUS
  <1>1. CASE WalkRound
    <2>1. rows \in Seq(1..TypeCount) /\ rows # << >>
      BY <1>1 DEF WalkRound, CallTyped
    <2>2. current \in Keys
      BY <2>1, NameHead, KeysAssumption DEF current
    <2> QED BY <1>1, <2>2 DEF WalkRound, Next
  <1>2. ASSUME NEW c, NEW p \in Tokens, ForParent(c, p)
        PROVE  [Next]_vars
    BY <1>2, KeysAssumption DEF ForParent, sort_key_for, Next
  <1>3. ASSUME NEW c, NEW r \in Rids, ForRid(c, r)
        PROVE  [Next]_vars
    BY <1>3, KeysAssumption DEF ForRid, Next
  <1>4. CASE LookupStep
    BY <1>4 DEF LookupStep, Next
  <1>5. CASE Return \/ NestedRow \/ NestedDone \/ WalkedOut \/ WalkStop \/ WalkOutwards
    BY <1>5 DEF Return, NestedRow, NestedDone, WalkedOut, WalkStop, WalkOutwards
  <1>6. CASE \E r \in Rids : NestedTypes(r) \/ TypeName(r)
    BY <1>6 DEF NestedTypes, TypeName
  <1> QED
    BY <1>1, <1>2, <1>3, <1>4, <1>5, <1>6 DEF ParentNext, CallStep, CallMade, allvars

(* A client that makes these calls is a client of the lookup: all that is  *)
(* proved of SortedLookup holds beside them.                               *)
THEOREM CallsUseTheLookup == ParentSpec => Spec
  <1>1. ParentInit => Init
    BY DEF ParentInit
  <1> QED BY <1>1, CallsTyped, CallLifts, PTL DEF ParentSpec, Spec
-------------------------------------------------------------------------------

(* Quotient and remainder determine a number, and are determined by it.    *)
LEMMA Quotient ==
  ASSUME NEW b \in Nat \ {0}, NEW q \in Nat, NEW m \in 0..b - 1
  PROVE  (q * b + m) \div b = q /\ (q * b + m) % b = m
  OBVIOUS

LEMMA Division ==
  ASSUME NEW b \in Nat \ {0}, NEW n \in Nat
  PROVE  n \div b \in Nat /\ n % b \in 0..b - 1 /\ n = (n \div b) * b + (n % b)
  OBVIOUS

(* Token::new leaves the RIDs a token can carry alone.                     *)
LEMMA NarrowKept ==
  ASSUME NEW r \in 0..RidBase - 1
  PROVE  r % RidBase = r
  BY KeyAssumption

(* A token's RID always fits beside the tag.                               *)
LEMMA TokenFits ==
  ASSUME NEW p \in Tokens
  PROVE  p.rid <= MaxU32 \div TagBase
  <1>1. /\ p.rid \in Nat /\ p.rid + 1 <= RidBase /\ RidBase \in Nat
        /\ TagBase \in Nat \ {0} /\ MaxU32 \in Nat /\ RidBase * TagBase <= MaxU32 + 1
    BY KeyAssumption, ColumnsAssumption
  <1>2. (p.rid + 1) * TagBase <= RidBase * TagBase
    BY <1>1
  <1>3. p.rid * TagBase + TagBase = (p.rid + 1) * TagBase
    BY <1>1
  <1>4. p.rid * TagBase <= MaxU32
    BY <1>1, <1>2, <1>3
  <1>5. MaxU32 < (MaxU32 \div TagBase + 1) * TagBase
    <2> DEFINE d == MaxU32 \div TagBase
               m == MaxU32 % TagBase
    <2>1. d \in Nat /\ m \in 0..TagBase - 1 /\ MaxU32 = d * TagBase + m
      BY <1>1, Division
    <2> HIDE DEF d, m
    <2>2. (d + 1) * TagBase = d * TagBase + TagBase
      BY <1>1, <2>1
    <2>3. d * TagBase \in Nat
      BY <1>1, <2>1
    <2>4. MaxU32 < (d + 1) * TagBase
      BY <1>1, <2>1, <2>2, <2>3
    <2> QED BY <2>4 DEF d
  <1>6. MaxU32 \div TagBase \in Nat
    BY <1>1, Division
  <1> QED BY <1>1, <1>4, <1>5, <1>6

(* decode undoes encode, and encode undoes decode for every raw value that *)
(* names a table and is not too wide: comparing raw keys with the encoded  *)
(* token finds exactly the rows whose key decodes to the token.            *)
THEOREM EncodeInvertsDecode ==
  ASSUME NEW p \in Tokens, NEW raw \in Nat
  PROVE  raw \in encode(p) <=> decode(raw) = {p} /\ ~Wide(raw)
  <1> DEFINE q == raw \div TagBase
             i == (raw % TagBase) + 1
  <1>1. /\ TagBase \in Nat \ {0} /\ RidBase \in Nat \ {0}
        /\ p.table # NoTable /\ p.rid \in 0..RidBase - 1
        /\ p = [table |-> p.table, rid |-> p.rid]
        /\ DOMAIN KeyTables = 1..Len(KeyTables) /\ Len(KeyTables) \in Nat
        /\ Len(KeyTables) <= TagBase
    BY KeyAssumption
  <1>2. q \in Nat /\ i \in 1..TagBase /\ raw = q * TagBase + i - 1
    <2> DEFINE m == raw % TagBase
    <2>1. q \in Nat /\ m \in 0..TagBase - 1 /\ raw = q * TagBase + m
      BY <1>1, Division
    <2> HIDE DEF q, m
    <2>2. q * TagBase \in Nat
      BY <1>1, <2>1
    <2>3. m + 1 \in 1..TagBase /\ raw = q * TagBase + (m + 1) - 1
      BY <1>1, <2>1, <2>2
    <2> QED BY <2>1, <2>3 DEF m
  <1>3. ASSUME raw \in encode(p) PROVE decode(raw) = {p} /\ ~Wide(raw)
    <2>1. PICK j \in DOMAIN KeyTables : KeyTables[j] = p.table /\ raw = p.rid * TagBase + j - 1
      BY <1>3 DEF encode
    <2>2. j - 1 \in 0..TagBase - 1 /\ p.rid \in Nat /\ raw = p.rid * TagBase + (j - 1)
      BY <1>1, <2>1
    <2>3. q = p.rid /\ raw % TagBase = j - 1
      BY <1>1, <2>2, Quotient
    <2>4. i = j
      BY <1>1, <2>3, <2>1
    <2>5. Token(KeyTables[j], q) = p
      BY <1>1, <2>1, <2>3, NarrowKept DEF Token
    <2>6. {k \in DOMAIN KeyTables : k = i /\ KeyTables[k] # NoTable} = {j}
      BY <1>1, <2>1, <2>4
    <2>7. decode(raw) = {p}
      BY <2>5, <2>6 DEF decode
    <2> QED BY <1>1, <2>3, <2>7 DEF Wide
  <1>4. ASSUME decode(raw) = {p}, ~Wide(raw) PROVE raw \in encode(p)
    <2>1. i \in DOMAIN KeyTables /\ p = Token(KeyTables[i], q)
      BY <1>4 DEF decode
    <2>2. q \in 0..RidBase - 1
      BY <1>1, <1>2, <1>4 DEF Wide
    <2>3. p.table = KeyTables[i] /\ p.rid = q
      BY <2>1, <2>2, NarrowKept DEF Token
    <2> QED BY <1>1, <1>2, <2>1, <2>3, TokenFits DEF encode
  <1> QED BY <1>3, <1>4

LEMMA EncodedOnce ==
  ASSUME NEW p \in Tokens, NEW k \in encode(p), NEW l \in encode(p)
  PROVE  k = l
  <1>1. PICK i \in DOMAIN KeyTables : KeyTables[i] = p.table /\ k = p.rid * TagBase + i - 1
    BY DEF encode
  <1>2. PICK j \in DOMAIN KeyTables : KeyTables[j] = p.table /\ l = p.rid * TagBase + j - 1
    BY DEF encode
  <1> QED BY <1>1, <1>2, KeyAssumption

-------------------------------------------------------------------------------

LEMMA InitCalls == ParentInit => CallInv
  BY DEF ParentInit, CallInv, KeyAsked, RowsExact, FirstIsLeast,
         DeclarationOrder, NestedSoFar, NestingMirrored, NameSoFar, NameFollowsNesting

(* The columns as sequences of numbers of one length.                      *)
LEMMA TableType ==
  ASSUME TypeOK, CallTyped
  PROVE  /\ count \in Nat /\ Rows = 1..count
         /\ \A r \in Rows : column[r] \in Nat /\ second[r] \in Nat
         /\ MaxU32 \in Nat /\ out \in Seq(1..MaxU32) /\ DOMAIN out = 1..Len(out)
         /\ Len(out) \in Nat
  <1>1. column \in Seq(Nat) /\ count \in Nat /\ MaxU32 \in Nat
    BY ColumnsAssumption DEF TypeOK, count
  <1>2. \A r \in 1..Len(column) : column[r] \in Nat
    BY <1>1
  <1>3. \A r \in 1..Len(second) : second[r] \in Nat
    BY DEF CallTyped
  <1>4. out \in Seq(1..MaxU32)
    BY DEF TypeOK
  <1>5. DOMAIN out = 1..Len(out) /\ Len(out) \in Nat
    BY <1>4
  <1> QED BY <1>1, <1>2, <1>3, <1>4, <1>5 DEF Rows, count, CallTyped

(* The rows with the key asked for are the rows the argument owns.         *)
LEMMA KeyOwns ==
  ASSUME TypeOK, CallTyped, KeyAsked, stage = "lookup", call # "name"
  PROVE  Owned = {r \in Rows : column[r] = key}
  <1>1. ASSUME coded, NEW r \in Rows
        PROVE  decode(column[r]) = {parent} /\ ~Wide(column[r]) <=> column[r] = key
    <2>1. parent \in Tokens /\ key \in encode(parent) /\ column[r] \in Nat
      BY <1>1, TableType DEF KeyAsked
    <2>2. column[r] \in encode(parent) <=> column[r] = key
      BY <2>1, EncodedOnce
    <2> QED BY <2>1, <2>2, EncodeInvertsDecode
  <1>2. ~coded => key = parent.rid
    BY DEF KeyAsked
  <1> QED BY <1>1, <1>2 DEF Owned

(* A token the key column has no tag for owns no row.                      *)
LEMMA NoKeyOwnsNothing ==
  ASSUME TypeOK, CallTyped, coded, parent \in Tokens, encode(parent) = {}
  PROVE  Owned = {}
  BY TableType, EncodeInvertsDecode DEF Owned

(* The answer of the lookup, as facts about the rows with the key.         *)
LEMMA Answered ==
  ASSUME TypeOK, CallTyped, LookupComplete, pc = "answered"
  PROVE  /\ \A i \in DOMAIN out : out[i] \in Rows /\ column[out[i]] = key
         /\ \A i, j \in DOMAIN out : i < j => out[i] < out[j]
         /\ \A r \in Rows : column[r] = key => \E i \in DOMAIN out : out[i] = r
  BY TableType DEF LookupComplete, Abstract!Lists

(* What enclosing_type returns is what the nesting says of the type.       *)
LEMMA EncloserFound ==
  ASSUME TypeOK, CallTyped, LookupComplete, pc = "answered"
  PROVE  enclosing_type = Encloser(key)
  <1> USE TableType, Answered
  <1>1. ASSUME NEW o \in enclosing_type PROVE o \in Encloser(key)
    <2>1. 1 \in DOMAIN out /\ o = second[out[1]]
      BY <1>1 DEF enclosing_type
    <2>2. ASSUME NEW q \in 1..out[1] - 1, column[q] = key PROVE FALSE
      <3>1. q \in Rows /\ q < out[1]
        BY <2>1
      <3>2. PICK i \in DOMAIN out : out[i] = q
        BY <3>1, <2>2
      <3>3. i = 1 \/ 1 < i
        BY <2>1
      <3> QED BY <2>1, <3>1, <3>2, <3>3
    <2> QED BY <2>1, <2>2 DEF Encloser
  <1>2. ASSUME NEW o \in Encloser(key) PROVE o \in enclosing_type
    <2>1. PICK r \in Rows : column[r] = key /\ o = second[r]
                           /\ \A q \in 1..r - 1 : column[q] # key
      BY <1>2 DEF Encloser
    <2>2. PICK i \in DOMAIN out : out[i] = r
      BY <2>1
    <2>3. i = 1
      <3>1. SUFFICES ASSUME i # 1 PROVE FALSE
        OBVIOUS
      <3>2. 1 \in DOMAIN out /\ 1 < i
        BY <3>1
      <3>3. out[1] \in Rows /\ out[1] < r /\ column[out[1]] = key
        BY <3>2, <2>2
      <3> QED BY <3>3, <2>1
    <2> QED BY <2>1, <2>2, <2>3 DEF enclosing_type
  <1> QED BY <1>1, <1>2

-------------------------------------------------------------------------------

(* A step inside the lookup leaves what a call has to show alone.          *)
LEMMA InsideLookup ==
  ASSUME CallInv, UNCHANGED <<column, table, calling, key>>
  PROVE  CallInv'
  <1>1. UNCHANGED <<column, coded, second, call, stage, parent, at, rows, key>>
    BY DEF table, calling
  <1>2. UNCHANGED <<Owned, Entries(rows), count, current>> /\ \A t : Encloser(t)' = Encloser(t)
    BY <1>1 DEF Owned, Entries, Rows, count, Encloser, current
  <1>3. KeyAsked' /\ RowsExact' /\ FirstIsLeast'
    BY <1>1, <1>2 DEF CallInv, KeyAsked, RowsExact, FirstIsLeast
  <1>6. DeclarationOrder'
    BY <1>1, <1>2 DEF CallInv, DeclarationOrder, Before
  <1>7. NestedSoFar' /\ NestingMirrored'
    BY <1>1, <1>2 DEF CallInv, NestedSoFar, NestingMirrored, Rows
  <1>4. NameSoFar'
    BY <1>1, <1>2 DEF CallInv, NameSoFar
  <1>5. NameFollowsNesting'
    BY <1>1, <1>2 DEF CallInv, NameFollowsNesting
  <1> QED BY <1>3, <1>4, <1>5, <1>6, <1>7 DEF CallInv

LEMMA ReturnInv ==
  ASSUME TypeOK, CallTyped, LookupComplete, CallInv, Return
  PROVE  CallInv'
  <1>1. /\ stage = "lookup" /\ call # "name" /\ pc = "answered"
        /\ stage' = "idle" /\ call' = call
        /\ UNCHANGED <<column, coded, second, parent>>
        /\ call = "rows" => rows' = out
        /\ call = "first" => rows' = SubSeq(out, 1, IF out = << >> THEN 0 ELSE 1)
    BY DEF Return, vars, opened, table
  <1>2. Owned' = {r \in Rows : column[r] = key}
    BY <1>1, KeyOwns DEF CallInv, Owned, Rows, count
  <1>a. /\ \A i \in DOMAIN out : out[i] \in Rows /\ column[out[i]] = key
        /\ \A i, j \in DOMAIN out : i < j => out[i] < out[j]
        /\ \A r \in Rows : column[r] = key => \E i \in DOMAIN out : out[i] = r
    BY <1>1, Answered
  <1>b. /\ out \in Seq(1..MaxU32) /\ DOMAIN out = 1..Len(out) /\ Len(out) \in Nat
        /\ Rows = 1..count /\ count \in Nat
    BY TableType
  <1>3. RowsExact'
    <2> SUFFICES ASSUME call = "rows"
                 PROVE  Entries(rows)' = Owned' /\ \A i, j \in DOMAIN out : i < j => out[i] < out[j]
      BY <1>1 DEF RowsExact, Entries
    <2> QED BY <1>1, <1>2, Answered, TableType DEF Entries
  <1>4. FirstIsLeast'
    <2> SUFFICES ASSUME call = "first"
                 PROVE  /\ Owned' = {} <=> rows' = << >>
                        /\ \A r \in Entries(rows)' : r \in Owned' /\ \A q \in Owned' : r <= q
      BY <1>1 DEF FirstIsLeast
    <2>1. CASE out = << >>
      <3>1. rows' = << >> /\ DOMAIN out = {}
        BY <1>1, <2>1, <1>b
      <3>2. \A r \in Rows : column[r] # key
        BY <1>a, <3>1
      <3>3. Owned' = {}
        BY <1>2, <3>2
      <3>4. Entries(rows)' = {}
        BY <3>1 DEF Entries
      <3> QED BY <3>1, <3>3, <3>4
    <2>2. CASE out # << >>
      <3>1. rows' = <<out[1]>> /\ 1 \in DOMAIN out
        <4>1. Len(out) \in Nat \ {0}
          BY <2>2, <1>b, EmptySeq
        <4>2. rows' = SubSeq(out, 1, 1)
          BY <1>1, <2>2
        <4>3. SubSeq(out, 1, 1) = <<out[1]>>
          <5> DEFINE S == 1..MaxU32
                     f == SubSeq(out, 1, 1)
          <5>1. out[1] \in S
            <6> HIDE DEF S
            <6>1. out \in [1..Len(out) -> S]
              BY <1>b, LenProperties DEF S
            <6> QED BY <6>1, <4>1
          <5>2. <<out[1]>> \in Seq(S) /\ Len(<<out[1]>>) = 1 /\ <<out[1]>>[1] = out[1]
            BY <5>1
          <5>3. \A i \in 1..1 : out[i] \in S
            BY <5>1
          <5>4. /\ f \in Seq(S)
                /\ Len(f) = IF 1 <= 1 THEN 1 - 1 + 1 ELSE 0
                /\ \A i \in 1..1 - 1 + 1 : f[i] = out[1 + i - 1]
            <6> HIDE DEF S
            <6> QED BY <5>3, SubSeqProperties
          <5>5. Len(f) = 1 /\ f[1] = out[1]
            BY <5>4
          <5> HIDE DEF f
          <5>6. f = <<out[1]>>
            BY <5>2, <5>4, <5>5, SeqEqual
          <5> QED BY <5>6 DEF f
        <4> QED BY <4>1, <4>2, <4>3, <1>b
      <3>2. Entries(rows)' = {out[1]} /\ rows' # << >>
        BY <3>1 DEF Entries
      <3>3. out[1] \in Owned'
        BY <3>1, <1>2, <1>a
      <3>4. ASSUME NEW q \in Owned' PROVE out[1] <= q
        <4>1. PICK i \in DOMAIN out : out[i] = q
          BY <1>2, <1>a
        <4>2. i = 1 \/ 1 < i
          BY <1>b
        <4>3. out[1] = q \/ out[1] < q
          BY <3>1, <4>1, <4>2, <1>a
        <4>4. out[1] \in Nat /\ q \in Nat
          BY <3>1, <4>1, <1>a, <1>b
        <4> QED BY <4>3, <4>4
      <3> QED BY <3>2, <3>3, <3>4
    <2> QED BY <2>1, <2>2
  <1>5. DeclarationOrder'
    <2> SUFFICES ASSUME call = "ordered"
                 PROVE  /\ Entries(rows)' = Owned'
                        /\ \A i, j \in DOMAIN rows' : i < j => Before(rows'[i], rows'[j])
      BY <1>1 DEF DeclarationOrder, Before
    <2>1. rows' \in sorted_by_number(out)
      BY DEF Return
    <2>2. Entries(out) = Owned'
      BY <1>2, <1>a DEF Entries
    <2>3. Entries(rows)' = Owned'
      BY <2>1, <2>2 DEF sorted_by_number, Entries
    <2>4. \A i, j \in DOMAIN rows' : i < j => Before(rows'[i], rows'[j])
      BY <2>1, Zenon DEF sorted_by_number
    <2> QED BY <2>3, <2>4
  <1>6. NestedSoFar' /\ NestingMirrored'
    BY <1>1 DEF NestedSoFar, NestingMirrored, CallInv, Return
  <1> QED BY <1>1, <1>3, <1>4, <1>5, <1>6 DEF CallInv, KeyAsked, NameSoFar, NameFollowsNesting

(* A call begins: the key is its argument's, or it owns nothing.           *)
LEMMA CallMadeInv ==
  ASSUME TypeOK, CallTyped, CallInv, CallMade, TypeOK', CallTyped'
  PROVE  CallInv'
  <1>f. UNCHANGED <<column, coded, second>>
    <2>1. [ParentNext]_allvars
      BY DEF ParentNext
    <2> QED BY <2>1, TableFixed
  <1>1. ASSUME NEW c \in {"rows", "first", "ordered"}, NEW p \in Tokens, ForParent(c, p)
        PROVE  CallInv'
    <2>1. /\ call' = c /\ parent' = p /\ rows' = << >>
          /\ \/ \E k \in sort_key_for(p) : key' = k /\ stage' = "lookup"
             \/ sort_key_for(p) = {} /\ stage' = "idle"
      BY <1>1 DEF ForParent, Calls, RowsWithKey
    <2>2. CASE stage' = "lookup"
      BY <1>f, <2>1, <2>2 DEF CallInv, KeyAsked, RowsExact, FirstIsLeast,
         DeclarationOrder, NestedSoFar, NestingMirrored, NameSoFar,
         NameFollowsNesting, sort_key_for
    <2>3. CASE stage' = "idle"
      <3>1. coded /\ encode(p) = {}
        BY <2>1, <2>3 DEF sort_key_for
      <3>2. Owned' = {}
        <4>1. ASSUME NEW r \in Rows' PROVE ~(decode(column'[r]) = {p} /\ ~Wide(column'[r]))
          <5>1. column'[r] \in Nat
            BY <1>f, TableType DEF Rows, count
          <5> QED BY <3>1, <5>1, EncodeInvertsDecode
        <4> QED BY <4>1, <2>1, <3>1, <1>f DEF Owned
      <3>3. Entries(rows)' = {}
        BY <2>1 DEF Entries
      <3> QED BY <2>1, <2>3, <3>2, <3>3 DEF CallInv, KeyAsked, RowsExact, FirstIsLeast,
         DeclarationOrder, NestedSoFar, NestingMirrored, NameSoFar, NameFollowsNesting
    <2> QED BY <2>1, <2>2, <2>3
  <1>2. ASSUME NEW c \in {"rows", "first"}, NEW r \in Rids, ForRid(c, r)
        PROVE  CallInv'
    <2>1. ~coded /\ call' = c /\ parent' = Typed(r) /\ key' = r /\ stage' = "lookup"
      BY <1>2 DEF ForRid, Calls, RowsWithKey
    <2> QED BY <2>1, <1>f DEF Typed, CallInv, KeyAsked, RowsExact, FirstIsLeast,
         DeclarationOrder, NestedSoFar, NestingMirrored, NameSoFar,
            NameFollowsNesting
  <1>3. ASSUME NEW r \in Rids, NestedTypes(r)
        PROVE  CallInv'
    <2>1. call' = "nested" /\ stage' = "loop" /\ at' = 0 /\ rows' = << >>
      BY <1>3 DEF NestedTypes, Calls
    <2>2. count' \in Nat
      BY <1>f, TableType DEF count
    <2>3. NestedSoFar'
      BY <2>1, <2>2 DEF NestedSoFar
    <2> QED BY <2>1, <2>3 DEF CallInv, KeyAsked, RowsExact, FirstIsLeast, DeclarationOrder,
            NestingMirrored, NameSoFar, NameFollowsNesting
  <1>4. ASSUME NEW r \in Rids, TypeName(r)
        PROVE  CallInv'
    <2>1. /\ call' = "name" /\ parent'.rid = r /\ at' = 0
          /\ \/ IsType(r) /\ rows' = <<r>> /\ stage' = "loop"
             \/ ~IsType(r) /\ rows' = << >> /\ stage' = "idle"
      BY <1>4 DEF TypeName, Calls, Typed
    <2>2. CASE stage' = "loop"
      <3>1. rows' = <<r>> /\ Len(rows') = 1 /\ rows'[1] = r
        BY <2>1, <2>2
      <3>2. count' \in Nat
        BY <1>f, TableType DEF count
      <3>3. \A i \in 1..Len(rows') - 1 : FALSE
        BY <3>1
      <3>4. NameSoFar'
        BY <2>1, <2>2, <3>1, <3>2, <3>3 DEF NameSoFar
      <3> QED BY <2>1, <2>2, <3>4 DEF CallInv, KeyAsked, RowsExact, FirstIsLeast,
         DeclarationOrder, NestedSoFar, NestingMirrored, NameFollowsNesting
    <2>3. CASE stage' = "idle"
      BY <2>1, <2>3 DEF IsType, CallInv, KeyAsked, RowsExact, FirstIsLeast,
         DeclarationOrder, NestedSoFar, NestingMirrored, NameSoFar,
         NameFollowsNesting
    <2> QED BY <2>1, <2>2, <2>3
  <1> QED BY <1>1, <1>2, <1>3, <1>4 DEF CallMade

(* The loop of nested_types.                                               *)
LEMMA NestedInv ==
  ASSUME TypeOK, CallTyped, CallInv, NestedRow \/ NestedDone
  PROVE  CallInv'
  <1>1. /\ call = "nested" /\ stage = "loop" /\ call' = call /\ parent' = parent
        /\ UNCHANGED <<column, second, coded, count>>
        /\ count \in Nat /\ at \in Nat
    BY TableType DEF NestedRow, NestedDone, vars, opened, table, count, CallTyped
  <1>2. /\ at <= count /\ rows \in Seq(Nat)
        /\ \A r \in 1..at : second[r] = parent.rid => column[r] \in Entries(rows)
    BY <1>1 DEF CallInv, NestedSoFar
  <1>3. CASE NestedRow
    <2>1. stage' = "loop" /\ at' = at + 1 /\ at + 1 \in Rows
      BY <1>1, <1>3, TableType DEF NestedRow
    <2> DEFINE c == column[at + 1]
    <2>2. c \in Nat
      BY <2>1, TableType
    <2>3. rows' = IF second[at + 1] = parent.rid THEN Append(rows, c) ELSE rows
      BY <1>3 DEF NestedRow
    <2> HIDE DEF c
    <2>4. /\ Append(rows, c) \in Seq(Nat)
          /\ Entries(Append(rows, c)) = Entries(rows) \cup {c}
      <3>1. /\ Append(rows, c) \in Seq(Nat) /\ Len(Append(rows, c)) = Len(rows) + 1
            /\ \A i \in 1..Len(rows) : Append(rows, c)[i] = rows[i]
            /\ Append(rows, c)[Len(rows) + 1] = c
            /\ DOMAIN rows = 1..Len(rows) /\ Len(rows) \in Nat
            /\ DOMAIN Append(rows, c) = 1..Len(rows) + 1
        BY <1>2, <2>2
      <3> QED BY <3>1 DEF Entries
    <2>5. /\ rows' \in Seq(Nat) /\ Entries(rows)' = Entries(rows')
          /\ Entries(rows) \subseteq Entries(rows')
          /\ second[at + 1] = parent.rid => c \in Entries(rows')
      BY <1>2, <2>3, <2>4 DEF Entries
    <2>6. ASSUME NEW r \in 1..at + 1, second[r] = parent.rid
          PROVE  column[r] \in Entries(rows')
      <3>1. CASE r = at + 1
        BY <2>5, <2>6, <3>1 DEF c
      <3>2. CASE r \in 1..at
        BY <1>2, <2>5, <2>6, <3>2
      <3> QED BY <1>1, <3>1, <3>2
    <2>7. at + 1 <= count
      BY <1>1, <2>1 DEF Rows
    <2>8. \A r \in 1..at' : second'[r] = parent'.rid => column'[r] \in Entries(rows)'
      BY <1>1, <2>1, <2>5, <2>6
    <2>9. NestedSoFar'
      BY <1>1, <2>1, <2>5, <2>7, <2>8 DEF NestedSoFar
    <2> QED BY <1>1, <2>1, <2>9 DEF CallInv, KeyAsked, RowsExact, FirstIsLeast,
            DeclarationOrder, NestingMirrored, NameSoFar, NameFollowsNesting
  <1>4. CASE NestedDone
    <2>1. stage' = "idle" /\ at = count /\ rows' = rows
      BY <1>4 DEF NestedDone
    <2>2. NestingMirrored'
      BY <1>1, <1>2, <2>1 DEF NestingMirrored, Rows, Entries
    <2> QED BY <1>1, <2>1, <2>2 DEF CallInv, KeyAsked, RowsExact, FirstIsLeast,
            DeclarationOrder, NestedSoFar, NameSoFar, NameFollowsNesting
  <1> QED BY <1>3, <1>4

-------------------------------------------------------------------------------
(* The walk outwards                                                       *)

(* What is known of a name between two rounds, and of its outermost type.  *)
LEMMA NameType ==
  ASSUME TypeOK, CallTyped, CallInv, call = "name", stage # "idle"
  PROVE  /\ rows \in Seq(1..TypeCount) /\ rows # << >>
         /\ Len(rows) \in Nat \ {0} /\ current = rows[1] /\ rows[1] \in 1..TypeCount
         /\ TypeCount \in Nat /\ count \in Nat /\ at \in Nat /\ at <= count
  <1>1. rows \in Seq(1..TypeCount) /\ rows # << >> /\ at \in Nat
    BY DEF CallTyped
  <1>2. Head(rows) = rows[1] /\ rows[1] \in 1..TypeCount /\ Len(rows) \in Nat \ {0}
    BY <1>1, NameHead
  <1> QED BY <1>1, <1>2, TableType, KeyAssumption DEF current, CallInv, NameSoFar

(* A step of the walk leaves the nesting as it is.                         *)
LEMMA NestingFixed ==
  ASSUME UNCHANGED <<column, second>>
  PROVE  count' = count /\ \A t : Encloser(t)' = Encloser(t)
  BY DEF count, Encloser, Rows

LEMMA WalkRoundInv ==
  ASSUME TypeOK, CallTyped, CallInv, WalkRound
  PROVE  CallInv'
  <1>1. /\ call = "name" /\ stage = "loop" /\ at < count /\ at' = at + 1
        /\ stage' = "lookup" /\ key' = current
        /\ UNCHANGED <<column, second, coded, call, parent, rows>>
    BY DEF WalkRound, RowsWithKey, opened, table
  <1>2. count' = count /\ current' = current /\ \A t : Encloser(t)' = Encloser(t)
    BY <1>1, NestingFixed DEF current
  <1>3. count \in Nat /\ at \in Nat
    BY <1>1, NameType
  <1>4. /\ rows[Len(rows)] = parent.rid /\ Len(rows) = at + 1
        /\ \A i \in 1..Len(rows) - 1 : rows[i] \in Encloser(rows[i + 1])
    BY <1>1 DEF CallInv, NameSoFar
  <1>5. NameSoFar'
    BY <1>1, <1>2, <1>3, <1>4 DEF NameSoFar
  <1> QED BY <1>1, <1>5 DEF CallInv, KeyAsked, RowsExact, FirstIsLeast, DeclarationOrder,
          NestedSoFar, NestingMirrored, NameFollowsNesting

(* The walk ends: the rounds are used up, or nothing encloses the name.    *)
LEMMA WalkEndsInv ==
  ASSUME TypeOK, CallTyped, CallInv, LookupComplete, WalkedOut \/ WalkStop
  PROVE  CallInv'
  <1>1. /\ call = "name" /\ stage # "idle" /\ stage' = "idle"
        /\ UNCHANGED <<column, second, coded, call, parent, rows>>
    BY DEF WalkedOut, WalkStop, vars, opened, table
  <1>2. count' = count /\ \A t : Encloser(t)' = Encloser(t)
    BY <1>1, NestingFixed
  <1>3. /\ rows # << >> /\ Len(rows) \in Nat /\ count \in Nat /\ at \in Nat /\ at <= count
        /\ current = rows[1]
    BY <1>1, NameType
  <1>4. /\ rows[Len(rows)] = parent.rid
        /\ \A i \in 1..Len(rows) - 1 : rows[i] \in Encloser(rows[i + 1])
        /\ stage = "loop" => Len(rows) = at + 1
        /\ stage = "lookup" => Len(rows) = at /\ key = current
    BY <1>1 DEF CallInv, NameSoFar
  <1>5. /\ Len(rows) <= count + 1
        /\ Len(rows) <= count => Encloser(rows[1]) \subseteq {0, rows[1]}
    <2>1. CASE WalkedOut
      <3>1. stage = "loop" /\ at = count
        BY <2>1 DEF WalkedOut
      <3> QED BY <3>1, <1>3, <1>4
    <2>2. CASE WalkStop
      <3>1. stage = "lookup" /\ pc = "answered" /\ enclosing_type \subseteq {0, current}
        BY <2>2 DEF WalkStop
      <3>2. enclosing_type = Encloser(rows[1])
        BY <3>1, <1>3, <1>4, EncloserFound
      <3> QED BY <3>1, <3>2, <1>3, <1>4
    <2> QED BY <2>1, <2>2
  <1>6. NameFollowsNesting'
    BY <1>1, <1>2, <1>3, <1>4, <1>5 DEF NameFollowsNesting
  <1> QED BY <1>1, <1>6 DEF CallInv, KeyAsked, RowsExact, FirstIsLeast, DeclarationOrder,
          NestedSoFar, NestingMirrored, NameSoFar

(* One type further out, or an encloser that does not exist.               *)
LEMMA WalkOutwardsInv ==
  ASSUME TypeOK, CallTyped, CallInv, LookupComplete, WalkOutwards
  PROVE  CallInv'
  <1>1. /\ call = "name" /\ stage = "lookup" /\ pc = "answered"
        /\ UNCHANGED <<column, second, coded, call, parent, at>>
    BY DEF WalkOutwards, vars, opened, table
  <1>2. count' = count /\ \A t : Encloser(t)' = Encloser(t)
    BY <1>1, NestingFixed
  <1>3. /\ rows \in Seq(1..TypeCount) /\ Len(rows) \in Nat \ {0}
        /\ count \in Nat /\ at \in Nat /\ at <= count
        /\ current = rows[1] /\ rows[1] \in 1..TypeCount
    BY <1>1, NameType
  <1>4. /\ rows[Len(rows)] = parent.rid /\ Len(rows) = at /\ key = current
        /\ \A i \in 1..Len(rows) - 1 : rows[i] \in Encloser(rows[i + 1])
    BY <1>1 DEF CallInv, NameSoFar
  <1>5. PICK o \in Encloser(rows[1]) \ {0, rows[1]} :
          \/ IsType(o) /\ rows' = <<o>> \o rows /\ stage' = "loop"
          \/ ~IsType(o) /\ rows' = << >> /\ stage' = "idle"
    BY <1>1, <1>3, <1>4, EncloserFound DEF WalkOutwards
  <1>6. CASE IsType(o)
    <2>1. o \in 1..TypeCount /\ rows' = <<o>> \o rows /\ stage' = "loop"
      BY <1>5, <1>6 DEF IsType
    <2>2. /\ Len(rows') = Len(rows) + 1 /\ rows'[1] = o
          /\ \A i \in 1..Len(rows) : rows'[i + 1] = rows[i]
      BY <2>1, <1>3, NameGrows
    <2>3. ASSUME NEW i \in 1..Len(rows') - 1 PROVE rows'[i] \in Encloser(rows'[i + 1])
      <3>1. CASE i = 1
        BY <3>1, <1>3, <1>5, <2>2
      <3>2. CASE i # 1
        <4>1. i - 1 \in 1..Len(rows) - 1 /\ i \in 1..Len(rows) /\ (i - 1) + 1 = i
          BY <3>2, <1>3, <2>2
        <4>2. rows'[i] = rows[i - 1] /\ rows'[i + 1] = rows[i]
          BY <4>1, <2>2
        <4>3. rows[i - 1] \in Encloser(rows[(i - 1) + 1])
          BY <4>1, <1>4
        <4> QED BY <4>1, <4>2, <4>3
      <3> QED BY <3>1, <3>2
    <2>4. rows'[Len(rows')] = parent.rid
      BY <2>2, <1>3, <1>4
    <2>5. NameSoFar'
      BY <1>1, <1>2, <1>3, <1>4, <2>1, <2>2, <2>3, <2>4 DEF NameSoFar
    <2> QED BY <1>1, <2>1, <2>5 DEF CallInv, KeyAsked, RowsExact, FirstIsLeast,
            DeclarationOrder, NestedSoFar, NestingMirrored, NameFollowsNesting
  <1>7. CASE ~IsType(o)
    <2>1. rows' = << >> /\ stage' = "idle"
      BY <1>5, <1>7
    <2>2. \E t \in 1..TypeCount : \E e \in Encloser(t) \ {0} : ~IsType(e)
      BY <1>3, <1>5, <1>7
    <2>3. NameFollowsNesting'
      BY <1>1, <1>2, <2>1, <2>2 DEF NameFollowsNesting, IsType
    <2> QED BY <1>1, <2>1, <2>3 DEF CallInv, KeyAsked, RowsExact, FirstIsLeast,
            DeclarationOrder, NestedSoFar, NestingMirrored, NameSoFar
  <1> QED BY <1>6, <1>7

-------------------------------------------------------------------------------

LEMMA CallsStep ==
  ASSUME TypeOK, LookupComplete, CallTyped, CallInv, [ParentNext]_allvars, TypeOK', CallTyped'
  PROVE  CallInv'
  <1>1. CASE LookupStep
    <2>1. UNCHANGED <<key, table, calling>>
      BY <1>1 DEF LookupStep, Step, VerifyTrivial, VerifyFirst, VerifyNext, VerifySorted,
         VerifyUnsorted, SearchNarrow, SearchDone, Collect, CollectDone, ScanRow, ScanDone,
         search
    <2> QED BY <2>1, TableFixed, InsideLookup
  <1>2. CASE UNCHANGED allvars
    <2>1. UNCHANGED <<key, column, table, calling>>
      BY <1>2 DEF allvars, vars, opened, search
    <2> QED BY <2>1, InsideLookup
  <1>3. CASE CallMade
    BY <1>3, CallMadeInv
  <1> QED BY <1>1, <1>2, <1>3, ReturnInv, NestedInv, WalkRoundInv, WalkEndsInv, WalkOutwardsInv
          DEF ParentNext, CallStep

THEOREM CallInvariance == ParentSpec => []CallInv
  BY InitCalls, CallsStep, CallsTyped, CallsUseTheLookup, TypeCorrect, LookupCorrect, PTL
     DEF ParentSpec

(* Every finished call answers for its argument: the rows whose key decodes*)
(* to the parent, their first, the parameters in declaration order, and the*)
(* types nested in a type.                                                 *)
THEOREM CallsAreExact == ParentSpec => []CallsExact
  <1>1. CallInv => CallsExact
    BY DEF CallInv, CallsExact
  <1> QED BY <1>1, CallInvariance, PTL

(* A type's name is the chain of its enclosers, no longer than NestedClass *)
(* has rows, on cyclic nesting too.                                        *)
THEOREM NamesFollowNesting == ParentSpec => []NameFollowsNesting
  <1>1. CallInv => NameFollowsNesting
    BY DEF CallInv
  <1> QED BY <1>1, CallInvariance, PTL
================================================================================
