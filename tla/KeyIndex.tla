------------------------------- MODULE KeyIndex -------------------------------
(***************************************************************************)
(* What a keyed table lookup promises, with no reference to how it is      *)
(* found.  A table of rows is fixed when the stream is parsed; from then   *)
(* on a caller may ask, again and again, for the rows whose sort key       *)
(* equals a key, and every answer is the complete, ascending list of them, *)
(* whether or not the image told the truth about the order of the table.   *)
(* A table may also be refused when it is opened, and is then never asked. *)
(***************************************************************************)
EXTENDS Naturals, Sequences

CONSTANT Columns    \* the sort-key columns a table may have, by RID
CONSTANT Keys       \* the raw keys a caller may ask for

VARIABLES column,   \* the raw key of every row
          phase,    \* "opening", "idle", "asked", "answered" or "refused"
          key,      \* the key asked for
          answer    \* the RIDs last returned, << >> while there is none

vars == <<column, phase, key, answer>>

(* s lists exactly the rows 1..n of col that hold k, in ascending order.   *)
Lists(s, col, n, k) ==
  /\ \A i \in 1..Len(s) : s[i] \in 1..n /\ col[s[i]] = k
  /\ \A i, j \in 1..Len(s) : i < j => s[i] < s[j]
  /\ \A r \in 1..n : col[r] = k => \E i \in 1..Len(s) : s[i] = r

Init ==
  /\ column \in Columns
  /\ phase = "opening"
  /\ key \in Keys
  /\ answer = << >>

Open ==
  /\ phase = "opening"
  /\ phase' \in {"idle", "refused"}
  /\ UNCHANGED <<column, key, answer>>

Ask ==
  /\ phase \in {"idle", "answered"}
  /\ phase' = "asked"
  /\ key' \in Keys
  /\ answer' = << >>
  /\ UNCHANGED column

Answer ==
  /\ phase = "asked"
  /\ phase' = "answered"
  /\ Lists(answer', column, Len(column), key)
  /\ UNCHANGED <<column, key>>

(* A question that needs no work is answered as it is asked.               *)
AnswerAtOnce ==
  /\ phase \in {"idle", "answered"}
  /\ phase' = "answered"
  /\ key' \in Keys
  /\ Lists(answer', column, Len(column), key')
  /\ UNCHANGED column

Next == Open \/ Ask \/ Answer \/ AnswerAtOnce

Spec == Init /\ [][Next]_vars
===============================================================================
