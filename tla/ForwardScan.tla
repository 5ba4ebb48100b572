------------------------------ MODULE ForwardScan ------------------------------
(***************************************************************************)
(* What an iterator over a byte range promises its caller: items that each *)
(* take at least one byte, the first at byte 0 and every next one where    *)
(* the last ended; an end that comes only when every byte has been         *)
(* accounted for; and after an error nothing more.                         *)
(***************************************************************************)
EXTENDS Naturals

CONSTANT Addressable    \* offsets below this one can be represented

VARIABLES
  limit,    \* the bytes there are
  at,       \* the bytes accounted for
  taken,    \* the items taken
  status    \* "open", "ended" or "failed"

Init == limit \in Nat /\ at = 0 /\ taken = 0 /\ status = "open"

Item ==
  /\ status = "open"
  /\ at' \in Nat /\ at < at' /\ at' <= limit
  /\ taken' = taken + 1
  /\ UNCHANGED <<limit, status>>

(* A range too long to address may end early, at the last offset there is. *)
Finish ==
  /\ status = "open"
  /\ at = limit \/ limit >= Addressable
  /\ status' = "ended"
  /\ UNCHANGED <<limit, at, taken>>

Fail ==
  /\ status = "open"
  /\ status' = "failed"
  /\ UNCHANGED <<limit, at, taken>>

Next == Item \/ Finish \/ Fail

Spec == Init /\ [][Next]_<<limit, at, taken, status>>
===============================================================================
