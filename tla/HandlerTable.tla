----------------------------- MODULE HandlerTable -----------------------------
(***************************************************************************)
(* MethodBody::validate_handlers: the exception table of a parsed body,    *)
(* whose offsets are whatever the image says, against the code it refers   *)
(* to.  Each handler is checked on its own and then against every other    *)
(* one, whose own range has perhaps not been checked yet; ends saturate at *)
(* the width of an offset.                                                 *)
(*                                                                         *)
(* One step is one handler's own checks or one pair.                       *)
(***************************************************************************)
EXTENDS Naturals, Sequences

CONSTANTS
  OffsetMax,     \* u32::MAX
  CodeLens,      \* the lengths of the code
  Tables         \* the exception tables

(* filter is the filter's offset, or NoFilter for the other kinds.         *)
NoFilter == OffsetMax + 1
Handlers == [try_offset : 0..OffsetMax, try_length : 0..OffsetMax,
             handler_offset : 0..OffsetMax, handler_length : 0..OffsetMax,
             filter : 0..NoFilter]

ASSUME TablesAssumption ==
  /\ OffsetMax \in Nat
  /\ CodeLens \subseteq 0..OffsetMax
  /\ \A t \in Tables : t \in Seq(Handlers)

VARIABLES
  code_len,      \* self.code.len()
  table,         \* self.exception_handlers
  i, j,          \* the indices of the two loops
  pc,            \* "own", "pairs", "ok" or "rejected"
  error          \* the error of a rejected table

validate_vars == <<code_len, table, i, j, pc, error>>

ValidateInit ==
  /\ code_len \in CodeLens
  /\ table \in Tables
  /\ i = 1
  /\ j = 1
  /\ pc = "own"
  /\ error = "none"

(* saturating_add                                                          *)
Saturated(n) == IF n > OffsetMax THEN OffsetMax ELSE n

try_end(h) == Saturated(h.try_offset + h.try_length)
handler_end(h) == Saturated(h.handler_offset + h.handler_length)

OutOfRange(h) ==
  \/ h.try_offset + h.try_length > code_len
  \/ h.handler_offset + h.handler_length > code_len

Empty(h) == h.try_length = 0 \/ h.handler_length = 0

(* The handler shares code with the block it protects.                     *)
InsideOwnTry(h) == h.handler_offset < try_end(h) /\ handler_end(h) > h.try_offset

FilterOutside(h) == h.filter # NoFilter /\ h.filter >= code_len
FilterBehind(h) == h.filter # NoFilter /\ h.filter >= h.handler_offset

(* Mutant: a range that starts where another one starts is taken to lie    *)
(* inside it.                                                              *)
partially_overlaps_loose(a_start, a_end, b_start, b_end) ==
  /\ a_start < b_end /\ b_start < a_end
  /\ ~(b_start <= a_start)
  /\ ~(a_start <= b_start)

(* Mutant: ranges that only touch are taken to overlap.                    *)
partially_overlaps_touching(a_start, a_end, b_start, b_end) ==
  /\ a_start <= b_end /\ b_start <= a_end
  /\ ~(b_start <= a_start /\ a_end <= b_end)
  /\ ~(a_start <= b_start /\ b_end <= a_end)

(* Two half-open ranges overlap and neither contains the other.            *)
partially_overlaps(a_start, a_end, b_start, b_end) ==
  /\ a_start < b_end /\ b_start < a_end
  /\ ~(b_start <= a_start /\ a_end <= b_end)
  /\ ~(a_start <= b_start /\ b_end <= a_end)

Crossed(h, other) ==
  \/ partially_overlaps(h.try_offset, try_end(h), other.try_offset, try_end(other))
  \/ partially_overlaps(h.handler_offset, handler_end(h),
                        other.handler_offset, handler_end(other))

Faulty(h) ==
  OutOfRange(h) \/ Empty(h) \/ InsideOwnTry(h) \/ FilterOutside(h) \/ FilterBehind(h)

Reject(why) == pc' = "rejected" /\ error' = why

CheckOwn ==
  /\ pc = "own"
  /\ i <= Len(table)
  /\ IF Faulty(table[i])
     THEN /\ Reject(IF OutOfRange(table[i]) THEN "OutOfRange"
                    ELSE IF Empty(table[i]) \/ InsideOwnTry(table[i]) THEN "Malformed"
                    ELSE IF FilterOutside(table[i]) THEN "OutOfRange" ELSE "Malformed")
          /\ UNCHANGED j
     ELSE pc' = "pairs" /\ j' = 1 /\ UNCHANGED error
  /\ UNCHANGED <<code_len, table, i>>

CheckPair ==
  /\ pc = "pairs"
  /\ j <= Len(table)
  /\ IF i # j /\ Crossed(table[i], table[j])
     THEN Reject("Malformed") /\ UNCHANGED j
     ELSE j' = j + 1 /\ UNCHANGED <<pc, error>>
  /\ UNCHANGED <<code_len, table, i>>

PairsDone ==
  /\ pc = "pairs"
  /\ j = Len(table) + 1
  /\ i' = i + 1
  /\ pc' = "own"
  /\ UNCHANGED <<code_len, table, j, error>>

AllChecked ==
  /\ pc = "own"
  /\ i = Len(table) + 1
  /\ pc' = "ok"
  /\ UNCHANGED <<code_len, table, i, j, error>>

ValidateNext == CheckOwn \/ CheckPair \/ PairsDone \/ AllChecked

ValidateSpec == ValidateInit /\ [][ValidateNext]_validate_vars

-------------------------------------------------------------------------------
(* Properties: the promise in terms of the sets of offsets a range covers, *)
(* with no saturation.                                                     *)

(* The loops stay in the table and the error is one of the two kinds.      *)
TypeOK ==
  /\ code_len \in CodeLens
  /\ i \in 1..(Len(table) + 1)
  /\ j \in 1..(Len(table) + 1)
  /\ pc \in {"own", "pairs", "ok", "rejected"}
  /\ error \in {"none", "OutOfRange", "Malformed"}
  /\ pc = "rejected" <=> error # "none"

Try(h) == h.try_offset..(h.try_offset + h.try_length - 1)
Handler(h) == h.handler_offset..(h.handler_offset + h.handler_length - 1)
Code == 0..(code_len - 1)

Nested(a, b) == a \subseteq b \/ b \subseteq a \/ a \cap b = {}

SoundAlone(h) ==
  /\ Try(h) # {} /\ Handler(h) # {}
  /\ Try(h) \subseteq Code /\ Handler(h) \subseteq Code
  /\ Try(h) \cap Handler(h) = {}
  /\ h.filter # NoFilter => h.filter \in Code /\ h.filter < h.handler_offset

SoundPair(h, other) ==
  Nested(Try(h), Try(other)) /\ Nested(Handler(h), Handler(other))

(* An accepted table is what the function promises: every range is inside  *)
(* the code and not empty, no handler lies in the block it protects,       *)
(* filters start in the code in front of their handler, and try blocks and *)
(* handlers nest or are disjoint.                                          *)
AcceptedIsSound ==
  pc = "ok" =>
    /\ \A n \in 1..Len(table) : SoundAlone(table[n])
    /\ \A n, m \in 1..Len(table) : SoundPair(table[n], table[m])

(* A rejected table names a handler at fault: i is unsound alone or with   *)
(* another one, and everything before it is sound alone.                   *)
RejectedIsFaulty ==
  pc = "rejected" =>
    /\ \A n \in 1..(i - 1) : SoundAlone(table[n])
    /\ \/ ~SoundAlone(table[i])
       \/ \E n \in 1..Len(table) : ~SoundPair(table[i], table[n])
===============================================================================
