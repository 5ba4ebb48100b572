--------------------------- MODULE InstructionStream ---------------------------
(***************************************************************************)
(* The three readers of a method's code: InstructionIter, which decodes it *)
(* from offset 0; FoldedIter, which folds prefix opcodes onto the          *)
(* instruction they modify; and is_instruction_boundary, which walks the   *)
(* raw stream to an offset.  A client calls next until it returns None,    *)
(* and goes on after an error, as a for loop over the iterator does.       *)
(*                                                                         *)
(* The code is what decode_at finds at the offsets a linear decode can     *)
(* reach: an opcode, the bytes of its operand, a switch's target count.    *)
(* Operand values that steer nothing are left out.                         *)
(***************************************************************************)
EXTENDS Naturals, Sequences, FiniteSets

CONSTANTS
  Codes,         \* the method codes
  OffsetLimit,   \* u32::MAX + 1
  NoOffset       \* not an offset

None == "none"

(* The operand shapes and the bytes each takes, a switch's apart.          *)
OperandBytes ==
  [InlineNone |-> 0, ShortInlineI |-> 1, ShortInlineVar |-> 1, ShortInlineBrTarget |-> 1,
   InlineVar |-> 2, InlineI |-> 4, InlineBrTarget |-> 4, ShortInlineR |-> 4,
   InlineI8 |-> 8, InlineR |-> 8, InlineMethod |-> 4, InlineField |-> 4, InlineType |-> 4,
   InlineTok |-> 4, InlineSig |-> 4, InlineString |-> 4]

(* An instruction as the bytes state it: of a switch the number of targets,*)
(* of a no. prefix whether its operand suppresses any check.               *)
Instructions ==
  [op : STRING, opcode_size : {1, 2}, operand : DOMAIN OperandBytes \cup {"InlineSwitch"},
   targets : Nat, checks : BOOLEAN]

Size(i) ==
  i.opcode_size + (IF i.operand = "InlineSwitch" THEN 4 + 4 * i.targets
                                                 ELSE OperandBytes[i.operand])

(* at holds what is decoded at every offset of the linear decode.          *)
ASSUME CodesAssumption ==
  /\ OffsetLimit \in Nat
  /\ NoOffset \notin Nat
  /\ \A c \in Codes :
       /\ c.len \in Nat
       /\ DOMAIN c.at \subseteq 0..(c.len - 1)
       /\ c.len > 0 => 0 \in DOMAIN c.at
       /\ \A o \in DOMAIN c.at :
            /\ c.at[o] \in Instructions
            /\ Size(c.at[o]) < OffsetLimit
            /\ \A p \in DOMAIN c.at : o < p => o + Size(c.at[o]) <= p
            /\ o + Size(c.at[o]) < c.len => o + Size(c.at[o]) \in DOMAIN c.at

VARIABLES
  code,          \* the code being read
  reader,        \* who reads it: "raw", "folded" or "boundary"
  asked,         \* the offset is_instruction_boundary is asked about
  offset, done,  \* InstructionIter
  prefixes,      \* the prefixes FoldedIter.next has folded so far
  first_offset,  \* the offset of the first of them, or NoOffset
  items,         \* what the client has been given
  answer         \* None, or how the reading ended: "end", "yes" or "no"

vars == <<code, reader, asked, offset, done, prefixes, first_offset, items, answer>>

Init ==
  /\ code \in Codes
  /\ reader \in {"raw", "folded", "boundary"}
  /\ asked \in IF reader = "boundary" THEN 0..(OffsetLimit - 1) ELSE {0}
  /\ offset = 0
  /\ done = FALSE
  /\ prefixes = {}
  /\ first_offset = NoOffset
  /\ items = << >>
  /\ answer = None

-------------------------------------------------------------------------------
(* InstructionIter::next                                                   *)

(* decode_at succeeds: the opcode is known, its operand is complete, and a *)
(* switch does not claim more targets than bytes remain.                   *)
Decodes(o) ==
  /\ o \in DOMAIN code.at
  /\ code.at[o].op # "unknown"
  /\ IF code.at[o].operand = "InlineSwitch"
     THEN /\ o + code.at[o].opcode_size + 4 <= code.len
          /\ code.at[o].targets <= (code.len - (o + code.at[o].opcode_size + 4)) \div 4
     ELSE o + Size(code.at[o]) <= code.len

instruction == code.at[offset]
next_offset == (offset + Size(instruction)) % OffsetLimit

InnerEnds == done \/ offset >= code.len
InnerFails == ~InnerEnds /\ ~Decodes(offset)
InnerYields == ~InnerEnds /\ Decodes(offset)

(* Mutant: the guard against a wrapped offset is missing.                  *)
AdvanceUnguarded ==
  /\ InnerYields
  /\ offset' = next_offset
  /\ UNCHANGED done

Advance ==
  /\ InnerYields
  /\ IF next_offset <= offset
     THEN done' = TRUE /\ UNCHANGED offset
     ELSE offset' = next_offset /\ UNCHANGED done

Fuse == done' = TRUE /\ UNCHANGED offset

Item(first, with) ==
  [kind |-> "item", first |-> first, offset |-> offset, end |-> next_offset, prefixes |-> with]
Error == [kind |-> "error"]
Give(item) == items' = Append(items, item)

-------------------------------------------------------------------------------
(* The raw stream                                                          *)

RawItem ==
  /\ answer = None /\ reader = "raw"
  /\ Advance
  /\ Give(Item(offset, {}))
  /\ UNCHANGED <<code, reader, asked, prefixes, first_offset, answer>>

RawFail ==
  /\ answer = None /\ reader = "raw"
  /\ InnerFails
  /\ Fuse
  /\ Give(Error)
  /\ UNCHANGED <<code, reader, asked, prefixes, first_offset, answer>>

RawEnd ==
  /\ answer = None /\ reader = "raw"
  /\ InnerEnds
  /\ answer' = "end"
  /\ UNCHANGED <<code, reader, asked, offset, done, prefixes, first_offset, items>>

-------------------------------------------------------------------------------
(* The folded stream: one step per iteration of the loop in next           *)

PrefixOps == {"constrained", "volatile", "unaligned", "tail", "readonly", "no"}

(* apply_prefix: every prefix at most once, and a no. must suppress        *)
(* something.                                                              *)
PrefixApplies ==
  /\ instruction.op \notin prefixes
  /\ instruction.op = "no" => instruction.checks

memory_accesses ==
  {"ldind.i1", "ldind.u1", "ldind.i2", "ldind.u2", "ldind.i4", "ldind.u4", "ldind.i8",
   "ldind.i", "ldind.r4", "ldind.r8", "ldind.ref", "stind.ref", "stind.i1", "stind.i2",
   "stind.i4", "stind.i8", "stind.r4", "stind.r8", "stind.i", "ldfld", "stfld", "ldobj",
   "stobj", "initblk", "cpblk"}
allows_unaligned == memory_accesses
allows_volatile == memory_accesses \cup {"ldsfld", "stsfld"}
allows_no ==
  {"castclass", "isinst", "unbox", "unbox.any", "ldelema", "ldelem", "ldelem.i1",
   "ldelem.u1", "ldelem.i2", "ldelem.u2", "ldelem.i4", "ldelem.u4", "ldelem.i8", "ldelem.i",
   "ldelem.r4", "ldelem.r8", "ldelem.ref", "stelem", "stelem.i", "stelem.i1", "stelem.i2",
   "stelem.i4", "stelem.i8", "stelem.r4", "stelem.r8", "stelem.ref", "ldfld", "stfld",
   "callvirt", "ldvirtftn", "ldlen"}

PrefixTargets ==
  [constrained |-> {"callvirt", "call", "ldftn"},
   tail |-> {"call", "calli", "callvirt"},
   readonly |-> {"ldelema", "call", "callvirt"},
   volatile |-> allows_volatile,
   unaligned |-> allows_unaligned,
   no |-> allows_no]

(* check_prefix_targets                                                    *)
PrefixesFit == \A p \in prefixes : instruction.op \in PrefixTargets[p]

first == IF first_offset = NoOffset THEN offset ELSE first_offset

StartOver == prefixes' = {} /\ first_offset' = NoOffset

FoldPrefix ==
  /\ answer = None /\ reader = "folded"
  /\ Advance
  /\ instruction.op \in PrefixOps
  /\ PrefixApplies
  /\ prefixes' = prefixes \cup {instruction.op}
  /\ first_offset' = first
  /\ UNCHANGED <<code, reader, asked, items, answer>>

(* Mutant: a rejected prefix does not stop the iterator.                   *)
FoldBadPrefixUnfused ==
  /\ answer = None /\ reader = "folded"
  /\ Advance
  /\ instruction.op \in PrefixOps
  /\ ~PrefixApplies
  /\ StartOver
  /\ Give(Error)
  /\ UNCHANGED <<code, reader, asked, answer>>

(* The inner iterator has moved on when the prefix is found wanting.       *)
FoldBadPrefix ==
  /\ answer = None /\ reader = "folded"
  /\ InnerYields
  /\ instruction.op \in PrefixOps
  /\ ~PrefixApplies
  /\ done' = TRUE
  /\ offset' = IF next_offset <= offset THEN offset ELSE next_offset
  /\ StartOver
  /\ Give(Error)
  /\ UNCHANGED <<code, reader, asked, answer>>

(* Mutant: the folded prefixes leak into the next instruction.             *)
FoldItemKeeping ==
  /\ answer = None /\ reader = "folded"
  /\ Advance
  /\ instruction.op \notin PrefixOps
  /\ PrefixesFit
  /\ Give(Item(first, prefixes))
  /\ first_offset' = NoOffset
  /\ UNCHANGED <<code, reader, asked, prefixes, answer>>

FoldItem ==
  /\ answer = None /\ reader = "folded"
  /\ Advance
  /\ instruction.op \notin PrefixOps
  /\ PrefixesFit
  /\ Give(Item(first, prefixes))
  /\ StartOver
  /\ UNCHANGED <<code, reader, asked, answer>>

FoldBadTarget ==
  /\ answer = None /\ reader = "folded"
  /\ InnerYields
  /\ instruction.op \notin PrefixOps
  /\ ~PrefixesFit
  /\ done' = TRUE
  /\ offset' = IF next_offset <= offset THEN offset ELSE next_offset
  /\ StartOver
  /\ Give(Error)
  /\ UNCHANGED <<code, reader, asked, answer>>

FoldFail ==
  /\ answer = None /\ reader = "folded"
  /\ InnerFails
  /\ Fuse
  /\ StartOver
  /\ Give(Error)
  /\ UNCHANGED <<code, reader, asked, answer>>

(* The code ended on a prefix, which modifies nothing.                     *)
FoldDangling ==
  /\ answer = None /\ reader = "folded"
  /\ InnerEnds
  /\ first_offset # NoOffset
  /\ Fuse
  /\ StartOver
  /\ Give(Error)
  /\ UNCHANGED <<code, reader, asked, answer>>

FoldEnd ==
  /\ answer = None /\ reader = "folded"
  /\ InnerEnds
  /\ first_offset = NoOffset
  /\ answer' = "end"
  /\ UNCHANGED <<code, reader, asked, offset, done, prefixes, first_offset, items>>

-------------------------------------------------------------------------------
(* is_instruction_boundary                                                 *)

(* Mutant: an offset beyond the one asked about counts as found.           *)
BoundaryStepLoose ==
  /\ answer = None /\ reader = "boundary"
  /\ Advance
  /\ answer' = IF offset >= asked THEN "yes" ELSE None
  /\ UNCHANGED <<code, reader, asked, prefixes, first_offset, items>>

BoundaryStep ==
  /\ answer = None /\ reader = "boundary"
  /\ Advance
  /\ answer' = IF offset = asked THEN "yes" ELSE IF offset > asked THEN "no" ELSE None
  /\ UNCHANGED <<code, reader, asked, prefixes, first_offset, items>>

BoundaryFail ==
  /\ answer = None /\ reader = "boundary"
  /\ InnerFails
  /\ Fuse
  /\ answer' = "no"
  /\ UNCHANGED <<code, reader, asked, prefixes, first_offset, items>>

BoundaryEnd ==
  /\ answer = None /\ reader = "boundary"
  /\ InnerEnds
  /\ answer' = "no"
  /\ UNCHANGED <<code, reader, asked, offset, done, prefixes, first_offset, items>>

-------------------------------------------------------------------------------

Next ==
  \/ RawItem \/ RawFail \/ RawEnd
  \/ FoldPrefix \/ FoldBadPrefix \/ FoldItem \/ FoldBadTarget \/ FoldFail
  \/ FoldDangling \/ FoldEnd
  \/ BoundaryStep \/ BoundaryFail \/ BoundaryEnd

Spec == Init /\ [][Next]_vars
FairSpec == Spec /\ WF_vars(Next)

-------------------------------------------------------------------------------
(* Properties                                                              *)

IsItem(n) == items[n].kind = "item"

(* The offsets a linear decode reaches without an error.                   *)
Boundaries == {o \in DOMAIN code.at : \A p \in DOMAIN code.at : p <= o => Decodes(p)}

(* The prefixes of an item are exactly the prefix opcodes in front of its  *)
(* instruction, each one there once, and each may precede it.              *)
PrefixesAreTheirs ==
  \A n \in 1..Len(items) : IsItem(n) /\ reader = "folded" =>
    LET before == {o \in DOMAIN code.at : items[n].first <= o /\ o < items[n].offset}
        op(o) == code.at[o].op
    IN  /\ items[n].prefixes = {op(o) : o \in before}
        /\ \A o, p \in before : op(o) = op(p) => o = p
        /\ op(items[n].offset) \notin PrefixOps
        /\ \A o \in before : op(items[n].offset) \in PrefixTargets[op(o)]

(* is_instruction_boundary agrees with instruction_offsets: yes exactly    *)
(* for the offsets a decode from the start passes through.                 *)
BoundaryExact ==
  /\ answer = "yes" => asked \in Boundaries
  /\ answer = "no" => asked \notin Boundaries

(* Every client gets to the end, also when offsets wrap.                   *)
ReadingEnds == <>(answer # None)

(* Where the last item ended, not wrapped.                                 *)
Consumed ==
  LET spans == {n \in 1..Len(items) : IsItem(n)}
      last == CHOOSE n \in spans : \A m \in spans : m <= n
  IN  IF spans = {} THEN 0 ELSE items[last].offset + Size(code.at[items[last].offset])

(* The raw and the folded stream are forward scans of the code: an error   *)
(* is the last thing they return, and an end without an error means that   *)
(* every byte is accounted for, trailing prefixes included.                *)
Scan == INSTANCE ForwardScan WITH
          Addressable <- OffsetLimit,
          limit <- code.len,
          at <- Consumed,
          taken <- Cardinality({n \in 1..Len(items) : IsItem(n)}),
          status <- IF items # << >> /\ ~IsItem(Len(items)) THEN "failed"
                    ELSE IF answer = "end" THEN "ended" ELSE "open"
RefinesScan == Scan!Spec
===============================================================================
