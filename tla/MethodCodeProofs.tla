---------------------------- MODULE MethodCodeProofs ---------------------------
(***************************************************************************)
(* What is proved about a method's code and its exception table, for every *)
(* code, every table and every width of an offset: InstructionStream and   *)
(* HandlerTable, two independent readers of one MethodBody.                *)
(*                                                                         *)
(* The first part relates the iterator's offset to the instructions of the *)
(* code, then the boundary walk, the prefixes folded and the items given   *)
(* to it, and ends with the refinement of ForwardScan.  The second relates *)
(* the arithmetic of the checks of validate_handlers to the sets of        *)
(* offsets they are about; its loops then only collect what was checked.   *)
(***************************************************************************)
EXTENDS InstructionStream, HandlerTable, FiniteSetTheorems, TLAPS

-------------------------------------------------------------------------------
(* Codes                                                                   *)

(* Every instruction takes at least one byte.                              *)
LEMMA SizeIsPositive ==
  ASSUME NEW ins \in Instructions
  PROVE  Size(ins) \in Nat \ {0}
  <1>1. ins.opcode_size \in {1, 2} /\ ins.targets \in Nat
    BY DEF Instructions
  <1>2. ins.operand \in DOMAIN OperandBytes \cup {"InlineSwitch"}
    BY DEF Instructions
  <1>3. \A x \in DOMAIN OperandBytes : OperandBytes[x] \in Nat
    BY DEF OperandBytes
  <1> QED BY <1>1, <1>2, <1>3 DEF Size

(* A linear decode goes from instruction to instruction.                   *)
LEMMA CodeTyped ==
  ASSUME code \in Codes
  PROVE  /\ OffsetLimit \in Nat /\ NoOffset \notin Nat /\ code.len \in Nat
         /\ code.len > 0 => 0 \in DOMAIN code.at
         /\ \A o \in DOMAIN code.at :
              /\ o \in Nat /\ o < code.len
              /\ Size(code.at[o]) \in Nat \ {0} /\ Size(code.at[o]) < OffsetLimit
              /\ \A p \in DOMAIN code.at : o < p => o + Size(code.at[o]) <= p
              /\ o + Size(code.at[o]) < code.len => o + Size(code.at[o]) \in DOMAIN code.at
  <1>1. /\ code.len \in Nat /\ DOMAIN code.at \subseteq 0..(code.len - 1)
        /\ code.len > 0 => 0 \in DOMAIN code.at
        /\ \A o \in DOMAIN code.at :
             /\ code.at[o] \in Instructions
             /\ Size(code.at[o]) < OffsetLimit
             /\ \A p \in DOMAIN code.at : o < p => o + Size(code.at[o]) <= p
             /\ o + Size(code.at[o]) < code.len => o + Size(code.at[o]) \in DOMAIN code.at
    BY CodesAssumption
  <1>2. \A o \in DOMAIN code.at : o \in Nat /\ o < code.len
    BY <1>1
  <1> QED BY <1>1, <1>2, SizeIsPositive, CodesAssumption

(* An instruction that decodes ends in the code.                           *)
LEMMA DecodedInside ==
  ASSUME code \in Codes, NEW o, Decodes(o)
  PROVE  o \in DOMAIN code.at /\ o + Size(code.at[o]) <= code.len
  <1> DEFINE ins == code.at[o]
  <1>1. o \in DOMAIN code.at /\ o \in Nat /\ code.len \in Nat /\ ins \in Instructions
    BY CodesAssumption, CodeTyped DEF Decodes
  <1>2. CASE ins.operand = "InlineSwitch"
    <2>1. /\ o + ins.opcode_size + 4 <= code.len
          /\ ins.targets <= (code.len - (o + ins.opcode_size + 4)) \div 4
          /\ Size(ins) = ins.opcode_size + (4 + 4 * ins.targets)
      BY <1>2 DEF Decodes, Size
    <2>2. ins.opcode_size \in Nat /\ ins.targets \in Nat
      BY <1>1 DEF Instructions
    <2> HIDE DEF ins
    <2> DEFINE s == ins.opcode_size
               t == ins.targets
    <2>3. /\ o + s + 4 <= code.len /\ t <= (code.len - (o + s + 4)) \div 4
          /\ Size(ins) = s + (4 + 4 * t) /\ s \in Nat /\ t \in Nat
      BY <2>1, <2>2
    <2> HIDE DEF s, t
    <2>4. o + Size(ins) <= code.len
      BY <1>1, <2>3
    <2> QED BY <1>1, <2>4 DEF ins
  <1>3. CASE ins.operand # "InlineSwitch"
    BY <1>1, <1>3 DEF Decodes
  <1> QED BY <1>2, <1>3

(* The offset behind an instruction is found, unless it wraps: then it is  *)
(* not behind it.                                                          *)
LEMMA NextOrWrapped ==
  ASSUME code \in Codes, offset \in DOMAIN code.at, offset < OffsetLimit
  PROVE  /\ offset + Size(instruction) < OffsetLimit =>
              next_offset = offset + Size(instruction) /\ ~(next_offset <= offset)
         /\ offset + Size(instruction) >= OffsetLimit => next_offset <= offset
         /\ next_offset \in Nat /\ next_offset < OffsetLimit
  <1> DEFINE s == Size(instruction)
  <1>1. /\ offset \in Nat /\ OffsetLimit \in Nat /\ s \in Nat \ {0} /\ s < OffsetLimit
        /\ next_offset = (offset + s) % OffsetLimit
    BY CodeTyped DEF instruction, next_offset
  <1> HIDE DEF s
  <1>2. CASE offset + s < OffsetLimit
    <2>1. next_offset = offset + s
      BY <1>1, <1>2
    <2> QED BY <1>1, <1>2, <2>1 DEF s
  <1>3. CASE offset + s >= OffsetLimit
    <2> DEFINE m == (offset + s) - OffsetLimit
    <2>1. m \in 0..OffsetLimit - 1 /\ offset + s = m + OffsetLimit /\ m <= offset
      BY <1>1, <1>3
    <2> HIDE DEF m
    <2>2. (m + OffsetLimit) % OffsetLimit = m
      BY <1>1, <2>1
    <2>3. next_offset = m
      BY <1>1, <2>1, <2>2
    <2> QED BY <1>1, <1>3, <2>1, <2>3 DEF s
  <1> QED BY <1>1, <1>2, <1>3

-------------------------------------------------------------------------------
(* The raw iterator                                                        *)

(* The iterator stands in front of an instruction, at the end of the code, *)
(* or does not go on; what it has passed decodes.                          *)
Steady ==
  /\ code \in Codes /\ reader \in {"raw", "folded", "boundary"}
  /\ offset \in Nat /\ done \in BOOLEAN
  /\ offset \in DOMAIN code.at => offset < OffsetLimit
  /\ done \/ offset \in DOMAIN code.at \/ offset >= code.len
  /\ \A p \in DOMAIN code.at : p < offset => Decodes(p)

(* What an instruction that is read says of the offsets around it.         *)
LEMMA Yielded ==
  ASSUME Steady, InnerYields
  PROVE  /\ ~done /\ offset \in DOMAIN code.at /\ offset < OffsetLimit /\ Decodes(offset)
         /\ Size(instruction) \in Nat \ {0} /\ offset + Size(instruction) <= code.len
         /\ \A p \in DOMAIN code.at : offset < p => offset + Size(instruction) <= p
         /\ IF offset + Size(instruction) < OffsetLimit
            THEN /\ next_offset = offset + Size(instruction) /\ ~(next_offset <= offset)
                 /\ next_offset \in DOMAIN code.at \/ next_offset >= code.len
            ELSE next_offset <= offset
         /\ next_offset \in Nat
  <1>1. ~done /\ Decodes(offset) /\ code \in Codes /\ offset \in Nat
    BY DEF InnerYields, InnerEnds, Steady
  <1>2. offset \in DOMAIN code.at /\ offset + Size(instruction) <= code.len
    BY <1>1, DecodedInside DEF instruction
  <1>3. offset < OffsetLimit
    BY <1>2 DEF Steady
  <1>4. /\ Size(instruction) \in Nat \ {0} /\ code.len \in Nat /\ OffsetLimit \in Nat
        /\ \A p \in DOMAIN code.at : offset < p => offset + Size(instruction) <= p
        /\ offset + Size(instruction) < code.len => offset + Size(instruction) \in DOMAIN code.at
    BY <1>1, <1>2, CodeTyped DEF instruction
  <1>5. /\ offset + Size(instruction) < OffsetLimit =>
             next_offset = offset + Size(instruction) /\ ~(next_offset <= offset)
        /\ offset + Size(instruction) >= OffsetLimit => next_offset <= offset
        /\ next_offset \in Nat
    BY <1>1, <1>2, <1>3, NextOrWrapped
  <1>6. IF offset + Size(instruction) < OffsetLimit
        THEN /\ next_offset = offset + Size(instruction) /\ ~(next_offset <= offset)
             /\ next_offset \in DOMAIN code.at \/ next_offset >= code.len
        ELSE next_offset <= offset
    <2>1. CASE offset + Size(instruction) < OffsetLimit
      <3>1. next_offset \in DOMAIN code.at \/ next_offset >= code.len
        BY <1>1, <1>4, <1>5, <2>1
      <3> QED BY <1>5, <2>1, <3>1
    <2>2. CASE ~(offset + Size(instruction) < OffsetLimit)
      <3>1. offset + Size(instruction) >= OffsetLimit
        BY <1>1, <1>4, <2>2
      <3> QED BY <1>5, <2>2, <3>1
    <2> QED BY <2>1, <2>2
  <1> QED BY <1>1, <1>2, <1>3, <1>4, <1>5, <1>6

(* What is decoded changes with the code only.                             *)
LEMMA CodeFixed ==
  ASSUME UNCHANGED code, NEW o
  PROVE  Decodes(o)' = Decodes(o)
  BY DEF Decodes

(* The iterator has read an instruction, and the client may have stopped it.*)
LEMMA ReadOn ==
  ASSUME Steady, InnerYields, UNCHANGED <<code, reader>>, done' \in BOOLEAN,
         next_offset <= offset => done' = TRUE,
         offset' = IF next_offset <= offset THEN offset ELSE next_offset
  PROVE  Steady'
  <1>1. code \in Codes /\ offset \in Nat /\ \A p \in DOMAIN code.at : p < offset => Decodes(p)
    BY DEF Steady
  <1>2. /\ offset \in DOMAIN code.at /\ offset < OffsetLimit /\ Decodes(offset)
        /\ \A p \in DOMAIN code.at : offset < p => offset + Size(instruction) <= p
        /\ Size(instruction) \in Nat \ {0}
    BY Yielded
  <1>3. \A p \in DOMAIN code.at : p \in Nat
    BY <1>1, CodeTyped
  <1>4. CASE next_offset <= offset
    BY <1>1, <1>2, <1>4, CodeFixed DEF Steady
  <1>5. CASE ~(next_offset <= offset)
    <2>1. /\ offset' = offset + Size(instruction) /\ offset' < OffsetLimit
          /\ offset' \in DOMAIN code.at \/ offset' >= code.len
      BY <1>5, Yielded
    <2>2. ASSUME NEW p \in DOMAIN code.at, p < offset' PROVE Decodes(p)
      <3>1. p < offset \/ p = offset
        BY <1>1, <1>2, <1>3, <2>1, <2>2
      <3> QED BY <1>1, <1>2, <3>1
    <2>3. offset' \in Nat
      BY <1>1, <1>2, <2>1
    <2> QED BY <2>1, <2>2, <2>3, CodeFixed DEF Steady
  <1> QED BY <1>4, <1>5

(* It has not moved.                                                       *)
LEMMA StandStill ==
  ASSUME Steady, UNCHANGED <<code, reader, offset>>, done' \in BOOLEAN, done => done'
  PROVE  Steady'
  BY CodeFixed DEF Steady

(* What Advance does, in the terms of ReadOn.                              *)
LEMMA Advances ==
  ASSUME Steady, Advance
  PROVE  /\ InnerYields /\ done' \in BOOLEAN
         /\ next_offset <= offset => done' = TRUE
         /\ ~(next_offset <= offset) => done' = done
         /\ offset' = IF next_offset <= offset THEN offset ELSE next_offset
  BY DEF Advance, Steady

(* All readers keep the iterator in order.                                 *)
LEMMA SteadyNext ==
  ASSUME Steady, [Next]_vars
  PROVE  Steady'
  <1>1. CASE Advance /\ UNCHANGED <<code, reader>>
    BY <1>1, Advances, ReadOn
  <1>2. CASE RawItem
    BY <1>1, <1>2 DEF RawItem
  <1>3. CASE FoldPrefix
    BY <1>1, <1>3 DEF FoldPrefix
  <1>4. CASE FoldItem
    BY <1>1, <1>4 DEF FoldItem
  <1>5. CASE BoundaryStep
    BY <1>1, <1>5 DEF BoundaryStep
  <1>6. CASE FoldBadPrefix
    BY <1>6, ReadOn DEF FoldBadPrefix
  <1>7. CASE FoldBadTarget
    BY <1>7, ReadOn DEF FoldBadTarget
  <1>8. CASE RawFail \/ FoldFail \/ FoldDangling \/ BoundaryFail
    BY <1>8, StandStill DEF RawFail, FoldFail, FoldDangling, BoundaryFail, Fuse
  <1>9. CASE RawEnd \/ FoldEnd \/ BoundaryEnd \/ UNCHANGED vars
    BY <1>9, StandStill DEF RawEnd, FoldEnd, BoundaryEnd, vars, Steady
  <1> QED BY <1>2, <1>3, <1>4, <1>5, <1>6, <1>7, <1>8, <1>9 DEF Next

(* Before the first call it stands at offset 0.                            *)
LEMMA SteadyInit ==
  ASSUME Init
  PROVE  Steady
  <1>1. code \in Codes /\ reader \in {"raw", "folded", "boundary"} /\ offset = 0 /\ done = FALSE
    BY DEF Init
  <1>2. code.len \in Nat /\ OffsetLimit \in Nat /\ \A p \in DOMAIN code.at : p \in Nat
    BY <1>1, CodeTyped
  <1>3. 0 \in DOMAIN code.at => 0 < OffsetLimit
    <2> SUFFICES ASSUME 0 \in DOMAIN code.at PROVE 0 < OffsetLimit
      OBVIOUS
    <2>1. Size(code.at[0]) \in Nat \ {0} /\ Size(code.at[0]) < OffsetLimit
      BY <1>1, CodeTyped
    <2> QED BY <1>2, <2>1
  <1>4. 0 \in DOMAIN code.at \/ 0 >= code.len
    BY <1>1, <1>2, CodeTyped
  <1>5. \A p \in DOMAIN code.at : ~(p < 0)
    BY <1>2
  <1> QED BY <1>1, <1>3, <1>4, <1>5 DEF Steady

-------------------------------------------------------------------------------
(* is_instruction_boundary                                                 *)

(* What is known of the offset asked about before the answer.              *)
Asked ==
  /\ reader = "boundary" => asked \in Nat /\ asked < OffsetLimit
  /\ reader = "boundary" /\ answer = None =>
       /\ \A p \in DOMAIN code.at : p < offset => p < asked
       /\ done => asked \notin DOMAIN code.at
  /\ reader # "boundary" => answer \in {None, "end"}
  /\ BoundaryExact

(* Every step of the walk keeps that, and the answer with it.              *)
LEMMA AskedNext ==
  ASSUME Steady, Asked, [Next]_vars
  PROVE  Asked'
  <1>1. /\ code \in Codes /\ offset \in Nat
        /\ \A p \in DOMAIN code.at : p < offset => Decodes(p)
    BY DEF Steady
  <1>2. /\ OffsetLimit \in Nat /\ code.len \in Nat
        /\ \A p \in DOMAIN code.at : p \in Nat /\ p < code.len
    BY <1>1, CodeTyped
  <1>3. ASSUME UNCHANGED code PROVE Boundaries' = Boundaries
    BY <1>3, CodeFixed DEF Boundaries
  <1>4. CASE UNCHANGED <<code, reader, asked, answer>> /\ reader # "boundary"
    BY <1>3, <1>4 DEF Asked, BoundaryExact
  <1>5. CASE UNCHANGED <<code, reader, asked>> /\ reader # "boundary" /\ answer' = "end"
    BY <1>5 DEF Asked, BoundaryExact, None
  <1>6. CASE BoundaryStep
    <2>1. /\ reader = "boundary" /\ answer = None /\ Advance /\ UNCHANGED <<code, reader, asked>>
          /\ answer' = IF offset = asked THEN "yes" ELSE IF offset > asked THEN "no" ELSE None
      BY <1>6 DEF BoundaryStep
    <2>2. /\ asked \in Nat /\ asked < OffsetLimit
          /\ \A p \in DOMAIN code.at : p < offset => p < asked
      BY <2>1 DEF Asked
    <2>3. InnerYields
      BY <2>1, Advances
    <2>4. /\ offset \in DOMAIN code.at /\ Decodes(offset) /\ Size(instruction) \in Nat \ {0}
          /\ \A p \in DOMAIN code.at : offset < p => offset + Size(instruction) <= p
      BY <2>3, Yielded
    <2>5. CASE offset = asked
      <3>1. asked \in Boundaries
        <4>1. ASSUME NEW p \in DOMAIN code.at, p <= offset PROVE Decodes(p)
          <5>1. p < offset \/ p = offset
            BY <1>1, <1>2, <4>1
          <5> QED BY <1>1, <2>4, <5>1
        <4> QED BY <2>4, <2>5, <4>1 DEF Boundaries
      <3>2. answer' = "yes"
        BY <2>1, <2>5
      <3> QED BY <1>3, <2>1, <2>2, <3>1, <3>2 DEF Asked, BoundaryExact, None
    <2>6. CASE offset > asked
      <3>1. asked \notin Boundaries
        <4>1. asked \notin DOMAIN code.at
          BY <1>1, <2>2, <2>6
        <4> QED BY <4>1 DEF Boundaries
      <3>2. answer' = "no"
        BY <1>1, <2>1, <2>2, <2>6
      <3> QED BY <1>3, <2>1, <2>2, <3>1, <3>2 DEF Asked, BoundaryExact, None
    <2>7. CASE offset < asked
      <3>1. answer' = None
        BY <1>1, <2>1, <2>2, <2>7
      <3>2. \A p \in DOMAIN code.at : p < offset' => p < asked
        <4> SUFFICES ASSUME NEW p \in DOMAIN code.at, p < offset' PROVE p < asked
          OBVIOUS
        <4>1. offset' = offset \/ offset' = offset + Size(instruction)
          BY <2>1, <2>3, Advances, Yielded
        <4>2. p <= offset
          BY <1>1, <1>2, <2>4, <4>1
        <4> QED BY <1>1, <1>2, <2>2, <2>7, <4>2
      <3>3. done' => asked \notin DOMAIN code.at
        <4> SUFFICES ASSUME done', asked \in DOMAIN code.at PROVE FALSE
          OBVIOUS
        <4>1. next_offset <= offset
          BY <2>1, <2>3, Advances, Yielded
        <4>2. ~(offset + Size(instruction) < OffsetLimit)
          BY <2>3, <4>1, Yielded
        <4>3. offset + Size(instruction) <= asked
          BY <2>4, <2>7
        <4> QED BY <1>1, <1>2, <2>2, <2>4, <4>2, <4>3
      <3> QED BY <2>1, <2>2, <3>1, <3>2, <3>3 DEF Asked, BoundaryExact, None
    <2> QED BY <1>1, <2>2, <2>5, <2>6, <2>7
  <1>7. CASE BoundaryFail \/ BoundaryEnd
    <2>1. /\ reader = "boundary" /\ answer = None /\ answer' = "no"
          /\ UNCHANGED <<code, reader, asked>>
      BY <1>7 DEF BoundaryFail, BoundaryEnd
    <2>2. /\ asked \in Nat /\ asked < OffsetLimit
          /\ \A p \in DOMAIN code.at : p < offset => p < asked
          /\ done => asked \notin DOMAIN code.at
      BY <2>1 DEF Asked
    <2>3. asked \notin Boundaries
      <3> SUFFICES ASSUME asked \in DOMAIN code.at, \A p \in DOMAIN code.at : p <= asked => Decodes(p)
                   PROVE  FALSE
        BY DEF Boundaries
      <3>1. asked >= offset
        BY <1>1, <2>2
      <3>2. ~done /\ offset < code.len
        BY <1>1, <1>2, <2>2, <3>1
      <3>3. ~InnerEnds
        BY <1>1, <1>2, <3>2 DEF InnerEnds
      <3>4. ~Decodes(offset)
        BY <1>7, <3>3 DEF BoundaryFail, BoundaryEnd, InnerFails
      <3>5. offset \in DOMAIN code.at
        BY <1>1, <1>2, <3>2 DEF Steady
      <3> QED BY <1>1, <2>2, <3>1, <3>4, <3>5
    <2> QED BY <1>3, <2>1, <2>2, <2>3 DEF Asked, BoundaryExact, None
  <1>8. CASE RawItem \/ RawFail \/ FoldPrefix \/ FoldBadPrefix \/ FoldItem \/ FoldBadTarget
             \/ FoldFail \/ FoldDangling
    BY <1>4, <1>8 DEF RawItem, RawFail, FoldPrefix, FoldBadPrefix, FoldItem, FoldBadTarget, FoldFail,
       FoldDangling
  <1>9. CASE RawEnd \/ FoldEnd
    BY <1>5, <1>9 DEF RawEnd, FoldEnd
  <1>10. CASE UNCHANGED vars
    BY <1>3, <1>10 DEF vars, Asked, BoundaryExact
  <1> QED BY <1>6, <1>7, <1>8, <1>9, <1>10 DEF Next

(* Nothing is known at the start.                                          *)
LEMMA AskedInit ==
  ASSUME Init
  PROVE  Asked
  <1>1. /\ code \in Codes /\ offset = 0 /\ done = FALSE /\ answer = None
        /\ asked \in IF reader = "boundary" THEN 0..(OffsetLimit - 1) ELSE {0}
    BY DEF Init
  <1>2. OffsetLimit \in Nat /\ \A p \in DOMAIN code.at : p \in Nat
    BY <1>1, CodeTyped
  <1>3. reader = "boundary" => asked \in Nat /\ asked < OffsetLimit
    BY <1>1, <1>2
  <1>4. \A p \in DOMAIN code.at : ~(p < 0)
    BY <1>2
  <1> QED BY <1>1, <1>3, <1>4 DEF Asked, BoundaryExact, None

-------------------------------------------------------------------------------
(* FoldedIter                                                              *)

(* The instructions between two offsets.                                   *)
Between(a, b) == {o \in DOMAIN code.at : a <= o /\ o < b}

(* They are prefixes, each there once, and these.                          *)
AllOf(ops, instructions) ==
  /\ ops = {code.at[o].op : o \in instructions}
  /\ \A o, p \in instructions : code.at[o].op = code.at[p].op => o = p

(* The prefixes folded are those from first_offset on; one that wraps is   *)
(* not gone on from.                                                       *)
Folding ==
  /\ first_offset = NoOffset => prefixes = {}
  /\ ~done /\ first_offset # NoOffset =>
       /\ first_offset \in DOMAIN code.at /\ first_offset < offset
       /\ AllOf(prefixes, Between(first_offset, offset))
  /\ first_offset # NoOffset => reader = "folded"

(* One more instruction behind some.                                       *)
LEMMA OneMore ==
  ASSUME Steady, InnerYields, NEW a \in Nat, a <= offset
  PROVE  Between(a, offset + Size(instruction)) = Between(a, offset) \cup {offset}
  <1>1. /\ code \in Codes /\ offset \in Nat /\ offset \in DOMAIN code.at
        /\ Size(instruction) \in Nat \ {0}
        /\ \A p \in DOMAIN code.at : offset < p => offset + Size(instruction) <= p
    BY Yielded DEF Steady
  <1>2. \A p \in DOMAIN code.at : p \in Nat
    BY <1>1, CodeTyped
  <1>3. ASSUME NEW p \in DOMAIN code.at, a <= p
        PROVE  p < offset + Size(instruction) <=> p < offset \/ p = offset
    BY <1>1, <1>2, <1>3
  <1> QED BY <1>1, <1>3 DEF Between

(* From the offset on to itself there is nothing.                          *)
LEMMA NothingYet ==
  ASSUME Steady
  PROVE  Between(offset, offset) = {} /\ AllOf({}, Between(offset, offset))
  <1>1. Between(offset, offset) = {}
    <2>1. code \in Codes /\ offset \in Nat
      BY DEF Steady
    <2>2. \A p \in DOMAIN code.at : p \in Nat
      BY <2>1, CodeTyped
    <2> QED BY <2>1, <2>2 DEF Between
  <1> QED BY <1>1 DEF AllOf

(* The prefixes in front of the instruction, wherever they begin.          *)
LEMMA Folded ==
  ASSUME Steady, Folding, InnerYields
  PROVE  /\ first \in Nat /\ first <= offset
         /\ AllOf(prefixes, Between(first, offset))
  <1>1. code \in Codes /\ offset \in Nat /\ ~done
    BY Yielded DEF Steady
  <1>2. CASE first_offset = NoOffset
    <2>1. first = offset /\ prefixes = {}
      BY <1>2 DEF first, Folding
    <2> QED BY <1>1, <2>1, NothingYet
  <1>3. CASE first_offset # NoOffset
    <2>1. first = first_offset
      BY <1>3 DEF first
    <2>2. /\ first_offset \in DOMAIN code.at /\ first_offset < offset
          /\ AllOf(prefixes, Between(first_offset, offset))
      BY <1>1, <1>3 DEF Folding
    <2>3. first_offset \in Nat
      BY <1>1, <2>2, CodeTyped
    <2> QED BY <1>1, <2>1, <2>2, <2>3
  <1> QED BY <1>2, <1>3

(* Every iteration of the loop keeps the prefixes.                         *)
LEMMA FoldingNext ==
  ASSUME Steady, Folding, [Next]_vars
  PROVE  Folding'
  <1>1. code \in Codes /\ offset \in Nat /\ NoOffset \notin Nat
    BY CodesAssumption DEF Steady
  <1>2. CASE StartOver
    BY <1>2 DEF StartOver, Folding
  <1>3. CASE UNCHANGED <<code, reader, prefixes, first_offset>> /\ first_offset = NoOffset
    BY <1>3 DEF Folding
  <1>4. CASE UNCHANGED <<code, reader, prefixes, first_offset, offset, done>>
    BY <1>4 DEF Folding, AllOf, Between
  <1>5. CASE FoldPrefix
    <2>1. /\ Advance /\ PrefixApplies /\ reader = "folded" /\ UNCHANGED <<code, reader>>
          /\ prefixes' = prefixes \cup {instruction.op} /\ first_offset' = first
      BY <1>5 DEF FoldPrefix
    <2>2. InnerYields
      BY <2>1, Advances
    <2>3. first \in Nat /\ first <= offset /\ AllOf(prefixes, Between(first, offset))
      BY <2>2, Folded
    <2>4. first_offset' # NoOffset
      BY <1>1, <2>1, <2>3
    <2>5. ASSUME ~done'
          PROVE  /\ first \in DOMAIN code.at /\ first < offset'
                 /\ AllOf(prefixes', Between(first, offset'))
      <3>1. /\ offset' = offset + Size(instruction) /\ Size(instruction) \in Nat \ {0}
            /\ offset \in DOMAIN code.at
        BY <2>1, <2>2, <2>5, Advances, Yielded
      <3>2. first < offset'
        BY <1>1, <2>3, <3>1
      <3>3. first \in DOMAIN code.at
        <4>1. first = offset \/ (first = first_offset /\ first_offset # NoOffset)
          BY DEF first
        <4>2. ~done
          BY <2>2, Yielded
        <4> QED BY <3>1, <4>1, <4>2 DEF Folding
      <3>4. Between(first, offset') = Between(first, offset) \cup {offset}
        BY <2>2, <2>3, <3>1, OneMore
      <3>5. instruction = code.at[offset] /\ instruction.op \notin prefixes
        BY <2>1 DEF instruction, PrefixApplies
      <3>6. AllOf(prefixes', Between(first, offset) \cup {offset})
        <4> DEFINE B == Between(first, offset)
        <4>1. /\ prefixes = {code.at[o].op : o \in B}
              /\ \A o, p \in B : code.at[o].op = code.at[p].op => o = p
          BY <2>3 DEF AllOf
        <4> HIDE DEF B
        <4>2. prefixes' = {code.at[o].op : o \in B \cup {offset}}
          BY <2>1, <3>5, <4>1
        <4>3. \A o \in B : code.at[o].op # code.at[offset].op
          BY <3>5, <4>1
        <4> QED BY <4>1, <4>2, <4>3 DEF AllOf, B
      <3> QED BY <3>2, <3>3, <3>4, <3>6
    <2> QED BY <2>1, <2>4, <2>5 DEF Folding, AllOf, Between
  <1>6. CASE FoldBadPrefix \/ FoldItem \/ FoldBadTarget \/ FoldFail \/ FoldDangling
    BY <1>2, <1>6 DEF FoldBadPrefix, FoldItem, FoldBadTarget, FoldFail, FoldDangling
  <1>7. CASE RawItem \/ RawFail \/ BoundaryStep \/ BoundaryFail
    <2>1. reader # "folded" /\ UNCHANGED <<code, reader, prefixes, first_offset>>
      BY <1>7 DEF RawItem, RawFail, BoundaryStep, BoundaryFail
    <2>2. first_offset = NoOffset
      BY <2>1 DEF Folding
    <2> QED BY <1>3, <2>1, <2>2
  <1>8. CASE RawEnd \/ FoldEnd \/ BoundaryEnd \/ UNCHANGED vars
    BY <1>4, <1>8 DEF RawEnd, FoldEnd, BoundaryEnd, vars
  <1> QED BY <1>5, <1>6, <1>7, <1>8 DEF Next

-------------------------------------------------------------------------------
(* What the client is given                                                *)

Given == [kind : {"item"}, first : Nat, offset : Nat, end : Nat, prefixes : SUBSET STRING]
           \cup [kind : {"error"}]

(* An item is an instruction of the code, with the prefixes in front of it.*)
Sound(x) ==
  x.kind = "item" =>
    /\ x.offset \in DOMAIN code.at /\ x.offset + Size(code.at[x.offset]) <= code.len
    /\ reader = "folded" =>
         /\ AllOf(x.prefixes, Between(x.first, x.offset))
         /\ code.at[x.offset].op \notin PrefixOps
         /\ \A p \in x.prefixes : code.at[x.offset].op \in PrefixTargets[p]

Failed == items # << >> /\ ~IsItem(Len(items))

(* Where the last item ended, and what has not been given since.           *)
Accounted ==
  ~Failed /\ reader # "boundary" =>
    IF done THEN first_offset = NoOffset => Consumed >= OffsetLimit
    ELSE Consumed = first

GivenSoFar ==
  /\ items \in Seq(Given)
  /\ \A n \in 1..Len(items) : Sound(items[n])
  /\ \A n \in 1..Len(items) - 1 : IsItem(n)
  /\ Failed => done /\ first_offset = NoOffset
  /\ reader = "boundary" => items = << >>
  /\ Accounted

(* Where the last of some items ended.                                     *)
EndOfLast(spans, t, c) ==
  LET last == CHOOSE n \in spans : \A m \in spans : m <= n
  IN  IF spans = {} THEN 0 ELSE t[last].offset + Size(c.at[t[last].offset])

(* The last is the one of the highest number.                              *)
LEMMA EndOfLastIs ==
  ASSUME NEW k \in Nat, NEW t, NEW c
  PROVE  /\ k = 0 => EndOfLast(1..k, t, c) = 0
         /\ k # 0 => EndOfLast(1..k, t, c) = t[k].offset + Size(c.at[t[k].offset])
  <1>1. ASSUME k = 0 PROVE EndOfLast(1..k, t, c) = 0
    <2>1. 1..k = {}
      BY <1>1
    <2> QED BY <2>1 DEF EndOfLast
  <1>2. ASSUME k # 0
        PROVE  EndOfLast(1..k, t, c) = t[k].offset + Size(c.at[t[k].offset])
    <2>1. k \in 1..k /\ \A m \in 1..k : m <= k
      BY <1>2
    <2> DEFINE last == CHOOSE n \in 1..k : \A m \in 1..k : m <= n
    <2>2. last \in 1..k /\ \A m \in 1..k : m <= last
      BY <2>1
    <2>3. last = k
      <3> HIDE DEF last
      <3> QED BY <2>1, <2>2
    <2>4. 1..k # {}
      BY <2>1
    <2> QED BY <2>3, <2>4 DEF EndOfLast
  <1> QED BY <1>1, <1>2

(* The last item is the one to look at.                                    *)
LEMMA ConsumedIs ==
  ASSUME NEW k \in Nat, {n \in 1..Len(items) : IsItem(n)} = 1..k
  PROVE  /\ Cardinality({n \in 1..Len(items) : IsItem(n)}) = k
         /\ k = 0 => Consumed = 0
         /\ k # 0 => Consumed = items[k].offset + Size(code.at[items[k].offset])
  <1>1. Cardinality(1..k) = k
    <2>1. Cardinality(1..k) = IF 1 > k THEN 0 ELSE k - 1 + 1
      BY FS_Interval
    <2> QED BY <2>1
  <1>2. Consumed = EndOfLast({n \in 1..Len(items) : IsItem(n)}, items, code)
    BY DEF Consumed, EndOfLast
  <1> QED BY <1>1, <1>2, EndOfLastIs

(* An error is the last thing given, so the items are all but that.        *)
LEMMA ItemsFirst ==
  ASSUME GivenSoFar
  PROVE  /\ Len(items) \in Nat
         /\ Failed => Len(items) > 0 /\ {n \in 1..Len(items) : IsItem(n)} = 1..Len(items) - 1
         /\ ~Failed => {n \in 1..Len(items) : IsItem(n)} = 1..Len(items)
  <1>1. Len(items) \in Nat /\ items \in Seq(Given) /\ \A n \in 1..Len(items) - 1 : IsItem(n)
    BY DEF GivenSoFar
  <1>2. ASSUME Failed
        PROVE  Len(items) > 0 /\ {n \in 1..Len(items) : IsItem(n)} = 1..Len(items) - 1
    <2>1. Len(items) > 0 /\ ~IsItem(Len(items))
      BY <1>1, <1>2 DEF Failed
    <2>2. \A n \in 1..Len(items) : n \in 1..Len(items) - 1 \/ n = Len(items)
      BY <1>1
    <2>3. \A n \in 1..Len(items) - 1 : n \in 1..Len(items)
      BY <1>1
    <2> QED BY <1>1, <2>1, <2>2, <2>3
  <1>3. ASSUME ~Failed PROVE {n \in 1..Len(items) : IsItem(n)} = 1..Len(items)
    <2>1. items = << >> \/ IsItem(Len(items))
      BY <1>3 DEF Failed
    <2>2. ASSUME NEW n \in 1..Len(items) PROVE IsItem(n)
      <3>1. items # << >>
        BY <1>1
      <3>2. n \in 1..Len(items) - 1 \/ n = Len(items)
        BY <1>1
      <3> QED BY <1>1, <2>1, <3>1, <3>2
    <2> QED BY <2>2
  <1> QED BY <1>1, <1>2, <1>3

(* Soundness is a matter of the code.                                      *)
LEMMA SoundFixed ==
  ASSUME UNCHANGED <<code, reader>>, NEW x, Sound(x)
  PROVE  Sound(x)'
  BY DEF Sound, AllOf, Between

(* One more thing is given.                                                *)
LEMMA OneMoreGiven ==
  ASSUME GivenSoFar, ~Failed, NEW x \in Given, items' = Append(items, x),
         Sound(x), UNCHANGED <<code, reader>>
  PROVE  /\ items' \in Seq(Given) /\ Len(items') = Len(items) + 1 /\ items' # << >>
         /\ items'[Len(items')] = x
         /\ \A n \in 1..Len(items) : items'[n] = items[n]
         /\ \A n \in 1..Len(items') : Sound(items[n])'
         /\ \A n \in 1..Len(items') - 1 : IsItem(n)'
  <1> DEFINE t == Append(items, x)
  <1>1. /\ items \in Seq(Given) /\ Len(items) \in Nat
        /\ t \in Seq(Given) /\ Len(t) = Len(items) + 1 /\ t[Len(items) + 1] = x
        /\ \A n \in 1..Len(items) : t[n] = items[n]
    BY DEF GivenSoFar
  <1>2. items' = t
    OBVIOUS
  <1> HIDE DEF t
  <1>3. ASSUME NEW n \in 1..Len(t) PROVE Sound(items[n])'
    <2>1. Sound(t[n])
      <3>1. n \in 1..Len(items) \/ n = Len(items) + 1
        BY <1>1
      <3> QED BY <1>1, <3>1 DEF GivenSoFar
    <2>2. PICK e : e = t[n]
      OBVIOUS
    <2>3. Sound(e)'
      BY <2>1, <2>2, SoundFixed
    <2> QED BY <1>2, <2>2, <2>3 DEF Sound
  <1>4. ASSUME NEW n \in 1..Len(t) - 1 PROVE IsItem(n)'
    <2>1. n \in 1..Len(items)
      BY <1>1
    <2>2. IsItem(n)
      BY <2>1, ItemsFirst
    <2>3. items'[n] = items[n]
      BY <1>1, <1>2, <2>1
    <2> QED BY <2>2, <2>3 DEF IsItem
  <1>5. t # << >>
    BY <1>1
  <1> QED BY <1>1, <1>2, <1>3, <1>4, <1>5

(* An instruction is given.                                                *)
LEMMA GiveItem ==
  ASSUME Steady, GivenSoFar, Advance, UNCHANGED <<code, reader>>, reader # "boundary",
         first_offset' = NoOffset, NEW x \in Given, items' = Append(items, x),
         Sound(x), x.kind = "item", x.offset = offset
  PROVE  /\ GivenSoFar'
         /\ ~Failed /\ ~Failed'
         /\ Cardinality({n \in 1..Len(items) : IsItem(n)})'
              = Cardinality({n \in 1..Len(items) : IsItem(n)}) + 1
         /\ Consumed' = offset + Size(instruction)
  <1>1. InnerYields /\ code \in Codes /\ offset \in Nat /\ ~done
    BY Advances, Yielded DEF Steady
  <1>2. ~Failed
    BY <1>1 DEF GivenSoFar
  <1>3. /\ items' \in Seq(Given) /\ Len(items') = Len(items) + 1 /\ items' # << >>
        /\ items'[Len(items')] = x
        /\ \A n \in 1..Len(items') : Sound(items[n])'
        /\ \A n \in 1..Len(items') - 1 : IsItem(n)'
    BY <1>2, OneMoreGiven
  <1>4. Len(items) \in Nat /\ {n \in 1..Len(items) : IsItem(n)} = 1..Len(items)
    BY <1>2, ItemsFirst
  <1> DEFINE k == Len(items) + 1
  <1>5. ~Failed'
    BY <1>3 DEF Failed, IsItem
  <1>6. {n \in 1..Len(items) : IsItem(n)}' = 1..k
    <2>1. ASSUME NEW n \in 1..k PROVE IsItem(n)'
      <3>1. n \in 1..k - 1 \/ n = k
        BY <1>4
      <3>2. CASE n \in 1..k - 1
        BY <1>3, <3>2
      <3>3. CASE n = k
        BY <1>3, <3>3 DEF IsItem
      <3> QED BY <3>1, <3>2, <3>3
    <2> QED BY <1>3, <2>1
  <1>7. /\ Cardinality({n \in 1..Len(items) : IsItem(n)})' = k
        /\ Consumed' = items'[k].offset + Size(code'.at[items'[k].offset])
    <2>1. k \in Nat /\ k # 0
      BY <1>4
    <2>2. /\ Cardinality({n \in 1..Len(items) : IsItem(n)}) = Len(items)
      BY <1>4, ConsumedIs
    <2> HIDE DEF k
    <2>3. /\ Cardinality(1..k) = k
      <3>1. Cardinality(1..k) = IF 1 > k THEN 0 ELSE k - 1 + 1
        BY <2>1, FS_Interval
      <3> QED BY <2>1, <3>1
    <2>4. Consumed' = items'[k].offset + Size(code'.at[items'[k].offset])
      <3>1. Consumed' = EndOfLast({n \in 1..Len(items) : IsItem(n)}', items', code')
        BY DEF Consumed, EndOfLast
      <3> QED BY <1>6, <2>1, <3>1, EndOfLastIs
    <2> QED BY <1>6, <2>3, <2>4
  <1>8. Consumed' = offset + Size(instruction)
    BY <1>3, <1>7 DEF instruction
  <1>9. Accounted'
    <2>1. first' = offset'
      BY DEF first
    <2>2. CASE next_offset <= offset
      <3>1. done' /\ offset + Size(instruction) >= OffsetLimit
        <4>1. ~(offset + Size(instruction) < OffsetLimit) /\ Size(instruction) \in Nat /\ OffsetLimit \in Nat
          BY <1>1, <2>2, Yielded, CodesAssumption
        <4> QED BY <1>1, <2>2, <4>1, Advances
      <3> QED BY <1>8, <3>1 DEF Accounted
    <2>3. CASE ~(next_offset <= offset)
      <3>1. ~done' /\ offset' = offset + Size(instruction)
        BY <1>1, <2>3, Advances, Yielded
      <3> QED BY <1>8, <2>1, <3>1 DEF Accounted
    <2> QED BY <2>2, <2>3
  <1>10. Cardinality({n \in 1..Len(items) : IsItem(n)})'
           = Cardinality({n \in 1..Len(items) : IsItem(n)}) + 1
    BY <1>4, <1>7, ConsumedIs
  <1> QED BY <1>2, <1>3, <1>5, <1>8, <1>9, <1>10 DEF GivenSoFar

(* An error is given, and nothing more is counted.                         *)
LEMMA GiveError ==
  ASSUME GivenSoFar, ~Failed, UNCHANGED <<code, reader>>, reader # "boundary",
         done', first_offset' = NoOffset, Give(Error)
  PROVE  /\ GivenSoFar' /\ Failed'
         /\ Cardinality({n \in 1..Len(items) : IsItem(n)})'
              = Cardinality({n \in 1..Len(items) : IsItem(n)})
         /\ Consumed' = Consumed
  <1>1. Error \in Given /\ Error.kind # "item" /\ Sound(Error) /\ items' = Append(items, Error)
    BY DEF Error, Given, Sound, Give
  <1>2. /\ items' \in Seq(Given) /\ Len(items') = Len(items) + 1 /\ items' # << >>
        /\ items'[Len(items')] = Error
        /\ \A n \in 1..Len(items) : items'[n] = items[n]
        /\ \A n \in 1..Len(items') : Sound(items[n])'
        /\ \A n \in 1..Len(items') - 1 : IsItem(n)'
    BY <1>1, OneMoreGiven
  <1>3. Len(items) \in Nat /\ {n \in 1..Len(items) : IsItem(n)} = 1..Len(items)
    BY ItemsFirst
  <1>4. ~IsItem(Len(items))' /\ Failed'
    BY <1>1, <1>2 DEF Failed, IsItem
  <1>5. {n \in 1..Len(items') : items'[n].kind = "item"} = 1..Len(items)
    <2> DEFINE k == Len(items)
               t == items'
    <2>1. k \in Nat /\ Len(t) = k + 1
      BY <1>2, <1>3
    <2>2. \A n \in 1..k : t[n].kind = "item"
      BY <1>2, <2>1 DEF IsItem
    <2>3. t[k + 1].kind # "item"
      BY <1>1, <1>2
    <2> HIDE DEF k, t
    <2>4. \A n \in 1..k + 1 : n \in 1..k \/ n = k + 1
      BY <2>1
    <2>5. \A n \in 1..k : n \in 1..k + 1
      BY <2>1
    <2>6. {n \in 1..k + 1 : t[n].kind = "item"} = 1..k
      BY <2>2, <2>3, <2>4, <2>5
    <2> QED BY <2>1, <2>6 DEF k, t
  <1>6. Consumed' = Consumed
    <2> DEFINE S == {n \in 1..Len(items') : items'[n].kind = "item"}
               k == Len(items)
    <2>1. Consumed' = EndOfLast(S, items', code')
      BY DEF Consumed, IsItem, EndOfLast
    <2>2. k \in Nat /\ S = 1..k /\ code' = code
      BY <1>3, <1>5
    <2>3. k # 0 => items'[k] = items[k]
      BY <1>2, <1>3
    <2>4. /\ k = 0 => Consumed = 0
          /\ k # 0 => Consumed = items[k].offset + Size(code.at[items[k].offset])
      BY <1>3, ConsumedIs
    <2> HIDE DEF S, k
    <2>5. /\ k = 0 => EndOfLast(1..k, items', code') = 0
          /\ k # 0 => EndOfLast(1..k, items', code')
                        = items'[k].offset + Size(code'.at[items'[k].offset])
      BY <2>2, EndOfLastIs
    <2> QED BY <2>1, <2>2, <2>3, <2>4, <2>5
  <1>7. Cardinality({n \in 1..Len(items) : IsItem(n)})'
          = Cardinality({n \in 1..Len(items) : IsItem(n)})
    BY <1>3, <1>5 DEF IsItem
  <1> QED BY <1>2, <1>4, <1>6, <1>7 DEF GivenSoFar, Accounted

(* Nothing is given.                                                       *)
LEMMA GiveNothing ==
  ASSUME UNCHANGED <<code, items>>
  PROVE  /\ Failed' = Failed /\ Consumed' = Consumed
         /\ Cardinality({n \in 1..Len(items) : IsItem(n)})'
              = Cardinality({n \in 1..Len(items) : IsItem(n)})
  BY DEF Failed, IsItem, Consumed

(* And what was given stays sound.                                         *)
LEMMA StillGiven ==
  ASSUME GivenSoFar, UNCHANGED <<code, reader, items>>, Accounted',
         Failed => done' /\ first_offset' = NoOffset
  PROVE  GivenSoFar'
  <1>1. \A n \in 1..Len(items) : Sound(items[n])'
    BY SoundFixed DEF GivenSoFar
  <1> QED BY <1>1, GiveNothing DEF GivenSoFar, IsItem

(* Item builds what a client may be given.                                 *)
LEMMA ItemGiven ==
  ASSUME Steady, InnerYields, NEW a \in Nat, NEW ops,
         AllOf(ops, Between(a, offset)),
         reader = "folded" =>
           instruction.op \notin PrefixOps /\ \A p \in ops : instruction.op \in PrefixTargets[p]
  PROVE  LET x == Item(a, ops)
         IN  x \in Given /\ Sound(x) /\ x.kind = "item" /\ x.offset = offset
  <1> DEFINE x == Item(a, ops)
  <1>1. /\ code \in Codes /\ offset \in Nat /\ next_offset \in Nat /\ offset \in DOMAIN code.at
        /\ offset + Size(instruction) <= code.len
    BY Yielded DEF Steady
  <1>2. ops \in SUBSET STRING
    <2>1. \A o \in DOMAIN code.at : code.at[o].op \in STRING
      BY <1>1, CodesAssumption DEF Instructions
    <2> QED BY <2>1 DEF AllOf, Between
  <1>3. x = [kind |-> "item", first |-> a, offset |-> offset, end |-> next_offset, prefixes |-> ops]
    BY DEF Item
  <1>4. x \in Given
    BY <1>1, <1>2, <1>3 DEF Given
  <1>5. x.kind = "item" /\ x.offset = offset /\ x.first = a /\ x.prefixes = ops
    BY <1>3
  <1> HIDE DEF x
  <1>6. Sound(x)
    BY <1>1, <1>5 DEF Sound, instruction
  <1> QED BY <1>4, <1>5, <1>6 DEF x

(* Nothing is folded at the start.                                         *)
LEMMA FoldingInit ==
  ASSUME Init
  PROVE  Folding
  BY DEF Init, Folding

(* Nor given.                                                              *)
LEMMA GivenInit ==
  ASSUME Init
  PROVE  GivenSoFar
  <1>1. items = << >> /\ first_offset = NoOffset /\ offset = 0 /\ done = FALSE
    BY DEF Init
  <1>2. Len(items) = 0 /\ items \in Seq(Given) /\ ~Failed
    BY <1>1 DEF Failed
  <1>3. 1..Len(items) = {} /\ 1..Len(items) - 1 = {}
    BY <1>2
  <1>4. {n \in 1..Len(items) : IsItem(n)} = 1..0
    BY <1>2, <1>3
  <1>5. Consumed = 0
    BY <1>4, ConsumedIs
  <1>6. Accounted
    BY <1>1, <1>5 DEF Accounted, first
  <1> QED BY <1>1, <1>2, <1>3, <1>6 DEF GivenSoFar

(* The raw stream gives what it decodes.                                   *)
LEMMA RawItemGives ==
  ASSUME Steady, Folding, GivenSoFar, RawItem
  PROVE  \E x \in Given :
           /\ Advance /\ UNCHANGED <<code, reader>> /\ reader # "boundary"
           /\ first_offset' = NoOffset /\ items' = Append(items, x)
           /\ Sound(x) /\ x.kind = "item" /\ x.offset = offset
  <1>1. /\ reader = "raw" /\ Advance /\ Give(Item(offset, {}))
        /\ UNCHANGED <<code, reader, first_offset>>
    BY DEF RawItem
  <1>2. InnerYields /\ offset \in Nat
    BY <1>1, Advances DEF Steady
  <1>3. AllOf({}, Between(offset, offset))
    BY NothingYet
  <1> DEFINE x == Item(offset, {})
  <1>4. x \in Given /\ Sound(x) /\ x.kind = "item" /\ x.offset = offset
    BY <1>1, <1>2, <1>3, ItemGiven
  <1>5. items' = Append(items, x)
    BY <1>1 DEF Give
  <1>6. first_offset' = NoOffset
    BY <1>1 DEF Folding
  <1> HIDE DEF x
  <1> QED BY <1>1, <1>4, <1>5, <1>6

(* The folded stream gives it with its prefixes.                           *)
LEMMA FoldItemGives ==
  ASSUME Steady, Folding, GivenSoFar, FoldItem
  PROVE  \E x \in Given :
           /\ Advance /\ UNCHANGED <<code, reader>> /\ reader # "boundary"
           /\ first_offset' = NoOffset /\ items' = Append(items, x)
           /\ Sound(x) /\ x.kind = "item" /\ x.offset = offset
  <1>1. /\ reader = "folded" /\ Advance /\ Give(Item(first, prefixes)) /\ StartOver
        /\ UNCHANGED <<code, reader>> /\ instruction.op \notin PrefixOps /\ PrefixesFit
    BY DEF FoldItem
  <1>2. InnerYields
    BY <1>1, Advances
  <1>3. first \in Nat /\ AllOf(prefixes, Between(first, offset))
    BY <1>2, Folded
  <1>4. \A p \in prefixes : instruction.op \in PrefixTargets[p]
    BY <1>1 DEF PrefixesFit
  <1> DEFINE x == Item(first, prefixes)
  <1>5. x \in Given /\ Sound(x) /\ x.kind = "item" /\ x.offset = offset
    BY <1>1, <1>2, <1>3, <1>4, ItemGiven
  <1>6. items' = Append(items, x)
    BY <1>1 DEF Give
  <1>7. first_offset' = NoOffset
    BY <1>1 DEF StartOver
  <1> HIDE DEF x
  <1> QED BY <1>1, <1>5, <1>6, <1>7

(* What an error is the answer to.                                         *)
Errs == RawFail \/ FoldBadPrefix \/ FoldBadTarget \/ FoldFail \/ FoldDangling

(* All of them stop the stream.                                            *)
LEMMA ErrsStop ==
  ASSUME Steady, Folding, GivenSoFar, Errs
  PROVE  /\ ~Failed /\ UNCHANGED <<code, reader>> /\ reader # "boundary" /\ done'
         /\ first_offset' = NoOffset /\ Give(Error)
  <1>1. CASE RawFail
    <2>1. ~done
      BY <1>1 DEF RawFail, InnerFails, InnerEnds
    <2>2. first_offset = NoOffset
      BY <1>1 DEF RawFail, Folding
    <2> QED BY <1>1, <2>1, <2>2 DEF RawFail, Fuse, GivenSoFar
  <1>2. CASE FoldBadPrefix
    BY <1>2 DEF FoldBadPrefix, StartOver, GivenSoFar, InnerYields, InnerEnds
  <1>3. CASE FoldBadTarget
    BY <1>3 DEF FoldBadTarget, StartOver, GivenSoFar, InnerYields, InnerEnds
  <1>4. CASE FoldFail
    BY <1>4 DEF FoldFail, StartOver, Fuse, GivenSoFar, InnerFails, InnerEnds
  <1>5. CASE FoldDangling
    BY <1>5 DEF FoldDangling, StartOver, Fuse, GivenSoFar
  <1> QED BY <1>1, <1>2, <1>3, <1>4, <1>5 DEF Errs

(* Everything given is accounted for at every step.                        *)
LEMMA GivenNext ==
  ASSUME Steady, Folding, GivenSoFar, [Next]_vars
  PROVE  GivenSoFar'
  <1>1. CASE RawItem \/ FoldItem
    BY <1>1, RawItemGives, FoldItemGives, GiveItem
  <1>2. CASE Errs
    BY <1>2, ErrsStop, GiveError
  <1>3. CASE FoldPrefix
    <2>1. /\ Advance /\ first_offset' = first /\ UNCHANGED <<code, reader, items>>
          /\ reader = "folded"
      BY <1>3 DEF FoldPrefix
    <2>2. InnerYields /\ ~done /\ NoOffset \notin Nat
      BY <2>1, Advances, Yielded, CodesAssumption
    <2>3. ~Failed
      BY <2>2 DEF GivenSoFar
    <2>4. first \in Nat /\ first' = first
      BY <2>1, <2>2, Folded DEF first
    <2>5. Consumed = first
      BY <2>1, <2>2, <2>3 DEF GivenSoFar, Accounted
    <2>6. Accounted'
      BY <2>1, <2>2, <2>4, <2>5, GiveNothing DEF Accounted
    <2> QED BY <2>1, <2>3, <2>6, StillGiven
  <1>4. CASE RawEnd \/ FoldEnd \/ BoundaryEnd \/ UNCHANGED vars
    <2>1. UNCHANGED <<code, reader, items, offset, done, first_offset>>
      BY <1>4 DEF RawEnd, FoldEnd, BoundaryEnd, vars
    <2>2. Accounted' /\ (Failed => done' /\ first_offset' = NoOffset)
      BY <2>1, GiveNothing DEF GivenSoFar, Accounted, first
    <2> QED BY <2>1, <2>2, StillGiven
  <1>5. CASE BoundaryStep \/ BoundaryFail
    <2>1. UNCHANGED <<code, reader, items>> /\ reader = "boundary"
      BY <1>5 DEF BoundaryStep, BoundaryFail
    <2>2. ~Failed /\ Accounted'
      BY <2>1 DEF GivenSoFar, Failed, Accounted
    <2> QED BY <2>1, <2>2, StillGiven
  <1> QED BY <1>1, <1>2, <1>3, <1>4, <1>5 DEF Next, Errs

-------------------------------------------------------------------------------
(* The refinement                                                          *)

(* What ForwardScan counts and how it stands, in terms of the readers.     *)
takenBar == Cardinality({n \in 1..Len(items) : IsItem(n)})
statusBar == IF Failed THEN "failed" ELSE IF answer = "end" THEN "ended" ELSE "open"

(* What has been given lies in the code.                                   *)
LEMMA ConsumedInside ==
  ASSUME Steady, GivenSoFar
  PROVE  Consumed \in Nat /\ Consumed <= code.len /\ takenBar \in Nat
  <1>1. Len(items) \in Nat /\ code \in Codes /\ items \in Seq(Given)
    BY DEF GivenSoFar, Steady
  <1>2. PICK k \in Nat : k <= Len(items) /\ {n \in 1..Len(items) : IsItem(n)} = 1..k
    BY <1>1, ItemsFirst
  <1>3. code.len \in Nat
    BY <1>1, CodeTyped
  <1>4. takenBar = k
    BY <1>2, ConsumedIs DEF takenBar
  <1>5. CASE k = 0
    <2>1. Consumed = 0
      BY <1>2, <1>5, ConsumedIs
    <2> QED BY <1>3, <1>4, <2>1
  <1>6. CASE k # 0
    <2>1. k \in {n \in 1..Len(items) : IsItem(n)}
      BY <1>2, <1>6
    <2>2. k \in 1..Len(items) /\ items[k].kind = "item"
      BY <2>1 DEF IsItem
    <2>3. items[k].offset \in DOMAIN code.at /\ items[k].offset + Size(code.at[items[k].offset]) <= code.len
      BY <2>2 DEF GivenSoFar, Sound
    <2>4. items[k].offset \in Nat /\ Size(code.at[items[k].offset]) \in Nat
      BY <1>1, <2>3, CodeTyped
    <2>5. Consumed = items[k].offset + Size(code.at[items[k].offset])
      BY <1>2, <1>6, ConsumedIs
    <2> QED BY <1>4, <2>3, <2>4, <2>5
  <1> QED BY <1>5, <1>6

(* Where the next item would be taken from.                                *)
LEMMA ConsumedBehind ==
  ASSUME Steady, Folding, GivenSoFar, InnerYields, reader # "boundary"
  PROVE  ~Failed /\ Consumed <= offset
  <1>1. ~done
    BY Yielded
  <1>2. ~Failed
    BY <1>1 DEF GivenSoFar
  <1>3. Consumed = first /\ first <= offset
    BY <1>1, <1>2, Folded DEF GivenSoFar, Accounted
  <1> QED BY <1>2, <1>3

(* An end without an error comes at the end of the code.                   *)
LEMMA EndIsTheEnd ==
  ASSUME Steady, GivenSoFar, InnerEnds, first_offset = NoOffset, reader # "boundary", ~Failed
  PROVE  Consumed = code.len \/ code.len >= OffsetLimit
  <1>1. Consumed \in Nat /\ Consumed <= code.len /\ code.len \in Nat /\ OffsetLimit \in Nat
    BY ConsumedInside, CodeTyped DEF Steady
  <1>2. CASE done
    <2>1. Consumed >= OffsetLimit
      BY <1>2 DEF GivenSoFar, Accounted
    <2> QED BY <1>1, <2>1
  <1>3. CASE ~done
    <2>1. Consumed = offset
      BY <1>3 DEF GivenSoFar, Accounted, first
    <2>2. offset >= code.len
      BY <1>3 DEF InnerEnds
    <2> QED BY <1>1, <2>1, <2>2
  <1> QED BY <1>2, <1>3

(* A step that gives an item is the scan's.                                *)
LEMMA ItemIsScanned ==
  ASSUME Steady, Folding, GivenSoFar, RawItem \/ FoldItem
  PROVE  Scan!Item
  <1>1. PICK x \in Given :
          /\ Advance /\ UNCHANGED <<code, reader>> /\ reader # "boundary"
          /\ first_offset' = NoOffset /\ items' = Append(items, x)
          /\ Sound(x) /\ x.kind = "item" /\ x.offset = offset
    BY RawItemGives, FoldItemGives
  <1>2. /\ ~Failed /\ ~Failed' /\ takenBar' = takenBar + 1
        /\ Consumed' = offset + Size(instruction)
    BY <1>1, GiveItem DEF takenBar
  <1>3. InnerYields /\ offset \in Nat
    BY <1>1, Advances DEF Steady
  <1>4. Consumed \in Nat /\ Consumed <= offset
    BY <1>1, <1>3, ConsumedBehind, ConsumedInside
  <1>5. Size(instruction) \in Nat \ {0} /\ offset + Size(instruction) <= code.len
    BY <1>3, Yielded
  <1>6. answer = None /\ answer' = None /\ code' = code
    BY DEF RawItem, FoldItem
  <1>7. Consumed' \in Nat /\ Consumed < Consumed' /\ Consumed' <= code.len
    BY <1>2, <1>3, <1>4, <1>5
  <1>8. statusBar = "open" /\ statusBar' = "open"
    BY <1>2, <1>6 DEF statusBar, None
  <1> QED BY <1>2, <1>6, <1>7, <1>8 DEF Scan!Item, statusBar, takenBar, Failed

(* One that gives an error is its failure.                                 *)
LEMMA ErrorIsScanned ==
  ASSUME Steady, Folding, GivenSoFar, Errs
  PROVE  Scan!Fail
  <1>1. ~Failed /\ Failed' /\ takenBar' = takenBar /\ Consumed' = Consumed
    BY ErrsStop, GiveError DEF takenBar
  <1>2. answer = None /\ UNCHANGED <<code, answer>>
    BY DEF Errs, RawFail, FoldBadPrefix, FoldBadTarget, FoldFail, FoldDangling
  <1>3. statusBar = "open" /\ statusBar' = "failed"
    BY <1>1, <1>2 DEF statusBar, None
  <1> QED BY <1>1, <1>2, <1>3 DEF Scan!Fail, statusBar, takenBar, Failed

(* The end is the scan's, unless an error was given: then it is none.      *)
LEMMA EndIsScanned ==
  ASSUME Steady, Folding, GivenSoFar, RawEnd \/ FoldEnd
  PROVE  Scan!Finish \/ UNCHANGED <<code.len, Consumed, takenBar, statusBar>>
  <1>1. /\ InnerEnds /\ answer = None /\ answer' = "end" /\ reader # "boundary"
        /\ UNCHANGED <<code, items>>
    BY DEF RawEnd, FoldEnd
  <1>2. first_offset = NoOffset
    <2>1. CASE FoldEnd
      BY <2>1 DEF FoldEnd
    <2>2. CASE RawEnd
      BY <2>2 DEF RawEnd, Folding
    <2> QED BY <2>1, <2>2
  <1>3. Failed' = Failed /\ Consumed' = Consumed /\ takenBar' = takenBar
    BY <1>1, GiveNothing DEF takenBar
  <1>4. CASE Failed
    BY <1>1, <1>3, <1>4 DEF statusBar
  <1>5. CASE ~Failed
    <2>1. statusBar = "open" /\ statusBar' = "ended"
      BY <1>1, <1>3, <1>5 DEF statusBar, None
    <2>2. Consumed = code.len \/ code.len >= OffsetLimit
      BY <1>1, <1>2, <1>5, EndIsTheEnd
    <2> QED BY <1>1, <1>3, <2>1, <2>2 DEF Scan!Finish, statusBar, takenBar, Failed
  <1> QED BY <1>4, <1>5

(* The others the scan does not see.                                       *)
LEMMA OthersAreUnseen ==
  ASSUME Steady, Asked, GivenSoFar,
         FoldPrefix \/ BoundaryStep \/ BoundaryFail \/ BoundaryEnd \/ UNCHANGED vars
  PROVE  UNCHANGED <<code.len, Consumed, takenBar, statusBar>>
  <1>1. UNCHANGED <<code, items>>
    BY DEF FoldPrefix, BoundaryStep, BoundaryFail, BoundaryEnd, vars
  <1>2. answer = "end" <=> answer' = "end"
    BY DEF FoldPrefix, BoundaryStep, BoundaryFail, BoundaryEnd, vars, None
  <1> QED BY <1>1, <1>2, GiveNothing DEF takenBar, statusBar

-------------------------------------------------------------------------------
(* Theorems                                                                *)

Inv == Steady /\ Asked /\ Folding /\ GivenSoFar

(* They hold in every state of every reader.                               *)
LEMMA Invariance == Spec => []Inv
  <1>1. Init => Inv
    BY SteadyInit, AskedInit, FoldingInit, GivenInit DEF Inv
  <1>2. Inv /\ [Next]_vars => Inv'
    BY SteadyNext, AskedNext, FoldingNext, GivenNext DEF Inv
  <1> QED BY <1>1, <1>2, PTL DEF Spec

(* For every code, is_instruction_boundary answers yes exactly for the     *)
(* offsets a decode from the start passes through (il/mod.rs).             *)
THEOREM BoundaryIsExact == Spec => []BoundaryExact
  <1>1. Inv => BoundaryExact
    BY DEF Inv, Asked
  <1> QED BY <1>1, Invariance, PTL

(* For every code, a folded instruction carries exactly the prefix opcodes *)
(* in front of it, each once and each allowed there (il/mod.rs).           *)
THEOREM PrefixesAreTheirOwn == Spec => []PrefixesAreTheirs
  <1>1. Inv => PrefixesAreTheirs
    <2> SUFFICES ASSUME Inv, NEW n \in 1..Len(items), IsItem(n), reader = "folded"
                 PROVE  LET before == {o \in DOMAIN code.at : items[n].first <= o /\ o < items[n].offset}
                            op(o) == code.at[o].op
                        IN  /\ items[n].prefixes = {op(o) : o \in before}
                            /\ \A o, p \in before : op(o) = op(p) => o = p
                            /\ op(items[n].offset) \notin PrefixOps
                            /\ \A o \in before : op(items[n].offset) \in PrefixTargets[op(o)]
      BY DEF PrefixesAreTheirs
    <2>1. /\ AllOf(items[n].prefixes, Between(items[n].first, items[n].offset))
          /\ code.at[items[n].offset].op \notin PrefixOps
          /\ \A p \in items[n].prefixes : code.at[items[n].offset].op \in PrefixTargets[p]
      BY DEF Inv, GivenSoFar, Sound, IsItem
    <2> QED BY <2>1 DEF AllOf, Between
  <1> QED BY <1>1, Invariance, PTL

(* For every code of any length, the raw and the folded stream are forward *)
(* scans: every item takes at least a byte and begins where the last ended,*)
(* an error is the last thing given, and the end comes only when every     *)
(* byte is accounted for or no further offset fits a u32 (il/mod.rs).      *)
THEOREM StreamsScan == Spec => RefinesScan
  <1>1. Init => Scan!Init
    <2> SUFFICES ASSUME Init PROVE Scan!Init
      OBVIOUS
    <2>1. code \in Codes /\ items = << >> /\ answer = None
      BY DEF Init
    <2>2. code.len \in Nat
      BY <2>1, CodeTyped
    <2>3. {n \in 1..Len(items) : IsItem(n)} = 1..0
      BY <2>1
    <2>4. Consumed = 0 /\ takenBar = 0
      BY <2>3, ConsumedIs DEF takenBar
    <2>5. ~Failed /\ statusBar = "open"
      BY <2>1 DEF Failed, statusBar, None
    <2> QED BY <2>2, <2>4, <2>5 DEF Scan!Init, takenBar, statusBar, Failed
  <1>2. Inv /\ [Next]_vars =>
          Scan!Next \/ UNCHANGED <<code.len, Consumed, takenBar, statusBar>>
    <2> SUFFICES ASSUME Inv, [Next]_vars
                 PROVE  Scan!Next \/ UNCHANGED <<code.len, Consumed, takenBar, statusBar>>
      OBVIOUS
    <2>1. Steady /\ Asked /\ Folding /\ GivenSoFar
      BY DEF Inv
    <2>2. CASE RawItem \/ FoldItem
      BY <2>1, <2>2, ItemIsScanned DEF Scan!Next
    <2>3. CASE Errs
      BY <2>1, <2>3, ErrorIsScanned DEF Scan!Next
    <2>4. CASE RawEnd \/ FoldEnd
      BY <2>1, <2>4, EndIsScanned DEF Scan!Next
    <2>5. CASE FoldPrefix \/ BoundaryStep \/ BoundaryFail \/ BoundaryEnd \/ UNCHANGED vars
      BY <2>1, <2>5, OthersAreUnseen
    <2> QED BY <2>2, <2>3, <2>4, <2>5 DEF Next, Errs
  <1>3. Inv /\ [Next]_vars =>
          [Scan!Next]_<<code.len, Consumed, Cardinality({n \in 1..Len(items) : IsItem(n)}),
                        IF items # << >> /\ ~IsItem(Len(items)) THEN "failed"
                        ELSE IF answer = "end" THEN "ended" ELSE "open">>
    BY <1>2 DEF takenBar, statusBar, Failed
  <1> QED BY <1>1, <1>3, Invariance, PTL DEF Spec, RefinesScan, Scan!Spec

-------------------------------------------------------------------------------
(* HandlerTable: what its loops know                                       *)

(* What the two loops have established so far.                             *)
Checked ==
  /\ \A n \in 1..(i - 1) : ~Faulty(table[n])
  /\ \A n \in 1..(i - 1), m \in 1..Len(table) : n # m => ~Crossed(table[n], table[m])
  /\ pc = "pairs" => /\ i <= Len(table)
                     /\ ~Faulty(table[i])
                     /\ \A m \in 1..(j - 1) : i # m => ~Crossed(table[i], table[m])

(* Where a rejection came from.                                            *)
Found ==
  pc = "rejected" =>
    /\ i <= Len(table)
    /\ \/ Faulty(table[i])
       \/ /\ ~Faulty(table[i])
          /\ \E m \in 1..Len(table) : i # m /\ Crossed(table[i], table[m])

Input == table \in Seq(Handlers) /\ code_len \in Nat /\ code_len <= OffsetMax /\ OffsetMax \in Nat

ValidateInv ==
  /\ TypeOK
  /\ Input
  /\ Checked
  /\ pc = "ok" => i = Len(table) + 1
  /\ Found

-------------------------------------------------------------------------------
(* Ranges                                                                  *)

(* The fields of a handler are offsets.                                    *)
LEMMA Fields ==
  ASSUME OffsetMax \in Nat, NEW h \in Handlers
  PROVE  /\ h.try_offset \in Nat /\ h.try_length \in Nat
         /\ h.handler_offset \in Nat /\ h.handler_length \in Nat /\ h.filter \in Nat
  BY DEF Handlers, NoFilter

(* Saturation changes nothing that lies inside the code.                   *)
LEMMA Unsaturated ==
  ASSUME OffsetMax \in Nat, code_len \in Nat, code_len <= OffsetMax,
         NEW n \in Nat, n <= code_len
  PROVE  Saturated(n) = n
  BY DEF Saturated

(* A handler that passes its own checks is sound alone.                    *)
LEMMA AloneIsSound ==
  ASSUME Input, NEW h \in Handlers
  PROVE  ~Faulty(h) <=> SoundAlone(h)
  <1>1. /\ h.try_offset \in Nat /\ h.try_length \in Nat
        /\ h.handler_offset \in Nat /\ h.handler_length \in Nat /\ h.filter \in Nat
    BY Fields DEF Input
  <1> DEFINE s == h.try_offset
             e == h.try_offset + h.try_length
             t == h.handler_offset
             f == h.handler_offset + h.handler_length
  <1>2. Try(h) # {} <=> s < e
    BY <1>1 DEF Try
  <1>3. Handler(h) # {} <=> t < f
    BY <1>1 DEF Handler
  <1>4. s < e => (Try(h) \subseteq Code <=> e <= code_len)
    <2>1. ASSUME s < e, Try(h) \subseteq Code PROVE e <= code_len
      <3>1. e - 1 \in Try(h)
        BY <1>1, <2>1 DEF Try
      <3> QED BY <1>1, <2>1, <3>1 DEF Code, Input
    <2>2. ASSUME e <= code_len PROVE Try(h) \subseteq Code
      BY <1>1, <2>2 DEF Try, Code, Input
    <2> QED BY <2>1, <2>2
  <1>5. t < f => (Handler(h) \subseteq Code <=> f <= code_len)
    <2>1. ASSUME t < f, Handler(h) \subseteq Code PROVE f <= code_len
      <3>1. f - 1 \in Handler(h)
        BY <1>1, <2>1 DEF Handler
      <3> QED BY <1>1, <2>1, <3>1 DEF Code, Input
    <2>2. ASSUME f <= code_len PROVE Handler(h) \subseteq Code
      BY <1>1, <2>2 DEF Handler, Code, Input
    <2> QED BY <2>1, <2>2
  <1>6. s < e /\ t < f => (Try(h) \cap Handler(h) = {} <=> ~(t < e /\ f > s))
    <2>1. ASSUME s < e, t < f, t < e, f > s PROVE Try(h) \cap Handler(h) # {}
      <3>1. CASE s <= t
        BY <1>1, <2>1, <3>1 DEF Try, Handler
      <3>2. CASE t < s
        BY <1>1, <2>1, <3>2 DEF Try, Handler
      <3> QED BY <1>1, <3>1, <3>2
    <2>2. ASSUME ~(t < e /\ f > s) PROVE Try(h) \cap Handler(h) = {}
      BY <1>1, <2>2 DEF Try, Handler
    <2> QED BY <2>1, <2>2
  <1>7. h.filter \in Code <=> h.filter < code_len
    BY <1>1 DEF Code, Input
  <1>8. ~OutOfRange(h) => try_end(h) = e /\ handler_end(h) = f
    BY <1>1, Unsaturated DEF OutOfRange, try_end, handler_end, Input
  <1>9. OutOfRange(h) <=> e > code_len \/ f > code_len
    BY DEF OutOfRange
  <1>10. Empty(h) <=> ~(s < e /\ t < f)
    BY <1>1 DEF Empty
  <1>11. InsideOwnTry(h) <=> t < try_end(h) /\ handler_end(h) > s
    BY DEF InsideOwnTry
  <1>12. FilterOutside(h) \/ FilterBehind(h)
           <=> h.filter # NoFilter /\ ~(h.filter < code_len /\ h.filter < t)
    BY <1>1 DEF FilterOutside, FilterBehind, Input
  <1> QED
    BY <1>1, <1>2, <1>3, <1>4, <1>5, <1>6, <1>7, <1>8, <1>9, <1>10, <1>11, <1>12
       DEF Faulty, SoundAlone, Input

(* Comparing the ends of two ranges decides whether they nest.             *)
LEMMA OverlapIsNoNesting ==
  ASSUME NEW a \in Nat, NEW b \in Nat, NEW c \in Nat, NEW d \in Nat
  PROVE  partially_overlaps(a, b, c, d) <=> ~Nested(a..(b - 1), c..(d - 1))
  <1> DEFINE A == a..(b - 1)
             B == c..(d - 1)
  <1>1. ASSUME partially_overlaps(a, b, c, d) PROVE ~Nested(A, B)
    <2>1. a < d /\ c < b /\ ~(c <= a /\ b <= d) /\ ~(a <= c /\ d <= b)
      BY <1>1 DEF partially_overlaps
    <2>2. CASE a < c
      <3>1. b < d
        BY <2>1, <2>2
      <3>2. a \in A /\ a \notin B /\ d - 1 \in B /\ d - 1 \notin A /\ c \in A /\ c \in B
        BY <2>1, <2>2, <3>1
      <3> QED BY <3>2 DEF Nested
    <2>3. CASE c <= a
      <3>1. d < b /\ c < a
        BY <2>1, <2>3
      <3>2. c \in B /\ c \notin A /\ b - 1 \in A /\ b - 1 \notin B /\ a \in A /\ a \in B
        BY <2>1, <2>3, <3>1
      <3> QED BY <3>2 DEF Nested
    <2> QED BY <2>2, <2>3
  <1>2. ASSUME ~partially_overlaps(a, b, c, d) PROVE Nested(A, B)
    <2>1. CASE ~(a < d /\ c < b)
      <3>1. A \cap B = {}
        BY <2>1
      <3> QED BY <3>1 DEF Nested
    <2>2. CASE c <= a /\ b <= d
      <3>1. A \subseteq B
        BY <2>2
      <3> QED BY <3>1 DEF Nested
    <2>3. CASE a <= c /\ d <= b
      <3>1. B \subseteq A
        BY <2>3
      <3> QED BY <3>1 DEF Nested
    <2> QED BY <1>2, <2>1, <2>2, <2>3 DEF partially_overlaps
  <1> QED BY <1>1, <1>2

(* Between a range inside the code and any other, saturation invents no    *)
(* overlap.                                                                *)
LEMMA SaturationIsHarmless ==
  ASSUME OffsetMax \in Nat,
         NEW a \in Nat, NEW b \in Nat, NEW c \in Nat, NEW d \in Nat, b <= OffsetMax,
         partially_overlaps(a, b, c, Saturated(d))
  PROVE  partially_overlaps(a, b, c, d)
  BY DEF partially_overlaps, Saturated

(* Two handlers that both lie in the code cross exactly if the pair is     *)
(* unsound, and a sound handler crosses none it is sound with.             *)
LEMMA PairIsSound ==
  ASSUME Input, NEW h \in Handlers, ~Faulty(h), NEW o \in Handlers
  PROVE  /\ Crossed(h, o) => ~SoundPair(h, o)
         /\ ~Faulty(o) /\ ~Crossed(h, o) => SoundPair(h, o)
  <1>1. /\ h.try_offset \in Nat /\ h.try_length \in Nat
        /\ h.handler_offset \in Nat /\ h.handler_length \in Nat
    BY Fields DEF Input
  <1>2. /\ o.try_offset \in Nat /\ o.try_length \in Nat
        /\ o.handler_offset \in Nat /\ o.handler_length \in Nat
    BY Fields DEF Input
  <1> DEFINE e(x) == x.try_offset + x.try_length
             f(x) == x.handler_offset + x.handler_length
  <1>3. \A x \in Handlers : ~Faulty(x) => e(x) <= code_len /\ f(x) <= code_len
    <2> SUFFICES ASSUME NEW x \in Handlers, ~OutOfRange(x)
                 PROVE  e(x) <= code_len /\ f(x) <= code_len
      BY DEF Faulty
    <2>1. e(x) \in Nat /\ f(x) \in Nat
      BY Fields DEF Input
    <2> QED BY <2>1 DEF OutOfRange, Input
  <1>4. \A x \in Handlers : ~Faulty(x) => try_end(x) = e(x) /\ handler_end(x) = f(x)
    <2> SUFFICES ASSUME NEW x \in Handlers, ~Faulty(x)
                 PROVE  try_end(x) = e(x) /\ handler_end(x) = f(x)
      OBVIOUS
    <2>1. e(x) \in Nat /\ f(x) \in Nat
      BY Fields DEF Input
    <2> QED BY <1>3, <2>1, Unsaturated DEF try_end, handler_end, Input
  <1>5. e(h) \in Nat /\ f(h) \in Nat /\ e(h) <= OffsetMax /\ f(h) <= OffsetMax
    BY <1>1, <1>3 DEF Input
  <1>6. e(o) \in Nat /\ f(o) \in Nat
    BY <1>2
  <1>7. /\ partially_overlaps(h.try_offset, e(h), o.try_offset, e(o)) <=> ~Nested(Try(h), Try(o))
        /\ partially_overlaps(h.handler_offset, f(h), o.handler_offset, f(o))
             <=> ~Nested(Handler(h), Handler(o))
    <2>1. ASSUME NEW x \in Handlers
          PROVE  /\ Try(x) = x.try_offset..(e(x) - 1)
                 /\ Handler(x) = x.handler_offset..(f(x) - 1)
      <3>1. /\ x.try_offset \in Nat /\ x.try_length \in Nat
            /\ x.handler_offset \in Nat /\ x.handler_length \in Nat
        BY Fields DEF Input
      <3>2. /\ x.try_offset + x.try_length - 1 = e(x) - 1
            /\ x.handler_offset + x.handler_length - 1 = f(x) - 1
        BY <3>1
      <3> HIDE DEF e, f
      <3> QED BY <3>2 DEF Try, Handler
    <2> HIDE DEF e, f
    <2>2. partially_overlaps(h.try_offset, e(h), o.try_offset, e(o))
            <=> ~Nested(h.try_offset..(e(h) - 1), o.try_offset..(e(o) - 1))
      BY <1>1, <1>2, <1>5, <1>6, OverlapIsNoNesting
    <2>3. partially_overlaps(h.handler_offset, f(h), o.handler_offset, f(o))
            <=> ~Nested(h.handler_offset..(f(h) - 1), o.handler_offset..(f(o) - 1))
      BY <1>1, <1>2, <1>5, <1>6, OverlapIsNoNesting
    <2> QED BY <2>1, <2>2, <2>3
  <1>8. ASSUME Crossed(h, o) PROVE ~SoundPair(h, o)
    <2>1. CASE partially_overlaps(h.try_offset, try_end(h), o.try_offset, try_end(o))
      <3>1. partially_overlaps(h.try_offset, e(h), o.try_offset, e(o))
        BY <1>1, <1>2, <1>4, <1>5, <1>6, <2>1, SaturationIsHarmless DEF try_end, Input
      <3> QED BY <1>7, <3>1 DEF SoundPair
    <2>2. CASE partially_overlaps(h.handler_offset, handler_end(h), o.handler_offset, handler_end(o))
      <3>1. partially_overlaps(h.handler_offset, f(h), o.handler_offset, f(o))
        BY <1>1, <1>2, <1>4, <1>5, <1>6, <2>2, SaturationIsHarmless DEF handler_end, Input
      <3> QED BY <1>7, <3>1 DEF SoundPair
    <2> QED BY <1>8, <2>1, <2>2 DEF Crossed
  <1>9. ASSUME ~Faulty(o), ~Crossed(h, o) PROVE SoundPair(h, o)
    BY <1>4, <1>7, <1>9 DEF Crossed, SoundPair
  <1> QED BY <1>8, <1>9

-------------------------------------------------------------------------------
(* The loops                                                               *)

LEMMA ValidateInitInv == ValidateInit => ValidateInv
  <1> SUFFICES ASSUME ValidateInit PROVE ValidateInv
    OBVIOUS
  <1>1. Input
    BY TablesAssumption DEF ValidateInit, Input
  <1>2. Len(table) \in Nat
    BY <1>1 DEF Input
  <1>3. TypeOK
    BY <1>2 DEF ValidateInit, TypeOK
  <1>4. Checked /\ Found /\ (pc = "ok" => i = Len(table) + 1)
    BY DEF ValidateInit, Checked, Found
  <1> QED BY <1>1, <1>3, <1>4 DEF ValidateInv

(* The table and the code do not change.                                   *)
LEMMA InputStays ==
  ASSUME ValidateInv, UNCHANGED <<code_len, table>>
  PROVE  /\ Input' /\ Len(table) \in Nat /\ table' = table /\ code_len' = code_len
         /\ \A h : Faulty(h)' <=> Faulty(h)
         /\ \A h, o : Crossed(h, o)' <=> Crossed(h, o)
         /\ i \in Nat /\ j \in Nat
  <1>1. Input' /\ Len(table) \in Nat /\ table' = table /\ code_len' = code_len
    BY DEF ValidateInv, Input
  <1>2. \A h : Faulty(h)' <=> Faulty(h)
    BY DEF Faulty, OutOfRange, Empty, InsideOwnTry, FilterOutside, FilterBehind,
           try_end, handler_end
  <1>3. \A h, o : Crossed(h, o)' <=> Crossed(h, o)
    BY DEF Crossed, try_end, handler_end
  <1>4. i \in Nat /\ j \in Nat
    BY <1>1 DEF ValidateInv, TypeOK
  <1> QED BY <1>1, <1>2, <1>3, <1>4

LEMMA ValidateStepInv == ValidateInv /\ [ValidateNext]_validate_vars => ValidateInv'
  <1> SUFFICES ASSUME ValidateInv, [ValidateNext]_validate_vars PROVE ValidateInv'
    OBVIOUS
  <1>1. UNCHANGED <<code_len, table>>
    BY DEF ValidateNext, validate_vars, CheckOwn, CheckPair, PairsDone, AllChecked
  <1>2. /\ Input' /\ Len(table) \in Nat /\ table' = table /\ code_len' = code_len
        /\ \A h : Faulty(h)' <=> Faulty(h)
        /\ \A h, o : Crossed(h, o)' <=> Crossed(h, o)
        /\ i \in Nat /\ j \in Nat
    BY <1>1, InputStays
  <1>3. CASE UNCHANGED validate_vars
    <2>1. UNCHANGED <<i, j, pc, error>>
      BY <1>3 DEF validate_vars
    <2> QED BY <1>1, <1>2, <2>1 DEF ValidateInv, TypeOK, Checked, Found
  <1>4. CASE CheckOwn
    <2>1. TypeOK'
      BY <1>1, <1>2, <1>4 DEF CheckOwn, Reject, ValidateInv, TypeOK
    <2>2. Checked'
      BY <1>1, <1>2, <1>4 DEF CheckOwn, Reject, ValidateInv, TypeOK, Checked
    <2>3. Found' /\ pc' # "ok"
      BY <1>1, <1>2, <1>4 DEF CheckOwn, Reject, ValidateInv, Found
    <2> QED BY <1>2, <2>1, <2>2, <2>3 DEF ValidateInv
  <1>5. CASE CheckPair
    <2>1. TypeOK'
      BY <1>1, <1>2, <1>5 DEF CheckPair, Reject, ValidateInv, TypeOK
    <2>2. Checked'
      BY <1>1, <1>2, <1>5 DEF CheckPair, Reject, ValidateInv, TypeOK, Checked
    <2>3. Found' /\ pc' # "ok"
      BY <1>1, <1>2, <1>5 DEF CheckPair, Reject, ValidateInv, TypeOK, Checked, Found
    <2> QED BY <1>2, <2>1, <2>2, <2>3 DEF ValidateInv
  <1>6. CASE PairsDone
    <2>1. i <= Len(table) /\ j = Len(table) + 1 /\ i' = i + 1 /\ pc' = "own"
          /\ UNCHANGED <<j, error>>
      BY <1>6 DEF PairsDone, ValidateInv, Checked
    <2>2. TypeOK'
      BY <1>1, <1>2, <1>6, <2>1 DEF PairsDone, ValidateInv, TypeOK
    <2>3. Checked'
      <3>1. \A n \in 1..(i' - 1) : n \in 1..(i - 1) \/ n = i
        BY <1>2, <2>1
      <3>2. ~Faulty(table[i]) /\ \A m \in 1..Len(table) : i # m => ~Crossed(table[i], table[m])
        BY <1>2, <1>6, <2>1 DEF PairsDone, ValidateInv, Checked
      <3> QED BY <1>2, <2>1, <3>1, <3>2 DEF ValidateInv, Checked
    <2> QED BY <1>2, <2>1, <2>2, <2>3 DEF ValidateInv, Found
  <1>7. CASE AllChecked
    BY <1>1, <1>2, <1>7 DEF AllChecked, ValidateInv, TypeOK, Checked, Found
  <1> QED BY <1>3, <1>4, <1>5, <1>6, <1>7 DEF ValidateNext

LEMMA ValidateInvariance == ValidateSpec => []ValidateInv
  BY ValidateInitInv, ValidateStepInv, PTL DEF ValidateSpec

-------------------------------------------------------------------------------
(* The theorems                                                            *)

(* The loops of validate_handlers never leave the exception table.         *)
THEOREM TypeCorrect == ValidateSpec => []TypeOK
  <1>1. ValidateInv => TypeOK
    BY DEF ValidateInv
  <1> QED BY <1>1, ValidateInvariance, PTL

(* Whatever table validate_handlers returns Ok for, of whatever length,    *)
(* with offsets of whatever width, is sound.                               *)
THEOREM AcceptedTablesAreSound == ValidateSpec => []AcceptedIsSound
  <1>1. ASSUME ValidateInv, pc = "ok"
        PROVE  /\ \A n \in 1..Len(table) : SoundAlone(table[n])
               /\ \A n, m \in 1..Len(table) : SoundPair(table[n], table[m])
    <2>1. Input /\ i = Len(table) + 1 /\ Len(table) \in Nat
      BY <1>1 DEF ValidateInv, Input
    <2>2. \A n \in 1..Len(table) : table[n] \in Handlers
      BY <2>1 DEF Input
    <2>3. \A n \in 1..Len(table) : ~Faulty(table[n])
      BY <1>1, <2>1 DEF ValidateInv, Checked
    <2>4. \A n, m \in 1..Len(table) : n # m => ~Crossed(table[n], table[m])
      BY <1>1, <2>1 DEF ValidateInv, Checked
    <2>5. \A n \in 1..Len(table) : SoundAlone(table[n])
      BY <2>1, <2>2, <2>3, AloneIsSound
    <2>6. ASSUME NEW n \in 1..Len(table), NEW m \in 1..Len(table)
          PROVE  SoundPair(table[n], table[m])
      <3>1. CASE n = m
        BY <3>1 DEF SoundPair, Nested
      <3>2. CASE n # m
        BY <2>1, <2>2, <2>3, <2>4, <3>2, PairIsSound
      <3> QED BY <3>1, <3>2
    <2> QED BY <2>5, <2>6
  <1>2. ValidateInv => AcceptedIsSound
    BY <1>1 DEF AcceptedIsSound
  <1> QED BY <1>2, ValidateInvariance, PTL

(* It rejects no table without cause: the handler it stopped at is unsound *)
(* alone or beside another one.                                            *)
THEOREM RejectionsAreReal == ValidateSpec => []RejectedIsFaulty
  <1>1. ASSUME ValidateInv, pc = "rejected"
        PROVE  /\ \A n \in 1..(i - 1) : SoundAlone(table[n])
               /\ \/ ~SoundAlone(table[i])
                  \/ \E n \in 1..Len(table) : ~SoundPair(table[i], table[n])
    <2>1. Input /\ i \in 1..Len(table) /\ Len(table) \in Nat
      <3>1. i <= Len(table) /\ Input /\ i \in 1..(Len(table) + 1)
        BY <1>1 DEF ValidateInv, Found, TypeOK
      <3>2. Len(table) \in Nat
        BY <3>1 DEF Input
      <3> QED BY <3>1, <3>2
    <2>2. \A n \in 1..Len(table) : table[n] \in Handlers
      BY <2>1 DEF Input
    <2>3. ASSUME NEW n \in 1..(i - 1) PROVE SoundAlone(table[n])
      <3>1. ~Faulty(table[n]) /\ n \in 1..Len(table)
        BY <1>1, <2>1 DEF ValidateInv, Checked
      <3> QED BY <2>1, <2>2, <3>1, AloneIsSound
    <2>4. CASE Faulty(table[i])
      <3>1. table[i] \in Handlers
        BY <2>1, <2>2
      <3>2. ~SoundAlone(table[i])
        BY <2>1, <2>4, <3>1, AloneIsSound
      <3> QED BY <2>3, <3>2
    <2>5. CASE ~Faulty(table[i])
      <3>1. PICK m \in 1..Len(table) : Crossed(table[i], table[m])
        BY <1>1, <2>5 DEF ValidateInv, Found
      <3>2. ~SoundPair(table[i], table[m])
        BY <2>1, <2>2, <2>5, <3>1, PairIsSound
      <3> QED BY <2>3, <3>2
    <2> QED BY <2>3, <2>4, <2>5
  <1>2. ValidateInv => RejectedIsFaulty
    BY <1>1 DEF RejectedIsFaulty
  <1> QED BY <1>2, ValidateInvariance, PTL

================================================================================
