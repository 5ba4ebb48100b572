------------------------- MODULE MCInstructionStream --------------------------
(* InstructionStream on every code of up to MaxInstructions instructions   *)
(* over a few rows of OpcodeTable: one target of every prefix group, four  *)
(* prefixes, a switch, an unknown opcode.  The last instruction may be cut *)
(* short, and OffsetLimit is below the longest codes, so offsets wrap.     *)
EXTENDS InstructionStream, OpcodeTable, SequencesExt

CONSTANTS MaxInstructions

(* The stream and the table of opcodes name the same things.              *)
ASSUME OpcodesAssumption ==
  /\ OperandBytes = fixed_size
  /\ PrefixOps = {op \in OpCodes : is_prefix(op)}
  /\ \A p \in PrefixOps : PrefixTargets[p] \subseteq OpCodes \ PrefixOps

(* An instruction of an opcode in the table.                               *)
I(op, targets, checks) ==
  [op |-> op, opcode_size |-> info[op].size, operand |-> info[op].operand,
   targets |-> targets, checks |-> checks]

UnknownOpcode ==
  [op |-> "unknown", opcode_size |-> 1, operand |-> "InlineNone", targets |-> 0, checks |-> FALSE]

InstructionSet ==
  { I("nop", 0, FALSE), I("ldfld", 0, FALSE), I("callvirt", 0, FALSE), I("switch", 1, FALSE),
    I("volatile", 0, FALSE), I("tail", 0, FALSE), I("constrained", 0, FALSE),
    I("no", 0, TRUE), I("no", 0, FALSE), UnknownOpcode }

(* One more instruction behind a code.                                     *)
Extend(c, i) == [len |-> c.len + Size(i), at |-> c.at @@ (c.len :> i)]

(* A code that lacks its last bytes.                                       *)
Cut(c, missing) ==
  [len |-> c.len - missing,
   at |-> [o \in {o \in DOMAIN c.at : o < c.len - missing} |-> c.at[o]]]

MCCodes ==
  {[len |-> 0, at |-> << >>]} \cup
  {Cut(FoldLeft(Extend, [len |-> 0, at |-> << >>], s), missing) :
     s \in UNION {[1..n -> InstructionSet] : n \in 1..MaxInstructions}, missing \in {0, 1}}
===============================================================================
