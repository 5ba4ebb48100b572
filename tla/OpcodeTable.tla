------------------------------ MODULE OpcodeTable -----------------------------
(***************************************************************************)
(* The CIL opcodes: the rows of OPCODE_INFO, the two decoders of opcode    *)
(* bytes, and the maps from a short encoding to what it stands for.  The   *)
(* source lists every opcode five times, in the enum, in ALL_OPCODES, in   *)
(* the rows, in a decoder and in the maps, and indexes one list with a     *)
(* position in another; the assumptions at the end say how the lists must  *)
(* fit together.                                                           *)
(*                                                                         *)
(* An opcode is its mnemonic, without the dot that ends a prefix's.  Its   *)
(* encoding is its byte, or 256 more than the byte behind the escape.      *)
(***************************************************************************)
EXTENDS Naturals, Integers, Sequences, FiniteSets, TLC
LOCAL INSTANCE SequencesExt

EscapeByte == 254

-------------------------------------------------------------------------------
(* OPCODE_INFO                                                             *)

(* Rows of opcodes with consecutive encodings that share all their facts.  *)
Rows(encoding, names, operand, pop, push, flow, kind) ==
  [i \in 1..Len(names) |->
     [name |-> names[i], encoding |-> encoding + i - 1, size |-> IF encoding < 256 THEN 1 ELSE 2,
      operand |-> operand, pop |-> pop, push |-> push, flow |-> flow, kind |-> kind]]

Base(encoding, names, operand, pop, push) ==
  Rows(encoding, names, operand, pop, push, "Next", "Primitive")
Plain(encoding, names, pop, push) == Base(encoding, names, "InlineNone", pop, push)
Short(encoding, names, operand, pop, push) ==
  Rows(encoding, names, operand, pop, push, "Next", "Macro")
Obj(encoding, names, operand, pop, push) ==
  Rows(encoding, names, operand, pop, push, "Next", "ObjModel")

LocalMacros ==
     Plain(0, <<"nop">>, "Pop0", "Push0")
  \o Rows(1, <<"break">>, "InlineNone", "Pop0", "Push0", "Break", "Primitive")
  \o Short(2, <<"ldarg.0", "ldarg.1", "ldarg.2", "ldarg.3", "ldloc.0", "ldloc.1",
                "ldloc.2", "ldloc.3">>, "InlineNone", "Pop0", "Push1")
  \o Short(10, <<"stloc.0", "stloc.1", "stloc.2", "stloc.3">>, "InlineNone", "Pop1", "Push0")

LocalShortForms ==
     Short(14, <<"ldarg.s">>, "ShortInlineVar", "Pop0", "Push1")
  \o Short(15, <<"ldarga.s">>, "ShortInlineVar", "Pop0", "PushI")
  \o Short(16, <<"starg.s">>, "ShortInlineVar", "Pop1", "Push0")
  \o Short(17, <<"ldloc.s">>, "ShortInlineVar", "Pop0", "Push1")
  \o Short(18, <<"ldloca.s">>, "ShortInlineVar", "Pop0", "PushI")
  \o Short(19, <<"stloc.s">>, "ShortInlineVar", "Pop1", "Push0")
  \o Plain(20, <<"ldnull">>, "Pop0", "PushRef")

Constants ==
     Short(21, <<"ldc.i4.m1", "ldc.i4.0", "ldc.i4.1", "ldc.i4.2", "ldc.i4.3", "ldc.i4.4",
                 "ldc.i4.5", "ldc.i4.6", "ldc.i4.7", "ldc.i4.8">>,
               "InlineNone", "Pop0", "PushI")
  \o Short(31, <<"ldc.i4.s">>, "ShortInlineI", "Pop0", "PushI")
  \o Base(32, <<"ldc.i4">>, "InlineI", "Pop0", "PushI")
  \o Base(33, <<"ldc.i8">>, "InlineI8", "Pop0", "PushI8")
  \o Base(34, <<"ldc.r4">>, "ShortInlineR", "Pop0", "PushR4")
  \o Base(35, <<"ldc.r8">>, "InlineR", "Pop0", "PushR8")

StackAndCalls ==
     Plain(37, <<"dup">>, "Pop1", "Push1Push1")
  \o Plain(38, <<"pop">>, "Pop1", "Push0")
  \o Rows(39, <<"jmp">>, "InlineMethod", "Pop0", "Push0", "Call", "Primitive")
  \o Rows(40, <<"call">>, "InlineMethod", "VarPop", "VarPush", "Call", "Primitive")
  \o Rows(41, <<"calli">>, "InlineSig", "VarPop", "VarPush", "Call", "Primitive")
  \o Rows(42, <<"ret">>, "InlineNone", "VarPop", "Push0", "Return", "Primitive")

ShortBranches ==
     Rows(43, <<"br.s">>, "ShortInlineBrTarget", "Pop0", "Push0", "Branch", "Macro")
  \o Rows(44, <<"brfalse.s", "brtrue.s">>,
              "ShortInlineBrTarget", "PopI", "Push0", "CondBranch", "Macro")
  \o Rows(46, <<"beq.s", "bge.s", "bgt.s", "ble.s", "blt.s", "bne.un.s", "bge.un.s",
                "bgt.un.s", "ble.un.s", "blt.un.s">>,
              "ShortInlineBrTarget", "Pop1Pop1", "Push0", "CondBranch", "Macro")

Branches ==
     Rows(56, <<"br">>, "InlineBrTarget", "Pop0", "Push0", "Branch", "Primitive")
  \o Rows(57, <<"brfalse", "brtrue">>,
              "InlineBrTarget", "PopI", "Push0", "CondBranch", "Primitive")
  \o Rows(59, <<"beq", "bge", "bgt", "ble", "blt", "bne.un", "bge.un", "bgt.un", "ble.un",
                "blt.un">>, "InlineBrTarget", "Pop1Pop1", "Push0", "CondBranch", "Macro")
  \o Rows(69, <<"switch">>, "InlineSwitch", "PopI", "Push0", "CondBranch", "Primitive")

IndirectLoads ==
     Plain(70, <<"ldind.i1", "ldind.u1", "ldind.i2", "ldind.u2", "ldind.i4", "ldind.u4">>,
               "PopI", "PushI")
  \o Plain(76, <<"ldind.i8">>, "PopI", "PushI8")
  \o Plain(77, <<"ldind.i">>, "PopI", "PushI")
  \o Plain(78, <<"ldind.r4">>, "PopI", "PushR4")
  \o Plain(79, <<"ldind.r8">>, "PopI", "PushR8")
  \o Plain(80, <<"ldind.ref">>, "PopI", "PushRef")

IndirectStores ==
     Plain(81, <<"stind.ref", "stind.i1", "stind.i2", "stind.i4">>, "PopIPopI", "Push0")
  \o Plain(85, <<"stind.i8">>, "PopIPopI8", "Push0")
  \o Plain(86, <<"stind.r4">>, "PopIPopR4", "Push0")
  \o Plain(87, <<"stind.r8">>, "PopIPopR8", "Push0")

Arithmetic ==
     Plain(88, <<"add", "sub", "mul", "div", "div.un", "rem", "rem.un", "and", "or",
                 "xor", "shl", "shr", "shr.un">>, "Pop1Pop1", "Push1")
  \o Plain(101, <<"neg", "not">>, "Pop1", "Push1")

Conversions ==
     Plain(103, <<"conv.i1", "conv.i2", "conv.i4">>, "Pop1", "PushI")
  \o Plain(106, <<"conv.i8">>, "Pop1", "PushI8")
  \o Plain(107, <<"conv.r4">>, "Pop1", "PushR4")
  \o Plain(108, <<"conv.r8">>, "Pop1", "PushR8")
  \o Plain(109, <<"conv.u4">>, "Pop1", "PushI")
  \o Plain(110, <<"conv.u8">>, "Pop1", "PushI8")

Objects ==
     Rows(111, <<"callvirt">>, "InlineMethod", "VarPop", "VarPush", "Call", "ObjModel")
  \o Obj(112, <<"cpobj">>, "InlineType", "PopIPopI", "Push0")
  \o Obj(113, <<"ldobj">>, "InlineType", "PopI", "Push1")
  \o Obj(114, <<"ldstr">>, "InlineString", "Pop0", "PushRef")
  \o Rows(115, <<"newobj">>, "InlineMethod", "VarPop", "PushRef", "Call", "ObjModel")
  \o Obj(116, <<"castclass">>, "InlineType", "PopRef", "PushRef")
  \o Obj(117, <<"isinst">>, "InlineType", "PopRef", "PushI")
  \o Plain(118, <<"conv.r.un">>, "Pop1", "PushR8")
  \o Base(121, <<"unbox">>, "InlineType", "PopRef", "PushI")
  \o Rows(122, <<"throw">>, "InlineNone", "PopRef", "Push0", "Throw", "ObjModel")

Fields ==
     Obj(123, <<"ldfld">>, "InlineField", "PopRef", "Push1")
  \o Obj(124, <<"ldflda">>, "InlineField", "PopRef", "PushI")
  \o Obj(125, <<"stfld">>, "InlineField", "PopRefPop1", "Push0")
  \o Obj(126, <<"ldsfld">>, "InlineField", "Pop0", "Push1")
  \o Obj(127, <<"ldsflda">>, "InlineField", "Pop0", "PushI")
  \o Obj(128, <<"stsfld">>, "InlineField", "Pop1", "Push0")
  \o Base(129, <<"stobj">>, "InlineType", "PopIPop1", "Push0")

UnsignedChecks ==
     Plain(130, <<"conv.ovf.i1.un", "conv.ovf.i2.un", "conv.ovf.i4.un">>, "Pop1", "PushI")
  \o Plain(133, <<"conv.ovf.i8.un">>, "Pop1", "PushI8")
  \o Plain(134, <<"conv.ovf.u1.un", "conv.ovf.u2.un", "conv.ovf.u4.un">>, "Pop1", "PushI")
  \o Plain(137, <<"conv.ovf.u8.un">>, "Pop1", "PushI8")
  \o Plain(138, <<"conv.ovf.i.un", "conv.ovf.u.un">>, "Pop1", "PushI")

ArrayLoads ==
     Base(140, <<"box">>, "InlineType", "Pop1", "PushRef")
  \o Obj(141, <<"newarr">>, "InlineType", "PopI", "PushRef")
  \o Obj(142, <<"ldlen">>, "InlineNone", "PopRef", "PushI")
  \o Obj(143, <<"ldelema">>, "InlineType", "PopRefPopI", "PushI")
  \o Obj(144, <<"ldelem.i1", "ldelem.u1", "ldelem.i2", "ldelem.u2", "ldelem.i4",
                "ldelem.u4">>, "InlineNone", "PopRefPopI", "PushI")
  \o Obj(150, <<"ldelem.i8">>, "InlineNone", "PopRefPopI", "PushI8")
  \o Obj(151, <<"ldelem.i">>, "InlineNone", "PopRefPopI", "PushI")
  \o Obj(152, <<"ldelem.r4">>, "InlineNone", "PopRefPopI", "PushR4")
  \o Obj(153, <<"ldelem.r8">>, "InlineNone", "PopRefPopI", "PushR8")
  \o Obj(154, <<"ldelem.ref">>, "InlineNone", "PopRefPopI", "PushRef")

ArrayStores ==
     Obj(155, <<"stelem.i", "stelem.i1", "stelem.i2", "stelem.i4">>,
              "InlineNone", "PopRefPopIPopI", "Push0")
  \o Obj(159, <<"stelem.i8">>, "InlineNone", "PopRefPopIPopI8", "Push0")
  \o Obj(160, <<"stelem.r4">>, "InlineNone", "PopRefPopIPopR4", "Push0")
  \o Obj(161, <<"stelem.r8">>, "InlineNone", "PopRefPopIPopR8", "Push0")
  \o Obj(162, <<"stelem.ref">>, "InlineNone", "PopRefPopIPopRef", "Push0")
  \o Obj(163, <<"ldelem">>, "InlineType", "PopRefPopI", "Push1")
  \o Obj(164, <<"stelem">>, "InlineType", "PopRefPopIPop1", "Push0")
  \o Obj(165, <<"unbox.any">>, "InlineType", "PopRef", "Push1")

SignedChecks ==
     Plain(179, <<"conv.ovf.i1", "conv.ovf.u1", "conv.ovf.i2", "conv.ovf.u2",
                  "conv.ovf.i4", "conv.ovf.u4">>, "Pop1", "PushI")
  \o Plain(185, <<"conv.ovf.i8", "conv.ovf.u8">>, "Pop1", "PushI8")
  \o Base(194, <<"refanyval">>, "InlineType", "Pop1", "PushI")
  \o Plain(195, <<"ckfinite">>, "Pop1", "PushR8")
  \o Base(198, <<"mkrefany">>, "InlineType", "PopI", "Push1")

LateConversions ==
     Base(208, <<"ldtoken">>, "InlineTok", "Pop0", "PushI")
  \o Plain(209, <<"conv.u2", "conv.u1", "conv.i", "conv.ovf.i", "conv.ovf.u">>,
                "Pop1", "PushI")
  \o Plain(214, <<"add.ovf", "add.ovf.un", "mul.ovf", "mul.ovf.un", "sub.ovf",
                  "sub.ovf.un">>, "Pop1Pop1", "Push1")

Leaves ==
     Rows(220, <<"endfinally">>, "InlineNone", "Pop0", "Push0", "Return", "Primitive")
  \o Rows(221, <<"leave">>, "InlineBrTarget", "Pop0", "Push0", "Branch", "Primitive")
  \o Rows(222, <<"leave.s">>, "ShortInlineBrTarget", "Pop0", "Push0", "Branch", "Primitive")
  \o Plain(223, <<"stind.i">>, "PopIPopI", "Push0")
  \o Plain(224, <<"conv.u">>, "Pop1", "PushI")

EscapedLocals ==
     Plain(256, <<"arglist">>, "Pop0", "PushI")
  \o Plain(257, <<"ceq", "cgt", "cgt.un", "clt", "clt.un">>, "Pop1Pop1", "PushI")
  \o Base(262, <<"ldftn">>, "InlineMethod", "Pop0", "PushI")
  \o Base(263, <<"ldvirtftn">>, "InlineMethod", "PopRef", "PushI")
  \o Base(265, <<"ldarg">>, "InlineVar", "Pop0", "Push1")
  \o Base(266, <<"ldarga">>, "InlineVar", "Pop0", "PushI")
  \o Base(267, <<"starg">>, "InlineVar", "Pop1", "Push0")
  \o Base(268, <<"ldloc">>, "InlineVar", "Pop0", "Push1")
  \o Base(269, <<"ldloca">>, "InlineVar", "Pop0", "PushI")
  \o Base(270, <<"stloc">>, "InlineVar", "Pop1", "Push0")
  \o Plain(271, <<"localloc">>, "PopI", "PushI")

EscapedPrefixes ==
     Rows(273, <<"endfilter">>, "InlineNone", "PopI", "Push0", "Return", "Primitive")
  \o Rows(274, <<"unaligned">>, "ShortInlineI", "Pop0", "Push0", "Meta", "Prefix")
  \o Rows(275, <<"volatile", "tail">>, "InlineNone", "Pop0", "Push0", "Meta", "Prefix")
  \o Obj(277, <<"initobj">>, "InlineType", "PopI", "Push0")
  \o Rows(278, <<"constrained">>, "InlineType", "Pop0", "Push0", "Meta", "Prefix")
  \o Plain(279, <<"cpblk", "initblk">>, "PopIPopIPopI", "Push0")
  \o Rows(281, <<"no">>, "ShortInlineI", "Pop0", "Push0", "Meta", "Prefix")
  \o Rows(282, <<"rethrow">>, "InlineNone", "Pop0", "Push0", "Throw", "ObjModel")
  \o Base(284, <<"sizeof">>, "InlineType", "Pop0", "PushI")
  \o Plain(285, <<"refanytype">>, "Pop1", "PushI")
  \o Rows(286, <<"readonly">>, "InlineNone", "Pop0", "Push0", "Meta", "Prefix")

OPCODE_INFO ==
  LocalMacros \o LocalShortForms \o Constants \o StackAndCalls \o ShortBranches \o Branches
  \o IndirectLoads \o IndirectStores \o Arithmetic \o Conversions \o Objects \o Fields
  \o UnsignedChecks \o ArrayLoads \o ArrayStores \o SignedChecks \o LateConversions
  \o Leaves \o EscapedLocals \o EscapedPrefixes

-------------------------------------------------------------------------------
(* ALL_OPCODES, in the order of the enum's discriminants, which start at 0 *)

AllOpcodes_base == <<
  "nop", "break", "ldarg.0", "ldarg.1", "ldarg.2", "ldarg.3", "ldloc.0",
  "ldloc.1", "ldloc.2", "ldloc.3", "stloc.0", "stloc.1", "stloc.2", "stloc.3",
  "ldarg.s", "ldarga.s", "starg.s", "ldloc.s", "ldloca.s", "stloc.s", "ldnull",
  "ldc.i4.m1", "ldc.i4.0", "ldc.i4.1", "ldc.i4.2", "ldc.i4.3", "ldc.i4.4",
  "ldc.i4.5", "ldc.i4.6", "ldc.i4.7", "ldc.i4.8", "ldc.i4.s", "ldc.i4",
  "ldc.i8", "ldc.r4", "ldc.r8", "dup", "pop", "jmp", "call", "calli", "ret",
  "br.s", "brfalse.s", "brtrue.s", "beq.s", "bge.s", "bgt.s", "ble.s", "blt.s",
  "bne.un.s", "bge.un.s", "bgt.un.s", "ble.un.s", "blt.un.s", "br", "brfalse",
  "brtrue", "beq", "bge", "bgt", "ble", "blt", "bne.un", "bge.un", "bgt.un",
  "ble.un", "blt.un", "switch", "ldind.i1", "ldind.u1", "ldind.i2", "ldind.u2",
  "ldind.i4", "ldind.u4", "ldind.i8", "ldind.i", "ldind.r4", "ldind.r8",
  "ldind.ref", "stind.ref", "stind.i1", "stind.i2", "stind.i4", "stind.i8",
  "stind.r4", "stind.r8", "add", "sub", "mul", "div", "div.un", "rem",
  "rem.un", "and", "or", "xor", "shl", "shr", "shr.un", "neg", "not",
  "conv.i1", "conv.i2", "conv.i4", "conv.i8", "conv.r4", "conv.r8", "conv.u4",
  "conv.u8">>

AllOpcodes_rest == <<
  "callvirt", "cpobj", "ldobj", "ldstr", "newobj", "castclass", "isinst",
  "conv.r.un", "unbox", "throw", "ldfld", "ldflda", "stfld", "ldsfld",
  "ldsflda", "stsfld", "stobj", "conv.ovf.i1.un", "conv.ovf.i2.un",
  "conv.ovf.i4.un", "conv.ovf.i8.un", "conv.ovf.u1.un", "conv.ovf.u2.un",
  "conv.ovf.u4.un", "conv.ovf.u8.un", "conv.ovf.i.un", "conv.ovf.u.un", "box",
  "newarr", "ldlen", "ldelema", "ldelem.i1", "ldelem.u1", "ldelem.i2",
  "ldelem.u2", "ldelem.i4", "ldelem.u4", "ldelem.i8", "ldelem.i", "ldelem.r4",
  "ldelem.r8", "ldelem.ref", "stelem.i", "stelem.i1", "stelem.i2", "stelem.i4",
  "stelem.i8", "stelem.r4", "stelem.r8", "stelem.ref", "ldelem", "stelem",
  "unbox.any", "conv.ovf.i1", "conv.ovf.u1", "conv.ovf.i2", "conv.ovf.u2",
  "conv.ovf.i4", "conv.ovf.u4", "conv.ovf.i8", "conv.ovf.u8", "refanyval",
  "ckfinite", "mkrefany", "ldtoken", "conv.u2", "conv.u1", "conv.i",
  "conv.ovf.i", "conv.ovf.u", "add.ovf", "add.ovf.un", "mul.ovf", "mul.ovf.un",
  "sub.ovf", "sub.ovf.un", "endfinally", "leave", "leave.s", "stind.i",
  "conv.u", "arglist", "ceq", "cgt", "cgt.un", "clt", "clt.un", "ldftn",
  "ldvirtftn", "ldarg", "ldarga", "starg", "ldloc", "ldloca", "stloc",
  "localloc", "endfilter", "unaligned", "volatile", "tail", "initobj",
  "constrained", "cpblk", "initblk", "no", "rethrow", "sizeof", "refanytype",
  "readonly">>

ALL_OPCODES == AllOpcodes_base \o AllOpcodes_rest

OPCODE_COUNT == 219

OpCodes == ToSet(ALL_OPCODES)

(* The row an opcode's discriminant selects.                               *)
info == [op \in OpCodes |-> OPCODE_INFO[SelectInSeq(ALL_OPCODES, LAMBDA o : o = op)]]

-------------------------------------------------------------------------------
(* The decoders                                                            *)

(* n consecutive bytes that decode to n consecutive discriminants.         *)
Segment(byte, discriminant, n) ==
  [b \in byte..(byte + (n - 1)) |-> ALL_OPCODES[discriminant + 1 + (b - byte)]]

(* A byte outside the domain is an unknown opcode.                         *)
decode_one ==
  Segment(0, 0, 36) @@ Segment(37, 36, 82) @@ Segment(121, 118, 45) @@ Segment(179, 163, 8)
  @@ Segment(194, 171, 2) @@ Segment(198, 173, 1) @@ Segment(208, 174, 17)

decode_two ==
  Segment(0, 191, 8) @@ Segment(9, 199, 7) @@ Segment(17, 206, 10) @@ Segment(28, 216, 3)

(* OpCode::from_bytes, of the bytes at hand: the opcode and its size, or   *)
(* the error.                                                              *)
from_bytes(bytes) ==
  IF bytes = << >> THEN [error |-> "Truncated"]
  ELSE IF bytes[1] # EscapeByte
       THEN IF bytes[1] \in DOMAIN decode_one THEN [op |-> decode_one[bytes[1]], size |-> 1]
                                              ELSE [error |-> "UnknownOpcode"]
  ELSE IF Len(bytes) = 1 THEN [error |-> "Truncated"]
  ELSE IF bytes[2] \in DOMAIN decode_two THEN [op |-> decode_two[bytes[2]], size |-> 2]
                                         ELSE [error |-> "UnknownOpcode"]

-------------------------------------------------------------------------------
(* What the short encodings stand for                                      *)

LocalFormsOf ==
  [ldarg |-> <<"ldarg.0", "ldarg.1", "ldarg.2", "ldarg.3", "ldarg.s">>,
   ldloc |-> <<"ldloc.0", "ldloc.1", "ldloc.2", "ldloc.3", "ldloc.s">>,
   stloc |-> <<"stloc.0", "stloc.1", "stloc.2", "stloc.3", "stloc.s">>,
   ldarga |-> <<"ldarga.s">>, ldloca |-> <<"ldloca.s">>, starg |-> <<"starg.s">>]

ConstantFormsOf ==
  "ldc.i4" :> <<"ldc.i4.m1", "ldc.i4.0", "ldc.i4.1", "ldc.i4.2", "ldc.i4.3", "ldc.i4.4",
                "ldc.i4.5", "ldc.i4.6", "ldc.i4.7", "ldc.i4.8", "ldc.i4.s">>

BranchFormsOf ==
  [br |-> <<"br.s">>, brfalse |-> <<"brfalse.s">>, brtrue |-> <<"brtrue.s">>,
   beq |-> <<"beq.s">>, bge |-> <<"bge.s">>, bgt |-> <<"bgt.s">>, ble |-> <<"ble.s">>,
   blt |-> <<"blt.s">>, leave |-> <<"leave.s">>]
  @@ "bne.un" :> <<"bne.un.s">> @@ "bge.un" :> <<"bge.un.s">> @@ "bgt.un" :> <<"bgt.un.s">>
  @@ "ble.un" :> <<"ble.un.s">> @@ "blt.un" :> <<"blt.un.s">>

FormsOf == LocalFormsOf @@ ConstantFormsOf @@ BranchFormsOf

canonical_of(op) ==
  IF \E general \in DOMAIN FormsOf : op \in ToSet(FormsOf[general])
  THEN CHOOSE general \in DOMAIN FormsOf : op \in ToSet(FormsOf[general])
  ELSE op

(* Partial functions: what is not in the domain implies nothing.           *)
implied_var ==
  [op \in UNION {ToSet(SubSeq(FormsOf[g], 1, 4)) : g \in {"ldarg", "ldloc", "stloc"}} |->
     SelectInSeq(FormsOf[canonical_of(op)], LAMBDA o : o = op) - 1]

implied_i32 ==
  [op \in ToSet(SubSeq(FormsOf["ldc.i4"], 1, 10)) |->
     SelectInSeq(FormsOf["ldc.i4"], LAMBDA o : o = op) - 2]

-------------------------------------------------------------------------------
(* What the rows mean                                                      *)

is_prefix(op) == info[op].kind = "Prefix"

(* The flows after which the next instruction is not reached.              *)
unconditional_transfers == {"Branch", "Return", "Throw"}

TokenOperands ==
  [InlineMethod |-> "Method", InlineField |-> "Field", InlineType |-> "Type",
   InlineTok |-> "Tok", InlineSig |-> "Sig", InlineString |-> "String"]

(* fixed_size; a switch has none.                                          *)
fixed_size ==
  [InlineNone |-> 0, ShortInlineI |-> 1, ShortInlineBrTarget |-> 1, ShortInlineVar |-> 1,
   InlineVar |-> 2, InlineI |-> 4, ShortInlineR |-> 4, InlineBrTarget |-> 4,
   InlineI8 |-> 8, InlineR |-> 8]
  @@ [operand \in DOMAIN TokenOperands |-> 4]

(* The Operand variant decode_at builds for an opcode.                     *)
OperandVariant(op) ==
  LET operand == info[op].operand
  IN  CASE operand = "InlineNone" ->
             IF op \in DOMAIN implied_var THEN "Var"
             ELSE IF op \in DOMAIN implied_i32 THEN "I32" ELSE "None"
        [] operand = "ShortInlineI" -> IF op = "ldc.i4.s" THEN "I32" ELSE "I8"
        [] operand = "InlineI" -> "I32"
        [] operand = "InlineI8" -> "I64"
        [] operand = "ShortInlineR" -> "R32"
        [] operand = "InlineR" -> "R64"
        [] operand \in {"ShortInlineVar", "InlineVar"} -> "Var"
        [] operand \in {"ShortInlineBrTarget", "InlineBrTarget"} -> "BranchTarget"
        [] operand = "InlineSwitch" -> "Switch"
        [] operand \in DOMAIN TokenOperands -> TokenOperands[operand]

(* The slots each behaviour pops and pushes; the variable ones have none.  *)
pop_count ==
  [Pop0 |-> 0, Pop1 |-> 1, PopI |-> 1, PopRef |-> 1,
   Pop1Pop1 |-> 2, PopIPop1 |-> 2, PopIPopI |-> 2, PopIPopI8 |-> 2, PopIPopR4 |-> 2,
   PopIPopR8 |-> 2, PopRefPop1 |-> 2, PopRefPopI |-> 2, PopIPopIPopI |-> 3]
  @@ [behaviour \in {"PopRefPopIPop1", "PopRefPopIPopI", "PopRefPopIPopI8", "PopRefPopIPopR4",
                     "PopRefPopIPopR8", "PopRefPopIPopRef"} |-> 3]

push_count ==
  [Push0 |-> 0, Push1 |-> 1, PushI |-> 1, PushI8 |-> 1, PushR4 |-> 1, PushR8 |-> 1,
   PushRef |-> 1, Push1Push1 |-> 2]

-------------------------------------------------------------------------------
(* How the lists fit together                                              *)

(* Every discriminant selects the row of its own opcode, and the bytes of  *)
(* that row decode to it: no opcode is read as another, none is out of     *)
(* reach, and no other bytes decode.                                       *)
ASSUME DecodingAssumption ==
  /\ Len(ALL_OPCODES) = OPCODE_COUNT /\ Cardinality(OpCodes) = OPCODE_COUNT
  /\ \A op \in OpCodes :
       /\ info[op].name = op
       /\ from_bytes(IF info[op].size = 1 THEN <<info[op].encoding>>
                     ELSE <<EscapeByte, info[op].encoding - 256>>)
            = [op |-> op, size |-> info[op].size]
  /\ EscapeByte \notin DOMAIN decode_one
  /\ Cardinality(DOMAIN decode_one) + Cardinality(DOMAIN decode_two) = OPCODE_COUNT

(* A consumer that dispatches on the canonical opcode loses nothing: it    *)
(* finds the same variant of Operand, and the same effect on the stack and *)
(* on control flow, under every encoding.                                  *)
ASSUME CanonicalAssumption ==
  \A op \in OpCodes :
    LET general == canonical_of(op)
    IN  /\ general \in OpCodes
        /\ canonical_of(general) = general
        /\ OperandVariant(op) = OperandVariant(general)
        /\ info[op].pop = info[general].pop
        /\ info[op].push = info[general].push
        /\ info[op].flow = info[general].flow
        /\ general # op => info[op].kind = "Macro" \/ info[op].flow = "Branch"

(* An encoding that drops its operand states it: no two encodings of one   *)
(* opcode imply the same value.                                            *)
ASSUME ImpliedAssumption ==
  /\ \A op \in OpCodes :
       info[op].operand = "InlineNone" /\ info[op].kind = "Macro"
         <=> op \in DOMAIN implied_var \cup DOMAIN implied_i32
  /\ \A op, other \in DOMAIN implied_var :
       canonical_of(op) = canonical_of(other) /\ implied_var[op] = implied_var[other] => op = other
  /\ {implied_i32[op] : op \in DOMAIN implied_i32} = -1..8
  /\ \A op \in DOMAIN implied_i32 : info[op].encoding = info["ldc.i4.0"].encoding + implied_i32[op]

(* What an instruction does to control flow agrees with its operand: only  *)
(* branches have targets, only prefixes are neutral, and what a call takes *)
(* and leaves is the only thing the rows do not say.                       *)
ASSUME FlowAssumption ==
  \A op \in OpCodes :
    LET row == info[op]
    IN  /\ row.operand \in DOMAIN fixed_size \cup {"InlineSwitch"}
        /\ row.pop \in DOMAIN pop_count \cup {"VarPop"}
        /\ row.push \in DOMAIN push_count \cup {"VarPush"}
        /\ OperandVariant(op) \in {"BranchTarget", "Switch"}
             <=> row.flow \in {"Branch", "CondBranch"}
        /\ is_prefix(op) <=> row.flow = "Meta"
        /\ is_prefix(op) => pop_count[row.pop] = 0 /\ push_count[row.push] = 0
        /\ row.pop = "VarPop" => row.flow \in {"Call", "Return"}
        /\ row.push = "VarPush" => row.flow = "Call" /\ row.pop = "VarPop"
        /\ row.flow \in unconditional_transfers => push_count[row.push] = 0
===============================================================================
