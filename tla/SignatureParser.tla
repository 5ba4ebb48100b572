---------------------------- MODULE SignatureParser ----------------------------
(***************************************************************************)
(* The recursive-descent parser of blob signatures.  Its call stack is an  *)
(* agenda of goals, what the parser is doing first: a call pushes the goals*)
(* of the function it enters, a return pops, and the for loop over a       *)
(* declared count is the goal Each.  The parser never looks back, so of    *)
(* the blob only its length and the byte at pos are kept; the byte at a new*)
(* pos is any byte there is.  The Token, u32 and bool payloads of the types*)
(* built are left out.                                                     *)
(***************************************************************************)
EXTENDS Naturals, Sequences, FiniteSets

CONSTANTS
  Lengths,           \* the lengths of the blobs
  Bytes,             \* the byte values they are made of
  Tails,             \* what the last three bytes of a four-byte integer hold
  recursion_limit    \* SignatureOptions::recursion_limit

TailSpace == 256 * 256 * 256

ASSUME ParametersAssumption ==
  /\ Lengths \subseteq Nat /\ Bytes \subseteq 0..255 /\ Tails \subseteq 0..(TailSpace - 1)
  /\ recursion_limit \in Nat

None == "none"
Outcome(kind, offset) == [kind |-> kind, offset |-> offset]
Running == Outcome("none", 0)
Success == Outcome("parsed", 0)
NoByte == 256        \* there is no byte at the end of the blob

VARIABLES
  entry,         \* the parser called
  len, pos,      \* data.len() and the position in it
  byte,          \* data[pos], or NoByte
  agenda,        \* the goals of the calls in progress, innermost first
  depth, pinned_seen,
  returned,      \* the constructor of the type the last type_ call returned
  result         \* Running, Success or an error

vars == <<entry, len, pos, byte, agenda, depth, pinned_seen, returned, result>>

-------------------------------------------------------------------------------
(* The goals                                                               *)

Type == [goal |-> "type"]
Method == [goal |-> "method"]
Inner(mods) == [goal |-> "inner", mods |-> mods]          \* type_inner
Mods(mods) == [goal |-> "mods", mods |-> mods]            \* custom_mods
Leave(made) == [goal |-> "leave", made |-> made]
Unpin == [goal |-> "unpin"]
Instance == [goal |-> "instance"]
Uint == [goal |-> "uint"]
TypeToken == [goal |-> "token"]
Rank == [goal |-> "rank"]
Convention(of) == [goal |-> "convention", of |-> of]
Reject(at) == [goal |-> "reject", at |-> at]
ByRef == [goal |-> "byref"]
Built(role) == [goal |-> "built", role |-> role]          \* Param { .. }
Pin == [goal |-> "pin"]
NotPinned == [goal |-> "not_pinned"]
Local == [goal |-> "local"]

(* bounded_count, then what comes before the items, then the items.        *)
Count(before, item) == [goal |-> "count", before |-> before, item |-> item]

(* The loop over count items, read up to at: done are parsed or begun, the *)
(* last extra of them behind a sentinel.                                   *)
Each(item, count, at) ==
  [goal |-> "each", item |-> item, count |-> count, at |-> at,
   done |-> 0, extra |-> 0, past_sentinel |-> FALSE]

param(role) == <<Mods(0), ByRef, Type, Built(role)>>

ItemGoals ==
  [type |-> <<Type>>, uint |-> <<Uint>>, local |-> <<Local>>,
   index |-> param("index"), param |-> param("parameter")]

Start ==
  [MethodSig     |-> <<Method>>,
   FieldSig      |-> <<Convention(6), Mods(0), Type>>,
   LocalVarSig   |-> <<Convention(7), Count(<< >>, "local")>>,
   PropertySig   |-> <<Convention(8), Count(param("return"), "index")>>,
   MethodSpecSig |-> <<Convention(10), Count(<< >>, "type")>>,
   TypeSpecSig   |-> <<Type>>]

-------------------------------------------------------------------------------
ByteAt(p) == IF p < len THEN Bytes ELSE {NoByte}

Init ==
  /\ entry \in DOMAIN Start
  /\ len \in Lengths
  /\ pos = 0
  /\ byte \in ByteAt(0)
  /\ agenda = Start[entry]
  /\ depth = 0
  /\ pinned_seen = FALSE
  /\ returned = None
  /\ result = Running

Parsing(goals) == result = Running /\ agenda # << >> /\ Head(agenda).goal \in goals
Goal == Head(agenda)
Remaining(p) == len - p

(* The innermost call goes on with goals, having consumed n bytes.         *)
Proceed(n, goals) ==
  /\ pos' = pos + n
  /\ IF n = 0 THEN UNCHANGED byte ELSE byte' \in ByteAt(pos + n)
  /\ agenda' = goals \o Tail(agenda)
  /\ UNCHANGED <<entry, len, result>>

Fail(kind, offset) ==
  /\ result' = Outcome(kind, offset)
  /\ UNCHANGED <<entry, len, pos, byte, agenda, depth, pinned_seen, returned>>

Unmoved == UNCHANGED <<depth, pinned_seen, returned>>

Parsed ==
  /\ result = Running /\ agenda = << >>
  /\ result' = Success
  /\ UNCHANGED <<entry, len, pos, byte, agenda, depth, pinned_seen, returned>>

(* u8 and peek at the end of the blob.                                     *)
NeedsByte ==
  \/ Goal.goal \in {"convention", "method_byte", "instance", "byref", "pin", "local"}
  \/ Goal.goal = "inner" /\ Goal.mods = 0
  \/ Goal.goal = "each" /\ Goal.item = "param" /\ Goal.done < Goal.count

Truncated ==
  /\ result = Running /\ agenda # << >>
  /\ NeedsByte /\ byte = NoByte
  /\ Fail("Truncated", pos)

-------------------------------------------------------------------------------
(* enter and leave                                                         *)

(* Mutant: a nested method signature is not counted.                       *)
EnterUncounted ==
  /\ Parsing({"type", "method"})
  /\ depth < recursion_limit
  /\ depth' = IF Goal = Type THEN depth + 1 ELSE depth
  /\ Proceed(0, IF Goal = Type THEN <<Inner(0)>> ELSE <<[goal |-> "method_byte"]>>)
  /\ UNCHANGED <<pinned_seen, returned>>

Enter ==
  /\ Parsing({"type", "method"})
  /\ depth < recursion_limit
  /\ depth' = depth + 1
  /\ Proceed(0, IF Goal = Type THEN <<Inner(0)>> ELSE <<[goal |-> "method_byte"]>>)
  /\ UNCHANGED <<pinned_seen, returned>>

TooDeep ==
  /\ Parsing({"type", "method"})
  /\ depth >= recursion_limit
  /\ Fail("RecursionLimit", pos)

leave ==
  /\ Parsing({"leave"})
  /\ depth' = IF depth = 0 THEN 0 ELSE depth - 1
  /\ returned' = Goal.made
  /\ Proceed(0, << >>)
  /\ UNCHANGED pinned_seen

-------------------------------------------------------------------------------
(* Compressed integers: cu32 and ci32 read 1, 2 or 4 bytes as the first one*)
(* says.  The values are cu32's; of ci32 only the width matters.           *)

Width == IF byte < 128 THEN 1 ELSE IF byte < 192 THEN 2 ELSE 4

Values ==
  CASE Width = 1 -> {byte}
    [] Width = 2 -> {(byte % 64) * 256 + b : b \in Bytes}
    [] Width = 4 -> {(byte % 32) * TailSpace + tail : tail \in Tails}

IntegerReads(value) ==
  /\ byte < 224
  /\ Width <= Remaining(pos)
  /\ value \in Values

IntegerFails ==
  /\ Parsing({"uint", "token", "rank", "count"})
  /\ CASE byte = NoByte -> Fail("Truncated", pos)
       [] byte \in 224..255 -> Fail("Malformed", pos)
       [] byte < 224 -> Width > Remaining(pos) /\ Fail("Truncated", pos + 1)

ReadUint ==
  /\ Parsing({"uint"})
  /\ \E value \in Values : IntegerReads(value)
  /\ Proceed(Width, << >>)
  /\ Unmoved

(* TypeDefOrRefOrSpecEncoded: tag 3 names no table.                        *)
type_token ==
  /\ Parsing({"token"})
  /\ \E value \in Values :
       /\ IntegerReads(value)
       /\ IF value % 4 = 3 THEN Fail("Malformed", pos)
                           ELSE Proceed(Width, << >>) /\ Unmoved

ReadRank ==
  /\ Parsing({"rank"})
  /\ \E value \in Values :
       /\ IntegerReads(value)
       /\ IF value > Remaining(pos + Width) + 1
          THEN Fail("Malformed", pos + Width)
          ELSE Proceed(Width, << >>) /\ Unmoved

bounded_count ==
  /\ Parsing({"count"})
  /\ \E value \in Values :
       /\ IntegerReads(value)
       /\ IF value > Remaining(pos + Width)
          THEN Fail("Malformed", pos)
          ELSE Proceed(Width, Goal.before \o <<Each(Goal.item, value, pos + Width)>>) /\ Unmoved

-------------------------------------------------------------------------------
(* The loops over counted items                                            *)

ItemOf(loop) == ItemGoals[loop.item]
Loops == Goal.done < Goal.count
AtSentinel == Goal.item = "param" /\ byte = 65

NextItem ==
  /\ Parsing({"each"})
  /\ Loops /\ ~AtSentinel
  /\ Goal.item = "param" => byte # NoByte
  /\ LET loop == [Goal EXCEPT !.done = @ + 1,
                              !.extra = IF Goal.past_sentinel THEN @ + 1 ELSE @]
     IN Proceed(0, ItemOf(loop) \o <<loop>>)
  /\ Unmoved

(* Mutant: SENTINEL takes a turn of the loop, as if it were a parameter.   *)
SentinelTurn ==
  /\ Parsing({"each"})
  /\ Loops /\ AtSentinel
  /\ IF Goal.past_sentinel
     THEN Fail("Malformed", pos)
     ELSE Proceed(1, <<[Goal EXCEPT !.past_sentinel = TRUE, !.done = @ + 1]>>) /\ Unmoved

(* SENTINEL ahead of a parameter: the parameter behind it is read in the   *)
(* same turn of the loop.                                                  *)
Sentinel ==
  /\ Parsing({"each"})
  /\ Loops /\ AtSentinel
  /\ IF Goal.past_sentinel
     THEN Fail("Malformed", pos)
     ELSE LET loop == [Goal EXCEPT !.past_sentinel = TRUE, !.done = @ + 1, !.extra = @ + 1]
          IN Proceed(1, ItemOf(loop) \o <<loop>>) /\ Unmoved

LoopEnds ==
  /\ Parsing({"each"})
  /\ ~Loops
  /\ Proceed(0, << >>)
  /\ Unmoved

-------------------------------------------------------------------------------
(* custom_mods, alone and at the head of type_inner                        *)

Modifiers == {31, 32}
AtModifier == Goal.mods <= recursion_limit /\ byte \in Modifiers

TakeModifier ==
  /\ Parsing({"mods", "inner"})
  /\ AtModifier
  /\ Proceed(1, <<TypeToken, [Goal EXCEPT !.mods = @ + 1]>>)
  /\ Unmoved

TooManyModifiers ==
  /\ Parsing({"mods", "inner"})
  /\ Goal.mods > recursion_limit
  /\ Fail("RecursionLimit", pos)

EndModifiers ==
  /\ Parsing({"mods"})
  /\ Goal.mods <= recursion_limit /\ byte \notin Modifiers
  /\ Proceed(0, << >>)
  /\ Unmoved

(* Type::Modified around the type that follows.                            *)
Modified ==
  /\ Parsing({"inner"})
  /\ Goal.mods \in 1..recursion_limit /\ byte \notin Modifiers
  /\ Proceed(0, <<Type, Leave("Modified")>>)
  /\ Unmoved

-------------------------------------------------------------------------------
(* type_inner's match on the element type                                  *)

Primitives == (2..14) \cup {22, 24, 25, 28}

Parts(b) ==
  CASE b \in Primitives \cup {1} -> << >>
    [] b \in {15, 29} -> <<Mods(0), Type>>                           \* PTR, SZARRAY
    [] b = 16 -> <<Type>>                                            \* BYREF
    [] b \in {17, 18} -> <<TypeToken>>                               \* VALUETYPE, CLASS
    [] b \in {19, 30} -> <<Uint>>                                    \* VAR, MVAR
    [] b = 20 -> <<Type, Rank, Count(<< >>, "uint"), Count(<< >>, "uint")>>    \* ARRAY
    [] b = 21 -> <<Instance, TypeToken, Count(<< >>, "type")>>       \* GENERICINST
    [] b = 27 -> <<Method>>                                          \* FNPTR

Constructors == (1..22) \cup {24, 25, 27, 28, 29, 30}
Made(b) == IF b = 1 THEN "Void" ELSE "other"

AtElement == Parsing({"inner"}) /\ Goal.mods = 0 /\ byte \notin Modifiers

Element ==
  /\ AtElement
  /\ byte \in Constructors
  /\ Proceed(1, Append(Parts(byte), Leave(Made(byte))))
  /\ Unmoved

Pinned ==
  /\ AtElement
  /\ byte = 69
  /\ IF pinned_seen
     THEN Fail("Malformed", pos)
     ELSE /\ pinned_seen' = TRUE
          /\ Proceed(1, <<Type, Unpin, Leave("Pinned")>>)
          /\ UNCHANGED <<depth, returned>>

(* Mutant: pinned_seen is set and never reset.                             *)
UnpinForgotten ==
  /\ Parsing({"unpin"})
  /\ Proceed(0, << >>)
  /\ Unmoved

unpin ==
  /\ Parsing({"unpin"})
  /\ pinned_seen' = FALSE
  /\ Proceed(0, << >>)
  /\ UNCHANGED <<depth, returned>>

(* INTERNAL, SENTINEL, END and the undefined element types.                *)
NotAType ==
  /\ AtElement
  /\ byte \notin Constructors \cup {69, NoByte}
  /\ Fail(IF byte = 33 THEN "Unsupported" ELSE "Malformed", pos)

(* GENERICINST is of a VALUETYPE or a CLASS.                               *)
InstanceKind ==
  /\ Parsing({"instance"})
  /\ byte # NoByte
  /\ IF byte \in {17, 18} THEN Proceed(1, << >>) /\ Unmoved ELSE Fail("Malformed", pos)

-------------------------------------------------------------------------------
(* Conventions, parameters and locals                                      *)

expect_convention ==
  /\ Parsing({"convention"})
  /\ byte # NoByte
  /\ IF byte % 16 = Goal.of THEN Proceed(1, << >>) /\ Unmoved ELSE Fail("Malformed", pos)

MethodConventions == (0..5) \cup {9, 11}
IsGeneric == (byte \div 16) % 2 = 1

VarArgConventions == {5, 11}          \* VARARG, NATIVEVARARG
Signature == IF byte % 16 \in VarArgConventions THEN "VarArgSig" ELSE "MethodSig"

(* The generic parameter count is read before the convention is judged.    *)
method_sig_inner ==
  /\ Parsing({"method_byte"})
  /\ byte # NoByte
  /\ Proceed(1, (IF IsGeneric THEN <<Uint>> ELSE << >>)
                \o (IF byte % 16 \in MethodConventions THEN << >> ELSE <<Reject(pos)>>)
                \o <<Count(param("return"), "param"), Leave(Signature)>>)
  /\ Unmoved

RejectConvention ==
  /\ Parsing({"reject"})
  /\ Fail("Malformed", Goal.at)

(* Mutant: while there is a BYREF, with no step past it.                   *)
ByRefStuck ==
  /\ Parsing({"byref"})
  /\ byte # NoByte
  /\ Proceed(0, IF byte = 16 THEN <<ByRef>> ELSE << >>)
  /\ Unmoved

byref ==
  /\ Parsing({"byref"})
  /\ byte # NoByte
  /\ Proceed(IF byte = 16 THEN 1 ELSE 0, << >>)
  /\ Unmoved

built ==
  /\ Parsing({"built"})
  /\ Proceed(0, << >>)
  /\ Unmoved

(* Mutant: TYPEDBYREF is recognized and not consumed.                      *)
LocalUnconsumed ==
  /\ Parsing({"local"})
  /\ byte # NoByte
  /\ Proceed(0, IF byte = 22 THEN << >> ELSE <<Mods(0), Pin, ByRef, Type, NotPinned>>)
  /\ Unmoved

local_var ==
  /\ Parsing({"local"})
  /\ byte # NoByte
  /\ IF byte = 22
     THEN Proceed(1, << >>)
     ELSE Proceed(0, <<Mods(0), Pin, ByRef, Type, NotPinned>>)
  /\ Unmoved

(* PINNED on the local itself; more modifiers may follow it.               *)
PinLocal ==
  /\ Parsing({"pin"})
  /\ byte # NoByte
  /\ IF byte = 69 THEN Proceed(1, <<Mods(0)>>) ELSE Proceed(0, << >>)
  /\ Unmoved

CheckLocal ==
  /\ Parsing({"not_pinned"})
  /\ IF returned = "Pinned" THEN Fail("Malformed", pos) ELSE Proceed(0, << >>) /\ Unmoved

-------------------------------------------------------------------------------
Next ==
  \/ Parsed \/ Truncated
  \/ Enter \/ TooDeep \/ leave
  \/ IntegerFails \/ ReadUint \/ type_token \/ ReadRank \/ bounded_count
  \/ NextItem \/ Sentinel \/ LoopEnds
  \/ TakeModifier \/ TooManyModifiers \/ EndModifiers \/ Modified
  \/ Element \/ Pinned \/ unpin \/ NotAType \/ InstanceKind
  \/ expect_convention \/ method_sig_inner \/ RejectConvention
  \/ byref \/ built \/ local_var \/ PinLocal \/ CheckLocal

(* The parser is one call: it runs until it returns.                       *)
Spec == Init /\ [][Next]_vars /\ WF_vars(Next)

-------------------------------------------------------------------------------
(* Properties                                                              *)

Goals == {"type", "method", "method_byte", "inner", "mods", "leave", "unpin", "instance",
          "uint", "token", "rank", "convention", "reject", "byref", "built", "pin",
          "not_pinned", "local", "count", "each"}

(* The position stays in the blob, the byte is the one there, and an error *)
(* names an offset no further than the end of the blob (signature.rs:3-4). *)
TypeOK ==
  /\ entry \in DOMAIN Start /\ len \in Lengths
  /\ pos \in 0..len /\ byte \in ByteAt(pos)
  /\ \A i \in DOMAIN agenda : agenda[i].goal \in Goals
  /\ depth \in 0..recursion_limit /\ pinned_seen \in BOOLEAN
  /\ returned \in {None, "Void", "Pinned", "Modified", "MethodSig", "VarArgSig", "other"}
  /\ result \in {Running, Success} \cup
       [kind : {"Truncated", "Malformed", "Unsupported", "RecursionLimit"}, offset : 0..len]

(* The calls that have not returned: each holds a frame of the stack.      *)
OpenCalls == {i \in DOMAIN agenda : agenda[i].goal \in {"leave", "inner", "method_byte"}}

(* depth is the number of type_ and method_sig calls on the stack, whatever*)
(* was parsed before, so the stack never outgrows the limit and a long     *)
(* flat signature never uses it up (signature.rs:10-12).                   *)
(* type_inner holds one frame whether it is at its head or further on.     *)
DepthIsNesting == depth = Cardinality(OpenCalls)

(* What is reserved for a declared count was bounded by the bytes left when*)
(* it was read, and every item finished since took at least one of them,   *)
(* which is the reason the reservation is safe (signature.rs:614-615).     *)
(* Only the innermost loop has no item under way.                          *)
EveryItemTakesAByte ==
  \A i \in DOMAIN agenda :
    agenda[i].goal = "each" =>
      LET loop == agenda[i]
          finished == IF i = 1 THEN loop.done ELSE loop.done - 1
      IN /\ loop.count <= Remaining(loop.at)
         /\ finished > 0 => loop.at + finished <= pos

(* The sentinel splits a parameter list and no other list, and is read with*)
(* the parameter behind it, as one item of the list: behind a sentinel     *)
(* there is always a parameter, and never more than were counted           *)
(* (signature.rs:855-868).                                                 *)
SentinelSplits ==
  \A i \in DOMAIN agenda :
    agenda[i].goal = "each" =>
      /\ agenda[i].past_sentinel => agenda[i].item = "param"
      /\ agenda[i].past_sentinel <=> agenda[i].extra > 0
      /\ agenda[i].extra <= agenda[i].done /\ agenda[i].done <= agenda[i].count

(* The type_ call that is to return Type::Pinned has not returned.         *)
InPinned == \E i \in DOMAIN agenda : agenda[i] = Leave("Pinned")
ReadsPinned == AtElement /\ byte = 69

(* A PINNED read as a type is rejected exactly inside the type of another  *)
(* one, however deep, and not behind it: its siblings may be pinned too    *)
(* (signature.rs:746-753).  The PINNED of a local is not read as a type    *)
(* (signature.rs:804-808) and does not count: inside it types may be PINNED*)
(* too, although a nested PINNED is called an error (signature.rs:6-8).    *)
NestedPinnedRejected ==
  [][ReadsPinned => (result' # Running <=> InPinned)]_vars

(* Every call ends, parsed or with an error.                               *)
ParseEnds == <>(result # Running)

===============================================================================
