----------------------------- MODULE ParentLookup -----------------------------
(***************************************************************************)
(* The calls built on the keyed lookup: the rows of a parent token, the    *)
(* first of them, a generic owner's parameters in declaration order, the   *)
(* types nested in a type, and the name of a type, which walks outwards    *)
(* through NestedClass with one keyed lookup for every round.              *)
(*                                                                         *)
(* The table is one with a coded key (GenericParam, CustomAttribute, ...)  *)
(* or one keyed by a RID (NestedClass, ...).  Beside the key column the    *)
(* model keeps the one column these calls read: Number of GenericParam,    *)
(* EnclosingClass of NestedClass.                                          *)
(***************************************************************************)
EXTENDS SortedLookup

CONSTANTS
  Contents,   \* tables: coded, the key column, the other column
  KeyTables,  \* the coded kind's tables in tag order, "_" where a tag has none
  TagBase,    \* 2^tag_bits
  RidBase,    \* 2^24, the RIDs a token can carry
  Tokens,     \* the tokens callers pass
  Rids,       \* the typed RIDs callers pass
  TypeCount   \* row_count(TypeDef)

NoTable == "_"

ASSUME KeyAssumption ==
  /\ TagBase \in Nat \ {0} /\ RidBase \in Nat \ {0} /\ TypeCount \in Nat
  /\ KeyTables \in Seq(STRING) /\ Len(KeyTables) <= TagBase
  /\ \A i, j \in DOMAIN KeyTables :
       i # j => KeyTables[i] # KeyTables[j] \/ KeyTables[i] = NoTable
  /\ RidBase * TagBase <= MaxU32 + 1
  /\ \A t \in Contents : t.coded \in BOOLEAN /\ t.column \in Columns
                        /\ t.second \in Seq(Nat) /\ Len(t.second) = Len(t.column)
  /\ \A p \in Tokens : p \in [table : STRING \ {NoTable}, rid : 0..RidBase - 1]

VARIABLES
  coded,      \* whether sort_key_coded is Some for the table
  second,     \* the other column
  call,       \* the call being executed, or executed last
  stage,      \* "idle"; "lookup" inside rows_with_key; "loop" in its own loop
  parent,     \* its argument; a typed RID is a token of the table "rid"
  at,         \* the iterations its own loop has made
  rows        \* what it returns, or has built so far

table == <<coded, second>>
calling == <<call, stage, parent, at, rows>>
allvars == <<vars, table, calling>>

-------------------------------------------------------------------------------
(* Tokens and coded indexes; an Option is a set of at most one element     *)

Token(t, r) == [table |-> t, rid |-> r % RidBase]

decode(raw) ==
  {Token(KeyTables[i], raw \div TagBase) :
     i \in {j \in DOMAIN KeyTables : j = (raw % TagBase) + 1 /\ KeyTables[j] # NoTable}}

(* Mutant: forgets the tag.                                                *)
encode_untagged(p) ==
  {p.rid * TagBase : i \in {j \in DOMAIN KeyTables :
     KeyTables[j] = p.table /\ p.rid <= MaxU32 \div TagBase}}

encode(p) ==
  {p.rid * TagBase + i - 1 : i \in {j \in DOMAIN KeyTables :
     KeyTables[j] = p.table /\ p.rid <= MaxU32 \div TagBase}}

(* Keys are the raw values the calls look up.                              *)
ASSUME KeysAssumption ==
  /\ Rids \cup 1..TypeCount \subseteq Keys
  /\ \A p \in Tokens : {p.rid} \cup encode(p) \subseteq Keys

(* A table with a RID for its key takes the token's RID, whatever table    *)
(* the token is of.                                                        *)
sort_key_for(p) == IF coded THEN encode(p) ELSE {p.rid}

Typed(r) == [table |-> "rid", rid |-> r]

-------------------------------------------------------------------------------
ParentInit ==
  /\ \E t \in Contents : coded = t.coded /\ column = t.column /\ second = t.second
  /\ Init
  /\ call = "none" /\ stage = "idle" /\ parent = Typed(0) /\ at = 0 /\ rows = << >>

(* One iteration of the keyed lookup, or of the verification before it.    *)
LookupStep == Step /\ UNCHANGED <<table, calling>>

(* The calls take &self, and one caller makes them one after the other.    *)
Calls(c, p) ==
  /\ stage = "idle"
  /\ pc \in {"ready", "answered"}
  /\ call' = c
  /\ parent' = p
  /\ at' = 0
  /\ UNCHANGED table

(* rows_for_parent and its wrappers ("rows"); on a coded key also          *)
(* first_row_with_key under constant_of and the like ("first"), and        *)
(* generic_params ("ordered").                                             *)
ForParent(c, p) ==
  /\ c = "rows" \/ coded
  /\ Calls(c, p)
  /\ rows' = << >>
  /\ \/ \E k \in sort_key_for(p) : RowsWithKey(k) /\ stage' = "lookup"
     \/ sort_key_for(p) = {} /\ stage' = "idle" /\ UNCHANGED vars

(* interface_impls, method_impls, generic_param_constraints ("rows");      *)
(* enclosing_type, event_map_of, field_rva_of and the like ("first").      *)
ForRid(c, r) ==
  /\ ~coded
  /\ Calls(c, Typed(r))
  /\ rows' = << >>
  /\ RowsWithKey(r)
  /\ stage' = "lookup"

Entries(list) == {list[i] : i \in DOMAIN list}

Before(a, b) == second[a] < second[b] \/ (second[a] = second[b] /\ a < b)

(* sort_unstable on the pairs of Number and RID, which never repeat.       *)
sorted_by_number(list) ==
  {s \in [DOMAIN list -> Entries(list)] :
     Entries(s) = Entries(list) /\ \A i, j \in DOMAIN s : i < j => Before(s[i], s[j])}

Return ==
  /\ stage = "lookup"
  /\ call # "name"
  /\ pc = "answered"
  /\ stage' = "idle"
  /\ \/ call = "rows" /\ rows' = out
     \/ call = "first" /\ rows' = SubSeq(out, 1, IF out = << >> THEN 0 ELSE 1)
     \/ call = "ordered" /\ rows' \in sorted_by_number(out)
  /\ UNCHANGED <<vars, table, call, parent, at>>

-------------------------------------------------------------------------------
(* Tables::nested_types: never a search, NestedClass has the other order   *)

NestedTypes(r) ==
  /\ ~coded
  /\ Calls("nested", Typed(r))
  /\ rows' = << >>
  /\ stage' = "loop"
  /\ UNCHANGED vars

NestedRow ==
  /\ call = "nested" /\ stage = "loop"
  /\ at < count
  /\ at' = at + 1
  /\ rows' = IF second[at + 1] = parent.rid THEN Append(rows, column[at + 1]) ELSE rows
  /\ UNCHANGED <<vars, table, call, stage, parent>>

NestedDone ==
  /\ call = "nested" /\ stage = "loop"
  /\ at = count
  /\ stage' = "idle"
  /\ UNCHANGED <<vars, table, call, parent, at, rows>>

-------------------------------------------------------------------------------
(* Names::type_def: rows holds the types of the name, outermost first; a   *)
(* name that fails is empty                                                *)

IsType(r) == r \in 1..TypeCount

TypeName(r) ==
  /\ ~coded
  /\ Calls("name", Typed(r))
  /\ \/ IsType(r) /\ rows' = <<r>> /\ stage' = "loop"
     \/ ~IsType(r) /\ rows' = << >> /\ stage' = "idle"
  /\ UNCHANGED vars

current == Head(rows)

(* A round is one enclosing_type(current), at most row_count of them.      *)
WalkRound ==
  /\ call = "name" /\ stage = "loop"
  /\ at < count
  /\ at' = at + 1
  /\ RowsWithKey(current)
  /\ stage' = "lookup"
  /\ UNCHANGED <<table, call, parent, rows>>

WalkedOut ==
  /\ call = "name" /\ stage = "loop"
  /\ at = count
  /\ stage' = "idle"
  /\ UNCHANGED <<vars, table, call, parent, at, rows>>

(* enclosing_type(current): the other column of the first row found.       *)
enclosing_type == {second[out[i]] : i \in {1} \cap DOMAIN out}

(* Not nested, or an encloser that is null or the type itself: the break.  *)
WalkStop ==
  /\ call = "name" /\ stage = "lookup"
  /\ pc = "answered"
  /\ enclosing_type \subseteq {0, current}
  /\ stage' = "idle"
  /\ UNCHANGED <<vars, table, call, parent, at, rows>>

(* Mutant: keeps looking up the type the walk began with.                  *)
WalkOutwardsAppends ==
  /\ call = "name" /\ stage = "lookup"
  /\ pc = "answered"
  /\ \E outer \in enclosing_type \ {0, current} :
       \/ IsType(outer) /\ rows' = Append(rows, outer) /\ stage' = "loop"
       \/ ~IsType(outer) /\ rows' = << >> /\ stage' = "idle"
  /\ UNCHANGED <<vars, table, call, parent, at>>

WalkOutwards ==
  /\ call = "name" /\ stage = "lookup"
  /\ pc = "answered"
  /\ \E outer \in enclosing_type \ {0, current} :
       \/ IsType(outer) /\ rows' = <<outer>> \o rows /\ stage' = "loop"
       \/ ~IsType(outer) /\ rows' = << >> /\ stage' = "idle"
  /\ UNCHANGED <<vars, table, call, parent, at>>

-------------------------------------------------------------------------------
CallStep ==
  \/ LookupStep \/ Return \/ NestedRow \/ NestedDone
  \/ WalkRound \/ WalkedOut \/ WalkStop \/ WalkOutwards

CallMade ==
  \/ \E c \in {"rows", "first", "ordered"}, p \in Tokens : ForParent(c, p)
  \/ \E c \in {"rows", "first"}, r \in Rids : ForRid(c, r)
  \/ \E r \in Rids : NestedTypes(r) \/ TypeName(r)

ParentNext == CallStep \/ CallMade

ParentSpec == ParentInit /\ [][ParentNext]_allvars

(* Sequential code: a call that has begun is carried on with.              *)
FairParentSpec == ParentSpec /\ WF_allvars(CallStep)

-------------------------------------------------------------------------------
(* Properties                                                              *)

(* A raw value whose RID a token cannot carry: decode truncates it, so it  *)
(* names a row it was not encoded from.                                    *)
Wide(raw) == raw \div TagBase >= RidBase

(* The rows the argument owns, read backwards: each row's key is decoded,  *)
(* where the code encodes the argument and compares the raw values.        *)
Owned ==
  {r \in Rows : IF coded THEN decode(column[r]) = {parent} /\ ~Wide(column[r])
                ELSE column[r] = parent.rid}

RowsExact ==
  stage = "idle" /\ call = "rows" =>
    /\ Entries(rows) = Owned
    /\ \A i, j \in DOMAIN rows : i < j => rows[i] < rows[j]

FirstIsLeast ==
  stage = "idle" /\ call = "first" =>
    /\ Owned = {} <=> rows = << >>
    /\ \A r \in Entries(rows) : r \in Owned /\ \A q \in Owned : r <= q

DeclarationOrder ==
  stage = "idle" /\ call = "ordered" =>
    /\ Entries(rows) = Owned
    /\ \A i, j \in DOMAIN rows : i < j => Before(rows[i], rows[j])

NestingMirrored ==
  stage = "idle" /\ call = "nested" =>
    \A r \in Rows :
      (\A q \in 1..r - 1 : column[q] # column[r]) /\ second[r] = parent.rid
        => column[r] \in Entries(rows)

(* A finished call answers for its argument: "the RIDs of every row of     *)
(* table owned by parent" are the rows whose key decodes to it, but for    *)
(* keys too wide for a token, ascending; the first is the least of them;   *)
(* generic parameters come in declaration order however they are stored,   *)
(* none lost or repeated; and a type is among the nested_types of the      *)
(* encloser enclosing_type finds for it.                                   *)
CallsExact == RowsExact /\ FirstIsLeast /\ DeclarationOrder /\ NestingMirrored

(* What enclosing_type says of a type: the encloser in its first row.      *)
Encloser(t) ==
  {second[r] : r \in {r \in Rows : column[r] = t /\ \A q \in 1..r - 1 : column[q] # t}}

(* A name starts from the type asked for and prefixes the encloser of its  *)
(* outermost part, one per row of NestedClass at most, so that cyclic      *)
(* nesting ends too; nothing but the top, that bound or an encloser that   *)
(* is no type ends it ("bounded by the table row count so that a cycle     *)
(* cannot loop forever").                                                  *)
NameFollowsNesting ==
  call = "name" /\ stage = "idle" =>
    IF rows = << >>
    THEN ~IsType(parent.rid) \/ \E t \in 1..TypeCount : \E o \in Encloser(t) \ {0} : ~IsType(o)
    ELSE /\ rows[Len(rows)] = parent.rid
         /\ Len(rows) <= count + 1
         /\ \A i \in 1..Len(rows) - 1 : rows[i] \in Encloser(rows[i + 1])
         /\ Len(rows) <= count => Encloser(rows[1]) \subseteq {0, rows[1]}

(* Verification and every call return, whatever the columns hold: a name   *)
(* walks cycles of NestedClass only so far.                                *)
CallsReturn == LookupTerminates /\ ((stage # "idle") ~> (stage = "idle"))
===============================================================================
