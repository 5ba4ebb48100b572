--------------------------------- MODULE Names ---------------------------------
(***************************************************************************)
(* Readable names for tokens and signatures (display.rs): pure functions,  *)
(* recursive through a graph of rows the image states.  "Hostile metadata  *)
(* can make those references cyclic, so every step carries a depth that is *)
(* capped"; this module says what is left of a name when it is.            *)
(*                                                                         *)
(* A region m maps each token whose row can be read, a blob it needs       *)
(* included, to what naming reads of that row; of a blob, the signature in *)
(* it, none if it does not parse.  A text is a sequence of symbols: what a *)
(* string of the image contributes is one symbol, however it is spelled.   *)
(* An Option or a Result is a set of at most one element.  The walk of     *)
(* type_def through NestedClass is ParentLookup's; here it is one symbol.  *)
(***************************************************************************)
EXTENDS Integers, Sequences, FiniteSets
LOCAL INSTANCE SequencesExt

CONSTANTS
  MAX_DEPTH,   \* token hops a name may follow
  Regions,     \* the regions names are asked in
  PlainRegion, \* one whose names are single symbols
  Slots,       \* locals, as the parser builds them
  MethodSigs,  \* method signatures, likewise
  Shapes       \* array shapes of rank one or more

ASSUME DepthAssumption == MAX_DEPTH \in Nat \ {0}

Lit(s) == [text |-> s]
NameOf(t) == [name |-> t]
Number(n) == [number |-> n]
Unresolved(t) == [unresolved |-> t]     \* Table[rid]

unwrap_or(option, default) ==
  IF option = {} THEN default ELSE CHOOSE x \in option : TRUE

Row(m, t) == {m[u] : u \in {t} \cap DOMAIN m}

(* Vec::join.                                                              *)
join(texts, separator) ==
  FlattenSeq([i \in DOMAIN texts |->
    IF i = 1 THEN texts[i] ELSE <<Lit(separator)>> \o texts[i]])

-------------------------------------------------------------------------------
(* Tokens                                                                  *)

type_def(m, t) == {<<NameOf(t)>> : row \in Row(m, t)}

IsNull(t) == t.rid = 0

RECURSIVE type_ref(_, _, _)
type_ref(m, d, t) ==
  LET scoped(scope) ==
        IF IsNull(scope) THEN {<< >>}
        ELSE CASE scope.table = "AssemblyRef" ->
                    {<<Lit("["), NameOf(scope), Lit("]")>> : row \in Row(m, scope)}
               [] scope.table = "ModuleRef" ->
                    {<<Lit("[.module"), NameOf(scope), Lit("]")>> : row \in Row(m, scope)}
               [] scope.table = "TypeRef" ->
                    {outer \o <<Lit("/")>> : outer \in type_ref(m, d + 1, scope)}
               [] OTHER -> {<< >>}
  IN  IF d >= MAX_DEPTH THEN {}
      ELSE UNION {{prefix \o <<NameOf(t)>> : prefix \in scoped(row.scope)} : row \in Row(m, t)}

(* The owner type_of_method or type_of_field finds; a name needs its row.  *)
owner_name(m, row) ==
  IF row.owner = {} THEN {<<Lit("?")>>} ELSE UNION {type_def(m, o) : o \in row.owner}

RECURSIVE try_token(_, _, _), type_(_, _, _), method_sig(_, _, _, _)

token(m, d, t) == unwrap_or(try_token(m, d, t), <<Unresolved(t)>>)

(* One hop: what a row names is named at the next depth.                   *)
try_token(m, d, t) ==
  LET member == <<Lit("::"), NameOf(t)>>
  IN  IF d >= MAX_DEPTH THEN {}
      ELSE CASE t.table = "TypeDef" -> type_def(m, t)
             [] t.table = "TypeRef" -> type_ref(m, d + 1, t)
             [] t.table = "TypeSpec" ->
                  {unwrap_or({type_(m, d + 1, s) : s \in row.sig}, <<Unresolved(t)>>) :
                     row \in Row(m, t)}
             [] t.table \in {"MethodDef", "Field"} ->
                  UNION {{owner \o member : owner \in owner_name(m, row)} : row \in Row(m, t)}
             [] t.table = "MemberRef" ->
                  {token(m, d + 1, row.class) \o member : row \in Row(m, t)}
             [] t.table = "MethodSpec" ->
                  {token(m, d + 1, row.method) \o unwrap_or(
                     {<<Lit("<")>> \o join([i \in DOMAIN args |-> type_(m, d + 1, args[i])], ",")
                        \o <<Lit(">")>> : args \in row.sig}, << >>) : row \in Row(m, t)}
             [] t.table = "ModuleRef" ->
                  {<<Lit("[.module"), NameOf(t), Lit("]")>> : row \in Row(m, t)}
             [] t.table = "AssemblyRef" ->
                  {<<Lit("["), NameOf(t), Lit("]")>> : row \in Row(m, t)}
             [] OTHER -> {<<Unresolved(t)>>}

-------------------------------------------------------------------------------
(* Types and signatures                                                    *)

(* Modifiers are written behind what they modify, the last of a list first.*)
mods(m, d, list) ==
  FlattenSeq([i \in DOMAIN list |->
    LET mod == list[Len(list) + 1 - i]
    IN  <<Lit(IF mod.required THEN "modreq(" ELSE "modopt(")>>
          \o token(m, d, mod.type_token) \o <<Lit(")")>>])

dimension(shape, i) ==
  CASE i \in DOMAIN shape.lo_bounds /\ i \in DOMAIN shape.sizes ->
         <<Number(shape.lo_bounds[i]), Lit("..."),
           Number(shape.lo_bounds[i] + shape.sizes[i] - 1)>>
    [] i \in DOMAIN shape.lo_bounds /\ i \notin DOMAIN shape.sizes ->
         <<Number(shape.lo_bounds[i]), Lit("...")>>
    [] i \notin DOMAIN shape.lo_bounds /\ i \in DOMAIN shape.sizes ->
         <<Number(shape.sizes[i])>>
    [] OTHER -> << >>

shape_string(shape) ==
  <<Lit("[")>> \o join([i \in 1..shape.rank |-> dimension(shape, i)], ",") \o <<Lit("]")>>

Suffix == [Ptr |-> <<Lit("*")>>, SzArray |-> <<Lit("["), Lit("]")>>, ByRef |-> <<Lit("&")>>,
           Pinned |-> <<Lit("pinned")>>, Modified |-> << >>]

(* ByRef and Pinned have no list of modifiers: theirs is empty.            *)
type_(m, d, t) ==
  CASE t.tag = "Simple" -> <<Lit(t.keyword)>>
    [] t.tag \in DOMAIN Suffix -> type_(m, d, t.inner) \o mods(m, d, t.mods) \o Suffix[t.tag]
    [] t.tag = "Array" -> type_(m, d, t.inner) \o shape_string(t.shape)
    [] t.tag \in {"Class", "ValueType"} -> <<Lit(t.tag)>> \o token(m, d, t.token)
    [] t.tag = "GenericInst" ->
         <<Lit(IF t.is_value_type THEN "ValueType" ELSE "Class")>> \o token(m, d, t.def)
           \o <<Lit("<")>> \o join([i \in DOMAIN t.args |-> type_(m, d, t.args[i])], ",")
           \o <<Lit(">")>>
    [] t.tag = "FnPtr" -> <<Lit("method")>> \o method_sig(m, d, t.sig, << >>)

When(condition, keyword) == IF condition THEN <<Lit(keyword)>> ELSE << >>

(* field_sig, local and param: what precedes BYREF in the blob is written  *)
(* behind it.  A parameter is never pinned, a field neither that nor       *)
(* by_ref.                                                                 *)
local(m, d, s) ==
  type_(m, d, s.type) \o When(s.by_ref, "&") \o When(s.pinned, "pinned")
    \o mods(m, d, s.custom_mods)

method_sig(m, d, sig, name) ==
  LET params(list) == [i \in DOMAIN list |-> local(m, d, list[i])]
      parts == params(sig.params) \o
        (IF sig.vararg_params = << >> THEN << >>
         ELSE <<When(TRUE, "...")>> \o params(sig.vararg_params))
  IN  When(sig.has_this, "instance") \o When(sig.explicit_this, "explicit")
        \o When(sig.calling_convention \notin {"Default", "Generic"}, sig.calling_convention)
        \o local(m, d, sig.return_type) \o name
        \o (IF sig.calling_convention = "Generic"
            THEN <<Lit("<"), Number(sig.generic_count), Lit(">")>> ELSE << >>)
        \o <<Lit("(")>> \o join(parts, ",") \o <<Lit(")")>>

method_def_full(m, t) ==
  {unwrap_or({method_sig(m, 0, s, token(m, 0, t)) : s \in row.sig}, token(m, 0, t)) :
     row \in Row(m, t)}

-------------------------------------------------------------------------------
(* What must hold of names, for the regions, slots and signatures given    *)

IsWhole(text) == \A i \in DOMAIN text : "unresolved" \notin DOMAIN text[i]

(* The TypeRefs a TypeRef is nested in, itself first.                      *)
ScopeChains(m, t, n) ==
  {c \in UNION {[1..k -> {u \in DOMAIN m : u.table = "TypeRef"}] : k \in 1..n} :
     c[1] = t /\ \A i \in 1..Len(c) - 1 : c[i + 1] = m[c[i]].scope}

Ends(m, c) ==
  LET scope == m[c[Len(c)]].scope
  IN  \/ IsNull(scope)
      \/ scope.table \in {"AssemblyRef", "ModuleRef"} /\ scope \in DOMAIN m
      \/ scope.table \notin {"AssemblyRef", "ModuleRef", "TypeRef"}

(* The name of a TypeRef has all of its scopes or none.  If they end       *)
(* within the hops allowed, outermost first; if they do not, are cyclic or *)
(* cannot be read, the TypeRef asked for is Table[rid] ("The cycle is cut, *)
(* not followed", tests/hostile.rs): no name shows half a scope.           *)
ASSUME ScopesAllOrNothing ==
  \A m \in Regions : \A t \in [table : {"TypeRef"}, rid : 1..4] :
    LET chains == {c \in ScopeChains(m, t, MAX_DEPTH - 1) : Ends(m, c)}
        refs(c) == [i \in DOMAIN c |-> <<NameOf(c[Len(c) + 1 - i])>>]
        prefix(s) == IF s \in DOMAIN m /\ s.table \in {"AssemblyRef", "ModuleRef"}
                     THEN token(m, 0, s) ELSE << >>
    IN  {token(m, 0, t)} = IF chains = {} THEN {<<Unresolved(t)>>}
          ELSE {prefix(m[c[Len(c)]].scope) \o join(refs(c), "/") : c \in chains}

(* The cap only takes away: a name that is whole at some depth is the same *)
(* at every lesser one, so a name does not depend on where it is reached.  *)
ASSUME DepthOnlyCuts ==
  \A m \in Regions : \A t \in DOMAIN m : \A d \in 1..MAX_DEPTH :
    IsWhole(token(m, d, t)) => token(m, d - 1, t) = token(m, d, t)

(* A name is cut where its hops run out and nowhere else: a TypeSpec that  *)
(* names itself is written out MAX_DEPTH times.                            *)
ASSUME HopsAreUsed ==
  \A m \in Regions : \A t \in DOMAIN m :
    t.table = "TypeSpec" /\ m[t].sig = {[tag |-> "SzArray", mods |-> << >>,
                                         inner |-> [tag |-> "Class", token |-> t]]}
      => LET text == token(m, 0, t)
         IN  /\ Len(SelectSeq(text, LAMBDA x : x = Lit("["))) = MAX_DEPTH
             /\ Len(SelectSeq(text, LAMBDA x : x = Unresolved(t))) = 1

(* "CustomMod* Type nests: the first modifier in the blob wraps everything *)
(* after it": a list of modifiers reads like the nest it stands for.       *)
ASSUME ModifiersNest ==
  LET modified(list, t) == [tag |-> "Modified", mods |-> list, inner |-> t]
  IN  \A outer, inner \in {s.custom_mods : s \in Slots}, t \in {s.type : s \in Slots} :
        type_(PlainRegion, 0, modified(outer \o inner, t)) =
        type_(PlainRegion, 0, modified(outer, modified(inner, t)))

(* Two signatures the parser tells apart are rendered differently: none of *)
(* the modifier groups around BYREF and PINNED can be taken for another    *)
(* ("Getting that order wrong is easy and silent").                        *)
ASSUME SlotsToldApart ==
  Cardinality({local(PlainRegion, 0, s) : s \in Slots}) = Cardinality(Slots)

ASSUME SignaturesToldApart ==
  Cardinality({method_sig(PlainRegion, 0, s, <<Lit("Foo")>>) : s \in MethodSigs})
    = Cardinality(MethodSigs)

(* So are two shapes, of a dimension or more; but an array of one          *)
(* dimension without bounds is rendered like a vector of its elements.     *)
ASSUME ShapesToldApart ==
  /\ Cardinality({shape_string(s) : s \in Shapes}) = Cardinality(Shapes)
  /\ shape_string([rank |-> 1, sizes |-> << >>, lo_bounds |-> << >>]) = Suffix.SzArray
===============================================================================
