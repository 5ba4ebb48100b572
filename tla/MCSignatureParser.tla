--------------------------- MODULE MCSignatureParser ---------------------------
(***************************************************************************)
(* Blobs of up to seven bytes.  The bytes are element types of every kind, *)
(* which double as conventions, counts, tags and compressed prefixes:      *)
(* 0 END/DEFAULT, 1 VOID/C, 5 I1/VARARG, 6 U2/FIELD, 7 I2/LOCAL_SIG,       *)
(* 8 I4/PROPERTY, 10 I8/GENERICINST, 15 PTR, 16 BYREF/GENERIC, 18 CLASS,   *)
(* 20 ARRAY, 21 GENERICINST, 22 TYPEDBYREF, 27 FNPTR, 31 CMOD_REQD,        *)
(* 33 INTERNAL, 65 SENTINEL, 69 PINNED, 128 a two-byte and 192 a four-byte *)
(* integer, 224 neither.                                                   *)
(*                                                                         *)
(* What is parsed is rendered by Names, whose assumptions are checked      *)
(* here, for up to three hops: on regions of three TypeRefs with scopes of *)
(* every kind, TypeSpecs naming themselves and each other, and members of  *)
(* them; on slots and signatures of types two deep, as the parser nests    *)
(* them.                                                                   *)
(***************************************************************************)
EXTENDS SignatureParser, Names
LOCAL INSTANCE SequencesExt

MCTails == {0, 1, 3, 16777215}
MCLengths == 0..7
MCBytes == {0, 1, 2, 5, 6, 7, 8, 10, 15, 16, 18, 20, 21, 22, 27, 31, 33, 65, 69, 128, 192, 224}

-------------------------------------------------------------------------------
Ref(t, r) == [table |-> t, rid |-> r]
Simple(k) == [tag |-> "Simple", keyword |-> k]
Class(t) == [tag |-> "Class", token |-> t]
Wrapped(c, list, t) == [tag |-> c, mods |-> list, inner |-> t]

Scopes == {Ref("TypeRef", r) : r \in 0..4} \cup {Ref("AssemblyRef", r) : r \in 1..2}
          \cup {Ref("ModuleRef", 1), Ref("Module", 1)}
Members(a, b) ==
  Ref("TypeDef", 1) :> {} @@ Ref("AssemblyRef", 1) :> {} @@ Ref("ModuleRef", 1) :> {}
  @@ Ref("TypeSpec", 1) :> [sig |-> {Wrapped("SzArray", << >>, Class(a))}]
  @@ Ref("TypeSpec", 2) :> [sig |-> IF b.rid = 0 THEN {} ELSE {Wrapped("Modified",
       <<[required |-> TRUE, type_token |-> b]>>, Class(Ref("TypeSpec", 1)))}]
  @@ Ref("MemberRef", 1) :> [class |-> b]
  @@ Ref("MethodDef", 1) :> [owner |-> {a}] @@ Ref("Field", 1) :> [owner |-> {}]
  @@ Ref("MethodSpec", 1) :> [method |-> Ref("MemberRef", 1), sig |-> {<<Class(a), Simple("int32")>>}]
MCRegions ==
  {Ref("TypeRef", 1) :> [scope |-> s] @@ Ref("TypeRef", 2) :> [scope |-> t]
   @@ Ref("TypeRef", 3) :> [scope |-> Ref("TypeRef", 0)] @@ Members(a, b) :
     s, t \in Scopes, a, b \in {Ref("TypeDef", 1), Ref("TypeDef", 2), Ref("TypeRef", 1),
                                Ref("TypeSpec", 0), Ref("TypeSpec", 1), Ref("TypeSpec", 2)}}

-------------------------------------------------------------------------------
MCPlainRegion == [t \in {Ref("TypeDef", r) : r \in 1..2} |-> {}]
Lists == BoundedSeq({[required |-> q, type_token |-> Ref("TypeDef", r)] :
                       q \in BOOLEAN, r \in 1..2}, 2)
Groups == {<< >>, <<[required |-> TRUE, type_token |-> Ref("TypeDef", 1)]>>}
Atoms == {Simple("int32"), Class(Ref("TypeDef", 1))}
(* Types one constructor deeper; modifiers are read as one list.           *)
Deeper(types) ==
  LET bare == {t \in types : t.tag # "Modified"}
  IN  {Wrapped(c, g, t) : c \in {"Ptr", "SzArray"}, g \in Groups, t \in bare}
      \cup {Wrapped("Modified", g, t) : g \in Groups \ {<< >>}, t \in bare}
      \cup {Wrapped("ByRef", << >>, t) : t \in types}
      \cup {Wrapped("Pinned", << >>, t) : t \in types}
      \cup {[tag |-> "GenericInst", is_value_type |-> FALSE, def |-> Ref("TypeDef", 2),
             args |-> <<Simple("int32"), t>>] : t \in types}
Types2 == Atoms \cup Deeper(Atoms \cup Deeper(Atoms))
(* A type cannot begin with what its slot has read as its own.             *)
MCSlots ==
  {s \in [type : Types2, by_ref : BOOLEAN, pinned : BOOLEAN, custom_mods : Lists] :
     /\ s.type.tag # "Pinned"
     /\ ~s.by_ref => s.type.tag \notin {"Modified", "ByRef"}}

SlotOf(t) == [type |-> t, by_ref |-> FALSE, pinned |-> FALSE, custom_mods |-> << >>]
SigsOf(slots) ==
  {s \in [has_this : BOOLEAN, explicit_this : BOOLEAN, generic_count : 0..2,
          calling_convention : {"Default", "Generic", "VarArg", "StdCall"},
          return_type : slots, params : BoundedSeq(slots, 2),
          vararg_params : BoundedSeq(slots, 1)] :
     s.calling_convention # "Generic" => s.generic_count = 0}
PlainSig == [has_this |-> FALSE, explicit_this |-> FALSE, generic_count |-> 0,
             calling_convention |-> "Default", return_type |-> SlotOf(Simple("void")),
             params |-> <<SlotOf(Simple("int32"))>>, vararg_params |-> << >>]
MCMethodSigs ==
  SigsOf({SlotOf(Simple("int32")), [SlotOf(Simple("int32")) EXCEPT !.by_ref = TRUE],
          SlotOf([tag |-> "FnPtr", sig |-> PlainSig])})

MCShapes ==
  UNION {[rank : {n}, sizes : BoundedSeq({0, 3}, n), lo_bounds : BoundedSeq({-1, 0, 3}, n)] :
           n \in 1..2}
===============================================================================
