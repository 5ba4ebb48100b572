------------------------------ MODULE RowSchema -------------------------------
(***************************************************************************)
(* The tables themselves: their numbers, their columns, the coded index    *)
(* kinds, and what the lookups take for granted about them.  The rest of   *)
(* the crate addresses a column by its position, so a position that is off *)
(* by one still reads a number of some other meaning.                      *)
(*                                                                         *)
(* A table is named by a string, a column by the record TableStream uses.  *)
(***************************************************************************)
EXTENDS Naturals, Sequences, TLC
LOCAL INSTANCE SequencesExt

U16 == [kind |-> "fixed", width |-> 2]
U32 == [kind |-> "fixed", width |-> 4]
Str == [kind |-> "heap", heap |-> "strings"]
Blob == [kind |-> "heap", heap |-> "blob"]
Guid == [kind |-> "heap", heap |-> "guid"]
Rid(t) == [kind |-> "rid", to |-> t]
Coded(k) == [kind |-> "coded", index |-> k]

(* TableId, in the order of its discriminants from 0x00 and from 0x30.     *)
EcmaTables == <<
  "Module", "TypeRef", "TypeDef", "FieldPtr", "Field", "MethodPtr", "MethodDef",
  "ParamPtr", "Param", "InterfaceImpl", "MemberRef", "Constant",
  "CustomAttribute", "FieldMarshal", "DeclSecurity", "ClassLayout",
  "FieldLayout", "StandAloneSig", "EventMap", "EventPtr", "Event",
  "PropertyMap", "PropertyPtr", "Property", "MethodSemantics", "MethodImpl",
  "ModuleRef", "TypeSpec", "ImplMap", "FieldRva", "EncLog", "EncMap",
  "Assembly", "AssemblyProcessor", "AssemblyOs", "AssemblyRef",
  "AssemblyRefProcessor", "AssemblyRefOs", "File", "ExportedType",
  "ManifestResource", "NestedClass", "GenericParam", "MethodSpec",
  "GenericParamConstraint">>

PdbTables == <<
  "Document", "MethodDebugInformation", "LocalScope", "LocalVariable",
  "LocalConstant", "ImportScope", "StateMachineMethod",
  "CustomDebugInformation">>

TableIds == ToSet(EcmaTables) \cup ToSet(PdbTables)

(* is_pdb tells the two ranges apart by the number alone.                  *)
PdbBase == 48

to_u8 ==
  [t \in TableIds |-> IF t \in ToSet(EcmaTables)
                      THEN SelectInSeq(EcmaTables, LAMBDA u : u = t) - 1
                      ELSE PdbBase + SelectInSeq(PdbTables, LAMBDA u : u = t) - 1]

is_pdb(t) == to_u8[t] >= PdbBase

(* The columns of the tables of types and members.                         *)
TypeRows == [
  Module |-> <<U16, Str, Guid, Guid, Guid>>,
  TypeRef |-> <<Coded("ResolutionScope"), Str, Str>>,
  TypeDef |-> <<U32, Str, Str, Coded("TypeDefOrRef"), Rid("Field"), Rid("MethodDef")>>,
  FieldPtr |-> <<Rid("Field")>>,
  Field |-> <<U16, Str, Blob>>,
  MethodPtr |-> <<Rid("MethodDef")>>,
  MethodDef |-> <<U32, U16, U16, Str, Blob, Rid("Param")>>,
  ParamPtr |-> <<Rid("Param")>>,
  Param |-> <<U16, U16, Str>>,
  InterfaceImpl |-> <<Rid("TypeDef"), Coded("TypeDefOrRef")>>,
  MemberRef |-> <<Coded("MemberRefParent"), Str, Blob>>,
  Constant |-> <<U16, Coded("HasConstant"), Blob>>,
  CustomAttribute |-> <<Coded("HasCustomAttribute"), Coded("CustomAttributeType"), Blob>>,
  FieldMarshal |-> <<Coded("HasFieldMarshal"), Blob>>]

(* The columns of the tables that lay out, group and implement members.    *)
MemberRows == [
  DeclSecurity |-> <<U16, Coded("HasDeclSecurity"), Blob>>,
  ClassLayout |-> <<U16, U32, Rid("TypeDef")>>,
  FieldLayout |-> <<U32, Rid("Field")>>,
  StandAloneSig |-> <<Blob>>,
  EventMap |-> <<Rid("TypeDef"), Rid("Event")>>,
  EventPtr |-> <<Rid("Event")>>,
  Event |-> <<U16, Str, Coded("TypeDefOrRef")>>,
  PropertyMap |-> <<Rid("TypeDef"), Rid("Property")>>,
  PropertyPtr |-> <<Rid("Property")>>,
  Property |-> <<U16, Str, Blob>>,
  MethodSemantics |-> <<U16, Rid("MethodDef"), Coded("HasSemantics")>>,
  MethodImpl |-> <<Rid("TypeDef"), Coded("MethodDefOrRef"), Coded("MethodDefOrRef")>>,
  ModuleRef |-> <<Str>>,
  TypeSpec |-> <<Blob>>,
  ImplMap |-> <<U16, Coded("MemberForwarded"), Str, Rid("ModuleRef")>>,
  FieldRva |-> <<U32, Rid("Field")>>,
  EncLog |-> <<U32, U32>>,
  EncMap |-> <<U32>>]

(* The columns of the tables of the manifest and of generics.              *)
ManifestRows == [
  Assembly |-> <<U32, U16, U16, U16, U16, U32, Blob, Str, Str>>,
  AssemblyProcessor |-> <<U32>>,
  AssemblyOs |-> <<U32, U32, U32>>,
  AssemblyRef |-> <<U16, U16, U16, U16, U32, Blob, Str, Str, Blob>>,
  AssemblyRefProcessor |-> <<U32, Rid("AssemblyRef")>>,
  AssemblyRefOs |-> <<U32, U32, U32, Rid("AssemblyRef")>>,
  File |-> <<U32, Str, Blob>>,
  ExportedType |-> <<U32, U32, Str, Str, Coded("Implementation")>>,
  ManifestResource |-> <<U32, U32, Str, Coded("Implementation")>>,
  NestedClass |-> <<Rid("TypeDef"), Rid("TypeDef")>>,
  GenericParam |-> <<U16, U16, Coded("TypeOrMethodDef"), Str>>,
  MethodSpec |-> <<Coded("MethodDefOrRef"), Blob>>,
  GenericParamConstraint |-> <<Rid("GenericParam"), Coded("TypeDefOrRef")>>]

(* The columns of the Portable PDB tables.                                 *)
PdbRows == [
  Document |-> <<Blob, Guid, Blob, Guid>>,
  MethodDebugInformation |-> <<Rid("Document"), Blob>>,
  LocalScope |-> <<Rid("MethodDef"), Rid("ImportScope"), Rid("LocalVariable"),
                   Rid("LocalConstant"), U32, U32>>,
  LocalVariable |-> <<U16, U16, Str>>,
  LocalConstant |-> <<Str, Blob>>,
  ImportScope |-> <<Rid("ImportScope"), Blob>>,
  StateMachineMethod |-> <<Rid("MethodDef"), Rid("MethodDef")>>,
  CustomDebugInformation |-> <<Coded("HasCustomDebugInformation"), Guid, Blob>>]

columns_of == TypeRows @@ MemberRows @@ ManifestRows @@ PdbRows

(* CodedIndex: the table of each tag in tag order, "_" for a tag without   *)
(* one, and the number of tag bits.                                        *)
Attributed == <<
  "MethodDef", "Field", "TypeRef", "TypeDef", "Param", "InterfaceImpl",
  "MemberRef", "Module", "DeclSecurity", "Property", "Event", "StandAloneSig",
  "ModuleRef", "TypeSpec", "Assembly", "AssemblyRef", "File", "ExportedType",
  "ManifestResource", "GenericParam", "GenericParamConstraint", "MethodSpec">>

tables == [
  TypeDefOrRef |-> <<"TypeDef", "TypeRef", "TypeSpec">>,
  HasConstant |-> <<"Field", "Param", "Property">>,
  HasCustomAttribute |-> Attributed,
  HasFieldMarshal |-> <<"Field", "Param">>,
  HasDeclSecurity |-> <<"TypeDef", "MethodDef", "Assembly">>,
  MemberRefParent |-> <<"TypeDef", "TypeRef", "ModuleRef", "MethodDef", "TypeSpec">>,
  HasSemantics |-> <<"Event", "Property">>,
  MethodDefOrRef |-> <<"MethodDef", "MemberRef">>,
  MemberForwarded |-> <<"Field", "MethodDef">>,
  Implementation |-> <<"File", "AssemblyRef", "ExportedType">>,
  CustomAttributeType |-> <<"_", "_", "MethodDef", "MemberRef", "_">>,
  ResolutionScope |-> <<"Module", "ModuleRef", "AssemblyRef", "TypeRef">>,
  TypeOrMethodDef |-> <<"TypeDef", "MethodDef">>,
  HasCustomDebugInformation |->
    Attributed \o <<"Document", "LocalScope", "LocalVariable", "LocalConstant", "ImportScope">>]

tag_bits ==
  [k \in DOMAIN tables |->
     CASE k \in {"HasCustomAttribute", "HasCustomDebugInformation"} -> 5
       [] k \in {"MemberRefParent", "CustomAttributeType"} -> 3
       [] k \in {"TypeDefOrRef", "HasConstant", "HasDeclSecurity", "Implementation",
                 "ResolutionScope"} -> 2
       [] OTHER -> 1]

(* ptr_target, whose domain is is_ptr_table, and ptr_source.               *)
ptr_target == [
  FieldPtr |-> "Field", MethodPtr |-> "MethodDef", ParamPtr |-> "Param",
  EventPtr |-> "Event", PropertyPtr |-> "Property"]

ptr_source == [
  Field |-> "FieldPtr", MethodDef |-> "MethodPtr", Param |-> "ParamPtr",
  Event |-> "EventPtr", Property |-> "PropertyPtr"]

(* The position of the sort key, counted from 0 as in the code.            *)
sort_key_column == [
  InterfaceImpl |-> 0, Constant |-> 1, CustomAttribute |-> 0,
  FieldMarshal |-> 0, DeclSecurity |-> 1, ClassLayout |-> 2, FieldLayout |-> 1,
  EventMap |-> 0, PropertyMap |-> 0, MethodSemantics |-> 2, MethodImpl |-> 0,
  ImplMap |-> 1, FieldRva |-> 1, NestedClass |-> 0, GenericParam |-> 2,
  GenericParamConstraint |-> 0, LocalScope |-> 0, StateMachineMethod |-> 0,
  CustomDebugInformation |-> 0]

sort_key_coded == [
  Constant |-> "HasConstant", CustomAttribute |-> "HasCustomAttribute",
  FieldMarshal |-> "HasFieldMarshal", DeclSecurity |-> "HasDeclSecurity",
  MethodSemantics |-> "HasSemantics", ImplMap |-> "MemberForwarded",
  GenericParam |-> "TypeOrMethodDef",
  CustomDebugInformation |-> "HasCustomDebugInformation"]

(* The arguments the ranges and their inverses pass to list_range and      *)
(* owner_of_list.                                                          *)
ListWrappers == {
  [owner |-> "TypeDef", column |-> 4, target |-> "Field"],
  [owner |-> "TypeDef", column |-> 5, target |-> "MethodDef"],
  [owner |-> "MethodDef", column |-> 5, target |-> "Param"],
  [owner |-> "EventMap", column |-> 1, target |-> "Event"],
  [owner |-> "PropertyMap", column |-> 1, target |-> "Property"]}

(* The lookups keyed by a typed RID, with the table it is a RID of, and    *)
(* those keyed by a token of any table.                                    *)
RidKeyed == [
  EventMap |-> "TypeDef", PropertyMap |-> "TypeDef",
  GenericParamConstraint |-> "GenericParam", NestedClass |-> "TypeDef",
  InterfaceImpl |-> "TypeDef", MethodImpl |-> "TypeDef", FieldRva |-> "Field",
  FieldLayout |-> "Field", ClassLayout |-> "TypeDef"]

TokenKeyed == {"GenericParam", "CustomAttribute", "MethodSemantics", "DeclSecurity",
               "Constant", "FieldMarshal", "ImplMap"}

(***************************************************************************)
(* What the code takes for granted about this data                         *)
(***************************************************************************)
Column(t, i) == columns_of[t][i + 1]
IsRidTo(c, t) == c.kind = "rid" /\ c.to = t
LastSlot == 63
LargestRow == 9

(* The table numbers are distinct slots of Valid, every table has between  *)
(* one and MAX_COLUMNS columns, and indexes point at tables that exist.    *)
ASSUME RowsAreLaidOut ==
  /\ DOMAIN columns_of = TableIds
  /\ \A t \in TableIds : to_u8[t] \in 0..LastSlot
  /\ \A t, u \in TableIds : t # u => to_u8[t] # to_u8[u]
  /\ \A t \in TableIds : is_pdb(t) <=> t \in DOMAIN PdbRows
  /\ \A t \in TableIds : Len(columns_of[t]) \in 1..LargestRow
  /\ \A t \in TableIds : \A c \in ToSet(columns_of[t]) :
       /\ c.kind = "rid" => c.to \in TableIds
       /\ c.kind = "coded" => c.index \in DOMAIN tables

(* A tag has at most one table and a table at most one tag, so that encode *)
(* and decode can be inverse; the tag bits are exactly enough.             *)
ASSUME TagsAreExact ==
  \A k \in DOMAIN tables :
    LET list == SelectSeq(tables[k], LAMBDA t : t # "_")
    IN  /\ ToSet(list) \subseteq TableIds
        /\ IsInjective(list)
        /\ Len(tables[k]) \in (2 ^ (tag_bits[k] - 1) + 1)..(2 ^ tag_bits[k])

(* The sort key is an index column, of the coded kind sort_key_for encodes *)
(* with when it is coded.                                                  *)
ASSUME SortKeysAreIndexes ==
  /\ DOMAIN sort_key_coded \subseteq DOMAIN sort_key_column
  /\ \A t \in DOMAIN sort_key_column :
       /\ sort_key_column[t] < Len(columns_of[t])
       /\ IF t \in DOMAIN sort_key_coded
          THEN Column(t, sort_key_column[t]) = Coded(sort_key_coded[t])
          ELSE Column(t, sort_key_column[t]).kind = "rid"

(* A *Ptr table is one RID column of its target, and the two directions of *)
(* the relation agree.                                                     *)
ASSUME PtrTablesRedirect ==
  /\ \A p \in DOMAIN ptr_target : /\ columns_of[p] = <<Rid(ptr_target[p])>>
                                  /\ ptr_source[ptr_target[p]] = p
  /\ \A t \in DOMAIN ptr_source : ptr_target[ptr_source[t]] = t

(* Every wrapper names the column that holds what it reads: a list column  *)
(* of its target, a key that is a RID of the wrapper's argument, or a      *)
(* coded key where the argument is a token.                                *)
ASSUME WrappersNameTheirColumn ==
  /\ \A w \in ListWrappers : IsRidTo(Column(w.owner, w.column), w.target)
  /\ \A t \in DOMAIN RidKeyed : IsRidTo(Column(t, sort_key_column[t]), RidKeyed[t])
  /\ TokenKeyed \subseteq DOMAIN sort_key_coded
===============================================================================
