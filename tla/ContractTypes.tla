----------------------------- MODULE ContractTypes -----------------------------
(***************************************************************************)
(* A parsed .laic file (crates/laicc/src/ast.rs) and the rules that accept *)
(* or reject it (validate.rs).  Validation stops at the first rule broken  *)
(* and changes nothing, so acceptance is the conjunction of the rules.     *)
(* Names are opaque: a rule compares them or looks them up.                *)
(***************************************************************************)
EXTENDS Integers, Sequences

CONSTANTS
  Reserved,  \* the reserved codegen identifiers, among the names used
  FieldType  \* the types considered, with all they are made of

-----------------------------------------------------------------------------
(* The AST                                                                 *)

Scalar(kind) == [kind |-> kind]
Tensor(dtype, dims) == [kind |-> "tensor", dtype |-> dtype, dims |-> dims]
List(type) == [kind |-> "list", of |-> type]
Optional(type) == [kind |-> "optional", of |-> type]
Map(key, value) == [kind |-> "map", key |-> key, val |-> value]

Integral == {"i8", "i16", "i32", "i64", "u8"}
Floating == {"f32", "f64"}
ScalarKinds == {"string", "bytes", "bool"} \cup Integral \cup Floating

\* A dimension is a size or the wildcard.
Dynamic == -1

\* Field defaults; the value of a literal matters for integers only.
NoDefault == [lit |-> "none", value |-> 0]
Literal(lit, value) == [lit |-> lit, value |-> value]

ElementTypes == Integral \cup Floating \cup {"bool"}

\* LaicType: what a type contains is among the types too.
ASSUME TypesAssumption ==
  FieldType \subseteq
    [kind : ScalarKinds]
      \cup [kind : {"tensor"}, dtype : ElementTypes, dims : Seq(Nat \cup {Dynamic})]
      \cup [kind : {"list", "optional"}, of : FieldType]
      \cup [kind : {"map"}, key : FieldType, val : FieldType]

\* Codes are u16; a default is an i64 where it is an integer.
FieldDef == [name : STRING, type : FieldType, default : [lit : STRING, value : Int]]
StructDef == [name : STRING, fields : Seq(FieldDef)]
ErrorVariant == [name : STRING, code : 0..65535]
SkillDef == [name : STRING, id : STRING, input : StructDef, output : StructDef,
             errors : Seq(ErrorVariant)]
LaicFile == [version : STRING, skills : Seq(SkillDef)]

-----------------------------------------------------------------------------
(* Type rules                                                              *)

HasDynamic(type) ==
  type.kind = "tensor" /\ \E i \in 1..Len(type.dims) : type.dims[i] = Dynamic

\* is_leaf_type
Leaf(type) == type.kind \in ScalarKinds \cup {"tensor"}

TensorAccepted(dims) ==
  /\ dims # <<>>
  /\ \A i \in 1..Len(dims) : dims[i] # 0

\* Mutant: the element of a list may be a map.
ElementMayBeMap(type) ==
  /\ type.kind # "list"
  /\ ~HasDynamic(type)
  /\ type.kind = "optional" => Leaf(type.of)

\* What a list may hold, one level deep.
ElementAccepted(type) ==
  /\ type.kind \notin {"list", "map"}
  /\ ~HasDynamic(type)
  /\ type.kind = "optional" => Leaf(type.of)

\* What may be optional, one level deep.
InnerAccepted(type) ==
  /\ type.kind \notin {"optional", "map"}
  /\ ~HasDynamic(type)
  /\ type.kind = "list" => Leaf(type.of)

MapAccepted(key, value) ==
  /\ key.kind \in {"string", "bool"} \cup Integral
  /\ value.kind \in ScalarKinds

\* validate_field_type, over what accepts the type inside a list or an optional.
TypeRule(type, InnerType(_)) ==
  /\ type.kind = "tensor" => TensorAccepted(type.dims)
  /\ type.kind = "list" => ElementAccepted(type.of) /\ InnerType(type.of)
  /\ type.kind = "optional" => InnerAccepted(type.of) /\ InnerType(type.of)
  /\ type.kind = "map" => MapAccepted(type.key, type.val)

\* It calls itself; nothing accepted is deeper than a leaf in two containers.
Deeper(type) == FALSE
InnermostAccepted(type) == TypeRule(type, Deeper)
NestedAccepted(type) == TypeRule(type, InnermostAccepted)
TypeAccepted(type) == TypeRule(type, NestedAccepted)

-----------------------------------------------------------------------------
(* Defaults                                                                *)

\* The bounds of the integer types that have some; i64 holds every literal.
IntegerBounds ==
  [i8  |-> <<-128, 127>>,
   i16 |-> <<-32768, 32767>>,
   i32 |-> <<-2147483647 - 1, 2147483647>>,
   u8  |-> <<0, 255>>]

InBounds(kind, value) ==
  kind \in DOMAIN IntegerBounds =>
    IntegerBounds[kind][1] <= value /\ value <= IntegerBounds[kind][2]

\* validate_default_compat
DefaultAccepted(type, default) ==
  \/ default = NoDefault
  \/ default.lit = "String" /\ type.kind = "string"
  \/ default.lit = "Bool" /\ type.kind = "bool"
  \/ default.lit = "Integer" /\ type.kind \in Integral \cup Floating
       /\ InBounds(type.kind, default.value)
  \/ default.lit = "Float" /\ type.kind \in Floating

-----------------------------------------------------------------------------
(* Structs, errors, files                                                  *)

Distinct(things) ==
  \A i, j \in 1..Len(things) : things[i] = things[j] => i = j

NamesOf(things) == [i \in 1..Len(things) |-> things[i].name]

\* validate_field
FieldAccepted(field) ==
  /\ field.name \notin Reserved
  /\ DefaultAccepted(field.type, field.default)
  /\ TypeAccepted(field.type)

\* validate_struct
StructAccepted(struct) ==
  /\ struct.name # "" /\ struct.name \notin Reserved
  /\ struct.fields # <<>>
  /\ Distinct(NamesOf(struct.fields))
  /\ \A i \in 1..Len(struct.fields) : FieldAccepted(struct.fields[i])

\* validate_errors
ErrorsAccepted(errors) ==
  /\ Distinct(NamesOf(errors))
  /\ Distinct([i \in 1..Len(errors) |-> errors[i].code])
  /\ \A i \in 1..Len(errors) :
       errors[i].name \notin Reserved /\ errors[i].code # 0

\* Mutant: two skills may have one id.
IdsNotCompared(skills) == \A i \in 1..Len(skills) : skills[i].id # ""

IdsAccepted(skills) ==
  /\ Distinct([i \in 1..Len(skills) |-> skills[i].id])
  /\ \A i \in 1..Len(skills) : skills[i].id # ""

\* validate
Accepted(file) ==
  /\ file.version # ""
  /\ file.skills # <<>>
  /\ Distinct(NamesOf(file.skills))
  /\ IdsAccepted(file.skills)
  /\ \A i \in 1..Len(file.skills) :
       /\ file.skills[i].name \notin Reserved
       /\ StructAccepted(file.skills[i].input)
       /\ StructAccepted(file.skills[i].output)
       /\ ErrorsAccepted(file.skills[i].errors)
=============================================================================
