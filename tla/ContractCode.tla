------------------------------ MODULE ContractCode ------------------------------
(***************************************************************************)
(* What the generators make of an accepted file                            *)
(* (crates/laicc/src/codegen): whether they emit code that its compiler or *)
(* interpreter takes, the columns the generated writers put into an Arrow  *)
(* message, and what the generated readers make of one.  The text of the   *)
(* code is left out.                                                       *)
(*                                                                         *)
(* A column is its Arrow type, its tensor metadata and its single cell.  A *)
(* cell is a value, null, or what a reader makes up: the default of a      *)
(* missing column, or the zero a typed array yields for null.              *)
(***************************************************************************)
EXTENDS ContractTypes, FiniteSets

Languages == {"rust", "python", "typescript"}
Cells == {"value", "null", "default", "zero"}

NoShape == [dtype |-> "none", dims |-> <<>>]

-----------------------------------------------------------------------------
(* Generation                                                              *)

\* arrow_builder_type and arrow_array_type know the leaf types only; any other
\* type reaches unreachable!().
SerializerPanics(type) ==
  CASE type.kind = "list"     -> ~Leaf(type.of)
    [] type.kind = "optional" -> type.of.kind = "list" /\ ~Leaf(type.of.of)
    [] type.kind = "map"      -> ~Leaf(type.key) \/ ~Leaf(type.val)
    [] OTHER                  -> FALSE

DeserializerPanics(type) ==
  CASE type.kind = "list"     -> IF type.of.kind = "optional"
                                   THEN ~Leaf(type.of.of) ELSE ~Leaf(type.of)
    [] type.kind = "optional" -> IF type.of.kind = "list"
                                   THEN ~Leaf(type.of.of) ELSE ~Leaf(type.of)
    [] type.kind = "map"      -> ~Leaf(type.key) \/ ~Leaf(type.val)
    [] OTHER                  -> FALSE

\* rustc refuses the items of optional<list<tensor>>, read as borrowed slices
\* for owned vectors; keys that cannot be hashed; values moved out of a map;
\* an integer literal where a float is due or that its type cannot hold.
RustIllTyped(field) ==
  LET type == field.type
  IN \/ type.kind = "optional" /\ type.of.kind = "list" /\ type.of.of.kind = "tensor"
     \/ type.kind = "map" /\ (type.key.kind \in Floating \cup {"tensor"}
                              \/ type.val.kind = "tensor")
     \/ field.default.lit = "Integer" /\ (type.kind \in Floating
                                          \/ ~InBounds(type.kind, field.default.value))

\* A generated reader binds each field to a variable of its name.  Names of its
\* own that it cannot lose at all, and those the reading of later fields needs
\* (builtins and names it derives from other fields are left out).
Redeclared(language) ==
  CASE language = "rust"       -> {}
    [] language = "python"     -> {"cls", "ipc"}
    [] language = "typescript" -> {"arrow", "batch", "data", "schemaMetadata", "table"}

Overwritten(language) ==
  IF language = "typescript" THEN {} ELSE {"batch"}

ReaderLosesName(struct, language) ==
  \E i \in 1..Len(struct.fields) :
    \/ struct.fields[i].name \in Redeclared(language)
    \/ struct.fields[i].name \in Overwritten(language) /\ i < Len(struct.fields)
    \/ /\ language = "python" /\ struct.fields[i].name = "pa"
       /\ \E j \in 1..Len(struct.fields) : struct.fields[j].type.kind \in ScalarKinds

Structs(file) ==
  {file.skills[i].input : i \in 1..Len(file.skills)} \cup
  {file.skills[i].output : i \in 1..Len(file.skills)}

Fields(file) ==
  UNION {{s.fields[i] : i \in 1..Len(s.fields)} : s \in Structs(file)}

\* Every struct of a file becomes a definition of its name.
StructNames(file) ==
  [i \in 1..(2 * Len(file.skills)) |->
     IF i % 2 = 1 THEN file.skills[(i + 1) \div 2].input.name
                  ELSE file.skills[i \div 2].output.name]

NamesClash(file, language) ==
  \/ ~Distinct(StructNames(file))
  \/ \E s \in Structs(file) : ReaderLosesName(s, language)

RustPanics(file) ==
  \E f \in Fields(file) : SerializerPanics(f.type) \/ DeserializerPanics(f.type)

\* How a generator run ends: with code that works as a program, with code that
\* does not, or with a panic.
Generated(file, language) ==
  IF language = "rust" /\ RustPanics(file) THEN "panicked"
  ELSE IF \/ NamesClash(file, language)
          \/ language = "rust" /\ \E f \in Fields(file) : RustIllTyped(f)
    THEN "broken" ELSE "code"

-----------------------------------------------------------------------------
(* Writers                                                                 *)

\* The Arrow type of a field, with the nullability of what it contains: the
\* three languages differ there.  As the functions call themselves, they are
\* given what they make of the contained types.
RustRule(type, Inner(_)) ==
  CASE type.kind \in {"bytes", "tensor"} -> [kind |-> "binary"]
    [] type.kind \in ScalarKinds \ {"bytes"} -> [kind |-> type.kind]
    [] type.kind = "list"     -> [kind |-> "list", of |-> Inner(type.of),
                                  nullable |-> TRUE]
    [] type.kind = "optional" -> Inner(type.of)
    [] type.kind = "map"      -> [kind |-> "map", key |-> Inner(type.key),
                                  val |-> Inner(type.val), nullable |-> TRUE]

TsRule(type, Inner(_)) ==
  CASE type.kind = "list" -> [kind |-> "list", of |-> Inner(type.of),
                              nullable |-> type.of.kind = "optional"]
    [] type.kind = "optional" -> Inner(type.of)
    [] type.kind = "map"  -> [kind |-> "map", key |-> Inner(type.key),
                              val |-> Inner(type.val), nullable |-> FALSE]
    [] OTHER              -> RustRule(type, Inner)

\* An accepted type is a leaf in at most two containers.
TooDeep(type) == [kind |-> "none"]
RustLeaf(type) == RustRule(type, TooDeep)
RustNested(type) == RustRule(type, RustLeaf)
RustArrow(type) == RustRule(type, RustNested)

TsLeaf(type) == TsRule(type, TooDeep)
TsNested(type) == TsRule(type, TsLeaf)
TsArrow(type) == TsRule(type, TsNested)

\* pyarrow's list and map constructors: items and values are nullable.
PyArrow(type) == RustArrow(type)

ArrowType(language, type) ==
  CASE language = "rust"       -> RustArrow(type)
    [] language = "python"     -> PyArrow(type)
    [] language = "typescript" -> TsArrow(type)

\* The tensor a field's metadata describes: the field itself, or what it
\* directly contains.
TensorOf(type) ==
  IF type.kind = "tensor" THEN type
  ELSE IF type.kind \in {"list", "optional"} /\ type.of.kind = "tensor"
    THEN type.of ELSE Scalar("none")

\* In the shape on the wire 0 stands for a dynamic dimension.
Shape(tensor) ==
  [dtype |-> tensor.dtype,
   dims  |-> [i \in 1..Len(tensor.dims) |->
                IF tensor.dims[i] = Dynamic THEN 0 ELSE tensor.dims[i]]]

\* emit_schema_field, emit_tensor_field_metadata
FieldShape(type) ==
  IF TensorOf(type).kind = "tensor" THEN Shape(TensorOf(type)) ELSE NoShape

Column(language, field, cell) ==
  [type |-> ArrowType(language, field.type), shape |-> FieldShape(field.type),
   cell |-> cell]

\* to_arrow_ipc, to_ipc, toIpc: one row, and metadata that names the struct.
Written(language, file, skill, direction, cells) ==
  LET fields == file.skills[skill][direction].fields
  IN [id        |-> file.skills[skill].id,
      version   |-> file.version,
      direction |-> direction,
      columns   |-> [n \in {fields[i].name : i \in 1..Len(fields)} |->
                       LET i == CHOOSE k \in 1..Len(fields) : fields[k].name = n
                       IN Column(language, fields[i], cells[i])]]

-----------------------------------------------------------------------------
(* Readers                                                                 *)

Refused == "refused"

\* What a reader may make of a field that has no column.
Missing(field) ==
  IF field.default # NoDefault THEN {"default"} ELSE {Refused}

\* Mutant: the sizes of fixed dimensions are not compared.
SameRank(type, shape) ==
  TensorOf(type).kind = "tensor" =>
    /\ shape.dtype = TensorOf(type).dtype
    /\ Len(shape.dims) = Len(TensorOf(type).dims)

\* The tensor metadata a reader insists on: element type, rank, fixed sizes.
ShapeMatches(type, shape) ==
  TensorOf(type).kind = "tensor" =>
    /\ shape.dtype = TensorOf(type).dtype
    /\ Len(shape.dims) = Len(TensorOf(type).dims)
    /\ \A i \in 1..Len(shape.dims) :
         TensorOf(type).dims[i] \in {Dynamic, shape.dims[i]}

\* Rust downcasts the array of a column, and those it contains, to the type it
\* expects; nullability of what is contained plays no part.
SameRule(a, b, Inner(_, _)) ==
  /\ a.kind = b.kind
  /\ a.kind = "list" => Inner(a.of, b.of)
  /\ a.kind = "map" => Inner(a.key, b.key) /\ Inner(a.val, b.val)

\* The column of an accepted type contains leaves, optionals leaving no trace.
NotALeaf(a, b) == FALSE
SameLeaf(a, b) == SameRule(a, b, NotALeaf)
SameArrays(a, b) == SameRule(a, b, SameLeaf)

\* Mutants: Rust compares data types instead of downcasting; it looks at the
\* outermost array only.
SameDataType(a, b) == a = b
SameOutermost(a, b) == a.kind = b.kind

Downcasts(a, b) == SameArrays(a, b)

\* A null cell of an array that is read as if it had none.
Unchecked(cell) == IF cell = "null" THEN "zero" ELSE cell

RustReads(field, column) ==
  LET type == field.type
      typed == Downcasts(RustArrow(type), column.type)
  IN IF ~ShapeMatches(type, column.shape) THEN {Refused}
     ELSE IF type.kind = "optional"
       THEN IF column.cell = "null" THEN {"null"}
            ELSE IF typed THEN {column.cell} ELSE {Refused}
       ELSE IF typed THEN {Unchecked(column.cell)} ELSE {Refused}

\* Python compares the types of scalars, iterates over a list of tensors, makes
\* a dict of a map, and takes the rest as it comes.
PyReads(field, column) ==
  LET type == field.type
  IN IF ~ShapeMatches(type, column.shape) THEN {Refused}
     ELSE CASE type.kind \in ScalarKinds ->
                 IF column.type = PyArrow(type) THEN {column.cell} ELSE {Refused}
            [] type.kind = "list" /\ type.of.kind = "tensor" ->
                 IF column.type.kind = "list" /\ column.cell # "null"
                   THEN {column.cell} ELSE {Refused}
            [] type.kind = "map" ->
                 IF column.cell = "null" THEN {"zero"}
                 ELSE IF column.type.kind = "map" THEN {column.cell}
                 ELSE IF column.type.kind \in {"string", "binary", "list"}
                   THEN {column.cell, "zero", Refused}
                 ELSE {Refused}
            [] OTHER -> {column.cell}

\* TypeScript compares the types of scalars, makes an array of anything but
\* null where a list is due, and takes the rest as it comes.
TsReads(field, column) ==
  LET type == field.type
  IN IF ~ShapeMatches(type, column.shape) THEN {Refused}
     ELSE CASE type.kind \in ScalarKinds ->
                 IF column.type = TsArrow(type) THEN {column.cell} ELSE {Refused}
            [] type.kind = "list" ->
                 IF column.cell = "null" THEN {Refused}
                 ELSE IF column.type.kind \in Integral \cup Floating \cup {"bool"}
                   THEN {"zero"} ELSE {column.cell}
            [] OTHER -> {column.cell}

ReadsField(language, field, columns) ==
  IF field.name \notin DOMAIN columns THEN Missing(field)
  ELSE CASE language = "rust"       -> RustReads(field, columns[field.name])
         [] language = "python"     -> PyReads(field, columns[field.name])
         [] language = "typescript" -> TsReads(field, columns[field.name])

\* The metadata every reader compares first.
NamesStruct(message, file, skill, direction) ==
  /\ message.id = file.skills[skill].id
  /\ message.version = file.version
  /\ message.direction = direction

\* from_arrow_ipc, from_ipc, fromIpc: the cells that may be read, in the order
\* of the fields, or <<>> where the message may be refused.
Readings(language, file, skill, direction, message) ==
  LET fields == file.skills[skill][direction].fields
      cells == [i \in 1..Len(fields) |->
                  ReadsField(language, fields[i], message.columns)]
  IN {r \in [1..Len(fields) -> Cells] :
        /\ NamesStruct(message, file, skill, direction)
        /\ \A i \in 1..Len(fields) : r[i] \in cells[i]}
     \cup {r \in {<<>>} :
             \/ ~NamesStruct(message, file, skill, direction)
             \/ \E i \in 1..Len(fields) : Refused \in cells[i]}
=============================================================================
