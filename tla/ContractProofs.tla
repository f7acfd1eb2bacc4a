---------------------------- MODULE ContractProofs ----------------------------
(***************************************************************************)
(* Proofs about ContractExchange for any files and any types: what the     *)
(* validator accepts, what the generators make of it, and what a program   *)
(* built from one file reads of a message from a program built from        *)
(* another.                                                                *)
(***************************************************************************)
EXTENDS ContractExchange, TLAPS

-----------------------------------------------------------------------------
(* Accepted types                                                          *)

LeafKinds == ScalarKinds \cup {"tensor"}

\* The parts of a type are types.
LEMMA Parts ==
  ASSUME NEW t \in FieldType
  PROVE  /\ t.kind \in LeafKinds \cup {"list", "optional", "map"}
         /\ t.kind = "tensor" => t.dims \in Seq(Nat \cup {Dynamic})
         /\ t.kind \in {"list", "optional"} => t.of \in FieldType
         /\ t.kind = "map" => t.key \in FieldType /\ t.val \in FieldType
  BY TypesAssumption DEF LeafKinds, ScalarKinds, Integral, Floating

\* The kinds are different, and those of leaves are the leaves'.
LEMMA Kinds ==
  /\ "list" \notin LeafKinds /\ "optional" \notin LeafKinds /\ "map" \notin LeafKinds
  /\ "tensor" \notin ScalarKinds /\ ScalarKinds \subseteq LeafKinds
  /\ {"string", "bool"} \cup Integral \subseteq ScalarKinds
  BY DEF LeafKinds, ScalarKinds, Integral, Floating

\* What validate_field_type accepts, level by level, is what its own recursion
\* accepts: the definition stands for the recursive function on every type.
THEOREM ValidatorRecursion ==
  ASSUME NEW t \in FieldType
  PROVE  TypeAccepted(t) <=> TypeRule(t, TypeAccepted)
<1>1. CASE t.kind = "list"
  BY <1>1, Parts, Kinds
  DEF TypeAccepted, NestedAccepted, InnermostAccepted, TypeRule, Deeper,
      ElementAccepted, Leaf, LeafKinds
<1>2. CASE t.kind = "optional"
  BY <1>2, Parts, Kinds
  DEF TypeAccepted, NestedAccepted, InnermostAccepted, TypeRule, Deeper,
      InnerAccepted, Leaf, LeafKinds
<1>3. CASE t.kind \notin {"list", "optional"}
  BY <1>3, Parts DEF TypeAccepted, TypeRule, NestedAccepted
<1> QED
  BY <1>1, <1>2, <1>3

\* The forms an accepted type can have.
SoundLeaf(t) == Leaf(t) /\ (t.kind = "tensor" => TensorAccepted(t.dims))

LeafList(t) == t.kind = "list" /\ SoundLeaf(t.of)
OptionalList(t) == t.kind = "list" /\ t.of.kind = "optional" /\ SoundLeaf(t.of.of)
OptionalLeaf(t) == t.kind = "optional" /\ SoundLeaf(t.of)
ListOptional(t) == t.kind = "optional" /\ LeafList(t.of)
ScalarMap(t) == t.kind = "map" /\ MapAccepted(t.key, t.val)

Form(t) ==
  \/ SoundLeaf(t) \/ LeafList(t) \/ OptionalList(t)
  \/ OptionalLeaf(t) \/ ListOptional(t) \/ ScalarMap(t)

\* The validator accepts leaves, in at most one list and one optional, and maps of
\* scalars.
LEMMA AcceptedForms ==
  ASSUME NEW t \in FieldType, TypeAccepted(t)
  PROVE  Form(t)
<1>1. CASE t.kind \in LeafKinds
  BY <1>1, Kinds DEF TypeAccepted, TypeRule, Form, SoundLeaf, Leaf, LeafKinds
<1>2. CASE t.kind = "list"
  <2>1. ElementAccepted(t.of) /\ NestedAccepted(t.of) /\ t.of \in FieldType
    BY <1>2, Parts DEF TypeAccepted, TypeRule
  <2>2. CASE t.of.kind = "optional"
    <3>1. Leaf(t.of.of) /\ InnermostAccepted(t.of.of)
      BY <2>1, <2>2 DEF ElementAccepted, NestedAccepted, TypeRule
    <3>2. SoundLeaf(t.of.of)
      BY <3>1 DEF InnermostAccepted, TypeRule, SoundLeaf
    <3> QED
      BY <1>2, <2>2, <3>2 DEF Form, OptionalList
  <2>3. CASE t.of.kind # "optional"
    BY <1>2, <2>1, <2>3, Parts
    DEF ElementAccepted, NestedAccepted, TypeRule, Form, LeafList, SoundLeaf, Leaf,
        LeafKinds
  <2> QED
    BY <2>2, <2>3
<1>3. CASE t.kind = "optional"
  <2>1. InnerAccepted(t.of) /\ NestedAccepted(t.of) /\ t.of \in FieldType
    BY <1>3, Parts DEF TypeAccepted, TypeRule
  <2>2. CASE t.of.kind = "list"
    <3>1. Leaf(t.of.of) /\ InnermostAccepted(t.of.of)
      BY <2>1, <2>2 DEF InnerAccepted, NestedAccepted, TypeRule
    <3>2. SoundLeaf(t.of.of)
      BY <3>1 DEF InnermostAccepted, TypeRule, SoundLeaf
    <3> QED
      BY <1>3, <2>2, <3>2 DEF Form, ListOptional, LeafList
  <2>3. CASE t.of.kind # "list"
    BY <1>3, <2>1, <2>3, Parts
    DEF InnerAccepted, NestedAccepted, TypeRule, Form, OptionalLeaf, SoundLeaf, Leaf,
        LeafKinds
  <2> QED
    BY <2>2, <2>3
<1>4. CASE t.kind = "map"
  BY <1>4 DEF TypeAccepted, TypeRule, Form, ScalarMap
<1> QED
  BY <1>1, <1>2, <1>3, <1>4, Parts

-----------------------------------------------------------------------------
(* Arrow types                                                             *)

\* The column of a leaf, the same in every language.
LeafColumn(t) ==
  IF t.kind \in {"bytes", "tensor"} THEN [kind |-> "binary"] ELSE [kind |-> t.kind]

\* A leaf has that column at any depth.
LEMMA ColumnOfLeaf ==
  ASSUME NEW t, t.kind \in LeafKinds
  PROVE  /\ RustArrow(t) = LeafColumn(t) /\ RustNested(t) = LeafColumn(t)
         /\ RustLeaf(t) = LeafColumn(t)
         /\ TsArrow(t) = LeafColumn(t) /\ TsNested(t) = LeafColumn(t)
         /\ TsLeaf(t) = LeafColumn(t)
<1>1. t.kind # "list" /\ t.kind # "optional" /\ t.kind # "map"
  BY Kinds
<1>2. CASE t.kind \in {"bytes", "tensor"}
  <2>1. LeafColumn(t) = [kind |-> "binary"] /\ t.kind \notin ScalarKinds \ {"bytes"}
    BY <1>2, Kinds DEF LeafColumn
  <2>2. RustArrow(t) = LeafColumn(t) /\ RustNested(t) = LeafColumn(t)
    BY <1>2, <1>1, <2>1, Zenon DEF RustArrow, RustNested, RustRule
  <2>3. RustLeaf(t) = LeafColumn(t)
    BY <1>2, <1>1, <2>1, Zenon DEF RustLeaf, RustRule
  <2>4. TsArrow(t) = LeafColumn(t)
    BY <1>2, <1>1, <2>1, Zenon DEF TsArrow, TsRule, RustRule
  <2>5. TsNested(t) = LeafColumn(t) /\ TsLeaf(t) = LeafColumn(t)
    BY <1>2, <1>1, <2>1, Zenon DEF TsNested, TsLeaf, TsRule, RustRule
  <2> QED
    BY <2>2, <2>3, <2>4, <2>5
<1>3. CASE t.kind \notin {"bytes", "tensor"}
  <2>1. t.kind \in ScalarKinds \ {"bytes"}
    BY <1>3 DEF LeafKinds
  <2>s. LeafColumn(t) = [kind |-> t.kind]
    BY <1>3 DEF LeafColumn
  <2>2. RustArrow(t) = LeafColumn(t) /\ RustNested(t) = LeafColumn(t)
    BY <1>3, <1>1, <2>1, <2>s, Zenon DEF RustArrow, RustNested, RustRule
  <2>3. RustLeaf(t) = LeafColumn(t)
    BY <1>3, <1>1, <2>1, <2>s, Zenon DEF RustLeaf, RustRule
  <2>4. TsArrow(t) = LeafColumn(t)
    BY <1>3, <1>1, <2>1, <2>s, Zenon DEF TsArrow, TsRule, RustRule
  <2>5. TsNested(t) = LeafColumn(t) /\ TsLeaf(t) = LeafColumn(t)
    BY <1>3, <1>1, <2>1, <2>s, Zenon DEF TsNested, TsLeaf, TsRule, RustRule
  <2> QED
    BY <2>2, <2>3, <2>4, <2>5
<1> QED
  BY <1>2, <1>3
\* The column of a list of leaves.
LEMMA ColumnOfList ==
  ASSUME NEW t, t.kind = "list", t.of.kind \in LeafKinds
  PROVE  \E n \in BOOLEAN :
           /\ RustArrow(t) = [kind |-> "list", of |-> LeafColumn(t.of), nullable |-> TRUE]
           /\ RustNested(t) = RustArrow(t)
           /\ TsArrow(t) = [kind |-> "list", of |-> LeafColumn(t.of), nullable |-> n]
           /\ TsNested(t) = TsArrow(t)
<1>1. t.kind \notin {"bytes", "tensor"} /\ t.kind \notin ScalarKinds \ {"bytes"}
  BY Kinds
<1>2. /\ RustNested(t.of) = LeafColumn(t.of) /\ RustLeaf(t.of) = LeafColumn(t.of)
      /\ TsNested(t.of) = LeafColumn(t.of) /\ TsLeaf(t.of) = LeafColumn(t.of)
  BY ColumnOfLeaf
<1>3. t.kind # "optional" /\ t.kind # "map"
  OBVIOUS
<1>4. RustArrow(t) = [kind |-> "list", of |-> LeafColumn(t.of), nullable |-> TRUE]
  BY <1>1, <1>2, <1>3, Zenon DEF RustArrow, RustRule
<1>5. RustNested(t) = [kind |-> "list", of |-> LeafColumn(t.of), nullable |-> TRUE]
  BY <1>1, <1>2, <1>3, Zenon DEF RustNested, RustRule
<1>6. TsArrow(t) = [kind |-> "list", of |-> LeafColumn(t.of),
                    nullable |-> t.of.kind = "optional"]
  BY <1>2, <1>3, Zenon DEF TsArrow, TsRule
<1>7. TsNested(t) = [kind |-> "list", of |-> LeafColumn(t.of),
                     nullable |-> t.of.kind = "optional"]
  BY <1>2, <1>3, Zenon DEF TsNested, TsRule
<1> QED
  BY <1>4, <1>5, <1>6, <1>7

\* An optional leaves no trace in the column.
LEMMA ColumnOfOptional ==
  ASSUME NEW t, t.kind = "optional"
  PROVE  /\ RustArrow(t) = RustNested(t.of) /\ TsArrow(t) = TsNested(t.of)
         /\ RustNested(t) = RustLeaf(t.of) /\ TsNested(t) = TsLeaf(t.of)
<1>1. t.kind \notin {"bytes", "tensor"} /\ t.kind \notin ScalarKinds \ {"bytes"}
  BY Kinds
<1>2. t.kind # "list" /\ t.kind # "map"
  OBVIOUS
<1> QED
  BY <1>1, <1>2, Zenon DEF RustArrow, RustNested, TsArrow, TsNested, RustRule, TsRule

\* A list of optional leaves has the column of a list of leaves.
LEMMA ColumnOfOptionalList ==
  ASSUME NEW t, OptionalList(t)
  PROVE  \E n \in BOOLEAN :
           /\ RustArrow(t) = [kind |-> "list", of |-> LeafColumn(t.of.of), nullable |-> TRUE]
           /\ TsArrow(t) = [kind |-> "list", of |-> LeafColumn(t.of.of), nullable |-> n]
<1>1. t.kind = "list" /\ t.of.kind = "optional" /\ t.of.of.kind \in LeafKinds
  BY DEF OptionalList, SoundLeaf, Leaf, LeafKinds
<1>2. t.kind \notin {"bytes", "tensor"} /\ t.kind \notin ScalarKinds \ {"bytes"}
  BY <1>1, Kinds
<1>3. t.kind # "optional" /\ t.kind # "map"
  BY <1>1
<1>4. RustNested(t.of) = LeafColumn(t.of.of) /\ TsNested(t.of) = LeafColumn(t.of.of)
  BY <1>1, ColumnOfOptional, ColumnOfLeaf
<1>5. RustArrow(t) = [kind |-> "list", of |-> LeafColumn(t.of.of), nullable |-> TRUE]
  BY <1>1, <1>2, <1>3, <1>4, Zenon DEF RustArrow, RustRule
<1>6. TsArrow(t) = [kind |-> "list", of |-> LeafColumn(t.of.of),
                    nullable |-> t.of.kind = "optional"]
  BY <1>1, <1>3, <1>4, Zenon DEF TsArrow, TsRule
<1> QED
  BY <1>5, <1>6

\* The column of a map of scalars.
LEMMA ColumnOfMap ==
  ASSUME NEW t, ScalarMap(t)
  PROVE  /\ RustArrow(t) = [kind |-> "map", key |-> LeafColumn(t.key),
                            val |-> LeafColumn(t.val), nullable |-> TRUE]
         /\ TsArrow(t) = [kind |-> "map", key |-> LeafColumn(t.key),
                          val |-> LeafColumn(t.val), nullable |-> FALSE]
<1>1. t.kind = "map" /\ t.key.kind \in LeafKinds /\ t.val.kind \in LeafKinds
  BY Kinds DEF ScalarMap, MapAccepted
<1>2. t.kind \notin {"bytes", "tensor"} /\ t.kind \notin ScalarKinds \ {"bytes"}
  BY <1>1, Kinds
<1>3. t.kind # "optional" /\ t.kind # "list"
  BY <1>1
<1>4. /\ RustNested(t.key) = LeafColumn(t.key) /\ RustNested(t.val) = LeafColumn(t.val)
      /\ TsNested(t.key) = LeafColumn(t.key) /\ TsNested(t.val) = LeafColumn(t.val)
  BY <1>1, ColumnOfLeaf
<1> QED
  BY <1>1, <1>2, <1>3, <1>4, Zenon DEF RustArrow, TsArrow, RustRule, TsRule

\* The Arrow types arrow_datatype and ts_arrow_datatype give an accepted type, level by
\* level, are what their own recursion gives it.
THEOREM GeneratorRecursion ==
  ASSUME NEW t \in FieldType, TypeAccepted(t)
  PROVE  /\ RustArrow(t) = RustRule(t, RustArrow)
         /\ TsArrow(t) = TsRule(t, TsArrow)
<1>1. ASSUME NEW x, x.kind \in LeafKinds
      PROVE  RustNested(x) = RustArrow(x) /\ TsNested(x) = TsArrow(x)
  BY <1>1, ColumnOfLeaf
<1>2. CASE t.kind \in LeafKinds
  <2>1. t.kind # "list" /\ t.kind # "optional" /\ t.kind # "map"
    BY <1>2, Kinds
  <2>2. RustArrow(t) = RustRule(t, RustArrow)
    <3>1. CASE t.kind \in {"bytes", "tensor"}
      <4>1. t.kind \notin ScalarKinds \ {"bytes"}
        BY <3>1, Kinds
      <4> QED
        BY <2>1, <3>1, <4>1, Zenon DEF RustArrow, RustRule
    <3>2. CASE t.kind \notin {"bytes", "tensor"}
      <4>1. t.kind \in ScalarKinds \ {"bytes"}
        BY <1>2, <3>2 DEF LeafKinds
      <4> QED
        BY <2>1, <3>2, <4>1, Zenon DEF RustArrow, RustRule
    <3> QED
      BY <3>1, <3>2
  <2>3. TsArrow(t) = TsRule(t, TsArrow)
    <3>1. CASE t.kind \in {"bytes", "tensor"}
      <4>1. t.kind \notin ScalarKinds \ {"bytes"}
        BY <3>1, Kinds
      <4> QED
        BY <2>1, <3>1, <4>1, Zenon DEF TsArrow, TsRule, RustRule
    <3>2. CASE t.kind \notin {"bytes", "tensor"}
      <4>1. t.kind \in ScalarKinds \ {"bytes"}
        BY <1>2, <3>2 DEF LeafKinds
      <4> QED
        BY <2>1, <3>2, <4>1, Zenon DEF TsArrow, TsRule, RustRule
    <3> QED
      BY <3>1, <3>2
  <2> QED
    BY <2>2, <2>3
<1>3. Form(t)
  BY AcceptedForms
<1>4. CASE t.kind = "list"
  <2>1. /\ t.kind \notin {"bytes", "tensor"} /\ t.kind \notin ScalarKinds \ {"bytes"}
        /\ t.kind # "optional" /\ t.kind # "map"
    BY <1>4, Kinds
  <2>2. RustNested(t.of) = RustArrow(t.of) /\ TsNested(t.of) = TsArrow(t.of)
    <3>1. \/ t.of.kind \in LeafKinds
          \/ t.of.kind = "optional" /\ t.of.of.kind \in LeafKinds
      BY <1>3, <1>4, Kinds
      DEF Form, SoundLeaf, Leaf, LeafList, OptionalList, OptionalLeaf, ListOptional,
          ScalarMap, LeafKinds
    <3>2. CASE t.of.kind = "optional" /\ t.of.of.kind \in LeafKinds
      <4>1. /\ RustArrow(t.of) = RustNested(t.of.of) /\ TsArrow(t.of) = TsNested(t.of.of)
            /\ RustNested(t.of) = RustLeaf(t.of.of) /\ TsNested(t.of) = TsLeaf(t.of.of)
        BY <3>2, ColumnOfOptional
      <4> QED
        BY <3>2, <4>1, ColumnOfLeaf
    <3> QED
      BY <1>1, <3>1, <3>2
  <2>3. RustArrow(t) = RustRule(t, RustArrow)
    <3>1. RustArrow(t) = [kind |-> "list", of |-> RustNested(t.of), nullable |-> TRUE]
      BY <1>4, <2>1, Zenon DEF RustArrow, RustRule
    <3>2. RustRule(t, RustArrow) = [kind |-> "list", of |-> RustArrow(t.of), nullable |-> TRUE]
      BY <1>4, <2>1, Zenon DEF RustRule
    <3> QED
      BY <2>2, <3>1, <3>2, Zenon
  <2>4. TsArrow(t) = TsRule(t, TsArrow)
    <3>1. TsArrow(t) = [kind |-> "list", of |-> TsNested(t.of),
                        nullable |-> t.of.kind = "optional"]
      BY <1>4, <2>1, Zenon DEF TsArrow, TsRule
    <3>2. TsRule(t, TsArrow) = [kind |-> "list", of |-> TsArrow(t.of),
                                nullable |-> t.of.kind = "optional"]
      BY <1>4, <2>1, Zenon DEF TsRule
    <3> QED
      BY <2>2, <3>1, <3>2, Zenon
  <2> QED
    BY <2>3, <2>4
<1>5. CASE t.kind = "optional"
  <2>1. /\ t.kind \notin {"bytes", "tensor"} /\ t.kind \notin ScalarKinds \ {"bytes"}
        /\ t.kind # "list" /\ t.kind # "map"
    BY <1>5, Kinds
  <2>2. RustNested(t.of) = RustArrow(t.of) /\ TsNested(t.of) = TsArrow(t.of)
    <3>1. \/ t.of.kind \in LeafKinds
          \/ t.of.kind = "list" /\ t.of.of.kind \in LeafKinds
      BY <1>3, <1>5, Kinds
      DEF Form, SoundLeaf, Leaf, LeafList, OptionalList, OptionalLeaf, ListOptional,
          ScalarMap, LeafKinds
    <3> QED
      BY <1>1, <3>1, ColumnOfList
  <2>3. RustRule(t, RustArrow) = RustArrow(t.of)
    BY <1>5, <2>1, Zenon DEF RustRule
  <2>4. TsRule(t, TsArrow) = TsArrow(t.of)
    BY <1>5, <2>1, Zenon DEF TsRule
  <2> QED
    BY <1>5, <2>2, <2>3, <2>4, ColumnOfOptional
<1>6. CASE t.kind = "map"
  <2>1. /\ t.kind \notin {"bytes", "tensor"} /\ t.kind \notin ScalarKinds \ {"bytes"}
        /\ t.kind # "list" /\ t.kind # "optional"
    BY <1>6, Kinds
  <2>2. ScalarMap(t)
    BY <1>3, <1>6, Kinds
    DEF Form, SoundLeaf, Leaf, LeafList, OptionalList, OptionalLeaf, ListOptional, LeafKinds
  <2>3. /\ RustArrow(t.key) = LeafColumn(t.key) /\ RustArrow(t.val) = LeafColumn(t.val)
        /\ TsArrow(t.key) = LeafColumn(t.key) /\ TsArrow(t.val) = LeafColumn(t.val)
    BY <2>2, Kinds, ColumnOfLeaf DEF ScalarMap, MapAccepted
  <2>4. RustRule(t, RustArrow) = [kind |-> "map", key |-> RustArrow(t.key),
                                  val |-> RustArrow(t.val), nullable |-> TRUE]
    BY <1>6, <2>1, Zenon DEF RustRule
  <2>5. TsRule(t, TsArrow) = [kind |-> "map", key |-> TsArrow(t.key),
                              val |-> TsArrow(t.val), nullable |-> FALSE]
    BY <1>6, <2>1, Zenon DEF TsRule
  <2> QED
    BY <2>2, <2>3, <2>4, <2>5, ColumnOfMap
<1> QED
  BY <1>2, <1>4, <1>5, <1>6, Parts

\* The columns of leaves.
LeafColumns == {[kind |-> k] : k \in LeafKinds \cup {"binary"}}

\* The column of a list of c, and of a map from k to v.
ListColumn(c, n) == [kind |-> "list", of |-> c, nullable |-> n]
MapColumn(k, v, n) == [kind |-> "map", key |-> k, val |-> v, nullable |-> n]

\* The column of a leaf contains nothing.
LEMMA LeafColumnsKind ==
  /\ \A c \in LeafColumns : c.kind # "list" /\ c.kind # "map" /\ c = [kind |-> c.kind]
  /\ \A t : t.kind \in LeafKinds => LeafColumn(t) \in LeafColumns
<1>1. ASSUME NEW c \in LeafColumns
      PROVE  c.kind # "list" /\ c.kind # "map" /\ c = [kind |-> c.kind]
  <2>1. PICK k \in LeafKinds \cup {"binary"} : c = [kind |-> k]
    BY DEF LeafColumns
  <2> QED
    BY <2>1, Kinds
<1>2. ASSUME NEW t, t.kind \in LeafKinds
      PROVE  LeafColumn(t) \in LeafColumns
  BY <1>2 DEF LeafColumn, LeafColumns
<1> QED
  BY <1>1, <1>2

\* Two columns that differ at most in what may be null.
SameButNulls(a, b) ==
  \/ a \in LeafColumns /\ b = a
  \/ \E c \in LeafColumns : \E m, n \in BOOLEAN : a = ListColumn(c, m) /\ b = ListColumn(c, n)
  \/ \E k, v \in LeafColumns : \E m, n \in BOOLEAN :
       a = MapColumn(k, v, m) /\ b = MapColumn(k, v, n)

\* Whatever the language of the writer, its column is the reader's but for nulls.
LEMMA ColumnsOfType ==
  ASSUME NEW t, Form(t), NEW l \in Languages
  PROVE  SameButNulls(RustArrow(t), ArrowType(l, t))
<1>1. ArrowType(l, t) \in {RustArrow(t), TsArrow(t)}
  <2>1. l = "rust" \/ l = "python" \/ l = "typescript"
    BY DEF Languages
  <2>2. ASSUME l = "rust" PROVE ArrowType(l, t) = RustArrow(t)
    BY <2>2, Zenon DEF ArrowType
  <2>3. ASSUME l = "python" PROVE ArrowType(l, t) = RustArrow(t)
    BY <2>3, Zenon DEF ArrowType, PyArrow
  <2>4. ASSUME l = "typescript" PROVE ArrowType(l, t) = TsArrow(t)
    BY <2>4, Zenon DEF ArrowType
  <2> QED
    BY <2>1, <2>2, <2>3, <2>4
<1>2. SameButNulls(RustArrow(t), RustArrow(t)) /\ SameButNulls(RustArrow(t), TsArrow(t))
  <2>1. CASE SoundLeaf(t)
    <3>1. RustArrow(t) = LeafColumn(t) /\ TsArrow(t) = LeafColumn(t)
          /\ LeafColumn(t) \in LeafColumns
      BY <2>1, ColumnOfLeaf, LeafColumnsKind DEF SoundLeaf, Leaf, LeafKinds
    <3> QED
      BY <3>1 DEF SameButNulls
  <2>2. ASSUME NEW o, o.kind \in LeafKinds,
               RustArrow(t) = [kind |-> "list", of |-> LeafColumn(o), nullable |-> TRUE],
               NEW n \in BOOLEAN,
               TsArrow(t) = [kind |-> "list", of |-> LeafColumn(o), nullable |-> n]
        PROVE  SameButNulls(RustArrow(t), RustArrow(t))
               /\ SameButNulls(RustArrow(t), TsArrow(t))
    <3>1. LeafColumn(o) \in LeafColumns
      BY <2>2, LeafColumnsKind
    <3>2. /\ RustArrow(t) = ListColumn(LeafColumn(o), TRUE)
          /\ TsArrow(t) = ListColumn(LeafColumn(o), n)
      BY <2>2 DEF ListColumn
    <3> QED
      BY <3>1, <3>2, Zenon DEF SameButNulls
  <2>3. CASE LeafList(t)
    <3>1. t.kind = "list" /\ t.of.kind \in LeafKinds
      BY <2>3 DEF LeafList, SoundLeaf, Leaf, LeafKinds
    <3> QED
      BY <3>1, <2>2, ColumnOfList
  <2>4. CASE OptionalList(t)
    <3>1. t.of.of.kind \in LeafKinds
      BY <2>4 DEF OptionalList, SoundLeaf, Leaf, LeafKinds
    <3> QED
      BY <2>4, <3>1, <2>2, ColumnOfOptionalList
  <2>5. CASE OptionalLeaf(t)
    <3>1. t.kind = "optional" /\ t.of.kind \in LeafKinds
      BY <2>5 DEF OptionalLeaf, SoundLeaf, Leaf, LeafKinds
    <3>2. RustArrow(t) = LeafColumn(t.of) /\ TsArrow(t) = LeafColumn(t.of)
          /\ LeafColumn(t.of) \in LeafColumns
      BY <3>1, ColumnOfLeaf, ColumnOfOptional, LeafColumnsKind
    <3> QED
      BY <3>2 DEF SameButNulls
  <2>6. CASE ListOptional(t)
    <3>1. t.kind = "optional" /\ t.of.kind = "list" /\ t.of.of.kind \in LeafKinds
      BY <2>6 DEF ListOptional, LeafList, SoundLeaf, Leaf, LeafKinds
    <3>2. RustArrow(t) = RustNested(t.of) /\ TsArrow(t) = TsNested(t.of)
      BY <3>1, ColumnOfOptional
    <3> QED
      BY <3>1, <3>2, <2>2, ColumnOfList
  <2>7. CASE ScalarMap(t)
    <3>1. LeafColumn(t.key) \in LeafColumns /\ LeafColumn(t.val) \in LeafColumns
      BY <2>7, Kinds, LeafColumnsKind DEF ScalarMap, MapAccepted
    <3>2. /\ RustArrow(t) = MapColumn(LeafColumn(t.key), LeafColumn(t.val), TRUE)
          /\ TsArrow(t) = MapColumn(LeafColumn(t.key), LeafColumn(t.val), FALSE)
      BY <2>7, ColumnOfMap DEF MapColumn
    <3> QED
      BY <3>1, <3>2, Zenon DEF SameButNulls
  <2> QED
    BY <2>1, <2>3, <2>4, <2>5, <2>6, <2>7 DEF Form
<1> QED
  BY <1>1, <1>2

\* Those of leaves do not differ.
LEMMA LeavesAlike ==
  ASSUME NEW a, NEW b, SameButNulls(a, b), a.kind # "list", a.kind # "map"
  PROVE  a \in LeafColumns /\ b = a
<1>1. \A c, n : ListColumn(c, n).kind = "list"
  BY DEF ListColumn
<1>2. \A k, v, n : MapColumn(k, v, n).kind = "map"
  BY DEF MapColumn
<1> QED
  BY <1>1, <1>2 DEF SameButNulls

\* A downcast does not tell columns apart that differ only in what may be null.
LEMMA DowncastIgnoresNulls ==
  ASSUME NEW a, NEW b, SameButNulls(a, b), NEW x
  PROVE  /\ SameArrays(x, b) <=> SameArrays(x, a)
         /\ SameArrays(a, b)
         /\ b.kind = a.kind
<1>1. CASE a \in LeafColumns /\ b = a
  BY <1>1, LeafColumnsKind DEF SameArrays, SameRule
<1>2. ASSUME NEW c \in LeafColumns, NEW m \in BOOLEAN, NEW n \in BOOLEAN,
             a = ListColumn(c, m), b = ListColumn(c, n)
      PROVE  /\ SameArrays(x, b) <=> SameArrays(x, a)
             /\ SameArrays(a, b) /\ b.kind = a.kind
  <2>1. a.kind = "list" /\ b.kind = "list" /\ a.of = c /\ b.of = c
    BY <1>2 DEF ListColumn
  <2>2. c.kind # "list" /\ c.kind # "map"
    BY LeafColumnsKind
  <2> QED
    BY <2>1, <2>2 DEF SameArrays, SameLeaf, SameRule
<1>3. ASSUME NEW k \in LeafColumns, NEW v \in LeafColumns,
             NEW m \in BOOLEAN, NEW n \in BOOLEAN,
             a = MapColumn(k, v, m), b = MapColumn(k, v, n)
      PROVE  /\ SameArrays(x, b) <=> SameArrays(x, a)
             /\ SameArrays(a, b) /\ b.kind = a.kind
  <2>1. /\ a.kind = "map" /\ b.kind = "map" /\ a.key = k /\ b.key = k
        /\ a.val = v /\ b.val = v
    BY <1>3 DEF MapColumn
  <2>2. k.kind # "list" /\ k.kind # "map" /\ v.kind # "list" /\ v.kind # "map"
    BY LeafColumnsKind
  <2> QED
    BY <2>1, <2>2 DEF SameArrays, SameLeaf, SameRule
<1> QED
  BY <1>1, <1>2, <1>3 DEF SameButNulls

\* The downcast of a field to the type it expects, two levels deep, is the downcast by
\* recursion.
LEMMA DowncastRecursion ==
  ASSUME NEW t, Form(t), NEW b
  PROVE  SameArrays(RustArrow(t), b) <=> SameRule(RustArrow(t), b, SameArrays)
<1> DEFINE a == RustArrow(t)
<1>1. SameButNulls(a, a)
  <2>1. "rust" \in Languages /\ ArrowType("rust", t) = a
    BY Zenon DEF Languages, ArrowType
  <2> QED
    BY <2>1, ColumnsOfType
<1>2. \A c \in LeafColumns : \A x : SameLeaf(c, x) <=> SameArrays(c, x)
  BY LeafColumnsKind DEF SameLeaf, SameArrays, SameRule
<1>3. /\ a.kind = "list" => a.of \in LeafColumns
      /\ a.kind = "map" => a.key \in LeafColumns /\ a.val \in LeafColumns
  BY <1>1, LeafColumnsKind DEF SameButNulls, ListColumn, MapColumn
<1>4. SameArrays(a, b) <=>
        /\ a.kind = b.kind
        /\ a.kind = "list" => SameLeaf(a.of, b.of)
        /\ a.kind = "map" => SameLeaf(a.key, b.key) /\ SameLeaf(a.val, b.val)
  BY DEF SameArrays, SameRule
<1>5. SameRule(a, b, SameArrays) <=>
        /\ a.kind = b.kind
        /\ a.kind = "list" => SameArrays(a.of, b.of)
        /\ a.kind = "map" => SameArrays(a.key, b.key) /\ SameArrays(a.val, b.val)
  BY Zenon DEF SameRule
<1> HIDE DEF a
<1> QED
  BY <1>2, <1>3, <1>4, <1>5 DEF a

-----------------------------------------------------------------------------
(* Tensor metadata                                                         *)

\* The tensor an accepted field describes has dimensions, none of them zero.
LEMMA TensorDescribed ==
  ASSUME NEW t \in FieldType, Form(t), TensorOf(t).kind = "tensor"
  PROVE  /\ TensorOf(t).dims \in Seq(Nat \cup {Dynamic})
         /\ TensorAccepted(TensorOf(t).dims)
<1>1. CASE t.kind = "tensor"
  BY <1>1, Parts DEF Form, SoundLeaf, LeafList, OptionalList, OptionalLeaf, ListOptional,
                     ScalarMap, TensorOf
<1>2. CASE t.kind # "tensor"
  <2>1. /\ t.kind \in {"list", "optional"} /\ t.of.kind = "tensor" /\ TensorOf(t) = t.of
    BY <1>2 DEF TensorOf, Scalar
  <2>2. t.of \in FieldType
    BY <2>1, Parts
  <2>3. SoundLeaf(t.of)
    BY <2>1, Kinds
    DEF Form, SoundLeaf, LeafList, OptionalList, OptionalLeaf, ListOptional, ScalarMap, Leaf,
        LeafKinds
  <2> QED
    BY <2>1, <2>2, <2>3, Parts DEF SoundLeaf
<1> QED
  BY <1>1, <1>2

\* The dimensions on the wire.
LEMMA ShapeOf ==
  ASSUME NEW w, w.dims \in Seq(Nat \cup {Dynamic})
  PROVE  /\ Shape(w).dtype = w.dtype
         /\ Shape(w).dims \in Seq(Nat) /\ Len(Shape(w).dims) = Len(w.dims)
         /\ \A i \in 1..Len(w.dims) :
              Shape(w).dims[i] = IF w.dims[i] = Dynamic THEN 0 ELSE w.dims[i]
<1> DEFINE d == w.dims
           z == [i \in 1..Len(d) |-> IF d[i] = Dynamic THEN 0 ELSE d[i]]
<1>1. Shape(w).dtype = w.dtype /\ Shape(w).dims = z
  BY DEF Shape
<1>2. Len(d) \in Nat /\ \A i \in 1..Len(d) : d[i] \in Nat \cup {Dynamic}
  OBVIOUS
<1> HIDE DEF d
<1>3. z \in Seq(Nat) /\ Len(z) = Len(d)
  BY <1>2
<1> QED
  BY <1>1, <1>3 DEF d

\* A field insists on no more than its own metadata says.
LEMMA OwnShapeMatches ==
  ASSUME NEW t \in FieldType, Form(t)
  PROVE  ShapeMatches(t, FieldShape(t))
<1> SUFFICES ASSUME TensorOf(t).kind = "tensor"
             PROVE  ShapeMatches(t, FieldShape(t))
  BY DEF ShapeMatches
<1> DEFINE w == TensorOf(t)
<1>1. FieldShape(t) = Shape(w)
  BY DEF FieldShape
<1>2. /\ Shape(w).dtype = w.dtype
      /\ Shape(w).dims \in Seq(Nat) /\ Len(Shape(w).dims) = Len(w.dims)
      /\ \A i \in 1..Len(w.dims) :
           Shape(w).dims[i] = IF w.dims[i] = Dynamic THEN 0 ELSE w.dims[i]
  BY TensorDescribed, ShapeOf
<1> QED
  BY <1>1, <1>2 DEF ShapeMatches

\* What matches has the element type, the rank and the fixed dimensions.
LEMMA MatchedShape ==
  ASSUME NEW t \in FieldType, Form(t), NEW w \in FieldType, Form(w),
         ShapeMatches(t, FieldShape(w))
  PROVE  SameTensor(TensorOf(t), TensorOf(w))
<1> SUFFICES ASSUME TensorOf(t).kind = "tensor"
             PROVE  SameTensor(TensorOf(t), TensorOf(w))
  BY DEF SameTensor
<1> DEFINE r == TensorOf(t).dims
           s == FieldShape(w)
<1>1. /\ s.dtype = TensorOf(t).dtype /\ Len(s.dims) = Len(r)
      /\ \A i \in 1..Len(s.dims) : r[i] = Dynamic \/ r[i] = s.dims[i]
  BY DEF ShapeMatches
<1>2. /\ r \in Seq(Nat \cup {Dynamic}) /\ r # <<>> /\ Len(r) \in Nat
      /\ \A i \in 1..Len(r) : r[i] # 0
  BY TensorDescribed DEF TensorAccepted
<1>3. Len(r) # 0
  BY <1>2
<1>4. TensorOf(w).kind = "tensor"
  <2>1. SUFFICES ASSUME TensorOf(w).kind # "tensor" PROVE FALSE
    OBVIOUS
  <2>2. s = NoShape
    BY <2>1 DEF FieldShape
  <2>3. Len(s.dims) = 0
    BY <2>2 DEF NoShape
  <2> QED
    BY <1>1, <1>3, <2>3
<1>5. s = Shape(TensorOf(w))
  BY <1>4 DEF FieldShape
<1> DEFINE d == TensorOf(w).dims
<1>6. /\ s.dtype = TensorOf(w).dtype /\ Len(s.dims) = Len(d)
      /\ \A i \in 1..Len(d) : s.dims[i] = IF d[i] = Dynamic THEN 0 ELSE d[i]
  BY <1>4, <1>5, TensorDescribed, ShapeOf
<1> HIDE DEF r, s, d
<1>7. \A i \in 1..Len(r) : r[i] = Dynamic \/ d[i] = r[i]
  BY <1>1, <1>2, <1>6
<1> QED
  BY <1>1, <1>4, <1>6, <1>7 DEF SameTensor, r, d

-----------------------------------------------------------------------------
(* Readers                                                                 *)

\* What from_arrow_ipc makes of a column, case by case.
LEMMA RustCases ==
  ASSUME NEW f, NEW c
  PROVE  LET typed == SameArrays(RustArrow(f.type), c.type)
         IN  /\ ~ShapeMatches(f.type, c.shape) => RustReads(f, c) = {Refused}
             /\ ShapeMatches(f.type, c.shape) =>
                 /\ f.type.kind = "optional" /\ c.cell = "null" => RustReads(f, c) = {"null"}
                 /\ f.type.kind = "optional" /\ c.cell # "null" /\ typed
                      => RustReads(f, c) = {c.cell}
                 /\ f.type.kind = "optional" /\ c.cell # "null" /\ ~typed
                      => RustReads(f, c) = {Refused}
                 /\ f.type.kind # "optional" /\ typed => RustReads(f, c) = {Unchecked(c.cell)}
                 /\ f.type.kind # "optional" /\ ~typed => RustReads(f, c) = {Refused}
  BY Zenon DEF RustReads, Downcasts

\* from_ipc, case by case.
LEMMA PyCases ==
  ASSUME NEW f, NEW c
  PROVE  /\ ~ShapeMatches(f.type, c.shape) => PyReads(f, c) = {Refused}
         /\ ShapeMatches(f.type, c.shape) =>
             /\ f.type.kind \in ScalarKinds =>
                  PyReads(f, c) = IF c.type = RustArrow(f.type) THEN {c.cell} ELSE {Refused}
             /\ f.type.kind = "list" /\ f.type.of.kind = "tensor" =>
                  PyReads(f, c) = IF c.type.kind = "list" /\ c.cell # "null"
                                    THEN {c.cell} ELSE {Refused}
             /\ f.type.kind = "map" /\ c.cell # "null" /\ c.type.kind = "map" =>
                  PyReads(f, c) = {c.cell}
             /\ f.type.kind \notin ScalarKinds /\ f.type.kind # "map"
                  /\ ~(f.type.kind = "list" /\ f.type.of.kind = "tensor") =>
                  PyReads(f, c) = {c.cell}
<1>1. /\ "list" \notin ScalarKinds /\ "map" \notin ScalarKinds /\ "list" # "map"
  BY Kinds
<1>2. ~ShapeMatches(f.type, c.shape) => PyReads(f, c) = {Refused}
  BY Zenon DEF PyReads
<1>3. ASSUME ShapeMatches(f.type, c.shape), f.type.kind \in ScalarKinds
      PROVE  PyReads(f, c) = IF c.type = RustArrow(f.type) THEN {c.cell} ELSE {Refused}
  <2>1. f.type.kind # "list" /\ f.type.kind # "map"
    BY <1>1, <1>3
  <2> QED
    BY <1>3, <2>1, Zenon DEF PyReads, PyArrow
<1>4. ASSUME ShapeMatches(f.type, c.shape), f.type.kind = "list", f.type.of.kind = "tensor"
      PROVE  PyReads(f, c) = IF c.type.kind = "list" /\ c.cell # "null"
                                THEN {c.cell} ELSE {Refused}
  <2>1. f.type.kind \notin ScalarKinds /\ f.type.kind # "map"
    BY <1>1, <1>4
  <2> QED
    BY <1>4, <2>1, Zenon DEF PyReads
<1>5. ASSUME ShapeMatches(f.type, c.shape), f.type.kind = "map", c.cell # "null",
             c.type.kind = "map"
      PROVE  PyReads(f, c) = {c.cell}
  <2>1. f.type.kind \notin ScalarKinds /\ f.type.kind # "list"
    BY <1>1, <1>5
  <2> QED
    BY <1>5, <2>1, Zenon DEF PyReads
<1>6. ASSUME ShapeMatches(f.type, c.shape), f.type.kind \notin ScalarKinds,
             f.type.kind # "map", ~(f.type.kind = "list" /\ f.type.of.kind = "tensor")
      PROVE  PyReads(f, c) = {c.cell}
  BY <1>6, Zenon DEF PyReads
<1> QED
  BY <1>2, <1>3, <1>4, <1>5, <1>6, Zenon

\* fromIpc, case by case.
LEMMA TsCases ==
  ASSUME NEW f, NEW c
  PROVE  /\ ~ShapeMatches(f.type, c.shape) => TsReads(f, c) = {Refused}
         /\ ShapeMatches(f.type, c.shape) =>
             /\ f.type.kind \in ScalarKinds =>
                  TsReads(f, c) = IF c.type = TsArrow(f.type) THEN {c.cell} ELSE {Refused}
             /\ f.type.kind = "list" /\ c.cell # "null" /\ c.type.kind = "list" =>
                  TsReads(f, c) = {c.cell}
             /\ f.type.kind \notin ScalarKinds /\ f.type.kind # "list" =>
                  TsReads(f, c) = {c.cell}
<1>1. "list" \notin ScalarKinds /\ "list" \notin Integral \cup Floating \cup {"bool"}
  BY DEF ScalarKinds, Integral, Floating
<1>2. ~ShapeMatches(f.type, c.shape) => TsReads(f, c) = {Refused}
  BY Zenon DEF TsReads
<1>3. ASSUME ShapeMatches(f.type, c.shape), f.type.kind \in ScalarKinds
      PROVE  TsReads(f, c) = IF c.type = TsArrow(f.type) THEN {c.cell} ELSE {Refused}
  <2>1. f.type.kind # "list"
    BY <1>1, <1>3
  <2> QED
    BY <1>3, <2>1, Zenon DEF TsReads
<1>4. ASSUME ShapeMatches(f.type, c.shape), f.type.kind = "list", c.cell # "null",
             c.type.kind = "list"
      PROVE  TsReads(f, c) = {c.cell}
  <2>1. f.type.kind \notin ScalarKinds
        /\ c.type.kind \notin Integral \cup Floating \cup {"bool"}
    BY <1>1, <1>4
  <2> QED
    BY <1>4, <2>1, Zenon DEF TsReads
<1>5. ASSUME ShapeMatches(f.type, c.shape), f.type.kind \notin ScalarKinds,
             f.type.kind # "list"
      PROVE  TsReads(f, c) = {c.cell}
  BY <1>5, Zenon DEF TsReads
<1> QED
  BY <1>2, <1>3, <1>4, <1>5, Zenon

\* Each language has its reader.
LEMMA ReaderOf ==
  ASSUME NEW f, NEW columns, f.name \in DOMAIN columns
  PROVE  /\ ReadsField("rust", f, columns) = RustReads(f, columns[f.name])
         /\ ReadsField("python", f, columns) = PyReads(f, columns[f.name])
         /\ ReadsField("typescript", f, columns) = TsReads(f, columns[f.name])
<1>1. ReadsField("rust", f, columns) = RustReads(f, columns[f.name])
  BY Zenon DEF ReadsField
<1>2. ReadsField("python", f, columns) = PyReads(f, columns[f.name])
  BY Zenon DEF ReadsField
<1>3. ReadsField("typescript", f, columns) = TsReads(f, columns[f.name])
  BY Zenon DEF ReadsField
<1> QED
  BY <1>1, <1>2, <1>3

\* The columns a writer may put on the wire, for a field of one of the types.
WrittenFor(c, w) ==
  /\ SameButNulls(RustArrow(w), c.type)
  /\ c.shape = FieldShape(w)
  /\ c.cell \in {"value", "null"}
  /\ c.cell = "null" => w.kind = "optional"

\* A column of its own type is read as it was written, in every language.
LEMMA OwnColumnRead ==
  ASSUME NEW f, f.type \in FieldType, Form(f.type), NEW l \in Languages,
         NEW columns, f.name \in DOMAIN columns, WrittenFor(columns[f.name], f.type)
  PROVE  ReadsField(l, f, columns) = {columns[f.name].cell}
<1> DEFINE t == f.type
           c == columns[f.name]
<1>1. ShapeMatches(t, c.shape)
  BY OwnShapeMatches DEF WrittenFor
<1>2. SameArrays(RustArrow(t), c.type) /\ c.type.kind = RustArrow(t).kind
  BY DowncastIgnoresNulls DEF WrittenFor
<1>3. c.cell \in {"value", "null"} /\ (c.cell = "null" => t.kind = "optional")
  BY DEF WrittenFor
<1>4. ASSUME t.kind \in LeafKinds
      PROVE  /\ c.type = LeafColumn(t) /\ RustArrow(t) = LeafColumn(t)
             /\ TsArrow(t) = LeafColumn(t)
  <2>1. RustArrow(t) = LeafColumn(t) /\ TsArrow(t) = LeafColumn(t)
        /\ LeafColumn(t) \in LeafColumns
    BY <1>4, ColumnOfLeaf, LeafColumnsKind
  <2>2. RustArrow(t).kind # "list" /\ RustArrow(t).kind # "map"
    BY <2>1, LeafColumnsKind
  <2>3. SameButNulls(RustArrow(t), c.type)
    BY DEF WrittenFor
  <2>4. c.type = RustArrow(t)
    BY <2>2, <2>3, LeavesAlike
  <2> QED
    BY <2>1, <2>4
<1>5. ASSUME t.kind = "list"
      PROVE  c.type.kind = "list"
  <2>1. CASE LeafList(t)
    BY <1>2, <1>5, <2>1, ColumnOfList DEF LeafList, SoundLeaf, Leaf, LeafKinds
  <2>2. CASE OptionalList(t)
    BY <1>2, <2>2, ColumnOfOptionalList
  <2> QED
    BY <1>5, <2>1, <2>2, Kinds
    DEF Form, SoundLeaf, Leaf, OptionalLeaf, ListOptional, ScalarMap, LeafKinds
<1>6. ASSUME t.kind = "map"
      PROVE  c.type.kind = "map"
  <2>1. ScalarMap(t)
    BY <1>6, Kinds
    DEF Form, SoundLeaf, Leaf, LeafList, OptionalList, OptionalLeaf, ListOptional, LeafKinds
  <2> QED
    BY <1>2, <2>1, ColumnOfMap
<1>r. CASE l = "rust"
  <2>1. ReadsField(l, f, columns) = RustReads(f, c)
    BY <1>r, ReaderOf
  <2>2. CASE t.kind = "optional"
    BY <1>1, <1>2, <2>1, <2>2, RustCases
  <2>3. CASE t.kind # "optional"
    <3>1. Unchecked(c.cell) = c.cell
      BY <1>3, <2>3 DEF Unchecked
    <3> QED
      BY <1>1, <1>2, <2>1, <2>3, <3>1, RustCases
  <2> QED
    BY <2>2, <2>3
<1>p. CASE l = "python"
  <2>1. ReadsField(l, f, columns) = PyReads(f, c)
    BY <1>p, ReaderOf
  <2>2. CASE t.kind \in ScalarKinds
    <3>1. c.type = RustArrow(t)
      BY <1>4, <2>2, Kinds
    <3> QED
      BY <1>1, <2>1, <2>2, <3>1, PyCases
  <2>3. CASE t.kind = "list" /\ t.of.kind = "tensor"
    BY <1>1, <1>3, <1>5, <2>1, <2>3, PyCases
  <2>4. CASE t.kind = "map"
    BY <1>1, <1>3, <1>6, <2>1, <2>4, PyCases
  <2>5. CASE /\ t.kind \notin ScalarKinds /\ t.kind # "map"
             /\ ~(t.kind = "list" /\ t.of.kind = "tensor")
    BY <1>1, <2>1, <2>5, PyCases
  <2> QED
    BY <2>2, <2>3, <2>4, <2>5
<1>t. CASE l = "typescript"
  <2>1. ReadsField(l, f, columns) = TsReads(f, c)
    BY <1>t, ReaderOf
  <2>2. CASE t.kind \in ScalarKinds
    <3>1. c.type = TsArrow(t)
      BY <1>4, <2>2, Kinds
    <3> QED
      BY <1>1, <2>1, <2>2, <3>1, TsCases
  <2>3. CASE t.kind = "list"
    BY <1>1, <1>3, <1>5, <2>1, <2>3, TsCases
  <2>4. CASE t.kind \notin ScalarKinds /\ t.kind # "list"
    BY <1>1, <2>1, <2>4, TsCases
  <2> QED
    BY <2>2, <2>3, <2>4
<1> QED
  BY <1>r, <1>p, <1>t DEF Languages

\* What a reader must have seen to return a cell.
LEMMA CellReturned ==
  ASSUME NEW f, f.type \in FieldType, Form(f.type), NEW w \in FieldType, Form(w),
         NEW l \in Languages, NEW columns, f.name \in DOMAIN columns,
         WrittenFor(columns[f.name], w),
         NEW r \in Cells, r \in ReadsField(l, f, columns)
  PROVE  /\ SameScalar(f.type, w)
         /\ SameTensor(TensorOf(f.type), TensorOf(w))
         /\ l = "rust" /\ r = "value" => SameArrays(RustArrow(f.type), RustArrow(w))
<1> DEFINE t == f.type
           c == columns[f.name]
<1>1. r # Refused
  BY DEF Cells, Refused
<1>2. SameButNulls(RustArrow(w), c.type) /\ c.shape = FieldShape(w)
  BY DEF WrittenFor
<1>3. /\ SameArrays(RustArrow(t), c.type) <=> SameArrays(RustArrow(t), RustArrow(w))
      /\ c.type.kind = RustArrow(w).kind
  BY <1>2, DowncastIgnoresNulls
<1>4. /\ l = "rust" => ReadsField(l, f, columns) = RustReads(f, c)
      /\ l = "python" => ReadsField(l, f, columns) = PyReads(f, c)
      /\ l = "typescript" => ReadsField(l, f, columns) = TsReads(f, c)
      /\ l \in {"rust", "python", "typescript"}
  BY ReaderOf DEF Languages
<1>5. ShapeMatches(t, c.shape)
  BY <1>1, <1>4, RustCases, PyCases, TsCases
<1>6. SameTensor(TensorOf(t), TensorOf(w))
  BY <1>2, <1>5, MatchedShape
<1>7. ASSUME t.kind \in ScalarKinds
      PROVE  RustArrow(w) = RustArrow(t)
  <2>1. /\ RustArrow(t) = LeafColumn(t) /\ TsArrow(t) = LeafColumn(t)
        /\ LeafColumn(t) \in LeafColumns
    BY <1>7, Kinds, ColumnOfLeaf, LeafColumnsKind
  <2>2. t.kind # "optional"
    BY <1>7, Kinds
  <2>3. c.type.kind = RustArrow(t).kind
    <3>1. CASE l = "rust"
      <4>1. SameArrays(RustArrow(t), c.type)
        BY <1>1, <1>4, <1>5, <2>2, <3>1, RustCases
      <4> QED
        BY <4>1 DEF SameArrays, SameRule
    <3>2. CASE l = "python"
      BY <1>1, <1>4, <1>5, <1>7, <3>2, PyCases
    <3>3. CASE l = "typescript"
      BY <1>1, <1>4, <1>5, <1>7, <2>1, <3>3, TsCases
    <3> QED
      BY <1>4, <3>1, <3>2, <3>3
  <2>4. RustArrow(w).kind = RustArrow(t).kind
    BY <1>3, <2>3
  <2>5. RustArrow(w).kind # "list" /\ RustArrow(w).kind # "map"
    BY <2>1, <2>4, LeafColumnsKind
  <2>6. RustArrow(w) \in LeafColumns
    BY <1>2, <2>5, LeavesAlike
  <2> QED
    BY <2>1, <2>4, <2>6, LeafColumnsKind
<1>8. ASSUME l = "rust", r = "value"
      PROVE  SameArrays(RustArrow(t), RustArrow(w))
  <2>1. r \in RustReads(f, c)
    BY <1>4, <1>8
  <2>2. SUFFICES ASSUME ~SameArrays(RustArrow(t), c.type) PROVE FALSE
    BY <1>3
  <2>3. CASE t.kind = "optional" /\ c.cell = "null"
    BY <1>5, <1>8, <2>1, <2>3, RustCases
  <2>4. CASE ~(t.kind = "optional" /\ c.cell = "null")
    BY <1>1, <1>5, <2>1, <2>2, <2>4, RustCases
  <2> QED
    BY <2>3, <2>4
<1> QED
  BY <1>6, <1>7, <1>8 DEF SameScalar

-----------------------------------------------------------------------------
(* Files                                                                   *)

\* The structs of a skill are structs, and those of an accepted file accepted.
LEMMA AcceptedStruct ==
  ASSUME NEW f \in LaicFile, Accepted(f), NEW s \in 1..Len(f.skills), NEW d \in Directions
  PROVE  f.skills[s][d] \in StructDef /\ StructAccepted(f.skills[s][d])
<1>1. f.skills \in Seq(SkillDef)
  BY DEF LaicFile
<1>2. f.skills[s] \in SkillDef
  BY <1>1
<1>3. f.skills[s].input \in StructDef /\ f.skills[s].output \in StructDef
  BY <1>2 DEF SkillDef
<1>4. StructAccepted(f.skills[s].input) /\ StructAccepted(f.skills[s].output)
  BY DEF Accepted
<1> QED
  BY <1>3, <1>4 DEF Directions

\* The names of an accepted struct's fields differ, and their types are accepted.
LEMMA AcceptedFields ==
  ASSUME NEW t \in StructDef, StructAccepted(t)
  PROVE  /\ t.fields \in Seq(FieldDef) /\ Len(t.fields) \in Nat /\ Len(t.fields) # 0
         /\ \A i, j \in 1..Len(t.fields) : t.fields[i].name = t.fields[j].name => i = j
         /\ \A i \in 1..Len(t.fields) :
              /\ t.fields[i] \in FieldDef /\ FieldAccepted(t.fields[i])
              /\ t.fields[i].type \in FieldType /\ Form(t.fields[i].type)
<1>1. t.fields \in Seq(FieldDef) /\ t.fields # <<>>
  BY DEF StructDef, StructAccepted
<1> DEFINE q == t.fields
<1> HIDE DEF q
<1>2. q \in Seq(FieldDef) /\ q # <<>>
  BY <1>1 DEF q
<1>3. Len(q) \in Nat /\ Len(q) # 0 /\ \A i \in 1..Len(q) : q[i] \in FieldDef
  BY <1>2
<1>4. \A i, j \in 1..Len(q) : q[i].name = q[j].name => i = j
  <2>1. Distinct(NamesOf(q))
    BY DEF StructAccepted, q
  <2>2. Len(NamesOf(q)) = Len(q)
    BY <1>3 DEF NamesOf
  <2>3. \A i \in 1..Len(q) : NamesOf(q)[i] = q[i].name
    BY DEF NamesOf
  <2> QED
    BY <2>1, <2>2, <2>3 DEF Distinct
<1>5. \A i \in 1..Len(q) : FieldAccepted(q[i])
  BY DEF StructAccepted, q
<1>6. \A i \in 1..Len(q) : q[i].type \in FieldType
  BY <1>3 DEF FieldDef
<1>7. \A i \in 1..Len(q) : TypeAccepted(q[i].type)
  BY <1>5 DEF FieldAccepted
<1>8. \A i \in 1..Len(q) : Form(q[i].type)
  BY <1>6, <1>7, AcceptedForms
<1> QED
  BY <1>2, <1>3, <1>4, <1>5, <1>6, <1>8 DEF q

\* The fields of an accepted file are accepted.
LEMMA FieldsAccepted ==
  ASSUME NEW f \in LaicFile, Accepted(f), NEW x \in Fields(f)
  PROVE  x \in FieldDef /\ FieldAccepted(x) /\ Form(x.type)
<1>1. PICK t \in Structs(f) : \E i \in 1..Len(t.fields) : x = t.fields[i]
  BY DEF Fields
<1>2. PICK s \in 1..Len(f.skills) : t \in {f.skills[s].input, f.skills[s].output}
  BY DEF Structs
<1>3. t \in StructDef /\ StructAccepted(t)
  <2>1. "input" \in Directions /\ "output" \in Directions
    BY DEF Directions
  <2>2. /\ f.skills[s]["input"] \in StructDef /\ StructAccepted(f.skills[s]["input"])
        /\ f.skills[s]["output"] \in StructDef /\ StructAccepted(f.skills[s]["output"])
    BY <2>1, AcceptedStruct
  <2> QED
    BY <1>2, <2>2
<1> QED
  BY <1>1, <1>3, AcceptedFields

-----------------------------------------------------------------------------
(* Generators                                                              *)

\* The serializer fails on lists of optionals only, the deserializer on nothing
\* the validator accepts.
LEMMA PanicsOn ==
  ASSUME NEW t, Form(t)
  PROVE  /\ SerializerPanics(t) => t.kind = "list" /\ t.of.kind = "optional"
         /\ ~DeserializerPanics(t)
<1>1. \A x : Leaf(x) => x.kind # "optional" /\ x.kind # "list" /\ x.kind # "map"
  BY Kinds DEF Leaf, LeafKinds
<1>2. CASE SoundLeaf(t)
  <2>1. t.kind # "optional" /\ t.kind # "list" /\ t.kind # "map"
    BY <1>1, <1>2 DEF SoundLeaf
  <2> QED
    BY <2>1, Zenon DEF SerializerPanics, DeserializerPanics
<1>3. CASE t.kind = "list"
  <2>1. t.kind # "optional" /\ t.kind # "map"
    BY <1>3
  <2>2. \/ Leaf(t.of) /\ t.of.kind # "optional"
        \/ t.of.kind = "optional" /\ Leaf(t.of.of)
    BY <1>1, <1>3 DEF Form, SoundLeaf, LeafList, OptionalList, OptionalLeaf, ListOptional, ScalarMap
  <2>3. SerializerPanics(t) => ~Leaf(t.of)
    BY <1>3, <2>1, Zenon DEF SerializerPanics
  <2>4. ~DeserializerPanics(t)
    BY <1>3, <2>1, <2>2, Zenon DEF DeserializerPanics
  <2> QED
    BY <1>3, <2>2, <2>3, <2>4
<1>4. CASE t.kind = "optional"
  <2>1. t.kind # "list" /\ t.kind # "map"
    BY <1>4
  <2>2. \/ Leaf(t.of) /\ t.of.kind # "list"
        \/ t.of.kind = "list" /\ Leaf(t.of.of)
    BY <1>1, <1>4 DEF Form, SoundLeaf, LeafList, OptionalList, OptionalLeaf, ListOptional, ScalarMap
  <2> QED
    BY <1>4, <2>1, <2>2, Zenon DEF SerializerPanics, DeserializerPanics
<1>5. CASE t.kind = "map"
  <2>1. t.kind # "list" /\ t.kind # "optional"
    BY <1>5
  <2>2. Leaf(t.key) /\ Leaf(t.val)
    BY <1>1, <1>5, Kinds DEF Form, SoundLeaf, LeafList, OptionalList, OptionalLeaf, ListOptional,
                      ScalarMap, MapAccepted, Leaf
  <2> QED
    BY <1>5, <2>1, <2>2, Zenon DEF SerializerPanics, DeserializerPanics
<1> QED
  BY <1>2, <1>3, <1>4, <1>5
  DEF Form, LeafList, OptionalList, OptionalLeaf, ListOptional, ScalarMap

\* rustc refuses, of what the validator accepts, optional lists of tensors and
\* integer defaults of floats.
LEMMA IllTypedOn ==
  ASSUME NEW x \in FieldDef, FieldAccepted(x), Form(x.type), RustIllTyped(x)
  PROVE  \/ x.type.kind = "optional" /\ x.type.of.kind = "list" /\ x.type.of.of.kind = "tensor"
         \/ x.type.kind \in Floating /\ x.default.lit = "Integer"
<1>1. CASE /\ x.type.kind = "map"
           /\ x.type.key.kind \in Floating \cup {"tensor"} \/ x.type.val.kind = "tensor"
  <2>1. ScalarMap(x.type)
    BY <1>1, Kinds
    DEF Form, SoundLeaf, Leaf, LeafList, OptionalList, OptionalLeaf, ListOptional, LeafKinds
  <2> QED
    BY <1>1, <2>1 DEF ScalarMap, MapAccepted, ScalarKinds, Integral, Floating
<1>2. CASE x.default.lit = "Integer" /\ ~InBounds(x.type.kind, x.default.value)
  BY <1>2 DEF FieldAccepted, DefaultAccepted, NoDefault
<1> QED
  BY <1>1, <1>2 DEF RustIllTyped

\* What a generator fails on is a known gap.
LEMMA FailsOnGaps ==
  ASSUME NEW f \in LaicFile, Accepted(f), NEW l, Generated(f, l) # "code"
  PROVE  KnownGap(f, l)
<1>1. CASE l = "rust" /\ RustPanics(f)
  <2>1. PICK x \in Fields(f) : SerializerPanics(x.type) \/ DeserializerPanics(x.type)
    BY <1>1 DEF RustPanics
  <2>2. Form(x.type)
    BY FieldsAccepted
  <2>3. x.type.kind = "list" /\ x.type.of.kind = "optional"
    BY <2>1, <2>2, PanicsOn
  <2> QED
    BY <1>1, <2>3 DEF KnownGap
<1>2. CASE l = "rust" /\ \E x \in Fields(f) : RustIllTyped(x)
  <2>1. PICK x \in Fields(f) : RustIllTyped(x)
    BY <1>2
  <2>2. x \in FieldDef /\ FieldAccepted(x) /\ Form(x.type)
    BY FieldsAccepted
  <2>3. \/ x.type.kind = "optional" /\ x.type.of.kind = "list" /\ x.type.of.of.kind = "tensor"
        \/ x.type.kind \in Floating /\ x.default.lit = "Integer"
    BY <2>1, <2>2, IllTypedOn
  <2> QED
    BY <1>2, <2>3 DEF KnownGap
<1>3. CASE NamesClash(f, l)
  BY <1>3 DEF KnownGap
<1> QED
  BY <1>1, <1>2, <1>3 DEF Generated

-----------------------------------------------------------------------------
(* Messages                                                                *)

\* Every field of the struct that was written has its column.
LEMMA ColumnsWritten ==
  ASSUME NEW f \in LaicFile, Accepted(f), NEW s \in 1..Len(f.skills), NEW d \in Directions,
         NEW l \in Languages, NEW cells \in CellsOf(f.skills[s][d].fields),
         NEW j \in 1..Len(f.skills[s][d].fields)
  PROVE  LET x == f.skills[s][d].fields[j]
             columns == Written(l, f, s, d, cells).columns
         IN  /\ x.name \in DOMAIN columns
             /\ columns[x.name].cell = cells[j]
             /\ WrittenFor(columns[x.name], x.type)
<1> DEFINE q == f.skills[s][d].fields
           x == q[j]
           columns == Written(l, f, s, d, cells).columns
<1>1. /\ q \in Seq(FieldDef) /\ Len(q) \in Nat
      /\ \A i, k \in 1..Len(q) : q[i].name = q[k].name => i = k
      /\ Form(x.type)
  BY AcceptedStruct, AcceptedFields
<1>2. columns = [n \in {q[i].name : i \in 1..Len(q)} |->
                   LET i == CHOOSE k \in 1..Len(q) : q[k].name = n
                   IN Column(l, q[i], cells[i])]
  BY DEF Written
<1>3. cells \in [1..Len(q) -> {"value", "null"}]
      /\ (cells[j] = "null" => x.type.kind = "optional")
  BY DEF CellsOf
<1> HIDE DEF q, columns
<1>4. (CHOOSE k \in 1..Len(q) : q[k].name = x.name) = j
  BY <1>1 DEF q
<1>5. x.name \in DOMAIN columns /\ columns[x.name] = Column(l, x, cells[j])
  <2>1. x.name \in {q[i].name : i \in 1..Len(q)}
    BY DEF q
  <2> QED
    BY <1>2, <1>4, <2>1
<1>6. /\ columns[x.name].type = ArrowType(l, x.type)
      /\ columns[x.name].shape = FieldShape(x.type)
      /\ columns[x.name].cell = cells[j]
  BY <1>5 DEF Column
<1>7. cells[j] \in {"value", "null"}
  BY <1>3 DEF q
<1>8. SameButNulls(RustArrow(x.type), ArrowType(l, x.type))
  BY <1>1, ColumnsOfType
<1>9. WrittenFor(columns[x.name], x.type)
  BY <1>3, <1>6, <1>7, <1>8 DEF WrittenFor
<1> QED
  BY <1>5, <1>6, <1>9 DEF q, columns

\* What a reader makes of a message, if it does not refuse it, is made of what it
\* makes of each field.
LEMMA ReadingOf ==
  ASSUME NEW l, NEW g, NEW s, NEW d, NEW m, NEW r \in Readings(l, g, s, d, m), r # <<>>
  PROVE  LET q == g.skills[s][d].fields
         IN  /\ NamesStruct(m, g, s, d)
             /\ r \in [1..Len(q) -> Cells]
             /\ \A i \in 1..Len(q) : r[i] \in ReadsField(l, q[i], m.columns)
  BY DEF Readings

\* The message names the struct with fields q, and each is read as the cell in c.
ReadAs(l, g, s, d, m, q, c) ==
  /\ NamesStruct(m, g, s, d)
  /\ q = g.skills[s][d].fields
  /\ c \in [1..Len(q) -> {"value", "null"}]
  /\ \A i \in 1..Len(q) : ReadsField(l, q[i], m.columns) = {c[i]}

\* Such a message is read as these cells and nothing else.
LEMMA ReadingIs ==
  ASSUME NEW l, NEW g, NEW s, NEW d, NEW m, NEW q, NEW c, ReadAs(l, g, s, d, m, q, c),
         NEW r, r \in Readings(l, g, s, d, m)
  PROVE  r = c
<1> DEFINE read == [i \in 1..Len(q) |-> ReadsField(l, q[i], m.columns)]
<1>1. \A i \in 1..Len(q) : read[i] = {c[i]} /\ c[i] \in {"value", "null"}
  BY DEF ReadAs
<1>2. \/ r \in [1..Len(q) -> Cells] /\ \A i \in 1..Len(q) : r[i] \in read[i]
      \/ \E i \in 1..Len(q) : Refused \in read[i]
  BY DEF Readings, ReadAs
<1>3. c \in [1..Len(q) -> {"value", "null"}]
  BY DEF ReadAs
<1> HIDE DEF read
<1>4. \A i \in 1..Len(q) : Refused \notin read[i]
  BY <1>1 DEF Refused
<1>5. r \in [1..Len(q) -> Cells] /\ \A i \in 1..Len(q) : r[i] = c[i]
  BY <1>1, <1>2, <1>4
<1> QED
  BY <1>3, <1>5

-----------------------------------------------------------------------------
(* The invariant                                                           *)

Stages == {"start", "rejected", "accepted", "code", "broken", "panicked"}

ExchangeTypes ==
  /\ file \in [Sides -> LaicFile \cup {NoFile}]
  /\ language \in [Sides -> Languages]
  /\ stage \in [Sides -> Stages]

\* A build gets as far as the validator and the generator let it.
BuiltAsCompiled ==
  \A s \in Sides :
    /\ stage[s] \in {"accepted", "code", "broken", "panicked"} => Accepted(file[s])
    /\ stage[s] \in {"code", "broken", "panicked"} =>
         stage[s] = Generated(file[s], language[s])

\* The message is what the writer's code makes of the cells it was given.
SentAsWritten ==
  message # NoMessage =>
    /\ stage["writer"] = "code" /\ stage["reader"] = "code"
    /\ sent.skill \in 1..Len(file["writer"].skills) /\ sent.direction \in Directions
    /\ sent.cells \in CellsOf(FieldsSent)
    /\ message = Written(language["writer"], file["writer"], sent.skill,
                         sent.direction, sent.cells)

\* What was read is something the reader's code may make of it.
ReadAsReceived ==
  reading # Unread =>
    /\ message # NoMessage
    /\ reading.skill \in 1..Len(file["reader"].skills) /\ reading.direction \in Directions
    /\ reading.cells \in Readings(language["reader"], file["reader"], reading.skill,
                                  reading.direction, message)

ExchangeInv == ExchangeTypes /\ BuiltAsCompiled /\ SentAsWritten /\ ReadAsReceived

\* What was accepted is a file that was compiled.
LEMMA AcceptedIsFile ==
  ASSUME NEW f \in LaicFile \cup {NoFile}, Accepted(f)
  PROVE  f \in LaicFile
<1>1. f.version # ""
  BY DEF Accepted
<1>2. NoFile.version = ""
  BY DEF NoFile
<1> QED
  BY <1>1, <1>2

\* Nothing is built yet.
LEMMA ExchangeInvInit == ExchangeInit => ExchangeInv
<1> SUFFICES ASSUME ExchangeInit PROVE ExchangeInv
  OBVIOUS
<1>2. ExchangeTypes
  BY DEF ExchangeInit, ExchangeTypes, Languages, Stages
<1>3. BuiltAsCompiled
  BY DEF ExchangeInit, BuiltAsCompiled
<1> QED
  BY <1>2, <1>3 DEF ExchangeInit, ExchangeInv, SentAsWritten, ReadAsReceived

\* A build that is not finished has seen no message.
LEMMA BuildingAlone ==
  ASSUME ExchangeInv, NEW side \in Sides, stage[side] \in {"start", "accepted"}
  PROVE  message = NoMessage /\ reading = Unread
  BY DEF ExchangeInv, SentAsWritten, ReadAsReceived, Sides

\* Compiling a file.
LEMMA CompileStep ==
  ASSUME ExchangeInv, NEW side \in Sides, NEW f \in Files, Compile(side, f)
  PROVE  ExchangeInv'
<1>1. f \in LaicFile
  BY FilesAssumption
<1>2. /\ file' = [file EXCEPT ![side] = f]
      /\ stage' = [stage EXCEPT ![side] = IF Accepted(f) THEN "accepted" ELSE "rejected"]
      /\ language' = language /\ message' = message /\ reading' = reading
      /\ stage[side] = "start"
  BY DEF Compile
<1>3. message = NoMessage /\ reading = Unread
  BY <1>2, BuildingAlone
<1>4. ExchangeTypes'
  BY <1>1, <1>2 DEF ExchangeInv, ExchangeTypes, Stages
<1>5. BuiltAsCompiled'
  <2> SUFFICES ASSUME NEW s \in Sides
               PROVE  /\ stage'[s] \in {"accepted", "code", "broken", "panicked"}
                           => Accepted(file[s])'
                      /\ stage'[s] \in {"code", "broken", "panicked"} =>
                           stage'[s] = Generated(file[s], language[s])'
    BY DEF BuiltAsCompiled
  <2>1. CASE s = side
    <3>1. file'[s] = f /\ stage'[s] = IF Accepted(f) THEN "accepted" ELSE "rejected"
      BY <1>2, <2>1 DEF ExchangeInv, ExchangeTypes
    <3> QED
      BY <3>1
  <2>2. CASE s # side
    <3>1. file'[s] = file[s] /\ stage'[s] = stage[s] /\ language'[s] = language[s]
      BY <1>2, <2>2 DEF ExchangeInv, ExchangeTypes
    <3> QED
      BY <3>1 DEF ExchangeInv, BuiltAsCompiled
  <2> QED
    BY <2>1, <2>2
<1> QED
  BY <1>2, <1>3, <1>4, <1>5 DEF ExchangeInv, SentAsWritten, ReadAsReceived

\* Generating code from it.
LEMMA GenerateStep ==
  ASSUME ExchangeInv, NEW side \in Sides, NEW l \in Languages, Generate(side, l)
  PROVE  ExchangeInv'
<1>1. /\ file' = file /\ language' = [language EXCEPT ![side] = l]
      /\ stage' = [stage EXCEPT ![side] = Generated(file[side], l)]
      /\ message' = message /\ reading' = reading
      /\ stage[side] = "accepted"
  BY DEF Generate
<1>2. message = NoMessage /\ reading = Unread
  BY <1>1, BuildingAlone
<1>3. Generated(file[side], l) \in {"code", "broken", "panicked"}
  BY DEF Generated
<1>4. ExchangeTypes'
  BY <1>1, <1>3 DEF ExchangeInv, ExchangeTypes, Stages
<1>5. BuiltAsCompiled'
  <2> SUFFICES ASSUME NEW s \in Sides
               PROVE  /\ stage'[s] \in {"accepted", "code", "broken", "panicked"}
                           => Accepted(file[s])'
                      /\ stage'[s] \in {"code", "broken", "panicked"} =>
                           stage'[s] = Generated(file[s], language[s])'
    BY DEF BuiltAsCompiled
  <2>1. CASE s = side
    <3>1. /\ file'[s] = file[side] /\ language'[s] = l
          /\ stage'[s] = Generated(file[side], l) /\ Accepted(file[side])
      BY <1>1, <2>1 DEF ExchangeInv, ExchangeTypes, BuiltAsCompiled
    <3> QED
      BY <3>1
  <2>2. CASE s # side
    <3>1. file'[s] = file[s] /\ stage'[s] = stage[s] /\ language'[s] = language[s]
      BY <1>1, <2>2 DEF ExchangeInv, ExchangeTypes
    <3> QED
      BY <3>1 DEF ExchangeInv, BuiltAsCompiled
  <2> QED
    BY <2>1, <2>2
<1> QED
  BY <1>1, <1>2, <1>4, <1>5 DEF ExchangeInv, SentAsWritten, ReadAsReceived

\* Sending a message.
LEMMA WriteStep ==
  ASSUME ExchangeInv, NEW s \in 1..Len(file["writer"].skills), NEW d \in Directions,
         Write(s, d)
  PROVE  ExchangeInv'
<1>1. PICK cells \in CellsOf(FieldsOf("writer", s, d)) :
        /\ sent' = [skill |-> s, direction |-> d, cells |-> cells]
        /\ message' = Written(language["writer"], file["writer"], s, d, cells)
  BY DEF Write
<1>2. /\ stage["writer"] = "code" /\ stage["reader"] = "code"
      /\ file' = file /\ language' = language /\ stage' = stage /\ reading' = reading
      /\ message = NoMessage
  BY DEF Write
<1>3. reading = Unread
  BY <1>2 DEF ExchangeInv, ReadAsReceived
<1>4. /\ sent'.skill = s /\ sent'.direction = d /\ sent'.cells = cells
  BY <1>1
<1>5. ExchangeTypes' /\ BuiltAsCompiled'
  BY <1>2 DEF ExchangeInv, ExchangeTypes, BuiltAsCompiled
<1>6. FieldsSent' = FieldsOf("writer", s, d)
  BY <1>2, <1>4 DEF FieldsSent, FieldsOf
<1>7. SentAsWritten'
  BY <1>1, <1>2, <1>4, <1>6 DEF SentAsWritten
<1> QED
  BY <1>2, <1>3, <1>5, <1>7 DEF ExchangeInv, ReadAsReceived

\* Reading it.
LEMMA ReadStep ==
  ASSUME ExchangeInv, NEW s \in 1..Len(file["reader"].skills), NEW d \in Directions,
         Read(s, d)
  PROVE  ExchangeInv'
<1>1. PICK cells \in Readings(language["reader"], file["reader"], s, d, message) :
        reading' = [skill |-> s, direction |-> d, cells |-> cells]
  BY DEF Read
<1>2. /\ message # NoMessage
      /\ file' = file /\ language' = language /\ stage' = stage /\ sent' = sent
      /\ message' = message
  BY DEF Read
<1>3. reading'.skill = s /\ reading'.direction = d /\ reading'.cells = cells
  BY <1>1
<1>4. ExchangeTypes' /\ BuiltAsCompiled' /\ SentAsWritten'
  BY <1>2 DEF ExchangeInv, ExchangeTypes, BuiltAsCompiled, SentAsWritten, FieldsSent, FieldsOf
<1>5. ReadAsReceived'
  BY <1>1, <1>2, <1>3 DEF ReadAsReceived
<1> QED
  BY <1>4, <1>5 DEF ExchangeInv

\* Every step preserves the invariant.
LEMMA ExchangeStep == ExchangeInv /\ [ExchangeNext]_exchangeVars => ExchangeInv'
<1> SUFFICES ASSUME ExchangeInv, [ExchangeNext]_exchangeVars
             PROVE  ExchangeInv'
  OBVIOUS
<1>1. CASE \E side \in Sides, f \in Files : Compile(side, f)
  BY <1>1, CompileStep
<1>2. CASE \E side \in Sides, l \in Languages : Generate(side, l)
  BY <1>2, GenerateStep
<1>3. CASE \E s \in 1..Len(file["writer"].skills), d \in Directions : Write(s, d)
  BY <1>3, WriteStep
<1>4. CASE \E s \in 1..Len(file["reader"].skills), d \in Directions : Read(s, d)
  BY <1>4, ReadStep
<1>5. CASE UNCHANGED exchangeVars
  BY <1>5
  DEF exchangeVars, ExchangeInv, ExchangeTypes, BuiltAsCompiled, SentAsWritten,
      ReadAsReceived, FieldsSent, FieldsOf
<1> QED
  BY <1>1, <1>2, <1>3, <1>4, <1>5 DEF ExchangeNext

\* The invariant holds of every exchange.
THEOREM ExchangeInvariant == ExchangeSpec => []ExchangeInv
  BY ExchangeInvInit, ExchangeStep, PTL DEF ExchangeSpec

-----------------------------------------------------------------------------
(* What the invariant implies                                              *)

\* A message that was read comes from two accepted files.
LEMMA ReadMessage ==
  ASSUME ExchangeInv, reading # Unread
  PROVE  /\ message # NoMessage
         /\ file["writer"] \in LaicFile /\ Accepted(file["writer"])
         /\ file["reader"] \in LaicFile /\ Accepted(file["reader"])
         /\ language["writer"] \in Languages /\ language["reader"] \in Languages
         /\ sent.skill \in 1..Len(file["writer"].skills) /\ sent.direction \in Directions
         /\ reading.skill \in 1..Len(file["reader"].skills)
         /\ reading.direction \in Directions
         /\ sent.cells \in CellsOf(FieldsSent)
         /\ message = Written(language["writer"], file["writer"], sent.skill,
                              sent.direction, sent.cells)
         /\ reading.cells \in Readings(language["reader"], file["reader"], reading.skill,
                                       reading.direction, message)
<1>1. /\ message # NoMessage /\ stage["writer"] = "code" /\ stage["reader"] = "code"
      /\ "writer" \in Sides /\ "reader" \in Sides
  BY DEF ExchangeInv, SentAsWritten, ReadAsReceived, Sides
<1>2. /\ file["writer"] \in LaicFile /\ Accepted(file["writer"])
      /\ file["reader"] \in LaicFile /\ Accepted(file["reader"])
      /\ language["writer"] \in Languages /\ language["reader"] \in Languages
  BY <1>1, AcceptedIsFile DEF ExchangeInv, ExchangeTypes, BuiltAsCompiled
<1> QED
  BY <1>1, <1>2 DEF ExchangeInv, SentAsWritten, ReadAsReceived

\* A reader that returns something was given the struct it asked for.
LEMMA NoCrossTalkHolds == ExchangeInv => NoCrossTalk
<1> SUFFICES ASSUME ExchangeInv, WasRead, file["reader"] = file["writer"]
             PROVE  SameStruct
  BY DEF NoCrossTalk
<1> DEFINE f == file["writer"]
<1>1. reading.cells # <<>> /\ reading # Unread
  BY DEF WasRead, Unread
<1>2. NamesStruct(message, f, reading.skill, reading.direction)
  BY <1>1, ReadMessage, ReadingOf
<1>3. /\ message.id = f.skills[sent.skill].id /\ message.direction = sent.direction
  <2>1. message = Written(language["writer"], f, sent.skill, sent.direction, sent.cells)
    BY <1>1, ReadMessage
  <2> QED
    BY <2>1 DEF Written
<1>4. f.skills[sent.skill].id = f.skills[reading.skill].id
      /\ sent.direction = reading.direction
  BY <1>2, <1>3 DEF NamesStruct
<1>5. /\ sent.skill \in 1..Len(f.skills) /\ reading.skill \in 1..Len(f.skills)
      /\ f \in LaicFile /\ IdsAccepted(f.skills)
  BY <1>1, ReadMessage DEF Accepted
<1>6. \A i, j \in 1..Len(f.skills) : f.skills[i].id = f.skills[j].id => i = j
  <2> DEFINE q == f.skills
             ids == [i \in 1..Len(q) |-> q[i].id]
  <2>1. Distinct(ids)
    BY <1>5 DEF IdsAccepted
  <2>2. Len(q) \in Nat
    BY <1>5 DEF LaicFile
  <2> HIDE DEF q
  <2>3. Len(ids) = Len(q) /\ \A i \in 1..Len(q) : ids[i] = q[i].id
    BY <2>2
  <2> QED
    BY <2>1, <2>3 DEF Distinct, q
<1> QED
  BY <1>4, <1>5, <1>6 DEF SameStruct

\* A pair of fields of one name: what the reader returned for it is something it
\* may make of the column the writer wrote for it.
LEMMA MatchedPair ==
  ASSUME ExchangeInv, WasRead, NEW m \in Matched
  PROVE  LET read == FieldsRead[m[1]].type
             written == FieldsSent[m[2]].type
         IN  /\ SameScalar(read, written)
             /\ SameTensor(TensorOf(read), TensorOf(written))
             /\ language["reader"] = "rust" /\ reading.cells[m[1]] = "value"
                  => SameArrays(RustArrow(read), RustArrow(written))
<1> DEFINE i == m[1]
           j == m[2]
           x == FieldsRead[i]
           w == FieldsSent[j]
           l == language["reader"]
<1>1. reading # Unread /\ reading.cells # <<>>
  BY DEF WasRead, Unread
<1>2. i \in 1..Len(FieldsRead) /\ j \in 1..Len(FieldsSent) /\ x.name = w.name
  BY DEF Matched
<1>3. x.type \in FieldType /\ Form(x.type)
  BY <1>1, <1>2, ReadMessage, AcceptedStruct, AcceptedFields DEF FieldsRead, FieldsOf
<1>4. w.type \in FieldType /\ Form(w.type)
  BY <1>1, <1>2, ReadMessage, AcceptedStruct, AcceptedFields DEF FieldsSent, FieldsOf
<1>5. w.name \in DOMAIN message.columns /\ WrittenFor(message.columns[w.name], w.type)
  <2>1. sent.cells \in CellsOf(file["writer"].skills[sent.skill][sent.direction].fields)
        /\ j \in 1..Len(file["writer"].skills[sent.skill][sent.direction].fields)
    BY <1>1, <1>2, ReadMessage DEF FieldsSent, FieldsOf
  <2> QED
    <3> DEFINE f == file["writer"]
               k == language["writer"]
               s == sent.skill
               d == sent.direction
               c == sent.cells
    <3>1. /\ f \in LaicFile /\ Accepted(f) /\ s \in 1..Len(f.skills) /\ d \in Directions
          /\ k \in Languages /\ message = Written(k, f, s, d, c)
      BY <1>1, ReadMessage
    <3>2. c \in CellsOf(f.skills[s][d].fields) /\ j \in 1..Len(f.skills[s][d].fields)
          /\ w = f.skills[s][d].fields[j]
      BY <2>1 DEF FieldsSent, FieldsOf
    <3> HIDE DEF f, k, s, d, c, j, w
    <3> QED
      BY <3>1, <3>2, ColumnsWritten
<1>6. reading.cells[i] \in Cells /\ reading.cells[i] \in ReadsField(l, x, message.columns)
  <2>1. /\ reading.cells \in [1..Len(FieldsRead) -> Cells]
        /\ \A k \in 1..Len(FieldsRead) :
             reading.cells[k] \in ReadsField(l, FieldsRead[k], message.columns)
    BY <1>1, ReadMessage, ReadingOf DEF FieldsRead, FieldsOf
  <2> QED
    BY <1>2, <2>1
<1>7. l \in Languages
  BY <1>1, ReadMessage
<1> HIDE DEF x, w, l, i, j
<1> QED
  BY <1>2, <1>3, <1>4, <1>5, <1>6, <1>7, CellReturned DEF x, w, l, i, j

\* A leaf is read only from a column that matches.
LEMMA LeavesHold == ExchangeInv => LeavesFailClosed
  BY MatchedPair DEF LeavesFailClosed

\* Rust downcasts every array on its way.
LEMMA RustHolds == ExchangeInv => RustFailsClosed
  BY MatchedPair DEF RustFailsClosed, ReadAsDeclared

\* A program's own message is read cell by cell as it was written.
LEMMA RoundTripHolds == ExchangeInv => RoundTrip
<1> SUFFICES ASSUME ExchangeInv, reading.skill # 0, file["reader"] = file["writer"],
                    SameStruct
             PROVE  reading.cells = sent.cells
  BY DEF RoundTrip
<1> DEFINE f == file["writer"]
           s == sent.skill
           d == sent.direction
           q == f.skills[s][d].fields
           l == language["reader"]
<1>1. reading # Unread
  BY DEF Unread
<1>2. /\ f \in LaicFile /\ Accepted(f) /\ l \in Languages /\ language["writer"] \in Languages
      /\ s \in 1..Len(f.skills) /\ d \in Directions
      /\ sent.cells \in CellsOf(q)
      /\ message = Written(language["writer"], f, s, d, sent.cells)
      /\ reading.cells \in Readings(l, f, s, d, message)
  BY <1>1, ReadMessage DEF FieldsSent, FieldsOf, SameStruct
<1>3. NamesStruct(message, f, s, d)
  BY <1>2 DEF NamesStruct, Written
<1>4. sent.cells \in [1..Len(q) -> {"value", "null"}]
  BY <1>2 DEF CellsOf
<1>5. ASSUME NEW i \in 1..Len(q)
      PROVE  ReadsField(l, q[i], message.columns) = {sent.cells[i]}
  <2>1. q[i].type \in FieldType /\ Form(q[i].type)
    BY <1>2, AcceptedStruct, AcceptedFields
  <2>2. /\ q[i].name \in DOMAIN message.columns
        /\ message.columns[q[i].name].cell = sent.cells[i]
        /\ WrittenFor(message.columns[q[i].name], q[i].type)
    BY <1>2, ColumnsWritten
  <2> HIDE DEF q, l
  <2>3. ReadsField(l, q[i], message.columns) = {message.columns[q[i].name].cell}
    BY <1>2, <2>1, <2>2, OwnColumnRead
  <2> QED
    BY <2>2, <2>3
<1> DEFINE c == sent.cells
           r == reading.cells
<1>6. ReadAs(l, f, s, d, message, q, c)
  BY <1>3, <1>4, <1>5 DEF ReadAs
<1>7. r \in Readings(l, f, s, d, message)
  BY <1>2
<1> HIDE DEF f, s, d, l, c, r, q
<1>8. r = c
  BY <1>6, <1>7, ReadingIs
<1> QED
  BY <1>8 DEF r, c

\* What failed in a generator was accepted, and is a known gap.
LEMMA GapsHold == ExchangeInv => OnlyKnownGaps
<1> SUFFICES ASSUME ExchangeInv, NEW s \in Sides, stage[s] \in {"panicked", "broken"}
             PROVE  KnownGap(file[s], language[s])
  BY DEF OnlyKnownGaps
<1>1. /\ file[s] \in LaicFile /\ Accepted(file[s])
      /\ Generated(file[s], language[s]) # "code"
  BY AcceptedIsFile DEF ExchangeInv, ExchangeTypes, BuiltAsCompiled
<1> QED
  BY <1>1, FailsOnGaps

\* Two programs built from one accepted file understand each other in all nine
\* pairs of languages: to_arrow_ipc, to_ipc and toIpc write, for every field of
\* every type the validator accepts, a column from which from_arrow_ipc, from_ipc
\* and fromIpc make the same value.
THEOREM RoundTripAlways == ExchangeSpec => []RoundTrip
  BY ExchangeInvariant, RoundTripHolds, PTL

\* A message is never taken for another struct of the same file: the ids and the
\* direction that emit_metadata_validation compares name one struct.
THEOREM NoCrossTalkAlways == ExchangeSpec => []NoCrossTalk
  BY ExchangeInvariant, NoCrossTalkHolds, PTL

\* Between any two revisions of a contract, in any pair of languages, a scalar is
\* never read from another type's column, nor a tensor from one of another shape.
THEOREM LeavesFailClosedAlways == ExchangeSpec => []LeavesFailClosed
  BY ExchangeInvariant, LeavesHold, PTL

\* The Rust reader returns a value only of a column that has the field's type down
\* to what it contains, whatever the writer's revision and language.
THEOREM RustFailsClosedAlways == ExchangeSpec => []RustFailsClosed
  BY ExchangeInvariant, RustHolds, PTL

\* Whatever validate accepts and a generator then fails on has one of the shapes
\* that KnownGap lists; the list is complete.
THEOREM OnlyKnownGapsAlways == ExchangeSpec => []OnlyKnownGaps
  BY ExchangeInvariant, GapsHold, PTL
=============================================================================
