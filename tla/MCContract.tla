------------------------------ MODULE MCContract ------------------------------
(* Instances of ContractExchange for TLC: files with one interesting field,  *)
(* over every type up to depth two and some of depth three, and files that   *)
(* exercise the rules about names, ids, structs and errors.                  *)
EXTENDS ContractExchange

CONSTANT Kinds  \* bound: the scalar types used

Dims == {<<0>>, <<2>>, <<3>>, <<Dynamic>>, <<2, 2>>}

Leaves == {Scalar(k) : k \in Kinds} \cup {Tensor("f32", d) : d \in Dims}
            \cup {Tensor("i8", <<2>>)}

Wrapped(types) == {List(t) : t \in types} \cup {Optional(t) : t \in types}

Maps == {Map(k, v) : k \in Leaves, v \in Leaves}

Deep == {List(List(Scalar("i8"))), Optional(List(Optional(Scalar("i8")))),
         List(Optional(List(Scalar("i8")))), Map(Scalar("string"), Scalar("i8"))}

Types == Leaves \cup Maps \cup Wrapped(Leaves) \cup Wrapped(Wrapped(Leaves))
           \cup Deep \cup Wrapped(Deep)

Defaults == {Literal("Integer", -129), Literal("Integer", -128), Literal("Integer", 127),
             Literal("Integer", 128), Literal("Float", 0), Literal("String", 0)}

Field(name, type, default) == [name |-> name, type |-> type, default |-> default]
Struct(name, fields) == [name |-> name, fields |-> fields]
Skill(name, id, input, output) ==
  [name |-> name, id |-> id, input |-> input, output |-> output, errors |-> <<>>]

Plain(name) == Field(name, Scalar("i8"), NoDefault)
Reply == Struct("Out", <<Plain("f")>>)

OneField(field) ==
  [version |-> "1", skills |-> <<Skill("s", "s", Struct("In", <<field>>), Reply)>>]

Inputs(structs, version) ==
  {[version |-> version, skills |-> <<Skill("s", "s", i, Reply)>>] : i \in structs}

Errors(list) ==
  [version |-> "1",
   skills |-> <<[Skill("s", "s", Struct("In", <<Plain("f")>>), Reply)
                   EXCEPT !.errors = list]>>]

AllFiles ==
  {OneField(Field("f", t, NoDefault)) : t \in Types}
    \cup {OneField(Field("f", t, d)) : t \in Leaves, d \in Defaults}
    \cup {OneField(Plain(n)) : n \in {"batch", "data", "cls", "class"}}
    \cup Inputs({Struct("In", <<Plain(a), Plain(b)>>) :
                   a \in {"f", "batch"}, b \in {"f", "g", "batch"}}
                \cup {Struct("In", <<>>), Struct("", <<Plain("f")>>),
                      Struct("class", <<Plain("f")>>), Struct("Out", <<Plain("f")>>)}, "1")
    \cup Inputs({Struct("In", <<Plain("f")>>)}, "2")
    \cup Inputs({Struct("In", <<Plain("f")>>)}, "")
    \cup {[version |-> "1",
           skills |-> <<Skill(n1, i1, Struct("In", <<Plain("f")>>), Reply),
                        Skill(n2, i2, Struct("In2", <<Plain("f")>>),
                                      Struct("Out2", <<Plain("f")>>))>>] :
            n1 \in {"s", "class"}, n2 \in {"s", "t"}, i1 \in {"s", ""}, i2 \in {"s", "t"}}
    \cup {Errors(<<[name |-> a, code |-> 1], [name |-> b, code |-> c]>>) :
            a \in {"A", "class"}, b \in {"A", "B"}, c \in {0, 1, 2}}
    \cup {NoFile}
=============================================================================
