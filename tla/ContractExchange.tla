--------------------------- MODULE ContractExchange ---------------------------
(***************************************************************************)
(* Two programs built from .laic files, possibly from different revisions  *)
(* of one file and in different languages (crates/laicc).  Each file is    *)
(* compiled, code is generated from it, and the writer's code sends one    *)
(* message, which the reader's code reads as one of its structs.           *)
(***************************************************************************)
EXTENDS ContractCode

CONSTANT Files  \* the files considered

ASSUME FilesAssumption == Files \subseteq LaicFile

VARIABLES
  file,      \* per side: the file it is built from
  language,  \* per side: the language its code is generated in
  stage,     \* per side: how far its build got
  sent,      \* what the writer sent: struct and cells
  message,   \* the message on the wire
  reading    \* what the reader made of it: struct and cells, none if refused

exchangeVars == <<file, language, stage, sent, message, reading>>

-----------------------------------------------------------------------------
Sides == {"writer", "reader"}
Directions == {"input", "output"}

Unread == [skill |-> 0, direction |-> "input", cells |-> <<>>]
NoFile == [version |-> "", skills |-> <<>>]
NoMessage == [id |-> "", version |-> "", direction |-> "input", columns |-> <<>>]

ExchangeInit ==
  /\ file = [s \in Sides |-> NoFile]
  /\ language = [s \in Sides |-> "rust"]
  /\ stage = [s \in Sides |-> "start"]
  /\ sent = Unread
  /\ message = NoMessage
  /\ reading = Unread

\* compile.  The writer is built first, since the builds do not interact.
Compile(side, f) ==
  /\ stage[side] = "start"
  /\ side = "reader" => stage["writer"] = "code"
  /\ file' = [file EXCEPT ![side] = f]
  /\ stage' = [stage EXCEPT ![side] = IF Accepted(f) THEN "accepted" ELSE "rejected"]
  /\ UNCHANGED <<language, sent, message, reading>>

\* generate_rust, generate_python, generate_typescript
Generate(side, l) ==
  /\ stage[side] = "accepted"
  /\ language' = [language EXCEPT ![side] = l]
  /\ stage' = [stage EXCEPT ![side] = Generated(file[side], l)]
  /\ UNCHANGED <<file, sent, message, reading>>

FieldsOf(side, skill, direction) == file[side].skills[skill][direction].fields

\* Cells a program can put into a struct: only an optional field may be null.
CellsOf(fields) ==
  {c \in [1..Len(fields) -> {"value", "null"}] :
     \A i \in 1..Len(fields) : c[i] = "null" => fields[i].type.kind = "optional"}

Write(skill, direction) ==
  /\ stage["writer"] = "code" /\ stage["reader"] = "code"
  /\ message = NoMessage
  /\ \E cells \in CellsOf(FieldsOf("writer", skill, direction)) :
       /\ sent' = [skill |-> skill, direction |-> direction, cells |-> cells]
       /\ message' = Written(language["writer"], file["writer"], skill, direction, cells)
  /\ UNCHANGED <<file, language, stage, reading>>

\* The reader gets the cells, or none when its code refuses the message.
Read(skill, direction) ==
  /\ message # NoMessage /\ reading = Unread
  /\ \E cells \in Readings(language["reader"], file["reader"], skill, direction, message) :
       reading' = [skill |-> skill, direction |-> direction, cells |-> cells]
  /\ UNCHANGED <<file, language, stage, sent, message>>

ExchangeNext ==
  \/ \E side \in Sides, f \in Files : Compile(side, f)
  \/ \E side \in Sides, l \in Languages : Generate(side, l)
  \/ \E skill \in 1..Len(file["writer"].skills), d \in Directions : Write(skill, d)
  \/ \E skill \in 1..Len(file["reader"].skills), d \in Directions :
       Read(skill, d)

ExchangeSpec == ExchangeInit /\ [][ExchangeNext]_exchangeVars

-----------------------------------------------------------------------------
(* Properties                                                              *)

WasRead == reading.cells # <<>>
SameStruct == sent.skill = reading.skill /\ sent.direction = reading.direction

FieldsRead == FieldsOf("reader", reading.skill, reading.direction)
FieldsSent == FieldsOf("writer", sent.skill, sent.direction)

\* Pairs of a field the reader read and the field the writer wrote under its
\* name.
Matched ==
  {m \in (1..Len(FieldsRead)) \X (1..Len(FieldsSent)) :
     FieldsRead[m[1]].name = FieldsSent[m[2]].name}

\* Two programs built from one file understand each other in every pair of
\* languages: what one writes the other reads as the same value.
RoundTrip ==
  (reading.skill # 0 /\ file["reader"] = file["writer"] /\ SameStruct)
    => reading.cells = sent.cells

\* A message is never read as another struct of the same file: neither a reply
\* as a request nor one skill's message as another's.
NoCrossTalk ==
  (WasRead /\ file["reader"] = file["writer"]) => SameStruct

\* When the two files differ, in every language: a scalar is read only from a
\* column of its own Arrow type; a tensor, bare or in a container, only if it was
\* written with the same element type and rank and agrees in every fixed
\* dimension.
SameScalar(read, written) ==
  read.kind \in ScalarKinds => RustArrow(written) = RustArrow(read)

SameTensor(read, written) ==
  read.kind = "tensor" =>
    /\ written.kind = "tensor" /\ written.dtype = read.dtype
    /\ Len(written.dims) = Len(read.dims)
    /\ \A i \in 1..Len(read.dims) :
         read.dims[i] = Dynamic \/ written.dims[i] = read.dims[i]

LeavesFailClosed ==
  WasRead => \A m \in Matched :
    LET read == FieldsRead[m[1]].type
        written == FieldsSent[m[2]].type
    IN SameScalar(read, written) /\ SameTensor(TensorOf(read), TensorOf(written))

\* A value comes from a column that, down to what it contains, has the type of
\* the field.
ReadAsDeclared ==
  WasRead => \A m \in Matched :
    reading.cells[m[1]] = "value"
      => SameArrays(RustArrow(FieldsRead[m[1]].type), RustArrow(FieldsSent[m[2]].type))

\* The Rust reader, built from another revision of the file than the writer,
\* returns a value only if the types agree at every depth: it downcasts each
\* array on its way.
RustFailsClosed == language["reader"] = "rust" => ReadAsDeclared

\* What CHANGELOG.md says of 0.2.2: type mismatches fail closed across Rust,
\* Python and TypeScript.  It does not hold: the Python and the TypeScript
\* reader compare the types of scalars, and take a list, an optional or a map
\* of another element type as it comes.
TypesFailClosed == ReadAsDeclared

\* Shapes the validator accepts although a generator cannot do them justice.
KnownGap(f, l) ==
  \/ NamesClash(f, l)
  \/ /\ l = "rust"
     /\ \E field \in Fields(f) :
          LET type == field.type
          IN \/ type.kind = "list" /\ type.of.kind = "optional"
             \/ type.kind = "optional" /\ type.of.kind = "list"
                  /\ type.of.of.kind = "tensor"
             \/ type.kind \in Floating /\ field.default.lit = "Integer"

\* The validator's rules and the generators' abilities agree everywhere else:
\* nothing but the known gaps passes the validator and fails in a generator.
OnlyKnownGaps ==
  \A s \in Sides :
    stage[s] \in {"panicked", "broken"} => KnownGap(file[s], language[s])

\* "Validator rejects types that would reach here", says the generator of its
\* unreachable arms: an accepted file never makes a generator panic.
AcceptedGenerates == \A s \in Sides : stage[s] # "panicked"
=============================================================================
