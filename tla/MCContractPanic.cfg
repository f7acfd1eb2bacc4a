SPECIFICATION ExchangeSpec
CONSTANTS
  Reserved = {"class"}
  Kinds = {"string", "bytes", "i8", "i64", "f32"}
  FieldType <- Types
  Files <- AllFiles
INVARIANT AcceptedGenerates
CHECK_DEADLOCK FALSE
