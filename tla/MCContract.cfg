SPECIFICATION ExchangeSpec
CONSTANTS
  Reserved = {"class"}
  Kinds = {"string", "bytes", "i8", "i64", "f32"}
  FieldType <- Types
  Files <- AllFiles
INVARIANTS RoundTrip NoCrossTalk LeavesFailClosed
INVARIANTS RustFailsClosed OnlyKnownGaps
CHECK_DEADLOCK FALSE
