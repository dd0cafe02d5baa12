\* Three records, two references.
CONSTANTS
  Entries <- MCEntries
  MaxHeld = 3
  SpareCells = 1
  AuthHeaders = {"", "one"}
SPECIFICATION BuildSpec
INVARIANTS
  RecordsAreCopied
CHECK_DEADLOCK FALSE
