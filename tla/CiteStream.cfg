\* Every text of up to 7 symbols in every division into chunks.
SPECIFICATION CiteSpec
CHECK_DEADLOCK FALSE
CONSTANTS
  MaxHeld = 4
  MaxText = 7
INVARIANTS
  StreamIsFinalText
