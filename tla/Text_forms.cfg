SPECIFICATION TextSpec
CONSTANTS
  RunesUsed <- MCRunes
  BytesUsed <- MCBytes
  UnitsUsed <- MCUnits
  Indexes <- MCIndexes
  MIN_INT <- MCMinInt
  MaxBytes = 3
  MaxRunes = 2
  MaxUnits = 3
INVARIANTS FormsAgree OrderAgrees
CHECK_DEADLOCK FALSE
