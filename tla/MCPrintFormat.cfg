CONSTANTS
  Characters = {"=", "$", "n", "o", ".", "!"}
  Formats <- MCFormats
  Width = 8
  NumDigits = 3
  Size = 7
SPECIFICATION Spec
INVARIANTS
  TypeOK
  RowHoldsHighBits
  PrintsExactly
