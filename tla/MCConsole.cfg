CONSTANTS
  Keys = {0, 8, 13, 32, 36, 49, 97, 110, 960}
  BufferSize = 6
  Rubbish = {0, 32}
  Modulus = 256
  Names <- MCNames
  Params <- MCParams
SPECIFICATION Spec
INVARIANTS
  TypeOK
  ValuesExact
PROPERTY EditsLines
