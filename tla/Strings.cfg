CONSTANTS
  Objects = {o1, o2}
  Blocks = {b1, b2, b3}
  NULL = NULL
  NUL = NUL
  Junk = Junk
  Texts <- MCTexts
  BufferLens <- MCBufferLens
  MinimalSize = 2
  MaxText = 4
  MaxKept = 1
  Letters = {"b"}
SYMMETRY Symmetry
SPECIFICATION Spec
INVARIANTS
  TypeOK
  LengthIsStrLen
  OneOwner
PROPERTIES
  ImplementsText
