\* A type imported through another file of the module.
CONSTANTS
  NumFiles = 2
  NumSymbols = 4
  Texts <- ImportTexts
  ClientKinds = {"TYPE_OF"}
  MaxRevision = 5
SPECIFICATION SessionSpec
INVARIANTS TypesAreCurrent
