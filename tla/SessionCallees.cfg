\* A spec of a caller, and an edit to its callee in another file.
CONSTANTS
  NumFiles = 2
  NumSymbols = 4
  Texts <- MCTexts
  ClientKinds = {}
  MaxRevision = 4
SPECIFICATION SessionSpec
INVARIANTS SelectionIsConservative
