\* Two files, two edits after they are opened.
CONSTANTS
  NumFiles = 2
  NumSymbols = 4
  Texts <- MCTexts
  ClientKinds = {"SPEC_DEPS"}
  MaxRevision = 6
SPECIFICATION SessionSpec
INVARIANTS DigestsAreCurrent ComputedSymbolsExist SelectionIsOfThisProgram
