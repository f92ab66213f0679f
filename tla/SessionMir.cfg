\* A program that stops being accepted after mir_of was asked.
CONSTANTS
  NumFiles = 2
  NumSymbols = 4
  Texts <- MCTexts
  ClientKinds = {"MIR_OF"}
  MaxRevision = 5
SPECIFICATION SessionSpec
INVARIANTS MirIsCurrent
