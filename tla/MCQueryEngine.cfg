\* The engine over the small host: three edits, cancellation at any host code.
CONSTANTS
  Inputs <- HostInputs
  Derived <- HostDerived
  Values <- HostValues
  InitialWorld <- HostUnset
  Step <- TrackedStep
  ReadSeqs <- HostReadSeqs
  Truth <- HostTruth
  NoValue = Failed
  Failed = Failed
  MaxRevision = 3
SPECIFICATION FairSpec
INVARIANTS TypeOK StacksAligned AnswersAreTrue WorkIsNotRepeated
PROPERTIES ImplementsRedGreen UnrelatedEditsRerunNothing QueriesEnd
