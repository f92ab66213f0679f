\* The abstract engine over the small host, up to three edits.
CONSTANTS
  Inputs <- HostInputs
  Derived <- HostDerived
  Values <- HostValues
  InitialWorld <- HostUnset
  ReadSeqs <- HostReadSeqs
  Step <- HostStep
  Truth <- HostTruth
  NoValue = Failed
  Failed = Failed
  MaxRevision = 3
SPECIFICATION Spec
INVARIANTS IInv
PROPERTIES ChangesAreAnnounced
