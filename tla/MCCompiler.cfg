CONSTANTS
  Types <- MCTypes
  Sigs <- MCSigs
  Programs <- MCPrograms
  Library <- MCLibrary
  Inputs = {0, 1, 2}
  MaxRounds = 8
  MaxInt = 9
  Fuel = 100
  Budget = 100
SPECIFICATION Spec
INVARIANTS AcceptedBuilds NothingIsMissing FreedOnce ViewsLive
           AnalysisIsSound SolutionFound OptimisedAgrees OptimiserSettles
           NativeAgrees HeapIsBalanced
