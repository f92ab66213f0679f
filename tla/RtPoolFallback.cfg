\* The same program when a consumer may get no thread.
CONSTANTS
  Cap = 1
  MaxThreads = 4
  Workers = 9
  Main <- MCMain
  Tasks <- MCTasks
  CanFail <- ConsumerCanFail
SPECIFICATION Spec
PROPERTIES ParMapReturns
CHECK_DEADLOCK FALSE
