\* Four workers, of which the producers may get no thread; the program ends.
CONSTANTS
  Cap = 1
  MaxThreads = 4
  Workers = 9
  Main <- MCMain
  Tasks <- MCTasks
  CanFail <- ProducersCanFail
SPECIFICATION Spec
INVARIANTS NoLostWakeup EachTaskOnce LocksExclude NothingOutlivesTheCall
PROPERTIES ImplementsFifo ParMapReturns
CHECK_DEADLOCK FALSE
