\* Two queues, one and two threads, two trials in a cell; two of the four items
\* of a trial are sampled; the sweep is stopped up to twice.
CONSTANTS
  QUEUES <- MCQueues
  THREADS <- MCThreads
  MaxThreads = 2
  TRIALS = 2
  TOTAL_OPS = 4
  MaxSamples = 2
  MaxStops = 2
  None = none
SPECIFICATION Spec
INVARIANTS SweepTypeOK ResultFiles
PROPERTIES SweepEnds
