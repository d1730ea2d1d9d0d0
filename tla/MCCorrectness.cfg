\* Two producers of two items each, two consumers.
CONSTANTS
  NProducers = 2
  NConsumers = 2
  ItemsPerProducer = 2
  End = end
  None = none
SPECIFICATION TestSpec
INVARIANTS AssertionsHold
PROPERTIES TestEnds
