SPECIFICATION FairSpec
CONSTANTS
  Keys = {1, 2, 3}
  Junk = {0, 4}
  Capacities = {1, 2, 3, 4, 5}
  HeapTypes = {0, 1}
  EmptyPop = 1
INVARIANTS TypeOK HeapOrder SiftOrder
PROPERTIES PopTakesExtremum SiftProgress CallsReturn ImplementsPQ
