CONSTANTS
  HeapSize = 9
  Header = 1
  MaxRequest = 3
SPECIFICATION Spec
INVARIANTS Tiling HeadersIntact NoFalseFailure
PROPERTY ImplementsHeap
