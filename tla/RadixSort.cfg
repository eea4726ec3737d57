SPECIFICATION Spec
CONSTANTS
  Threads = 3
  Radix = 3
  LastRadixes = {2, 3}
  Passes = 2
  Inputs <- MCInputs
  Blank = Blank
INVARIANTS TypeOK SortedResult PlacesApart
