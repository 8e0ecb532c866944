SPECIFICATION Spec
CONSTANTS main = main
          a = a b = b c = c
          Objects = {main, a, b}
          Kinds = {"table", "map"}
          Keyed = {"map"}
          MaxEntries = 1
          Busy = 3
          Crowd = {}
SYMMETRY Symmetry
INVARIANT BlackNeverWhite
CHECK_DEADLOCK FALSE
