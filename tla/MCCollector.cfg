SPECIFICATION Spec
CONSTANTS main = main
          a = a b = b c = c
          Objects = {main, a, b, c}
          Kinds = {"table", "closure", "thread", "string", "weak", "ephemeron", "allweak"}
          Keyed = {"ephemeron"}
          MaxEntries = 2
          Busy = 3
          Crowd = {"ephemeron"}
SYMMETRY Symmetry
INVARIANTS BlackNeverWhite GrayListed NoDangling CycleCollects
PROPERTIES FinalizesUnreachable WeakKept
CHECK_DEADLOCK FALSE
