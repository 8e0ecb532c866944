SPECIFICATION Spec
CONSTANTS Ids = {i, j}
          Dues <- MCDues
          Capacity = 6
INVARIANT HeapOrdered
PROPERTIES Implements
