SPECIFICATION Spec
CONSTANTS Promises = {p1, p2, p3}
          Routines = {k1}
          Modes = {"all", "race", "settled", "any"}
          MaxInputs = 2
          Shared = FALSE
          Forgetful = FALSE
INVARIANTS Alive NoReactionLeft SleeperRegistered CombinationAnswers ChildFollows
CHECK_DEADLOCK FALSE
