SPECIFICATION Spec
CONSTANTS Posts = {t,u}
          Items = {i}
          Workers = {w1, w2}
          Capacity = 2
          Timers = {again}
          Class <- MCClass
          urgent = u
          Delay <- MCDelay
          Repeat <- MCRepeat
          once = once
          again = again
          Drivers = {"run", "await"}
          Nested = {"await"}
          MaxDepth = 2
          MaxClock = 2
INVARIANT OnePlace
PROPERTIES Implements NotEarly AcceptedRuns TimerFires DestroyReturns
CHECK_DEADLOCK FALSE
