SPECIFICATION Spec
CONSTANTS Posts = {t}
          Items = {i}
          Workers = {w1}
          Capacity = 1
          Timers = {}
          Class <- MCClass
          urgent = u
          Delay <- MCDelay
          Repeat <- MCRepeat
          once = once
          again = again
          Drivers = {"run"}
          Nested = {}
          MaxDepth = 1
          MaxClock = 1
PROPERTIES StopReturns
CHECK_DEADLOCK FALSE
