----------------------------- MODULE MCEventLoop -----------------------------
EXTENDS EventLoop
CONSTANTS once, again, urgent
MCClass == [t \in Posts \cup Items |-> IF t = urgent THEN 1 ELSE 0]
MCDelay == [m \in Timers |-> 1]
MCRepeat == [m \in Timers |-> IF m = again THEN 1 ELSE 0]
=============================================================================
