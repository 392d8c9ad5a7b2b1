\* Two tasks call terminate(): the later try_sends finds the channel full
\* or the receiver gone.
CONSTANTS
    Callers = {c1, c2, c3}
SPECIFICATION Spec
\* The test ends once the node is down and every terminate() has returned.
CHECK_DEADLOCK FALSE
INVARIANTS
    TerminatedMeansStopped
PROPERTIES
    TerminateReturns
