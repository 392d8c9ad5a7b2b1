\* Cancelling the context while instant_network() waits for connections.
CONSTANT N = 2
SPECIFICATION Spec
CHECK_DEADLOCK FALSE
PROPERTY CancelHonoured
