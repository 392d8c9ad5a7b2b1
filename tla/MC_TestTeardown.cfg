CONSTANTS
    Test = Test
    Peer = Peer
SPECIFICATION Spec
CHECK_DEADLOCK FALSE
INVARIANT DisconnectedAfterTerminate
PROPERTY TeardownCompletes
