\* instant_network() over two validators; the system stops only after
\* cancellation, once every Runner has dropped its connections.
CONSTANT N = 2
SPECIFICATION Spec
CHECK_DEADLOCK FALSE
INVARIANT ConnectedWhenReturned
PROPERTY InstantNetworkReturns
