CONSTANTS
    Peers = {p1, p2}
    Static = {p1}
    Target = p1
SPECIFICATION Spec
CHECK_DEADLOCK FALSE
INVARIANT DisconnectedWhenReturned
PROPERTY DisconnectReturns
PROPERTY GossipConnectionsReturn
