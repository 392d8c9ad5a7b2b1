\* Up to four validators and up to four gossip peers each: no peers, a
\* single ring, several successors, and gossip_peers >= n (the ring wraps).
CONSTANTS
    MaxNodes = 4
    MaxPeers = 4
SPECIFICATION Spec
\* new_configs() returns once the loop is done.
CHECK_DEADLOCK FALSE
INVARIANTS
    TypeOK
    BuildsRing
    GossipConnected
