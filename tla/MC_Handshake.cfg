CONSTANTS
    A = A
    B = B
    M = M
    M2 = M2
    kA = kA
    kB = kB
    kM = kM
    kM2 = kM2
    G1 = G1
    G2 = G2
    c1 = c1
    c2 = c2
    c3 = c3
    c4 = c4
    c5 = c5
    Nodes = {A, B, M, M2}
    Byzantine = {M, M2}
    Geneses = {G1, G2}
    Conns = {c1, c5}
    KeyOf <- MCKeyOf
    Src <- MCSrc
    Dst <- MCDst
    Peers <- MCPeers
SPECIFICATION Spec
\* Every handshake returns: the states where all of them have are final.
CHECK_DEADLOCK FALSE
INVARIANTS
    OutboundAuthenticated
    InboundAuthenticated
