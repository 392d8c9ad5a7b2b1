--------------------------- MODULE GossipTopology ---------------------------
(***************************************************************************)
(* The static gossip topology that testonly::new_configs() and             *)
(* testonly::new_fullnode() of node/actors/network/src/testonly.rs build:  *)
(* validator i dials the next gossip_peers validators on a ring, and a     *)
(* full node dials the one validator it is given.                          *)
(*                                                                         *)
(* Validators are 0..n-1, standing for their configs; a static_outbound    *)
(* map keyed by public key is the set of validators it names.  The nested *)
(* loop of new_configs() is run step by step for every n, gossip_peers and *)
(* full node peer up to the bounds.                                        *)
(***************************************************************************)
EXTENDS Naturals, Graphs

CONSTANTS
    MaxNodes,   \* bound on the number of validators n
    MaxPeers    \* bound on gossip_peers

VARIABLES
    n,          \* setup.keys.len()
    peers,      \* gossip_peers
    i, j,       \* the loop counters
    outbound,   \* outbound[v]: cfgs[v].gossip.static_outbound
    fullPeer,   \* the validator passed to new_fullnode()
    pc          \* "loop" or "done"

vars == <<n, peers, i, j, outbound, fullPeer, pc>>

Validators == 0..n-1

\* One config per validator key, each with an empty static_outbound; a
\* full node's config, built by new_fullnode(), names only its peer.
Init ==
    /\ n \in 1..MaxNodes /\ peers \in 0..MaxPeers
    /\ i = 0 /\ j = 0
    /\ outbound = [v \in Validators |-> {}]
    /\ fullPeer \in Validators
    /\ pc = "loop"

\* Mutant: the modulo forgotten, cfgs[i + j + 1] indexed past the end.
InsertNoModulo ==
    /\ pc = "loop" /\ i < n /\ j < peers
    /\ outbound' = [outbound EXCEPT ![i] = @ \cup {i + j + 1}]
    /\ j' = j + 1
    /\ UNCHANGED <<n, peers, i, fullPeer, pc>>

\* Mutant: (i + j) % n, so that the first peer of every node is itself.
InsertOffByOne ==
    /\ pc = "loop" /\ i < n /\ j < peers
    /\ outbound' = [outbound EXCEPT ![i] = @ \cup {(i + j) % n}]
    /\ j' = j + 1
    /\ UNCHANGED <<n, peers, i, fullPeer, pc>>

\* let j = (i + j + 1) % n; cfgs[i].gossip.static_outbound.insert(...).
Insert ==
    /\ pc = "loop" /\ i < n /\ j < peers
    /\ outbound' = [outbound EXCEPT ![i] = @ \cup {(i + j + 1) % n}]
    /\ j' = j + 1
    /\ UNCHANGED <<n, peers, i, fullPeer, pc>>

NextNode ==
    /\ pc = "loop" /\ i < n /\ j = peers
    /\ i' = i + 1 /\ j' = 0
    /\ UNCHANGED <<n, peers, outbound, fullPeer, pc>>

\* Mutant: `return cfgs` inside the outer loop.
ReturnInLoop ==
    /\ pc = "loop" /\ i = 1
    /\ pc' = "done"
    /\ UNCHANGED <<n, peers, i, j, outbound, fullPeer>>

Return ==
    /\ pc = "loop" /\ i = n
    /\ pc' = "done"
    /\ UNCHANGED <<n, peers, i, j, outbound, fullPeer>>

Next == Insert \/ NextNode \/ Return

Spec == Init /\ [][Next]_vars

-----------------------------------------------------------------------------
\* Every counter stays in range and every dialled peer is a validator.
TypeOK ==
    /\ n \in 1..MaxNodes /\ peers \in 0..MaxPeers
    /\ i \in 0..n /\ j \in 0..peers
    /\ outbound \in [Validators -> SUBSET Validators]
    /\ fullPeer \in Validators
    /\ pc \in {"loop", "done"}

\* How far w lies after v on the ring of validators.
RingDistance(v, w) == (w - v) % n

\* Reference: validator v dials the validators 1..peers steps after it on
\* the ring, and, once peers >= n and the ring wraps, also itself.
RingSuccessors(v) ==
    {w \in Validators : RingDistance(v, w) \in 1..peers}
        \cup (IF peers >= n THEN {v} ELSE {})

\* The loop builds exactly the reference topology.
BuildsRing ==
    pc = "done" => \A v \in Validators : outbound[v] = RingSuccessors(v)

\* The full node, numbered after the validators.
FullNode == n

\* The graph of static outbound connections, the full node's included.
GossipGraph ==
    [node |-> Validators \cup {FullNode},
     edge |-> UNION {{<<v, w>> : w \in outbound[v]} : v \in Validators}
                \cup {<<FullNode, fullPeer>>}]

\* With at least one gossip peer per validator, the validators' static
\* connections alone reach every validator from every other, and a full
\* node reaches them all through its single peer: a test's gossip network
\* is connected without any dynamic inbound connection.
GossipConnected ==
    (pc = "done" /\ peers >= 1) =>
        LET reach == ConnectionsIn(GossipGraph)
        IN  \A v, w \in Validators : reach[v, w] /\ reach[FullNode, w]
==============================================================================
