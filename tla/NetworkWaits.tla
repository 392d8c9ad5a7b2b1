---------------------------- MODULE NetworkWaits ----------------------------
(***************************************************************************)
(* The waiting helpers of Instance in node/actors/network/src/testonly.rs  *)
(* other than wait_for_consensus_connections (see InstantNetwork):         *)
(* wait_for_gossip_connections, wait_for_gossip_disconnect and             *)
(* wait_for_consensus_disconnect, run by a test against one node.          *)
(*                                                                         *)
(* The node's gossip and consensus connection sets are changed by its      *)
(* network Runner, code outside this repository; here they are an          *)
(* environment.  The node dials its static gossip peers and every          *)
(* validator; a peer's node accepts or dials back while it runs; once a    *)
(* peer's node has stopped (terminate(), or its Runner failed) the node    *)
(* under test notices each of the two connections closed, in its own time. *)
(* A stopped node is not started again: a test builds a new Instance.      *)
(***************************************************************************)
CONSTANTS
    Peers,    \* the other nodes (validators, for consensus connections)
    Static,   \* cfg.gossip.static_outbound.keys()
    Target    \* the peer passed to the disconnect helpers

ASSUME Static \subseteq Peers /\ Target \in Peers

\* The two connection pools of the node: net.gossip and net.consensus.
Kinds == {"gossip", "consensus"}

VARIABLES
    up,         \* up[p]: the node of peer p runs
    inb,        \* inb[k]: the peers in pool k's inbound set
    outb,       \* outb[k]: the peers in pool k's outbound set
    gwait,      \* wait_for_gossip_connections: "idle", "wait", "done"
    dwait,      \* dwait[k]: the disconnect helper of pool k
    downAtCall, \* downAtCall[k]: Target had stopped when dwait[k] was called
    cancelled   \* the context passed to the disconnect helpers is cancelled

vars == <<up, inb, outb, gwait, dwait, downAtCall, cancelled>>

Init ==
    /\ up = [p \in Peers |-> TRUE]
    /\ inb = [k \in Kinds |-> {}] /\ outb = [k \in Kinds |-> {}]
    /\ gwait = "idle"
    /\ dwait = [k \in Kinds |-> "idle"] /\ downAtCall = [k \in Kinds |-> FALSE]
    /\ cancelled = FALSE

-----------------------------------------------------------------------------
(* The network (environment).                                              *)

\* The node dials p: a static gossip peer, or any validator.
DialOut(k, p) ==
    /\ up[p] /\ p \notin outb[k] /\ (k = "gossip" => p \in Static)
    /\ outb' = [outb EXCEPT ![k] = @ \cup {p}]
    /\ UNCHANGED <<up, inb, gwait, dwait, downAtCall, cancelled>>

\* p dials the node.
Accept(k, p) ==
    /\ up[p] /\ p \notin inb[k]
    /\ inb' = [inb EXCEPT ![k] = @ \cup {p}]
    /\ UNCHANGED <<up, outb, gwait, dwait, downAtCall, cancelled>>

\* The node notices that a connection to a stopped peer is closed.
DropIn(k, p) ==
    /\ ~up[p] /\ p \in inb[k]
    /\ inb' = [inb EXCEPT ![k] = @ \ {p}]
    /\ UNCHANGED <<up, outb, gwait, dwait, downAtCall, cancelled>>

DropOut(k, p) ==
    /\ ~up[p] /\ p \in outb[k]
    /\ outb' = [outb EXCEPT ![k] = @ \ {p}]
    /\ UNCHANGED <<up, inb, gwait, dwait, downAtCall, cancelled>>

\* p's node stops.
Stop(p) ==
    /\ up[p] /\ up' = [up EXCEPT ![p] = FALSE]
    /\ UNCHANGED <<inb, outb, gwait, dwait, downAtCall, cancelled>>

Cancel ==
    /\ ~cancelled /\ cancelled' = TRUE
    /\ UNCHANGED <<up, inb, outb, gwait, dwait, downAtCall>>

-----------------------------------------------------------------------------
(* The helpers.                                                            *)

GossipCall ==
    /\ gwait = "idle" /\ gwait' = "wait"
    /\ UNCHANGED <<up, inb, outb, dwait, downAtCall, cancelled>>

\* Mutant: the wait on gossip.inbound instead of gossip.outbound.
GossipReturnOnInbound ==
    /\ gwait = "wait" /\ Static \subseteq inb["gossip"]
    /\ gwait' = "done"
    /\ UNCHANGED <<up, inb, outb, dwait, downAtCall, cancelled>>

\* outbound.subscribe().wait_for(|got| want.is_subset(got.current())):
\* tokio's wait_for, with no context; `want` is the static peers' keys.
GossipReturn ==
    /\ gwait = "wait" /\ Static \subseteq outb["gossip"]
    /\ gwait' = "done"
    /\ UNCHANGED <<up, inb, outb, dwait, downAtCall, cancelled>>

\* The test calls wait_for_{gossip,consensus}_disconnect(ctx, Target).
DisconnectCall(k) ==
    /\ dwait[k] = "idle"
    /\ dwait' = [dwait EXCEPT ![k] = "inbound"]
    /\ downAtCall' = [downAtCall EXCEPT ![k] = ~up[Target]]
    /\ UNCHANGED <<up, inb, outb, gwait, cancelled>>

\* Mutant: `!` dropped from the predicate.
DisconnectInboundNotNegated(k) ==
    /\ dwait[k] = "inbound"
    /\ \/ Target \in inb[k] /\ dwait' = [dwait EXCEPT ![k] = "outbound"]
       \/ cancelled /\ dwait' = [dwait EXCEPT ![k] = "canceled"]
    /\ UNCHANGED <<up, inb, outb, gwait, downAtCall, cancelled>>

\* Mutant: the helper returns after the inbound wait.
DisconnectInboundOnly(k) ==
    /\ dwait[k] = "inbound"
    /\ \/ Target \notin inb[k] /\ dwait' = [dwait EXCEPT ![k] = "done"]
       \/ cancelled /\ dwait' = [dwait EXCEPT ![k] = "canceled"]
    /\ UNCHANGED <<up, inb, outb, gwait, downAtCall, cancelled>>

\* sync::wait_for(ctx, &mut state.inbound.subscribe(),
\*     |got| !got.current().contains(peer)).await?: the predicate is
\* checked on the current value and on every change; cancellation makes
\* it return Canceled, which `?` returns.
DisconnectInbound(k) ==
    /\ dwait[k] = "inbound"
    /\ \/ Target \notin inb[k] /\ dwait' = [dwait EXCEPT ![k] = "outbound"]
       \/ cancelled /\ dwait' = [dwait EXCEPT ![k] = "canceled"]
    /\ UNCHANGED <<up, inb, outb, gwait, downAtCall, cancelled>>

\* The same wait on the outbound set, then Ok(()).
DisconnectOutbound(k) ==
    /\ dwait[k] = "outbound"
    /\ \/ Target \notin outb[k] /\ dwait' = [dwait EXCEPT ![k] = "done"]
       \/ cancelled /\ dwait' = [dwait EXCEPT ![k] = "canceled"]
    /\ UNCHANGED <<up, inb, outb, gwait, downAtCall, cancelled>>

Helpers ==
    \/ GossipCall \/ GossipReturn
    \/ \E k \in Kinds :
          DisconnectCall(k) \/ DisconnectInbound(k) \/ DisconnectOutbound(k)

Next ==
    \/ Helpers
    \/ \E k \in Kinds, p \in Peers :
          DialOut(k, p) \/ Accept(k, p) \/ DropIn(k, p) \/ DropOut(k, p)
    \/ \E p \in Peers : Stop(p)
    \/ Cancel

\* The test's task is polled.  The Runner keeps dialling the peers it
\* dials and notices closed connections; validators dial each other, so a
\* running validator's inbound consensus connection comes; whether a peer
\* dials the node's gossip pool depends on the peer's own config, so that
\* is not assumed.  Stopping a peer and cancelling are the test's choice.
Spec ==
    /\ Init /\ [][Next]_vars
    /\ WF_vars(GossipReturn)
    /\ \A k \in Kinds : WF_vars(DisconnectInbound(k)) /\ WF_vars(DisconnectOutbound(k))
    /\ \A k \in Kinds, p \in Peers :
          /\ WF_vars(DialOut(k, p)) /\ WF_vars(DropIn(k, p)) /\ WF_vars(DropOut(k, p))
    /\ \A p \in Peers : WF_vars(Accept("consensus", p))

-----------------------------------------------------------------------------
\* A disconnect helper called after the peer's node stopped returns Ok only
\* when the peer is in neither set, although it looked at the inbound set
\* and at the outbound set at two different moments.  (Called while the
\* peer still runs, the peer may reconnect in between, and this need not
\* hold.)
DisconnectedWhenReturned ==
    \A k \in Kinds :
        (dwait[k] = "done" /\ downAtCall[k]) => Target \notin inb[k] \cup outb[k]

\* Once the peer's node has stopped, a waiting disconnect helper returns.
DisconnectReturns ==
    \A k \in Kinds :
        (dwait[k] \in {"inbound", "outbound"} /\ ~up[Target])
            ~> dwait[k] \in {"done", "canceled"}

\* If the static peers stay up, wait_for_gossip_connections returns: it
\* waits for the connections the node dials itself, not for any that a
\* peer must choose to open.
GossipConnectionsReturn ==
    (<>[](\A p \in Static : up[p])) => (gwait = "wait" ~> gwait = "done")
==============================================================================
