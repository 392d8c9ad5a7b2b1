--------------------------- MODULE InstantNetwork ---------------------------
(***************************************************************************)
(* testonly::instant_network() and Instance::wait_for_consensus_connections *)
(* of node/actors/network/src/testonly.rs, against the network state they  *)
(* watch.                                                                  *)
(*                                                                         *)
(* instant_network() visits the nodes in order three times: it collects    *)
(* each node's own validator address from that node's validator_addrs     *)
(* watch, broadcasts the collected list to every node, then waits for      *)
(* every node's consensus connections.  The watches are changed by the     *)
(* nodes' network Runners, code outside this repository; they are an       *)
(* environment here: a node announces its own address again and again, a  *)
(* node learns other nodes' addresses by gossip, and a node dials every    *)
(* validator whose address it knows, itself included (the helper waits for *)
(* the whole validator set, so the network must connect a validator to    *)
(* itself).  An address is abstracted to the node it belongs to.           *)
(*                                                                         *)
(* The test's context may be cancelled at any time; the Runners then stop  *)
(* and drop their connections.                                             *)
(***************************************************************************)
EXTENDS Naturals, Sequences, SequencesExt

CONSTANT N   \* the number of validator nodes passed to instant_network()

ASSUME N \in Nat \ {0}

\* The nodes, in the order of the iterator (genesis.validators is all of them).
Nodes == 1..N

VARIABLES
    known,      \* known[v]: whose addresses node v's validator_addrs holds
    pending,    \* the receiver instant_network holds has an unseen version
    outC,       \* outC[v]: consensus.outbound of node v
    inC,        \* inC[v]: consensus.inbound of node v
    pc,         \* where instant_network() is
    k,          \* the node the current loop is at
    addrs,      \* the collected addresses, in order
    cancelled,  \* the context is cancelled
    cancelPc    \* history: where instant_network() was when it was cancelled

vars == <<known, pending, outC, inC, pc, k, addrs, cancelled, cancelPc>>

Init ==
    /\ known = [v \in Nodes |-> {}]
    /\ pending = FALSE
    /\ outC = [v \in Nodes |-> {}] /\ inC = [v \in Nodes |-> {}]
    /\ pc = "subscribe" /\ k = 1 /\ addrs = <<>>
    /\ cancelled = FALSE /\ cancelPc = "none"

\* The node whose validator_addrs instant_network() is subscribed to.
Subscribed(v) == pc = "changed" /\ k = v

\* Any update of v's validator_addrs bumps its version.
Bump(v) == pending' = (pending \/ Subscribed(v))

-----------------------------------------------------------------------------
(* The network (environment).                                              *)

\* The node's address announcer publishes its own address, with a fresh
\* version, into its validator_addrs.
Announce(v) ==
    /\ ~cancelled
    /\ known' = [known EXCEPT ![v] = @ \cup {v}]
    /\ Bump(v)
    /\ UNCHANGED <<outC, inC, pc, k, addrs, cancelled, cancelPc>>

\* w's address reaches v by gossip.
Learn(v, w) ==
    /\ ~cancelled /\ w \in known[w] /\ w \notin known[v]
    /\ known' = [known EXCEPT ![v] = @ \cup {w}]
    /\ Bump(v)
    /\ UNCHANGED <<outC, inC, pc, k, addrs, cancelled, cancelPc>>

\* v dials w, whose address it knows: v registers the outbound connection,
\* and w, in its own time, the inbound one.
ConnectOut(v, w) ==
    /\ ~cancelled /\ w \in known[v] /\ w \notin outC[v]
    /\ outC' = [outC EXCEPT ![v] = @ \cup {w}]
    /\ UNCHANGED <<known, pending, inC, pc, k, addrs, cancelled, cancelPc>>

ConnectIn(v, w) ==
    /\ ~cancelled /\ w \in known[v] /\ v \notin inC[w]
    /\ inC' = [inC EXCEPT ![w] = @ \cup {v}]
    /\ UNCHANGED <<known, pending, outC, pc, k, addrs, cancelled, cancelPc>>

\* The test's context is cancelled.
Cancel ==
    /\ ~cancelled /\ cancelled' = TRUE /\ cancelPc' = pc
    /\ UNCHANGED <<known, pending, outC, inC, pc, k, addrs>>

\* Node v's Runner stops on cancellation and drops its connections.
Stop(v) ==
    /\ cancelled /\ outC[v] \cup inC[v] /= {}
    /\ outC' = [outC EXCEPT ![v] = {}] /\ inC' = [inC EXCEPT ![v] = {}]
    /\ UNCHANGED <<known, pending, pc, k, addrs, cancelled, cancelPc>>

-----------------------------------------------------------------------------
(* instant_network().                                                      *)

\* let sub = &mut node.net.gossip.validator_addrs.subscribe(): the current
\* version is marked seen.
Subscribe ==
    /\ pc = "subscribe"
    /\ pending' = FALSE /\ pc' = "changed"
    /\ UNCHANGED <<known, outC, inC, k, addrs, cancelled, cancelPc>>

\* sync::changed(ctx, sub).await? returns once there is an unseen version;
\* get(&key) finds the node's own address (push it, break) or not (loop).
Changed ==
    /\ pc = "changed" /\ pending
    /\ pending' = FALSE
    /\ IF k \in known[k]
          THEN /\ addrs' = Append(addrs, k) /\ k' = (k % N) + 1
               /\ pc' = IF k = N THEN "update" ELSE "subscribe"
          ELSE UNCHANGED <<addrs, k, pc>>
    /\ UNCHANGED <<known, outC, inC, cancelled, cancelPc>>

\* sync::changed returns Canceled, and `?` returns it.
ChangedCanceled ==
    /\ pc = "changed" /\ cancelled
    /\ pc' = "failed"
    /\ UNCHANGED <<known, pending, outC, inC, k, addrs, cancelled, cancelPc>>

\* validator_addrs.update(&genesis.validators, &addrs).await.unwrap().
Update ==
    /\ pc = "update"
    /\ known' = [known EXCEPT ![k] = @ \cup ToSet(addrs)]
    /\ k' = (k % N) + 1
    /\ pc' = IF k = N THEN "wait_inbound" ELSE "update"
    /\ UNCHANGED <<pending, outC, inC, addrs, cancelled, cancelPc>>

(* wait_for_consensus_connections(): tokio's wait_for, without ctx, on the *)
(* inbound then the outbound set, each until it equals the validator set. *)
\* Mutant: `want` built from the validators other than the node itself.
WaitInboundWithoutSelf ==
    /\ pc = "wait_inbound" /\ inC[k] = Nodes \ {k}
    /\ pc' = "wait_outbound"
    /\ UNCHANGED <<known, pending, outC, inC, k, addrs, cancelled, cancelPc>>

WaitInbound ==
    /\ pc = "wait_inbound" /\ inC[k] = Nodes
    /\ pc' = "wait_outbound"
    /\ UNCHANGED <<known, pending, outC, inC, k, addrs, cancelled, cancelPc>>

\* Mutant: the second wait copied from the first, on the inbound set.
WaitOutboundOnInbound ==
    /\ pc = "wait_outbound" /\ inC[k] = Nodes
    /\ k' = (k % N) + 1
    /\ pc' = IF k = N THEN "done" ELSE "wait_inbound"
    /\ UNCHANGED <<known, pending, outC, inC, addrs, cancelled, cancelPc>>

WaitOutbound ==
    /\ pc = "wait_outbound" /\ outC[k] = Nodes
    /\ k' = (k % N) + 1
    /\ pc' = IF k = N THEN "done" ELSE "wait_inbound"
    /\ UNCHANGED <<known, pending, outC, inC, addrs, cancelled, cancelPc>>

Helper == Subscribe \/ Changed \/ ChangedCanceled \/ Update \/ WaitInbound \/ WaitOutbound

Next ==
    \/ Helper
    \/ \E v \in Nodes : Announce(v) \/ Stop(v)
    \/ \E v, w \in Nodes : Learn(v, w) \/ ConnectOut(v, w) \/ ConnectIn(v, w)
    \/ Cancel

\* instant_network's task is polled; the Runners keep announcing the
\* address, keep dialling every known validator and stop on cancellation.
\* Gossip and cancellation are not assumed to happen.
Spec ==
    /\ Init /\ [][Next]_vars
    /\ WF_vars(Helper)
    /\ \A v \in Nodes : WF_vars(Announce(v)) /\ WF_vars(Stop(v))
    /\ \A v, w \in Nodes : WF_vars(ConnectOut(v, w)) /\ WF_vars(ConnectIn(v, w))

-----------------------------------------------------------------------------

\* When instant_network() returns, and the Runners are still up, every
\* validator is connected to every validator in both directions, although
\* the helper waited for each set of each node at a different moment.
ConnectedWhenReturned ==
    (pc = "done" /\ ~cancelled) =>
        \A v \in Nodes : inC[v] = Nodes /\ outC[v] = Nodes

\* instant_network() returns, although an address announced before the
\* subscription is not a change sync::changed() reports: the announcer's
\* next announcement is.  (Cancellation is the other way out.)
InstantNetworkReturns ==
    <>(pc = "done" \/ cancelled)

\* Cancelling the context makes instant_network() return (Canceled or Ok),
\* as its signature and its first loop promise, also when the
\* cancellation comes after the address loop, where nothing it awaits
\* takes ctx: the updates and wait_for_consensus_connections().
CancelHonoured ==
    (cancelled /\ cancelPc \in {"update", "wait_inbound", "wait_outbound"})
        ~> pc \in {"done", "failed"}
====
