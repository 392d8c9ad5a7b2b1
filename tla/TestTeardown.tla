---------------------------- MODULE TestTeardown ----------------------------
(***************************************************************************)
(* The teardown a network test performs with testonly.rs: it terminates a  *)
(* peer's Instance (Instance::terminate, InstanceLifecycle), and once that *)
(* returns it waits, on another node, for the gossip and the consensus     *)
(* connection to the peer to go (wait_for_*_disconnect, NetworkWaits).     *)
(*                                                                         *)
(* The two components share the peer's network Runner: the peer is up for *)
(* the waiting node exactly while that Runner runs.  The test's context is *)
(* both the parent of the peer's scope and the ctx of the disconnect       *)
(* helpers.                                                                *)
(***************************************************************************)
EXTENDS TLC

CONSTANTS
    Test,   \* the test task, the one caller of terminate()
    Peer    \* the peer's node, the disconnect target

VARIABLES
    run, net, cancelled, chan, rxOpen, term, testCtx,   \* InstanceLifecycle
    inb, outb, dwait, downAtCall                        \* NetworkWaits

lifeVars == <<run, net, cancelled, chan, rxOpen, term, testCtx>>
waitVars == <<inb, outb, dwait, downAtCall>>
vars == <<lifeVars, waitVars>>

L == INSTANCE InstanceLifecycle WITH Callers <- {Test}

\* The peer is up while its Runner runs; the helpers' ctx is the test's.
W == INSTANCE NetworkWaits
        WITH Peers <- {Peer}, Static <- {Peer}, Target <- Peer,
             up <- Peer :> (net = "running"),
             cancelled <- testCtx, gwait <- "idle"

Kinds == W!Kinds

\* NetworkWaits' Init, but for the peer, which is not up before run().
Init ==
    /\ L!Init
    /\ inb = [k \in Kinds |-> {}] /\ outb = [k \in Kinds |-> {}]
    /\ dwait = [k \in Kinds |-> "idle"] /\ downAtCall = [k \in Kinds |-> FALSE]

\* A step of the peer's Instance; the waiting node's pools are unchanged.
Life ==
    /\ \/ L!Node \/ L!NetFail \/ L!ParentCancel
       \/ L!TerminateCall(Test) \/ L!TerminateReturn(Test)
    /\ UNCHANGED waitVars

\* The waiting node's Runner; the peer's Runner is unchanged.  (The frame
\* condition comes first: the substituted `up` is read primed.)
Net ==
    /\ UNCHANGED lifeVars
    /\ \E k \in Kinds :
          W!DialOut(k, Peer) \/ W!Accept(k, Peer) \/ W!DropIn(k, Peer) \/ W!DropOut(k, Peer)

\* `instance.terminate(ctx).await?;` then the disconnect helper: the test
\* calls it only after terminate() returned Ok.
DisconnectCall(k) ==
    /\ term[Test] = "returned"
    /\ UNCHANGED lifeVars
    /\ W!DisconnectCall(k)

Wait(k) ==
    /\ UNCHANGED lifeVars
    /\ W!DisconnectInbound(k) \/ W!DisconnectOutbound(k)

Next == Life \/ Net \/ \E k \in Kinds : DisconnectCall(k) \/ Wait(k)

\* The fairness of both components; the test task, once terminate() has
\* returned, goes on to call the helpers.
Spec ==
    /\ Init /\ [][Next]_vars
    /\ WF_vars((L!RunRecv \/ L!NetStop \/ L!RunExit) /\ UNCHANGED waitVars)
    /\ WF_vars(L!TerminateReturn(Test) /\ UNCHANGED waitVars)
    /\ \A k \in Kinds :
          /\ WF_vars(DisconnectCall(k))
          /\ WF_vars(UNCHANGED lifeVars /\ W!DisconnectInbound(k))
          /\ WF_vars(UNCHANGED lifeVars /\ W!DisconnectOutbound(k))
          /\ WF_vars(UNCHANGED lifeVars /\ W!DialOut(k, Peer))
          /\ WF_vars(UNCHANGED lifeVars /\ W!DropIn(k, Peer))
          /\ WF_vars(UNCHANGED lifeVars /\ W!DropOut(k, Peer))
    /\ WF_vars(UNCHANGED lifeVars /\ W!Accept("consensus", Peer))

-----------------------------------------------------------------------------
\* A disconnect helper called after terminate() returned Ok reports the
\* peer gone only when it is gone from both pools' sets: terminate()
\* returns after the peer's Runner has stopped, so the peer cannot
\* reconnect between the helper's inbound and outbound waits.
DisconnectedAfterTerminate ==
    \A k \in Kinds : dwait[k] = "done" => Peer \notin inb[k] \cup outb[k]

\* Once the peer's Instance runs, the test's teardown completes: terminate()
\* returns and both disconnect helpers return, unless the test's context
\* is cancelled.
TeardownCompletes ==
    (term[Test] = "waiting" /\ run /= "new")
        ~> (testCtx \/ \A k \in Kinds : dwait[k] = "done")
==============================================================================
