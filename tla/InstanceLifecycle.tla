-------------------------- MODULE InstanceLifecycle --------------------------
(***************************************************************************)
(* Starting and terminating a test node: Instance::new(),                  *)
(* InstanceRunner::run() and Instance::terminate() of                      *)
(* node/actors/network/src/testonly.rs.                                    *)
(*                                                                         *)
(* run() opens a scope, spawns the network Runner as a background task and *)
(* waits on the terminate channel (bounded(1)).  When that main task       *)
(* returns, the scope cancels its background tasks and waits for them;     *)
(* only then is the receiver dropped.  terminate() try_sends a unit and    *)
(* waits until the receiver is closed.  The network Runner itself is a     *)
(* task that stops when cancelled, or fails on its own, which cancels the  *)
(* scope and makes run() return the error.                                 *)
(***************************************************************************)
EXTENDS Naturals

CONSTANTS
    Callers    \* tasks that call terminate() on the Instance

VARIABLES
    run,        \* InstanceRunner::run(): "new", "main", "draining", "exited"
    net,        \* the network Runner task: "none", "running", "stopped"
    cancelled,  \* the scope's context is cancelled
    chan,       \* messages in the terminate channel (capacity 1)
    rxOpen,     \* the terminate receiver is alive
    term,       \* term[c]: "idle", "waiting", "returned", "canceled"
    testCtx     \* the test's context, parent of the scope's, is cancelled

vars == <<run, net, cancelled, chan, rxOpen, term, testCtx>>

\* channel::bounded(1) in Instance::new().
Capacity == 1

Init ==
    /\ run = "new" /\ net = "none" /\ cancelled = FALSE
    /\ chan = 0 /\ rxOpen = TRUE
    /\ term = [c \in Callers |-> "idle"]
    /\ testCtx = FALSE

\* scope::run!: s.spawn_bg(self.runner.run(ctx)).
RunStart ==
    /\ run = "new"
    /\ run' = "main" /\ net' = "running"
    /\ UNCHANGED <<cancelled, chan, rxOpen, term, testCtx>>

\* Mutant: drop(self.terminate) moved into the main task, before the
\* scope has waited for the Runner.
RunRecvDropsEarly ==
    /\ run = "main"
    /\ chan > 0 \/ cancelled
    /\ chan' = IF chan > 0 THEN chan - 1 ELSE chan
    /\ cancelled' = TRUE
    /\ run' = "draining" /\ rxOpen' = FALSE
    /\ UNCHANGED <<net, term, testCtx>>

\* Mutant: the Runner spawned with s.spawn(), as a second main task, so
\* the end of the first one cancels nothing.
RunRecvNoCancel ==
    /\ run = "main"
    /\ chan > 0 \/ cancelled
    /\ chan' = IF chan > 0 THEN chan - 1 ELSE chan
    /\ run' = "draining"
    /\ UNCHANGED <<net, cancelled, rxOpen, term, testCtx>>

\* let _ = self.terminate.recv(ctx).await; Ok(()): a message, or the
\* scope's cancellation, ends the only main task, and the scope cancels
\* the background tasks.
RunRecv ==
    /\ run = "main"
    /\ chan > 0 \/ cancelled
    /\ chan' = IF chan > 0 THEN chan - 1 ELSE chan
    /\ cancelled' = TRUE
    /\ run' = "draining"
    /\ UNCHANGED <<net, rxOpen, term, testCtx>>

\* The network Runner returns: on cancellation, or with an error at any
\* time, which cancels the whole scope.
NetStop ==
    /\ net = "running" /\ cancelled
    /\ net' = "stopped"
    /\ UNCHANGED <<run, cancelled, chan, rxOpen, term, testCtx>>

NetFail ==
    /\ net = "running"
    /\ net' = "stopped" /\ cancelled' = TRUE
    /\ UNCHANGED <<run, chan, rxOpen, term, testCtx>>

\* scope::run! returns once every task has; then drop(self.terminate), or
\* on the error path `?` drops self with the receiver in it.
RunExit ==
    /\ run = "draining" /\ net = "stopped"
    /\ run' = "exited" /\ rxOpen' = FALSE
    /\ UNCHANGED <<net, cancelled, chan, term, testCtx>>

\* The test's context is cancelled, and with it the scope's.
ParentCancel ==
    /\ ~testCtx
    /\ testCtx' = TRUE /\ cancelled' = TRUE
    /\ UNCHANGED <<run, net, chan, rxOpen, term>>

\* let _ = self.terminate.try_send(()): fails, ignored, when the channel
\* is full or the receiver is gone.
TerminateCall(c) ==
    /\ term[c] = "idle"
    /\ chan' = IF rxOpen /\ chan < Capacity THEN chan + 1 ELSE chan
    /\ term' = [term EXCEPT ![c] = "waiting"]
    /\ UNCHANGED <<run, net, cancelled, rxOpen, testCtx>>

\* self.terminate.closed(ctx).await: Ok once the receiver is gone, or
\* Canceled when the caller's (the test's) context is.
TerminateReturn(c) ==
    /\ term[c] = "waiting"
    /\ \/ ~rxOpen /\ term' = [term EXCEPT ![c] = "returned"]
       \/ testCtx /\ term' = [term EXCEPT ![c] = "canceled"]
    /\ UNCHANGED <<run, net, cancelled, chan, rxOpen, testCtx>>

Node == RunStart \/ RunRecv \/ NetStop \/ RunExit

Next ==
    \/ Node \/ NetFail \/ ParentCancel
    \/ \E c \in Callers : TerminateCall(c) \/ TerminateReturn(c)

\* The tasks are polled, and the network Runner honours cancellation.  A
\* test need not call terminate(), nor run() before it.
Spec ==
    /\ Init /\ [][Next]_vars
    /\ WF_vars(RunRecv \/ NetStop \/ RunExit)
    /\ \A c \in Callers : WF_vars(TerminateReturn(c))

-----------------------------------------------------------------------------

\* When terminate() returns, the node is really down: the network Runner
\* has stopped and InstanceRunner::run() has finished, because the
\* receiver is dropped only after the scope has waited for its tasks.
TerminatedMeansStopped ==
    \A c \in Callers : term[c] = "returned" => net = "stopped" /\ run = "exited"

\* Once run() has started, every terminate() call returns, whether it was
\* the one whose message got through or a later one whose try_send failed;
\* and it returns Ok unless the test's context was cancelled.
TerminateReturns ==
    \A c \in Callers :
        (term[c] = "waiting" /\ run /= "new")
            ~> (term[c] = "returned" \/ (term[c] = "canceled" /\ testCtx))
==============================================================================
