--------------------------- MODULE BlockStoreLocks ---------------------------
(***************************************************************************)
(* The lock discipline of node/libs/storage/src/block_store/mod.rs.        *)
(*                                                                         *)
(* BlockStore.inner is a watch::Sender<Inner>; Inner.queued_state is a     *)
(* second watch::Sender nested inside it.  Each watch guards its value     *)
(* with a std RwLock: borrow() and the predicate of wait_for() take it     *)
(* for reading, send_modify()/send_if_modified() for writing, and a Ref    *)
(* returned by wait_for() keeps the read lock until it is dropped.  The    *)
(* std lock blocks the thread, cannot be cancelled and is not re-entrant.  *)
(*                                                                         *)
(* Only the lock traffic is modelled: what each method of BlockStore and   *)
(* BlockStoreRunner::run asks for, in which order, and what it still holds *)
(* at that moment.  The data the locks protect is modelled in BlockStore;  *)
(* here the outcome of every check made under a lock is a free choice.     *)
(***************************************************************************)
EXTENDS Naturals, FiniteSets

CONSTANTS
    Tasks,            \* concurrent callers of the BlockStore handle
    Runner,           \* the BlockStoreRunner task
    WriterPreferring  \* a reader waits while a writer waits (std futex RwLock)

ASSUME Runner \notin Tasks /\ WriterPreferring \in BOOLEAN

VARIABLES
    pc,    \* where each task is inside its current call
    want,  \* the lock request each task is blocked on, or NoWant
    rd,    \* rd[l]: the tasks holding lock l for reading
    wr     \* wr[l]: the task holding lock l for writing (at most one)

vars == <<pc, want, rd, wr>>

Procs == Tasks \cup {Runner}

\* "inner" is BlockStore.inner, "queued_state" is Inner.queued_state.
Locks == {"inner", "queued_state"}

Req(l, m) == [lock |-> l, mode |-> m]
NoWant == [lock |-> "none", mode |-> "none"]

-----------------------------------------------------------------------------
(* The std RwLock under every watch channel.                               *)

\* The tasks p has to wait for before its request is granted: the writer
\* holding the lock, the readers if p wants to write, and, on a
\* writer-preferring lock, any other task waiting to write.  p itself is
\* among them when it asks again for a lock it holds (no re-entrancy).
Blockers(p) ==
    LET l == want[p].lock
    IN  IF want[p] = NoWant THEN {}
        ELSE wr[l]
             \cup (IF want[p].mode = "write" THEN rd[l] ELSE {})
             \cup (IF want[p].mode = "read" /\ WriterPreferring
                     THEN {q \in Procs \ {p} : want[q] = Req(l, "write")}
                     ELSE {})

Granted(p) == want[p] /= NoWant /\ Blockers(p) = {}

\* Task p moves to label `at`, where it asks for lock request r.
Goto(p, at, r) ==
    /\ pc' = [pc EXCEPT ![p] = at]
    /\ want' = [want EXCEPT ![p] = r]

AddReader(l, p) == rd' = [rd EXCEPT ![l] = @ \cup {p}]
DropReader(l, p) == rd' = [rd EXCEPT ![l] = @ \ {p}]

-----------------------------------------------------------------------------
(* BlockStore::subscribe(): inner.borrow() for the length of the           *)
(* statement, then queued_state.subscribe(), which takes no lock.          *)
Subscribe(p, at, r) == Granted(p) /\ Goto(p, at, r) /\ UNCHANGED <<rd, wr>>

Init ==
    /\ pc = [p \in Procs |-> IF p = Runner THEN "r_wait" ELSE "idle"]
    /\ want = [p \in Procs |-> IF p = Runner THEN Req("inner", "read") ELSE NoWant]
    /\ rd = [l \in Locks |-> {}]
    /\ wr = [l \in Locks |-> {}]

(* queue_block(): subscribe, wait_for on queued_state, the checks under    *)
(* the Ref it returns, then inner.send_if_modified with the nested         *)
(* queued_state.send_if_modified inside.                                   *)
QueueBlockCall(p) ==
    pc[p] = "idle" /\ Goto(p, "q_subscribe", Req("inner", "read")) /\ UNCHANGED <<rd, wr>>

QueueBlockSubscribe(p) ==
    pc[p] = "q_subscribe" /\ Subscribe(p, "q_wait_for", Req("queued_state", "read"))

\* The predicate holds and the Ref is returned still locked; or it fails,
\* the borrow is dropped and the context is cancelled during the wait.
QueueBlockWait(p) ==
    /\ pc[p] = "q_wait_for"
    /\ Granted(p)
    /\ \/ Goto(p, "q_checks", NoWant) /\ AddReader("queued_state", p)
       \/ Goto(p, "idle", NoWant) /\ UNCHANGED rd
    /\ UNCHANGED wr

\* Mutant: the wait_for Ref bound to a variable that lives until the end of
\* queue_block(), across send_if_modified.
QueueBlockCheckKeepsRef(p) ==
    /\ pc[p] = "q_checks"
    /\ \/ Goto(p, "idle", NoWant) /\ DropReader("queued_state", p)
       \/ Goto(p, "q_send", Req("inner", "write")) /\ UNCHANGED rd
    /\ UNCHANGED wr

\* The Ref goes out of scope at the end of the block; the call returns
\* early (stale number, verify error, parent mismatch) or goes on to lock.
QueueBlockCheck(p) ==
    /\ pc[p] = "q_checks"
    /\ DropReader("queued_state", p)
    /\ \/ Goto(p, "idle", NoWant)
       \/ Goto(p, "q_send", Req("inner", "write"))
    /\ UNCHANGED wr

QueueBlockLock(p) ==
    /\ pc[p] = "q_send"
    /\ Granted(p)
    /\ wr' = [wr EXCEPT !["inner"] = {p}]
    /\ Goto(p, "q_nested", Req("queued_state", "write"))
    /\ UNCHANGED rd

\* The nested send_if_modified locks queued_state, runs its closure and
\* unlocks; then the outer closure pushes the block and inner is unlocked.
QueueBlockCommit(p) ==
    /\ pc[p] = "q_nested"
    /\ Granted(p)
    /\ wr' = [wr EXCEPT !["inner"] = {}]
    /\ Goto(p, "idle", NoWant)
    /\ UNCHANGED rd

(* block(): inner.borrow() held across a temporary queued_state borrow;    *)
(* the persistent read comes after the inner borrow is dropped.            *)
BlockCall(p) ==
    pc[p] = "idle" /\ Goto(p, "b_borrow", Req("inner", "read")) /\ UNCHANGED <<rd, wr>>

BlockBorrow(p) ==
    /\ pc[p] = "b_borrow"
    /\ Granted(p)
    /\ AddReader("inner", p)
    /\ Goto(p, "b_contains", Req("queued_state", "read"))
    /\ UNCHANGED wr

BlockContains(p) ==
    /\ pc[p] = "b_contains"
    /\ Granted(p)
    /\ DropReader("inner", p)
    /\ \/ Goto(p, "idle", NoWant)
       \/ Goto(p, "b_persistent", NoWant)
    /\ UNCHANGED wr

BlockFetch(p) ==
    pc[p] = "b_persistent" /\ Goto(p, "idle", NoWant) /\ UNCHANGED <<rd, wr>>

(* wait_until_queued(): subscribe(), then wait_for on queued_state.        *)
(* wait_until_persisted(): inner.subscribe() (no lock), then wait_for on   *)
(* inner.  Their predicates are read under a borrow dropped at once; a     *)
(* false predicate followed by a wake-up repeats the same step.            *)
WaitUntilQueuedCall(p) ==
    pc[p] = "idle" /\ Goto(p, "wq_subscribe", Req("inner", "read")) /\ UNCHANGED <<rd, wr>>

WaitUntilQueuedSubscribe(p) ==
    pc[p] = "wq_subscribe" /\ Subscribe(p, "wq_wait_for", Req("queued_state", "read"))

WaitUntilQueuedWait(p) ==
    pc[p] = "wq_wait_for" /\ Granted(p) /\ Goto(p, "idle", NoWant) /\ UNCHANGED <<rd, wr>>

WaitUntilPersistedCall(p) ==
    pc[p] = "idle" /\ Goto(p, "wp_wait_for", Req("inner", "read")) /\ UNCHANGED <<rd, wr>>

WaitUntilPersistedWait(p) ==
    pc[p] = "wp_wait_for" /\ Granted(p) /\ Goto(p, "idle", NoWant) /\ UNCHANGED <<rd, wr>>

(* scrape_metrics(), called by the metrics collector registered in run()  *)
(* through a Weak upgrade: inner.borrow() held                             *)
(* across a temporary queued_state borrow.                                 *)
ScrapeMetricsCall(p) ==
    pc[p] = "idle" /\ Goto(p, "m_borrow", Req("inner", "read")) /\ UNCHANGED <<rd, wr>>

ScrapeMetricsBorrow(p) ==
    /\ pc[p] = "m_borrow"
    /\ Granted(p)
    /\ AddReader("inner", p)
    /\ Goto(p, "m_queued", Req("queued_state", "read"))
    /\ UNCHANGED wr

ScrapeMetricsRead(p) ==
    /\ pc[p] = "m_queued"
    /\ Granted(p)
    /\ DropReader("inner", p)
    /\ Goto(p, "idle", NoWant)
    /\ UNCHANGED wr

(* BlockStoreRunner::run.  The Ref of wait_for is a temporary dropped at   *)
(* the end of the statement that clones queue[0]; store_next_block holds   *)
(* no lock; send_modify locks inner for the length of its closure.         *)
(* Cancellation and errors end the loop.                                   *)
\* Mutant: the Ref of wait_for kept in a variable for the whole iteration.
RunnerWaitKeepsRef ==
    /\ pc[Runner] = "r_wait"
    /\ Granted(Runner)
    /\ \/ Goto(Runner, "r_store", NoWant) /\ AddReader("inner", Runner)
       \/ Goto(Runner, "r_done", NoWant) /\ UNCHANGED rd
    /\ UNCHANGED wr

RunnerWait ==
    /\ pc[Runner] = "r_wait"
    /\ Granted(Runner)
    /\ \/ Goto(Runner, "r_store", NoWant)
       \/ Goto(Runner, "r_done", NoWant)
    /\ UNCHANGED <<rd, wr>>

RunnerStore ==
    /\ pc[Runner] = "r_store"
    /\ \/ Goto(Runner, "r_commit", Req("inner", "write"))
       \/ Goto(Runner, "r_done", NoWant)
    /\ UNCHANGED <<rd, wr>>

RunnerCommit ==
    /\ pc[Runner] = "r_commit"
    /\ Granted(Runner)
    /\ Goto(Runner, "r_wait", Req("inner", "read"))
    /\ UNCHANGED <<rd, wr>>

-----------------------------------------------------------------------------
Caller(p) ==
    \/ QueueBlockCall(p) \/ QueueBlockSubscribe(p) \/ QueueBlockWait(p)
    \/ QueueBlockCheck(p) \/ QueueBlockLock(p) \/ QueueBlockCommit(p)
    \/ BlockCall(p) \/ BlockBorrow(p) \/ BlockContains(p) \/ BlockFetch(p)
    \/ WaitUntilQueuedCall(p) \/ WaitUntilQueuedSubscribe(p)
    \/ WaitUntilQueuedWait(p)
    \/ WaitUntilPersistedCall(p) \/ WaitUntilPersistedWait(p)
    \/ ScrapeMetricsCall(p) \/ ScrapeMetricsBorrow(p) \/ ScrapeMetricsRead(p)

RunnerStep == RunnerWait \/ RunnerStore \/ RunnerCommit

Next == (\E p \in Tasks : Caller(p)) \/ RunnerStep

\* Tasks are polled by the executor and a thread blocked on a std lock is
\* woken when it is released, so every task that can move eventually does.
Spec ==
    /\ Init /\ [][Next]_vars
    /\ \A p \in Tasks : WF_vars(Caller(p))
    /\ WF_vars(RunnerStep)

-----------------------------------------------------------------------------

\* No set of tasks waits on itself: there is never a non-empty set of
\* tasks each blocked by a member of the same set (a cycle of the wait-for
\* graph).  Such a set is deadlocked, since none of its members can release
\* what another waits for and a blocked std lock cannot be cancelled.  This
\* is what the order inner -> queued_state, and dropping the wait_for Ref
\* of queue_block() before locking inner, buy.
NoDeadlock ==
    ~\E S \in SUBSET Procs :
        S /= {} /\ \A p \in S : Blockers(p) \cap S /= {}

\* Every lock a task holds is eventually released: no holder of inner or
\* queued_state (queue_block() in its commit, block(), scrape_metrics(),
\* the runner) is stuck for ever, so no caller starves behind it.
HolderReleases ==
    \A p \in Procs, l \in Locks :
        (p \in rd[l] \cup wr[l]) ~> (p \notin rd[l] \cup wr[l])
==============================================================================
