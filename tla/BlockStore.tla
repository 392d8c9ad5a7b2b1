----------------------------- MODULE BlockStore -----------------------------
(***************************************************************************)
(* The in-memory write-behind BlockStore of                               *)
(* node/libs/storage/src/block_store/mod.rs, in front of the persistent    *)
(* store it owns.                                                          *)
(*                                                                         *)
(* Concurrent callers (Tasks) run queue_block() and block(); one runner    *)
(* task (BlockStoreRunner::run) drains the queue into the persistent       *)
(* store.  Every await of the code is a step boundary; what the code does  *)
(* between two awaits under the watch locks is one atomic action.  The     *)
(* node may crash at any point, losing everything but the persistent       *)
(* store, and is brought back by BlockStore::new().                        *)
(*                                                                         *)
(* A block is abstracted to its header: a number, an id standing for its   *)
(* hash, the id of the parent it names, and whether verify(&genesis)       *)
(* accepts it.  A CommitQC is represented by the header it certifies.      *)
(***************************************************************************)
EXTENDS Integers, Sequences, SequencesExt

CONSTANTS
    First,      \* genesis.fork.first_block
    Blocks,     \* the blocks callers may pass to queue_block()
    Numbers,    \* the block numbers callers may pass to block()
    Tasks,      \* concurrent callers of the BlockStore
    MaxCrashes, \* bound on node crashes
    None        \* Option::None

ASSUME First \in Nat /\ MaxCrashes \in Nat

VARIABLES
    stored,         \* contents of the PersistentBlockStore, in order
    queuedLast,     \* inner.queued_state.last
    persistedLast,  \* inner.persisted_state.last
    queue,          \* inner.queue
    task,           \* program state of each caller
    runner,         \* program state of the BlockStoreRunner task
    up,             \* the BlockStore object exists (FALSE after a crash)
    crashes         \* number of crashes so far

vars == <<stored, queuedLast, persistedLast, queue, task, runner, up, crashes>>

-----------------------------------------------------------------------------
(* Block headers and BlockStoreState.                                      *)

Hash(b) == <<b.number, b.id>>

\* block.header().parent: the hash of the block one below, or None.
ParentHash(b) == IF b.parent = None THEN None ELSE <<b.number - 1, b.parent>>

\* BlockStoreState::next() for state {first: First, last: last}.
NextOf(last) == IF last = None THEN First ELSE last.number + 1

\* BlockStoreState::contains(number).
StateContains(last, n) == last /= None /\ First <= n /\ n <= last.number

\* Everything the store has accepted, in number order: the persistent
\* blocks, then the queued ones the runner has not written yet.  While the
\* runner is between store_next_block() and its commit, the head of the
\* queue is already in the persistent store and counted once.
LogicalChain ==
    LET inStore == Len(stored) - (NextOf(persistedLast) - First)
    IN  IF up THEN stored \o SubSeq(queue, inStore + 1, Len(queue))
              ELSE stored

Idle == [pc |-> "idle", blk |-> None, num |-> None]

-----------------------------------------------------------------------------
(* BlockStore::new(): genesis() and last() are read from the persistent    *)
(* store, last is verified, both states start at {first, last} with an     *)
(* empty queue, and the block at first, if any, is fetched and verified.   *)
(* A failing verification makes new() return an error: no store.          *)

\* PersistentBlockStore::last(): the last block available in storage.
PersistentLast == IF stored = <<>> THEN None ELSE Last(stored)

New ==
    LET last == PersistentLast
    IN  /\ last /= None => last.valid
        /\ StateContains(last, First) => stored[1].valid
        /\ queuedLast' = last
        /\ persistedLast' = last
        /\ queue' = <<>>
        /\ task' = [t \in Tasks |-> Idle]
        /\ runner' = [pc |-> "wait", blk |-> None]

Init ==
    /\ stored = <<>>
    /\ up = TRUE
    /\ crashes = 0
    /\ queuedLast = None
    /\ persistedLast = None
    /\ queue = <<>>
    /\ task = [t \in Tasks |-> Idle]
    /\ runner = [pc |-> "wait", blk |-> None]

-----------------------------------------------------------------------------
(* queue_block(): wait until queued_state.next() >= number, then, under    *)
(* the borrowed snapshot, return Ok for a stale number, fail on verify()   *)
(* or on a parent hash differing from queued_state.last; a block passing   *)
(* all checks goes on to the locked update.                                *)

QueueBlockCall(t, b) ==
    /\ up /\ task[t].pc = "idle"
    /\ task' = [task EXCEPT ![t] = [Idle EXCEPT !.pc = "qwait", !.blk = b]]
    /\ UNCHANGED <<stored, queuedLast, persistedLast, queue, runner, up, crashes>>

\* queue_block() returns Ok: the caller has the result, the block still
\* in hand; QueueBlockReturn hands control back to it.
ReturnedOk(t) == [task[t] EXCEPT !.pc = "qdone"]

\* Mutant: the parent hash check dropped (see PROJECT.json "mutants").
QueueBlockCheckNoParent(t) ==
    LET b == task[t].blk
    IN  /\ up /\ task[t].pc = "qwait"
        /\ NextOf(queuedLast) >= b.number
        /\ task' = [task EXCEPT ![t] =
                      CASE NextOf(queuedLast) > b.number -> ReturnedOk(t)
                        [] ~b.valid                      -> Idle
                        [] OTHER                         -> [@ EXCEPT !.pc = "qcommit"]]
        /\ UNCHANGED <<stored, queuedLast, persistedLast, queue, runner, up, crashes>>

\* Mutant: `>=` for `>` in the stale-number test.
QueueBlockCheckStaleInclusive(t) ==
    LET b == task[t].blk
    IN  /\ up /\ task[t].pc = "qwait"
        /\ NextOf(queuedLast) >= b.number
        /\ task' = [task EXCEPT ![t] =
                      CASE NextOf(queuedLast) >= b.number -> ReturnedOk(t)
                        [] ~b.valid                       -> Idle
                        [] queuedLast /= None /\ ParentHash(b) /= Hash(queuedLast)
                                                          -> Idle
                        [] OTHER                          -> [@ EXCEPT !.pc = "qcommit"]]
        /\ UNCHANGED <<stored, queuedLast, persistedLast, queue, runner, up, crashes>>

\* The checks, in the code's order: a stale number returns Ok, a failing
\* verify() or a wrong parent returns Err (the caller is back to idle).
QueueBlockCheck(t) ==
    LET b == task[t].blk
    IN  /\ up /\ task[t].pc = "qwait"
        /\ NextOf(queuedLast) >= b.number
        /\ task' = [task EXCEPT ![t] =
                      CASE NextOf(queuedLast) > b.number -> ReturnedOk(t)
                        [] ~b.valid                      -> Idle
                        [] queuedLast /= None /\ ParentHash(b) /= Hash(queuedLast)
                                                         -> Idle
                        [] OTHER                         -> [@ EXCEPT !.pc = "qcommit"]]
        /\ UNCHANGED <<stored, queuedLast, persistedLast, queue, runner, up, crashes>>

\* Cancellation of the caller's ctx while it waits for its predecessors.
QueueBlockCancel(t) ==
    /\ up /\ task[t].pc = "qwait"
    /\ task' = [task EXCEPT ![t] = Idle]
    /\ UNCHANGED <<stored, queuedLast, persistedLast, queue, runner, up, crashes>>

\* Mutants of the locked update (see PROJECT.json "mutants").
QueueBlockCommitNoRecheck(t) ==
    /\ up /\ task[t].pc = "qcommit"
    /\ queuedLast' = task[t].blk
    /\ queue' = Append(queue, task[t].blk)
    /\ task' = [task EXCEPT ![t] = ReturnedOk(t)]
    /\ UNCHANGED <<stored, persistedLast, runner, up, crashes>>

\* inner.send_if_modified: re-check queued_state.next() == number (another
\* call may have queued this number meanwhile), then set queued_state.last
\* and push the block; otherwise nothing changes.  queue_block returns Ok.
QueueBlockCommit(t) ==
    LET b == task[t].blk IN
    /\ up /\ task[t].pc = "qcommit"
    /\ IF NextOf(queuedLast) = b.number
          THEN queuedLast' = b /\ queue' = Append(queue, b)
          ELSE UNCHANGED <<queuedLast, queue>>
    /\ task' = [task EXCEPT ![t] = ReturnedOk(t)]
    /\ UNCHANGED <<stored, persistedLast, runner, up, crashes>>

QueueBlockReturn(t) ==
    /\ up /\ task[t].pc = "qdone"
    /\ task' = [task EXCEPT ![t] = Idle]
    /\ UNCHANGED <<stored, queuedLast, persistedLast, queue, runner, up, crashes>>

-----------------------------------------------------------------------------
(* block(number): under one borrow of inner, a number outside queued_state *)
(* gives None and a number in the queue part gives queue.get(idx); only a *)
(* persisted number leaves the borrow and awaits persistent.block(), which *)
(* fails (here: None) if the persistent store lacks the block.             *)

InQueue(n) == StateContains(queuedLast, n) /\ ~StateContains(persistedLast, n)

\* Mutant of the index computation (see PROJECT.json "mutants").
QueueGetOffByOne(n) ==
    LET idx == n - NextOf(persistedLast) + 1
    IN  IF idx < Len(queue) THEN queue[idx + 1] ELSE None

\* inner.queue.get(idx), idx = number - persisted_state.next().
QueueGet(n) ==
    LET idx == n - NextOf(persistedLast)
    IN  IF idx < Len(queue) THEN queue[idx + 1] ELSE None

PersistentBlock(n) ==
    IF n - First < Len(stored) THEN stored[n - First + 1] ELSE None

\* What block(n) returns when it runs without interruption from this state.
BlockLookup(n) ==
    CASE ~StateContains(queuedLast, n) -> None
      [] InQueue(n)               -> QueueGet(n)
      [] OTHER                    -> PersistentBlock(n)

BlockCall(t, n) ==
    /\ up /\ task[t].pc = "idle"
    /\ task' = [task EXCEPT ![t] =
                  IF StateContains(queuedLast, n) /\ ~InQueue(n)
                     THEN [Idle EXCEPT !.pc = "bfetch", !.num = n]
                     ELSE Idle]
    /\ UNCHANGED <<stored, queuedLast, persistedLast, queue, runner, up, crashes>>

\* persistent.block(number) after the borrow is released.
BlockFetch(t) ==
    /\ up /\ task[t].pc = "bfetch"
    /\ task' = [task EXCEPT ![t] = Idle]
    /\ UNCHANGED <<stored, queuedLast, persistedLast, queue, runner, up, crashes>>

-----------------------------------------------------------------------------
(* BlockStoreRunner::run(): wait for a non-empty queue and clone its      *)
(* front, await persistent.store_next_block(), then under the lock set     *)
(* persisted_state.last and pop the front.  Cancellation ends the loop     *)
(* with Ok, an internal error ends it with Err; either may come after the  *)
(* block became durable.                                                   *)

\* Mutants of the runner (see PROJECT.json "mutants").
RunnerPickBack ==
    /\ up /\ runner.pc = "wait" /\ queue /= <<>>
    /\ runner' = [pc |-> "store", blk |-> Last(queue)]
    /\ UNCHANGED <<stored, queuedLast, persistedLast, queue, task, up, crashes>>

RunnerPickEarlyAck ==
    /\ up /\ runner.pc = "wait" /\ queue /= <<>>
    /\ runner' = [pc |-> "store", blk |-> Head(queue)]
    /\ persistedLast' = Head(queue)
    /\ UNCHANGED <<stored, queuedLast, queue, task, up, crashes>>

RunnerPickNeedsTwo ==
    /\ up /\ runner.pc = "wait" /\ Len(queue) > 1
    /\ runner' = [pc |-> "store", blk |-> Head(queue)]
    /\ UNCHANGED <<stored, queuedLast, persistedLast, queue, task, up, crashes>>

RunnerPick ==
    /\ up /\ runner.pc = "wait" /\ queue /= <<>>
    /\ runner' = [pc |-> "store", blk |-> Head(queue)]
    /\ UNCHANGED <<stored, queuedLast, persistedLast, queue, task, up, crashes>>

\* PersistentBlockStore::store_next_block(): the block goes right after the
\* current last block, and is durable once the call returns.
StoreNextBlock(b) == Append(stored, b)

RunnerStore ==
    /\ up /\ runner.pc = "store"
    /\ stored' = StoreNextBlock(runner.blk)
    /\ runner' = [runner EXCEPT !.pc = "commit"]
    /\ UNCHANGED <<queuedLast, persistedLast, queue, task, up, crashes>>

\* store_next_block() returns Err(Internal): run() returns the error.
RunnerStoreError ==
    /\ up /\ runner.pc = "store"
    /\ \E durable \in BOOLEAN :
          stored' = IF durable THEN StoreNextBlock(runner.blk) ELSE stored
    /\ runner' = [pc |-> "failed", blk |-> None]
    /\ UNCHANGED <<queuedLast, persistedLast, queue, task, up, crashes>>

\* ctx canceled in wait_for() or in store_next_block(): run() returns Ok.
RunnerCancel ==
    /\ up /\ runner.pc \in {"wait", "store"}
    /\ \E durable \in BOOLEAN :
          stored' = IF durable /\ runner.pc = "store"
                       THEN StoreNextBlock(runner.blk) ELSE stored
    /\ runner' = [pc |-> "stopped", blk |-> None]
    /\ UNCHANGED <<queuedLast, persistedLast, queue, task, up, crashes>>

RunnerCommit ==
    /\ up /\ runner.pc = "commit"
    /\ persistedLast' = runner.blk
    /\ queue' = Tail(queue)
    /\ runner' = [pc |-> "wait", blk |-> None]
    /\ UNCHANGED <<stored, queuedLast, task, up, crashes>>

-----------------------------------------------------------------------------
(* Crash of the node: every in-memory value is gone, the persistent store  *)
(* keeps what store_next_block() made durable.  Restart runs New.          *)

Crash ==
    /\ up /\ crashes < MaxCrashes
    /\ up' = FALSE
    /\ crashes' = crashes + 1
    /\ queuedLast' = None /\ persistedLast' = None /\ queue' = <<>>
    /\ task' = [t \in Tasks |-> Idle]
    /\ runner' = [pc |-> "stopped", blk |-> None]
    /\ UNCHANGED stored

Restart ==
    /\ ~up
    /\ New
    /\ up' = TRUE
    /\ UNCHANGED <<stored, crashes>>

Next ==
    \/ \E t \in Tasks, b \in Blocks : QueueBlockCall(t, b)
    \/ \E t \in Tasks : QueueBlockCheck(t) \/ QueueBlockCancel(t) \/ QueueBlockCommit(t)
    \/ \E t \in Tasks, n \in Numbers : BlockCall(t, n)
    \/ \E t \in Tasks : BlockFetch(t) \/ QueueBlockReturn(t)
    \/ RunnerPick \/ RunnerStore \/ RunnerStoreError \/ RunnerCancel \/ RunnerCommit
    \/ Crash \/ Restart

\* The runner is a spawned task the executor keeps polling, and the
\* PersistentBlockStore contract says store_next_block() returns once the
\* block is durable; a restarted node runs new() again.
Fairness ==
    /\ WF_vars(RunnerPick)
    /\ WF_vars(RunnerStore)
    /\ WF_vars(RunnerCommit)
    /\ WF_vars(Restart)

Spec == Init /\ [][Next]_vars /\ Fairness

-----------------------------------------------------------------------------
(* Properties.                                                             *)

\* Contiguity (the Inner invariant queue_block's locked re-check protects
\* against two racing calls for one number): persisted_state.next() plus
\* the queue length is queued_state.next(), and the queue holds exactly the
\* numbers in between, in order.
QueueContiguous ==
    up => /\ NextOf(persistedLast) + Len(queue) = NextOf(queuedLast)
          /\ \A i \in 1..Len(queue) :
                queue[i].number = NextOf(persistedLast) + i - 1

\* Parent linkage: everything accepted (persistent blocks, then the queue)
\* starts at genesis.first_block, passed verify(), and names its
\* predecessor's hash as parent, although queue_block checks the parent
\* against a snapshot taken before its locked update.
ChainLinked ==
    LET c == LogicalChain IN
    \A i \in 1..Len(c) :
        /\ c[i].number = First + i - 1
        /\ c[i].valid
        /\ i > 1 => ParentHash(c[i]) = Hash(c[i - 1])

\* Persist before acknowledge: the runner advances persisted_state (what
\* wait_until_persisted() reports) only to a block store_next_block() has
\* already made durable, and persisted_state.last is that durable block.
PersistBeforeAck ==
    up => /\ NextOf(persistedLast) - First <= Len(stored)
          /\ persistedLast /= None =>
                stored[persistedLast.number - First + 1] = persistedLast

\* The runner's debug_assert_eq! (compiled out of release builds) and the
\* PersistentBlockStore contract: the block the runner holds is the one
\* right after persisted_state, and when it calls store_next_block() it is
\* the one right after the persistent store's last block.
RunnerWritesNext ==
    runner.pc \in {"store", "commit"} =>
        /\ runner.blk.number = NextOf(persistedLast)
        /\ runner.pc = "store" => runner.blk.number = First + Len(stored)

\* Readback: for every number in queued_state, block() finds the block with
\* that number, in the queue or in the persistent store; and a call that
\* chose the persistent store under the borrow and awaits it there still
\* finds the block after the runner and other callers ran meanwhile.
ReadBack ==
    /\ \A n \in Numbers :
          StateContains(queuedLast, n) =>
             BlockLookup(n) /= None /\ BlockLookup(n).number = n
    /\ \A t \in Tasks :
          task[t].pc = "bfetch" =>
             PersistentBlock(task[t].num) /= None
             /\ PersistentBlock(task[t].num).number = task[t].num

\* What a caller is told: once queue_block(b) has returned Ok, whether it
\* queued b itself, lost the race for b's number to another caller, or
\* found the number stale, wait_until_queued(b.number) returns at once,
\* and block(b.number) finds a block with that number (spec: idempotence of
\* queue_block; "observes next() > n => block(n) is Some").
OkMeansQueued ==
    \A t \in Tasks :
        LET n == task[t].blk.number
        IN  (up /\ task[t].pc = "qdone") =>
                /\ n < NextOf(queuedLast)
                /\ n >= First => BlockLookup(n) /= None /\ BlockLookup(n).number = n

\* Durability liveness: a block that is queued is eventually persisted,
\* unless the runner stopped or failed or the node crashed.
EventuallyPersisted ==
    \A n \in Numbers :
        StateContains(queuedLast, n) ~>
            \/ StateContains(persistedLast, n)
            \/ runner.pc \in {"stopped", "failed"}
            \/ ~up

-----------------------------------------------------------------------------
(* Refinement: the BlockStore implements BlockStoreSpec, with the logical *)
(* chain as the accepted chain, the persistent store's length as the      *)
(* durable prefix and persisted_state as the acknowledged prefix (after a *)
(* crash, what new() will read back).                                      *)

AckedCount == IF up THEN NextOf(persistedLast) - First ELSE Len(stored)

Abstract == INSTANCE BlockStoreSpec
                WITH chain <- LogicalChain, durable <- Len(stored),
                     acked <- AckedCount

\* Every step of queue_block, block, the runner, a crash and new() is a
\* step of BlockStoreSpec: accepted blocks are never replaced or reordered,
\* a crash loses only blocks not yet durable, and nothing is reported
\* persisted before it is durable.
Refinement == Abstract!Spec

====
