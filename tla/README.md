# TLA+ models of the era-consensus block store and consensus handshake

This directory holds TLA+ models of three source files: the `BlockStore`
(`src/node/libs/storage/src/block_store/mod.rs`), the consensus handshake
(`src/node/actors/network/src/consensus/handshake/mod.rs`) and the network
test harness (`src/node/actors/network/src/testonly.rs`). TLC checks them.

## 1. Inventory

### BlockStore and its runner (`block_store/mod.rs`)

* **State.**
  * `Inner` holds `queued_state` (a watch of `BlockStoreState`),
    `persisted_state` and `queue`.
  * `BlockStoreState` is `{first, last: Option<CommitQC>}`. Its helpers are
    `contains()` and `next()`.
  * The `PersistentBlockStore` the store owns is a durable sequence of blocks.
  * `genesis` never changes.
* **Operations.**
  * `new()` reads `genesis()` and `last()`, verifies `last`, and verifies the
    block at `first`.
  * `queue_block()` waits for its predecessors, returns Ok for a stale
    number, verifies the block and checks its parent hash on a snapshot. It
    then re-checks the number under the lock and pushes the block.
  * `block(n)` reads from the queue under a borrow. For persisted numbers it
    reads the persistent store after releasing the borrow.
  * `wait_until_queued/persisted` and `subscribe` read state and change none.
  * `BlockStoreRunner::run` loops: wait for a non-empty queue, clone the
    front, call `store_next_block`, then update `persisted_state` and pop the
    queue. Cancellation ends the loop with Ok. An internal error ends it with
    Err.
* **Interaction.** Many tasks call the handle at once. One runner task
  shares the same `Inner` through two nested `watch` locks. Only the runner
  writes to the persistent store.
* **What is hard.**
  * Calls are split at awaits, so checks and updates happen under different
    lock acquisitions.
  * A `block()` call can decide under a snapshot and then read without it.
  * A crash can come between the durable write and the in-memory commit.
  * Store errors and cancellation can come after the write.
  * Callers rely on liveness (blocks eventually persisted).
* **Correctness properties.**
  * Contiguity of queue and states.
  * A parent-linked, verified chain from `first`.
  * Persist before acknowledge.
  * Readback: `block(n)` finds every queued number.
  * The runner's ordering assertion holds.
  * Every queued block is eventually persisted.
  * Refinement of an abstract chain that only grows and of which a crash
    loses only the non-durable suffix.

### Consensus handshake (`consensus/handshake/mod.rs`)

* **State.** Each endpoint holds the stream (`id()`), its own key and
  genesis, and for outbound the expected peer key.
* **Operations.**
  * `outbound`: send our signed session id and genesis, receive the peer's
    message, then check genesis, session id, peer key and signature, in that
    order.
  * `inbound`: receive, then check genesis, session id and signature, then
    send our message and return the peer's key.
  * Both run under a 5 s timeout. Stream errors map to `Error::Stream`.
  * Decoding (`ProtoFmt::read`) fails when a field is missing
    (`read_required`), and `recv_proto` turns that into `Error::Stream`.
    Byzantine peers may send such frames (`Msg.missing`, `ReadOk`).
* **Interaction.** Messages go over a Noise stream that both ends see under
  the same id, and that differs between connections. Byzantine peers may
  relay and replay messages, and may collude: share keys and every
  signature any of them received.
* **What is hard.**
  * The protocol is only authenticated if the signature is bound to the
    session id.
  * The send/receive order has to avoid deadlock.
  * A timeout can race the last message, so only one side succeeds.
* **Correctness properties.**
  * Peer binding on the outbound side.
  * Replay resistance on the inbound side.
  * Genesis isolation.
  * Honest handshakes complete, and succeed exactly when compatible.
  * The two honest ends agree, except where the expected key or a failed
    or timed-out stream makes only the acceptor succeed.

### Network test harness (`testonly.rs`)

* **`forward()`** copies a read stream into a write stream through a
  1024-byte buffer: read, `write_all(&buf[..n])`, flush, until a read
  returns 0 or an I/O call fails. Then it shuts the write side down by hand,
  because `io::split` keeps the stream alive.
* **`Instance::new()`, `InstanceRunner::run()`, `Instance::terminate()`.**
  * `run()` opens a scope, spawns the network `Runner` as a background
    task, and waits on a `bounded(1)` terminate channel.
  * When that main task returns, the scope cancels and awaits the Runner.
  * Only then is the receiver dropped.
  * `terminate()` try_sends and waits until the receiver is closed.
* **`new_configs()` and `new_fullnode()`.** Validator `i` dials
  `(i + j + 1) % n` for `j < gossip_peers`. A full node dials one given
  validator.
* **What is hard.**
  * Stale bytes in the reused buffer.
  * Partial writes.
  * End of stream being propagated.
  * `terminate()` returning before the node is down, or never returning
    for the caller whose `try_send` failed.
  * The ring wrapping around when `gossip_peers >= n`.
* **`instant_network()`** visits the nodes three times, in order.
  * It subscribes to each node's `validator_addrs` and loops on
    `sync::changed` until the node's own address is there.
  * It `update`s every node with the collected addresses.
  * It calls `wait_for_consensus_connections()` on every node. That is a
    tokio `wait_for` (no ctx) until `inbound`, then `outbound`, equals the
    genesis validator set.
  * What is hard: `subscribe()` marks the current version seen, so an
    address announced earlier is reported only by a later change. Nothing after
    the address loop (the updates, the waits) takes ctx.
* **`wait_for_gossip_connections()`** waits, with tokio's `wait_for` and no
  ctx, until the gossip `outbound` set contains the static peers.
  **`wait_for_gossip_disconnect()`** and **`wait_for_consensus_disconnect()`**
  wait, with `sync::wait_for(ctx, ..)`, until the peer is absent from
  `inbound`, then from `outbound`. What is hard: the two sets are seen at
  two different moments, and a wait without ctx hangs if its condition
  never comes.

### Not modelled

* The byte layer of the protobuf encoding (`build`, `ByteFmt`). It is a pure
  conversion, and its output is only read back by `read`. What `read` does
  to the handshake, failing on a missing field, is modelled.
* The network Runners themselves (`validator_addrs`, the connection
  pools). They are outside this repository. `InstantNetwork` and
  `NetworkWaits` replace them by the environments described below.
* The getters of `Instance` (`pipe`, `state`, `genesis`, `cfg`). They
  only borrow, and change no state.
* Metrics, except for the locks `scrape_metrics()` takes.
* Noise, framing, cryptography, and genesis/QC verification. These are
  external. Each is abstracted to what the checks compare.

## 2. Modules and how they correspond to the code

| Module | Models | State ↔ code |
|---|---|---|
| `BlockStore` | `BlockStore`, `BlockStoreRunner`, the persistent store's contract, crash and `new()` | `stored` = persistent contents; `queuedLast`, `persistedLast`, `queue` = `Inner`; `task[t]` = program counter of a caller inside `queue_block`/`block`; `runner` = the run loop's position; `up`/`crashes` = process liveness |
| `BlockStoreSpec` | the promise of the store: `chain`, `durable`, `acked` | mapped from `BlockStore` by `LogicalChain`, `Len(stored)`, `AckedCount` |
| `Handshake` | `outbound`, `inbound`, stream failure, timeout, Byzantine peers | `pipe[c][r]` = frames in flight on stream `c` towards role `r`; `ep[c][r]` = position, result and returned key; `closed[c]` = dropped ends |
| `BlockStoreLocks` | the two nested watch locks (`inner`, `queued_state`) as every method and the runner take them | `rd[l]`/`wr[l]` = readers/writer of the std `RwLock` under watch `l`; `want[p]` = the lock task `p` is blocked on; `pc[p]` = its position in `queue_block`, `block`, `wait_until_*`, `scrape_metrics` or the runner loop |
| `Forward` | `testonly::forward()` | `sent`/`eof` = the peer's side; `got`, `buf`, `n` = the loop's reads; `out` = bytes on the write side; `shut`/`failed` = results of the I/O calls |
| `InstanceLifecycle` | `Instance::new`, `InstanceRunner::run`, `Instance::terminate` | `run` = position in `run()`; `net` = the background network Runner; `cancelled`/`testCtx` = scope and test contexts; `chan`/`rxOpen` = the terminate channel; `term[c]` = each `terminate()` call |
| `GossipTopology` | `new_configs()`'s loop and `new_fullnode()` | `n`, `peers` = inputs; `i`, `j` = loop counters; `outbound[v]` = `static_outbound` of validator `v`; `fullPeer` = the full node's peer |
| `InstantNetwork` | `instant_network()` with `wait_for_consensus_connections()`, against an environment for the network Runners | `known[v]` = addresses in node `v`'s `validator_addrs`; `pending` = an unseen version on the receiver being waited on; `outC[v]`/`inC[v]` = consensus outbound/inbound of `v`; `pc`, `k`, `addrs` = the helper's position, current node and collected list; `cancelled` = the test context; `cancelPc` = where the helper was when the context was cancelled (a history variable) |
| `NetworkWaits` | `wait_for_gossip_connections()`, `wait_for_gossip_disconnect()`, `wait_for_consensus_disconnect()` against one node's two connection pools | `inb[k]`/`outb[k]` = `net.gossip`/`net.consensus` inbound and outbound sets; `up[p]` = peer `p`'s node runs; `gwait`, `dwait[k]` = where each helper is; `downAtCall[k]` = the target peer had stopped when the helper was called (a history variable); `cancelled` = the helper's ctx |
| `TestTeardown` | A test's teardown: `terminate()` of a peer, then the disconnect helpers on another node | `InstanceLifecycle`'s variables for the peer's Instance and `NetworkWaits`' for the waiting node, joined by `up[Peer]` = the peer's Runner is `"running"`, and by the test's ctx as the helpers' ctx |
| `MC_BlockStore`, `MC_Handshake` | TLC instances | see bounds below |

Actions cut the code at its awaits:

* `QueueBlockCall`, `QueueBlockCheck`, `QueueBlockCancel` and
  `QueueBlockCommit` are the parts of `queue_block`. `QueueBlockCheck` is the
  wait plus the checks under the `wait_for` Ref. `QueueBlockCommit` is the
  nested `send_if_modified`.
* `BlockCall` and `BlockFetch` are the two parts of `block()`.
* `RunnerPick`, `RunnerStore`, `RunnerStoreError`, `RunnerCancel` and
  `RunnerCommit` are the steps of the runner loop.
* `QueueBlockReturn` is the `Ok` handed back to the caller. `QueueBlockCheck`
  tests in the code's order: stale, verify, parent.
* `Crash` and `Restart` model a node crash and `new()`.
* In `BlockStoreLocks`, every lock acquisition is a step. A borrow held
  for a single statement is a step that needs the lock free and keeps it.
  A borrow that lives across another acquisition (inner across the
  `queued_state` borrow in `block()` and `scrape_metrics()`; the `wait_for`
  Ref across the checks of `queue_block`) is added to `rd`/`wr` and
  released by a later step.
* In `TestTeardown`, `Life` is a step of the peer's `InstanceLifecycle`,
  `Net` a step of the waiting node's Runner, and `Wait` a step of a
  disconnect helper. `DisconnectCall` is the test calling a helper once
  `terminate()` has returned `Ok`. `NetworkWaits`' `Stop` is not an
  action here. The peer stops when its Runner does (`NetStop`, `NetFail`).
* In `NetworkWaits`, `GossipCall`/`GossipReturn` and
  `DisconnectCall`/`DisconnectInbound`/`DisconnectOutbound` (one per pool)
  are the helpers' awaits. `DisconnectInbound`/`DisconnectOutbound` may
  return `Canceled` once the ctx is cancelled, even if the predicate holds,
  because the race of the two is decided outside this repository. The
  environment: `DialOut` (the node dials its static gossip peers and every
  validator), `Accept` (a running peer dials the node), `Stop` (a peer's
  node stops for good), `DropIn`/`DropOut` (the node notices each closed
  connection separately).
* In `InstantNetwork`, `Subscribe`, `Changed`/`ChangedCanceled`, `Update`,
  `WaitInbound` and `WaitOutbound` are the helper's awaits. The
  environment stands for the Runners outside this repository:
  * `Announce` republishes the node's own address, as the address
    announcer does periodically.
  * `Learn` delivers another node's address by gossip.
  * `ConnectOut`/`ConnectIn` register a connection at the dialling and the
    dialled node, at different moments. A validator is connected to itself
    too. The helper waits for the whole validator set, and the tests that
    use it pass, so the network must do so.
  * `Cancel` cancels the test context, and `Stop` is a Runner stopping and
    dropping its connections.
* In `Handshake`, each `send_proto`/`recv_proto` is one action. The checks
  that follow a receive belong to the receive action. `RecvEof` and
  `Timeout` are the stream-failure outcomes.

Blocks are records `[number, id, parent, valid]`:

* The hash is `<<number, id>>`.
* `parent` names the id of the block below it.
* `valid` stands for `verify(&genesis)`.
* A `CommitQC` is represented by its header.

Signatures are records `[msg, key, ok]`. A session id is the connection
itself.

## 3. Runs

| Run | Checks | Shows |
|---|---|---|
| `blockstore_safety` | `QueueContiguous`, `ChainLinked`, `PersistBeforeAck`, `RunnerWritesNext`, `ReadBack`, `OkMeansQueued`, `EventuallyPersisted` | Racing callers, store errors/cancellation and a crash keep the store consistent; an `Ok` from `queue_block` means its number is queued and readable; queued blocks get persisted |
| `blockstore_safety` (same run) | `Refinement` (`BlockStoreSpec!Spec`) | The store implements the abstract chain: no accepted block is replaced, crashes lose only non-durable blocks, nothing is reported persisted before it is durable |
| `handshake_relay` | `OutboundAuthenticated`, `InboundAuthenticated` | Two colluding Byzantine nodes, one on each side of two validators, cannot pass as either validator, nor get a signature made for one connection accepted on another |
| `handshake_direct` | `HonestVerdictsAgree`, `HonestHandshakeCompletes` | Between honest nodes the dialler accepts only after the acceptor has, the ends disagree only through the expected key or a failed or timed-out stream, and both handshakes finish without the deadline and succeed when compatible |
| `blockstore_locks` | `NoDeadlock`, `HolderReleases` | Three callers running any method and the runner never form a wait-for cycle on the two watch locks, and every lock taken is released, on the writer-preferring std `RwLock` of the Linux build |
| `blockstore_locks_reader_pref` | the same | The same holds on a reader-preferring `RwLock`: every reader of `queued_state` first passes through `inner`, which the writer holds |
| `forward_copy` | `TypeOK`, `CopyIsPrefix`, `EofForwarded` | The write side carries exactly an in-order prefix of the stream; after end of stream everything is copied and the write side shut down, unless an I/O call failed |
| `instance_terminate` | `TerminatedMeansStopped`, `TerminateReturns` | `terminate()` returns Ok only once the network Runner has stopped and `run()` has finished, and every concurrent `terminate()` returns |
| `instant_network` | `ConnectedWhenReturned`, `InstantNetworkReturns` | With the address announcer repeating, `instant_network()` returns, even though an address announced before its subscription is not a change `sync::changed` reports. When it returns, every validator is connected to every validator in both directions |
| `instant_network_cancel` (violation) | `CancelHonoured` | A cancellation after the address loop, while the updates or the connection waits run, is never noticed. The history variable `cancelPc` records where the helper was when the cancel came. The Runners stop and make no connections, the tokio `wait_for` waits for ever, and `instant_network()` never returns (finding, `testonly.rs:203`) |
| `network_waits` | `DisconnectedWhenReturned`, `DisconnectReturns`, `GossipConnectionsReturn` | A disconnect helper called after the peer stopped returns `Ok` only when the peer is in neither set, although it saw the two sets at different moments. Called before the peer stops, the peer may reconnect inbound while the helper waits on outbound, so the property is stated for a stopped peer. Once the peer stops, the helper returns. While the static peers stay up, `wait_for_gossip_connections()` returns, because it waits only for connections the node dials itself |
| `test_teardown` | `DisconnectedAfterTerminate`, `TeardownCompletes` | A test that awaits `terminate()` on a peer and then the disconnect helpers gets `Ok` only when the peer is in neither set of either pool, because `terminate()` returns only after the peer's Runner has stopped. The teardown as a whole completes. The two `InstanceLifecycle` mutants, an early receiver drop and a Runner spawned as a main task, break these properties |
| `gossip_topology` | `TypeOK`, `BuildsRing`, `GossipConnected` | The loop builds the ring of the next `gossip_peers` validators (itself included once `gossip_peers >= n`); with at least one peer, the static connections reach every validator from every validator and from a full node |

**Finding.** `instant_network()` takes a ctx, and its address loop returns
`Canceled` (`sync::changed(ctx, sub).await?`). Nothing after that loop
takes ctx: `validator_addrs.update(..)`, and then
`wait_for_consensus_connections()`, which waits with tokio's `wait_for`
and unwraps. TLC's trace cancels the context during the updates. The
updates go on. The nodes' Runners stop on the cancellation and make no
consensus connection, so the inbound set never equals the validator set.
A cancel during the waits ends the same way, because the stopping Runners
drop the connections. `instant_network()` never returns, and the scope
that runs it cannot finish: the test hangs instead of failing. The
property is stated only for cancellations after the address loop. An
earlier one is either noticed by `sync::changed`, or it loses a race
inside `ctx.wait` (zksync_concurrency, outside this repository), so the
finding does not rest on that race. It does rest on the assumption that
Runners stop on cancellation (code outside this repository).

Type invariants are kept only for `Forward` and `GossipTopology`. There
they say something the code could get wrong: filler bytes reaching the
write side, and a peer index past the end. Elsewhere a type invariant
would only restate the model's own guards.

Every property has a mutant in `PROJECT.json`. A mutant is a plausible bug
in the definition the property is about, and TLC finds it. The mutants are:

* the re-check dropped;
* the parent check dropped;
* acknowledging on pick;
* picking the back of the queue;
* an off-by-one queue index;
* waiting for two queued blocks;
* no peer-key check;
* no session-id check;
* outbound receiving before sending;
* `>=` for `>` in the stale-number test;
* the `wait_for` Ref of `queue_block` kept across `send_if_modified`;
* the runner's `wait_for` Ref kept for the whole iteration;
* `write_all(&buf)` for `write_all(&buf[..n])`;
* `return` at end of stream, skipping the shutdown;
* the terminate receiver dropped inside the scope;
* the Runner spawned as a main task;
* `(i + j) % n`, a missing `% n`, and `return` inside the loop;
* the genesis check dropped from `inbound()`;
* the second connection wait copied from the first (on `inbound`);
* `want` without the node itself;
* the disconnect helper returning after the inbound wait;
* `!` dropped from the disconnect predicate;
* `wait_for_gossip_connections()` waiting on `inbound`.

### Bounds

**`MC_BlockStore`**

* First block is 1. Numbers run 0..3, so one number lies below `first` and
  three blocks are storable.
* Each number has four blocks:
  * two competing valid blocks;
  * one whose parent is right only after the other competitor;
  * one that fails `verify()`.
* There are two callers and at most one crash.
* This is enough for:
  * two callers racing on the same number with different blocks;
  * a wrong parent;
  * a stale call below `first`;
  * a crash between write and commit, followed by restart with a non-empty
    store;
  * a runner that has failed or stopped while callers continue.
* The run reaches about 600k states in about two minutes.

**`MC_Handshake`**

* There are honest validators A and B and Byzantine M and M2, which
  collude.
* The relay run has c1 (A dials "B" but reaches M) and c5 (M2 dials B).
  Collusion gives the adversary signatures to replay from A on B's
  connection, through two different nodes. The one-node relay (c1 and c2,
  M dials B) is the same adversary with fewer keys. With c1, c2 and c5
  together the run takes 6.5 minutes (10M states), so c2 is left out.
* The direct run has c3 (A→B) and c4 (B→A).
* Geneses and expected keys are chosen in Init over all combinations.
* The direct connections involve no Byzantine node, so they are checked
  separately from the relay run. The adversary learns nothing on c3 or
  c4. A timeout may fire at any send or receive, which is where the two
  ends' verdicts can differ.
* A Byzantine endpoint writes one frame while the honest side waits. The
  honest side reads only one.
* A forged invalid signature is generated only over the connection's own
  id. An invalid signature over another id fails the earlier session-id
  check, the same way M's own signature over that id does.

**`BlockStoreLocks`**

* Three callers and the runner.
* Each caller loops over all five methods, so any two of them can be in
  any position at once, and a third can wait on the same lock.
* Cycles need at most three tasks here, since there are two locks and one
  runner.
* About 10k states.
* `WriterPreferring` is TRUE in the main run. Rust's std `RwLock` on Linux
  makes a new reader wait while a writer waits. The second run sets it
  FALSE.

**`Forward`**

* A 2-byte buffer (1024 in the code) against a peer writing up to 4 bytes.
  This covers one- and two-byte reads, a short read after a long one
  (stale bytes left in `buf`), and end of stream at any point.
* The chunk size only changes how a stream is cut, so a buffer of 2 shows
  every case a buffer of 1024 has.

**`InstanceLifecycle`**

* Three `terminate()` callers, so later `try_send`s find the channel full
  or closed.
* Runner failure, test-context cancellation, and `terminate()` before
  `run()` are all included.

**`GossipTopology`**

* Every n in 1..4, `gossip_peers` in 0..4 and full-node peer, run through
  the whole loop.

**`InstantNetwork`**

* Two validators. Two are enough for each case: the second node's address
  arriving, by announcement or gossip, before or after the helper
  subscribes to it, and the two sides of a connection registering at
  different moments. Three validators take more than half an hour with the
  liveness check.

**`NetworkWaits`**

* Two peers, one of them static and the disconnect target. The other,
  non-static peer is what separates `outbound` (dialled by the node) from
  `inbound` (dialled by peers). Both pools are checked, together with the
  gossip-connections wait: 97,760 states.

**`TestTeardown`**

* One peer and one test task. The pools, the helpers and every path of
  the peer's lifecycle are all reachable: 1,209 states.

### Fairness

* **BlockStore.**
  * `RunnerPick`, `RunnerStore`, `RunnerCommit`: weak fairness. The runner
    is a spawned task the executor keeps polling. `store_next_block` must
    return once the block is durable, since the trait's doc states that
    consensus liveness depends on it.
  * `Restart`: weak fairness. A crashed node is restarted.
  * Callers, errors and cancellations have no fairness.
* **Handshake.** On connections between two honest nodes, the send and
  receive steps and EOF detection are weakly fair. Tasks are polled, and
  Noise delivers what was written. The timeout is **not** fair. So
  `HonestHandshakeCompletes` shows completion through the protocol, not
  through the deadline.
* **BlockStoreLocks.** Weak fairness on every task's steps. Tasks are
  polled, and a thread blocked on a std lock is woken when it is released.
  Strong fairness is not assumed, because the std lock is not FIFO.
* **Forward.** Weak fairness on read, write and shutdown. The peer and the
  failures are not assumed.
* **InstanceLifecycle.**
  * Weak fairness on `run()`'s steps and on the network Runner stopping
    once cancelled. The Runner's cancellation handling is outside `src/`
    and is assumed.
  * Weak fairness on `terminate()` returning.
  * Calling `run()` at all is not assumed.

* **InstantNetwork.** Weak fairness on the helper's steps (its task is
  polled). Weak fairness on each node's `Announce`: the address announcer
  of the network Runner repeats, an assumption about code outside this
  repository without which the helper can wait for ever (hazard
  `testonly.rs:266`). Weak fairness on `ConnectOut`/`ConnectIn`, because a
  Runner dials every validator whose address it knows, and on `Stop`,
  because Runners honour cancellation. Gossip and cancellation are not
  assumed.
* **NetworkWaits.** Weak fairness on the helpers' steps, on `DialOut`
  (a Runner keeps dialling the peers it dials), on `DropIn`/`DropOut` (a
  Runner notices a closed stream), and on consensus `Accept` (validators
  dial each other). Gossip `Accept` depends on the peer's own config, and is
  not assumed. Neither is `Stop` or `Cancel`.

* **TestTeardown.** The union of the two components' fairness. The test
  task is polled, so once `terminate()` has returned it calls the helpers.

## 4. Plan

Done in the first sitting:

1. `BlockStore` with callers, runner, crash/restart.
2. `BlockStoreSpec` and the refinement.
3. `Handshake` with a Byzantine relay.

Done in the second sitting:

4. `BlockStoreLocks`, for the deadlock hazard at `mod.rs:242`.
5. `OkMeansQueued`: what `queue_block` tells its caller.
6. `Forward`, `InstanceLifecycle` and `GossipTopology` for `testonly.rs`.

Done in the third sitting:

* `InstantNetwork`: `instant_network()` and
  `wait_for_consensus_connections()`, with the finding about
  cancellation.
* Item 7 of the earlier plan: colluding Byzantine nodes in the handshake
  relay run, and `HonestVerdictsAgree`, which states what the code
  guarantees about the two ends' verdicts, timeouts included.

Done in the fourth sitting:

* `NetworkWaits`: the remaining `wait_for_*` helpers of `Instance`.
* `TestTeardown`: the composition of `InstanceLifecycle` and
  `NetworkWaits`.
* `Build` (`ProtoFmt::build`) in `Handshake`.

Next, in order:

8. Bring the lock order of `BlockStoreLocks` into `BlockStore` itself, if
   TLC can still explore the combined state space in the time allowed.

Not pursued: a module composing the handshake with `queue_block`. In the
three source files, nothing passes a handshake's result to a `BlockStore`.
The code that would do it, the network's block sync, is outside this
repository, so such a module would be modelled from nothing in `src/`.
