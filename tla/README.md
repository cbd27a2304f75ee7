# A TLA+ verification of reth-exex-examples

The repository holds independent *execution extensions* (ExEx) of a reth node.
An ExEx is a future that the node drives: it receives notifications
(`ChainCommitted`, `ChainReorged`, `ChainReverted`) and sends back
`FinishedHeight`, after which the node may prune older blocks. The extensions
share no code and no state. Each keeps something in step with the L1 chain
through commits and reorganisations, and that is what can go wrong.

All line numbers refer to the repository's files; `PROJECT.json` maps every
definition to its lines.

## 1. Inventory

| component | state | operations | hard behaviour |
|---|---|---|---|
| rollup database, `rollup/src/db.rs` | six SQLite tables: block, account, storage, account_revert, storage_revert, bytecode | insert_block_with_bundle, revert_tip_block, upsert_account, reads of the EVM | undo rows of reused block numbers, order of writes and reads in a transaction, TEXT numbers |
| rollup ExEx, `rollup/src/main.rs` | the database | start, commit, revert, decoding of contract events | reorgs, errors half way, events of other rollups, wrapping balances |
| rollup execution, `rollup/src/execution.rs` | none | execute_block, construct_header, decode_transactions, execute_transactions | parent lookup after reorgs, a block that cannot be executed |
| backfill ExEx, `backfill/src/main.rs` | map of jobs, next id, semaphore, message queue; per job a task and a cancel channel | select! loop, start/cancel/finish a job, task of a job | loop awaits a task it cancels, completion races cancellation, ExEx ends while jobs run |
| backfill RPC, `backfill/src/rpc.rs` | a reply channel per call | backfill_start, backfill_cancel | disconnecting caller, receiver gone |
| OP bridge, `op-bridge/src/main.rs` | SQLite tables deposits, withdrawals | delete on revert, insert on commit | transactions that move between blocks, UNIQUE(tx_hash), one transaction per statement |
| remote ExEx, `remote/bin` | broadcast channel of capacity 1; per consumer a forwarding task, an mpsc channel of 1 and a response stream | exex loop, subscribe, consumer loop | lagging, slow and vanishing consumers, every hop a bounded buffer of its own |
| remote codec, `remote/src/codec.rs` | none | conversions to and from protobuf | a thousand lines of fields without a test, fields that have no place in the messages |
| oracle, `oracle/src/oracle.rs` | network, feed, ExEx, signer | one poll function | three sources, one waker, loops that can spin |
| oracle network, `oracle/src/network` | per connection: attestations, pending request; discovery events | ping/pong, ticks, attestations, commands; add_node | requests without identity, lost wakeups, lag |
| oracle feed, `oracle/src/offchain_data` | socket, reconnection future with its count of attempts | poll, ten connection attempts with pauses | reconnect while polled, Pending without a wakeup |
| in-memory state ExEx, and the same code as the oracle's ExEx | execution outcome | extend, revert_to | which entries a reorg drops when the first block seen is not block 0 |
| discv5 example, minimal, command lines | none | logging | none |

What makes each correct: the rollup's tables are the result of the events on
the canonical L1 chain, whatever reorgs led there; backfill jobs obey the limit,
can be cancelled, and nobody waits for ever; the bridge tables are the events of
the canonical chain. A consumer of the remote ExEx gets a gapless piece of the
node's notifications, unchanged but for fields the messages lack. The oracle
serves each source whatever the others do, and its in-memory outcome should be
that of the canonical chain.

## 2. Modules

* `RollupDb`: the tables and the operations of `db.rs`; each is one step,
  because each is one SQLite transaction or statement behind a mutex.
* `RollupEvm`: external; what the rollup uses of revm. A block body is the one
  state change that its transactions amount to: transfer, deploy, store,
  destroy, destroy and recreate, or nothing.
* `Rollup`: the ExEx: one action per arm of `commit` and `revert`, the failing
  ones included.
* `RollupChain`: the abstract specification of the block table, one chain that
  changes at its end. `Rollup` instantiates it with the chain ending in the
  highest block (`TipSpec`).
* `RollupProofs`, `RollupStateProofs`: theorems about `Rollup`; the first about
  types, blocks and undo rows, the second about codes, executed blocks and
  deposits.
* `Backfill`: RPC callers, event loop and tasks, interleaved.
* `BackfillProofs`: theorems about `Backfill`.
* `OpBridge`: the bridge tables, statement by statement.
* `OpBridgeProofs`: theorems about `OpBridge`.
* `OracleGossip`: two oracle connections joined by a session, exchanging ticks,
  lists of attestations and the initial ping, with local requests.
* `OracleGossipProofs`: theorems about `OracleGossip`.
* `Codec`: the types of the node's values, the protobuf conversions as pure
  operators, both directions, and `Kept`, what a notification is expected to be
  after the wire.
* `Remote`: ExEx, forwarding tasks, transport and consumers, interleaved; what a
  consumer receives is `DecodeNotification(EncodeNotification(..))` of `Codec`.
* `RemoteProofs`: theorems about `Remote` and the conversions of `Codec`.
* `InMemoryState`: the ExEx that keeps an execution outcome, on its own.
* `OracleNode`: the poll of the oracle over discovery, data feed and ExEx; it
  extends `InMemoryState`, whose handler is the last part of the poll.
* `OracleProofs`: theorems about `InMemoryState` and `OracleNode`, and that the
  second implements the first.
* `InductionFacts`: induction over numbers and over sequences, for the proofs.
* `MCRollup`, `MCBackfill`, `MCOpBridge`, `MCOracleGossip`, `MCRemote`,
  `MCInMemoryState`, `MCOracleNode`: instances for TLC.

### State and code

`Rollup`. `applied` is the L1 chain as far as the ExEx has processed it, one
contract event per entry. An entry also records, as history that no action
reads, whether the event inserted a block and the rollup state before and after
it. `phase`, `to_revert` and `to_commit` say where `start` stands. The events
of a committed chain are chosen when they are processed; the ExEx never looks
ahead, so this is the same as choosing them with the notification. Several
events of one L1 block are several entries: the code flattens them (240-269) and
nothing depends on block boundaries except the height announced, which is
expressed in events. The contract is external and numbers the submissions of
each rollup chain from 0. A submission's `call` says what `tx.input()` decodes
to: `submitBlock`, another call, or nothing (submitted through another
contract).

A stored block is represented by what its hash commits to: the headers from
block 0 up to it (`construct_header` leaves transactions and state roots at
their defaults). So `parent_hash` is the sequence without its last header.
`AccountInfo` is balance and code. Balances are numbers modulo
`BalanceModulus`, as U256 wraps.

`CommitUnexecuted` stands for every `Err` of `execute_block`. It is enabled for
every submission, because blobs may be missing, data may not hash to the
announced value and a transaction may exceed the gas limit.

`Backfill`. A job's cancel channel is `open`, `sent` (the cancellation and in
it the sender of the acknowledgement are under way), `answered` (acknowledged,
or the sender of the acknowledgement dropped), or `closed` (its sender dropped).
A task is `running` while in its select!, then `finished` or `cancelled` in the
handler of the branch that won, `exiting` until it returns. select! drops the
other branch's future before it runs the handler, which is why a cancellation
that lost the race is answered at that very step. `starting` is the backfill of
the command line. The node serves RPC calls only later; calls that arrive while
`starting` are a harmless over-approximation.

`OpBridge`. An L1 block is a sequence of logs; `reverted` and `committed` are
the decoded events not handled yet. The table `contracts` is constant and left
out; `id` columns have no meaning to the code.

`OracleGossip`. One step of a connection is one turn of the loop in
`OracleConnection::poll_next`: the initial ping, else a command, else a ticker
of the broadcast channel, else a message of the peer, else `Pending`. `wakers`
is the set of sources that hold the connection's waker while it sleeps. A read
of the channel that reports `Lagged` registers none, so the connection then
sleeps until a command or a message wakes it, or its session polls it for
another reason (`SessionPolls`, on which no property counts). Commands come
from the tests only: `OracleNetwork` logs the sender of commands of a new
connection and drops it (network/mod.rs:56-64). Both peers run this code: what
they send decodes and is signed by its signer, so the branches for bad messages
are left out. A ticker stands for its hash. `overrun` is history. A list of
attestations does not say which ticker it is about, and a command asks the peer
for nothing: it sends one's own list, and the next list to arrive, of whatever
ticker, answers the caller that is pending. A caller can therefore get the list
of another ticker, or wait for as long as the session lasts; the doc comment
("request the attestations for a specific tick data", connection.rs:25) promises
more, to callers that only the tests have.

`Codec`. The content of a byte string is opaque; its length is kept, because
that is what the conversions test. Field names are those of the messages.
The messages have no place for the withdrawals of a block, `requests_hash`, the
requests of an execution outcome, `account_id` and the trie data of a chain: the
decoder sets them to their defaults, and `Kept` says so. A hash is taken from
the message and not computed. Wire encoding by prost is taken to be exact.
`Values` is what the content of a field may be, and each `..Type` the set of
values a conversion is for, from `NotificationType` down to the fields of one
slot. `RemoteConstants` takes the notifications of the node from it.

`Remote`. Notifications are named by their positions; all buffers hold
positions. `sent` is the write position of the broadcast channel and `pos` the
read position of a task; a task lags when more than `Capacity` values are
unread. `task` is `recv` in `recv().await` and `send` in `tx.send(..).await`.
When a task ends it drops its sender, so the consumer's stream ends once it is
drained: `message()` is `None` and the consumer returns `Ok`, as if everything had
been delivered. When a consumer leaves, the server drops the response stream
later (`DropStream`), and the task finds out at its next send, where `expect`
panics. `finished` is the height last reported. It can be far ahead of what any
consumer has.

`InMemoryState`. The outcome is the list of blocks it has entries for.
`ExecutionOutcome::default()` has first block 0 and `extend` leaves that alone,
so `revert_to(n)` keeps n + 1 entries whatever number the first entry has. An
ExEx whose first block is `start` therefore keeps up to `start` entries of
reverted blocks, anywhere among the canonical ones, although the code says
"revert to block before the reorg": `RevertedBlocksGone` is violated. The test of
the repository starts at block 0, where none stay. `OutcomeHoldsChain` is what
holds: no reorg loses the entry of a canonical block, and an ExEx that starts at
block 0 has exactly the chain.

`OracleNode`. A step of the poll takes one item or finds a source Pending.
`at` is the place in the poll, `scheduled` says that the task has been woken,
`registered` which sources hold its waker. `retry` is the reconnection future
(`none`, or its suspension point), `attempts` its local variable. When discovery
or the notifications have ended, the loop around that future polls it again
until tokio's cooperative budget is spent, which makes it Pending and schedules
the task anew. For the notifications, polled last, this is a busy loop in which
the other sources are still served (`ExExEnded`). For discovery, polled first, it
leaves no budget for anything behind it in any later poll, which the model calls
`spinning` and counts as stopped. An error of the notifications ends the oracle
(`ExExFails`). A feed that is Pending wakes its own task, so an
oracle with a silent feed is polled continually. `socket` tells whether the next
read after the waiting messages is Pending, an error or `None`. Messages of the
old socket are dropped with it. Events that are only logged are left out.

## 3. Runs

| run | checks | result |
|---|---|---|
| `rollup_core` | types, block numbers without gap, hash links, stored blocks canonical, deposits exact, code available, undo rows exact, undo of changed values, executed blocks stay stored, refinement of `RollupChain` | holds, 861k states |
| `rollup_stale_rows` | a revert restores every account | violated |
| `rollup_wiped_storage` | a revert restores all storage | violated |
| `rollup_text_tip` | the highest block can be reverted | violated |
| `rollup_foreign_revert` | reverting an event that inserted nothing removes no block | violated |
| `backfill` | permits, cancelled means stopped, no unstoppable job, no leaked entry; every call answered, notifications handled, jobs end with the ExEx | holds, 159k states |
| `op_bridge_reorg` | tables exact after every statement, only repeated events fail, FinishedHeight after storing | holds, 10k states |
| `op_bridge_repeated` | no INSERT fails | violated |
| `oracle_gossip` | tickers neither lost nor counted twice, commands handled, tickers reach the peer | holds, 153k states |
| `remote` | streams contiguous over all hops, a clean end only when overwritten, what decodes is what was sent; readers catch up or end, the ExEx is never held up, tasks of gone consumers end | holds, 234k states |
| `oracle_node` | types, the outcome keeps the chain, giving up only after all attempts; messages read, notifications handled, a broken feed recovers | holds, 692k states |
| `in_memory_revert` | no entry of a reverted block stays | violated |

### What the violations show

1. `rollup_stale_rows`: `revert_tip_block` leaves the rows of `account_revert`
   and `storage_revert` behind. When block n is replaced by another block n and
   that one is reverted, the rows of both are applied.
2. `rollup_wiped_storage`: for a self-destructed account the slots to remember
   are read after they were deleted, so a revert cannot restore them.
3. `rollup_text_tip`: `ORDER BY number` on a TEXT column makes 9 the tip while
   block 10 is stored; the revert of 10 is refused and the ExEx ends.
4. `rollup_foreign_revert`: `revert` does not look at the chain id, so a reorg
   that removes another rollup's submission deletes this rollup's block of the
   same number.
5. `op_bridge_repeated`: two deposits in one transaction break `UNIQUE(tx_hash)`.
6. `in_memory_revert`: `revert_to` counts entries from block 0. An ExEx that is
   notified from block 1 on still has the entry of block 1 after its revert.

The passing properties are stated so as to say what holds in spite of these:
`RevertUndoesBlock` is about the accounts and slots that the block changed and
excludes wiped storage; `ExecutedBlocksStayStored` excludes the revert of an
event that was passed over; the block properties use numbers below 10;
`OutcomeHoldsChain` says nothing of entries that stay beyond the chain unless the
start is block 0. `DepositsExact` is about accounts that no block has changed:
whether a deposit may be taken back from an account that has spent it no text of
the repository says (`account.balance -= amount` wraps).

### Bounds

* Rollup: three events on the L1 chain and up to two per notification are
  enough for a block, its replacement and a deposit in any order. Two headers
  tell a block from its replacement; two accounts, one slot and one code let a
  contract be created, destroyed and created again. The violating runs choose
  just enough for their scenario. `rollup_text_tip` needs eleven blocks and
  therefore fixes everything else.
* Backfill: three starts against two permits exercise the limit, reuse of a
  permit and a cancellation of any job in any state. Processing blocks is one
  step that ends well or fails: more blocks would add stuttering between the
  same choices. Ids are never reused, so one cancellation can meet every state of
  a job; two cancellations of one job, without notifications (8.1 million
  states), were checked too and behave alike.
* OpBridge: chains of three blocks, up to two new ones, nine block contents
  over two transactions. There is no bound on the number of notifications.
* OracleGossip: feeds of two against a channel of capacity one, so that
  it overruns, and two requests, so that one displaces the other. One ticker
  suffices, and each feed repeats it.
* Remote: with `Capacity`, `ChannelSize` and `Window` 1 a stream can hold four
  notifications (channel, task, mpsc channel, transport), and four in `Payload`
  let a task that waits to send be overtaken, lag and end. One consumer reads,
  the other may stop or leave at any moment. The payloads between them hold
  every kind of transaction, account status, bytecode, revert and receipt, with
  and without optional fields; the content of each field is its own name, so
  that a swapped field shows.
* OracleNode: starts at block 0 and 1, forks, two notifications, chains of two
  blocks, so that a reorg or revert can follow a commit; three attempts; two inputs
  of the feed, so that it breaks twice, or a ticker waits behind an undecodable
  message. The proofs cover every other value. `in_memory_revert` starts at
  block 1, the lowest number at which an entry stays.

Bounds are `MaxSequence`, `MaxValue`, `MaxEvents`, `MaxBatch`,
`MaxNotifications`, `MaxHeight`, `MaxCommit`, `MaxTicks`, `Payload`, `MaxQueued`,
`Window`, `MaxLength`, `MaxChain`, `MaxFeedInputs`, `MaxDiscovered`. Deadlock is not
checked: the environment may fall silent, and a failed ExEx stops.

### Symmetry and fairness

The rollup runs treat the two headers as interchangeable where their cfg says
so; all their properties are safety properties. No other run uses symmetry.

`Backfill` assumes weak fairness of the event loop's handlers, of its return
from a cancellation and of each task's own steps. The tokio runtime polls every
woken task, and select! chooses among ready branches at random, so none of them
starves while the others are finitely many. Callers, disconnections, errors of
a notification and failures of a block are not fair: nobody has to call or fail.
The command-line backfill is assumed to end, one way or the other.

`OracleGossip` assumes weak fairness of each connection's polling: the session
polls a connection that was woken, and again after each message it returned. The
feed, callers, the other polls of the session and its end are not fair.

`Remote` assumes weak fairness of the ExEx loop, of each forwarding task and of
the transport with the server's noticing of a consumer that has left; of the
consumers only those in `Fair` are known to keep reading. The node need not
notify, and no consumer has to subscribe.

`OracleNode` assumes weak fairness of the poll, which the runtime gives to a
woken task, and that a pause ends. That a connection attempt returns is an
assumption about the network: the code puts no timeout around `connect_async`,
and an attempt that hangs for ever leaves the feed broken. Messages,
discoveries and notifications need not come. The properties end in `\/ Stopped`:
an oracle that spins, failed or gave up serves nothing any more.

## 4. Proofs

`RollupProofs` proves, for all constants that satisfy the assumptions
`DbConstants`, `BodiesAssumption` and `RollupConstants`:

* `TypeCorrect`: `Spec => []TypeOK`. The lemmas show that an execution yields a
  well-typed state and that every table operation preserves its type.
* `ContiguousCorrect`: `BlocksContiguous`, and `BlockTableCorrect`: `HashLinked`.
  The inductive invariant `BlockInv` is their conjunction. It needs
  `MaxSequence < 10`: from 10 on the order of text is not the order of numbers
  (`rollup_text_tip`), and the lemma about `IsTip` is where this enters.
* `CanonicalBlocks`: `StoredBlocksAreCanonical`, strengthened by `BlockInv` and
  by `InsertedAreOurs` (an entry that inserted a block is a `submitBlock` of
  this rollup). Without the latter an inserted entry could be reverted without
  its block.
* `UndoCorrect`: `RevertUndoesBlock`, from `RevertRowsAreExact` and
  `InsertedAreOurs`. It needs no bound on numbers: if the last event is
  undone, the block it names is the tip that the database found. `RowsCorrect`
  states `RevertRowsAreExact` by itself.
* `TipRefinement`: `Spec => TipSpec`. The initial table maps to the empty chain;
  inserting a block extends the chain of the highest block, reverting one
  retracts it, every other step stutters.

`RemoteProofs` proves, from `RemoteConstants`, for any number of consumers and
notifications and any sizes of the channels:

* `RemoteTypeCorrect`: `Spec => []TypeOK`; the channels never exceed their sizes.
* `StreamCorrect`: `StreamIsContiguous`.
* `CleanEndCorrect`: `CleanEndMeansOverwritten`.

All three rest on `RemoteInv`: types, and for each consumer `ConsumerInv`, which
says where each hop goes on (`CountsFrom`: the buffer holds consecutive
positions from where the hop before it ends). The state of a task has to be
tied to that of its consumer there: a task of a reading consumer has not
panicked, and one that ended was overtaken by more than `Capacity`. Without the
latter the ended stream could have missed nothing. A step of one consumer
leaves the others alone (`ConsumerStep`), so each action is proved for one.

Two more theorems are about what is in the messages, for chains, blocks, lists
and maps of any size and every variant:

* `CodecRoundTrip`: `DecodeNotification(EncodeNotification(n)) = Kept(n)`, which is
  not `Err`, for each `n` in `NotificationType`.
* `ReceivedCorrect`: `ReceivedAsSent`. By the round trip no position is
  undecodable, hence no consumer ever fails, and each is faithful.

The round trip goes bottom up, one lemma per pair of conversions (`HeaderSame`,
`TxFieldSame`, `AccountInfoSame`, ..), each for one value, for a list or a map of
them, and where the code has an `Option` for that. Nothing in it is recursive,
so no induction is needed. What each lemma has to show besides equality is that
no part of the result is `Err`, because the `?` operator would make it the
whole; and where the code has `ok_or_eyre`, that no message is `None`. That takes
two facts about these constants. They are no values of fields, which is
`CodecConstants` and evaluated by TLC; and, `Atoms`, they are neither functions,
hence no record and no list, nor sets of accounts, contracts or slots. TLC cannot
evaluate `Atoms` (a model value has no DOMAIN), so it is a hypothesis of both
theorems and not an ASSUME. It says no more than that an `Option` that is `None`
is told from every `Some`, and an `Err` from every `Ok`.

`OracleProofs` proves, from `InMemoryConstants` and `NodeConstants`:

* `OutcomeCorrect`: `StateSpec => []OutcomeHoldsChain`. The inductive invariant
  `StateInv` adds that the processed chain has consecutive numbers from `start`
  and that the waiting notification replaces its end: without these the number
  given to `revert_to` says nothing about which entries stay. It also bounds the
  entries by `start` more than the chain has blocks (`StaleEntriesBounded`), so
  that what a commit appends is not beyond the reach of its own number.
* `NodeRunsState`: `Spec => StateSpec`, every step of the oracle is one of the
  ExEx or leaves its state alone; with it `NodeOutcomeCorrect`.
* `NodeTypeCorrect` and `RetriesCorrect`: `GivesUpAfterRetries`, from the
  invariant that relates `attempts`, the refusals and the suspension point of
  the reconnection future.

`RollupStateProofs` goes on, with no bound on the block numbers:

* `CodeCorrect`: `CodeAvailable`. It is not inductive: a revert brings back an
  account as its undo row has it. `CodeInv` adds that the codes in the undo rows
  are known too; codes are never deleted, so both stay true, rows of earlier
  blocks that were left behind included.
* `ExecutedCorrect`: `ExecutedBlocksStayStored`, from `LengthInv` (block n is n + 1
  headers long, so that the last of them, the one submitted, stands at n + 1)
  and `OurNumbersGrow`: the contract numbers our submissions, so that no two
  entries of the L1 chain name the same block and the revert of one
  cannot delete the block of another.
* `DepositsCorrect`: `DepositsExact`. What an address was paid is a sum over the
  entries of the L1 chain, written as a recursive function of the chain. Adding
  an entry adds its deposit to the sum, by induction over the chain; removing
  the last one is the same fact read backwards. Balances follow the sum modulo
  `BalanceModulus`, whatever number of times they wrap, and an account without
  undo rows is changed by nothing else.

`BackfillProofs` proves, from `BackfillConstants`, for any number of calls, permits
and notifications: `BackfillTypeCorrect`, `PermitsCorrect`, `CancelCorrect`,
`CancellableCorrect` and `EntriesCorrect`, that is `TypeOK` and the four safety
invariants. None of the four is inductive alone. `BackfillInv` adds

* `QueueInv`, `CurrentInv`: a message in the queue, or in the hands of the loop,
  belongs to a call that was made, and no call has two start messages;
* `IdsInv`: `next_job_id` counts the calls that started a job. Without it the
  type invariant could not bound the ids;
* `ChannelInv`: what a cancel channel says about entry and task. An entry in the
  map has an open channel; a channel that is `answered` belongs to a task that
  left its select!. This is the step from "the acknowledgement came, or its sender
  was dropped" to "the job has stopped", which `CancelAnswered` takes for granted;
* `CancelledInv`: a call that was told `ok` names a job that stopped.

`OpBridgeProofs` proves, from `OpBridgeConstants`, for chains and forks of any
length and any contents of blocks: `BridgeTypeCorrect`, `TablesCorrect`
(`TablesExact`), `InsertionsCorrect` (`FailsOnRepeatedEventOnly`) and
`FinishedCorrect` (the action property `FinishedEventsStored`). `BridgeInv` adds

* `ValidChain`: a transaction is in one block of the chain at most (the one thing
  taken from the node);
* `PhaseInv`, `PendingInv`: what is still to be deleted is not in what stays of
  the chain, what is still to be inserted is in it, and neither names an event
  twice;
* `OneEventPerTx`: two rows of a table are of different transactions, so that
  `DELETE .. WHERE tx_hash` deletes one row.

That `decode_chain_into_events` returns every event of every block once is proved
by induction over the chain.

`OracleGossipProofs` proves, from `GossipConstants`, for feeds of any length (with
repetitions), any capacity of the channel and any number of requests:
`GossipTypeCorrect` and `TickersCorrect` (`TickersConserved`). `GossipInv` is their
conjunction with `CallsInv`: a command in the queue of a connection is of a call
that was made, without which `asked` would not name the ticker of a pending
request. How often
a ticker occurs in a sequence is the cardinality of a set of positions, and the
lemmas say what appending, removing the head and dropping a prefix do to it.

`InductionFacts` holds what the last proofs share. The library's induction rules
take an operator as parameter and cannot be instantiated here, so induction is
stated for sets: a set of numbers that is not empty has a least element
(`LeastNatural`, from the well-foundedness of strict inclusion on finite sets),
hence a set that holds 0 and with each number the next is all of `Nat`. The same
argument shows that a recursive function satisfies its equation, and what
flattening a sequence of sequences contains.

Only model-checked:

* Every liveness property (`CommandsHandled`, `TickersReachPeer`,
  `EveryCallAnswered`, `NotificationsHandled`, `StoppedJobsEnd`,
  `DeliveredOrEnded`, `ExExKeepsUp`, `TaskReleased`, `MessagesRead`,
  `FeedRecovers`): the prover has no rule for fairness and ENABLED.
* The violations, which are counterexamples.

## 5. Not modelled

* Restarts. The rollup and the bridge reopen their databases and store no
  cursor; which notifications are sent again is the node's decision.
* Bytes: blobs, RLP, KZG, signatures, JSON. They are outcomes.
* The EVM beyond the six block bodies.
* In `OracleGossip` the handling of malformed messages and false signatures, the
  signer and its hashing; in `OracleNode` the fields of a ticker and events that are
  only logged; the start-up of the oracle, which is the `Init` of `OracleNode`.
* Prost and tonic beyond in-order delivery and loss with the connection.
* The discv5 example, the minimal ExEx, command lines: no state of their own.

## 6. Plan

1. Done: rollup database, ExEx and block table; backfill; bridge; the oracle's
   connections, poll, feed and ExEx; the in-memory state; the remote ExEx, its
   consumers and codec. First proofs about the rollup, the remote ExEx and the
   oracle.
2. Done: proofs of the safety invariants of `Backfill`, `OpBridge` and
   `OracleGossip`, and of those of `Rollup` that were only checked.
3. Done: `ReceivedAsSent` from a round trip of each conversion of `Codec`. With it
   every safety property that a run checks is a theorem.
4. Left: a restart action for the two SQLite extensions, with both answers of the
   node about what it sends again.
