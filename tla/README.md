# Verification of the NLOS kernel

TLA+ models of the parts of this repository whose correctness depends on the
order of concurrent steps, crashes and messages; TLC runs that check them on
small instances; and proofs, checked by TLAPS, of what the operation store, the
wake registry, the Channels, the Topics and the task store promise for every
instance. `PROJECT.json` ties every definition to the lines it models, lists the
hazards of the code with the properties that watch them, and holds the
disagreements between the code and its own comments.

## The system and its parts

NLOS is a set of Rust crates around durable authority stores. Each store is one
SQLite database in WAL mode with `synchronous = FULL`; each method is one
`BEGIN IMMEDIATE` transaction behind a mutex, so a crash leaves the state of the
last committed method. Around the stores run Tokio fibers, pumps that drain
transactional outboxes, and a Raft control plane that replicates commands among
cells.

How the modelled parts interact. A fiber of the runtime (`nlos-runtime-tokio`)
starts an Operation in the operation store (`nlos-operation`, `nlos-store`) and
waits for it. A driver's callback, or a cancellation, makes the Operation
terminal; the same transaction appends an outbox entry. A pump thread polls the
outbox, hands a wake to the runtime's wait registry or a late outcome to the
reconcile lane, and acknowledges or parks the entry.

A fiber may also wait for a sequence of a Channel (`nlos-channel`): the wait is a
durable row (`nlos-wait`), mirrored in memory; a publisher commits an entry, flips
the rows it covers and delivers the report to the runtime. A Topic (`nlos-topic`)
fans publications out to subscribers over one Channel.

The task store (`nlos-task`) decides what a task commits: one permit at a time,
effect slots under it, reconciliation of what is unknown, and the takeover by
another authority. The control plane (`nlos-consensus`) is independent of these
loops; it serves the cluster-level authorities.

Inventory, by what is modelled (`components` in `PROJECT.json` gives the
sources and the reason for each):

| Part | Module | State |
| --- | --- | --- |
| Operation authority store | `OperationStore` | modelled, proved |
| Transactional outbox | `OutboxLedger` (abstract), `OperationStore` | modelled, refinement proved |
| Fiber runtime lifecycle | `FiberRuntime` | partly |
| Wake registry and waits | `WakeDelivery` | modelled, safety proved |
| Outbox wake pump | `WakeDelivery` | partly, safety proved |
| Channel waits of the runtime | `ChannelWait` | modelled, proved |
| Durable wait rows | `WaitRegistry` | partly, proved |
| Channels | `ChannelQueue` | partly, proved |
| Topics | `TopicFanout` | partly, proved |
| Notifications | `ChannelWait` (as its notifier) | partly |
| Task store: permits, effects, leases, takeover | `TaskCommit` | partly, proved |
| Raft control plane | `ConsensusCore` | partly |
| Leases, cells, process migration, resources | – | candidates |
| Capabilities, plans, service directory | – | candidates |
| Artifacts, semantic assertions, applications | – | candidates; mostly data |
| Identity, publisher trust, schema, codecs, types | – | data without control |
| Transport, IPC, drivers, sandbox, clock | – | I/O behind traits |
| Control adapters, launcher, CLI, desktop, SDKs, tools | – | wiring and clients |

## Modules

**OperationStore** – one variable per column group of the store's tables
(`state`, `receipt`, `cancelEpoch`, `issued`, `accepted`, `preparation`,
`activated`, `call`, `outbox`) and one action per method that writes, named as
the method. Calls that fail or replay an earlier decision change nothing and are
stuttering steps. The helper actions `MachineDispatch`, `MachineCancel` and
`MachineComplete` are the methods of `OperationMachine`.

**OutboxLedger** – what the store promises to whoever drains it: an Operation is
decided once, together with its one notice. `OperationStore` implements it
(`ImplementsLedger`, an `INSTANCE` with a refinement mapping), and `WakeDelivery`
is composed with it in place of the full store.

**FiberRuntime** – the registry, admission semaphore, scopes, tombstones and
shutdown of the Tokio adapter. A critical section is an action; a call that takes
several locks in turn is several actions, and the place it stands at is
`call[c].at`. Records and scopes are indices, so that a thread keeps the record
it resolved after the registry has moved on, as an `Arc` does. The locks that are
held across actions are visible to the other threads.

**WakeDelivery** – the ledger, the pumps, the sinks, the wait registry and the
waiting futures. The pump polls a batch and applies and acknowledges its entries
one at a time, while commits, cancellations, registrations, drops, shutdown and a
second pump go on. A crash keeps the ledger and loses everything else.

**ConsensusCore** – the transition function `ConsensusCore::step` on every voter
(`node`), with the outbound workers of the driver (`lane`), requests whose caller
gave up on them (`late`) and histories of elections, receipts and reads. The
handlers are operators that return the new core, the messages and a confirmed
read, as `step` returns effects; `Persist` is `step_and_persist`, which commits
the durable effects and hands out receipts in one critical section before any
message leaves. A log entry is the term it was proposed in. The compacted prefix
stays in `log` and stands for the snapshot's contents; `base` is the snapshot's
index. The ticks since the last leader contact are abstracted to `contact`.

**ChannelQueue** – one Channel: its fence, entries, byte counters and the two
watermarks, with `rotate`, `enqueue`, `ack` and `compact` and the order of their
refusals. The module has no next-state relation of its own. `WaitRegistry` and
`TopicFanout` extend it and take its operations as parts of their actions.

**WaitRegistry** – the durable wait rows and notification receipts of `nlos-wait`
beside the Channel they watch: `register_wait`, `notify_commits` with its replay by
key, `cancel_wait` and the reads the runtime makes.

**ChannelWait** – the runtime's side: the registry with its bounded buffer of early
wakes, the arming calls (`wait_for_channel`, `rearm_channel_waits`,
`resume_binding`), the futures, and the notifiers that commit, notify and deliver.
An arming call is split at each read of the durable store and at its critical
section (`call[f].at`); a crash keeps Channel and rows and loses the rest.

**TopicFanout** – Topic and Channel are two stores, so a call is several
transactions. A worker (`worker[w].at`) is a call under way with the snapshot it
has read; calls that are one transaction have no worker. `Abandon` cuts a call off
between two transactions. The owner of the Channel may rotate, acknowledge and trim
it without the Topic (`RotateChannel`, `OwnerAck`, `OwnerCompact`); what it enqueues
on its own account is left out.

**TaskCommit** – the commit plane of one task. One action per writing method of the
task store on attempts, permits, slots, the participant registry, leases,
assignments and takeover receipts. A permit is named by its attempt, as an attempt
holds at most one. `Perform` is the outside world carrying out a dispatched effect,
late or never; only it changes `performed`. The store cannot see `performed`. Three
actions read it, for the evidence handed to them, which is taken to be truthful:
`RecordEffectOutcome`, `ReconcileLateOutcome` and `ReconcileEffect`. The caller
of `register_attempt` brings its snapshot of the head; the model takes the head at
the registration, as one with an old snapshot behaves as one made earlier. A sealed
write set names an endpoint for all, some or none of the planned effects
(`permit[a].mapped`).
The assignment table is a sequence in the order in which the store sorts it.

`MC...` modules hold symmetry sets and constant values; the `.cfg` files hold the
instances. The definitions marked "Faulty variant" are named alternatives of the
definition below them, to see which property notices which mistake; no action
uses them.

## Runs

| Run | Question | Result |
| --- | --- | --- |
| `operation_store` | Do the rows, the outbox and the stored results stay consistent under every order of calls, and is the ledger implemented? | holds |
| `fiber_lifecycle` | Are references and permits exact, live fibers cancellable, exits handed out once, detached fibers reclaimed, and does the clean shutdown drain? | holds |
| `fiber_shutdown` | Do joins return across shutdown, and do cancelled fibers end? | holds |
| `fiber_stale_reap` | Is a live fiber cancellable when a consumer of an older generation reaps late? | violated |
| `wake` | Is no wake lost before it reaches a wait, does nothing in the registry outlive its consumer, does every wake behind a poison entry arrive, and does every wait resolve? | holds |
| `channel_wait` | Is every covered row flipped, is Woken told only for committed targets, is the buffer exact, and does a notifier's wake reach the wait it is for? | holds, with the named exceptions |
| `topic` | Do journal, log, books and attribution ledger of a Topic agree while its calls are interleaved or cut off and the Channel's owner acts beside it? | holds, with the named exceptions |
| `task` | Does one permit own the task, is an effect carried out once, do receipts tell the truth, does cancellation freeze, and are the mapped effects of the old term quiet after a takeover? | holds |
| `task_mapping` | Is a takeover fence known only if it includes the endpoint of every planned effect? | violated |
| `consensus_recovery` | Is there one leader per term, with every receipted entry, across lost and late calls, restarts and snapshots, and does the store's schema accept every step? | holds |
| `consensus_replication` | Do logs match, committed prefixes agree, receipts stay on a quorum and reads stay fresh through a change of leader? | holds, for proposals that do not overlap a replication call |
| `consensus_ack` | The durability of receipts without that restriction. | violated |

### Findings

- `fiber_stale_reap`: `FiberRegistry::reap` ignores the generation it is given. A
  thread that still holds the record of an old generation removes the live record
  of a newer one and releases a scope reference for it.
- `consensus_ack`: a follower acknowledges with its own last index. The leader
  takes that for its match index, so the answer to a heartbeat that was in flight
  when a proposal arrived acknowledges the proposal too, if the follower has an
  old divergent suffix. The entry is committed and receipted on one voter.
- `task_mapping`: a write set may name endpoints for some of its effects only. The
  roots of a takeover fence are documented as `None` unless the mapping is complete
  (`lease.rs:427`, `store.rs:2337`), but they are `None` only if there is no endpoint at
  all (`store.rs:7202`). The fence then leaves an endpoint out, no barrier is asked of
  it, and an effect there may still be carried out after the takeover is complete.

### Known limits of the code

The models take these steps, except the last one, and the properties are stated so
as to name them. No run is spent on them.

- Runtime and control plane: `clean_shutdown` locks record terminals while it holds the fibers mutex,
  the terminal transition the other way round (`wake.rs:268`). A wake is consumed at
  the send, not at the poll, and a redelivery of a consumed wake is buffered again
  (`wake.rs:195`, `:207`). A leader that steps down rejects every waiting proposal,
  although the next one may commit it (`net_driver.rs:699`).
- Channel waits: the self-flip of one arming call flips every row up to its target
  and drops the report, so another fiber's wait pends until it is armed again
  (`SelfFlipped`, `channel_wait.rs:600`). The critical section does not look at the
  shutdown flag again (`channel_wait.rs:960`).
- Topic: a pending publication resumed after its entry was compacted is enqueued
  twice (`EnqueuedOnceWhileRetained` states the part that holds). A subscriber that
  joins or is reinstated behind a compaction starts behind it, and the owner's own
  ack may pass any subscriber; either is `late` until it has caught up. A compaction
  cut off between its two stores, and the owner's own compact, leave sequences
  unaccounted (`owed`) until the next compaction that reaches as far records them;
  `inspect_attribution` calls them corrupt meanwhile.
  An advance on a stale snapshot is answered `CorruptRecord` (`alarms`,
  `nlos-topic/src/lib.rs:2890`).
- Task: a permit lifted from quarantine with slots that were never dispatched
  cannot be ended, as its adoption bars the holder from giving them up
  (`reconcile.rs:3762`). A
  successor that dies between fence and completion leaves a receipt that nobody
  else can complete (`store.rs:2291`). An unsigned barrier is never replaced by a
  signed one (`store.rs:2500`). Two assignments of one millisecond are ordered by a
  digest (`lease.rs:1036`). After a successful commit
  the registry stays frozen.
- `drive_working_set_reclaim` ends at a member that got effects since its snapshot,
  where its comment says it skips it (`nlos-task/src/store.rs:2080` and `:1997`).

The passing consensus runs set `Pipelined` to FALSE: a leader takes a proposal
only when none of its calls is outstanding. That is a restriction on the
environment, not a property of the code. With it, what a follower's answer
counts is what the leader sent, and the rest of the protocol is checked; the
violation run lifts it.

## Bounds

Bounds are constants named in the modules; guards use them only to stop.

- `operation_store`: two operations, two callbacks and receipts each, two keys
  and two park cycles. Two operations give interference; one operation never
  looks at more than one other (through a key). One of the outcomes that cancels
  and one that completes suffice, as the store treats the others like the latter.
- Fiber runs: two threads and two records. Each race of the code is between two
  parties over one record; a third party repeats the role of one of them. The
  second generation of an id, the capacity limits and full tombstone rings occur.
- `wake`: two operations of one fiber, the first a poison entry, one wait, one pump,
  one storage fault, one unpark and one crash. There is no symmetry, as the run
  checks liveness. A second wait and a second pump are outside the instance; the
  proofs of the two invariants cover them, and the two liveness properties are
  checked for a single pump only.
- `channel_wait`: two fibers, two waits, two targets, two notifiers and a buffer of
  one, so that eviction happens; two arming calls, and three events in all: a
  commit, or a disturbance (a cancelled row or scope, a fiber's end, a dropped future,
  a redelivery, a crash, a shutdown), of which at most two. So two commits meet any
  one disturbance, and one commit any two. Symmetric in waits, fibers and notifiers.
- `topic`: two workers, three subscribers for two places, three publications for
  two credits and two retained bytes, one generation change. Five calls are a
  publish, a subscribe, an advance and a compaction with one more that races them;
  one change is an abandoned call, a rotation, an ack or a compact by the owner, a
  recharge, an unsubscription or a reinstatement at any point of that.
- `task`: two attempts. Init chooses a scope: both attempts with both effects, no
  lease and a registry nobody joins, both attempts with one effect, its endpoint and
  two lease terms, or one attempt with both effects, both endpoints and two terms,
  where the mapping may be partial; `faults` bounds cancels, renewals, retirements and
  unsigned barriers. Effects interact through the permit's outcome and the history,
  terms through the registry and the assignments. Each effect has an endpoint of its
  own. One effect is required and conditional, the other is optional. `task_mapping`
  is the third scope alone. Symmetric in the attempts; its two action
  properties are safety properties, so that is sound.
- Consensus runs: three voters, at most two elections, one or two entries. The
  recovery run starts cold, with two contenders, one event (a heartbeat tick, a
  failed or timed-out call, or a restart) and a snapshot of two chunks. The
  replication run starts with a settled leader, so that its one election is a
  change of leader. A lane holds one call; a message that finds it full is
  dropped, as one whose call fails. Scenarios that need three changes of leader
  (committing entries of earlier terms by counting) are outside these bounds.

Deadlock checking is off: every model may stop, when the bounds are used up, the
runtime is shut down or all operations are done.

## Fairness

`FiberRuntime`: weak fairness for a thread inside a call that can take its next
step, and for each fiber task. Tokio polls a woken task and the operating system
runs a runnable thread; nothing is assumed about which calls are made, nor that a
fiber's own work ends. `WakeDelivery`: weak fairness for the steps of a live pump,
which loops on an interval, for the registration and the polling of a future, and
for the second half of a shutdown that has begun. Nothing is assumed of commits,
cancellations, drops, crashes, faults or operators. The other
runs check safety only and assume no fairness. For the task store that is
deliberate: it is passive, and the states without a way out listed above exist.

## Proofs

Six components are proved for arbitrary sets of their objects and arbitrary bounds.
A theorem `Spec => []P` rests on an inductive invariant, `Init => I` and
`I /\ [Next]_vars => I'`, with one lemma per family of actions. Where the same
invariant serves several properties it is proved once, and what follows is inductive
relative to it.

| Module | Proves | For every |
| --- | --- | --- |
| `OperationStoreProofs` | all six properties of `operation_store`, types | set of operations, callbacks, receipts, keys, digests, results, reasons; park bound |
| `WakeDeliveryProofs` | the two invariants of `wake` | set of operations, fibers, waits, pumps; limit and bound |
| `ChannelQueueProofs` | lemmas on the Channel used by the next four | capacity, keys, payloads |
| `ChannelWaitProofs`, `ChannelWakeProofs` | all five properties of `channel_wait` | set of waits, fibers, notifiers; targets, buffer capacity |
| `TopicFanoutProofs`, `TopicLedgerProofs` | all six properties of `topic` | set of workers, subscribers, publications; policy limits |
| `TaskCommitProofs` | all six properties of `task` | set of attempts, effects, participants; scopes, bounds |

Assumptions, each evaluated by the runs too: a NULL marker is none of the
identifiers it stands beside (`NoneAssumption`, `Nobody \notin Fibers`,
`None \notin Publications`), bounds are natural numbers and limits that the code
refuses at zero are positive (`CapacityAssumption`, `BoundAssumption`,
`TopicBoundAssumption`), the drivers' outcomes are among the five of the code
(`OutcomesAssumption`), an operation has one owner (`OwnerAssumption`), the key of a
self-flip is no caller's key (`ReservedKeyAssumption`), and a task's required and
conditional effects are effects with an endpoint (`ConstantsMatch`). No set is assumed
finite.

### The operation store

- `TypeCorrect`: no call writes a malformed row.
- `RowsLoadAgain`: every row passes the validation of `OperationMachine::restore`.
- `OutboxIsExact`: an operation has an outbox entry exactly when it is terminal,
  never two, and the entry says what the row says.
- `CancellationWins`: an entry asks for reconciliation exactly when its callback
  lost against a cancellation.
- `PreparationFences`: a prepared operation is dispatched only by its activation.
- `AnswersAreOutcomes`: a stored result carries the receipt of the operation that its
  key claimed, and no operation answers two keys.
- `StoreImplementsLedger`: the store implements `OutboxLedger`.

None of the properties is inductive alone. `StoreInv` conjoins the first five with
`PreparationsNamed` (a prepared callback is a real one). `RestoreAccepts` needs it,
since an activation copies the prepared callback into the row; `OneEntryPerOutcome`
needs `RestoreAccepts` and the types, since the transition that appends an entry must
find none; the direction of `LateCallbackReconciles` needs both. The lemma `Effects`
first shows that each of the thirteen methods has one of seven effects on the rows.
The preservation lemmas then argue by effect, not by method: an effect moves the row of
one operation (`OthersKept`), so each lemma looks at that row and at the entry appended
for it (`Appended`). `CallInv` adds `ClaimsExist`: the operation a key has claimed has a
row, so it cannot be inserted, and claimed, again. The refinement takes each effect to a
step of the ledger: a decision with its notice, a mark on a notice, or a stutter.

### The wake registry and the pump

- `RegistryStaysLive`: nothing in the registry outlives the fiber or the runtime that
  could consume it, and a pending wait is the one registered under its key.
- `DeliveryStaysExact`: a delivered wake is buffered or has reached a wait while its
  fiber can use it, and only committed wakes are told.

`WakeInv` adds to the two that a pump's batch holds sequences of the ledger
(`BatchesHeld`), that a registered sender belongs to a wait for the very key it is under
(`WaitsKeyed`), and that a buffered wake was committed as one and a delivered one went to
a fiber that had started (`WakesFounded`). Without the last, a fiber started after
a delivery would be owed a wake that nobody holds. `LedgerKept`, that no step withdraws
a notice or changes what it says, carries the facts about committed wakes over a crash.

### Channels, waits and Topics

`ChannelQueueProofs` shows that `enqueue`, `ack` and `compact` keep `QueueInv`: the live
entries are the sequences above the trim watermark up to the last one issued, and the
counters are their sizes. The modules that extend the Channel use these lemmas and what
each operation writes.

For the waits:

- `WakesStayAccounted`: a wait is woken exactly when one receipt lists it, at a
  sequence that reaches its target.
- `ToldStaysCommitted`: Woken is told only for a durably woken row whose target is
  committed.
- `CoveredStaysFlipped`: a covered row stays pending only while somebody is still to
  flip it.
- `WakesReachTheirWaits`: no interleaving of notification, delivery and arming strands a
  wait, but for the cases the property names.
- `OrphanOrderStaysExact`: the age order lists the orphaned wakes, each once.

`Inv` relates rows, receipts, what a notifier has committed (`NotifierInv`) and what
an arming call has read so far (`CallInv`); it gives the first. `Tidings` says that
whatever is buffered, fired or told is woken. `CoverInv` strengthens the third: the
notifier that is still to flip a row must notify for the first time, as a replay selects
nothing; so `Inv` includes that a key has one entry, and has it once it has a receipt. `Holders` says whose keys are registered: a running fiber that armed the
wait, or nobody, and then only if no one pends. `WakeInv` follows a woken row through
its notifier, the buffer and the critical section, and `OrderInv` the order through
removal, purge and eviction.

For the Topic:

- `QueueStaysSound`: the Channel verifies itself and issues a sequence once.
- `JournalKeepsTheLog`: enqueued publications have distinct issued sequences, and no
  cursor is ahead of the log.
- `BooksAlwaysBalance`: credit, budgets, the subscription counter and the quarantine
  verdicts agree with the rows.
- `EntitledStayAhead`: the Topic's compactions never overtake an entitled subscriber;
  behind the consumption is only one that is late, by joining or reinstatement behind
  a compaction or by the owner's own ack, and that has not caught up.
- `LedgerAlwaysAccounts`: a sequence is attributed once, and what is trimmed is
  attributed, about to be, or owed since a compaction was cut off or the owner
  trimmed.
- `EnqueuedOnceHolds`: a publication has one live entry, and a second copy takes a trim.

`Base` says what a call has in hand at each of its steps (`Fit`): a snapshot no later
than the log, a sequence, a bound. `Marks` looks at every place where a sequence is held
to be a publication's: the call about to complete the row, the row and the log. Two
publications never share a mark, and one with two marks was enqueued twice. `Sheltered`
adds to the fourth that what a compaction is about to release every entitled subscriber
has; the minimum over the cursors is read in an earlier step. `TrimmedAccounted` speaks
of publications, not of the set that is still to be covered. `Charges`, `Budgets` and
`Counters` add that the sets counted are finite.

### The task store

- `OwnershipHolds`: at most one permit is outstanding, issued or quarantined, and
  while it is, head, attempt and registry generation are the permit's.
- `EffectsOnce`: a logical effect is carried out at most once, whichever attempts
  planned it.
- `ReceiptsHold`: once a permit has ended, its slots and its receipt say which
  effects were carried out.
- `CancellationHolds`: after `cancel_task` no permit is issued and nothing is minted
  or dispatched (an action property).
- `AssignmentsHold`: at most one assignment is in force, and the row an outstanding
  lease-bound permit was admitted under is kept.
- `TakeoverQuiets`: once a takeover is complete, no effect of the term it fenced whose
  endpoint the sealed write set names is carried out (an action property). For the
  others it does not hold, which is the finding `task_mapping`.

`IInv` conjoins the shape of the tables, `Owns`, `SlotsSettle` and `PerformedOnce`. The
last is not inductive alone: an effect may be carried out at any time after its
dispatch, so one has to know that no other attempt can be past dispatch for it.
`SlotsSettle` says so. A slot is unsettled only under an outstanding permit, of which
`Owns` allows one; an ended permit that carried an effect out has closed its slot; a
closed slot is in the history; and an effect closed in the history is underway nowhere.
`Owns` in turn needs that the registry never falls behind the generation a permit froze,
since the reopening of a registry moves it. `Truth` adds that a closed slot was carried
out and that the fence rises with a partial receipt. `CancelSettled`: cancelling closes
every open candidate, so every permit dates from the first cancel epoch, and the
comparison of epochs at mint and dispatch refuses it. `Rows` follows the sorted
assignment table through insertion and rotation. `Fences` says that a takeover's
generation is behind the registry or frozen, that a complete one has observed all its
members, and that the members include the endpoint of every mapped effect of an
outstanding permit of that generation; an endpoint that has observed the fence carries nothing out.

### Only model-checked

- Liveness (`JoinsReturn`, `CancelEnds`, `WaitsResolve`, `WakesArrive`): the prover does
  not handle fairness.
- `FiberRuntime`. `LiveIsCancellable` does not hold for every value of the constants:
  the finding `fiber_stale_reap` refutes it once an identifier has a second generation,
  and `fiber_lifecycle` gives it one. `AccountsExact`, `ExitOnce`, `DetachedIsReclaimed`
  and `DrainsBeforeShutdown` are checked by the same run, and their proof would have to
  carry the same restriction through every pair of locks.
- `ConsensusCore`. What depends on matched logs (`LeaderCompleteness`, `LogsAgree`,
  `ReceiptIsDurable`, `ReadsAreFresh`) is refuted in general by `consensus_ack`, and
  under `Pipelined = FALSE` needs the invariants of the whole protocol with late
  calls and snapshots; `ElectionSafety` and `StoreAccepts` need the part on votes.
  Neither is proved.

## Not modelled

- Time stamps, the clocks behind leases and retention, metering, receipts' contents,
  wire encodings and digests: the models compare identities only. A lease expires
  at any time.
- The batch-cancel loop, process scopes and receipts of the supervisor in the
  fiber runtime; hints, intervals and back-off of the pump, which only decide
  when an idle pump drains again.
- In the control plane: the command state machine, entry integrity checks, the
  leader lease (no code reads it to decide anything), the single-voter
  passthrough and shutdown. The coalescing of queued messages is covered by lost
  messages.
- Channels and Topics: the consumption ledger, endpoint proofs, subscription patterns,
  several Topics on one Channel, the owner's direct enqueues, the retention clock.
- Tasks: effect bindings, snapshot receipts, task groups, fan-out, recovery alerts,
  the semantic and resource plans of a commit, and the working-set limit. The commit
  coordinator calls the actions of `TaskCommit` and has no decision of its own.
- The stores listed as candidates above. Most of the repository is validation,
  encoding, schema, tests beside the code, adapters and clients, which have no
  control to model; the models cover the parts in which the order of steps
  matters most.

## Plan

1. Quota, capacity and device leases with cell epochs and fencing tokens; one holder,
   one contender and a clock that jumps within its horizon.
2. Process migration: the hand-over between two hosts with a crash at each step.
3. The commit of a task with its resource reservations, and an abstract task ledger
   that `TaskCommit` implements.
4. Control plane: a larger log and a third election with an abstract replicated
   log as the promised specification, and catch-up as a liveness property.
5. Proofs: `ElectionSafety` of the control plane, then the log under
   `Pipelined = FALSE`; `AccountsExact` of the fiber runtime under the exclusion
   of stale reaps.
