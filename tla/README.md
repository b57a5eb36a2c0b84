# Walstream: TLA+ models, model checks and proofs

Walstream is a Kafka-protocol broker that keeps all durable state in an object
store. Brokers hold no state of their own that must survive: partitions, topics,
producer IDs and committed offsets are objects, and the only coordination between
brokers is the store's conditional write. Consumer-group membership lives in the
memory of one broker process. This directory models the parts whose correctness
depends on interleavings, failures and time.

Paths below are relative to the repository (`src/log.rs` is `src/src/log.rs` here).

## 1. Inventory

| Part | State | Operations | Talks to |
| --- | --- | --- | --- |
| Partition log (`src/log.rs`) | one manifest ("root") per partition: revision, offsets, recent tail, roots of two page trees; immutable segment objects | `append_batches`, `fetch_bounded`, `offsets` | object store; index and directory pages; topic metadata |
| Offset index (`src/log/index.rs`) | immutable tree pages of segment descriptors | `seal_tail`, `insert_leaf`, `rebuild_index`, `trace_index`, range selection | partition log, maintenance |
| Producer states (`src/log/producer.rs`) | per producer: epoch, next sequence, window of recent batches; immutable directory pages | `accept`, `update_producer`, `producer_state` | partition log |
| Producer IDs (`src/log/producer.rs`) | one counter object | `allocate_producer_id` | object store |
| Maintenance (`src/log/maintenance.rs`) | none | `maintain`: list, trace, trim, publish, collect | partition log's objects |
| Topic metadata (`src/log.rs`) | one create-once object per topic | `ensure_topic`, `topic_partition_count` | partition log (legacy inference) |
| Group offsets (`src/group.rs`) | one manifest per group | `commit`, `fetch` | object store |
| Group coordinator (`src/coordinator.rs`) | in memory: a table of slots, each with a lock, a `Notify` and a group (phase, generation, members, deadlines) | `join`, `sync`, `heartbeat`, `leave`, `commit`, reclaiming and sweeping of slots | group offsets |
| Kafka handlers (`src/protocol.rs`), wire format, record codec, TCP server, storage set-up, configuration | none beyond a request | translation, framing, wiring | everything above |

Hard behaviours, by part:

- **Log.** Any number of brokers append to, fetch from and maintain one partition
  at once. A conditional write may be applied although its caller saw an error,
  and may arrive later. Objects are uploaded before any root names them, while
  collection deletes objects no root names. Clients retry: a retry must return the
  original offsets, also after the records have expired. Correct means: the log is
  one dense sequence of batches, each producer's batches appear once and in order,
  acknowledgements stay true, nothing a root reaches is deleted, and a missing
  object is reported as corruption only if it is.
- **Topics.** Two reads decide whether and with how many partitions a topic exists,
  and brokers may be configured with different counts. Correct means: a topic's
  count never changes and records stay inside it.
- **Coordinator.** Requests of many connections interleave at every lock; join and
  sync sleep on deadlines and notifications; commit holds the lock across store
  calls; empty slots are removed while requests may hold them; the broker may be
  replaced. Correct means: one state per group, one leader, protocol and plan per
  generation, no commit of an old generation over a newer one's, no request left
  waiting.
- **Pages.** Two immutable trees are rewritten along one path by every append and rebuilt
  by retention; every reader refuses a page whose shape is not exactly right. Correct
  means: the trees hold the log and the producers' states, readers accept them whatever
  came before, and walking them finds what a scan would.
- **Requests.** A request names many topics and partitions, whose items are handled one
  after the other while other connections, other brokers and maintenance go on; a client
  may repeat it elsewhere, and a broker may stop at any await. Correct means: every
  partition's answer is true, limits hold for the response as a whole, producer IDs are
  never given twice, no committed offset is lost or runs ahead of what was delivered, and
  consumers make progress.

## 2. Modules

| Module | Models | Kind |
| --- | --- | --- |
| `ProducerState` | `ProducerState::accept`, `validate` | operators |
| `PartitionLog` | append, fetch, retention and collection on one partition | state machine, EXTENDS `ProducerState` |
| `AbstractLog` | what the log promises | abstract specification |
| `MCPartitionLog` | small requests and roots | TLC instance |
| `PartitionLogProofs`, `PartitionLogSafety` | type correctness; collection safety | proofs |
| `PartitionLogHistory`, `PartitionLogValid` | the root and the commit history, fetches; readability of every published root | proofs, each EXTENDS the one before |
| `PartitionLogRefinement` | the partition log implements `AbstractLog` | proofs |
| `TopicMetadata`, `MCTopicMetadata`, `TopicMetadataProofs` | creation and query of a topic's count | state machine, instance, proofs |
| `OffsetIndex`, `ProducerDirectory` | the exact page trees: `insert_leaf`, `seal_tail`, `rebuild_index`, `read_page`, selection; `update_producer`, `producer_state` | operators |
| `LogPages`, `MCLogPages` | a partition's root with both trees over long runs of appends and maintenance passes; the arithmetic of retention | state machine, EXTENDS both; instance |
| `GroupOffsets` | a group's offset manifest: what a commit makes of it, what a reader accepts | operators |
| `RequestHandlers` | what each Kafka request is answered, item by item | operators, EXTENDS `GroupOffsets` |
| `Broker`, `MCBroker` | brokers, connections and clients: requests in progress, the counter of producer IDs, group offsets, failures and restarts | state machine, EXTENDS `RequestHandlers`; instance |
| `BrokerProofs` | types, commits, producer IDs and fetches of the handlers | proofs |
| `GroupMembership` | `GroupState` and the functions that move it | operators |
| `GroupCoordinator`, `MCGroupCoordinator`, `GroupCoordinatorProofs` | concurrent requests of one group, slots, locks, notifications, commits | state machine, instance, proofs |

A definition that is preceded by "Mutant:" is a plausible wrong version of the one
below it; it is used by nothing and documents what the properties would catch.

### PartitionLog and the code

Variables `objects` and `root` are the store; `pc`, `loaded`, `draft`, `todo`,
`tries`, `work`, `cand`, `mode`, `want` are the local variables of an operation
between two awaits; `history`, `acked`, `reply`, `got` record what clients saw.

| Action | Code |
| --- | --- |
| `StartAppend`, `LoadAppend`, `Decide`, `AnswerDuplicates`, `Prepare`, `PutObject`, `CommitAppend`, `LoseRace` | `append_batches`, `prepare_append`, `append_root`, `write_page` |
| `StartFetch`, `LoadFetch`, `FinishFetch`, `MissingRead`, `StaleMissing` | `fetch_bounded`, `fetch_snapshot`, `read_segment`, `stale_missing` |
| `StartMaintain`, `ListObjects`, `LoadMaintain`, `Plan`, `TraceBudget`, `PublishRetention`, `AuthoriseDeletion`, `DeleteObject`, `FinishMaintain` | `maintain`, `maintain_attempts`, `inventory`, `trace_manifest` |
| `Fail`, `LatePut`, `LateDelete`, `LateCas` | a crash or a transport error, and the request still under way |

A root is its whole content, so a conditional write succeeds iff the root still
*equals* the one loaded (an ETag). Whether two publications can have equal content
is therefore part of the model, and why `maintain` increments the revision even when
nothing expires is something the runs show (mutant `RetainedRootSameRevision`).

Abstracted: the page trees are the set of their page objects plus the sequence or
function they encode; which pages of a path are rewritten is nondeterministic; any
prefix may expire (`LogPages` has the trees and the prefix). Reads of present objects are
one step, because names are never reused; a read that finds nothing is a step of its own.

### OffsetIndex, ProducerDirectory, LogPages and the code

| Definition | Code |
| --- | --- |
| `Leaf`, `Branch`, `StatePage`, `ChildPage` | the pages and references that `write_page` and `write_producer_page` make |
| `ValidRef`, `ValidChildren`, `Readable`, `ValidRoot`, `ReadableDirectory` | `PageRef::validate`, `validate_children`, `read_page`, `Root::validate`, `ProducerPage::bounds` |
| `IndexPath`, `InsertLeaf`, `SealTail`, `PushSegment`, `Migrate`, `Rebuild`, `RebuildCount` | `index_path`, `insert_leaf`, `seal_tail`, `append_root`, `migrate_manifest`, `rebuild_index` |
| `Walk`, `Push`, `Select` | `indexed_segments`, `Selection::push`, `fetch_snapshot` |
| `Route`, `Placed`, `Halves`, `UpdateProducer`, `Lookup` | `update_producer`, `producer_state` |
| `AppendBatches`, `Maintain` | `prepare_append` and `maintain_attempts`, as far as pages go |

A reference and the page it names are one record, since a page never changes. An
operation is one step here: `PartitionLog` shows that what is published was built from
the root it replaces, and that nothing it reaches is missing. Receipt times come from a
few clock readings in any order, because brokers' clocks need not agree.

### GroupOffsets, RequestHandlers, Broker and the code

`job[c]` is the handler of a connection between two awaits: its request, the answers so
far, what it has read. `lock[b]` is the slot of the one group on broker `b`, held by a
commit from admission to the end of its write; two brokers do not share it. `late` is
what aborted handlers left under way.

| Action | Code |
| --- | --- |
| `Send`, `Reply`, `HangUp`, `Shutdown` | `serve_connection`, `serve`; clients that give up, repeat their request on another connection or are replaced |
| `ServeFetch`, `ServeListOffsets`, `ServeProduce`, `ServeMetadata`, `ListTopics` | one item of the request's loop in `fetch_response`, `list_offsets_response`, `produce_response`, `metadata_response` |
| `CheckTopic`, `Fence`, `LoadForCommit`, `Put` | `offset_commit_response`: `topic_exists` for each item, `GroupCoordinator::commit`, `GroupStore::commit` |
| `CheckTopic`, `LoadForFetch` | `offset_fetch_response` |
| `LoadCounter`, `Put` | `allocate_producer_id` |
| `ItemFails`, `StoreFails`, `ListingFails`, `LateWrite` | errors of the object store, and the writes that arrive for all that |
| `Trim` | retention, seen from outside |

Abstracted: a request to the log is one step on `topics` and `logs`, which is how
`PartitionLog` and `TopicMetadata` show it to look; recognising repeated batches is left
to `PartitionLog`: a repeated idempotent batch is appended again here, which nothing checked
of `Broker` depends on. Whom the coordinator admits is nondeterministic in `Fence`; `GroupCoordinator` decides it. One
group is modelled, offsets without metadata. Frames are records: a frame that cannot be
read, and a request of an API or version that is not supported, end the connection.
`ApiVersions` beyond the supported versions gets the one error response. The consumer
(`Sendable`, `Position`, `Redialled`) is external: a Kafka client that asks for its
offsets, or else for the earliest, fetches, commits its position, and starts anew after
an offset out of range.

### TopicMetadata and the code

`LoadMeta`, `LoadManifest`, `Create`, `Reload` are the awaits of `ensure_topic`,
`create_topic_metadata` and `topic_partition_count`; `Append` and `Refuse` are the
rest of an append as far as the topic can see it; `Fail` and `LateCreate` are
failures.

### GroupMembership, GroupCoordinator and the code

`Advance`, `StartRebalance`, `Finalize`, `Compatible`, `Selected`, `Exact`, `Active`
are `advance_group`, `start_rebalance`, `finalize_rebalance`,
`protocols_compatible`, `select_protocol`, `exact_assignments`, `active_group`.
An `Option<GroupState>` that is `None` is `NoGroup`.

| Action | Code |
| --- | --- |
| `CallJoin` / `CallSync` / `CallMember` | slot lookup; `join` also reads the clock here |
| `JoinAdmit`, `JoinTail`, `JoinCheck`, `Wake` | the three locked sections of `join` and its `select!` |
| `SyncCheck`, `Wake` | the loop of `sync` |
| `Heartbeat`, `Leave`, `Commit` | their locked sections |
| `LoadOffsets`, `PutOffsets`, `FailOffsets`, `LatePut` | `GroupStore::commit`, under the lock |
| `NotifyAfter`, `Reclaim`, `Sweep` | notification after the lock, `reclaim_slot`, `sweep_reclaimable_slots` |
| `Replace` | the process ends; only offsets survive |
| `Tick` | time |

The reference count of a slot is the number of requests that hold it (`Holders`)
plus the table's. The lock is free unless a commit is at the store (`Free`): all
other locked sections have no await inside and are single actions. A `Notified`
future is enabled before the lock is taken, so a request is notified from `check`
on (`Waiting`). Member ids are drawn from any unused ones, in any order, because
UUIDs are random and the code elects the smallest. Stored offsets are reduced to the
incarnation (`born`, a history number) and generation that committed them.

## 3. Runs

All runs but three pass. Every passing run checks only properties that a mutant
listed in `PROJECT.json` breaks.

| Run | Shows |
| --- | --- |
| `append` | two brokers, two idempotent producers, requests of one and several batches: retries, duplicate prefixes, a conflicting retry, a new epoch, lost races, sequence numbers modulo 4 and a window of 2 that wrap and overflow, one failure whose write may arrive late. `PartitionLog` implements `AbstractLog` (`ImplementsLog`), the root is exactly the retained part of the history (`RootMatchesHistory`), published roots pass the reader's validation (`RootValid`) |
| `gc` | a writer and two maintenance processes, listings that miss objects, one failure: nothing reachable is collected (`LiveGraphPresent`), retries after expiry keep their offsets, revision, start and next offset never go back (`RootMovesForward`) |
| `fetch_gc` | from a schema-1 root that an append or maintenance adopts, on a tight object budget: a fetch overtaken by collection retries and returns a run of committed batches (`FetchSound`); a missing object is never reported under an unchanged root (`NoIntegrityFailure`); every append, fetch and maintenance call returns (`OperationsReturn`) |
| `pages` | 13 batches of 11 producers, new and inherited roots, two passes of retention: the trees hold the log (`TreeHoldsLog`), every reader accepts them (`PagesReadable`), a fetch of any offset and budget selects what a scan would (`SelectionExact`), every producer's state is found (`LookupExact`), retention takes exactly the prefix its limits and clock ask for (`RetentionExact`), and the object budget checked before publication covers the trace after it (`BudgetForeseen`) |
| `requests` | six worlds of two brokers and two clients with one failure, hang-up or restart: `IdsUnique`, `NoLostCommit`, `ManifestReadable`; a partition's commit code is true (`CommitAnswersTrue`); a fetch keeps its budget and is empty only at the end (`FetchWithinBudget`, `FetchServes`); committed offsets are never past retained records that nobody was given (`CommittedWasDelivered`); consumers reach the end (`ConsumersCatchUp`) |
| `topic_create` | three brokers with different counts, new and legacy topics, one failure: `CountFixed`, `CreatorsConverge`, `AppendsInRange` |
| `topic_count` | **violation**, finding 1 |
| `topic_refuse` | **violation**, finding 2 |
| `group_sync` | joins, rejoins, competing plans and leaves of two clients, timeouts, sweeps: all answers of one generation agree (`GenerationAgreed`), its members are in the same state (`GenerationComplete`), no sleeping request misses its answer (`NoLostWakeup`) |
| `group_commit` | members that join with different protocols always share one (`CommonProtocol`); commits across generations and incarnations, a store error or broker replacement, a late write: `OffsetsFenced` |
| `group_return` | all operations, one failure: every request returns (`RequestsReturn`) and works on the table's slot until then (`SlotUnique`) |
| `group_survive` | **violation**, finding 3 |

**Bounds.** Log: one or two writers, at most two maintenance processes, one or two calls
each, pages of 2 entries (64 in the code), a window of 2 (5 in the code), 2 attempts
(128 in the code), at most one failure. Two entries are enough for a tail to fill,
seal and roll over, two attempts for a lost race followed by a success or by
exhaustion (`gc` has one attempt: its races are between publications, and each loser
simply fails), and a writer plus two collectors for every pair of operations to
overlap. Pages: index pages of 2 and directory pages of 3 entries, the least that
validation and splitting allow; 13 batches then grow an index of three levels and 11
producers, in ascending, descending and shuffled order, a directory of three. Requests:
two partitions of one topic and one topic that appears meanwhile, limits of 8 bytes per
response (3 after the reserve) and 3 per partition against batches of 1 to 9 bytes, a
manifest of 2 entries, 2 attempts, scripts of two to four requests. The worlds have
different clients, so their states add up instead of multiplying; each has enough to put
any two requests of interest beside each other, and one failure at any await. Topics: one call on each of three brokers. Groups: two clients, two
members, 3 to 6 requests, 1 to 6 ticks with timeouts of 1 to 3; two requests admitted in
one rebalance make a two-member generation, so four requests reach a stable one,
and six reach a commit of the next generation beside a pending one of the last.
`Horizon` stops new requests before `MaxClock`, so that liveness is not decided by
the end of time: the waiting times that are left fit between the two.
`SYMMETRY` over the clients of a group or the maintenance processes of `gc` is used only
in runs without liveness. `group_sync` and
`group_commit` leave out of TLC's fingerprints (`VIEW`) the history variables that no
action and none of their properties reads: `began`, and in `group_commit` `outcomes`.

**Deadlock** is not checked: clients make a bounded number of requests, after which
the system rightly stops.

**Fairness.** Each operation's own steps are weakly fair (`Step(x)`, `Step(c)`): the
runtime polls every task whose future is ready, store calls return or fail, and
tokio's mutex hands the lock out in order. New calls, failures, late writes and
sweeps are not fair. `GroupCoordinator` writes weak fairness of `Step(c)` with the
predicate `Ready(c)` in place of `ENABLED`, which TLC evaluates very slowly here;
the two were compared on every state of an instance with two requests. Time passes
(`Tick` is fair). In `Broker`, the handler of every connection is fair, and so is
every client's next request: consumers poll. A handler that waits for the group's slot
gets it because whoever holds it is fair.

## 4. Proofs

All theorems hold for every value of the constants allowed by the named assumptions of the
modules. Each inductive invariant below was checked by TLC on the runs before it was
proved.

**Assumptions that say more than a type.** `RootsAssumption`: a partition starts without a
root or with a schema-1 manifest as `Manifest::validate` accepts it (`LegacyManifest`).
`GroupOffsetsAssumption`, `HandlersAssumption`: well-formed topic names are a finite set of
strings; "no object" is not the content of one. `WorldsAssumption`: brokers start on topics
with at most the permitted partitions and on logs that appends and retention can have made
(`Logs`), and clients send decoded requests (`Requests`), in which a record batch has
at least one byte. `ScriptsAssumption`: consumers do nothing else, and clients that are
not consumers commit no offset above 0 (a client that commits what it never read would make
`CommittedWasDelivered` false, whatever the brokers do; no other theorem uses it).
`MemberIdsAssumption`: the identifiers members may draw are finitely many (they are UUIDs);
`OffersAssumption`: a join offers at least one protocol.

### Partition log

- **`PartitionLogProofs!TypeCorrect`**: `Spec => []TypeOK`.
- **`PartitionLogSafety!CollectionSafe`**: `Spec => []LiveGraphPresent`, and
  **`MissesExcused`**: `Spec => []NoIntegrityFailure`, both from **`GcInvariant`**.
  `LiveGraphPresent` alone is not inductive: it says nothing of what is under way.
  `GcInv` adds (a) names drawn from now on are new (`NamesDrawn`), so a fresh upload
  never meets a pending delete; (b) what is *doomed* (candidates of a collector that
  has passed its second look at the root, and deletes still to arrive) is not reached
  by the root; (c) for every writer whose loaded root is still current, its draft
  reaches only what exists or what it will create itself, and nothing doomed
  (`SafeDraft`); the same for conditional writes still to arrive (`CasSafe`);
  (d) revisions only grow, so once a root was replaced it is never current again and
  drafts made from it can no longer be published. A collector may doom objects only
  after it has published a new revision from the root it traced, which by (d)
  disarms every draft that still counted on them.
- **`PartitionLogHistory!NothingLost`** (`RootMatchesHistory`), **`MovesForward`**
  (`RootMovesForward`) and **`FetchesSound`** (`FetchSound`), from **`HistoryInvariant`**.
  A root is published several steps after it was designed, or by a late write. `HistoryInv`
  follows it: every draft, and the new root of every conditional write under way, `Follows`
  the root it was made from, by appending dense batches or by dropping some first ones. A
  fetch selects from a root that may be replaced meanwhile, so a selection is a piece of the
  *history*, which only grows.
- **`PartitionLogValid!AlwaysReadable`** (`RootValid`), from **`ValidInvariant`**. It holds
  of every root an operation works from or means to publish, and of the private producer
  states of an append that is being decided: tails fall short of the log by whole leaves
  (`Shaped`), and the windows of producers stay chains of sequence numbers and offsets.
- **`PartitionLogRefinement!LogImplemented`** (`ImplementsLog`), from **`LogInvariant`**:
  initial states map to initial states and every step to a step of `AbstractLog` or a
  stutter. `LogInv` says what each publication *would* make of the history *provided* the
  root is still the one it was made from (`Sequel`): one whole request, in sequence for each
  producer. A publication makes that proviso false for everything else, since revisions
  grow. Answers of repeated batches rest on no write, so what they rely on (`Justified`) must
  hold without the proviso, after any number of other publications.

### Topics

- **`TopicMetadataProofs!CountNeverChanges`**: `Spec => CountFixed`, and
  **`RecordsInRange`**: `Spec => []AppendsInRange`. The invariant `CountInv` says that
  every proposal and every late creation agrees with the inferred count of a legacy
  topic (`Compatible`) and that calls past the check hold a partition inside the stored
  count (`CallSafe`). **`CreatorsAgree`** (`CreatorsConverge`): what creators are told is
  the stored count, once there is one.

### Brokers

`BrokerProofs` is about any number of brokers, connections, clients and failures.

- **`HandlersInvariant`**: `Spec => []BrokerInv`, which is inductive on its own: the types,
  how far each handler is with the items of its request (`Progress`), that its answers are
  those of its API (`Fits`), and what a handler that will write has checked (`Carries`); the
  same for late writes; and who holds the group's slot. **`HandlersTyped`** (`TypeOK`)
  follows.
- **`CommitsKept`** (`NoLostCommit`) and **`ManifestsAccepted`** (`ManifestReadable`).
  A write lands only if the manifest equals its base, and by `Carries` its base was found
  readable and its limit was checked *against that base*.
- **`CommitsToldTrue`** (`CommitAnswersTrue`). `CommitsInv` relates the checks of the items
  to the entries that will be stored, through every phase of the handler: an item that may
  still be told success is among them.
- **`IdsNeverRepeat`** (`IdsUnique`). An ID comes from the base of a write that landed. Every
  ID that is in a response under way or in `issued` is below the counter, and no two are
  equal; the counter only grows, so an object read before cannot come back.
- **`FetchesServe`** (`FetchServes`) and **`FetchesWithinBudget`** (`FetchWithinBudget`).
  While a response has no records it may still take a batch of any size, so a partition that
  was answered with none was at its end (`Serves`). What is sent and what is left never
  exceed the budget, unless one large batch has taken all (`Budgeted`).

- **`CommitsDelivered`** (`CommittedWasDelivered`). Nothing a handler does is enough here:
  between the record and the committed offset lie a fetch, the consumer's position, the
  request to commit, the handler's checks, and a write that may be late. `DeliveryInv`
  follows an offset along this way. It calls an offset *given* if every retained record below
  it was delivered, which stays true when the log is trimmed, and says that the manifest,
  late writes (`LateGiven`), positions (`ClientGiven`), what commits were asked to store and
  what offset fetches and listings are going to tell (`Reliable`) are given; and that what a
  waiting consumer asked was asked from given positions (`Prudent`). `CommitsInv` adds that
  what a handler stores is among what it was asked to. A listing of the *latest* offset is
  not given, so consumers must not ask for it: that they start at the earliest is what
  `Sendable` says of them.

`Total`, `Weight` and `Those` are functions that call themselves. The library's induction
theorems take an operator as a parameter and are not usable here, but what these functions
compute is proved for every length by looking at the least place where a claim fails (lemma
`Smallest`, from the library's well-foundedness of `<`).

### Group coordinator

`GroupCoordinatorProofs` is about any number of clients, slots, members, protocols, timeouts
and failures.

- **`OneSlotPerGroup`** (`SlotUnique`). The inductive form, `SlotInv`, says that a request
  holds a slot exactly while it is in progress, and that it is the one in the table.
  Reclaiming needs the count of two, sweeping the count of one, creation that no slot is in
  the table: then nobody holds any. Every locked section below therefore works on *the* group.
- **`GroupInvariant`**: `Spec => []GroupInv`. There is at most one group, of the latest
  birth, and it is `Sound`: its members share a protocol, its leader is one of them, and
  outside a rebalance they are `Together`, that is, they hold one result and, in a stable
  generation, one plan. Also, what joins and syncs were *told* about the current generation
  is what it holds (`Told`), which is what makes a late answer agree with an early one; and
  nothing was told of generations to come. `advance_group` may remove members, elect a
  leader, start and end rebalances in one call; each of these operators has its lemma (what
  it does to a `Sound` group, and that it only goes *onward* in rebalances and generations),
  and each locked section combines them. From it follow **`CoordinatorTyped`** (`TypeOK`),
  **`GenerationsComplete`** (`GenerationComplete`), **`ProtocolsCommon`**
  (`CommonProtocol`) and **`GenerationsAgree`** (`GenerationAgreed`).
- **`WakeupsKept`** (`NoLostWakeup`) is inductive beside `GroupInv`. A sleeper may get its
  answer in a section of another request that notifies later, after it unlocked the group,
  or only after its commit reached the store; until then that request *owes* the
  notification, and keeps owing it until it notifies.
- **`StoreFenced`** (`OffsetsFenced`). That a write is not older than what it replaces is not
  inductive: it must be known when the write is decided and remain so until it arrives.
  `OffsetsInv` says that a commit which talks to the store keeps its group as it was when
  the commit was accepted (`CommitsHold`, since it keeps the lock); that it read a revision
  that was stored (`ReadsPast`); and that what is stored is not newer than the group, nor is
  a late write that could still win older than what is stored (`StoreDated`). A late write
  wins only against the revision it was made from, so one that was overtaken stays harmless.

### Only model-checked

- Everything about pages (`LogPages`): `OffsetIndex` and `ProducerDirectory` need recursive
  operators on trees, and the prover loses its SMT backend in a module that reaches one.
- All liveness (`OperationsReturn`, `ConsumersCatchUp`, `RequestsReturn`, ...): the prover
  has no rules for `ENABLED` and so for fairness.

## 5. Findings

1. `topic_partition_count` (`src/log.rs:198`) may answer 1 for a topic that was created
   with more partitions and appended to between its two reads (`QueriesDurable`).
2. A first Produce refused for its sequence number leaves the topic's metadata behind
   (`src/log.rs:293`), although the design notes promise that rejected requests have no
   side effects (`RefusalsSideEffectFree`).
3. `join` reads the clock before it waits for the group's lock (`src/coordinator.rs:176`).
   After a wait longer than the rebalance timeout, for instance behind a slow commit,
   the rebalance it starts has expired already, and members whose sessions live are
   removed without having been told to rejoin (`SurvivorsMayRejoin`).

## 6. Not modelled

- Wire format and record codec: conversions of bytes by this code and a library. Batches
  appear with their counts and sizes, requests as records.
- Storage set-up, configuration, command line, the maintenance probe: start-up I/O
  without later state. `verify_store_contract` checks the conditional writes that all
  models assume.
- JoinGroup, SyncGroup, Heartbeat, LeaveGroup and FindCoordinator handlers: they convert
  fields around the calls in `GroupCoordinator`. An OffsetFetch of all offsets is one
  read of the manifest.
- Inside the modelled parts: checksums, object names and byte lengths of pages; commit
  metadata and the manifest's limit in bytes; the limit of group slots (it refuses
  without changing state); the overflow of generation numbers.

## 7. Plan

Done, in this order: partition log and producer states; topic metadata; group
coordinator; page trees and retention; group offsets, producer IDs, request handlers and
brokers; proofs of the partition log with its refinement, of topics, of brokers and of the
group coordinator. Next:

1. What can be proved about the pages: `OffsetIndex` and `ProducerDirectory` would have to
   recurse by functions instead of operators.
