# A formal model of the OpenEvent server

OpenEvent keeps one globally ordered log of messages in RocksDB, lets clients
publish to it and subscribe to it over gRPC, and stores objects in files beside
it. This directory models the parts where order, concurrency, failures and
restarts decide whether the server is right. TLC checks the models on small
instances; TLAPS proves the safety of the write coordinator, of object storage, of
storage creation, of the subscriptions and of the queries for every instance.

Paths below are relative to the repository; `core` is
`src/service/open_event_core.cpp`.

## 1. The system

| Part | State | Operations that change it |
|---|---|---|
| Write coordinator (`core`) | `coordinator_mu_`, `fatal_error_triggered_` | AllocateUuids, Publish, PublishAutoSeq, CreateChannel, AddMember, RemoveMember, AddToken, DeleteToken |
| Event storage (`src/storage/unified_storage.cpp`) | counters, messages, uuid index, channels, tokens | write batches, creation, validation at open |
| Object storage (`core`, `src/storage/object_file_store.cpp`) | PREPARING and COMMITTED records, files | WriteObject, its clean-up, recovery at open |
| Subscriptions (`core`, `src/service/grpc_services.cpp`) | shared snapshot, commit generation, streams | Subscribe, the refresher thread, StopSubscriptions |
| Server process (`src/server/main.cpp`) | shutdown flags, two gRPC servers, threads | signals, the fatal error handler, shutdown, exit |
| Storage creation (`src/storage/unified_storage.cpp`) | root, its directories, column families, initial state | Open, InitializeNew |
| Queries (`core`) | none | GetStatus, GetSeqByUuid, Fetch, List..., Get... |
| Adapters, configuration, encodings | none | none |

How they interact. Every write takes `coordinator_mu_`, reads a snapshot,
decides, and commits one batch synchronously. A commit that fails is fatal: no
new call is accepted, the fatal error handler wakes a thread of `main`, and the
process ends. A successful commit increments `commit_generation_`; the refresher
notices, publishes a new shared snapshot and wakes the streams. WriteObject uses
the coordinator twice, and writes its file between the two, unlocked.

What is hard here: calls that interleave at the lock; writes whose outcome is
unknown until the next start; client retries; tokens deleted while calls under
them are on their way; kills and power loss between file and record; wake-ups on
two condition variables; a signal that races a fatal error; starts that are
interrupted while they create storage; pages cut by three limits from a log
that grows. `PROJECT.json` lists each such hazard with its line and the properties that watch it.

## 2. The modules

| Module | Models | Variables stand for |
|---|---|---|
| `EventStore` | records, batches, checks and batch builders; no variables | |
| `EventLog` | the coordinator: workers, lock, commit, failure, restart | `db` the committed data; `inDoubt` a failed batch that may be in the WAL; `pc`, `batch`, `call` the locals of each call |
| `ObjectStore` | WriteObject, ReadObject, clean-up, recovery | `meta` the records; `names`, `maybe`, `data`, `synced` the directory, what power loss may leave of it, and the files |
| `Subscription` | commits, refresher, streams | `shared` the shared snapshot; `generation` is `commit_generation_`; `asleep` who is blocked on the condition variable; `unsent` the rest of a batch that is being written |
| `ServerLifecycle` | the threads of `main` | `at` the step of each thread; the rest are the flags of `main` |
| `PublicationLog` | what the coordinator promises: an append-only log, with channels that only its messages change | `log`, `channels`, `tokens`; `known`, `dead`, `granted` what clients have been told |
| `EventLogRefinement` | the map from `EventLog` to `PublicationLog` | |
| `ObjectReferences` | messages that name objects, composed with `ObjectStore` | `log` the object keys of each message; `logDoubt` what a failed publication may still make of it |
| `StorageOpen` | Open and InitializeNew | `entry` the directories and whether power loss can take them; `families`, `rows` the database; `at` the step of the start |
| `ReadQueries` | Fetch, ListMessages, ListChannels, GetChannel and ScanMessages as operators; a client that pages | `db` the data; `reader` the client's request, cursor and messages; `damaged`, `fatal` |
| `MC...` | constants, symmetry and start states for TLC | |
| `EventStoreProofs`, `EventLogProofs`, `EventLogLimitProofs`, `EventLogRefinementProofs` | theorems about the coordinator and its refinement | |
| `ObjectStoreProofs`, `StorageOpenProofs`, `SubscriptionProofs`, `ReadQueriesProofs` | theorems about the other components | |

Each action is one atomic part of a handler: a part under a mutex, one system
call, one notification. Definitions keep the names of the functions they
translate. A comment "Faulty variant" marks a definition that no specification
uses: it is a plausible mistake that some property has to notice.

Abstractions:

- Payloads, names, sizes and timestamps are left out. Of a system message the
  kind and the principals it names remain. Member lists, which the code keeps
  free of duplicates, are sets.
- A publication's refusal for a reason outside the model (deadline, payload
  size, object keys) is an "obstacle" of the request. DEADLINE_EXCEEDED and
  CANCELLED are one code.
- Arguments are chosen at the step that first compares them with shared state.
  Calls refused before the lock change nothing and are left out.
- GetSeqByUuid releases the lock before it reads its snapshot. A snapshot does
  not change, so the model reads at once.
- In `ObjectStore` and `Subscription`, a part that holds `coordinator_mu_` is
  one step; `EventLog` is where the lock itself is modelled.
- In `Subscription` a commit is a message or the deletion of a token; all
  streams share one set of visible seqs; any message but the first of a page may
  exceed the soft size limit. Each `Write` of a message is a step, which may block;
  a cancelled stream's last `Write` may still succeed or fail.
- In `ServerLifecycle` both `Shutdown` calls begin in one step, and the servers
  drain in any order.
- In `ReadQueries` a query is one step, because it reads one snapshot. Message
  sizes have three classes: several fit the soft limit, one does, none does.
- In `ObjectReferences` a publication is one step, since it holds the lock
  throughout. An object key is written as the object it stands for.
- In `StorageOpen` the content of the database is the number of its commits.

Assumed of what is outside the repository: a synchronous RocksDB write that
fails is absent, present, or settled by the replay of the WAL at the next open,
and RocksDB takes no further write in the last case; fsync of a file makes its
bytes durable, fsync of a directory makes its entries durable, and without it a
power loss may leave any state the directory has had since; a generated token
is new; `grpc::Server::Shutdown` returns once all handlers have; RocksDB makes
its own files in `db` durable.

## 3. What is model-checked

`tlc -config <cfg> <module>` in this directory; each run takes at most three
minutes on a small machine.

| Run (cfg) | Question | Distinct states |
|---|---|---|
| `MCEventLogPublish` | Two workers, from new storage: is the log dense, is a uuid used once, are answers permanent, do statuses tell the truth? | 150,944 |
| `MCEventLogMembers` | Publications race member changes: do membership, authorship, the member limit and the inductive invariant hold, and is every step one of `PublicationLog`? | 75,608 |
| `MCEventLogTokens` | From new storage: is a deleted token shut out for calls already waiting and after restarts, and is every step one of `PublicationLog`? | 65,912 |
| `MCObjectReferences` | Are committed objects readable, and objects that messages name durable and served, after any failure, kill or power loss? Is nothing left behind or falsely reported corrupt? | 158,452 |
| `MCObjectStoreRecovery` | Does a start with unfinished objects end, and is none refused for good? | 8,418 |
| `Subscription` | Does a stream deliver each visible message once and in order, from snapshots recent enough, and nothing under a deleted token? | 1,336,123 |
| `SubscriptionLive` | Do acknowledged messages arrive at a client that reads on, and do streams end at shutdown whatever the client does? | 95,814 |
| `ServerLifecycle` | Is nothing in use when the core is destroyed, and does the process end? | 1,907 |
| `StorageOpen` | Does no start serve or complete what an interrupted one left, is initialized storage served, and when can a commit be lost? | 601 |
| `MCReadQueries` | Are pages exact, within budget and always advancing while log, members and tokens change? Is damage at any place of a page noticed, and nothing else reported? Do the listings agree? | 762,920 |
| `SubscriptionStartup`, `ServerLifecycleStatus` | see section 4 | |

The type invariant of `EventLog` is checked and proved by name; those of the other
modules are conjuncts of one of their invariants (`ObjectIdsAreUnique`,
`NamedObjectsAreDurable`, `SeesPriorCommits`, `QuietBeforeDestruction`,
`ServesOnlyComplete`, `PagingAdvances`).

The refinement. `PublicationLog` has no lock, batch, counter, WAL or crash: it
appends one message at a time, derives the members of a channel from its
messages, and lets clients learn only what the log holds. `EventLog` implements it
with `log`, `channels` and `tokens` taken from `db`; stored member lists and
counters do not occur in the map. A step that commits, a restart that settles a
write in doubt, and an answer to a client are each one abstract step; all others
are stuttering. A change that reached the data without its message or twice, or for
a principal without a token, would not be a step of it. (`RevokedIsShutOut` says
more: it is about the very token of the call.)

Bounds. Two workers suffice for every conflict over the lock, since a third
only waits. `MaxSeq`, `MaxUuid` and `MaxChannel` allow one channel and, with its
first message, two messages in the token instance, three in the publication
instance and four in the member instance, one of these by a user. The member
instance has three principals for a limit of two members; it starts later, at a
state that calls of AddToken and AllocateUuids reach, to spend its depth on
channels. A full log ends an instance, also for calls that would be refused. Two objects are needed for a recovery in key order; one message
suffices in `MCObjectReferences`, since messages do not change each other's
objects. In `Subscription` a page can end at each of its limits: the soft size,
the count, the scan limit, and the end of the log. In `SubscriptionLive` a scan of
one record meets an invisible seq, so a stream has to go on after an empty page.
Both have one stream; streams share only the snapshot and its notifications. The
page limits of `MCReadQueries` (2 messages, size 3, 3 records) can each end a page
first, and a log of up to five messages takes at least two pages. `StorageOpen` has
up to three missing directories. Workers and credentials are symmetric in the
safety runs; the liveness runs use no symmetry.

Deadlock is checked for `EventLog` and `ObjectStore`, which can always restart.
It is also checked for `StorageOpen`, where a start can always be repeated or
interrupted. It is not for `Subscription`, `ServerLifecycle` and `ReadQueries`,
which stop for good.

Fairness. `ObjectStore`: a start goes on, and `main` returns when it failed.
`Subscription`: the refresher wakes every 100 ms; a written commit is counted;
a fatal error reaches the thread that stops the streams; a stream that can run
does. A `Write` to the client is not such a step: it blocks while a connected
client does not read, and is sure to return only when the stream is cancelled
(`TryCancel` fails pending writes). `MessagesArrive` is therefore about a client
that reads on (`ReadsOn`, an assumption in the property itself); `StreamsEnd`
needs no such assumption. `ServerLifecycle`: threads that can run do; ordinary handlers return;
cancelled streams end, which is `StreamsEnd` of `Subscription`. `StorageOpen`: a start
goes on, and a supervisor starts the server again. Except for `ReadsOn`, nothing
is assumed of clients, of signals, or of streams that were not cancelled.

## 4. Where the code and its documents disagree

- `StartupCoversPriorCommits`. tests/core_tests.cpp:583 says "subscription
  startup must wait for the shared snapshot to cover prior commits". If a fatal
  storage error is raised during that wait, AcquireSubscriptionSnapshot returns
  OK with the older snapshot. Without a fatal error the statement holds
  (`SeesPriorCommits`); the test raises none.
- `FatalErrorIsReported`. docs/CONFIG.md:76-77 says "A fatal storage error still
  causes a non-zero final process exit status." `main` reads the flag before the
  core and its refresher thread are destroyed. An error that reaches the flag
  in between leaves exit status 0. The window is short.

Not a disagreement, but a window to know of, which `CommitsSurvive` names as its
only exception (`stranded`): CreateDirectoryAndSyncParent
(src/storage/unified_storage.cpp:273) synchronises the parent only of a directory
it has just created. If a process dies, or the fsync fails, between
the two, the next start finds an
empty directory, builds the storage in it and never makes its entry durable; power
loss may then remove the root with its commits, and the start after that creates
new storage. Many file systems order these writes so that it does not happen;
fsync(2) does not promise it.

## 5. What is proved

`tlapm <module>.tla` checks the proofs. Each theorem is about the specification of
its component, for every value of the constants: any sets of workers, principals,
tokens and subscribers, any requests and limits, and any number of failures, kills,
power losses and restarts. Only `Principals` is assumed to be finite.

| Theorem | States |
|---|---|
| **`EventLogProofs`** | |
| `CoordinatorIsSafe` | the inductive invariant `IInv` |
| `TypesAreKept`, `BatchesMeetTheirData` | `TypeOK`, `CoordinatorInv` |
| `LogStaysDense`, `UuidsNameOneMessage` | `LogIsDense`, `UuidNamesOneMessage` |
| `StorageReadsBack` | `NothingReadsAsCorrupt` |
| `MembershipIsTheReplay`, `AuthorsAreAdmitted` | `MembershipReplays`, `AuthorsWereAdmitted` |
| `CommitsAreForEver` | `CommittedIsImmutable` |
| `AnswersAreTrue` | the inductive invariant `AnswersInv`, with `IInv` |
| `AnsweredSeqsArePermanent`, `UuidsBelongToOneClient` | `AckedIsPermanent`, `UuidsHaveOneOwner` |
| `StatusesAreHonest`, `RevocationIsFinal` | `StatusTellsOutcome`, `RevokedIsShutOut` |
| **`EventLogLimitProofs`**: `MembersStayWithinLimit` | `MembersWithinLimit` |
| **`EventLogRefinementProofs`**: `EventLogImplementsPublicationLog` | `ImplementsPublicationLog` |
| **`ObjectStoreProofs`** | |
| `StoreIsSafe` | the inductive invariant `StoreInv` |
| `CommittedObjectsAreReadable`, `FilesHaveRecords` | `CommittedIsReadable`, `NoOrphanFile` |
| `NoCorruptionIsReported`, `ObjectIdsStayUnique` | `NoFalseCorruption`, `ObjectIdsAreUnique` |
| `NothingCommitsAfterRevocation`, `RestartsAreClean` | `NoCommitAfterRevocation`, `StartsClean` |
| `NamedObjectsStayDurable` | `NamedObjectsAreDurable` |
| `ComposedStoreIsSafe`, `ComposedStepsAreSafe` | the properties of `ObjectStore`, in the composition |
| **`StorageOpenProofs`** | |
| `OpeningIsSafe` | the inductive invariant `IInv` |
| `OnlyCompleteStorageServes`, `InitializationIsFresh` | `ServesOnlyComplete`, `InitializesFreshStorage` |
| `NoCommitIsLost` | `CommitsSurvive` |
| **`SubscriptionProofs`** | |
| `StreamsAreSafe` | the inductive invariant `IInv` |
| `StreamsDeliverInOrder` | `DeliversInOrder` |
| `SubscribersSeePriorCommits` | `SeesPriorCommits` |
| `RevokedStreamsGetNothing` | `NothingAfterRevocation` |
| **`ReadQueriesProofs`** | |
| `QueriesAreSafe` | the inductive invariant `IInv` |
| `PagesHoldWhatIsWanted`, `DamageIsReported` | `PagesAreExact`, `NoDamageIsHidden` |
| `NoAlarmWithoutDamage`, `ClientsAdvance` | `NoFalseAlarm`, `PagingAdvances` |
| `PagesStayInBudget`, `ListingsAlwaysAgree` | `PagesKeepBudget`, `ListingsAgree` |

The arguments.

- Coordinator. No property is inductive alone: a batch is built in one step and
  written in a later one, or replayed after a restart. `IInv` is `TypeOK` with
  `CoordinatorInv`, which adds that the lock has one holder, and that a batch about
  to be written or still in doubt (`GoodStep`) fits exactly the data it will meet.
  `EventStoreProofs` shows, batch by batch, that the checks of the code make
  `GoodStep` true; `EventLogProofs` then goes through the actions. The heart is
  `WriteSucceeds` and `Crash`: no other batch can be pending when `db` changes.
- Answers. `AnswersInv` follows an answer from the decision under the lock to the
  client: while a batch is pending it delivers what the call will say, afterwards the
  data holds it, and a replayed batch contradicts nothing that was said.
- Refinement. The map needs one more invariant, `MapInv`: stored members are those
  that the system messages of the mapped log name last. Then a write, or a restart
  that replays one, appends one message that `PublicationLog` admits.
- Object storage. `StoreInv` says for each label of WriteObject what the directory
  may hold after a power loss (`FileAt`), that the worker's PREPARING record is in
  every state a restart may find, and that committed objects are complete in all of
  them. In `ObjectReferences` a message, also one in doubt, names committed objects
  only, and `meta.committed` is the least a restart may find.
- Storage creation. `IInv` says how far an initializing start has come, what an
  opening one has seen, and which directories are not durable yet; a first missing
  directory exists by the least-number principle.
- Subscriptions. Five facts carry `IInv`. A snapshot stamped with generation g holds
  what was acknowledged when any generation up to g was current, because the
  refresher reads the generation before it takes the snapshot and CommitBatch counts
  after it has written (`Stamps`). A stream that has started is at most one past the
  end of the shared snapshot, which never shrinks (`InRange`), so FetchVisible never
  takes it back. Pages that follow one another join without a gap (`PageJoin`).
  While a batch is written, what was delivered followed by what is unsent is the
  page up to the cursor (`Sent`). And what is unsent was fetched under a token that
  was valid in the snapshot of the batch (`Entitled`), whatever is committed since.
- Queries. `Scanned` is the invariant of the loop of ScanMessages: where it stands,
  that it passed only sound messages, that its page is exactly what it passed and
  shows, that its byte count is the size of the page, and that sound data gives no
  alarm. `ScanSteps` shows that every record keeps it, `ScanEnds` that the loop ends
  with it; `QueryIs` adds what Fetch and ListMessages do around it. The loop and the
  size of a page are recursive functions. That they exist (`Recursion`) and that the
  loop keeps its invariant follow from an induction over sets of natural numbers
  (`UpTo`), which rests on the library's well-foundedness of `<`. Around it, `IInv`
  says that data is good until it is damaged and typed even then, and that what a
  client has received lies in the log that it has passed.

Assumptions: 0 is no principal; the member limit is a positive number and the
uuid batch limit a natural one; page and scan limits are positive; a storage root
lies below some existing directory; the choices offered to clients are well typed;
the data that a client of `ReadQueries` finds is good (`GoodDb`), which
`CoordinatorIsSafe` shows of what the coordinator has written.
The bounds of the instances appear in guards and may be any natural numbers.

Only model-checked:

- Liveness (`EventuallyServes`, `StreamsEnd`, `MessagesArrive`, `ProcessExits`,
  `InitializedStorageServes`), which is out of the prover's reach.
- `ServerLifecycle`. It has no constants and finitely many states, so the run of TLC
  is complete.

## 6. What is not modelled

- GetStatus, which returns one counter of one snapshot.
- Errors of RocksDB reads, which end the process as damage does; damage of more
  than one record; an object path that is a directory.
- Two checks of Validate: `schema_version`, a constant, and that `next_object_id`
  is not 0, which `ObjectStore` keeps.
- Overflow of the 64-bit counters: `next_uuid + count` would wrap after 2^54 calls
  of AllocateUuids.
- Two streams at once in TLC's instances of `Subscription`, which have one to afford
  three commits; the theorems are about any number of streams.
- The destructor's stop flag in `Subscription`, and a failing `sigwait`.
- Parsing, key encodings, configuration, the unary gRPC wrappers.

## 7. Plan

1. Two streams at once in the instances of `Subscription`; the theorems already
   cover any number.
2. Channels created while a client of `ReadQueries` pages; the lemma for the batch
   (`CreateChannelGood`) is there.
