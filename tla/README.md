# TLA+ models of ugent-line-proxy

`ugent-line-proxy` stands between the LINE Messaging API and UGENT workers. LINE
posts webhook events to it; it gives every message to the worker that owns the
conversation, or to all workers; a worker answers over its WebSocket, and the
proxy sends the answer to the chat. These modules model that path, from the
webhook request to the report the worker gets, with the connections, ownership and
tables it goes through, and what stands beside it: the relationship service, the
retry queues, file hosting, and the databases' migrations. Paths below are relative to the repository, whose crate is
in `src/`.

## Inventory

| Component | State | Operations | Talks to | Hard about it | What makes it correct |
|---|---|---|---|---|---|
| WebSocket manager (`ws_manager.rs`) | `clients` (id → channel), `client_count`, `conversation_owners`, `client_conversations`; per socket: `client_id`, channel, send task | connect, authenticate, receive loop, close, panic, cleanup; claim, release, override, clear | broker (Response), RMS (override), send tasks | every socket is a task; registry steps and map updates interleave; an id may connect twice or a socket authenticate twice | the two ownership maps agree; a disconnect frees what the client owns and nothing else, and strands nothing; the count matches the registry; no ghosts |
| Message broker (`broker.rs`) | `pending_messages`; per routing: owner read, broadcast iterator | `send_to_clients`, `track_pending_message`, `handle_response` | webhook task above, manager below, LINE client | lookup, send and tracking are apart; the request can be dropped at each await; eviction | one answer per message; a delivered message is known; a broadcast misses nobody |
| LINE delivery (`broker.rs`, `line_api.rs`) | messages built, batch in hand, token's validity | text, artifacts, hosted files; reply, push, fallbacks | LINE platform | requests refused, failed or unanswered between batches; the token ages | success means all is there; no holes; no needless duplicates; always a result |
| Webhook handler (`webhook/`) | none of its own; dedup table if storage is attached | verify, parse, dedup, route each event | broker, storage | the caller hangs up; redeliveries | an event reaches the workers once; what is acknowledged was routed |
| Key-value storage (`storage/`) | pending, ownership, dedup, metrics tables | store, take, claim, release, maintenance | broker, manager (optional; `main.rs` attaches none) | the tables against the memory they mirror | what is restored is what was held |
| Queues and retry workers (`retry/`, `db/`) | outbound and inbound queue rows, delivery status | enqueue, claim, complete, requeue, expire, maintenance | broker, LINE client, SQL database | claims by several processes; crash between steps; results of database calls ignored | every message ends delivered, failed or expired; attempts are bounded |
| Message database (`db/`) | contacts, groups, messages, queue tables, schema version | open and migrate, single statements | workers, the storage's file | migrations of two programs in one file; a crash between statements | who opens it successfully can use it |
| RMS (`rms/`) | relationship table | set, remove, import, sync with runtime owners | manager, storage | snapshots; two stores updated one after the other | runtime owners and manual relationships agree |
| File hosting (`file_hosting.rs`) | content and metadata files, signed links | save, sign, verify, read, serve, cleanup | broker, HTTP clients, cleanup task | partial writes; links against expiry; cleanup against reads | a link that is valid serves its file; nothing stays for ever |
| LINE API client (`line_api.rs`) | none | reply, push, loading, content, mark as read | LINE platform | classes of failure | a failure is told from a refused token |
| Configuration and start-up (`config.rs`, `main.rs`, ...) | none after start | parse, validate, wire | all | sequential | - |

How they interact: one tokio task per webhook request runs `handle_webhook` and
calls `send_to_clients` for each event in turn; one task per WebSocket runs
`handle_socket`, which calls the manager and, for a Response, the broker's
`handle_response` inside its receive loop; one more task per socket drains its
channel. RMS calls the manager from HTTP handlers, and rms-cli, a process of its
own, writes the same tables. Shared state is locked per call, never across calls.

## Modules

```
OwnerMap <--implements-- WsManager <--implements-- MessageBroker <-- MCMessageBroker
 ^    ^                      ^                          ^
 |    |               WsManagerProofs <------- MessageBrokerProofs
Rms  OwnershipStore    FileHosting    Migrations
 ^         ^                ^             ^
 +---------+-StorageProofs--+-------------+
                                        LineDelivery, SplitText <-- LineDeliveryProofs
ClaimQueue <-- ClaimQueueProofs
 ^     ^                                WebhookIntake, TaskLocks <-- TaskProofs
 |     +-- InboundQueue <-- InboundQueueProofs, MCInboundQueue
 +-- OutboundQueue <-- OutboundQueueProofs, MCOutboundQueue

MCProxy EXTENDS Rms, OwnershipStore, WebhookIntake, FileHosting, SplitText,
                TaskLocks, Migrations
```

### The path of a message

* **OwnerMap** is the abstract specification of conversation ownership: two maps and
  four atomic operations. WsManager implements it (`ImplementsOwnerMap`, checked and
  proved), and Rms and OwnershipStore are written against it.
* **WsManager** models `ws_manager.rs`. A socket (`Socks`) is a slot for
  connections; `loop[s]` is where its task is, with one phase for every access to
  shared state in `add_client` and `remove_client`, because these run outside any
  common lock. A method that holds its locks for its whole body (`claim_conversation`,
  `release_client_conversations`, `set_conversation_owner`,
  `clear_conversation_owner`) is one step; TaskLocks takes these apart. The history
  variables `overridden` and `overwrites` record RMS overrides and replaced
  registrations, to name the causes of what the properties tolerate.
* **MessageBroker** EXTENDS WsManager and adds `send_to_clients` as the phases of
  `route[m]`, the pending table, and a Response as the phases of `resp[s]`. Its
  connection steps are WsManager's actions; `Spec` of WsManager is checked, and
  proved, to be implemented by it (`ImplementsWsManager`), so that WsManager is the
  abstract specification of what the broker may do to connections and ownership.
  RMS takes no part in this module's next-state relation: its runs are WsManager's.
* **LineDelivery** models one `handle_response` after its pending entry is taken:
  building the messages, hosting files, choosing reply or push, the batches, the
  report. It is a module of its own because nothing in it is shared; MessageBroker
  has it as the single phase `"send"`.
* **SplitText** is `split_text`, one iteration a step, on texts as sequences of the
  classes of bytes it tells apart: newline and space, at which it cuts, any other white
  space, which `trim_start` takes away as well, and the rest, of one byte or of
  several. Its panic is `PanicInResponse` of MessageBroker.
  The history variable `starts` records where in the text each chunk was cut from.
* **WebhookIntake** models `handle_webhook` and `process_event`: requests side by
  side, from signature and parsing to the 200, the deduplication table, LINE's
  redeliveries, a caller that hangs up while an event is routed, a crash. Whether
  there is a table, and whether redeliveries are processed, is chosen at the start.
  LINE itself (`Deliver`) is external. MessageBroker has the same request as the
  order of its messages (`Earlier`) and `HangUp`.

### Beside it

* **Rms** models `rms/service.rs` over `rms/storage.rs`: one step per SQL statement,
  for the database lock is held no longer. `call[t]` is where a caller is; callers are
  tasks of the server or processes of rms-cli, whose manager is a dummy with no
  clients. Runtime claims and releases, and a restart, go on around the calls.
* **OwnershipStore** models the manager with its ownership table
  (`storage/ownership.rs`), failed writes, maintenance, crash, and a start that loads
  the table or does not.
* **TaskLocks** models who waits for whom: the methods of the manager as sequences
  of locks taken and sends awaited, the bounded channels, and the worker threads. A
  lookup of a client locks its shard; an iterator passes the shards in `ShardOrder`
  and locks the next before it lets go of the last (`Exchange`); clients connect,
  respond and leave.
* **FileHosting** models `file_hosting.rs`: writing content and metadata in two
  halves each, links, downloads, passes of the cleanup, the clock in seconds, crashes.
* **Migrations** models who sets up the tables: the storage, the message database in
  a file and on a server, one statement a step, several openers at once.
* **ClaimQueue** is what the two queue tables of `src/db` have in common: claim,
  read back, take up, settle, enqueue. It is a specification of its own
  (`QueueSpec`), and the abstract one of both workers. A claim is two steps, because
  with PostgreSQL its UPDATE and SELECT are two statements; the SELECT returns all
  that is locked under the worker's id, which is made of the process id: it may
  come back after a restart, or be another host's.
* **InboundQueue** and **OutboundQueue** EXTEND it with `process_entry` of
  `src/retry`, one action per await, each of which may fail or be the last before
  the worker stops (or, for the inbound one, before the tick of its cleanup drops
  the batch). What LINE does with a request is external: it takes a reply token once.
* **...Proofs** hold the theorems. **MC...** hold values of constants and symmetry
  sets. **MCProxy** puts the components that share nothing in one model: `scene` says
  which of them moves, the others stay where they begin, so its states are the sum
  of theirs and not the product.

Abstractions. Identifiers are model values. A message is its place in a sequence; what
LINE does to a request is one of four answers: taken, refused for its token,
failed, or taken with the answer lost. Times are what the code compares: the
token's age is the flag `fresh`, a row's age the set `aged`; only FileHosting has a
clock. In `track_pending_message` the entries that have
expired are the oldest ones, so dropping them keeps the `n` newest for some `n`.
In WsManager and MessageBroker a send to a channel is one step with the lookup of its
entry, since the lookup keeps its shard locked meanwhile, and channels have no bound;
TaskLocks has both. In `MessageBroker` a worker answers only messages its client id
was given, on any connection, any number of times.

What the shipped program does not connect. `main.rs` attaches no storage to the
broker or the manager, constructs neither database, starts no retry worker, and
nothing but tests creates the RMS tables. These parts are modelled as a program that
uses them as their documentation says; the modules' headers say so.

## Runs

| Run | Bounds | Asks |
|---|---|---|
| `ws` | 2 client ids, 2 sockets, 1 conversation, slots reused, `MaxCount` 3 | `OwnerTracked`, `StaleOnlyAfterOverride`, `CountAccounting`, `GhostOnlyAfterReauth`, `StrandedHasCause`, `ImplementsOwnerMap` |
| `broker` | 2 ids, 2 sockets, 1 conversation, 2 messages of one request, pending table of 1 | `AnsweredOnce`, `KnownUnlessOwnedWindow`, `PendingBounded`, `BroadcastReachesSteady`, `ImplementsWsManager`, `DeadOwnerForgotten` |
| `line_delivery` | batches of 2, 3 chunks, 2 artifacts | `SuccessMeansAllSent`, `NoHoles`, `TwiceOnlyAcrossBatches`, `NamedAgainOnlyIfUnsure`; under fairness `Concluded` |
| `inbound` | 2 workers, the first under one id, the second under that one or another (`IdsOf`), 1 message, 2 rows, batches of 1 | `NotForgotten`, `TwiceHasCause`, `SameEntrySameId`, `ImplementsClaimQueue`; under fairness `ClaimedInTheEnd` |
| `outbound` | 2 workers, 2 ids, 1 message, 3 rows, 2 attempts of 2 requests | `LossHasCause`, `RepeatsHaveCause`, `ImplementsClaimQueue` |
| `outbound_live` | as above with 1 worker, no symmetry | under fairness `Settles` |
| `proxy` | one scene per component, below | `ApartHasCause`, `SyncExact`, `StatusExact` (Rms); `DriftHasCause`, `RestoredIsTracked` (OwnershipStore); `RoutedTwiceHasCause`, `AckedMeansRouted` (WebhookIntake); `PromptLinkServes`, `LeftoverHasCause`, `PassRemovesDue` (FileHosting); `SplitKeepsText`; `StopHasCause`, `OwnershipApart` (TaskLocks); `OpenMeansServed` (Migrations) |
| `release_own` | as `ws`, slots used once | violated: a disconnect takes a conversation that RMS gave to someone else |
| `first_response` | as `broker` | violated: the first response taken and the claim can go to different workers |
| `inbound_release` | as `inbound` | violated: after a failed delivery the old entry stays locked beside the new one |
| `outbound_permanent` | as `outbound_live` | violated: a message that LINE refused for good is sent again |
| `split_text` | texts of up to 6 bytes, chunks of up to 3 | violated: a text whose byte `max_len` is inside a character panics, blanks or not |

Scenes of `proxy`. *rms*: 2 clients, 1 conversation; one task makes every call,
one races it with a set, rms-cli imports and syncs. *store*: 2 clients, 1
conversation. *intake*: 1 batch of 2 events, 2 tasks, sent up to 3 times, at most one
event that is not a message. *hosting*: 2 files, a life of 1 s, 3 s of clock. *split*:
every text of up to 6 bytes, cut at 3. *locks*: 2 clients in the second of 2 shards, 1
request, 2 threads, channels of 1. *schema*: 2 openers of a file, or of a server.

Why these bounds are enough: two sockets and two ids are the least with which an id
reconnects before the cleanup of its former connection, a socket authenticates
under a second id, and an owner is overridden; every property relates at most two
clients and one conversation, and a release of several conversations is the same
step for each. Two messages and a table of one make an eviction and a stale owner
meet; a third would only repeat them. Batches of 2 with up to 5 messages give an
empty, a full and an odd last batch and a refusal before, between and after them.
In the queues, two workers with two ids meet as strangers, as one id on two hosts,
and as a restart under the old id or a new one; two inbound rows are an entry and
its requeued successor, so that one is in the way of the other; three outbound rows
are one more than the attempts allow, so that an attempt too many would show, and
so are the requests counted up to one above the budget.
Three deliveries of a batch give a first one, one beside it and one after both; two
events are one that is done and one that is cut off. A life of one second in a clock
of three has a link made before, with and after its file's expiry, and a pass of the
cleanup at each. Six bytes cut at three have two cuts, characters of two to six bytes
and blanks on either side of a cut. Two threads are the least that two orders of
locks can stop; two clients in one shard are the case in which a full channel stops
others, and the empty shard before it has an iterator hand over its lock.
`MaxCount` only stops `InsertClient`, for the count may drift upwards for ever; it
leaves room for two replaced registrations. `Reuse = FALSE` lets a slot serve one
connection. `UsizeBits` is 4 instead of 64: counts stay below 16, so that a wrap is
seen as one.

Symmetry (`broker`, `first_response`: ids and sockets; `outbound`: workers and their
ids; `proxy`: clients, peers, files, webhook tasks and openers, all by the same two
names): they are interchangeable and the properties checked under it are no liveness
properties. `CHECK_DEADLOCK FALSE` is set where the system
really stops: a finite number of messages, one delivery, queues whose rows are used
up, a text that is cut, and TaskLocks, whose stop is what `StopHasCause` is about.

Fairness. In LineDelivery every request ends, because the HTTP client has a timeout
of 30 s, and the handler goes on up to its report; the report itself is not fair,
since it awaits room in a bounded channel without a limit (and is made only for a
response with a `request_id`), so that `Concluded` ends where the report is due.
The inbound worker's cleanup ticks whatever a batch waits for, and the next batch begins
long before the next tick (`SF` on the claim, which also says that the database does
not refuse it for ever). The outbound worker goes on while it is not stopped; every
pending row comes due, and reads of the database succeed at last. Nothing makes a
worker start, and writes may fail for ever. WsManager, MessageBroker and the scenes of
`proxy` are checked for safety only: a send to a live channel may wait for ever,
callers may hang up, processes may die, and the cleanup of a socket may wait for a
shard or for the ownership locks without end (`StopHasCause`). What a disconnect
promises is therefore `StrandedHasCause`: not that a cleanup comes to its end, but that
nothing its client owned is left behind when it does.

## Where code and documentation disagree

Five runs expect a violation; `PROJECT.json` quotes the lines.

* `release_own`: an override leaves the conversation in its former owner's set, whose
  disconnect then frees it.
* `first_response`: reading the pending entry, claiming the conversation and taking
  the entry are three steps, so that the worker that claims need not be the one whose
  answer is taken.
* `inbound_release`: a failed inbound entry is not released but doubled.
* `outbound_permanent`: errors documented as non-retryable are retried.
* `split_text`: "safe boundaries" are not: the slice in which a blank is looked for
  ends at byte `max_len`, inside a character of several bytes or not, and panics there.

Observed while modelling, and named as causes in the properties:

* `ApartHasCause`: an import, and everything rms-cli does, changes the table only; a
  client that leaves frees a conversation that a manual row still gives to it.
* `StrandedHasCause`: of two connections with one id, the cleanup of the first takes the
  entry of the second, whose own cleanup then finds none and releases nothing. What it
  claimed in between stays with a client that is gone until a routing finds it so.
* `NotForgotten`, `TwiceHasCause`, `AckedMeansRouted`: `broadcast` compares its failures
  with a number of clients taken before it began. When they have left since, it is Ok
  with nobody reached; when as many fail as it counted, it is an error, whoever of those
  that came late has the message. The worker then drops a message that nobody has, or
  queues one again that somebody has.
* `SyncExact`: `rms-cli sync` sees no runtime owners at all, and so removes every
  automatic row. A sync that has to add a row for a conversation without an entity is
  refused by the foreign key (`PutRefused`), and adds no entity itself: it ends with an
  error, with what it has put so far in the table.
* `StatusExact`: a change between the two counts makes `total - manual` wrong by one more
  or two less for each conversation changed, and wrap where there are too few.
* `DriftHasCause`: overrides never reach the ownership table; a restart undoes them.
* `AckedMeansRouted`: one event that serde cannot read refuses its whole request with
  400; a routing that failed, or reached nobody, is only logged, if at all, and the
  request answered with 200; with the table, an event whose request was dropped is lost to its redelivery.
* `PromptLinkServes`: only a link made within a second of the file's timestamp is
  good for its whole life, since the cleanup goes by the file's.
* `LeftoverHasCause`: content whose metadata was never completed stays for ever.
* `OpenMeansServed`: docs/DATABASE_RETRY.md:75 and `db/config.rs:153` give the message
  database the storage's default path. In one file the tables of the same names have
  different columns: after the storage's version 1 the database's second migration is
  refused each time; after the database's version 2 the storage opens without an error
  and its queries miss their columns. Of two storages that open a new file at once, the
  later is refused, since it inserts a version that is there.
* `StopHasCause`: two orders of the ownership locks, and a registry shard that stays
  locked while a full channel is awaited, can each stop every thread. `OwnershipApart`
  shows that the second leaves claims and releases alone.

## Proofs

All theorems hold for any values of the constants that satisfy the modules' named
assumptions: `ConstantsAssumption` and `NoClientAssumption` (the finite sets, and the
"none" values that lie outside them), `BrokerAssumption`, `DeliveryAssumption`,
`QueueAssumption`, `InboundAssumption`, `OutboundAssumption`, `HostingAssumption`,
`BatchesAssumption` (no event is in two places), `CallersAssumption`,
`RowsCountable` (a table has fewer rows than a usize counts), `SplitAssumption`,
`TaskLocksAssumption` (shards are neither of the ownership maps; clients and requests
are finitely many). TLC evaluates these on every run.

* *WsManager.* `TypeOK` is inductive. `OwnerTracked` and `StaleOnlyAfterOverride`
  are inductive together with it: each ownership operation is a lemma
  (`ClaimAgrees`, `ReleaseAgrees`), every other step leaves the maps alone.
  `OwnershipChangesLawfully` follows step by step from them. `GhostOnlyAfterReauth`
  needs that a socket in its cleanup has a client id (`IdWhileRemoving`).
  `StrandedHasCause` follows from `OwnerTracked`, for what a client owns is in the set
  that its last connection releases, and from how a connection can stop serving a
  client (`ServingGoesOn`).
  `CountAccounting` is inductive with the lemma `Sizes` on the cardinality of a set that
  gains or loses an element; `CountNeverNegative` follows, with `CountCovers`: the
  sockets between removing and uncounting are covered by what was counted.
  `OwnerMapImplemented` maps the initial state and each step to OwnerMap's.
* *MessageBroker.* The locals a phase relies on are set (`LocalsSet`), so every
  broker step is a WsManager step or leaves `wsVars` alone:
  `BrokerImplementsWsManager`, from which `BrokerInheritsWsManager` carries the
  theorems above over. `AnsweredOnce` needs that an answered message never returns
  to the table; `KnownUnlessOwnedWindow` that a message is settled or not yet given
  to anyone; `BroadcastReachesSteady` that every steady entry is ahead of the
  iterator or has been sent to. `DeadOwnerForgotten` uses `OwnerTracked`: the release
  frees what the owner's set holds, and what it owns is there. `PendingBounded` needs
  the cardinality of what an eviction keeps.
* *LineDelivery.* `Built` describes the messages by the artifacts passed so far,
  `Progress` the counts by the batches taken by the token and by push; the
  properties follow from the shape they give `sent`. `DeliveryShortens` is the part
  of `Concluded` that can be proved: a number (`Remaining`) that every step of
  handle_response up to its report makes less, whatever LINE answers.
* *SplitText* (in LineDeliveryProofs). `SplitKeepsText` is inductive once the rest
  begins at the boundary of a character and, after the first cut, not with white
  space (`SplitInv`). `SplitPointIs` and `TrimStartIs` say what the two searches find in any
  text, from the least and the greatest element of a set of positions; one lemma,
  `PieceTaken`, serves all steps that take a chunk. `CutsShorten` is that the loop
  ends: an empty chunk is followed by white space that is dropped (`CutTakes`).
* *ClaimQueue.* `SameEntrySameId` is not inductive: that nobody else reads an entry
  back needs that it is locked under its holder's id until it is settled (`HeldOK`),
  that only rows in processing are locked (`LockOK`), so that no claim takes one, and
  that an id changes only with empty hands (`OffOK`). As long as no two workers have
  had one id, more holds (`ApartInv`): an entry is in one pair of hands.
* *InboundQueue.* Each step is one of ClaimQueue or leaves it alone (`ClaimStep`), which
  gives `InboundImplementsClaimQueue` and carries the invariant over. `NotForgotten`
  and `DeliveredHasCause` need that what a worker is about to write is true
  (`PlaceOK`) of the entry in hand, which nobody enqueues over (`HeldOK`).
  `TwiceHasCause` rests on `ApartInv`.
* *OutboundQueue.* It implements ClaimQueue in the same way. `LossHasCause` needs
  that a message without a live row is in the hand of the worker that has just settled
  it and goes on to the next (`Kept`), and that what is completed was acknowledged.
  `RepeatsHaveCause` bounds the requests of a message by the attempt its rows are at
  and the tries of the worker that has it in hand; it counts on one pair of hands
  (`ApartInv`) and on one live row for each message (`OneLive`).
* *OwnershipStore* (in StorageProofs). `RestoredIsTracked` and `DriftHasCause` are inductive with the
  types, once the first is said of a process that is down as well.
* *Rms* (in StorageProofs). `ApartHasCause` is inductive once it is known what each
  call carries (`CallsOK`) and that a manual row names a client (`TablesOK`): a set
  between its put and its notice stands for the difference it has made. `SyncExact`
  needs `SyncOK`: of the conversations no other has touched, what a sync has yet to put
  and to remove is what sets the rows apart from the owners. A caller that does nothing
  in a step stands aside (`Aside`): what changes of a conversation it is told of
  (`OthersAside` for the steps of other calls, `AroundAside` for claims, releases and a
  restart), so that what holds of the rest goes on. `StatusExact` adds what get_status
  has counted so far (`StatusOK`); `CountsApart` says by how much two sets of rows that
  agree outside of the conversations touched can differ in size.
* *Migrations* (in StorageProofs). `OpenMeansServed` needs what each opener has yet to
  run (`OpenersOK`): that it is in order, so that a version is recorded after the
  tables it stands for, and that with the tables there are it covers what the opener
  needs. `VersionsOK` says of a version recorded by anyone that its tables are there.
  One lemma for each action keeps both, and with them that a table, once made, keeps
  its columns.
* *FileHosting* (in StorageProofs). What is on disk follows from how far the save has
  come (`SavedOK`), a file goes only when it has expired (`GoneOK`), the cleanup
  has an expired file with whole metadata in its hands (`SweepOK`). `PassRemovesDue`
  needs that what is due is ahead of the pass or in its hands (`DueOK`),
  `PromptLinkServes` that a download which comes to nothing has met an expired link or
  file (`DownloadOK`), remembered since the clock does not go back.
* *WebhookIntake* (in TaskProofs). Two inductive invariants, one for each thing that keeps an event
  from being routed twice. Where redeliveries are left out (`FirstInv`), one request of
  a batch is its first, and what it has yet to route is new. Where there is the table
  (`MarkedInv`), an event whose mark stands is in it from before it is routed, and one
  task at most routes it. Every step but the beginning of a request advances tasks in
  one way (`GoesOn`), so each invariant has one lemma for it. `AckedMeansRouted` follows
  from a third (`PassedInv`): an event that a request has passed, that is in the table
  or that is acknowledged has been done with, in one of the ways it lists.
* *TaskLocks* (in TaskProofs). The strengthening says that the rest of a task's method
  leads from what it has locked to nothing locked, through stages that it names
  (`Sound`): no lock, one ownership map or both, a look at a map, a shard read, an
  entry written. It is a fact about each method (`OwnershipSound`, `SendToSound`,
  `BroadcastSound` for any number of shards, ...), kept when a method is taken a step
  further (`SoundTail`), goes on with a send (`SoundSend`) or is followed by another
  (`SoundConcat`); so the invariant is kept by every step (`LocksStep`), with
  `ThreadsOK`, the tasks on threads counted. `OwnershipApart` can be read off the
  stages. For `StopHasCause`, if as many tasks are blocked as there are threads, they
  are all there are on threads, and whoever has a lock that is waited for is blocked
  too, or awaits room with a shard (`HolderWaits`); of the stages, only one map held
  and the other awaited can then close the circle. `UpdatesAlone` is why the methods
  on the ownership maps can be one step each in WsManager, Rms and OwnershipStore: who
  has both maps has them alone.

Proved and in no run: the type invariants, `OwnershipChangesLawfully`,
`CountNeverNegative`, `DeliveredHasCause`, `UpdatesAlone`, and the two steps towards
termination, `DeliveryShortens` and `CutsShorten`.

Only model-checked: the three liveness properties, which are out of the prover's reach
(`Concluded`, `ClaimedInTheEnd`, `Settles`). Every
invariant and every action property of a passing run is a theorem.

## Not modelled

* Configuration and start-up: sequential parsing, validation and wiring.
* The contacts, groups and messages of the message database, the listings of RMS and
  the commands' output: single statements on rows that nothing else depends on.
* The storage's pending and metrics tables, which are written beside the memory and
  which only the status of RMS counts; backoff times and the pruning of the queues, which nothing calls.
* `client_infos` and `reply_token_map`, which nothing that routes reads.
* The signature of a request and of a link, encodings, formats, logging, metrics and
  HTTP details: pure functions, or left to what the properties tell apart.
